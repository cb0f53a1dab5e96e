---------------------------- MODULE Delivery_proofs ----------------------------
(***************************************************************************)
(* Proofs about the delivery side, for any jobs, endpoints, worker         *)
(* threads, thresholds and bounds, and any number of restarts: its types,  *)
(* that every send is authorized, that no job is lost silently, and the    *)
(* bounds on repeated sends and on sends after the breaker opened, and     *)
(* that it implements Dispatch.                                            *)
(***************************************************************************)
EXTENDS Delivery, FiniteSetTheorems, TLAPS

WorkRecord == [step : Steps, job : Jobs \cup {None}, ep : Endpoints \cup {None},
               consented : BOOLEAN, reason : Reasons, wasGranted : BOOLEAN,
               wasEligible : SUBSET Endpoints, wasRevoked : SUBSET Endpoints]
HandedOver(w) == w.step \notin {"idle", "rejected", "mark"}

(* What the prover needs to know of the types.                             *)
Types ==
    /\ now \in 1 .. MaxTime /\ timeUp \in BOOLEAN
    /\ issued \in [Jobs -> 0 .. MaxTime] /\ queue \subseteq Jobs /\ seen \subseteq Jobs
    /\ endpoint \in [Endpoints -> {"new", "verified", "revoked"}]
    /\ confirming \subseteq Endpoints /\ overwritten \subseteq Endpoints /\ granted \in BOOLEAN
    /\ breaker \in [failures : Nat, open : BOOLEAN]
    /\ dlq \in Seq(Jobs \X Reasons) /\ Len(dlq) <= DLQSize
    /\ shelved \subseteq Jobs /\ work \in [Workers -> WorkRecord]
    /\ audit \subseteq Jobs \X Outcomes
    /\ sends \in [Jobs -> Nat] /\ late \in Nat /\ restarts \in Nat

(* What a worker's locals say of the shared state.  What is permitted now  *)
(* was permitted during its processing, and what was revoked before still  *)
(* is, or was overwritten.  So the endpoint and the consent are authorized *)
(* from the checks on, and a job to be dead-lettered by the consumer is on *)
(* the trail as rejected.                                                  *)
Authorized(w) ==
    /\ w.wasGranted /\ w.ep \in w.wasEligible /\ w.ep \in Endpoints
    /\ w.ep \in w.wasRevoked => w.ep \in overwritten
WorkerOK(w) ==
    /\ w.step # "idle" => w.job \in Jobs
    /\ w.step \notin {"idle", "rejected"} => w.job \in Valid
    /\ w.step = "rejected" => <<w.job, "rejected">> \in audit
    /\ HandedOver(w) =>
           /\ w.job \in seen
           /\ granted => w.wasGranted
           /\ Eligible \subseteq w.wasEligible
           /\ \A p \in w.wasRevoked : endpoint[p] = "revoked" \/ p \in overwritten
    /\ w.consented => HandedOver(w) /\ w.wasGranted
    /\ w.step \in {"breaker", "send"} => Authorized(w)
    /\ w.step = "sent" => w.ep \in Endpoints
    /\ w.step = "deny" => w.reason # "none"
WorkersOK == \A t \in Workers : WorkerOK(work[t])

(* A job not yet seen in this life of the process was not sent in it; for  *)
(* one that was, the threads that may still send it count as sends.        *)
SendsInv ==
    \A j \in Jobs :
        /\ sends[j] <= Cardinality(Workers) * (1 + restarts)
        /\ j \notin seen => sends[j] <= Cardinality(Workers) * restarts
        /\ j \in seen => sends[j] + Cardinality(Senders(j)) <= Cardinality(Workers) * (1 + restarts)

(* Behind an open breaker, the threads about to send count as late sends,  *)
(* and the one whose failure opened it is not among them.                  *)
Sending == {t \in Workers : At(t, "send")}
LateInv ==
    /\ ~breaker.open => late = 0
    /\ breaker.open => late + Cardinality(Sending) < Cardinality(Workers)

IInv == Types /\ WorkersOK /\ SendsInv /\ LateInv /\ NoSilentLoss

-----------------------------------------------------------------------------
LEMMA TypesInit == Init => Types /\ WorkersOK
<1> SUFFICES ASSUME Init PROVE Types /\ WorkersOK
    OBVIOUS
<1>1. Idle \in WorkRecord
    BY DEF Idle, WorkRecord, Steps, Reasons
<1>2. Types
    BY <1>1, DeliveryAssumption DEF Init, Types, Closed, None
<1>3. WorkersOK
    BY DEF Init, WorkersOK, WorkerOK, HandedOver, Idle
<1> QED BY <1>2, <1>3

(* One worker's locals change, and nothing they are compared with, except  *)
(* that more jobs may be seen and more is on the trail.                    *)
Kept == UNCHANGED <<endpoint, granted, overwritten>> /\ seen \subseteq seen' /\ audit \subseteq audit'
LEMMA OneWorker ==
    ASSUME Types, WorkersOK, NEW t \in Workers, NEW r \in WorkRecord, Kept,
           work' = [work EXCEPT ![t] = r],
           r.step # "idle" => r.job \in Jobs,
           r.step \notin {"idle", "rejected"} => r.job \in Valid,
           r.step = "rejected" => <<r.job, "rejected">> \in audit',
           HandedOver(r) => /\ r.job \in seen' /\ (granted => r.wasGranted)
                            /\ Eligible \subseteq r.wasEligible
                            /\ \A p \in r.wasRevoked : endpoint[p] = "revoked" \/ p \in overwritten,
           r.consented => HandedOver(r) /\ r.wasGranted,
           r.step \in {"breaker", "send"} => Authorized(r),
           r.step = "sent" => r.ep \in Endpoints,
           r.step = "deny" => r.reason # "none"
    PROVE  work' \in [Workers -> WorkRecord] /\ WorkersOK'
<1>1. \A u \in Workers : work'[u] = IF u = t THEN r ELSE work[u]
    BY DEF Types
<1>2. Eligible' = Eligible
    BY DEF Eligible, Kept
<1>3. ASSUME NEW u \in Workers PROVE WorkerOK(work[u])'
    <2>1. CASE u = t
        BY <1>1, <1>2, <2>1 DEF WorkerOK, HandedOver, Authorized, Kept
    <2>2. CASE u # t
        BY <1>1, <1>2, <2>2 DEF WorkersOK, WorkerOK, HandedOver, Authorized, Kept
    <2> QED BY <2>1, <2>2
<1> QED BY <1>3 DEF WorkersOK, Types

(* The three ways in which a worker goes on.                               *)
LEMMA GoToOK ==
    ASSUME Types, WorkersOK, NEW t \in Workers,
           NEW s \in Steps \ {"idle", "rejected", "mark", "deny"},
           HandedOver(work[t]), GoTo(t, s), Kept,
           s \in {"breaker", "send"} => Authorized(work[t]),
           s = "sent" => work[t].ep \in Endpoints
    PROVE  work' \in [Workers -> WorkRecord] /\ WorkersOK' /\ queue' = queue
<1> DEFINE w == work[t]
           r == [w EXCEPT !.step = s]
<1>1. w \in WorkRecord /\ WorkerOK(w)
    BY DEF Types, WorkersOK
<1>2. /\ r \in WorkRecord /\ r.step = s /\ r.job = w.job /\ r.ep = w.ep /\ r.consented = w.consented
      /\ r.wasGranted = w.wasGranted /\ r.wasEligible = w.wasEligible /\ r.wasRevoked = w.wasRevoked
    BY <1>1 DEF WorkRecord
<1>3. work' = [work EXCEPT ![t] = r] /\ queue' = queue
    BY DEF GoTo
<1> HIDE DEF r
<1>4. HandedOver(r)
    BY <1>2 DEF HandedOver
<1>5. r.step \in {"breaker", "send"} => Authorized(r)
    BY <1>2 DEF Authorized
<1> QED BY <1>1, <1>2, <1>3, <1>4, <1>5, OneWorker DEF WorkerOK, HandedOver, Kept

LEMMA GiveUpOK ==
    ASSUME Types, WorkersOK, NEW t \in Workers,
           NEW s \in {"deny", "dead letter"}, NEW reason \in Reasons \ {"none"},
           HandedOver(work[t]), GiveUp(t, s, reason), Kept
    PROVE  work' \in [Workers -> WorkRecord] /\ WorkersOK' /\ queue' = queue
<1> DEFINE w == work[t]
           r == [w EXCEPT !.step = s, !.reason = reason]
<1>1. w \in WorkRecord /\ WorkerOK(w)
    BY DEF Types, WorkersOK
<1>2. /\ r \in WorkRecord /\ r.step = s /\ r.reason = reason /\ r.job = w.job
      /\ r.consented = w.consented /\ r.wasGranted = w.wasGranted
      /\ r.wasEligible = w.wasEligible /\ r.wasRevoked = w.wasRevoked
    BY <1>1 DEF WorkRecord, Steps
<1>3. work' = [work EXCEPT ![t] = r] /\ queue' = queue
    BY DEF GiveUp
<1> HIDE DEF r
<1>4. HandedOver(r)
    BY <1>2 DEF HandedOver
<1> QED BY <1>1, <1>2, <1>3, <1>4, OneWorker DEF WorkerOK, HandedOver, Kept

LEMMA DoneOrRaiseOK ==
    ASSUME Types, WorkersOK, NEW t \in Workers, Done(t) \/ Raise(t), Kept
    PROVE  work' \in [Workers -> WorkRecord] /\ WorkersOK' /\ queue' \subseteq queue
<1>1. Idle \in WorkRecord /\ Idle.step = "idle" /\ ~Idle.consented
    BY DEF Idle, WorkRecord, Steps, Reasons
<1>2. work' = [work EXCEPT ![t] = Idle] /\ queue' \subseteq queue
    BY DEF Done, Raise
<1> QED BY <1>1, <1>2, OneWorker DEF HandedOver

(* The audit trail stays one, whether or not an entry can be written.      *)
LEMMA AuditType ==
    ASSUME Types, NEW j \in Jobs, NEW what \in Outcomes, AuditAppend(j, what) \/ AuditRaises
    PROVE  audit' \subseteq Jobs \X Outcomes
BY DEF AuditAppend, AuditRaises, Types

-----------------------------------------------------------------------------
(* Every step of a worker preserves the types and what its locals say.     *)
LEMMA AcceptOK ==
    ASSUME Types, WorkersOK, NEW t \in Workers, NEW j \in Jobs, Accept(t, j)
    PROVE  Types' /\ WorkersOK'
<1> DEFINE w == work[t]
           r == [w EXCEPT !.step = "mark", !.job = j]
<1>1. w \in WorkRecord /\ WorkerOK(w) /\ j \in Valid /\ w.step = "idle"
    BY DEF Types, WorkersOK, Accept, Rejected, At
<1>2. r \in WorkRecord /\ r.step = "mark" /\ r.job = j /\ r.consented = w.consented
    BY <1>1 DEF WorkRecord, Steps
<1>3. work' = [work EXCEPT ![t] = r] /\ Kept
    BY DEF Accept, Kept, env, permits
<1>4. ~r.consented
    BY <1>1, <1>2 DEF WorkerOK, HandedOver
<1> HIDE DEF r
<1>5. work' \in [Workers -> WorkRecord] /\ WorkersOK'
    BY <1>1, <1>2, <1>3, <1>4, OneWorker DEF HandedOver
<1> QED BY <1>5 DEF Accept, env, permits, Types

LEMMA RejectOK ==
    ASSUME Types, WorkersOK, NEW t \in Workers, NEW j \in Jobs, Reject(t, j)
    PROVE  Types' /\ WorkersOK'
<1> DEFINE w == work[t]
           r == [w EXCEPT !.step = "rejected", !.job = j]
<1>1. w \in WorkRecord /\ WorkerOK(w) /\ w.step = "idle"
    BY DEF Types, WorkersOK, Reject, At
<1>2. r \in WorkRecord /\ r.step = "rejected" /\ r.job = j /\ r.consented = w.consented
    BY <1>1 DEF WorkRecord, Steps
<1>3. work' = [work EXCEPT ![t] = r] /\ Kept /\ <<j, "rejected">> \in audit'
    BY DEF Reject, Kept, env, permits, AuditAppend
<1>4. ~r.consented
    BY <1>1, <1>2 DEF WorkerOK, HandedOver
<1> HIDE DEF r
<1>5. work' \in [Workers -> WorkRecord] /\ WorkersOK'
    BY <1>2, <1>3, <1>4, OneWorker DEF HandedOver
<1> QED BY <1>5 DEF Reject, env, permits, Types, AuditAppend, Outcomes

LEMMA DeadLetterRejectedOK ==
    ASSUME Types, WorkersOK, NEW t \in Workers, DeadLetterRejected(t)
    PROVE  Types' /\ WorkersOK'
<1>1. Kept /\ (Done(t) \/ Raise(t)) /\ Job(t) \in Jobs
    BY DEF DeadLetterRejected, CallbackRaises, Kept, env, permits, At, Job, WorkersOK, WorkerOK
<1>2. work' \in [Workers -> WorkRecord] /\ WorkersOK' /\ queue' \subseteq queue
    BY <1>1, DoneOrRaiseOK
<1>3. shelved' \subseteq Jobs
    BY <1>1 DEF DeadLetterRejected, CallbackRaises, Types
<1> QED BY <1>2, <1>3 DEF DeadLetterRejected, env, permits, Types

LEMMA MarkOK ==
    ASSUME Types, WorkersOK, NEW t \in Workers, Mark(t)
    PROVE  Types' /\ WorkersOK'
<1> DEFINE w == work[t]
           s == IF Job(t) \in Owned THEN "resolve" ELSE "dead letter"
           reason == IF Job(t) \in Owned THEN "none" ELSE "no_owner"
           r == [w EXCEPT !.step = s, !.reason = reason,
                          !.wasGranted = granted, !.wasEligible = Eligible, !.wasRevoked = Revoked]
<1>1. /\ w \in WorkRecord /\ WorkerOK(w) /\ w.step = "mark"
      /\ w.job \in Valid /\ w.job \in Jobs /\ Job(t) = w.job
    BY DeliveryAssumption DEF Types, WorkersOK, Mark, At, Job, WorkerOK
<1>2. s \in {"resolve", "dead letter"} /\ reason \in Reasons
    BY DEF Reasons
<1>3. work' = [work EXCEPT ![t] = r]
    BY DEF Mark
<1>4. granted \in BOOLEAN /\ Eligible \subseteq Endpoints /\ Revoked \subseteq Endpoints
    BY DEF Types, Eligible, Revoked
<1> HIDE DEF s, reason
<1>5. /\ r \in WorkRecord /\ r.step = s /\ r.job = w.job /\ r.consented = w.consented
      /\ r.wasGranted = granted /\ r.wasEligible = Eligible /\ r.wasRevoked = Revoked
    BY <1>1, <1>2, <1>4 DEF WorkRecord, Steps
<1>6. seen' = seen \cup {w.job} /\ Kept
    BY <1>1 DEF Mark, Kept, env, permits
<1>7. ~w.consented
    BY <1>1 DEF WorkerOK, HandedOver
<1> HIDE DEF r
<1>8. work' \in [Workers -> WorkRecord] /\ WorkersOK'
    BY <1>1, <1>2, <1>3, <1>5, <1>6, <1>7, OneWorker DEF HandedOver, Revoked
<1> QED BY <1>1, <1>6, <1>8 DEF Mark, env, permits, Types

LEMMA ResolveOK ==
    ASSUME Types, WorkersOK, NEW t \in Workers, Resolve(t)
    PROVE  Types' /\ WorkersOK'
<1>1. HandedOver(work[t]) /\ work[t] \in WorkRecord /\ WorkerOK(work[t]) /\ Kept
    BY DEF Types, WorkersOK, Resolve, At, HandedOver, env, permits, Kept
<1>2. work' \in [Workers -> WorkRecord] /\ WorkersOK' /\ queue' = queue
    <2>1. ASSUME NEW p \in Eligible,
                 work' = [work EXCEPT ![t].step = "consent", ![t].ep = p], queue' = queue
          PROVE  work' \in [Workers -> WorkRecord] /\ WorkersOK' /\ queue' = queue
        <3> DEFINE w == work[t]
                   r == [w EXCEPT !.step = "consent", !.ep = p]
        <3>1. p \in Endpoints
            BY DEF Eligible
        <3>2. /\ r \in WorkRecord /\ r.step = "consent" /\ r.job = w.job
              /\ r.consented = w.consented /\ r.wasGranted = w.wasGranted
              /\ r.wasEligible = w.wasEligible /\ r.wasRevoked = w.wasRevoked
            BY <1>1, <3>1 DEF WorkRecord, Steps
        <3>3. work' = [work EXCEPT ![t] = r]
            BY <2>1
        <3> HIDE DEF r
        <3> QED BY <1>1, <2>1, <3>2, <3>3, OneWorker DEF WorkerOK, HandedOver, Kept
    <2>2. CASE GoTo(t, "consent")
        BY <1>1, <2>2, GoToOK DEF Steps
    <2>3. CASE GiveUp(t, "deny", "resolution_error")
        BY <1>1, <2>3, GiveUpOK DEF Reasons
    <2> QED BY <2>1, <2>2, <2>3 DEF Resolve
<1> QED BY <1>2 DEF Resolve, env, permits, Types

LEMMA ReadConsentOK ==
    ASSUME Types, WorkersOK, NEW t \in Workers, ReadConsent(t)
    PROVE  Types' /\ WorkersOK'
<1>1. HandedOver(work[t]) /\ work[t] \in WorkRecord /\ WorkerOK(work[t]) /\ Kept /\ granted \in BOOLEAN
    BY DEF Types, WorkersOK, ReadConsent, At, HandedOver, env, permits, Kept
<1>2. work' \in [Workers -> WorkRecord] /\ WorkersOK' /\ queue' = queue
    <2>1. CASE /\ work' = [work EXCEPT ![t].step = "checks", ![t].consented = granted]
               /\ queue' = queue
        <3> DEFINE w == work[t]
                   r == [w EXCEPT !.step = "checks", !.consented = granted]
        <3>1. /\ r \in WorkRecord /\ r.step = "checks" /\ r.job = w.job
              /\ r.consented = granted /\ r.wasGranted = w.wasGranted
              /\ r.wasEligible = w.wasEligible /\ r.wasRevoked = w.wasRevoked
            BY <1>1 DEF WorkRecord, Steps
        <3>2. work' = [work EXCEPT ![t] = r]
            BY <2>1
        <3> HIDE DEF r
        <3> QED BY <1>1, <2>1, <3>1, <3>2, OneWorker DEF WorkerOK, HandedOver, Kept
    <2>2. CASE GiveUp(t, "deny", "resolution_error")
        BY <1>1, <2>2, GiveUpOK DEF Reasons
    <2> QED BY <2>1, <2>2 DEF ReadConsent
<1> QED BY <1>2 DEF ReadConsent, env, permits, Types

LEMMA CheckOK ==
    ASSUME Types, WorkersOK, NEW t \in Workers, Check(t)
    PROVE  Types' /\ WorkersOK'
<1>1. HandedOver(work[t]) /\ WorkerOK(work[t]) /\ Kept
    BY DEF Types, WorkersOK, Check, At, HandedOver, env, permits, Kept
<1>2. work' \in [Workers -> WorkRecord] /\ WorkersOK' /\ queue' = queue
    <2>1. CASE Denial(t) # "none" /\ GiveUp(t, "deny", Denial(t))
        <3>1. Denial(t) \in Reasons \ {"none"}
            BY <2>1 DEF Denial, Reasons
        <3> QED BY <1>1, <2>1, <3>1, GiveUpOK
    <2>2. CASE Denial(t) = "none" /\ GoTo(t, "breaker")
        <3>1. work[t].ep \in Eligible /\ work[t].consented
            BY <2>2 DEF Denial
        <3>2. Authorized(work[t])
            BY <1>1, <3>1 DEF WorkerOK, Eligible, Authorized
        <3> QED BY <1>1, <2>2, <3>2, GoToOK DEF Steps
    <2> QED BY <2>1, <2>2 DEF Check
<1> QED BY <1>2 DEF Check, env, permits, Types

LEMMA AskBreakerOK ==
    ASSUME Types, WorkersOK, NEW t \in Workers, AskBreaker(t)
    PROVE  Types' /\ WorkersOK'
<1>1. HandedOver(work[t]) /\ Authorized(work[t]) /\ Kept
    BY DEF Types, WorkersOK, WorkerOK, AskBreaker, At, HandedOver, env, permits, Kept
<1>2. work' \in [Workers -> WorkRecord] /\ WorkersOK' /\ queue' \subseteq queue
    <2>1. CASE Done(t)
        BY <1>1, <2>1, DoneOrRaiseOK
    <2>2. CASE GiveUp(t, "deny", "payload_unencryptable")
        BY <1>1, <2>2, GiveUpOK DEF Reasons
    <2>3. CASE GoTo(t, "send")
        BY <1>1, <2>3, GoToOK DEF Steps
    <2> QED BY <2>1, <2>2, <2>3 DEF AskBreaker
<1> QED BY <1>2 DEF AskBreaker, env, permits, Types

LEMMA SendOK ==
    ASSUME Types, WorkersOK, NEW t \in Workers, Send(t)
    PROVE  Types' /\ WorkersOK'
<1>1. /\ HandedOver(work[t]) /\ WorkerOK(work[t]) /\ work[t].step = "send"
      /\ Kept
    BY DEF Types, WorkersOK, Send, At, HandedOver, env, permits, Kept
<1>2. work' \in [Workers -> WorkRecord] /\ WorkersOK' /\ queue' = queue
    <2>1. CASE GoTo(t, "sent")
        BY <1>1, <2>1, GoToOK DEF Steps, WorkerOK, Authorized
    <2>2. CASE GoTo(t, "failed")
        BY <1>1, <2>2, GoToOK DEF Steps
    <2> QED BY <2>1, <2>2 DEF Send
<1>3. Job(t) \in Jobs
    BY <1>1, DeliveryAssumption DEF WorkerOK, Job
<1>4. sends' \in [Jobs -> Nat]
    <2>1. [sends EXCEPT ![Job(t)] = @ + 1] \in [Jobs -> Nat]
        BY <1>3 DEF Types
    <2> QED BY <2>1 DEF Send, Types
<1>5. late' \in Nat
    BY DEF Send, Types
<1> QED BY <1>2, <1>4, <1>5 DEF Send, env, permits, Types

LEMMA RecordSuccessOK ==
    ASSUME Types, WorkersOK, NEW t \in Workers, RecordSuccess(t)
    PROVE  Types' /\ WorkersOK'
<1>1. HandedOver(work[t]) /\ Kept /\ GoTo(t, "audit delivered")
    BY DEF RecordSuccess, At, HandedOver, env, permits, Kept
<1>2. work' \in [Workers -> WorkRecord] /\ WorkersOK' /\ queue' = queue
    BY <1>1, GoToOK DEF Steps
<1> QED BY <1>2 DEF RecordSuccess, env, permits, Types, Closed

LEMMA RecordFailureOK ==
    ASSUME Types, WorkersOK, NEW t \in Workers, RecordFailure(t)
    PROVE  Types' /\ WorkersOK'
<1>1. HandedOver(work[t]) /\ Kept /\ GoTo(t, "audit failed")
    BY DEF RecordFailure, At, HandedOver, env, permits, Kept
<1>2. work' \in [Workers -> WorkRecord] /\ WorkersOK' /\ queue' = queue
    BY <1>1, GoToOK DEF Steps
<1>3. breaker' \in [failures : Nat, open : BOOLEAN]
    <2> DEFINE o == breaker.open \/ breaker.failures + 1 >= Threshold
    <2>1. o \in BOOLEAN /\ breaker.failures + 1 \in Nat
        BY DEF Types
    <2>2. breaker' = [failures |-> breaker.failures + 1, open |-> o]
        BY DEF RecordFailure
    <2> HIDE DEF o
    <2> QED BY <2>1, <2>2
<1> QED BY <1>2, <1>3 DEF RecordFailure, env, permits, Types

LEMMA AuditDeliveredOK ==
    ASSUME Types, WorkersOK, NEW t \in Workers, AuditDelivered(t)
    PROVE  Types' /\ WorkersOK'
<1>1. /\ HandedOver(work[t]) /\ WorkerOK(work[t]) /\ Job(t) = work[t].job
      /\ Kept
    BY DEF Types, WorkersOK, AuditDelivered, At, HandedOver, env, permits, Kept, AuditAppend, AuditRaises, Job
<1>2. work' \in [Workers -> WorkRecord] /\ WorkersOK' /\ queue' \subseteq queue
    <2>1. CASE Done(t)
        BY <1>1, <2>1, DoneOrRaiseOK
    <2>2. CASE GiveUp(t, "dead letter", "audit_unrecordable")
        BY <1>1, <2>2, GiveUpOK DEF Reasons
    <2> QED BY <2>1, <2>2 DEF AuditDelivered
<1>3. audit' \subseteq Jobs \X Outcomes
    <2>1. Job(t) \in Jobs /\ "delivered" \in Outcomes
        BY <1>1, DeliveryAssumption DEF WorkerOK, HandedOver, Outcomes
    <2> QED BY <2>1, AuditType DEF AuditDelivered
<1> QED BY <1>2, <1>3 DEF AuditDelivered, env, permits, Types

LEMMA AuditFailedOK ==
    ASSUME Types, WorkersOK, NEW t \in Workers, AuditFailed(t)
    PROVE  Types' /\ WorkersOK'
<1>1. /\ HandedOver(work[t]) /\ WorkerOK(work[t]) /\ Job(t) = work[t].job
      /\ Kept
    BY DEF Types, WorkersOK, AuditFailed, At, HandedOver, env, permits, Kept, AuditAppend, AuditRaises, Job
<1>2. work' \in [Workers -> WorkRecord] /\ WorkersOK' /\ queue' \subseteq queue
    <2>1. CASE Raise(t)
        BY <1>1, <2>1, DoneOrRaiseOK
    <2>2. CASE GiveUp(t, "dead letter", "send_failed")
        BY <1>1, <2>2, GiveUpOK DEF Reasons
    <2> QED BY <2>1, <2>2 DEF AuditFailed
<1>3. audit' \subseteq Jobs \X Outcomes
    <2>1. Job(t) \in Jobs /\ "failed" \in Outcomes
        BY <1>1, DeliveryAssumption DEF WorkerOK, HandedOver, Outcomes
    <2> QED BY <2>1, AuditType DEF AuditFailed
<1> QED BY <1>2, <1>3 DEF AuditFailed, env, permits, Types

LEMMA AuditDenialOK ==
    ASSUME Types, WorkersOK, NEW t \in Workers, AuditDenial(t)
    PROVE  Types' /\ WorkersOK'
<1>1. /\ HandedOver(work[t]) /\ WorkerOK(work[t]) /\ Job(t) = work[t].job
      /\ work[t] \in WorkRecord /\ work[t].reason # "none"
      /\ Kept
    BY DEF Types, WorkersOK, AuditDenial, At, HandedOver, env, permits, Kept, AuditAppend, AuditRaises, Job, WorkerOK
<1>2. work' \in [Workers -> WorkRecord] /\ WorkersOK' /\ queue' \subseteq queue
    BY <1>1, DoneOrRaiseOK DEF AuditDenial
<1>3. work[t].reason \in Outcomes
    BY <1>1 DEF WorkRecord, Outcomes
<1>4. audit' \subseteq Jobs \X Outcomes
    <2>1. Job(t) \in Jobs
        BY <1>1, DeliveryAssumption DEF WorkerOK, HandedOver
    <2> QED BY <1>3, <2>1, AuditType DEF AuditDenial
<1> QED BY <1>2, <1>4 DEF AuditDenial, env, permits, Types

LEMMA DeadLetterOK ==
    ASSUME Types, WorkersOK, NEW t \in Workers, DeadLetter(t)
    PROVE  Types' /\ WorkersOK'
<1>1. /\ HandedOver(work[t]) /\ WorkerOK(work[t]) /\ Job(t) = work[t].job
      /\ work[t] \in WorkRecord /\ Kept
    BY DEF Types, WorkersOK, DeadLetter, At, HandedOver, env, permits, Kept, AuditAppend, AuditRaises, Job
<1>2. work' \in [Workers -> WorkRecord] /\ WorkersOK' /\ queue' \subseteq queue
    BY <1>1, DoneOrRaiseOK DEF DeadLetter
<1>3. Job(t) \in Jobs /\ work[t].reason \in Reasons
    BY <1>1, DeliveryAssumption DEF WorkerOK, HandedOver, WorkRecord
<1>4. audit' \subseteq Jobs \X Outcomes
    <2>1. "dead_letter" \in Outcomes
        BY DEF Outcomes
    <2> QED BY <1>3, <2>1, AuditType DEF DeadLetter
<1>5. dlq' \in Seq(Jobs \X Reasons) /\ Len(dlq') <= DLQSize
    <2>1. CASE dlq' = dlq
        BY <2>1 DEF Types
    <2>2. CASE Len(dlq) < DLQSize /\ dlq' = Append(dlq, <<Job(t), work[t].reason>>)
        <3> DEFINE x == <<Job(t), work[t].reason>>
        <3>1. x \in Jobs \X Reasons
            BY <1>3
        <3> HIDE DEF x
        <3>2. dlq' = Append(dlq, x)
            BY <2>2 DEF x
        <3> QED BY <2>2, <3>1, <3>2, DeliveryAssumption DEF Types
    <2> QED BY <2>1, <2>2 DEF DeadLetter
<1> QED BY <1>2, <1>4, <1>5 DEF DeadLetter, env, permits, Types

-----------------------------------------------------------------------------
(* And so does every step of the surroundings.  What becomes permitted is  *)
(* observed by the workers under way.                                      *)
LEMMA ObserveOK ==
    ASSUME Types, WorkersOK, NEW isGranted \in BOOLEAN, NEW eligible \in SUBSET Endpoints,
           Observe(isGranted, eligible), UNCHANGED <<seen, audit>>,
           granted' => granted \/ isGranted, Eligible' \subseteq Eligible \cup eligible,
           overwritten \subseteq overwritten',
           \A p : endpoint[p] = "revoked" => endpoint'[p] = "revoked" \/ p \in overwritten'
    PROVE  work' \in [Workers -> WorkRecord] /\ WorkersOK'
<1>1. ASSUME NEW u \in Workers PROVE work'[u] \in WorkRecord /\ WorkerOK(work[u])'
    <2> DEFINE w == work[u]
               r == [w EXCEPT !.wasGranted = w.wasGranted \/ isGranted,
                              !.wasEligible = w.wasEligible \cup eligible]
    <2>1. w \in WorkRecord /\ WorkerOK(w)
        BY DEF Types, WorkersOK
    <2>2. CASE ~HandedOver(w)
        <3>1. work'[u] = w
            BY <2>2 DEF Observe, HandedOver
        <3> QED BY <2>1, <2>2, <3>1 DEF WorkerOK, HandedOver
    <2>3. CASE HandedOver(w)
        <3>1. work'[u] = r
            BY <2>3 DEF Observe, HandedOver
        <3>2. /\ (w.wasGranted \/ isGranted) \in BOOLEAN
              /\ w.wasEligible \cup eligible \in SUBSET Endpoints
            BY <2>1 DEF WorkRecord
        <3>3. /\ r \in WorkRecord /\ r.step = w.step /\ r.job = w.job /\ r.ep = w.ep
              /\ r.consented = w.consented /\ r.reason = w.reason
              /\ r.wasGranted = (w.wasGranted \/ isGranted)
              /\ r.wasEligible = w.wasEligible \cup eligible
              /\ r.wasRevoked = w.wasRevoked
            BY <2>1, <3>2 DEF WorkRecord
        <3> HIDE DEF r
        <3>4. r.step \in {"breaker", "send"} =>
                  /\ r.wasGranted /\ r.ep \in r.wasEligible /\ r.ep \in Endpoints
                  /\ r.ep \in r.wasRevoked => r.ep \in overwritten'
            BY <2>1, <3>3 DEF WorkerOK, Authorized
        <3>5. \A p \in r.wasRevoked : endpoint'[p] = "revoked" \/ p \in overwritten'
            BY <2>1, <2>3, <3>3 DEF WorkerOK
        <3> QED BY <2>1, <2>3, <3>1, <3>3, <3>4, <3>5 DEF WorkerOK, HandedOver, Authorized
    <2> QED BY <2>2, <2>3
<1>2. work' = [u \in Workers |-> work'[u]]
    BY DEF Observe
<1> QED BY <1>1, <1>2 DEF WorkersOK

LEMMA ChangeOK ==
    ASSUME Types, WorkersOK, Change
    PROVE  Types' /\ WorkersOK'
<1> DEFINE OK ==
        /\ work' \in [Workers -> WorkRecord] /\ WorkersOK'
        /\ endpoint' \in [Endpoints -> {"new", "verified", "revoked"}]
        /\ confirming' \subseteq Endpoints /\ overwritten' \subseteq Endpoints
        /\ granted' \in BOOLEAN
        /\ breaker' \in [failures : Nat, open : BOOLEAN] /\ late' \in Nat
<1> SUFFICES OK
    BY DEF Change, Types
<1>0. UNCHANGED <<seen, audit>>
    BY DEF Change
<1>1. CASE ChangeConsent
    <2>1. Eligible' \subseteq Eligible \cup {} /\ granted' \in BOOLEAN /\ {} \in SUBSET Endpoints
        BY <1>1 DEF ChangeConsent, Eligible
    <2>2. work' \in [Workers -> WorkRecord] /\ WorkersOK'
        BY <1>0, <1>1, <2>1, ObserveOK DEF ChangeConsent
    <2> QED BY <1>1, <2>1, <2>2 DEF ChangeConsent, Types
<1>2. CASE ResetBreaker
    BY <1>0, <1>2 DEF ResetBreaker, permits, Closed, Types, WorkersOK, WorkerOK, HandedOver, Eligible,
                      Authorized
<1>3. ASSUME NEW p \in Endpoints, StartConfirm(p) PROVE OK
    BY <1>0, <1>3 DEF StartConfirm, Types, WorkersOK, WorkerOK, HandedOver, Eligible, Authorized
<1>4. ASSUME NEW p \in Endpoints, Confirm(p) PROVE OK
    <2>1. endpoint' \in [Endpoints -> {"new", "verified", "revoked"}]
        BY <1>4 DEF Confirm, Types
    <2>2. Eligible' \subseteq Eligible \cup {p}
        BY <1>4 DEF Confirm, Eligible, Types
    <2>3. \A q : endpoint[q] = "revoked" => endpoint'[q] = "revoked" \/ q \in overwritten'
        BY <1>4 DEF Confirm, Revoked, Types
    <2>4. work' \in [Workers -> WorkRecord] /\ WorkersOK'
        BY <1>0, <1>4, <2>2, <2>3, ObserveOK DEF Confirm
    <2> QED BY <1>4, <2>1, <2>4 DEF Confirm, Types
<1>5. ASSUME NEW p \in Endpoints, Revoke(p) PROVE OK
    <2>1. endpoint' \in [Endpoints -> {"new", "verified", "revoked"}]
        BY <1>5 DEF Revoke, Types
    <2>2. Eligible' \subseteq Eligible /\ \A q \in Endpoints : endpoint[q] = "revoked" => endpoint'[q] = "revoked"
        BY <1>5 DEF Revoke, Eligible, Types
    <2>3. ASSUME NEW u \in Workers PROVE WorkerOK(work[u])'
        <3>1. WorkerOK(work[u]) /\ work'[u] = work[u] /\ work[u].wasRevoked \subseteq Endpoints
            BY <1>5 DEF Revoke, WorkersOK, Types, WorkRecord
        <3>2. UNCHANGED <<seen, audit, granted, overwritten>>
            BY <1>0, <1>5 DEF Revoke
        <3> QED BY <2>2, <3>1, <3>2 DEF WorkerOK, HandedOver, Authorized
    <2> QED BY <1>5, <2>1, <2>3 DEF Revoke, Types, WorkersOK
<1> QED BY <1>1, <1>2, <1>3, <1>4, <1>5 DEF Change

LEMMA RestartOK ==
    ASSUME Types, WorkersOK, Restart
    PROVE  Types' /\ WorkersOK'
<1>1. Idle \in WorkRecord /\ Idle.step = "idle" /\ ~Idle.consented
    BY DEF Idle, WorkRecord, Steps, Reasons
<1>2. \A u \in Workers : work'[u] = Idle
    BY DEF Restart
<1>3. WorkersOK'
    BY <1>1, <1>2 DEF WorkersOK, WorkerOK, HandedOver
<1> QED BY <1>1, <1>3, DeliveryAssumption DEF Restart, permits, Types, Closed

LEMMA EnqueueOK ==
    ASSUME Types, WorkersOK, NEW j \in Jobs, Enqueue(j)
    PROVE  Types' /\ WorkersOK'
<1>1. WorkersOK'
    BY DEF Enqueue, permits, WorkersOK, WorkerOK, HandedOver, Eligible, Authorized
<1> QED BY <1>1 DEF Enqueue, permits, Types

LEMMA ClockOK ==
    ASSUME Types, WorkersOK, Tick \/ TimeSource \/ UNCHANGED vars
    PROVE  Types' /\ WorkersOK'
<1>1. WorkersOK'
    BY DEF Tick, TimeSource, vars, env, permits, WorkersOK, WorkerOK, HandedOver, Eligible, Authorized
<1>2. now' \in 1 .. MaxTime
    BY DeliveryAssumption DEF Tick, TimeSource, vars, env, Types
<1>3. timeUp' \in BOOLEAN
    BY DEF Tick, TimeSource, vars, env, Types
<1> QED BY <1>1, <1>2, <1>3 DEF Tick, TimeSource, vars, env, permits, Types

LEMMA NextOK ==
    ASSUME Types, WorkersOK, [Next]_vars
    PROVE  Types' /\ WorkersOK'
BY AcceptOK, RejectOK, DeadLetterRejectedOK, MarkOK, ResolveOK, ReadConsentOK, CheckOK,
   AskBreakerOK, SendOK, RecordSuccessOK, RecordFailureOK, AuditDeliveredOK, AuditFailedOK,
   AuditDenialOK, DeadLetterOK, ChangeOK, RestartOK, EnqueueOK, ClockOK DEF Next, WorkerStep

-----------------------------------------------------------------------------
(* Sets of workers can be counted.                                         *)
LEMMA SomeWorkers ==
    /\ Cardinality(Workers) \in Nat \ {0}
    /\ \A S \in SUBSET Workers :
           IsFiniteSet(S) /\ Cardinality(S) \in Nat /\ Cardinality(S) <= Cardinality(Workers)
    /\ \A S, T \in SUBSET Workers : S \subseteq T => Cardinality(S) <= Cardinality(T)
    /\ \A S, T \in SUBSET Workers : \A t \in T :
           S \subseteq T \ {t} => Cardinality(S) + 1 <= Cardinality(T)
<1>1. IsFiniteSet(Workers) /\ Workers # {}
    BY DeliveryAssumption
<1>2. ASSUME NEW T \in SUBSET Workers
      PROVE  /\ IsFiniteSet(T) /\ Cardinality(T) \in Nat
             /\ Cardinality(T) <= Cardinality(Workers)
    BY <1>1, FS_Subset, FS_CardinalityType
<1>3. ASSUME NEW S \in SUBSET Workers, NEW T \in SUBSET Workers, S \subseteq T
      PROVE  Cardinality(S) <= Cardinality(T)
    BY <1>2, <1>3, FS_Subset
<1>4. ASSUME NEW S \in SUBSET Workers, NEW T \in SUBSET Workers, NEW t \in T, S \subseteq T \ {t}
      PROVE  Cardinality(S) + 1 <= Cardinality(T)
    <2>1. Cardinality(T \ {t}) = Cardinality(T) - 1
        BY <1>2, FS_RemoveElement
    <2>2. Cardinality(S) <= Cardinality(T \ {t})
        BY <1>3, <1>4
    <2> QED BY <1>2, <2>1, <2>2
<1>5. Cardinality(Workers) \in Nat \ {0}
    BY <1>1, <1>2, FS_EmptySet
<1> QED BY <1>2, <1>3, <1>4, <1>5

(* What a worker's step, or one of its surroundings, can do to the sends.  *)
LEMMA SendsKept ==
    ASSUME Types, SendsInv, UNCHANGED <<sends, seen, restarts>>,
           \A j \in Jobs : Senders(j)' \subseteq Senders(j)
    PROVE  SendsInv'
<1>1. ASSUME NEW j \in Jobs PROVE Cardinality(Senders(j)') <= Cardinality(Senders(j))
    <2>1. Senders(j)' \subseteq Senders(j) /\ Senders(j) \in SUBSET Workers /\ Senders(j)' \in SUBSET Workers
        BY DEF Senders
    <2> HIDE DEF Senders
    <2> QED BY <2>1, SomeWorkers
<1>2. \A j \in Jobs : Cardinality(Senders(j)) \in Nat /\ Cardinality(Senders(j)') \in Nat
    BY SomeWorkers DEF Senders
<1>3. \A j \in Jobs : sends[j] \in Nat
    BY DEF Types
<1> DEFINE B == Cardinality(Workers) * (1 + restarts)
<1>4. B \in Nat
    BY SomeWorkers DEF Types
<1> HIDE DEF B
<1>5. ASSUME NEW j \in Jobs, j \in seen PROVE sends[j] + Cardinality(Senders(j)') <= B
    <2>1. sends[j] + Cardinality(Senders(j)) <= B
        BY <1>5 DEF SendsInv, B
    <2> QED BY <1>1, <1>2, <1>3, <1>4, <2>1
<1> QED BY <1>5 DEF SendsInv, B

(* A worker's step changes its own locals only.                            *)
LEMMA OneMoves ==
    ASSUME Types, NEW t \in Workers, WorkerStep(t)
    PROVE  \A u \in Workers \ {t} : work'[u] = work[u]
BY DEF Types, WorkerStep, Accept, Reject, DeadLetterRejected, CallbackRaises, Mark, Resolve,
       ReadConsent, Check, AskBreaker, Send, RecordSuccess, RecordFailure, AuditDelivered, AuditFailed,
       AuditDenial, DeadLetter, GoTo, GiveUp, Done, Raise

(* Only a thread that accepts a job becomes one of its senders.            *)
LEMMA SendersShrink ==
    ASSUME Types, NEW t \in Workers, WorkerStep(t), NEW j \in Jobs, ~Accept(t, j)
    PROVE  Senders(j)' \subseteq Senders(j)
<1> DEFINE Before == {"mark", "resolve", "consent", "checks", "breaker", "send"}
<1>1. work[t] \in WorkRecord
    BY DEF Types
<1>2. ASSUME NEW s, GoTo(t, s) PROVE work'[t].step = s
    BY <1>1, <1>2 DEF GoTo, Types, WorkRecord
<1>3. ASSUME NEW s, NEW reason, GiveUp(t, s, reason) PROVE work'[t].step = s
    BY <1>1, <1>3 DEF GiveUp, Types, WorkRecord
<1>4. ASSUME Done(t) \/ Raise(t) PROVE work'[t].step = "idle"
    BY <1>4 DEF Done, Raise, Idle, Types
<1>5. ASSUME t \in Senders(j)' PROVE t \in Senders(j)
    <2>1. work'[t].step \in Before /\ work'[t].job = j
        BY <1>5 DEF Senders, Job
    <2>2. ASSUME NEW k \in Jobs, k # j, Accept(t, k) PROVE FALSE
        BY <1>1, <2>1, <2>2 DEF Accept, Types, WorkRecord
    <2>3. ASSUME NEW k \in Jobs, Reject(t, k) PROVE FALSE
        BY <1>1, <2>1, <2>3 DEF Reject, Types, WorkRecord
    <2>4. CASE Mark(t)
        BY <1>1, <2>1, <2>4 DEF Mark, At, Types, WorkRecord, Senders, Job
    <2>5. CASE Resolve(t)
        BY <1>1, <2>1, <2>5 DEF Resolve, GoTo, GiveUp, At, Types, WorkRecord, Senders, Job
    <2>6. CASE ReadConsent(t)
        BY <1>1, <2>1, <2>6 DEF ReadConsent, GiveUp, At, Types, WorkRecord, Senders, Job
    <2>7. CASE Check(t) \/ AskBreaker(t)
        BY <1>1, <2>1, <2>7 DEF Check, AskBreaker, GoTo, GiveUp, Done, Idle, At, Types, WorkRecord,
                                Senders, Job
    <2>8. CASE Send(t)
        BY <1>2, <2>1, <2>8 DEF Send
    <2>9. CASE RecordSuccess(t) \/ RecordFailure(t)
        BY <1>2, <2>1, <2>9 DEF RecordSuccess, RecordFailure
    <2>10. CASE AuditDelivered(t) \/ AuditFailed(t) \/ AuditDenial(t) \/ DeadLetter(t)
        BY <1>2, <1>3, <1>4, <2>1, <2>10 DEF AuditDelivered, AuditFailed, AuditDenial, DeadLetter
    <2>11. CASE DeadLetterRejected(t)
        BY <1>4, <2>1, <2>11 DEF DeadLetterRejected, CallbackRaises
    <2> QED BY <2>2, <2>3, <2>4, <2>5, <2>6, <2>7, <2>8, <2>9, <2>10, <2>11 DEF WorkerStep
<1> QED BY <1>5, OneMoves DEF Senders, Job

-----------------------------------------------------------------------------
(* A job sent once more, or marked as seen, still has its sends bounded by *)
(* the threads; a restart makes room for as many again.                    *)
LEMMA AcceptSends ==
    ASSUME Types, SendsInv, NEW t \in Workers, NEW k \in Jobs, Accept(t, k)
    PROVE  SendsInv'
<1>1. UNCHANGED <<sends, seen, restarts>> /\ k \notin seen
    BY DEF Accept, env, Rejected
<1>2. ASSUME NEW j \in Jobs, j \in seen
      PROVE  sends[j] + Cardinality(Senders(j)') <= Cardinality(Workers) * (1 + restarts)
    <2>1. j # k /\ work[t].step = "idle" /\ work[t] \in WorkRecord
        BY <1>1, <1>2 DEF Accept, At, Types
    <2>2. ~Accept(t, j)
        <3>1. Accept(t, j) => work'[t].job = j
            BY <2>1 DEF Accept, Types, WorkRecord
        <3>2. work'[t].job = k
            BY <2>1 DEF Accept, Types, WorkRecord
        <3> QED BY <2>1, <3>1, <3>2
    <2>3. Senders(j)' \subseteq Senders(j)
        BY <2>2, SendersShrink DEF WorkerStep
    <2>4. /\ Cardinality(Senders(j)') <= Cardinality(Senders(j))
          /\ Cardinality(Senders(j)) \in Nat /\ Cardinality(Senders(j)') \in Nat
        <3>1. Senders(j) \in SUBSET Workers /\ Senders(j)' \in SUBSET Workers
            BY DEF Senders
        <3> QED BY <2>3, <3>1, SomeWorkers
    <2> DEFINE B == Cardinality(Workers) * (1 + restarts)
    <2>5. B \in Nat /\ sends[j] \in Nat /\ sends[j] + Cardinality(Senders(j)) <= B
        BY <1>2, SomeWorkers DEF SendsInv, Types
    <2> HIDE DEF B
    <2>6. sends[j] + Cardinality(Senders(j)') <= B
        BY <2>4, <2>5
    <2> QED BY <2>6 DEF B
<1> QED BY <1>1, <1>2 DEF SendsInv

LEMMA MarkSends ==
    ASSUME Types, WorkersOK, SendsInv, NEW t \in Workers, Mark(t)
    PROVE  SendsInv'
<1> DEFINE W == Cardinality(Workers)
           B == W * (1 + restarts)
<1>1. /\ UNCHANGED <<sends, restarts>> /\ seen' = seen \cup {Job(t)}
      /\ work[t].step = "mark" /\ W \in Nat /\ restarts \in Nat
    BY SomeWorkers DEF Mark, env, At, Types
<1>2. B = W * restarts + W /\ B \in Nat
    BY <1>1
<1>3. ASSUME NEW j \in Jobs
      PROVE  /\ sends[j] \in Nat /\ Cardinality(Senders(j)) \in Nat
             /\ Cardinality(Senders(j)') \in Nat /\ Cardinality(Senders(j)') <= W
             /\ Cardinality(Senders(j)') <= Cardinality(Senders(j))
    <2>1. Senders(j) \in SUBSET Workers /\ Senders(j)' \in SUBSET Workers
        BY DEF Senders
    <2>2. ~Accept(t, j)
        BY <1>1 DEF Accept, At
    <2>3. Senders(j)' \subseteq Senders(j)
        BY <2>2, SendersShrink DEF WorkerStep
    <2> QED BY <2>1, <2>3, SomeWorkers DEF Types
<1> DEFINE A == W * restarts
<1>4. A \in Nat /\ B = A + W
    BY <1>1, <1>2
<1> HIDE DEF A, B
<1>5. ASSUME NEW j \in Jobs, j \in seen' PROVE sends[j] + Cardinality(Senders(j)') <= B
    <2>1. CASE j \in seen
        <3>1. sends[j] + Cardinality(Senders(j)) <= B
            BY <2>1 DEF SendsInv, B
        <3> QED BY <1>2, <1>3, <3>1
    <2>2. CASE j \notin seen
        <3>1. sends[j] <= A
            BY <2>2 DEF SendsInv, A
        <3> HIDE DEF W
        <3> QED BY <1>1, <1>3, <1>4, <3>1
    <2> QED BY <2>1, <2>2
<1> QED BY <1>1, <1>5 DEF SendsInv, B

LEMMA SendSends ==
    ASSUME Types, WorkersOK, SendsInv, NEW t \in Workers, Send(t)
    PROVE  SendsInv'
<1> DEFINE W == Cardinality(Workers)
           B == W * (1 + restarts)
           k == Job(t)
<1>1. /\ UNCHANGED <<seen, restarts>> /\ work[t].step = "send" /\ work[t] \in WorkRecord
      /\ W \in Nat /\ restarts \in Nat
    BY SomeWorkers DEF Send, env, At, Types
<1>2. k \in Jobs /\ k \in seen
    BY <1>1, DeliveryAssumption DEF WorkersOK, WorkerOK, HandedOver, Job
<1>3. B \in Nat
    BY <1>1
<1>4. ASSUME NEW j \in Jobs
      PROVE  /\ sends[j] \in Nat /\ Cardinality(Senders(j)) \in Nat
             /\ Cardinality(Senders(j)') \in Nat
             /\ Cardinality(Senders(j)') <= Cardinality(Senders(j))
             /\ j = k => Cardinality(Senders(j)') + 1 <= Cardinality(Senders(j))
    <2>1. Senders(j) \in SUBSET Workers /\ Senders(j)' \in SUBSET Workers
        BY DEF Senders
    <2>2. ~Accept(t, j)
        BY <1>1 DEF Accept, At
    <2>3. Senders(j)' \subseteq Senders(j)
        BY <2>2, SendersShrink DEF WorkerStep
    <2>4. j = k => t \in Senders(j)
        BY <1>1 DEF Senders
    <2>5. t \notin Senders(j)'
        BY <1>1 DEF Send, GoTo, Senders, Types, WorkRecord
    <2>6. j = k => Senders(j)' \subseteq Senders(j) \ {t}
        BY <2>3, <2>5
    <2>7. j = k => Cardinality(Senders(j)') + 1 <= Cardinality(Senders(j))
        BY <2>1, <2>4, <2>6, SomeWorkers
    <2> QED BY <2>1, <2>3, <2>7, SomeWorkers DEF Types
<1>5. ASSUME NEW j \in Jobs
      PROVE  sends'[j] = sends[j] \/ (j = k /\ sends'[j] = sends[j] + 1)
    BY <1>2 DEF Send, Types
<1> HIDE DEF B, k
<1>6. ASSUME NEW j \in Jobs, j \in seen PROVE sends'[j] + Cardinality(Senders(j)') <= B
    <2>1. sends[j] + Cardinality(Senders(j)) <= B
        BY <1>6 DEF SendsInv, B
    <2> QED BY <1>3, <1>4, <1>5, <2>1
<1>7. ASSUME NEW j \in Jobs PROVE sends'[j] <= B
    <2>1. CASE j \in seen
        <3>1. sends'[j] + Cardinality(Senders(j)') <= B /\ sends'[j] \in Nat
            BY <1>4, <1>5, <1>6, <2>1
        <3> QED BY <1>3, <1>4, <3>1
    <2>2. CASE j \notin seen
        <3>1. sends'[j] = sends[j]
            BY <1>2, <1>5, <2>2
        <3> QED BY <3>1 DEF SendsInv, B
    <2> QED BY <2>1, <2>2
<1>8. ASSUME NEW j \in Jobs, j \notin seen PROVE sends'[j] <= W * restarts
    <2>1. sends'[j] = sends[j]
        BY <1>2, <1>5, <1>8
    <2> QED BY <1>8, <2>1 DEF SendsInv
<1> QED BY <1>1, <1>6, <1>7, <1>8 DEF SendsInv, B

LEMMA RestartSends ==
    ASSUME Types, SendsInv, Restart
    PROVE  SendsInv'
<1> DEFINE W == Cardinality(Workers)
           B == W * (1 + restarts)
<1>1. UNCHANGED sends /\ seen' = {} /\ restarts' = restarts + 1 /\ W \in Nat /\ restarts \in Nat
    BY SomeWorkers DEF Restart, Types
<1> HIDE DEF W
<1>2. W * restarts' = B /\ W * (1 + restarts') = B + W /\ B \in Nat
    BY <1>1
<1> HIDE DEF B
<1>3. \A j \in Jobs : sends[j] \in Nat /\ sends[j] <= B
    BY DEF SendsInv, Types, B, W
<1>4. \A j \in Jobs : sends'[j] <= W * restarts' /\ sends'[j] <= W * (1 + restarts')
    BY <1>1, <1>2, <1>3
<1> QED BY <1>1, <1>4 DEF SendsInv, W

LEMMA ObservedStep ==
    ASSUME Types, NEW u \in Workers, work' = work \/ \E g, E : Observe(g, E)
    PROVE  work'[u].step = work[u].step /\ work'[u].job = work[u].job
<1>1. work[u] \in WorkRecord
    BY DEF Types
<1>2. ASSUME NEW g, NEW E, Observe(g, E)
      PROVE  work'[u].step = work[u].step /\ work'[u].job = work[u].job
    <2> DEFINE r == [work[u] EXCEPT !.wasGranted = @ \/ g, !.wasEligible = @ \cup E]
    <2>1. work'[u] = work[u] \/ work'[u] = r
        BY <1>2 DEF Observe
    <2>2. r.step = work[u].step /\ r.job = work[u].job
        BY <1>1 DEF WorkRecord
    <2> HIDE DEF r
    <2> QED BY <2>1, <2>2
<1> QED BY <1>2

LEMMA SendsStep ==
    ASSUME Types, WorkersOK, SendsInv, [Next]_vars
    PROVE  SendsInv'
<1>1. ASSUME NEW t \in Workers, WorkerStep(t) PROVE SendsInv'
    <2>1. CASE (\E j \in Jobs : Accept(t, j)) \/ Mark(t) \/ Send(t)
        BY <2>1, AcceptSends, MarkSends, SendSends
    <2>2. CASE ~((\E j \in Jobs : Accept(t, j)) \/ Mark(t) \/ Send(t))
        <3>1. UNCHANGED <<sends, seen, restarts>>
            BY <1>1, <2>2 DEF WorkerStep, Reject, DeadLetterRejected, Resolve, ReadConsent, Check,
               AskBreaker, RecordSuccess, RecordFailure, AuditDelivered, AuditFailed, AuditDenial,
               DeadLetter, env
        <3>2. \A j \in Jobs : Senders(j)' \subseteq Senders(j)
            BY <1>1, <2>2, SendersShrink
        <3> QED BY <3>1, <3>2, SendsKept
    <2> QED BY <2>1, <2>2
<1>2. CASE Restart
    BY <1>2, RestartSends
<1>3. CASE Change
    <2>1. UNCHANGED <<sends, seen, restarts>>
        BY <1>3 DEF Change
    <2>2. work' = work \/ \E g, E : Observe(g, E)
        BY <1>3 DEF Change, ChangeConsent, ResetBreaker, StartConfirm, Confirm, Revoke
    <2>3. ASSUME NEW u \in Workers
          PROVE  work'[u].step = work[u].step /\ work'[u].job = work[u].job
        BY <2>2, ObservedStep
    <2>4. \A j \in Jobs : Senders(j)' \subseteq Senders(j)
        BY <2>3 DEF Senders, Job
    <2> QED BY <2>1, <2>4, SendsKept
<1>4. CASE (\E j \in Jobs : Enqueue(j)) \/ Tick \/ TimeSource \/ UNCHANGED vars
    <2>1. UNCHANGED <<sends, seen, restarts, work>>
        BY <1>4 DEF Enqueue, Tick, TimeSource, vars, env
    <2>2. \A j \in Jobs : Senders(j)' \subseteq Senders(j)
        BY <2>1 DEF Senders, Job
    <2> QED BY <2>1, <2>2, SendsKept
<1> QED BY <1>1, <1>2, <1>3, <1>4 DEF Next

-----------------------------------------------------------------------------
(* Behind an open breaker no thread gets to the point of sending.          *)
LEMMA SendingShrinks ==
    ASSUME Types, NEW t \in Workers, WorkerStep(t), breaker.open \/ ~AskBreaker(t)
    PROVE  Sending' \subseteq Sending
<1>1. work[t] \in WorkRecord
    BY DEF Types
<1>2. ASSUME NEW s, GoTo(t, s) PROVE work'[t].step = s
    BY <1>1, <1>2 DEF GoTo, Types, WorkRecord
<1>3. ASSUME NEW s, NEW reason, GiveUp(t, s, reason) PROVE work'[t].step = s
    BY <1>1, <1>3 DEF GiveUp, Types, WorkRecord
<1>4. ASSUME Done(t) \/ Raise(t) PROVE work'[t].step = "idle"
    BY <1>4 DEF Done, Raise, Idle, Types
<1>5. ASSUME work'[t].step = "send" PROVE work' = work
    <2>1. ASSUME NEW j \in Jobs, Accept(t, j) PROVE FALSE
        BY <1>1, <1>5, <2>1 DEF Accept, Types, WorkRecord
    <2>2. CASE Mark(t)
        BY <1>1, <1>5, <2>2 DEF Mark, Types, WorkRecord
    <2>3. CASE Resolve(t)
        <3>1. ~GoTo(t, "consent") /\ ~GiveUp(t, "deny", "resolution_error")
            BY <1>2, <1>3, <1>5
        <3>2. PICK p \in Eligible : work' = [work EXCEPT ![t].step = "consent", ![t].ep = p]
            BY <2>3, <3>1 DEF Resolve
        <3> QED BY <1>1, <1>5, <3>2 DEF Types, WorkRecord
    <2>4. CASE ReadConsent(t)
        <3>1. ~GiveUp(t, "deny", "resolution_error")
            BY <1>3, <1>5
        <3>2. work' = [work EXCEPT ![t].step = "checks", ![t].consented = granted]
            BY <2>4, <3>1 DEF ReadConsent
        <3> QED BY <1>1, <1>5, <3>2 DEF Types, WorkRecord
    <2>5. CASE Check(t) \/ AskBreaker(t)
        BY <1>2, <1>3, <1>4, <1>5, <2>5 DEF Check, AskBreaker
    <2>6. CASE Send(t) \/ RecordSuccess(t) \/ RecordFailure(t)
        BY <1>2, <1>5, <2>6 DEF Send, RecordSuccess, RecordFailure
    <2>7. CASE AuditDelivered(t) \/ AuditFailed(t) \/ AuditDenial(t) \/ DeadLetter(t)
        BY <1>3, <1>4, <1>5, <2>7 DEF AuditDelivered, AuditFailed, AuditDenial, DeadLetter
    <2>8. ASSUME NEW j \in Jobs, Reject(t, j) PROVE FALSE
        BY <1>1, <1>5, <2>8 DEF Reject, Types, WorkRecord
    <2>9. CASE DeadLetterRejected(t)
        BY <1>4, <1>5, <2>9 DEF DeadLetterRejected, CallbackRaises
    <2> QED BY <2>1, <2>2, <2>3, <2>4, <2>5, <2>6, <2>7, <2>8, <2>9 DEF WorkerStep
<1> QED BY <1>5, OneMoves DEF Sending, At

(* How many threads are about to send, before and after.                   *)
LEMMA CountSending ==
    /\ Cardinality(Sending) \in Nat /\ Cardinality(Sending') \in Nat
    /\ Sending' \subseteq Sending => Cardinality(Sending') <= Cardinality(Sending)
    /\ \A t \in Workers :
        /\ t \in Sending /\ Sending' \subseteq Sending \ {t} =>
               Cardinality(Sending') + 1 <= Cardinality(Sending)
        /\ t \notin Sending' => Cardinality(Sending') + 1 <= Cardinality(Workers)
<1>1. Sending \in SUBSET Workers /\ Sending' \in SUBSET Workers /\ Workers \in SUBSET Workers
    BY DEF Sending
<1>2. \A t \in Workers : t \notin Sending' => Sending' \subseteq Workers \ {t}
    BY <1>1
<1> HIDE DEF Sending
<1> QED BY <1>1, <1>2, SomeWorkers

LEMMA LateKept ==
    ASSUME Types, LateInv, UNCHANGED <<breaker, late>>, breaker.open => Sending' \subseteq Sending
    PROVE  LateInv'
<1>1. late \in Nat /\ Cardinality(Workers) \in Nat
    BY SomeWorkers DEF Types
<1> QED BY <1>1, CountSending DEF LateInv

LEMMA WorkerLate ==
    ASSUME Types, LateInv, NEW t \in Workers, WorkerStep(t)
    PROVE  LateInv'
<1>1. late \in Nat /\ Cardinality(Workers) \in Nat /\ work[t] \in WorkRecord
    BY SomeWorkers DEF Types
<1>2. breaker.open => Sending' \subseteq Sending
    BY SendingShrinks
<1>3. ASSUME NEW s, GoTo(t, s) PROVE work'[t].step = s
    BY <1>1, <1>3 DEF GoTo, Types, WorkRecord
<1>4. CASE Send(t)
    <2>1. UNCHANGED breaker /\ late' = IF breaker.open THEN late + 1 ELSE late
        BY <1>4 DEF Send
    <2>2. t \in Sending /\ t \notin Sending'
        BY <1>3, <1>4 DEF Send, At, Sending
    <2>3. breaker.open => Cardinality(Sending') + 1 <= Cardinality(Sending)
        BY <1>2, <2>2, CountSending
    <2> QED BY <1>1, <2>1, <2>3, CountSending DEF LateInv
<1>5. CASE RecordSuccess(t)
    BY <1>5 DEF RecordSuccess, Closed, LateInv
<1>6. CASE RecordFailure(t)
    <2>1. UNCHANGED late /\ t \notin Sending'
        BY <1>3, <1>6 DEF RecordFailure, At, Sending
    <2>2. breaker.open => breaker'.open
        BY <1>6 DEF RecordFailure
    <2>3. CASE breaker.open
        BY <1>1, <1>2, <2>1, <2>2, <2>3, CountSending DEF LateInv
    <2>4. CASE ~breaker.open
        BY <1>1, <2>1, <2>4, CountSending DEF LateInv
    <2> QED BY <2>3, <2>4
<1>7. CASE ~(Send(t) \/ RecordSuccess(t) \/ RecordFailure(t))
    <2>1. UNCHANGED <<breaker, late>>
        BY <1>7 DEF WorkerStep, Accept, Reject, DeadLetterRejected, Mark, Resolve, ReadConsent, Check,
                    AskBreaker, AuditDelivered, AuditFailed, AuditDenial, DeadLetter
    <2> QED BY <1>2, <2>1, LateKept
<1> QED BY <1>4, <1>5, <1>6, <1>7

LEMMA LateStep ==
    ASSUME Types, LateInv, [Next]_vars
    PROVE  LateInv'
<1>1. ASSUME NEW t \in Workers, WorkerStep(t) PROVE LateInv'
    BY <1>1, WorkerLate
<1>2. CASE Restart
    BY <1>2 DEF Restart, Closed, LateInv
<1>3. CASE Change
    <2>1. CASE ResetBreaker
        BY <2>1 DEF ResetBreaker, Closed, LateInv
    <2>2. CASE ~ResetBreaker
        <3>1. UNCHANGED <<breaker, late>>
            BY <1>3, <2>2 DEF Change, ChangeConsent, StartConfirm, Confirm, Revoke
        <3>2. work' = work \/ \E g, E : Observe(g, E)
            BY <1>3 DEF Change, ChangeConsent, ResetBreaker, StartConfirm, Confirm, Revoke
        <3>3. Sending' \subseteq Sending
            BY <3>2, ObservedStep DEF Sending, At
        <3> QED BY <3>1, <3>3, LateKept
    <2> QED BY <2>1, <2>2
<1>4. CASE (\E j \in Jobs : Enqueue(j)) \/ Tick \/ TimeSource \/ UNCHANGED vars
    <2>1. UNCHANGED <<breaker, late, work>>
        BY <1>4 DEF Enqueue, Tick, TimeSource, vars, env
    <2>2. Sending' \subseteq Sending
        BY <2>1 DEF Sending, At
    <2> QED BY <2>1, <2>2, LateKept
<1> QED BY <1>1, <1>2, <1>3, <1>4 DEF Next

-----------------------------------------------------------------------------
(* At most one job leaves the queue in a step, and it is accounted for.    *)
LEMMA LossKept ==
    ASSUME NoSilentLoss, NEW k, issued' = issued, queue \ {k} \subseteq queue',
           skipped \subseteq skipped', audit \subseteq audit', shelved \subseteq shelved',
           \/ k \in queue' \/ k \notin queue \/ k \in skipped' \/ Settled(k)'
           \/ k \in shelved' /\ <<k, "rejected">> \in audit'
    PROVE  NoSilentLoss'
BY DEF NoSilentLoss, Settled

LEMMA WorkerLoss ==
    ASSUME Types, WorkersOK, NoSilentLoss, NEW t \in Workers, WorkerStep(t)
    PROVE  NoSilentLoss'
<1>1. issued' = issued
    BY DEF WorkerStep, Accept, Reject, DeadLetterRejected, Mark, Resolve, ReadConsent, Check,
           AskBreaker, Send, RecordSuccess, RecordFailure, AuditDelivered, AuditFailed, AuditDenial,
           DeadLetter, env
<1>2. \A outcome \in {"delivered", "dead_letter"} \cup (Reasons \ {"none"}) :
          outcome \in Outcomes \ {"rejected", "failed"}
    BY DEF Outcomes, Reasons
<1> HIDE DEF Outcomes
<1>3. skipped \subseteq skipped' /\ audit \subseteq audit' /\ shelved \subseteq shelved'
    BY DEF WorkerStep, Accept, Reject, DeadLetterRejected, CallbackRaises, Mark, Resolve, ReadConsent,
           Check, AskBreaker, Send, RecordSuccess, RecordFailure, AuditDelivered, AuditFailed,
           AuditDenial, DeadLetter, AuditAppend, AuditRaises
<1>4. ASSUME Done(t), \/ Job(t) \in skipped'
                      \/ Job(t) \in shelved' /\ <<Job(t), "rejected">> \in audit'
      PROVE  NoSilentLoss'
    <2>1. queue' = queue \ {Job(t)}
        BY <1>4 DEF Done
    <2> QED BY <1>1, <1>3, <1>4, <2>1, LossKept
<1>5. ASSUME NEW outcome \in {"delivered", "dead_letter"} \cup (Reasons \ {"none"}),
             AuditAppend(Job(t), outcome), Done(t)
      PROVE  NoSilentLoss'
    <2>1. <<Job(t), outcome>> \in audit' /\ outcome \in Outcomes \ {"rejected", "failed"}
        BY <1>2, <1>5 DEF AuditAppend
    <2> QED BY <1>1, <1>3, <1>5, <2>1, LossKept DEF Settled, Done
<1>6. ASSUME queue' = queue PROVE NoSilentLoss'
    BY <1>1, <1>3, <1>6, LossKept
<1>7. CASE AskBreaker(t)
    BY <1>4, <1>6, <1>7 DEF AskBreaker, GoTo, GiveUp
<1>8. CASE AuditDelivered(t)
    BY <1>5, <1>6, <1>8 DEF AuditDelivered, GiveUp
<1>9. CASE AuditDenial(t)
    <2>1. work[t].reason \in Reasons \ {"none"}
        BY <1>9 DEF AuditDenial, At, Types, WorkersOK, WorkerOK, WorkRecord
    <2> QED BY <1>5, <1>6, <1>9, <2>1 DEF AuditDenial, Raise
<1>10. CASE DeadLetter(t)
    BY <1>5, <1>6, <1>10 DEF DeadLetter, Raise
<1>11. CASE DeadLetterRejected(t)
    <2>1. <<Job(t), "rejected">> \in audit
        BY <1>11 DEF DeadLetterRejected, At, Job, WorkersOK, WorkerOK
    <2>2. CASE Done(t) /\ shelved' = shelved \cup {Job(t)}
        BY <1>3, <1>4, <2>1, <2>2
    <2> QED BY <1>6, <1>11, <2>2 DEF DeadLetterRejected, CallbackRaises, Raise
<1>12. CASE \/ (\E j \in Jobs : Accept(t, j) \/ Reject(t, j))
            \/ Mark(t) \/ Resolve(t) \/ ReadConsent(t) \/ Check(t) \/ Send(t)
            \/ RecordSuccess(t) \/ RecordFailure(t) \/ AuditFailed(t)
    BY <1>6, <1>12 DEF Accept, Reject, Mark, Resolve, ReadConsent, Check, Send, RecordSuccess,
                       RecordFailure, AuditFailed, GoTo, GiveUp, Raise
<1> QED BY <1>7, <1>8, <1>9, <1>10, <1>11, <1>12 DEF WorkerStep

LEMMA LossStep ==
    ASSUME Types, WorkersOK, NoSilentLoss, [Next]_vars
    PROVE  NoSilentLoss'
<1>1. ASSUME NEW t \in Workers, WorkerStep(t) PROVE NoSilentLoss'
    BY <1>1, WorkerLoss
<1>2. ASSUME NEW j \in Jobs, Enqueue(j) PROVE NoSilentLoss'
    BY <1>2 DEF Enqueue, NoSilentLoss, Settled, Types
<1>3. CASE Restart \/ Change \/ Tick \/ TimeSource \/ UNCHANGED vars
    BY <1>3 DEF Restart, Change, Tick, TimeSource, vars, env, NoSilentLoss, Settled
<1> QED BY <1>1, <1>2, <1>3 DEF Next

-----------------------------------------------------------------------------
(* The inductive invariant holds: types, what a worker's locals say, and   *)
(* the counts of the threads that may still send.                          *)
THEOREM InvHolds == Spec => []IInv
<1>1. Init => IInv
    <2> SUFFICES ASSUME Init PROVE IInv
        OBVIOUS
    <2>1. Types /\ WorkersOK
        BY TypesInit
    <2>2. SendsInv
        <3>1. restarts = 0 /\ seen = {} /\ \A j \in Jobs : sends[j] = 0
            BY DEF Init
        <3>2. Cardinality(Workers) \in Nat
            BY SomeWorkers
        <3> QED BY <3>1, <3>2 DEF SendsInv
    <2>3. LateInv /\ NoSilentLoss
        BY DEF Init, Closed, LateInv, NoSilentLoss
    <2> QED BY <2>1, <2>2, <2>3 DEF IInv
<1>2. IInv /\ [Next]_vars => IInv'
    BY NextOK, SendsStep, LateStep, LossStep DEF IInv
<1> QED BY <1>1, <1>2, PTL DEF Spec

(* Every variable has its type, and a worker past the consumer holds a job *)
(* that was authentic and is marked as seen.                               *)
THEOREM TypeCorrect == Spec => []TypeOK
<1>1. IInv => TypeOK
    <2> SUFFICES ASSUME IInv PROVE TypeOK
        OBVIOUS
    <2>1. ASSUME NEW t \in Workers
          PROVE  /\ work[t].step \in Steps /\ work[t].reason \in Reasons
                 /\ work[t].step \notin {"idle", "rejected", "mark"} => Job(t) \in Valid \cap seen
                 /\ At(t, "rejected") => <<Job(t), "rejected">> \in audit
                 /\ work[t].step \in {"send", "sent"} => work[t].ep \in Endpoints
        BY DEF IInv, Types, WorkRecord, WorkersOK, WorkerOK, HandedOver, Authorized, At, Job
    <2>2. breaker.failures \in Nat /\ breaker.open \in BOOLEAN
        BY DEF IInv, Types
    <2> QED BY <2>1, <2>2 DEF IInv, Types, TypeOK
<1> QED BY <1>1, InvHolds, PTL

(* DeliveryWorker.process authorizes every send: the endpoint was verified *)
(* and not revoked, and consent was granted, since the job was handed      *)
(* over, and a revocation from before that was written over if it is not   *)
(* honoured.                                                               *)
THEOREM SendIsAuthorizedHolds == Spec => []SendIsAuthorized
<1>1. IInv => SendIsAuthorized
    BY DEF IInv, WorkersOK, WorkerOK, Authorized, SendIsAuthorized, At
<1> QED BY <1>1, InvHolds, PTL

(* Whatever the interleaving, a job is sent at most once per thread and    *)
(* life of the process.                                                    *)
THEOREM SendsAreBoundedHolds == Spec => []SendsAreBounded
<1>1. IInv => SendsAreBounded
    BY DEF IInv, SendsInv, SendsAreBounded
<1> QED BY <1>1, InvHolds, PTL

(* Once the breaker is open, all threads but one may each send once more.  *)
THEOREM LateSendsAreBoundedHolds == Spec => []LateSendsAreBounded
<1>1. IInv => LateSendsAreBounded
    <2> SUFFICES ASSUME IInv PROVE late < Cardinality(Workers)
        BY DEF LateSendsAreBounded
    <2>1. late \in Nat /\ Cardinality(Workers) \in Nat \ {0}
        BY SomeWorkers DEF IInv, Types
    <2> QED BY <2>1, CountSending DEF IInv, LateInv
<1> QED BY <1>1, InvHolds, PTL

(* No job leaves the queue but settled, rejected on the trail and          *)
(* dead-lettered, or skipped by an open breaker, through failures and      *)
(* restarts alike.                                                         *)
THEOREM NoSilentLossHolds == Spec => []NoSilentLoss
<1>1. IInv => NoSilentLoss
    BY DEF IInv
<1> QED BY <1>1, InvHolds, PTL
-----------------------------------------------------------------------------
(* The refinement of Dispatch.  A thread holds a job that was enqueued, it *)
(* sends only what may be sent, and records as delivered only what it sent.*)
Sendable(w) ==
    /\ w.step # "idle" => issued[w.job] # None
    /\ w.step \in {"resolve", "consent", "checks", "breaker", "send"} => w.job \in Owned
    /\ w.step = "send" => w.job \in Encryptable
    /\ w.step \in {"sent", "audit delivered"} => sends[w.job] > 0
DispatchInv ==
    /\ \A j \in queue : issued[j] # None
    /\ \A t \in Workers : Sendable(work[t])

(* What a worker's step makes of its locals.                               *)
LEMMA Moves ==
    ASSUME Types, NEW t \in Workers
    PROVE  /\ \A s : GoTo(t, s) => work'[t].step = s /\ work'[t].job = work[t].job
           /\ \A s, reason : GiveUp(t, s, reason) => work'[t].step = s /\ work'[t].job = work[t].job
           /\ Done(t) \/ Raise(t) => work'[t].step = "idle"
<1>1. work[t] \in WorkRecord
    BY DEF Types
<1> QED BY <1>1 DEF GoTo, GiveUp, Done, Raise, Idle, Types, WorkRecord

(* A worker's step leaves the jobs it does not hold alone.                 *)
LEMMA WorkerWrites ==
    ASSUME Types, NEW t \in Workers, WorkerStep(t)
    PROVE  /\ UNCHANGED <<issued, restarts>> /\ queue' \subseteq queue
           /\ \A j \in Jobs : sends[j] > 0 => sends'[j] > 0
<1>1. UNCHANGED <<issued, restarts>> /\ queue' \subseteq queue
    BY DEF WorkerStep, Accept, Reject, DeadLetterRejected, Mark, Resolve, ReadConsent, Check,
           AskBreaker, Send, RecordSuccess, RecordFailure, AuditDelivered, AuditFailed, AuditDenial,
           DeadLetter, CallbackRaises, env, GoTo, GiveUp, Done, Raise
<1>2. sends' = sends \/ sends' = [sends EXCEPT ![Job(t)] = @ + 1]
    BY DEF WorkerStep, Accept, Reject, DeadLetterRejected, Mark, Resolve, ReadConsent, Check,
           AskBreaker, Send, RecordSuccess, RecordFailure, AuditDelivered, AuditFailed, AuditDenial,
           DeadLetter
<1>3. ASSUME NEW j \in Jobs, sends[j] > 0 PROVE sends'[j] > 0
    <2>1. sends \in [Jobs -> Nat]
        BY DEF Types
    <2>2. ASSUME NEW k, sends' = [sends EXCEPT ![k] = @ + 1] PROVE sends'[j] > 0
        BY <1>3, <2>1, <2>2
    <2> QED BY <1>2, <1>3, <2>2
<1> QED BY <1>1, <1>3

LEMMA WorkerSendable ==
    ASSUME Types, WorkersOK, DispatchInv, NEW t \in Workers, WorkerStep(t)
    PROVE  Sendable(work[t])'
<1>1. issued' = issued /\ queue' \subseteq queue
    BY WorkerWrites
<1>2. work[t] \in WorkRecord /\ Sendable(work[t]) /\ WorkerOK(work[t])
    BY DEF Types, DispatchInv, WorkersOK
<1>3. work[t].step # "idle" => work[t].job \in Jobs
    BY <1>2, DeliveryAssumption DEF WorkerOK
<1>4. \A j \in Jobs : sends[j] > 0 => sends'[j] > 0
    BY WorkerWrites
<1>6. ASSUME work'[t].step = "idle" PROVE Sendable(work[t])'
    BY <1>6 DEF Sendable
<1>7. ASSUME work'[t].job = work[t].job, work[t].step # "idle",
             work'[t].step \in {"resolve", "consent", "checks", "breaker", "send"} => work[t].job \in Owned,
             work'[t].step = "send" => work[t].job \in Encryptable,
             work'[t].step \in {"sent", "audit delivered"} => sends'[work[t].job] > 0
      PROVE  Sendable(work[t])'
    BY <1>1, <1>2, <1>7 DEF Sendable
<1>8. ASSUME NEW j \in Jobs, Accept(t, j) PROVE Sendable(work[t])'
    <2>1. work'[t].step = "mark" /\ work'[t].job = j /\ j \in queue
        BY <1>2, <1>8 DEF Accept, Types, WorkRecord
    <2> QED BY <1>1, <2>1 DEF Sendable, DispatchInv
<1>9. ASSUME NEW j \in Jobs, Reject(t, j) PROVE Sendable(work[t])'
    <2>1. work'[t].step = "rejected" /\ work'[t].job = j /\ j \in queue
        BY <1>2, <1>9 DEF Reject, Types, WorkRecord
    <2> QED BY <1>1, <2>1 DEF Sendable, DispatchInv
<1>10. CASE Mark(t)
    <2>1. /\ work'[t].step = IF work[t].job \in Owned THEN "resolve" ELSE "dead letter"
          /\ work'[t].job = work[t].job /\ work[t].step = "mark"
        BY <1>2, <1>10 DEF Mark, At, Job, Types, WorkRecord
    <2> QED BY <1>7, <2>1
<1>11. CASE Resolve(t)
    <2>1. /\ work'[t].step \in {"consent", "deny"}
          /\ work'[t].job = work[t].job /\ work[t].step = "resolve"
        <3>1. CASE \E p \in Eligible : work' = [work EXCEPT ![t].step = "consent", ![t].ep = p]
            <4>1. PICK p \in Eligible : work' = [work EXCEPT ![t].step = "consent", ![t].ep = p]
                BY <3>1
            <4>2. work[t].step = "resolve" /\ work \in [Workers -> WorkRecord]
                BY <1>11 DEF Resolve, At, Types
            <4> QED BY <1>2, <4>1, <4>2 DEF WorkRecord
        <3> QED BY <1>11, <3>1, Moves DEF Resolve, At
    <2> QED BY <1>2, <1>7, <2>1 DEF Sendable
<1>12. CASE ReadConsent(t)
    <2>1. /\ work'[t].step \in {"checks", "deny"}
          /\ work'[t].job = work[t].job /\ work[t].step = "consent"
        <3>1. CASE work' = [work EXCEPT ![t].step = "checks", ![t].consented = granted]
            BY <1>2, <1>12, <3>1 DEF ReadConsent, At, Types, WorkRecord
        <3> QED BY <1>12, <3>1, Moves DEF ReadConsent, At
    <2> QED BY <1>2, <1>7, <2>1 DEF Sendable
<1>13. CASE Check(t)
    <2>1. work[t].step = "checks"
        BY <1>13 DEF Check, At
    <2>2. work'[t].step \in {"deny", "breaker"} /\ work'[t].job = work[t].job
        BY <1>13, Moves DEF Check
    <2> QED BY <1>2, <1>7, <2>1, <2>2 DEF Sendable
<1>14. CASE AskBreaker(t)
    <2>1. work[t].step = "breaker"
        BY <1>14 DEF AskBreaker, At
    <2>2. CASE GiveUp(t, "deny", "payload_unencryptable")
        <3>1. work'[t].step = "deny" /\ work'[t].job = work[t].job
            BY <2>2, Moves
        <3> QED BY <1>7, <2>1, <3>1
    <2>3. CASE Done(t)
        BY <1>6, <2>3, Moves
    <2>4. CASE GoTo(t, "send") /\ work[t].job \in Encryptable
        BY <1>2, <1>7, <2>1, <2>4, Moves DEF Sendable
    <2> QED BY <1>14, <2>2, <2>3, <2>4 DEF AskBreaker, Job
<1>15. CASE DeadLetterRejected(t)
    BY <1>6, <1>15, Moves DEF DeadLetterRejected, CallbackRaises
<1>16. CASE Send(t)
    <2>1. work[t].step = "send"
        BY <1>16 DEF Send, At
    <2>2. CASE GoTo(t, "sent") /\ sends' = [sends EXCEPT ![Job(t)] = @ + 1]
        <3>1. sends'[work[t].job] > 0
            BY <1>3, <2>1, <2>2 DEF Job, Types
        <3>2. work'[t].step = "sent" /\ work'[t].job = work[t].job
            BY <2>2, Moves
        <3> QED BY <1>7, <2>1, <3>1, <3>2
    <2>3. CASE GoTo(t, "failed")
        <3>1. work'[t].step = "failed" /\ work'[t].job = work[t].job
            BY <2>3, Moves
        <3> QED BY <1>7, <2>1, <3>1
    <2> QED BY <1>16, <2>2, <2>3 DEF Send
<1>17. CASE RecordSuccess(t)
    <2>1. work[t].step = "sent" /\ GoTo(t, "audit delivered")
        BY <1>17 DEF RecordSuccess, At
    <2>2. work'[t].step = "audit delivered" /\ work'[t].job = work[t].job
        BY <2>1, Moves
    <2>3. sends'[work[t].job] > 0
        BY <1>2, <1>3, <1>4, <2>1 DEF Sendable
    <2> QED BY <1>7, <2>1, <2>2, <2>3
<1>18. CASE RecordFailure(t)
    <2>1. work[t].step = "failed" /\ GoTo(t, "audit failed")
        BY <1>18 DEF RecordFailure, At
    <2>2. work'[t].step = "audit failed" /\ work'[t].job = work[t].job
        BY <2>1, Moves
    <2> QED BY <1>7, <2>1, <2>2
<1>19. CASE AuditDelivered(t) \/ AuditFailed(t) \/ AuditDenial(t) \/ DeadLetter(t)
    <2>1. /\ work[t].step # "idle"
          /\ \/ Done(t) \/ Raise(t)
             \/ GiveUp(t, "dead letter", "audit_unrecordable")
             \/ GiveUp(t, "dead letter", "send_failed")
        BY <1>19 DEF AuditDelivered, AuditFailed, AuditDenial, DeadLetter, At
    <2>2. \/ work'[t].step = "idle"
          \/ work'[t].step = "dead letter" /\ work'[t].job = work[t].job
        BY <2>1, Moves
    <2> QED BY <1>6, <1>7, <2>1, <2>2
<1> QED
    BY <1>8, <1>9, <1>10, <1>11, <1>12, <1>13, <1>14, <1>15, <1>16, <1>17, <1>18, <1>19
    DEF WorkerStep

LEMMA WorkerDispatches ==
    ASSUME Types, WorkersOK, DispatchInv, NEW t \in Workers, WorkerStep(t)
    PROVE  DispatchInv'
<1>1. issued' = issued /\ queue' \subseteq queue /\ \A j \in Jobs : sends[j] > 0 => sends'[j] > 0
    BY WorkerWrites
<1>2. ASSUME NEW u \in Workers \ {t} PROVE Sendable(work[u])'
    <2>1. work'[u] = work[u] /\ Sendable(work[u]) /\ WorkerOK(work[u])
        BY OneMoves DEF DispatchInv, WorkersOK
    <2>2. work[u].step # "idle" => work[u].job \in Jobs
        BY <2>1, DeliveryAssumption DEF WorkerOK
    <2> QED BY <1>1, <2>1, <2>2 DEF Sendable
<1> QED BY <1>1, <1>2, WorkerSendable DEF DispatchInv

LEMMA DispatchStep ==
    ASSUME Types, WorkersOK, DispatchInv, [Next]_vars
    PROVE  DispatchInv'
<1>1. ASSUME NEW t \in Workers, WorkerStep(t) PROVE DispatchInv'
    BY <1>1, WorkerDispatches
<1>2. ASSUME NEW k \in Jobs, Enqueue(k) PROVE DispatchInv'
    <2>1. /\ issued' = [issued EXCEPT ![k] = now] /\ now # None /\ queue' = queue \cup {k}
          /\ UNCHANGED <<work, sends>>
        BY <1>2 DEF Enqueue, Types, None
    <2>2. \A j : issued[j] # None => issued'[j] # None
        BY <2>1 DEF Types
    <2>3. \A t \in Workers : Sendable(work[t])'
        BY <2>1, <2>2 DEF DispatchInv, Sendable
    <2> QED BY <2>1, <2>2, <2>3 DEF DispatchInv, Types
<1>3. CASE Restart
    <2>1. /\ UNCHANGED <<issued, queue>>
          /\ \A t \in Workers : work'[t].step = "idle"
        BY <1>3 DEF Restart, Idle
    <2> QED BY <2>1 DEF DispatchInv, Sendable
<1>4. CASE Change \/ Tick \/ TimeSource \/ UNCHANGED vars
    <2>1. UNCHANGED <<issued, queue, sends>> /\ (work' = work \/ \E g, E : Observe(g, E))
        BY <1>4 DEF Change, ChangeConsent, ResetBreaker, StartConfirm, Confirm, Revoke, Tick,
                    TimeSource, vars, env
    <2>2. ASSUME NEW t \in Workers
          PROVE  work'[t].step = work[t].step /\ work'[t].job = work[t].job
        BY <2>1, ObservedStep
    <2> QED BY <2>1, <2>2 DEF DispatchInv, Sendable
<1> QED BY <1>1, <1>2, <1>3, <1>4 DEF Next

(* A worker's step leaves the leases alone, or spends some of the job it   *)
(* holds; it spends one for certain when it is done with sending.          *)
LEMMA LeaseTypes ==
    ASSUME NEW j \in Jobs
    PROVE  /\ Leases[j] \in Nat /\ Leases'[j] \in Nat
           /\ Leases[j] = Cardinality(IF j \in seen THEN Senders(j) ELSE Workers)
           /\ Leases'[j] = Cardinality(IF j \in seen' THEN Senders(j)' ELSE Workers)
<1>1. Senders(j) \in SUBSET Workers /\ Senders(j)' \in SUBSET Workers /\ Workers \in SUBSET Workers
    BY DEF Senders
<1>2. /\ Leases[j] = Cardinality(IF j \in seen THEN Senders(j) ELSE Workers)
      /\ Leases'[j] = Cardinality(IF j \in seen' THEN Senders(j)' ELSE Workers)
    BY DEF Leases
<1> QED BY <1>1, <1>2, SomeWorkers

LEMMA SameLeases ==
    ASSUME \A j \in Jobs : Leases'[j] = Leases[j]
    PROVE  Leases' = Leases
BY DEF Leases

LEMMA LeasesAreSpent ==
    ASSUME NEW k \in Jobs, \A j \in Jobs \ {k} : Leases'[j] = Leases[j], Leases'[k] < Leases[k]
    PROVE  Dispatching!Spend(k)
<1>1. Leases[k] \in Nat /\ Leases'[k] \in Nat
    BY LeaseTypes
<1>2. Leases' = [Leases EXCEPT ![k] = Leases'[k]]
    BY DEF Leases
<1> QED BY <1>1, <1>2 DEF Dispatching!Spend

LEMMA AcceptKeepsLeases ==
    ASSUME Types, NEW t \in Workers, NEW k \in Jobs, Accept(t, k)
    PROVE  Leases' = Leases
<1>1. /\ work[t].step = "idle" /\ seen' = seen /\ k \notin seen
      /\ work'[t].job = k /\ work'[t].step = "mark"
    BY DEF Accept, At, Rejected, Types, WorkRecord
<1>2. \A u \in Workers \ {t} : work'[u] = work[u]
    BY OneMoves DEF WorkerStep
<1>3. ASSUME NEW j \in Jobs, j \in seen PROVE Senders(j)' = Senders(j)
    BY <1>1, <1>2, <1>3 DEF Senders, Job
<1> QED BY <1>1, <1>3, LeaseTypes, SameLeases

LEMMA WorkersLeases ==
    ASSUME Types, NEW t \in Workers, WorkerStep(t), ~\E j \in Jobs : Accept(t, j),
           NEW k \in Jobs, work[t].job = k, seen' = seen \/ seen' = seen \cup {k}
    PROVE  /\ Leases' = Leases \/ Dispatching!Spend(k)
           /\ t \in Senders(k) /\ k \in seen /\ t \notin Senders(k)' => Dispatching!Spend(k)
           /\ t \notin Senders(k) /\ seen' = seen => Leases' = Leases
<1>1. ASSUME NEW j \in Jobs
      PROVE  /\ Senders(j)' \subseteq Senders(j) /\ Senders(j) \in SUBSET Workers
             /\ Senders(j)' \in SUBSET Workers /\ Cardinality(Senders(j)') <= Cardinality(Senders(j))
             /\ Cardinality(Senders(j)) \in Nat /\ Cardinality(Senders(j)') \in Nat
             /\ Cardinality(Senders(j)') <= Cardinality(Workers) /\ Cardinality(Workers) \in Nat
    <2>1. Senders(j) \in SUBSET Workers /\ Senders(j)' \in SUBSET Workers
        BY DEF Senders
    <2>2. Senders(j)' \subseteq Senders(j)
        BY SendersShrink
    <2> QED BY <2>1, <2>2, SomeWorkers
<1>2. ASSUME NEW j \in Jobs \ {k} PROVE Leases'[j] = Leases[j]
    <2>1. t \notin Senders(j) /\ t \notin Senders(j)'
        BY <1>1 DEF Senders, Job
    <2>2. Senders(j)' = Senders(j)
        BY <2>1, OneMoves DEF Senders, Job
    <2> QED BY <2>2, LeaseTypes
<1>3. Leases'[k] <= Leases[k]
    BY <1>1, LeaseTypes
<1>4. Leases' = Leases \/ Dispatching!Spend(k)
    <2>1. Leases[k] \in Nat /\ Leases'[k] \in Nat
        BY LeaseTypes
    <2>2. CASE Leases'[k] = Leases[k]
        BY <1>2, <2>2, SameLeases
    <2>3. CASE Leases'[k] < Leases[k]
        BY <1>2, <2>3, LeasesAreSpent
    <2> QED BY <1>3, <2>1, <2>2, <2>3
<1>5. ASSUME t \in Senders(k), k \in seen, t \notin Senders(k)' PROVE Dispatching!Spend(k)
    <2>1. Senders(k)' \subseteq Senders(k) \ {t} /\ k \in seen'
        BY <1>1, <1>5
    <2>2. Cardinality(Senders(k)') + 1 <= Cardinality(Senders(k))
        BY <1>1, <1>5, <2>1, SomeWorkers
    <2>3. Leases'[k] < Leases[k]
        BY <1>1, <1>5, <2>1, <2>2, LeaseTypes
    <2> QED BY <1>2, <2>3, LeasesAreSpent
<1>6. ASSUME t \notin Senders(k), seen' = seen PROVE Leases' = Leases
    <2>1. t \notin Senders(k)'
        BY <1>1, <1>6
    <2>2. Senders(k)' = Senders(k)
        BY <1>6, <2>1, OneMoves DEF Senders, Job
    <2>3. Leases'[k] = Leases[k]
        BY <1>6, <2>2, LeaseTypes
    <2> QED BY <1>2, <2>3, SameLeases
<1> QED BY <1>4, <1>5, <1>6

(* Where a job is goes by the queue, and a job that leaves it is gone.     *)
LEMMA PlacesStay ==
    ASSUME UNCHANGED <<issued, queue>>
    PROVE  Places' = Places
BY DEF Places

LEMMA PlacesLeave ==
    ASSUME NEW k \in Jobs, issued' = issued, issued[k] # None, queue' = queue \ {k}
    PROVE  Dispatching!Leave(k) /\ Dispatching!Issued(k)
BY DEF Places, Dispatching!Leave, Dispatching!Issued

DispatchVars == <<Places, Leases, sends, audit, skipped, shelved, 1 + restarts>>

(* A step that changes no more than the leases gives some up, or nothing.  *)
LEMMA LeasesOnly ==
    ASSUME NEW k \in Jobs, Leases' = Leases \/ Dispatching!Spend(k),
           UNCHANGED <<issued, queue, sends, audit, skipped, shelved, restarts>>
    PROVE  [Dispatching!Next]_DispatchVars
<1>1. Places' = Places
    BY PlacesStay
<1>2. CASE Leases' = Leases
    BY <1>1, <1>2 DEF DispatchVars
<1>3. CASE Dispatching!Spend(k)
    <2>1. Dispatching!GiveUp(k)
        BY <1>1, <1>3 DEF Dispatching!GiveUp
    <2> QED BY <2>1 DEF Dispatching!Next, Dispatching!JobStep
<1> QED BY <1>2, <1>3

(* A step that records an outcome settles the job.                         *)
LEMMA OutcomeSettles ==
    ASSUME NEW k \in Jobs, NEW outcome \in Outcomes, issued[k] # None,
           k \in Valid \/ outcome = "rejected", outcome = "delivered" => sends[k] > 0,
           AuditAppend(k, outcome), Leases' = Leases,
           \/ queue' = queue \ {k} /\ outcome \notin {"rejected", "failed"}
           \/ queue' = queue /\ outcome \in {"rejected", "failed", "dead_letter"},
           UNCHANGED <<issued, sends, skipped, shelved, restarts>>
    PROVE  Dispatching!Next
<1>1. Dispatching!Issued(k)
    BY DEF Dispatching!Issued, Places
<1>2. \/ Dispatching!Leave(k) /\ outcome \notin {"rejected", "failed"}
      \/ Places' = Places /\ outcome \in {"rejected", "failed", "dead_letter"}
    BY PlacesStay, PlacesLeave
<1>3. Dispatching!Settle(k, outcome)
    BY <1>1, <1>2 DEF Dispatching!Settle, AuditAppend
<1> QED BY <1>3 DEF Dispatching!Next, Dispatching!JobStep

(* The steps that take up or refuse a job.                                 *)
LEMMA TakingImplements ==
    ASSUME Types, WorkersOK, DispatchInv, NEW t \in Workers, NEW k \in Jobs,
           Accept(t, k) \/ Reject(t, k)
    PROVE  [Dispatching!Next]_DispatchVars
<1>1. UNCHANGED <<issued, restarts>>
    BY DEF Accept, Reject, env
<1>2. CASE Accept(t, k)
    <2>1. UNCHANGED <<queue, sends, audit, skipped, shelved>>
        BY <1>2 DEF Accept
    <2> QED BY <1>1, <1>2, <2>1, AcceptKeepsLeases, PlacesStay DEF DispatchVars
<1>3. CASE Reject(t, k)
    <2>1. /\ AuditAppend(k, "rejected") /\ UNCHANGED <<queue, seen, sends, skipped, shelved>>
          /\ issued[k] # None /\ work[t].step = "idle" /\ work'[t].step = "rejected"
        BY <1>3 DEF Reject, At, DispatchInv, Types, WorkRecord
    <2>2. Leases' = Leases
        <3>1. \A u \in Workers \ {t} : work'[u] = work[u]
            BY <1>3, OneMoves DEF WorkerStep
        <3>2. ASSUME NEW j \in Jobs PROVE Senders(j)' = Senders(j)
            BY <2>1, <3>1 DEF Senders, Job
        <3> QED BY <2>1, <3>2, LeaseTypes, SameLeases
    <2>3. "rejected" \in Outcomes
        BY DEF Outcomes
    <2> QED BY <1>1, <2>1, <2>2, <2>3, OutcomeSettles
<1> QED BY <1>2, <1>3

(* The steps of a thread that holds a job.                                 *)
LEMMA HoldingImplements ==
    ASSUME Types, WorkersOK, DispatchInv, NEW t \in Workers, WorkerStep(t),
           ~\E j \in Jobs : Accept(t, j) \/ Reject(t, j),
           NEW k \in Jobs, work[t].job = k, work[t].step # "idle"
    PROVE  [Dispatching!Next]_DispatchVars
<1>1. UNCHANGED <<issued, restarts>> /\ ~\E j \in Jobs : Accept(t, j)
    BY WorkerWrites
<1>2. Sendable(work[t]) /\ WorkerOK(work[t]) /\ work[t] \in WorkRecord
    BY DEF DispatchInv, WorkersOK, Types
<1>3. (work[t].step # "rejected" => k \in Valid) /\ issued[k] # None
    BY <1>2 DEF WorkerOK, Sendable
<1>4. HandedOver(work[t]) => k \in seen
    BY <1>2 DEF WorkerOK
<1>5. /\ {"rejected", "delivered", "failed", "dead_letter"} \subseteq Outcomes
      /\ \A reason \in Reasons \ {"none"} :
             reason \in Outcomes /\ reason \notin {"rejected", "delivered", "failed"}
    BY DEF Outcomes, Reasons
<1> HIDE DEF Outcomes
<1>6. CASE \/ Mark(t) \/ Resolve(t) \/ ReadConsent(t) \/ Check(t) \/ RecordSuccess(t)
           \/ RecordFailure(t)
    <2>1. /\ UNCHANGED <<queue, sends, audit, skipped, shelved>>
          /\ seen' = seen \/ seen' = seen \cup {k}
        BY <1>6 DEF Mark, Resolve, ReadConsent, Check, RecordSuccess, RecordFailure, GoTo, GiveUp, At,
                    Job
    <2> QED BY <1>1, <1>3, <2>1, WorkersLeases, LeasesOnly
<1>7. CASE AskBreaker(t)
    <2>1. /\ UNCHANGED <<sends, audit, shelved, seen>> /\ work[t].step = "breaker"
        BY <1>7 DEF AskBreaker, At
    <2>2. CASE Done(t) /\ skipped' = skipped \cup {k}
        <3>1. t \in Senders(k) /\ t \notin Senders(k)' /\ k \in seen
            BY <1>4, <2>1, <2>2, Moves DEF Senders, Job, HandedOver
        <3>2. Dispatching!Spend(k)
            BY <2>1, <3>1, WorkersLeases
        <3>3. Dispatching!Leave(k) /\ Dispatching!Issued(k)
            BY <1>1, <1>3, <2>1, <2>2, PlacesLeave DEF Done, Job
        <3>4. Dispatching!Drop(k)
            BY <1>1, <1>3, <2>1, <2>2, <3>2, <3>3 DEF Dispatching!Drop
        <3> QED BY <1>3, <2>1, <3>4 DEF Dispatching!Next, Dispatching!JobStep
    <2>3. CASE UNCHANGED <<queue, skipped>>
        BY <1>1, <1>3, <2>1, <2>3, WorkersLeases, LeasesOnly
    <2> QED BY <1>7, <2>2, <2>3 DEF AskBreaker, GoTo, GiveUp, Job
<1>8. CASE Send(t)
    <2>1. /\ UNCHANGED <<queue, audit, skipped, shelved, seen>> /\ work[t].step = "send"
        BY <1>8 DEF Send, GoTo, At
    <2>2. CASE sends' = [sends EXCEPT ![k] = @ + 1]
        <3>1. work'[t].step \in {"sent", "failed"}
            BY <1>8, Moves DEF Send
        <3>2. t \in Senders(k) /\ t \notin Senders(k)' /\ k \in seen
            BY <1>4, <2>1, <3>1 DEF Senders, Job, HandedOver
        <3>3. Dispatching!Spend(k)
            BY <2>1, <3>2, WorkersLeases
        <3>4. Dispatching!Issued(k) /\ k \in Valid \cap Owned \cap Encryptable
            BY <1>2, <1>3, <2>1 DEF Dispatching!Issued, Places, Sendable
        <3>5. Dispatching!Send(k)
            BY <1>1, <2>1, <2>2, <3>3, <3>4, PlacesStay DEF Dispatching!Send
        <3> QED BY <1>3, <2>1, <3>5 DEF Dispatching!Next, Dispatching!JobStep
    <2>3. CASE sends' = sends
        BY <1>1, <1>3, <2>1, <2>3, WorkersLeases, LeasesOnly
    <2> QED BY <1>8, <2>2, <2>3 DEF Send, Job
<1>9. CASE AuditDelivered(t) \/ AuditFailed(t) \/ AuditDenial(t) \/ DeadLetter(t)
    <2>1. /\ UNCHANGED <<sends, skipped, shelved, seen>>
          /\ work[t].step \in {"audit delivered", "audit failed", "deny", "dead letter"}
        BY <1>9 DEF AuditDelivered, AuditFailed, AuditDenial, DeadLetter, At
    <2>2. Leases' = Leases
        <3>1. t \notin Senders(k)
            BY <2>1 DEF Senders
        <3> QED BY <2>1, <3>1, WorkersLeases
    <2>3. CASE UNCHANGED <<queue, audit>>
        BY <1>1, <2>1, <2>2, <2>3, PlacesStay DEF DispatchVars
    <2>4. ASSUME NEW outcome \in Outcomes, AuditAppend(k, outcome),
                 outcome = "delivered" => sends[k] > 0,
                 \/ Done(t) /\ outcome \notin {"rejected", "failed"}
                 \/ queue' = queue /\ outcome \in {"failed", "dead_letter"}
          PROVE  Dispatching!Next
        BY <1>1, <1>3, <2>1, <2>2, <2>4, OutcomeSettles DEF Done, Job
    <2>5. CASE AuditDelivered(t)
        <3>1. sends[k] > 0
            BY <1>2, <2>5 DEF AuditDelivered, At, Sendable
        <3> QED BY <1>5, <2>3, <2>4, <2>5, <3>1 DEF AuditDelivered, AuditRaises, GiveUp, Job
    <2>6. CASE AuditFailed(t)
        BY <1>5, <2>3, <2>4, <2>6 DEF AuditFailed, AuditRaises, GiveUp, Raise, Job
    <2>7. CASE AuditDenial(t)
        <3>1. work[t].reason \in Reasons \ {"none"}
            BY <1>2, <2>7 DEF AuditDenial, At, WorkerOK, WorkRecord
        <3> QED BY <1>5, <2>3, <2>4, <2>7, <3>1 DEF AuditDenial, AuditRaises, Raise, Job
    <2>8. CASE DeadLetter(t)
        BY <1>5, <2>3, <2>4, <2>8 DEF DeadLetter, AuditRaises, Raise, Job
    <2> QED BY <1>9, <2>5, <2>6, <2>7, <2>8
<1>10. CASE DeadLetterRejected(t)
    <2>1. /\ UNCHANGED <<sends, skipped, audit, seen>> /\ work[t].step = "rejected"
        BY <1>10 DEF DeadLetterRejected, At
    <2>2. Leases' = Leases
        <3>1. t \notin Senders(k)
            BY <2>1 DEF Senders
        <3> QED BY <2>1, <3>1, WorkersLeases
    <2>3. CASE Done(t) /\ shelved' = shelved \cup {k}
        <3>1. <<k, "rejected">> \in audit
            BY <1>2, <2>1 DEF WorkerOK
        <3>2. Dispatching!Leave(k)
            BY <1>1, <1>3, <2>3, PlacesLeave DEF Done, Job
        <3>3. Dispatching!Shelve(k)
            BY <1>1, <2>1, <2>2, <2>3, <3>1, <3>2 DEF Dispatching!Shelve
        <3> QED BY <3>3 DEF Dispatching!Next, Dispatching!JobStep
    <2>4. CASE CallbackRaises(t)
        <3>1. UNCHANGED <<queue, shelved>>
            BY <2>4 DEF CallbackRaises, Raise
        <3> QED BY <1>1, <2>1, <2>2, <3>1, PlacesStay DEF DispatchVars
    <2> QED BY <1>10, <2>3, <2>4 DEF DeadLetterRejected, Job
<1> QED BY <1>6, <1>7, <1>8, <1>9, <1>10 DEF WorkerStep

LEMMA WorkerImplements ==
    ASSUME Types, WorkersOK, DispatchInv, NEW t \in Workers, WorkerStep(t)
    PROVE  [Dispatching!Next]_DispatchVars
<1>1. CASE \E j \in Jobs : Accept(t, j) \/ Reject(t, j)
    BY <1>1, TakingImplements
<1>2. CASE ~\E j \in Jobs : Accept(t, j) \/ Reject(t, j)
    <2>1. work[t].step # "idle"
        BY <1>2 DEF WorkerStep, DeadLetterRejected, Mark, Resolve, ReadConsent, Check, AskBreaker,
           Send, RecordSuccess, RecordFailure, AuditDelivered, AuditFailed, AuditDenial, DeadLetter, At
    <2>2. work[t].job \in Jobs
        BY <2>1, DeliveryAssumption DEF WorkersOK, WorkerOK
    <2> QED BY <1>2, <2>1, <2>2, HoldingImplements
<1> QED BY <1>1, <1>2

LEMMA StepImplements ==
    ASSUME Types, WorkersOK, DispatchInv, [Next]_vars
    PROVE  [Dispatching!Next]_DispatchVars
<1>1. ASSUME NEW t \in Workers, WorkerStep(t) PROVE [Dispatching!Next]_DispatchVars
    BY <1>1, WorkerImplements
<1>2. ASSUME NEW k \in Jobs, Enqueue(k) PROVE Dispatching!Next
    <2>1. /\ issued[k] = None /\ issued' = [issued EXCEPT ![k] = now] /\ now # None
          /\ queue' = queue \cup {k} /\ UNCHANGED <<seen, work, sends, audit, skipped, shelved, restarts>>
        BY <1>2 DEF Enqueue, Types, None
    <2>2. Places' = [Places EXCEPT ![k] = "queued"] /\ ~Dispatching!Issued(k)
        BY <2>1 DEF Places, Dispatching!Issued, Types
    <2>3. Leases' = Leases
        BY <2>1 DEF Leases, Senders, Job
    <2>4. Dispatching!Issue(k)
        BY <2>1, <2>2, <2>3 DEF Dispatching!Issue
    <2> QED BY <2>4 DEF Dispatching!Next, Dispatching!JobStep
<1>3. CASE Restart
    <2>1. /\ UNCHANGED <<issued, queue, sends, audit, skipped, shelved>>
          /\ seen' = {} /\ restarts' = restarts + 1 /\ restarts \in Nat
        BY <1>3 DEF Restart, Types
    <2>2. Leases' = [j \in Jobs |-> Cardinality(Workers)]
        BY <2>1 DEF Leases
    <2>3. Dispatching!NewLife
        BY <2>1, <2>2, PlacesStay DEF Dispatching!NewLife
    <2> QED BY <2>3 DEF Dispatching!Next
<1>4. CASE Change \/ Tick \/ TimeSource \/ UNCHANGED vars
    <2>1. /\ UNCHANGED <<issued, queue, sends, seen, audit, skipped, shelved, restarts>>
          /\ work' = work \/ \E g, E : Observe(g, E)
        BY <1>4 DEF Change, ChangeConsent, ResetBreaker, StartConfirm, Confirm, Revoke, Tick,
                    TimeSource, vars, env
    <2>2. ASSUME NEW t \in Workers
          PROVE  work'[t].step = work[t].step /\ work'[t].job = work[t].job
        BY <2>1, ObservedStep
    <2>3. \A j \in Jobs : Senders(j)' = Senders(j)
        BY <2>2 DEF Senders, Job
    <2>4. Leases' = Leases
        BY <2>1, <2>3, LeaseTypes, SameLeases
    <2> QED BY <2>1, <2>4, PlacesStay DEF DispatchVars
<1> QED BY <1>1, <1>2, <1>3, <1>4 DEF Next

LEMMA DispatchStart == Init => DispatchInv /\ Dispatching!Init
<1> SUFFICES ASSUME Init PROVE DispatchInv /\ Dispatching!Init
    OBVIOUS
<1>1. DispatchInv
    BY DEF Init, DispatchInv, Sendable, Idle
<1>2. Places = [j \in Jobs |-> "unissued"] /\ Leases = [j \in Jobs |-> Cardinality(Workers)]
    BY DEF Init, Places, Leases
<1>3. Dispatching!Init
    BY <1>2 DEF Init, Dispatching!Init
<1> QED BY <1>1, <1>3

(* The delivery side implements Dispatch: whatever threads, redeliveries,  *)
(* outages and restarts interleave, a job leaves the queue only settled on *)
(* the trail, rejected on it and dead-lettered, or skipped, is sent only   *)
(* if it may be, and each life of the process has only so many sends of    *)
(* it.                                                                     *)
THEOREM JobsAreDispatchedAsPromised == Spec => JobsAreDispatched
<1>1. Init => DispatchInv /\ Dispatching!Init
    BY DispatchStart
<1>2. IInv /\ DispatchInv /\ [Next]_vars => DispatchInv' /\ [Dispatching!Next]_DispatchVars
    BY DispatchStep, StepImplements DEF IInv
<1> QED BY <1>1, <1>2, InvHolds, PTL DEF Spec, JobsAreDispatched, Dispatching!Spec, DispatchVars

(* What the refinement says of the trail: that a job was delivered only if *)
(* it was sent, and nothing but that it was rejected of one that is not    *)
(* authentic.                                                              *)
TrailIsTrue ==
    \A j \in Jobs : /\ <<j, "delivered">> \in audit => sends[j] > 0
                    /\ \A outcome : <<j, outcome>> \in audit => j \in Valid \/ outcome = "rejected"

LEMMA DispatchMoves ==
    ASSUME [Dispatching!Next]_DispatchVars, sends \in [Jobs -> Nat]
    PROVE  /\ \A j \in Jobs : sends[j] > 0 => sends'[j] > 0
           /\ \A x \in audit' : \/ x \in audit
                                \/ \E j \in Jobs, outcome \in Outcomes :
                                       /\ x = <<j, outcome>> /\ (j \in Valid \/ outcome = "rejected")
                                       /\ outcome = "delivered" => sends[j] > 0
<1>1. CASE DispatchVars' = DispatchVars \/ Dispatching!NewLife
    BY <1>1 DEF DispatchVars, Dispatching!NewLife
<1>2. ASSUME NEW k \in Jobs,
             \/ Dispatching!Issue(k) \/ Dispatching!GiveUp(k) \/ Dispatching!Shelve(k)
             \/ Dispatching!Drop(k)
      PROVE  UNCHANGED <<sends, audit>>
    BY <1>2 DEF Dispatching!Issue, Dispatching!GiveUp, Dispatching!Shelve, Dispatching!Drop
<1>3. ASSUME NEW k \in Jobs, Dispatching!Send(k)
      PROVE  audit' = audit /\ \A j \in Jobs : sends[j] > 0 => sends'[j] > 0
    BY <1>3 DEF Dispatching!Send
<1>4. ASSUME NEW k \in Jobs, NEW outcome \in Outcomes, Dispatching!Settle(k, outcome)
      PROVE  /\ sends' = sends /\ audit' = audit \cup {<<k, outcome>>}
             /\ k \in Valid \/ outcome = "rejected"
             /\ outcome = "delivered" => sends[k] > 0
    BY <1>4 DEF Dispatching!Settle
<1> QED BY <1>1, <1>2, <1>3, <1>4 DEF Dispatching!Next, Dispatching!JobStep

(* What is on the trail of a job is true of it.                            *)
THEOREM TrailTellsTheTruth == Spec => []TrailIsTrue
<1>1. Init => TrailIsTrue
    BY DEF Init, TrailIsTrue
<1>2. TrailIsTrue /\ IInv /\ [Dispatching!Next]_DispatchVars => TrailIsTrue'
    <2> SUFFICES ASSUME TrailIsTrue, IInv, [Dispatching!Next]_DispatchVars PROVE TrailIsTrue'
        OBVIOUS
    <2>1. sends \in [Jobs -> Nat]
        BY DEF IInv, Types
    <2>2. ASSUME NEW j \in Jobs, NEW outcome, <<j, outcome>> \in audit'
          PROVE  /\ outcome = "delivered" => sends'[j] > 0
                 /\ j \in Valid \/ outcome = "rejected"
        <3>1. /\ outcome = "delivered" => sends[j] > 0
              /\ j \in Valid \/ outcome = "rejected"
            BY <2>1, <2>2, DispatchMoves DEF TrailIsTrue
        <3> QED BY <2>1, <3>1, DispatchMoves
    <2> QED BY <2>2 DEF TrailIsTrue
<1> QED BY <1>1, <1>2, InvHolds, JobsAreDispatchedAsPromised, PTL
        DEF Spec, JobsAreDispatched, Dispatching!Spec, DispatchVars
=============================================================================
