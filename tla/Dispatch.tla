------------------------------- MODULE Dispatch -------------------------------
(***************************************************************************)
(* What the delivery side promises, in the abstract, of each job.  A job   *)
(* stays queued from its issue until it is settled, dropped, or rejected   *)
(* and shelved.  In each life of the process it may be sent a limited      *)
(* number of times, its leases: a send uses up one, as does giving up, and *)
(* only a new life brings new ones.  What the trail says of a job is true: *)
(* one that is recorded as delivered was sent.                             *)
(***************************************************************************)
EXTENDS Naturals

CONSTANTS Jobs, Outcomes,
    Authentic,      \* the jobs that may be processed at all
    Deliverable,    \* and those among them that may be sent
    Limit           \* how often a job may be sent in one life of the process

VARIABLES
    place,      \* of each job: "unissued", "queued" or "gone"
    leases,     \* how often each job may still be sent in this life
    sent,       \* how often each job was sent
    trail,      \* the outcomes on record, as pairs with their jobs
    dropped,    \* the jobs given up without a record
    shelved,    \* the rejected jobs put aside
    lives       \* how often the process was started

Init ==
    /\ place = [j \in Jobs |-> "unissued"]
    /\ leases = [j \in Jobs |-> Limit] /\ sent = [j \in Jobs |-> 0]
    /\ trail = {} /\ dropped = {} /\ shelved = {} /\ lives = 1

Issued(j) == place[j] # "unissued"
Leave(j) == place' = [place EXCEPT ![j] = "gone"]
Spend(j) == \E n \in 0 .. leases[j] : n < leases[j] /\ leases' = [leases EXCEPT ![j] = n]

Issue(j) ==
    /\ ~Issued(j) /\ place' = [place EXCEPT ![j] = "queued"]
    /\ UNCHANGED <<leases, sent, trail, dropped, shelved, lives>>
GiveUp(j) == Spend(j) /\ UNCHANGED <<place, sent, trail, dropped, shelved, lives>>
Send(j) ==
    /\ Issued(j) /\ j \in Deliverable
    /\ Spend(j) /\ sent' = [sent EXCEPT ![j] = @ + 1]
    /\ UNCHANGED <<place, trail, dropped, shelved, lives>>

(* An outcome on record settles the job, but for a rejection and a failed  *)
(* attempt; one to be dead-lettered may stay queued all the same.          *)
Settle(j, outcome) ==
    /\ Issued(j) /\ (j \in Authentic \/ outcome = "rejected")
    /\ outcome = "delivered" => sent[j] > 0
    /\ trail' = trail \cup {<<j, outcome>>}
    /\ \/ outcome \notin {"rejected", "failed"} /\ Leave(j)
       \/ outcome \in {"rejected", "failed", "dead_letter"} /\ UNCHANGED place
    /\ UNCHANGED <<leases, sent, dropped, shelved, lives>>
Shelve(j) ==
    /\ <<j, "rejected">> \in trail /\ shelved' = shelved \cup {j}
    /\ Leave(j) /\ UNCHANGED <<leases, sent, trail, dropped, lives>>
Drop(j) ==
    /\ Issued(j) /\ j \in Authentic
    /\ Spend(j) /\ Leave(j) /\ dropped' = dropped \cup {j}
    /\ UNCHANGED <<sent, trail, shelved, lives>>

NewLife ==
    /\ leases' = [j \in Jobs |-> Limit] /\ lives' = lives + 1
    /\ UNCHANGED <<place, sent, trail, dropped, shelved>>

JobStep(j) ==
    \/ Issue(j) \/ GiveUp(j) \/ Send(j) \/ Shelve(j) \/ Drop(j)
    \/ \E outcome \in Outcomes : Settle(j, outcome)
Next == NewLife \/ \E j \in Jobs : JobStep(j)

Spec == Init /\ [][Next]_<<place, leases, sent, trail, dropped, shelved, lives>>
=============================================================================
