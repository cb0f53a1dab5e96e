---------------------------- MODULE ReminderEngine ----------------------------
(***************************************************************************)
(* The reminder engine: the scheduler's evaluations run in the background  *)
(* while API threads act on reminders, log contacts, change contacts and   *)
(* consent, the clock advances and the audit log's time source comes and   *)
(* goes.                                                                   *)
(***************************************************************************)
EXTENDS Scheduler, ReminderActions, ContactService

CONSTANTS
    Operations,     \* the API operations exercised
    InitialContacts \* contacts that may be present at the start

ASSUME EngineAssumption == InitialContacts \subseteq ContactIds

vars == <<now, timeUp, category, contact, reminder, event, audit, api, requests, touched,
          ledger, run, generated, cascade, restored, contested>>

Init ==
    /\ now = 1 /\ timeUp = TRUE
    /\ category = CategoryIds
    /\ \E present \in SUBSET InitialContacts :
        /\ Cardinality(present) <= MaxContacts
        /\ contact \in [present -> {NewContact(g) : g \in CategoryIds}]
    /\ touched = [c \in ContactIds |-> IF c \in DOMAIN contact THEN 1 ELSE None]
    /\ reminder = [k \in {} |-> None] /\ event = {}
    /\ \/ audit = {} /\ ledger = <<>>
       \/ /\ audit = {[action |-> "consent.grant", ref |-> None, at |-> 1]}
          /\ ledger = <<[action |-> "grant", record_time |-> 1, integrity_ok |-> TRUE,
                         appended |-> 1]>>
    /\ api = [t \in Threads |-> NoRequest] /\ requests = 0
    /\ run = [e \in Evaluators |-> NoRun]
    /\ generated = [k \in Keys |-> 0]
    /\ cascade = [t \in Threads |-> NoCascade] /\ restored = {} /\ contested = {}

Snooze(t) == \E k \in DOMAIN reminder, until \in now .. MaxTime + 1 :
                StartAction(t, "snooze", k, until)
Dismiss(t) == \E k \in DOMAIN reminder : StartAction(t, "dismiss", k, None)
MarkContacted(t) == \E k \in DOMAIN reminder : StartAction(t, "mark_contacted", k, None)

ActionRequest(t) ==
    /\ \/ "snooze" \in Operations /\ Snooze(t)
       \/ "dismiss" \in Operations /\ Dismiss(t)
       \/ "mark_contacted" \in Operations /\ MarkContacted(t)
       \/ "log_event" \in Operations /\ \E c \in ContactIds : StartLog(t, c)
       \/ ReminderActionStep(t)
    /\ UNCHANGED <<ledger, cascade, restored, contested>>

ContactRequest(t) ==
    /\ \/ "create_contact" \in Operations /\ \E g \in CategoryIds : StartCreate(t, g)
       \/ /\ "update_contact" \in Operations
          /\ \E c \in ContactIds, g \in CategoryIds : StartUpdate(t, c, g)
       \/ "delete_contact" \in Operations /\ \E c \in ContactIds : StartDelete(t, c)
       \/ ContactServiceStep(t)
    /\ UNCHANGED ledger

ConsentRequest(t) ==
    /\ \/ \E action \in ConsentOps \cap Operations : StartConsent(t, action)
       \/ ConsentStoreStep(t)
    /\ UNCHANGED <<contact, reminder, event, touched, cascade, restored, contested>>

ApiStep(t) ==
    /\ ActionRequest(t) \/ ContactRequest(t) \/ ConsentRequest(t)
    /\ UNCHANGED <<now, timeUp, category, run, generated>>

SchedulerStep(e) ==
    /\ EvaluationStep(e) \/ Killed(e)
    /\ UNCHANGED <<now, timeUp, category, contact, event, api, requests, touched, ledger,
                   cascade, restored, contested>>

Tick == /\ now < MaxTime /\ now' = now + 1
        /\ UNCHANGED <<timeUp, category, contact, reminder, event, audit, api, requests, touched,
                       ledger, run, generated, cascade, restored, contested>>

(* The time source fails or recovers.                                      *)
TimeSource == /\ "outage" \in Operations /\ timeUp' = ~timeUp
              /\ UNCHANGED <<now, category, contact, reminder, event, audit, api, requests,
                             touched, ledger, run, generated, cascade, restored, contested>>

Next ==
    \/ \E t \in Threads : ApiStep(t)
    \/ \E e \in Evaluators : SchedulerStep(e)
    \/ Tick
    \/ TimeSource

Spec == Init /\ [][Next]_vars
-------------------------------------------------------------------------------
RequestSteps ==
    {"none", "status", "suppress", "audit", "contact", "log", "event", "clock", "category", "write",
     "plan", "events", "copy", "rows", "remove rows", "restore contact", "restore rows", "record",
     "append"}
IsRequest(r) ==
    r \in [op : ReminderOps \cup ConsentOps \cup {"none", "log_event", "create_contact",
                "update_contact", "delete_contact"},
           step : RequestSteps, c : ContactIds \cup {None}, w : WindowIds \cup {None},
           g : CategoryIds \cup {None}, arg : Nat]
IsRun(r) ==
    /\ r = [step |-> r.step, at |-> r.at, window |-> r.window, existing |-> r.existing,
            count |-> r.count, categories |-> r.categories, contacts |-> r.contacts,
            todo |-> r.todo, next |-> r.next]
    /\ r.step \in {"idle", "categories", "contacts", "visit", "add"}
    /\ r.at \in Nat /\ r.window \in WindowIds \cup {None}
    /\ r.existing \subseteq Keys /\ r.count \in Nat /\ r.categories \subseteq CategoryIds
    /\ IsTable(r.contacts, ContactIds, ContactRow) /\ r.todo \subseteq DOMAIN r.contacts
    /\ r.next \in ContactIds \cup {None}
IsCascade(r) ==
    /\ r = [contact |-> r.contact, reminder |-> r.reminder, event |-> r.event,
            keys |-> r.keys, log |-> r.log, uncopied |-> r.uncopied, unsaved |-> r.unsaved]
    /\ IsTable(r.contact, ContactIds, ContactRow) /\ IsTable(r.reminder, Keys, ReminderRow)
    /\ {r.event, r.log, r.unsaved} \subseteq SUBSET (ContactIds \X Nat)
    /\ r.keys \subseteq Keys /\ r.uncopied \subseteq Keys

(* Every variable has the type the code's schema and local variables give  *)
(* it, and an evaluation only visits contacts it has read.                 *)
TypeOK ==
    /\ now \in Nat \ {0} /\ timeUp \in BOOLEAN /\ category \subseteq CategoryIds
    /\ IsTable(contact, ContactIds, ContactRow)
    /\ IsTable(reminder, Keys, ReminderRow)
    /\ event \subseteq ContactIds \X Nat
    /\ touched \in [ContactIds -> Nat]
    /\ DOMAIN api = Threads /\ (\A t \in Threads : IsRequest(api[t])) /\ requests \in Nat
    /\ ledger \in Seq(ConsentEvent)
    /\ DOMAIN run = Evaluators /\ \A e \in Evaluators : IsRun(run[e])
    /\ generated \in [Keys -> Nat]
    /\ DOMAIN cascade = Threads /\ (\A t \in Threads : IsCascade(cascade[t])) 
    /\ restored \subseteq ContactIds /\ contested \subseteq ContactIds

(* A reminder answers to the row it was generated for: unless the          *)
(* contact's row was written at or after the reminder's due time, that row *)
(* made the contact due then: its snooze had ended and its cadence had     *)
(* elapsed.  So a snooze or a logged contact that was complete before an   *)
(* evaluation began is honoured by it, whatever else runs meanwhile.  And  *)
(* the due time is outside the quiet hours, counted round the clock.       *)
StableRowMadeItDue ==
    \A k \in DOMAIN reminder :
        LET row == contact[k[1]]
            due == reminder[k].due_at
            hours == Settings[k[2]].quiet_hours
        IN  /\ k[1] \in DOMAIN contact /\ touched[k[1]] < due =>
                  /\ ~(row.snooze_until > due)
                  /\ row.last_contacted_at # None =>
                         row.last_contacted_at + Cadence[row.category_id] <= due
            /\ MinutesUntil(hours[1], MinuteAt[due]) >= MinutesUntil(hours[1], hours[2])

(* Every reminder had consent at an instant of its evaluation: some state  *)
(* of the ledger, no older than the tick before the evaluation began,      *)
(* authorized the channel at the due time.  A withdrawal that reached the  *)
(* ledger before the evaluation began can only be outdone by a grant.      *)
AppendedBefore(t) == {i \in DOMAIN ledger : ledger[i].appended < t}
ConsentedDuringEvaluation ==
    \A k \in DOMAIN reminder :
        \E n \in Cardinality(AppendedBefore(reminder[k].due_at)) .. Len(ledger) :
            IsDeliveryConsented(SubSeq(ledger, 1, n), reminder[k].due_at)

(* The cap of a window holds per evaluation in flight: overlapping ones do *)
(* not see each other's reminders, but re-runs, killed evaluations and     *)
(* deletions never add up to more.  (Reminders of a contact whose deletion *)
(* was rolled back may come on top.)                                       *)
OfContacts(keys, ids) == {k \in keys : k[1] \in ids}
CapPerWindow ==
    \A w \in WindowIds :
        Cardinality(InWindow(DOMAIN reminder, w) \ OfContacts(Keys, restored))
            <= PerWindowCap * Cardinality(Evaluators)

(* Generation is idempotent: across re-runs of a window, killed and failed *)
(* evaluations, and whatever became of the reminder since, a key's         *)
(* reminder is generated once, or once by each evaluation that overlaps,   *)
(* unless a deletion of its contact was rolled back.                       *)
OncePerWindow ==
    \A k \in Keys : generated[k] > Cardinality(Evaluators) => k[1] \in restored

(* A cadence clock never holds a time the audit trail does not show: it    *)
(* was the record time of a contact.logged entry of that contact.          *)
ClockResetIsAudited ==
    \A c \in DOMAIN contact :
        contact[c].last_contacted_at # None =>
            [action |-> "contact.logged", ref |-> c, at |-> contact[c].last_contacted_at] \in audit

(* Deletion is all or nothing, even when its audit write fails: once no    *)
(* deletion of a contact is in flight, either the contact is there with    *)
(* every reminder ever generated for it, or the deletion is on record.     *)
(* (Two overlapping deletions of one contact may undo each other's undo.)  *)
AllOrNothingDelete ==
    \A c \in ContactIds \ contested :
        touched[c] # None /\ ~Deleting(c) =>
            IF c \in DOMAIN contact
            THEN \A k \in OfContacts(Keys, {c}) : generated[k] > 0 => k \in DOMAIN reminder
            ELSE \E entry \in audit : entry.action = "deletion" /\ entry.ref = c

(* actions.py promises that every action writes an audit entry, and log.py *)
(* that a mutation whose entry cannot be written is not applied: a         *)
(* reminder no request is working on has its status on the audit trail.    *)
EveryActionIsAudited ==
    \A k \in DOMAIN reminder :
        reminder[k].status # "pending" /\ (\A t \in Threads : Key(t) # k) =>
            \E op \in ReminderOps, entry \in audit :
                /\ StatusAfter[op] = reminder[k].status
                /\ entry.action = ActionName[op] /\ entry.ref = k

(* service.py promises a cascade over the contact's reminders: a deletion  *)
(* on record, with no request under way, leaves none behind.               *)
DeletionLeavesNoReminder ==
    \A c \in ContactIds \ DOMAIN contact :
        touched[c] # None /\ ~Deleting(c) => OfContacts(DOMAIN reminder, {c}) = {}
-------------------------------------------------------------------------------
(* What LifeCycle sees of the engine.  A contact is deleted, or still      *)
(* being restored, as far as the deletion in flight for it has come.       *)
Undoing(c) == \E t \in Threads : \E step \in {"restore contact", "restore rows"} :
                 api[t].c = c /\ At(t, "delete_contact", step)
Phases ==
    [c \in ContactIds |->
        IF c \in contested THEN "contested"
        ELSE IF touched[c] = None THEN "none"
        ELSE IF Undoing(c) THEN "restoring"
        ELSE IF Deleting(c) THEN "deleting"
        ELSE IF c \in DOMAIN contact THEN "live" ELSE "deleted"]
StatusesNow ==
    [k \in Keys |-> IF k \in DOMAIN reminder THEN reminder[k].status ELSE "absent"]
Recorded == {c \in ContactIds : \E entry \in audit : entry.action = "deletion" /\ entry.ref = c}

Lives == INSTANCE LifeCycle WITH
    Contacts <- ContactIds, Windows <- WindowIds, Limit <- Cardinality(Evaluators),
    phase <- Phases, status <- StatusesNow, generations <- generated,
    undone <- restored, recorded <- Recorded

(* The engine implements LifeCycle: whatever requests, evaluations, kills  *)
(* and failing audit writes interleave, a deleted contact never returns,   *)
(* one whose deletion failed is live again only with every reminder it     *)
(* had, a contact that is there has no deletion on record, only deletions  *)
(* remove reminders, and one acted on is pending again only by as many     *)
(* generations as evaluations can overlap, or after a failed deletion.     *)
ContactsFollowTheirLife == Lives!Spec
=============================================================================
