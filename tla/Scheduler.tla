------------------------------ MODULE Scheduler ------------------------------
(***************************************************************************)
(* Scheduler.evaluate_user: a background process that, for one owner and   *)
(* window, generates a reminder for every contact that is due.  It lists   *)
(* reminders, categories and contacts once, then decides contact by        *)
(* contact on those copies while API requests go on changing the rows.     *)
(*                                                                         *)
(* A globally paused account returns at once and changes nothing, so it    *)
(* has no action here.                                                     *)
(***************************************************************************)
EXTENDS ConsentStore, Cadence

CONSTANTS
    Evaluators,     \* concurrent evaluations of this owner
    PerWindowCap,   \* UserSettings.per_window_cap
    Settings,       \* the UserSettings the caller passes with each window
    MinuteAt,       \* the user's local time at each tick
    WindowsAt       \* the windows the caller may ask to evaluate at each tick

ASSUME SchedulerAssumption ==
    /\ IsFiniteSet(Evaluators) /\ PerWindowCap \in Nat
    /\ Settings \in [WindowIds -> UserSettings] /\ MinuteAt \in [1 .. MaxTime -> Minutes]
    /\ WindowsAt \in [1 .. MaxTime -> SUBSET WindowIds]

VARIABLES
    run,        \* each evaluation's local variables
    generated   \* history: how often each key's reminder was generated

NoRun == [step |-> "idle", at |-> None, window |-> None, existing |-> {}, count |-> 0,
          categories |-> {}, contacts |-> [c \in {} |-> None], todo |-> {}, next |-> None]

(* Mutant: an active snooze does not keep a contact from being due.         *)
RowDueIgnoringSnooze(row, categories, t) ==
    /\ row.category_id \in categories
    /\ row.last_contacted_at # None => t - row.last_contacted_at >= Cadence[row.category_id]

(* _is_due, conditions 1 and 2: no active snooze, the category is known    *)
(* and its cadence has elapsed.                                            *)
RowDue(row, categories, t) ==
    /\ row.snooze_until <= t
    /\ row.category_id \in categories
    /\ row.last_contacted_at # None => t - row.last_contacted_at >= Cadence[row.category_id]

InWindow(keys, w) == {k \in keys : k[2] = w}

(* Mutants: the cap counts the reminders of this run only; reminders that  *)
(* were acted on no longer count as generated.                             *)
EvaluateCountingThisRun(e, w) ==
    /\ run[e].step = "idle"
    /\ run' = [run EXCEPT ![e] = [NoRun EXCEPT !.step = "categories", !.at = now, !.window = w,
                                     !.existing = DOMAIN reminder]]
    /\ UNCHANGED <<reminder, audit, generated>>
EvaluateForgettingActedOn(e, w) ==
    /\ run[e].step = "idle"
    /\ run' = [run EXCEPT ![e] = [NoRun EXCEPT !.step = "categories", !.at = now, !.window = w,
           !.existing = {k \in DOMAIN reminder : reminder[k].status = "pending"}]]
    /\ UNCHANGED <<reminder, audit, generated>>

Evaluate(e, w) ==
    /\ run[e].step = "idle"
    /\ run' = [run EXCEPT ![e] = [NoRun EXCEPT !.step = "categories", !.at = now, !.window = w,
                                     !.existing = DOMAIN reminder,
                                     !.count = Cardinality(InWindow(DOMAIN reminder, w))]]
    /\ UNCHANGED <<reminder, audit, generated>>

ListCategories(e) ==
    /\ run[e].step = "categories"
    /\ run' = [run EXCEPT ![e].step = "contacts", ![e].categories = category]
    /\ UNCHANGED <<reminder, audit, generated>>

ListContacts(e) ==
    /\ run[e].step = "contacts"
    /\ run' = [run EXCEPT ![e].step = "visit", ![e].contacts = contact, ![e].todo = DOMAIN contact]
    /\ UNCHANGED <<reminder, audit, generated>>

(* The evaluation returns, or an exception of the audit log leaves it.     *)
Return(e) == run' = [run EXCEPT ![e] = NoRun] /\ UNCHANGED <<reminder, generated>>

CapReached(e) ==
    /\ run[e].step = "visit" /\ run[e].todo # {} /\ run[e].count >= PerWindowCap
    /\ AuditAppend("scheduler.cap_reached", run[e].window) \/ AuditRaises
    /\ Return(e)

Visiting(e, c) == run[e].step = "visit" /\ c \in run[e].todo /\ run[e].count < PerWindowCap
Skip(e, c) == run' = [run EXCEPT ![e].todo = @ \ {c}] /\ UNCHANGED <<reminder, generated>>
Due(e, c) == /\ RowDue(run[e].contacts[c], run[e].categories, run[e].at)
             /\ IsDeliveryAllowed(Settings[run[e].window], MinuteAt[run[e].at])

AlreadyGeneratedOrNotDue(e, c) ==
    /\ Visiting(e, c)
    /\ <<c, run[e].window>> \in run[e].existing \/ ~Due(e, c)
    /\ Skip(e, c)
    /\ UNCHANGED audit

NoConsent(e, c) ==
    /\ Visiting(e, c) /\ <<c, run[e].window>> \notin run[e].existing /\ Due(e, c)
    /\ ~IsDeliveryConsented(ledger, run[e].at)
    /\ \/ AuditAppend("consent.denied", None) /\ Skip(e, c)
       \/ AuditRaises /\ Return(e)

(* Mutant: any grant on record counts, whatever came after it.             *)
ConsentedByAnyGrant(e, c) ==
    /\ Visiting(e, c) /\ <<c, run[e].window>> \notin run[e].existing /\ Due(e, c)
    /\ \E i \in Relevant(ledger, run[e].at) : ledger[i].action = "grant"
    /\ run' = [run EXCEPT ![e].step = "add", ![e].next = c]
    /\ UNCHANGED <<reminder, audit, generated>>

Consented(e, c) ==
    /\ Visiting(e, c) /\ <<c, run[e].window>> \notin run[e].existing /\ Due(e, c)
    /\ IsDeliveryConsented(ledger, run[e].at)
    /\ run' = [run EXCEPT ![e].step = "add", ![e].next = c]
    /\ UNCHANGED <<reminder, audit, generated>>

AddReminder(e) ==
    LET key == <<run[e].next, run[e].window>> IN
    /\ run[e].step = "add"
    /\ reminder' = Add(reminder, key, [status |-> "pending", due_at |-> run[e].at])
    /\ generated' = [generated EXCEPT ![key] = @ + 1]
    /\ run' = [run EXCEPT ![e].step = "visit", ![e].existing = @ \cup {key},
                          ![e].count = @ + 1, ![e].todo = @ \ {run[e].next}, ![e].next = None]
    /\ UNCHANGED audit

EvaluationDone(e) ==
    /\ run[e].step = "visit" /\ run[e].todo = {}
    /\ Return(e)
    /\ UNCHANGED audit

(* The background process is killed: its local state is gone.              *)
Killed(e) ==
    /\ run[e].step # "idle"
    /\ Return(e)
    /\ UNCHANGED audit

EvaluationStep(e) ==
    \/ \E w \in WindowsAt[now] : Evaluate(e, w)
    \/ ListCategories(e) \/ ListContacts(e)
    \/ CapReached(e) \/ AddReminder(e) \/ EvaluationDone(e)
    \/ \E c \in ContactIds : AlreadyGeneratedOrNotDue(e, c) \/ NoConsent(e, c) \/ Consented(e, c)
=============================================================================
