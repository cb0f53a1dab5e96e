------------------------ MODULE ReminderEngine_proofs ------------------------
(***************************************************************************)
(* The reminder engine, for any contacts, windows, evaluations, threads    *)
(* and bounds: quiet hours, the types of its variables, the audited        *)
(* cadence clocks, and what a deletion in flight holds at each step.       *)
(***************************************************************************)
EXTENDS ReminderEngine, FiniteSetTheorems, TLAPS

(* is_delivery_allowed compares minutes of the day, one way when the quiet *)
(* hours lie within a day and another when they wrap midnight.  Both come  *)
(* to the same: a minute is inside if, going round the clock from their    *)
(* start, one meets it before their end.                                   *)
THEOREM QuietHoursGoRoundTheClock ==
    ASSUME NEW start \in Minutes, NEW end \in Minutes, NEW minute \in Minutes
    PROVE  InQuietHours(start, end, minute)
               <=> MinutesUntil(start, minute) < MinutesUntil(start, end)
<1>1. Day \in Nat \ {0}
    BY CadenceAssumption
<1>2. CASE start <= end /\ start <= minute
    BY <1>1, <1>2 DEF Minutes, InQuietHours, MinutesUntil
<1>3. CASE start <= end /\ minute < start
    BY <1>1, <1>3 DEF Minutes, InQuietHours, MinutesUntil
<1>4. CASE end < start
    BY <1>1, <1>4 DEF Minutes, InQuietHours, MinutesUntil
<1> QED BY <1>2, <1>3, <1>4 DEF Minutes

(* Every time of day is outside when the quiet hours start when they end,  *)
(* as they do for a user who has set none; otherwise their first minute is *)
(* inside and the minute they end at is outside.                           *)
THEOREM QuietHoursAreHalfOpen ==
    ASSUME NEW start \in Minutes, NEW end \in Minutes
    PROVE  /\ start = end => \A minute \in Minutes : ~InQuietHours(start, end, minute)
           /\ start # end => InQuietHours(start, end, start)
           /\ ~InQuietHours(start, end, end)
BY CadenceAssumption DEF Minutes, InQuietHours

-------------------------------------------------------------------------------
(* What a request in progress names, and what an evaluation in progress    *)
(* has found out, beyond the types of their fields.                        *)
GoodRequest(r) ==
    /\ r.op \in ReminderOps => r.c \in ContactIds /\ r.w \in WindowIds
    /\ r.op \in {"log_event", "update_contact", "delete_contact"} => r.c \in ContactIds
    /\ r.op \in {"create_contact", "update_contact"} => r.g \in CategoryIds
GoodRun(r) ==
    /\ r.step # "idle" => r.window \in WindowIds /\ r.at \in 1 .. now
    /\ r.step = "add" => /\ r.next \in r.todo /\ <<r.next, r.window>> \notin r.existing
                         /\ r.count < PerWindowCap

ClockTypes == now \in 1 .. MaxTime /\ timeUp \in BOOLEAN
ApiTypes ==
    /\ DOMAIN api = Threads /\ requests \in Nat
    /\ \A t \in Threads : IsRequest(api[t]) /\ GoodRequest(api[t])
ContactTypes ==
    category \subseteq CategoryIds /\ IsTable(contact, ContactIds, ContactRow)
    /\ touched \in [ContactIds -> Nat]
ReminderTypes == IsTable(reminder, Keys, ReminderRow)
EventTypes == event \subseteq ContactIds \X Nat
LedgerTypes == ledger \in Seq(ConsentEvent)
RunTypes ==
    /\ DOMAIN run = Evaluators /\ generated \in [Keys -> Nat]
    /\ \A e \in Evaluators : IsRun(run[e]) /\ GoodRun(run[e])
CascadeTypes ==
    /\ DOMAIN cascade = Threads /\ \A t \in Threads : IsCascade(cascade[t])
    /\ restored \subseteq ContactIds /\ contested \subseteq ContactIds
    /\ \A t \in Threads, step \in {"restore contact", "restore rows"} :
        At(t, "delete_contact", step) => cascade[t].keys \subseteq DOMAIN cascade[t].reminder
Types ==
    /\ ClockTypes /\ ApiTypes /\ ContactTypes /\ ReminderTypes /\ EventTypes /\ LedgerTypes
    /\ RunTypes /\ CascadeTypes
-------------------------------------------------------------------------------
(* Who writes the contacts' rows.                                          *)
LEMMA ContactWriters ==
    ASSUME [Next]_vars
    PROVE  \/ UNCHANGED <<contact, touched>>
           \/ \E t \in Threads :
                \/ SuppressContact(t) \/ ResetClock(t) \/ WriteCategory(t)
                \/ RemoveContact(t) \/ RestoreContact(t)
                \/ \E c \in ContactIds : InsertContact(t, c)
<1>1. ASSUME NEW t \in Threads, ActionRequest(t)
      PROVE  UNCHANGED <<contact, touched>> \/ SuppressContact(t) \/ ResetClock(t)
    BY <1>1 DEF ActionRequest, Snooze, Dismiss, MarkContacted, StartAction, StartLog,
                ReminderActionStep, SetStatus, AuditAction, FindContact, LogContact, AddEvent
<1>2. ASSUME NEW t \in Threads, ContactRequest(t)
      PROVE  \/ UNCHANGED <<contact, touched>> \/ WriteCategory(t)
             \/ RemoveContact(t) \/ RestoreContact(t)
             \/ \E c \in ContactIds : InsertContact(t, c)
    BY <1>2 DEF ContactRequest, StartCreate, StartUpdate, StartDelete, ContactServiceStep,
                FindCategory, ListReminders, ListEvents, CopyContact, CopyReminder, CopyEvent,
                AuditDeletion, RolledBack, RemoveReminder, RestoreReminder, RemoveEvent, RestoreEvent
<1>3. ASSUME NEW t \in Threads, ConsentRequest(t) PROVE UNCHANGED <<contact, touched>>
    BY <1>3 DEF ConsentRequest
<1> QED
    BY <1>1, <1>2, <1>3 DEF Next, ApiStep, SchedulerStep, Tick, TimeSource, vars

(* Who writes the reminders.                                               *)
LEMMA ReminderWriters ==
    ASSUME [Next]_vars
    PROVE  \/ UNCHANGED reminder
           \/ \E t \in Threads : SetStatus(t)
           \/ \E t \in Threads, k \in Keys : RemoveReminder(t, k) \/ RestoreReminder(t, k)
           \/ \E e \in Evaluators : AddReminder(e)
<1>1. ASSUME NEW t \in Threads, ActionRequest(t) PROVE UNCHANGED reminder \/ SetStatus(t)
    BY <1>1 DEF ActionRequest, Snooze, Dismiss, MarkContacted, StartAction, StartLog,
                ReminderActionStep, SuppressContact, AuditAction, FindContact, LogContact,
                AddEvent, ResetClock
<1>2. ASSUME NEW t \in Threads, ContactRequest(t)
      PROVE  UNCHANGED reminder \/ \E k \in Keys : RemoveReminder(t, k) \/ RestoreReminder(t, k)
    BY <1>2 DEF ContactRequest, StartCreate, StartUpdate, StartDelete, ContactServiceStep,
                FindCategory, InsertContact, WriteCategory, ListReminders, ListEvents, CopyContact,
                CopyReminder, CopyEvent, RemoveContact, AuditDeletion, RestoreContact, RolledBack,
                RemoveEvent, RestoreEvent
<1>3. ASSUME NEW t \in Threads, ConsentRequest(t) PROVE UNCHANGED reminder
    BY <1>3 DEF ConsentRequest
<1>4. ASSUME NEW e \in Evaluators, SchedulerStep(e) PROVE UNCHANGED reminder \/ AddReminder(e)
    BY <1>4 DEF SchedulerStep, EvaluationStep, Evaluate, ListCategories, ListContacts, CapReached,
                EvaluationDone, Killed, Return, AlreadyGeneratedOrNotDue, NoConsent, Consented, Skip
<1> QED
    BY <1>1, <1>2, <1>3, <1>4 DEF Next, ApiStep, Tick, TimeSource, vars

(* Who writes the ledger, and the record times of contacts.                *)
LEMMA LedgerWriters ==
    ASSUME [Next]_vars
    PROVE  UNCHANGED ledger \/ \E t \in Threads : AppendConsent(t)
<1>1. ASSUME NEW t \in Threads, ConsentRequest(t) PROVE UNCHANGED ledger \/ AppendConsent(t)
    BY <1>1 DEF ConsentRequest, StartConsent, ConsentStoreStep, RecordConsent
<1> QED
    BY <1>1 DEF Next, ApiStep, ActionRequest, ContactRequest, SchedulerStep, Tick, TimeSource, vars

LEMMA EventWriters ==
    ASSUME [Next]_vars
    PROVE  \/ UNCHANGED event
           \/ \E t \in Threads :
                AddEvent(t) \/ \E x \in cascade[t].log : RemoveEvent(t, x) \/ RestoreEvent(t, x)
<1>1. ASSUME NEW t \in Threads, ActionRequest(t) PROVE UNCHANGED event \/ AddEvent(t)
    BY <1>1 DEF ActionRequest, Snooze, Dismiss, MarkContacted, StartAction, StartLog,
                ReminderActionStep, SetStatus, SuppressContact, AuditAction, FindContact,
                LogContact, ResetClock
<1>2. ASSUME NEW t \in Threads, ContactRequest(t)
      PROVE  UNCHANGED event \/ \E x \in cascade[t].log : RemoveEvent(t, x) \/ RestoreEvent(t, x)
    BY <1>2 DEF ContactRequest, StartCreate, StartUpdate, StartDelete, ContactServiceStep,
                FindCategory, InsertContact, WriteCategory, ListReminders, ListEvents, CopyContact,
                CopyReminder, CopyEvent, RemoveContact, AuditDeletion, RestoreContact, RolledBack,
                RemoveReminder, RestoreReminder
<1> QED
    BY <1>1, <1>2 DEF Next, ApiStep, ConsentRequest, SchedulerStep, Tick, TimeSource, vars

(* Who writes what a deletion remembers.                                   *)
LEMMA CascadeWriters ==
    ASSUME [Next]_vars
    PROVE  \/ UNCHANGED <<cascade, restored>>
           \/ \E t \in Threads :
                \/ ListReminders(t) \/ ListEvents(t) \/ CopyContact(t) \/ AuditDeletion(t) \/ RolledBack(t)
                \/ \E k \in Keys : CopyReminder(t, k) \/ RemoveReminder(t, k) \/ RestoreReminder(t, k)
                \/ \E x \in cascade[t].unsaved : CopyEvent(t, x)
                \/ \E x \in cascade[t].log : RemoveEvent(t, x) \/ RestoreEvent(t, x)
<1>1. ASSUME NEW t \in Threads, ContactRequest(t)
      PROVE  \/ UNCHANGED <<cascade, restored>>
             \/ ListReminders(t) \/ ListEvents(t) \/ CopyContact(t) \/ AuditDeletion(t) \/ RolledBack(t)
             \/ \E k \in Keys : CopyReminder(t, k) \/ RemoveReminder(t, k) \/ RestoreReminder(t, k)
             \/ \E x \in cascade[t].unsaved : CopyEvent(t, x)
             \/ \E x \in cascade[t].log : RemoveEvent(t, x) \/ RestoreEvent(t, x)
    BY <1>1 DEF ContactRequest, StartCreate, StartUpdate, StartDelete, ContactServiceStep,
                FindCategory, InsertContact, WriteCategory, RemoveContact, RestoreContact, deletions
<1> QED
    BY <1>1 DEF Next, ApiStep, ActionRequest, ConsentRequest, SchedulerStep, Tick, TimeSource, vars

(* Only an evaluation changes evaluations.                                 *)
LEMMA RunWriters ==
    ASSUME [Next]_vars
    PROVE  UNCHANGED <<run, generated>> \/ \E e \in Evaluators : SchedulerStep(e)
BY DEF Next, ApiStep, Tick, TimeSource, vars

-------------------------------------------------------------------------------
LEMMA OperationTables ==
    /\ ReminderOps = {"snooze", "dismiss", "mark_contacted"}
    /\ \A op \in ReminderOps :
        /\ FirstStep[op] \in {"status", "contact"} /\ AfterStatus[op] \in {"suppress", "audit"}
        /\ StatusAfter[op] \in Statuses
<1>1. ReminderOps = {"snooze", "dismiss", "mark_contacted"}
    BY DEF ReminderOps, StatusAfter
<1>2. FirstStep["snooze"] = "status" /\ FirstStep["dismiss"] = "status"
      /\ FirstStep["mark_contacted"] = "contact"
    BY DEF FirstStep
<1>3. AfterStatus["snooze"] = "suppress" /\ AfterStatus["dismiss"] = "audit"
      /\ AfterStatus["mark_contacted"] = "audit"
    BY DEF AfterStatus
<1>4. StatusAfter["snooze"] = "snoozed" /\ StatusAfter["dismiss"] = "dismissed"
      /\ StatusAfter["mark_contacted"] = "contacted"
    BY DEF StatusAfter
<1> QED BY <1>1, <1>2, <1>3, <1>4 DEF Statuses

(* A request begins as a good one, goes on, or ends.                       *)
Goes(t) ==
    \/ UNCHANGED <<api, requests>> \/ Finish(t)
    \/ \E step \in RequestSteps : GoTo(t, step)
    \/ \E step \in RequestSteps :
        api' = [api EXCEPT ![t].step = step, ![t].arg = now] /\ UNCHANGED requests
FirstSteps == {"status", "contact", "category", "plan", "record"}
Begins(t, ops) ==
    \E r : Begin(t, r) /\ IsRequest(r) /\ GoodRequest(r) /\ r.op \in ops /\ r.step \in FirstSteps

LEMMA ActionGoes == ASSUME NEW t \in Threads, ReminderActionStep(t) PROVE Goes(t)
<1>1. OnReminder(t, "status") => AfterStatus[api[t].op] \in RequestSteps
    BY OperationTables DEF OnReminder, RequestSteps
<1>2. {"log", "event", "clock", "status", "audit"} \subseteq RequestSteps
    BY DEF RequestSteps
<1>3. CASE SetStatus(t)
    BY <1>1, <1>3 DEF SetStatus, Goes
<1>4. CASE SuppressContact(t) \/ AuditAction(t) \/ FindContact(t) \/ AddEvent(t) \/ ResetClock(t)
    BY <1>2, <1>4 DEF SuppressContact, AuditAction, FindContact, AddEvent, ResetClock, Goes
<1>5. CASE LogContact(t)
    BY <1>2, <1>5 DEF LogContact, Goes
<1> QED BY <1>3, <1>4, <1>5 DEF ReminderActionStep

LEMMA ContactGoes == ASSUME NEW t \in Threads, ContactServiceStep(t) PROVE Goes(t)
<1>1. {"write", "events", "copy", "rows", "remove rows", "restore contact", "restore rows"}
          \subseteq RequestSteps
    BY DEF RequestSteps
<1>2. CASE \E k \in Keys : CopyReminder(t, k) \/ RemoveReminder(t, k) \/ RestoreReminder(t, k)
    BY <1>2 DEF CopyReminder, RemoveReminder, RestoreReminder, Goes
<1>3. CASE \/ \E x \in cascade[t].unsaved : CopyEvent(t, x)
           \/ \E x \in cascade[t].log : RemoveEvent(t, x) \/ RestoreEvent(t, x)
    BY <1>3 DEF CopyEvent, RemoveEvent, RestoreEvent, Goes
<1>4. CASE \/ FindCategory(t) \/ WriteCategory(t) \/ RolledBack(t)
           \/ \E c \in ContactIds : InsertContact(t, c)
    BY <1>1, <1>4 DEF FindCategory, WriteCategory, RolledBack, InsertContact, Goes
<1>5. CASE \/ ListReminders(t) \/ ListEvents(t) \/ CopyContact(t)
           \/ RemoveContact(t) \/ AuditDeletion(t) \/ RestoreContact(t)
    BY <1>1, <1>5
    DEF ListReminders, ListEvents, CopyContact, RemoveContact, AuditDeletion, RestoreContact, Goes
<1> QED BY <1>2, <1>3, <1>4, <1>5 DEF ContactServiceStep

LEMMA ConsentGoes == ASSUME NEW t \in Threads, ConsentStoreStep(t) PROVE Goes(t)
BY DEF ConsentStoreStep, RecordConsent, AppendConsent, RequestSteps, Goes

LEMMA ActionBegins ==
    ASSUME NEW t \in Threads, NEW op \in ReminderOps, NEW k \in Keys, NEW until \in Nat,
           StartAction(t, op, k, until)
    PROVE  Begins(t, ReminderOps)
<1>1. PICK request : request = Request(op, FirstStep[op])
    OBVIOUS
<1>2. PICK r : r = [request EXCEPT !.c = k[1], !.w = k[2], !.arg = until]
    OBVIOUS
<1>3. request = [op |-> op, step |-> FirstStep[op], c |-> 0, w |-> 0, g |-> 0, arg |-> 0]
    BY <1>1 DEF Request, NoRequest, None
<1>4. k[1] \in ContactIds /\ k[2] \in WindowIds /\ FirstStep[op] \in FirstSteps
    BY OperationTables DEF Keys, FirstSteps
<1>5. r \in [op : ReminderOps, step : FirstSteps, c : ContactIds, w : WindowIds, g : {0}, arg : Nat]
    BY <1>2, <1>3, <1>4
<1>6. GoodRequest(r)
    BY <1>5, OperationTables DEF GoodRequest
<1>7. IsRequest(r)
    BY <1>5 DEF IsRequest, FirstSteps, RequestSteps, None
<1>8. Begin(t, r)
    BY <1>1, <1>2 DEF StartAction
<1> QED BY <1>5, <1>6, <1>7, <1>8 DEF Begins

LEMMA OtherBegins ==
    ASSUME NEW t \in Threads, NEW op, NEW step \in FirstSteps, NEW c \in ContactIds \cup {0},
           NEW g \in CategoryIds \cup {0}, NEW r,
           r = [op |-> op, step |-> step, c |-> c, w |-> 0, g |-> g, arg |-> 0],
           Begin(t, r),
           \/ op \in ConsentOps
           \/ op \in {"log_event", "delete_contact"} /\ c \in ContactIds
           \/ op = "create_contact" /\ g \in CategoryIds
           \/ op = "update_contact" /\ c \in ContactIds /\ g \in CategoryIds
    PROVE  Begins(t, {op})
<1>1. r \in [op : ConsentOps \cup {"log_event", "create_contact", "update_contact",
                                   "delete_contact"},
             step : FirstSteps, c : ContactIds \cup {0}, w : {0}, g : CategoryIds \cup {0},
             arg : {0}]
    OBVIOUS
<1>2. GoodRequest(r)
    BY OperationTables DEF GoodRequest, ConsentOps
<1>3. IsRequest(r)
    BY <1>1 DEF IsRequest, FirstSteps, RequestSteps, None
<1> QED BY <1>1, <1>2, <1>3 DEF Begins

LEMMA LogBegins ==
    ASSUME NEW t \in Threads, NEW c \in ContactIds, StartLog(t, c) PROVE Begins(t, {"log_event"})
<1>1. PICK r : r = [Request("log_event", "contact") EXCEPT !.c = c]
    OBVIOUS
<1>2. r = [op |-> "log_event", step |-> "contact", c |-> c, w |-> 0, g |-> 0, arg |-> 0]
    BY <1>1 DEF Request, NoRequest, None
<1>3. Begin(t, r) /\ "contact" \in FirstSteps
    BY <1>1 DEF StartLog, FirstSteps
<1> QED BY <1>2, <1>3, OtherBegins

LEMMA ConsentBegins ==
    ASSUME NEW t \in Threads, NEW op \in ConsentOps, StartConsent(t, op) PROVE Begins(t, {op})
<1>1. PICK r : r = Request(op, "record")
    OBVIOUS
<1>2. r = [op |-> op, step |-> "record", c |-> 0, w |-> 0, g |-> 0, arg |-> 0]
    BY <1>1 DEF Request, NoRequest, None
<1>3. Begin(t, r) /\ "record" \in FirstSteps
    BY <1>1 DEF StartConsent, FirstSteps
<1> QED BY <1>2, <1>3, OtherBegins

LEMMA CreateBegins ==
    ASSUME NEW t \in Threads, NEW g \in CategoryIds, StartCreate(t, g)
    PROVE  Begins(t, {"create_contact"})
<1>1. PICK r : r = [Request("create_contact", "category") EXCEPT !.g = g]
    OBVIOUS
<1>2. r = [op |-> "create_contact", step |-> "category", c |-> 0, w |-> 0, g |-> g, arg |-> 0]
    BY <1>1 DEF Request, NoRequest, None
<1>3. Begin(t, r) /\ "category" \in FirstSteps
    BY <1>1 DEF StartCreate, FirstSteps
<1> QED BY <1>2, <1>3, OtherBegins

LEMMA UpdateBegins ==
    ASSUME NEW t \in Threads, NEW c \in ContactIds, NEW g \in CategoryIds, StartUpdate(t, c, g)
    PROVE  Begins(t, {"update_contact"})
<1>1. PICK r : r = [Request("update_contact", "category") EXCEPT !.c = c, !.g = g]
    OBVIOUS
<1>2. r = [op |-> "update_contact", step |-> "category", c |-> c, w |-> 0, g |-> g, arg |-> 0]
    BY <1>1 DEF Request, NoRequest, None
<1>3. Begin(t, r) /\ "category" \in FirstSteps
    BY <1>1 DEF StartUpdate, FirstSteps
<1> QED BY <1>2, <1>3, OtherBegins

LEMMA DeleteBegins ==
    ASSUME NEW t \in Threads, NEW c \in ContactIds, StartDelete(t, c)
    PROVE  /\ Begins(t, {"delete_contact"})
           /\ api' = [api EXCEPT ![t] = [op |-> "delete_contact", step |-> "plan", c |-> c,
                                        w |-> 0, g |-> 0, arg |-> 0]]
<1>1. PICK r : r = [Request("delete_contact", "plan") EXCEPT !.c = c]
    OBVIOUS
<1>2. r = [op |-> "delete_contact", step |-> "plan", c |-> c, w |-> 0, g |-> 0, arg |-> 0]
    BY <1>1 DEF Request, NoRequest, None
<1>3. Begin(t, r) /\ "plan" \in FirstSteps
    BY <1>1 DEF StartDelete, FirstSteps
<1> QED BY <1>2, <1>3, OtherBegins DEF Begin

(* The fields of a request that goes on, ends or is a deletion's first.    *)
LEMMA OnGoTo ==
    ASSUME Types, NEW t \in Threads, NEW step, GoTo(t, step)
    PROVE  /\ api'[t].op = api[t].op /\ api'[t].step = step /\ api'[t].c = api[t].c
           /\ api'[t].w = api[t].w /\ api'[t].g = api[t].g /\ api'[t].arg = api[t].arg
<1>1. PICK r : r = api[t]
    OBVIOUS
<1>2. t \in DOMAIN api /\ IsRequest(r)
    BY <1>1 DEF Types, ApiTypes
<1>3. api'[t] = [r EXCEPT !.step = step]
    BY <1>1, <1>2 DEF GoTo
<1> QED BY <1>1, <1>2, <1>3 DEF IsRequest

LEMMA OnStamp ==
    ASSUME Types, NEW t \in Threads, NEW step, api' = [api EXCEPT ![t].step = step, ![t].arg = now]
    PROVE  /\ api'[t].op = api[t].op /\ api'[t].step = step /\ api'[t].c = api[t].c
           /\ api'[t].w = api[t].w /\ api'[t].g = api[t].g /\ api'[t].arg = now
<1>1. PICK r : r = api[t]
    OBVIOUS
<1>2. t \in DOMAIN api /\ IsRequest(r)
    BY <1>1 DEF Types, ApiTypes
<1>3. api'[t] = [r EXCEPT !.step = step, !.arg = now]
    BY <1>1, <1>2
<1> QED BY <1>1, <1>2, <1>3 DEF IsRequest

LEMMA OnFinish ==
    ASSUME Types, NEW t \in Threads, Finish(t)
    PROVE  api'[t] = NoRequest /\ api'[t].op = "none" /\ api'[t].step = "none"
BY DEF Types, ApiTypes, Finish, NoRequest

LEMMA OnDelete ==
    ASSUME Types, NEW t \in Threads, NEW c \in ContactIds, StartDelete(t, c)
    PROVE  /\ api[t].op = "none" /\ api'[t].op = "delete_contact" /\ api'[t].step = "plan"
           /\ api'[t].c = c
<1>1. t \in DOMAIN api
    BY DEF Types, ApiTypes
<1>2. api'[t] = [op |-> "delete_contact", step |-> "plan", c |-> c, w |-> 0, g |-> 0, arg |-> 0]
    BY <1>1, DeleteBegins
<1> QED BY <1>2 DEF StartDelete, Begin, NoRequest

(* A step of each kind of request.                                         *)
LEMMA ActionMoves ==
    ASSUME Types, NEW t \in Threads, ActionRequest(t)
    PROVE  \/ ReminderActionStep(t) /\ Goes(t)
           \/ Begins(t, ReminderOps \cup {"log_event"}) /\ UNCHANGED <<contact, reminder, event, audit>>
<1>1. DOMAIN reminder \subseteq Keys
    BY DEF Types, ReminderTypes, IsTable
<1>2. None \in Nat /\ \A until \in now .. MaxTime + 1 : until \in Nat
    BY RepositoryAssumption DEF Types, ClockTypes, None
<1>3. {"snooze", "dismiss", "mark_contacted"} \subseteq ReminderOps
    BY OperationTables
<1> DEFINE Started == Begins(t, ReminderOps \cup {"log_event"})
                      /\ UNCHANGED <<contact, reminder, event, audit>>
<1>4. ASSUME NEW op \in ReminderOps, NEW k \in DOMAIN reminder, NEW until \in Nat,
             StartAction(t, op, k, until)
      PROVE  Started
  <2>1. Begins(t, ReminderOps)
      BY <1>1, <1>4, ActionBegins
  <2> QED BY <1>4, <2>1 DEF Begins, StartAction
<1>5. Snooze(t) => Started
    BY <1>2, <1>3, <1>4 DEF Snooze
<1>6. Dismiss(t) => Started
    BY <1>2, <1>3, <1>4 DEF Dismiss
<1>7. MarkContacted(t) => Started
    BY <1>2, <1>3, <1>4 DEF MarkContacted
<1>8. ASSUME NEW c \in ContactIds, StartLog(t, c) PROVE Started
    BY <1>8, LogBegins DEF Begins, StartLog
<1> HIDE DEF Started
<1>9. Started \/ ReminderActionStep(t)
    BY <1>5, <1>6, <1>7, <1>8 DEF ActionRequest
<1> QED BY <1>9, ActionGoes DEF Started

LEMMA ContactMoves ==
    ASSUME NEW t \in Threads, ContactRequest(t)
    PROVE  \/ ContactServiceStep(t) /\ Goes(t)
           \/ \E c \in ContactIds : StartDelete(t, c) /\ Begins(t, {"delete_contact"})
           \/ Begins(t, {"create_contact", "update_contact"})
              /\ UNCHANGED <<contact, reminder, event, audit, touched, cascade, deletions>>
<1>1. ASSUME NEW g \in CategoryIds, StartCreate(t, g)
      PROVE  Begins(t, {"create_contact", "update_contact"})
             /\ UNCHANGED <<contact, reminder, event, audit, touched, cascade, deletions>>
    BY <1>1, CreateBegins DEF Begins, StartCreate
<1>2. ASSUME NEW c \in ContactIds, NEW g \in CategoryIds, StartUpdate(t, c, g)
      PROVE  Begins(t, {"create_contact", "update_contact"})
             /\ UNCHANGED <<contact, reminder, event, audit, touched, cascade, deletions>>
    BY <1>2, UpdateBegins DEF Begins, StartUpdate
<1> QED BY <1>1, <1>2, ContactGoes, DeleteBegins DEF ContactRequest

LEMMA ConsentMoves ==
    ASSUME NEW t \in Threads, ConsentRequest(t)
    PROVE  \/ ConsentStoreStep(t) /\ Goes(t)
           \/ Begins(t, ConsentOps) /\ UNCHANGED <<audit, ledger>>
<1>1. ASSUME NEW op \in ConsentOps, StartConsent(t, op)
      PROVE  Begins(t, ConsentOps) /\ UNCHANGED <<audit, ledger>>
    BY <1>1, ConsentBegins DEF Begins, StartConsent
<1> QED BY <1>1, ConsentGoes DEF ConsentRequest

LEMMA RequestWriters ==
    ASSUME [Next]_vars, Types
    PROVE  \/ UNCHANGED <<api, requests>>
           \/ \E t \in Threads : ApiStep(t) /\ (Goes(t) \/ \E ops : Begins(t, ops))
<1>1. ASSUME NEW t \in Threads, ApiStep(t) PROVE Goes(t) \/ \E ops : Begins(t, ops)
    BY <1>1, ActionMoves, ContactMoves, ConsentMoves DEF ApiStep
<1>2. CASE UNCHANGED vars \/ Tick \/ TimeSource \/ \E e \in Evaluators : SchedulerStep(e)
    BY <1>2 DEF vars, Tick, TimeSource, SchedulerStep
<1> QED BY <1>1, <1>2 DEF Next

(* Each part of the type invariant is preserved.                           *)
LEMMA ApiTypesKept == ASSUME Types, [Next]_vars PROVE ApiTypes'
<1> USE DEF Types, ApiTypes
<1>1. None \in Nat /\ now \in Nat
    BY RepositoryAssumption DEF ClockTypes, None
<1>2. IsRequest(NoRequest) /\ GoodRequest(NoRequest)
    BY OperationTables DEF IsRequest, GoodRequest, NoRequest, None, RequestSteps
<1>3. ASSUME NEW t \in Threads, NEW r, IsRequest(r), GoodRequest(r), requests' \in Nat,
             api' = [api EXCEPT ![t] = r]
      PROVE  ApiTypes'
    BY <1>3 DEF IsRequest, GoodRequest
<1>4. ASSUME NEW t \in Threads, NEW step \in RequestSteps, NEW r,
             r = [api[t] EXCEPT !.step = step] \/ r = [api[t] EXCEPT !.step = step, !.arg = now]
      PROVE  IsRequest(r) /\ GoodRequest(r)
  <2>1. IsRequest(api[t]) /\ GoodRequest(api[t])
      OBVIOUS
  <2> QED BY <1>1, <1>4, <2>1 DEF IsRequest, GoodRequest
<1>5. ASSUME NEW t \in Threads, Goes(t) PROVE ApiTypes'
  <2>1. CASE UNCHANGED <<api, requests>>
      BY <2>1 DEF IsRequest, GoodRequest
  <2>2. CASE Finish(t)
      BY <1>2, <1>3, <2>2 DEF Finish
  <2>3. ASSUME NEW step \in RequestSteps, GoTo(t, step) PROVE ApiTypes'
    <3>1. api' = [api EXCEPT ![t] = [api[t] EXCEPT !.step = step]] /\ requests' \in Nat
        BY <2>3 DEF GoTo
    <3> QED BY <1>3, <1>4, <3>1
  <2>4. ASSUME NEW step \in RequestSteps,
               api' = [api EXCEPT ![t].step = step, ![t].arg = now], UNCHANGED requests
        PROVE  ApiTypes'
    <3>1. PICK r : r = [api[t] EXCEPT !.step = step, !.arg = now]
        OBVIOUS
    <3>2. api' = [api EXCEPT ![t] = r] /\ requests' \in Nat
        BY <2>4, <3>1
    <3> QED BY <1>3, <1>4, <3>1, <3>2
  <2> QED BY <1>5, <2>1, <2>2, <2>3, <2>4 DEF Goes
<1>6. ASSUME NEW t \in Threads, NEW ops, Begins(t, ops) PROVE ApiTypes'
    BY <1>3, <1>6 DEF Begins, Begin
<1>7. CASE UNCHANGED <<api, requests>>
    BY <1>7 DEF IsRequest, GoodRequest
<1> QED BY <1>5, <1>6, <1>7, RequestWriters

LEMMA ClockTypesKept == ASSUME Types, [Next]_vars PROVE ClockTypes' /\ (now' = now \/ now' = now + 1)
<1>1. UNCHANGED now \/ (now < MaxTime /\ now' = now + 1)
    BY DEF Next, ApiStep, SchedulerStep, Tick, TimeSource, vars
<1>2. TimeSource => timeUp' \in BOOLEAN
    BY Zenon DEF TimeSource
<1>3. timeUp' \in BOOLEAN
  <2>1. TimeSource \/ UNCHANGED timeUp
      BY DEF Next, ApiStep, SchedulerStep, Tick, vars
  <2> QED BY <1>2, <2>1 DEF Types, ClockTypes
<1> QED BY <1>1, <1>3, RepositoryAssumption DEF Types, ClockTypes

LEMMA ContactTypesKept == ASSUME Types, [Next]_vars PROVE ContactTypes'
<1> USE DEF Types, ContactTypes, IsTable
<1>0. category' = category
    BY DEF Next, ApiStep, SchedulerStep, Tick, TimeSource, vars
<1>1. now \in Nat
    BY RepositoryAssumption DEF ClockTypes
<1>2. ASSUME NEW c \in ContactIds, NEW rows, WriteContacts(c, rows), IsTable(rows, ContactIds, ContactRow)
      PROVE  ContactTypes'
    BY <1>0, <1>1, <1>2 DEF WriteContacts
<1>3. ASSUME NEW c \in ContactIds, NEW row \in ContactRow
      PROVE  IsTable(Add(contact, c, row), ContactIds, ContactRow)
    BY DEF Add
<1>4. ASSUME NEW c \in DOMAIN contact
      PROVE  /\ \A n \in Nat :
                 /\ IsTable([contact EXCEPT ![c].snooze_until = n], ContactIds, ContactRow)
                 /\ IsTable([contact EXCEPT ![c].last_contacted_at = n], ContactIds, ContactRow)
             /\ \A g \in CategoryIds :
                 IsTable([contact EXCEPT ![c].category_id = g], ContactIds, ContactRow)
    BY DEF ContactRow
<1>5. CASE UNCHANGED <<contact, touched>>
    BY <1>0, <1>5
<1>6. ASSUME NEW t \in Threads, SuppressContact(t) PROVE ContactTypes'
  <2>1. api[t].c \in ContactIds /\ api[t].arg \in Nat
      BY <1>6, OperationTables DEF SuppressContact, At, ApiTypes, IsRequest, GoodRequest
  <2> QED BY <1>2, <1>4, <1>5, <1>6, <2>1 DEF SuppressContact
<1>7. ASSUME NEW t \in Threads, ResetClock(t) PROVE ContactTypes'
  <2>1. api[t].c \in ContactIds /\ api[t].arg \in Nat
      BY <1>7, OperationTables DEF ResetClock, Logging, ApiTypes, IsRequest, GoodRequest
  <2> QED BY <1>2, <1>4, <1>5, <1>7, <2>1 DEF ResetClock
<1>8. ASSUME NEW t \in Threads, WriteCategory(t) PROVE ContactTypes'
  <2>1. api[t].c \in ContactIds /\ api[t].g \in CategoryIds
      BY <1>8 DEF WriteCategory, At, ApiTypes, IsRequest, GoodRequest
  <2> QED BY <1>2, <1>4, <1>5, <1>8, <2>1 DEF WriteCategory
<1>9. ASSUME NEW t \in Threads, RemoveContact(t) PROVE ContactTypes'
  <2>1. api[t].c \in ContactIds
      BY <1>9 DEF RemoveContact, At, ApiTypes, IsRequest, GoodRequest
  <2>2. IsTable(Delete(contact, api[t].c), ContactIds, ContactRow)
      BY DEF Delete
  <2> QED BY <1>2, <1>9, <2>1, <2>2 DEF RemoveContact
<1>10. ASSUME NEW t \in Threads, RestoreContact(t) PROVE ContactTypes'
  <2>1. api[t].c \in ContactIds
      BY <1>10 DEF RestoreContact, At, ApiTypes, IsRequest, GoodRequest
  <2>2. api[t].c \in DOMAIN cascade[t].contact => cascade[t].contact[api[t].c] \in ContactRow
      BY DEF CascadeTypes, IsCascade
  <2> QED BY <1>2, <1>3, <1>5, <1>10, <2>1, <2>2 DEF RestoreContact
<1>11. ASSUME NEW t \in Threads, NEW c \in ContactIds, InsertContact(t, c) PROVE ContactTypes'
  <2>1. api[t].g \in CategoryIds
      BY <1>11 DEF InsertContact, At, ApiTypes, IsRequest, GoodRequest
  <2>2. NewContact(api[t].g) \in ContactRow
      BY <2>1 DEF NewContact, ContactRow, None
  <2> QED BY <1>2, <1>3, <1>11, <2>2 DEF InsertContact
<1> QED BY <1>5, <1>6, <1>7, <1>8, <1>9, <1>10, <1>11, ContactWriters

LEMMA ReminderTypesKept == ASSUME Types, [Next]_vars PROVE ReminderTypes'
<1> USE DEF Types, ReminderTypes, IsTable
<1>1. ASSUME NEW k \in Keys, NEW row \in ReminderRow PROVE IsTable(Add(reminder, k, row), Keys, ReminderRow)
    BY DEF Add
<1>2. ASSUME NEW t \in Threads, SetStatus(t) PROVE ReminderTypes'
  <2>1. StatusAfter[api[t].op] \in Statuses
      BY <1>2, OperationTables DEF SetStatus, OnReminder
  <2>2. \A k \in DOMAIN reminder :
            [reminder[k] EXCEPT !.status = StatusAfter[api[t].op]] \in ReminderRow
      BY <2>1 DEF ReminderRow
  <2> QED BY <1>2, <2>2 DEF SetStatus, Update
<1>3. ASSUME NEW t \in Threads, NEW k \in Keys, RemoveReminder(t, k) PROVE ReminderTypes'
    BY <1>3 DEF RemoveReminder, Delete
<1>4. ASSUME NEW t \in Threads, NEW k \in Keys, RestoreReminder(t, k) PROVE ReminderTypes'
  <2>1. cascade[t].reminder[k] \in ReminderRow
      BY <1>4 DEF RestoreReminder, CascadeTypes, IsCascade
  <2> QED BY <1>1, <1>4, <2>1 DEF RestoreReminder
<1>5. ASSUME NEW e \in Evaluators, AddReminder(e) PROVE ReminderTypes'
  <2>1. run[e].next \in ContactIds /\ run[e].window \in WindowIds /\ run[e].at \in Nat
      BY <1>5, RepositoryAssumption DEF AddReminder, RunTypes, IsRun, GoodRun, ClockTypes
  <2>2. <<run[e].next, run[e].window>> \in Keys
        /\ [status |-> "pending", due_at |-> run[e].at] \in ReminderRow
      BY <2>1 DEF Keys, ReminderRow, Statuses
  <2> QED BY <1>1, <1>5, <2>2 DEF AddReminder
<1> QED BY <1>2, <1>3, <1>4, <1>5, ReminderWriters

LEMMA EventTypesKept == ASSUME Types, [Next]_vars PROVE EventTypes'
<1> USE DEF Types, EventTypes
<1>1. ASSUME NEW t \in Threads, AddEvent(t) PROVE EventTypes'
  <2>1. api[t].c \in ContactIds /\ api[t].arg \in Nat
      BY <1>1, OperationTables DEF AddEvent, Logging, ApiTypes, IsRequest, GoodRequest
  <2> QED BY <1>1, <2>1 DEF AddEvent
<1>2. ASSUME NEW t \in Threads, NEW x \in cascade[t].log, RemoveEvent(t, x) \/ RestoreEvent(t, x)
      PROVE  EventTypes'
  <2>1. x \in ContactIds \X Nat
      BY DEF CascadeTypes, IsCascade
  <2> QED BY <1>2, <2>1 DEF RemoveEvent, RestoreEvent
<1> QED BY <1>1, <1>2, EventWriters

LEMMA LedgerTypesKept ==
    ASSUME Types, [Next]_vars
    PROVE  /\ LedgerTypes'
           /\ \/ UNCHANGED ledger
              \/ \E e \in ConsentEvent : e.appended = now /\ ledger' = Append(ledger, e)
<1> USE DEF Types, LedgerTypes
<1>1. ASSUME NEW t \in Threads, AppendConsent(t)
      PROVE  \E e \in ConsentEvent : e.appended = now /\ ledger' = Append(ledger, e)
  <2> DEFINE e == [action |-> api[t].op, record_time |-> api[t].arg, integrity_ok |-> TRUE,
                   appended |-> now]
  <2>1. api[t].op \in {"grant", "withdraw"} /\ api[t].arg \in Nat /\ now \in Nat
      BY <1>1, RepositoryAssumption
      DEF AppendConsent, OnConsent, ConsentOps, ApiTypes, IsRequest, ClockTypes
  <2>2. e \in ConsentEvent /\ e.appended = now
      BY <2>1 DEF ConsentEvent
  <2> QED BY <1>1, <2>2 DEF AppendConsent
<1> QED BY <1>1, LedgerWriters

(* What an evaluation's step makes of its local variables.                 *)
LEMMA RunTypesKept == ASSUME Types, [Next]_vars PROVE RunTypes'
<1>0. now \in 1 .. MaxTime /\ now' \in 1 .. MaxTime /\ now' >= now /\ MaxTime \in Nat
    BY ClockTypesKept, RepositoryAssumption DEF Types, ClockTypes
<1>a. DOMAIN run = Evaluators /\ generated \in [Keys -> Nat]
      /\ \A e \in Evaluators : IsRun(run[e]) /\ GoodRun(run[e])
    BY DEF Types, RunTypes
<1>b. category \subseteq CategoryIds /\ IsTable(contact, ContactIds, ContactRow)
      /\ DOMAIN reminder \subseteq Keys
    BY DEF Types, ContactTypes, ReminderTypes, IsTable
<1>1. ASSUME NEW e \in Evaluators, NEW r, run' = [run EXCEPT ![e] = r],
             IsRun(r), GoodRun(r), generated' \in [Keys -> Nat]
      PROVE  RunTypes'
    BY <1>0, <1>a, <1>1 DEF RunTypes, IsRun, GoodRun
<1>2. ASSUME NEW e \in Evaluators, Return(e) PROVE RunTypes'
  <2>1. IsRun(NoRun) /\ GoodRun(NoRun)
      BY DEF NoRun, IsRun, GoodRun, IsTable, None
  <2> QED BY <1>1, <1>2, <1>a, <2>1 DEF Return
<1>3. ASSUME NEW e \in Evaluators, NEW w \in WindowIds, Evaluate(e, w) PROVE RunTypes'
  <2>1. PICK r : r = [NoRun EXCEPT !.step = "categories", !.at = now, !.window = w,
                                   !.existing = DOMAIN reminder,
                                   !.count = Cardinality(InWindow(DOMAIN reminder, w))]
      OBVIOUS
  <2>2. DOMAIN reminder \subseteq Keys
      BY <1>b
  <2>3. Cardinality(InWindow(DOMAIN reminder, w)) \in Nat
    <3>1. IsFiniteSet(Keys)
        BY RepositoryAssumption, FS_Product DEF Keys
    <3> QED BY <2>2, <3>1, FS_Subset, FS_CardinalityType DEF InWindow
  <2>4. IsRun(r)
    <3>1. PICK q : q = NoRun
        OBVIOUS
    <3>2. IsRun(q)
        BY <3>1 DEF NoRun, IsRun, IsTable, None
    <3>3. r = [q EXCEPT !.step = "categories", !.at = now, !.window = w,
                        !.existing = DOMAIN reminder,
                        !.count = Cardinality(InWindow(DOMAIN reminder, w))]
        BY <2>1, <3>1
    <3>4. r = [step |-> "categories", at |-> now, window |-> w, existing |-> DOMAIN reminder,
               count |-> Cardinality(InWindow(DOMAIN reminder, w)), categories |-> q.categories,
               contacts |-> q.contacts, todo |-> q.todo, next |-> q.next]
        BY <3>2, <3>3 DEF IsRun
    <3> QED BY <1>0, <2>2, <2>3, <3>2, <3>4 DEF IsRun
  <2>5. GoodRun(r)
      BY <1>0, <2>1 DEF NoRun, GoodRun
  <2> QED BY <1>1, <1>3, <1>a, <2>1, <2>4, <2>5 DEF Evaluate
<1>4. ASSUME NEW e \in Evaluators, ListCategories(e) PROVE RunTypes'
  <2>1. PICK r : r = [run[e] EXCEPT !.step = "contacts", !.categories = category]
      OBVIOUS
  <2>2. PICK q : q = run[e]
      OBVIOUS
  <2>3. IsRun(q) /\ GoodRun(q)
      BY <1>a, <2>2
  <2>4. IsRun(r)
      BY <1>4, <1>b, <2>1, <2>2, <2>3 DEF ListCategories, IsRun
  <2>5. GoodRun(r)
      BY <1>4, <2>1, <2>2, <2>3 DEF ListCategories, GoodRun
  <2> QED BY <1>1, <1>4, <1>a, <2>1, <2>4, <2>5 DEF ListCategories
<1>5. ASSUME NEW e \in Evaluators, ListContacts(e) PROVE RunTypes'
  <2>1. PICK r : r = [run[e] EXCEPT !.step = "visit", !.contacts = contact, !.todo = DOMAIN contact]
      OBVIOUS
  <2>2. PICK q : q = run[e]
      OBVIOUS
  <2>3. IsRun(q) /\ GoodRun(q)
      BY <1>a, <2>2
  <2>4. IsRun(r)
      BY <1>5, <1>b, <2>1, <2>2, <2>3 DEF ListContacts, IsRun
  <2>5. GoodRun(r)
      BY <1>5, <2>1, <2>2, <2>3 DEF ListContacts, GoodRun
  <2> QED BY <1>1, <1>5, <1>a, <2>1, <2>4, <2>5 DEF ListContacts
<1>6. ASSUME NEW e \in Evaluators, NEW c, Visiting(e, c), Skip(e, c) PROVE RunTypes'
  <2>1. PICK r : r = [run[e] EXCEPT !.todo = @ \ {c}]
      OBVIOUS
  <2>2. PICK q : q = run[e]
      OBVIOUS
  <2>3. IsRun(q) /\ GoodRun(q)
      BY <1>a, <2>2
  <2>4. IsRun(r)
      BY <1>6, <1>b, <2>1, <2>2, <2>3 DEF Visiting, IsRun
  <2>5. GoodRun(r)
      BY <1>6, <2>1, <2>2, <2>3 DEF Visiting, GoodRun
  <2> QED BY <1>1, <1>6, <1>a, <2>1, <2>4, <2>5 DEF Skip
<1>7. ASSUME NEW e \in Evaluators, NEW c \in ContactIds, Consented(e, c) PROVE RunTypes'
  <2>1. PICK r : r = [run[e] EXCEPT !.step = "add", !.next = c]
      OBVIOUS
  <2>2. PICK q : q = run[e]
      OBVIOUS
  <2>3. IsRun(q) /\ GoodRun(q)
      BY <1>a, <2>2
  <2>4. IsRun(r)
      BY <1>7, <1>b, <2>1, <2>2, <2>3 DEF Consented, Visiting, IsRun
  <2>5. GoodRun(r)
      BY <1>7, <2>1, <2>2, <2>3 DEF Consented, Visiting, GoodRun
  <2> QED BY <1>1, <1>7, <1>a, <2>1, <2>4, <2>5 DEF Consented
<1>8. ASSUME NEW e \in Evaluators, AddReminder(e) PROVE RunTypes'
  <2> DEFINE key == <<run[e].next, run[e].window>>
  <2>1. PICK r : r = [run[e] EXCEPT !.step = "visit", !.existing = run[e].existing \cup {key},
                          !.count = run[e].count + 1, !.todo = run[e].todo \ {run[e].next},
                          !.next = None]
      OBVIOUS
  <2>2. PICK q : q = run[e]
      OBVIOUS
  <2>3. IsRun(q) /\ GoodRun(q) /\ q.step = "add"
      BY <1>8, <1>a, <2>2 DEF AddReminder
  <2>4. key \in Keys
      BY <2>2, <2>3 DEF IsRun, GoodRun, Keys, IsTable
  <2>5. generated' \in [Keys -> Nat]
      BY <1>8, <1>a, <2>4 DEF AddReminder
  <2>6. IsRun(r)
    <3>1. key = <<q.next, q.window>> /\ q.existing \cup {key} \subseteq Keys
        BY <2>2, <2>3, <2>4 DEF IsRun
    <3> HIDE DEF key
    <3>2. r = [q EXCEPT !.step = "visit", !.existing = q.existing \cup {key},
                        !.count = q.count + 1, !.todo = q.todo \ {q.next}, !.next = None]
        BY <2>1, <2>2
    <3>3. r = [step |-> "visit", at |-> q.at, window |-> q.window,
               existing |-> q.existing \cup {key}, count |-> q.count + 1,
               categories |-> q.categories, contacts |-> q.contacts, todo |-> q.todo \ {q.next},
               next |-> None]
        BY <2>3, <3>2 DEF IsRun
    <3> QED BY <2>3, <3>1, <3>3 DEF IsRun
  <2>7. GoodRun(r)
      BY <2>1, <2>2, <2>3 DEF GoodRun
  <2>8. run' = [run EXCEPT ![e] = r]
      BY <1>8, <2>1, <2>2 DEF AddReminder
  <2> QED BY <1>1, <2>5, <2>6, <2>7, <2>8
<1>9. ASSUME NEW e \in Evaluators, SchedulerStep(e) PROVE RunTypes'
  <2>1. WindowsAt[now] \subseteq WindowIds
      BY <1>0, SchedulerAssumption
  <2>2. CASE \E w \in WindowsAt[now] : Evaluate(e, w)
      BY <1>3, <2>1, <2>2
  <2>3. CASE CapReached(e) \/ EvaluationDone(e) \/ Killed(e)
      BY <1>2, <2>3 DEF CapReached, EvaluationDone, Killed
  <2>4. ASSUME NEW c \in ContactIds, AlreadyGeneratedOrNotDue(e, c) \/ NoConsent(e, c) PROVE RunTypes'
      BY <1>2, <1>6, <2>4 DEF AlreadyGeneratedOrNotDue, NoConsent
  <2> QED BY <1>4, <1>5, <1>7, <1>8, <1>9, <2>2, <2>3, <2>4 DEF SchedulerStep, EvaluationStep
<1>10. CASE UNCHANGED <<run, generated>>
    BY <1>0, <1>10, <1>a DEF RunTypes, IsRun, GoodRun
<1> QED BY <1>9, <1>10, RunWriters

-------------------------------------------------------------------------------
(* A thread's request and its deletion's copies are its own.               *)
LEMMA OnlyItsThread ==
    ASSUME Types, NEW t \in Threads, ApiStep(t), NEW u \in Threads \ {t}
    PROVE  api'[u] = api[u] /\ cascade'[u] = cascade[u]
<1>1. u \in DOMAIN api /\ u \in DOMAIN cascade /\ u # t
    BY DEF Types, ApiTypes, CascadeTypes
<1>2. Goes(t) => api'[u] = api[u]
    BY <1>1 DEF Goes, GoTo, Finish
<1>3. \A ops : Begins(t, ops) => api'[u] = api[u]
    BY <1>1 DEF Begins, Begin
<1>4. ContactServiceStep(t) => cascade'[u] = cascade[u]
  <2>1. CASE FindCategory(t) \/ WriteCategory(t) \/ RemoveContact(t) \/ RestoreContact(t)
             \/ \E c \in ContactIds : InsertContact(t, c)
      BY <2>1 DEF FindCategory, WriteCategory, RemoveContact, RestoreContact, InsertContact
  <2>2. CASE ListReminders(t) \/ ListEvents(t) \/ CopyContact(t) \/ AuditDeletion(t) \/ RolledBack(t)
      BY <1>1, <2>2 DEF ListReminders, ListEvents, CopyContact, AuditDeletion, RolledBack
  <2>3. CASE \E k \in Keys : CopyReminder(t, k) \/ RemoveReminder(t, k) \/ RestoreReminder(t, k)
      BY <1>1, <2>3 DEF CopyReminder, RemoveReminder, RestoreReminder
  <2>4. CASE \/ \E x \in cascade[t].unsaved : CopyEvent(t, x)
             \/ \E x \in cascade[t].log : RemoveEvent(t, x) \/ RestoreEvent(t, x)
      BY <1>1, <2>4 DEF CopyEvent, RemoveEvent, RestoreEvent
  <2> QED BY <2>1, <2>2, <2>3, <2>4 DEF ContactServiceStep
<1>5. CASE ActionRequest(t)
    BY <1>2, <1>3, <1>5, ActionMoves DEF ActionRequest
<1>6. CASE ContactRequest(t)
    BY <1>2, <1>3, <1>4, <1>6, ContactMoves DEF StartDelete
<1>7. CASE ConsentRequest(t)
    BY <1>2, <1>3, <1>7, ConsentMoves DEF ConsentRequest
<1> QED BY <1>5, <1>6, <1>7 DEF ApiStep

(* What a step of the system is to one thread's deletion.                  *)
OfDeletion(t) ==
    \/ \E c \in ContactIds : StartDelete(t, c)
    \/ ListReminders(t) \/ ListEvents(t) \/ CopyContact(t) \/ RemoveContact(t) \/ AuditDeletion(t)
    \/ RestoreContact(t) \/ RolledBack(t)
    \/ \E k \in Keys : CopyReminder(t, k) \/ RemoveReminder(t, k) \/ RestoreReminder(t, k)
    \/ \E x \in cascade[t].unsaved : CopyEvent(t, x)
    \/ \E x \in cascade[t].log : RemoveEvent(t, x) \/ RestoreEvent(t, x)

LEMMA DeletionSteps ==
    ASSUME Types, [Next]_vars, NEW t \in Threads
    PROVE  \/ api'[t] = api[t] /\ cascade'[t] = cascade[t]
           \/ /\ cascade'[t] = cascade[t]
              /\ api[t].op # "delete_contact" /\ api'[t].op # "delete_contact"
           \/ OfDeletion(t)
<1>0. t \in DOMAIN api /\ IsRequest(api[t])
    BY DEF Types, ApiTypes
<1>1. Goes(t) /\ api[t].op # "delete_contact" => api'[t].op # "delete_contact"
    BY OnGoTo, OnFinish, OnStamp DEF Goes
<1>2. \A ops : Begins(t, ops) => api[t].op # "delete_contact" /\ api'[t].op \in ops
    BY <1>0 DEF Begins, Begin, NoRequest
<1>3. CASE ActionRequest(t)
  <2>1. ReminderActionStep(t) => api[t].op # "delete_contact"
      BY OperationTables
      DEF ReminderActionStep, SetStatus, SuppressContact, AuditAction, FindContact, LogContact,
          AddEvent, ResetClock, OnReminder, Logging, At
  <2>2. "delete_contact" \notin ReminderOps \cup {"log_event"}
      BY OperationTables
  <2> QED BY <1>1, <1>2, <1>3, <2>1, <2>2, ActionMoves DEF ActionRequest
<1>4. CASE ContactRequest(t)
  <2>1. FindCategory(t) \/ WriteCategory(t) \/ (\E c \in ContactIds : InsertContact(t, c))
            => api[t].op # "delete_contact" /\ cascade'[t] = cascade[t]
      BY DEF FindCategory, WriteCategory, InsertContact, At
  <2> QED BY <1>1, <1>2, <1>4, <2>1, ContactMoves DEF ContactServiceStep, OfDeletion
<1>5. CASE ConsentRequest(t)
  <2>1. ConsentStoreStep(t) => api[t].op # "delete_contact"
      BY DEF ConsentStoreStep, RecordConsent, AppendConsent, OnConsent, ConsentOps
  <2> QED BY <1>1, <1>2, <1>5, <2>1, ConsentMoves DEF ConsentRequest, ConsentOps
<1>6. CASE ApiStep(t)
    BY <1>3, <1>4, <1>5, <1>6 DEF ApiStep
<1>7. CASE \E u \in Threads \ {t} : ApiStep(u)
    BY <1>7, OnlyItsThread
<1>8. CASE UNCHANGED vars \/ Tick \/ TimeSource \/ \E e \in Evaluators : SchedulerStep(e)
    BY <1>8 DEF vars, Tick, TimeSource, SchedulerStep
<1> QED BY <1>6, <1>7, <1>8 DEF Next

(* What the steps of a deletion do to its plan and its copies.             *)
SameCopies(t) ==
    cascade'[t].contact = cascade[t].contact /\ cascade'[t].reminder = cascade[t].reminder
Copies(t, k) ==
    \/ k \in DOMAIN reminder /\ cascade'[t].reminder = Add(cascade[t].reminder, k, reminder[k])
    \/ k \notin DOMAIN reminder /\ cascade'[t].reminder = cascade[t].reminder

LEMMA DeletionFields ==
    ASSUME Types, NEW t \in Threads
    PROVE  LET old == cascade[t]
               new == cascade'[t]
           IN  /\ ListReminders(t) =>
                    /\ new.keys = {k \in DOMAIN reminder : k[1] = api[t].c} /\ new.uncopied = new.keys
                    /\ SameCopies(t)
               /\ ListEvents(t) => new.keys = old.keys /\ new.uncopied = old.uncopied /\ SameCopies(t)
               /\ CopyContact(t) =>
                    /\ new.contact = Rows(contact, {api[t].c}) /\ new.reminder = old.reminder
                    /\ new.keys = old.keys /\ new.uncopied = old.uncopied
               /\ \A k : CopyReminder(t, k) =>
                    /\ new.contact = old.contact /\ Copies(t, k)
                    /\ new.keys = old.keys /\ new.uncopied = old.uncopied \ {k}
               /\ \A x : CopyEvent(t, x) =>
                    new.keys = old.keys /\ new.uncopied = old.uncopied /\ SameCopies(t)
               /\ AuditDeletion(t) =>
                    \/ new = NoCascade /\ Finish(t) /\ AuditAppend("deletion", api[t].c)
                    \/ /\ new.keys = DOMAIN old.reminder /\ new.uncopied = old.uncopied /\ SameCopies(t)
                       /\ GoTo(t, "restore contact") /\ restored' = restored \cup {api[t].c}
               /\ RolledBack(t) => new = NoCascade
               /\ \A k : RemoveReminder(t, k) \/ RestoreReminder(t, k) =>
                    new.keys = old.keys \ {k} /\ new.uncopied = old.uncopied /\ SameCopies(t)
               /\ \A x : RemoveEvent(t, x) \/ RestoreEvent(t, x) =>
                    new.keys = old.keys /\ new.uncopied = old.uncopied /\ SameCopies(t)
<1>1. PICK r : r = cascade[t]
    OBVIOUS
<1>2. PICK q : q = cascade'[t]
    OBVIOUS
<1>3. t \in DOMAIN cascade /\ IsCascade(r)
    BY <1>1 DEF Types, CascadeTypes
<1> DEFINE Same == q.contact = r.contact /\ q.reminder = r.reminder
<1>a. Same => SameCopies(t)
    BY <1>1, <1>2 DEF SameCopies
<1>4. ASSUME ListReminders(t)
      PROVE  q.keys = {k \in DOMAIN reminder : k[1] = api[t].c} /\ q.uncopied = q.keys /\ Same
  <2>1. PICK keys : keys = {k \in DOMAIN reminder : k[1] = api[t].c}
      OBVIOUS
  <2>2. q = [r EXCEPT !.keys = keys, !.uncopied = keys]
      BY <1>1, <1>2, <1>3, <1>4, <2>1 DEF ListReminders
  <2> QED BY <1>3, <2>1, <2>2 DEF IsCascade
<1>b. ASSUME ListEvents(t) PROVE q.keys = r.keys /\ q.uncopied = r.uncopied /\ Same
  <2>1. PICK log : q = [r EXCEPT !.log = log, !.unsaved = log]
      BY <1>1, <1>2, <1>3, <1>b DEF ListEvents
  <2> QED BY <1>3, <2>1 DEF IsCascade
<1>5. ASSUME CopyContact(t)
      PROVE  /\ q.contact = Rows(contact, {api[t].c}) /\ q.reminder = r.reminder
             /\ q.keys = r.keys /\ q.uncopied = r.uncopied
  <2>1. q = [r EXCEPT !.contact = Rows(contact, {api[t].c})]
      BY <1>1, <1>2, <1>3, <1>5 DEF CopyContact
  <2> QED BY <1>3, <2>1 DEF IsCascade
<1>c. ASSUME NEW k, CopyReminder(t, k)
      PROVE  /\ q.contact = r.contact /\ q.keys = r.keys /\ q.uncopied = r.uncopied \ {k}
             /\ Copies(t, k)
  <2>1. PICK copy : copy = IF k \in DOMAIN reminder THEN Add(r.reminder, k, reminder[k]) ELSE r.reminder
      OBVIOUS
  <2>2. q = [r EXCEPT !.uncopied = r.uncopied \ {k}, !.reminder = copy]
      BY <1>1, <1>2, <1>3, <1>c, <2>1 DEF CopyReminder
  <2>3. /\ q.contact = r.contact /\ q.keys = r.keys /\ q.uncopied = r.uncopied \ {k}
        /\ q.reminder = copy
      BY <1>3, <2>2 DEF IsCascade
  <2> QED BY <1>1, <1>2, <2>1, <2>3 DEF Copies
<1>d. ASSUME NEW x, CopyEvent(t, x) PROVE q.keys = r.keys /\ q.uncopied = r.uncopied /\ Same
  <2>1. q = [r EXCEPT !.unsaved = r.unsaved \ {x}, !.event = r.event \cup (event \cap {x})]
      BY <1>1, <1>2, <1>3, <1>d DEF CopyEvent
  <2> QED BY <1>3, <2>1 DEF IsCascade
<1>6. ASSUME AuditDeletion(t)
      PROVE  \/ q = NoCascade /\ Finish(t) /\ AuditAppend("deletion", api[t].c)
             \/ /\ q.keys = DOMAIN r.reminder /\ q.uncopied = r.uncopied /\ Same
                /\ GoTo(t, "restore contact") /\ restored' = restored \cup {api[t].c}
  <2>1. \/ q = NoCascade /\ Finish(t) /\ AuditAppend("deletion", api[t].c)
        \/ /\ q = [r EXCEPT !.keys = DOMAIN r.reminder, !.log = r.event]
           /\ GoTo(t, "restore contact") /\ restored' = restored \cup {api[t].c}
      BY <1>1, <1>2, <1>3, <1>6 DEF AuditDeletion
  <2> QED BY <1>3, <2>1 DEF IsCascade
<1>7. RolledBack(t) => q = NoCascade
    BY <1>2, <1>3 DEF RolledBack
<1>8. ASSUME NEW k, RemoveReminder(t, k) \/ RestoreReminder(t, k)
      PROVE  q.keys = r.keys \ {k} /\ q.uncopied = r.uncopied /\ Same
  <2>1. q = [r EXCEPT !.keys = r.keys \ {k}]
      BY <1>1, <1>2, <1>3, <1>8 DEF RemoveReminder, RestoreReminder
  <2> QED BY <1>3, <2>1 DEF IsCascade
<1>9. ASSUME NEW x, RemoveEvent(t, x) \/ RestoreEvent(t, x)
      PROVE  q.keys = r.keys /\ q.uncopied = r.uncopied /\ Same
  <2>1. q = [r EXCEPT !.log = r.log \ {x}]
      BY <1>1, <1>2, <1>3, <1>9 DEF RemoveEvent, RestoreEvent
  <2> QED BY <1>3, <2>1 DEF IsCascade
<1> HIDE DEF Same
<1> QED BY <1>1, <1>2, <1>4, <1>5, <1>6, <1>7, <1>8, <1>9, <1>a, <1>b, <1>c, <1>d

(* The copies a deletion holds are none, or what it found in the tables.   *)
LEMMA CopiesAreFound ==
    ASSUME Types, [Next]_vars, NEW t \in Threads
    PROVE  LET old == cascade[t]
               new == cascade'[t]
           IN  /\ \/ new.contact = old.contact
                  \/ new.contact = Rows(contact, {api[t].c})
                  \/ new = NoCascade
               /\ \/ new.reminder = old.reminder
                  \/ \E k \in DOMAIN reminder : new.reminder = Add(old.reminder, k, reminder[k])
                  \/ new = NoCascade
<1>1. CASE (\E c \in ContactIds : StartDelete(t, c)) \/ RemoveContact(t) \/ RestoreContact(t)
    BY <1>1 DEF StartDelete, RemoveContact, RestoreContact, deletions
<1>2. CASE cascade'[t] = cascade[t]
    BY <1>2
<1>3. CASE ListReminders(t) \/ ListEvents(t) \/ CopyContact(t) \/ AuditDeletion(t) \/ RolledBack(t)
    BY <1>3, DeletionFields DEF SameCopies
<1>4. CASE \/ \E k \in Keys : RemoveReminder(t, k) \/ RestoreReminder(t, k)
           \/ \E x \in cascade[t].unsaved : CopyEvent(t, x)
           \/ \E x \in cascade[t].log : RemoveEvent(t, x) \/ RestoreEvent(t, x)
    BY <1>4, DeletionFields DEF SameCopies
<1>5. ASSUME NEW k \in Keys, CopyReminder(t, k)
      PROVE  /\ cascade'[t].contact = cascade[t].contact
             /\ \/ cascade'[t].reminder = cascade[t].reminder
                \/ \E j \in DOMAIN reminder : cascade'[t].reminder = Add(cascade[t].reminder, j, reminder[j])
    BY <1>5, DeletionFields DEF Copies
<1> QED BY <1>1, <1>2, <1>3, <1>4, <1>5, DeletionSteps DEF OfDeletion

LEMMA CascadeTypesKept == ASSUME Types, [Next]_vars PROVE CascadeTypes'
<1> DEFINE Good(t) ==
               \A step \in {"restore contact", "restore rows"} :
                   At(t, "delete_contact", step) => cascade[t].keys \subseteq DOMAIN cascade[t].reminder
<1>1. DOMAIN cascade = Threads /\ DOMAIN api = Threads
      /\ \A t \in Threads : IsCascade(cascade[t]) /\ Good(t) /\ IsRequest(api[t]) /\ GoodRequest(api[t])
    BY DEF Types, CascadeTypes, ApiTypes
<1>2. IsTable(contact, ContactIds, ContactRow) /\ IsTable(reminder, Keys, ReminderRow)
      /\ event \subseteq ContactIds \X Nat
    BY DEF Types, ContactTypes, ReminderTypes, EventTypes
<1>3. DOMAIN cascade' = Threads /\ restored' \subseteq ContactIds
  <2>1. \A t \in Threads : AuditDeletion(t) => api[t].c \in ContactIds
      BY <1>1 DEF AuditDeletion, At, GoodRequest
  <2>2. restored \subseteq ContactIds
      BY DEF Types, CascadeTypes
  <2>3. CASE UNCHANGED <<cascade, restored>>
      BY <1>1, <2>2, <2>3
  <2>4. ASSUME NEW t \in Threads,
               \/ ListReminders(t) \/ ListEvents(t) \/ CopyContact(t) \/ RolledBack(t)
               \/ \E k : CopyReminder(t, k) \/ RemoveReminder(t, k) \/ RestoreReminder(t, k)
               \/ \E x : CopyEvent(t, x) \/ RemoveEvent(t, x) \/ RestoreEvent(t, x)
        PROVE  DOMAIN cascade' = DOMAIN cascade /\ restored' = restored
      BY <2>4
      DEF ListReminders, ListEvents, CopyContact, RolledBack, CopyReminder, CopyEvent,
          RemoveReminder, RestoreReminder, RemoveEvent, RestoreEvent, deletions
  <2>5. ASSUME NEW t \in Threads, AuditDeletion(t)
        PROVE  DOMAIN cascade' = DOMAIN cascade /\ restored' \subseteq restored \cup {api[t].c}
      BY <2>5 DEF AuditDeletion
  <2> QED BY <1>1, <2>1, <2>2, <2>3, <2>4, <2>5, CascadeWriters
<1>4. contested' \subseteq ContactIds
  <2>1. ASSUME NEW t \in Threads, ContactServiceStep(t) PROVE UNCHANGED contested
      BY <2>1
      DEF ContactServiceStep, FindCategory, WriteCategory, InsertContact, ListReminders, ListEvents,
          CopyContact, CopyReminder, CopyEvent, RemoveContact, AuditDeletion, RestoreContact,
          RolledBack, RemoveReminder, RestoreReminder, RemoveEvent, RestoreEvent, deletions
  <2>2. ASSUME NEW t \in Threads, NEW c \in ContactIds, StartDelete(t, c)
        PROVE  contested' \subseteq contested \cup {c}
      BY <2>2 DEF StartDelete
  <2>3. ASSUME NEW t \in Threads, ContactRequest(t)
        PROVE  UNCHANGED contested \/ \E c \in ContactIds : contested' \subseteq contested \cup {c}
      BY <2>1, <2>2, <2>3 DEF ContactRequest, StartCreate, StartUpdate, deletions
  <2>4. UNCHANGED contested \/ \E c \in ContactIds : contested' \subseteq contested \cup {c}
      BY <2>3 DEF Next, ApiStep, ActionRequest, ConsentRequest, SchedulerStep, Tick, TimeSource, vars,
                  deletions
  <2>5. contested \subseteq ContactIds
      BY DEF Types, CascadeTypes
  <2> QED BY <2>4, <2>5
<1>5. ASSUME NEW t \in Threads PROVE IsCascade(cascade'[t]) /\ Good(t)'
  <2>1. PICK r : r = cascade[t]
      OBVIOUS
  <2>2. PICK q : q = cascade'[t]
      OBVIOUS
  <2>3. IsCascade(r) /\ IsRequest(api[t])
      BY <1>1, <2>1
  <2>a. api'[t].step \notin {"restore contact", "restore rows"} => Good(t)'
      BY DEF At
  <2>4. CASE cascade'[t] = cascade[t] /\ (api'[t] = api[t] \/ api'[t].op # "delete_contact")
      BY <1>1, <2>4 DEF At
  <2>5. ASSUME NEW c \in ContactIds, StartDelete(t, c) PROVE IsCascade(cascade'[t]) /\ Good(t)'
    <3>1. api'[t].step = "plan"
        BY <2>5, OnDelete
    <3> QED BY <1>1, <2>5, <3>1 DEF StartDelete, At
  <2>6. CASE ListReminders(t)
    <3>1. PICK keys : keys = {k \in DOMAIN reminder : k[1] = api[t].c}
        OBVIOUS
    <3>2. q = [r EXCEPT !.keys = keys, !.uncopied = keys]
        BY <1>1, <2>1, <2>2, <2>6, <3>1 DEF ListReminders
    <3>3. IsCascade(q)
        BY <1>2, <2>3, <3>1, <3>2 DEF IsCascade, IsTable
    <3>4. api'[t].step = "events"
        BY <2>6, OnGoTo DEF ListReminders
    <3> QED BY <2>2, <2>a, <3>3, <3>4
  <2>b. CASE ListEvents(t)
    <3>1. PICK log : log = {x \in event : x[1] = api[t].c}
        OBVIOUS
    <3>2. q = [r EXCEPT !.log = log, !.unsaved = log]
        BY <1>1, <2>1, <2>2, <2>b, <3>1 DEF ListEvents
    <3>3. IsCascade(q)
        BY <1>2, <2>3, <3>1, <3>2 DEF IsCascade
    <3>4. api'[t].step = "copy"
        BY <2>b, OnGoTo DEF ListEvents
    <3> QED BY <2>2, <2>a, <3>3, <3>4
  <2>7. CASE CopyContact(t)
    <3>1. q = [r EXCEPT !.contact = Rows(contact, {api[t].c})]
        BY <1>1, <2>1, <2>2, <2>7 DEF CopyContact
    <3>2. IsTable(Rows(contact, {api[t].c}), ContactIds, ContactRow)
        BY <1>2 DEF IsTable, Rows
    <3>3. IsCascade(q)
        BY <2>3, <3>1, <3>2 DEF IsCascade
    <3>4. api'[t].step = "rows"
        BY <2>7, OnGoTo DEF CopyContact
    <3> QED BY <2>2, <2>a, <3>3, <3>4
  <2>c. ASSUME NEW k \in Keys, CopyReminder(t, k) PROVE IsCascade(cascade'[t]) /\ Good(t)'
    <3>1. PICK copy : copy = IF k \in DOMAIN reminder THEN Add(r.reminder, k, reminder[k]) ELSE r.reminder
        OBVIOUS
    <3>2. q = [r EXCEPT !.uncopied = r.uncopied \ {k}, !.reminder = copy]
        BY <1>1, <2>1, <2>2, <2>c, <3>1 DEF CopyReminder
    <3>3. IsTable(copy, Keys, ReminderRow)
        BY <1>2, <2>3, <3>1 DEF IsCascade, IsTable, Add
    <3>4. IsCascade(q)
        BY <2>3, <3>2, <3>3 DEF IsCascade
    <3>5. api'[t].step = "rows"
        BY <2>c DEF CopyReminder, At
    <3> QED BY <2>2, <2>a, <3>4, <3>5
  <2>d. ASSUME NEW x \in cascade[t].unsaved, CopyEvent(t, x) PROVE IsCascade(cascade'[t]) /\ Good(t)'
    <3>1. q = [r EXCEPT !.unsaved = r.unsaved \ {x}, !.event = r.event \cup (event \cap {x})]
        BY <1>1, <2>1, <2>2, <2>d DEF CopyEvent
    <3>2. IsCascade(q)
        BY <1>2, <2>3, <3>1 DEF IsCascade
    <3>3. api'[t].step = "rows"
        BY <2>d DEF CopyEvent, At
    <3> QED BY <2>2, <2>a, <3>2, <3>3
  <2>8. CASE RemoveContact(t)
    <3>1. api'[t].step = "remove rows" /\ cascade'[t] = cascade[t]
        BY <2>8, OnGoTo DEF RemoveContact
    <3> QED BY <1>1, <2>a, <3>1
  <2>9. CASE AuditDeletion(t) \/ RolledBack(t)
    <3>1. IsCascade(NoCascade)
        BY DEF NoCascade, IsCascade, IsTable
    <3>2. CASE q = NoCascade /\ Finish(t)
        BY <1>1, <2>2, <3>1, <3>2 DEF Finish, NoRequest, At
    <3>3. CASE q = [r EXCEPT !.keys = DOMAIN r.reminder, !.log = r.event] /\ GoTo(t, "restore contact")
      <4>1. IsCascade(q) /\ q.keys = DOMAIN q.reminder
          BY <2>3, <3>3 DEF IsCascade, IsTable
      <4> QED BY <2>2, <4>1
    <3> QED BY <1>1, <2>1, <2>2, <2>9, <3>2, <3>3 DEF AuditDeletion, RolledBack
  <2>10. CASE RestoreContact(t)
      BY <1>1, <2>10, OnGoTo DEF RestoreContact, At
  <2>11. ASSUME NEW k \in Keys, RemoveReminder(t, k) \/ RestoreReminder(t, k)
         PROVE  IsCascade(cascade'[t]) /\ Good(t)'
    <3>1. q = [r EXCEPT !.keys = r.keys \ {k}] /\ api'[t] = api[t]
        BY <1>1, <2>1, <2>2, <2>11 DEF RemoveReminder, RestoreReminder
    <3>2. IsCascade(q) /\ q.keys \subseteq r.keys /\ q.reminder = r.reminder
        BY <2>3, <3>1 DEF IsCascade
    <3> QED BY <1>1, <2>1, <2>2, <3>1, <3>2 DEF At
  <2>12. ASSUME NEW x \in cascade[t].log, RemoveEvent(t, x) \/ RestoreEvent(t, x)
         PROVE  IsCascade(cascade'[t]) /\ Good(t)'
    <3>1. q = [r EXCEPT !.log = r.log \ {x}] /\ api'[t] = api[t]
        BY <1>1, <2>1, <2>2, <2>12 DEF RemoveEvent, RestoreEvent
    <3>2. IsCascade(q) /\ q.keys = r.keys /\ q.reminder = r.reminder
        BY <2>3, <3>1 DEF IsCascade
    <3> QED BY <1>1, <2>1, <2>2, <3>1, <3>2 DEF At
  <2> QED
      BY <2>4, <2>5, <2>6, <2>7, <2>8, <2>9, <2>10, <2>11, <2>12, <2>b, <2>c, <2>d, DeletionSteps
      DEF OfDeletion
<1> QED BY <1>3, <1>4, <1>5 DEF CascadeTypes

(* The types are established, and follow from those that are kept.         *)
LEMMA TypesInitially == ASSUME Init PROVE Types
<1>1. ClockTypes /\ EventTypes /\ ReminderTypes
    BY RepositoryAssumption DEF Init, ClockTypes, EventTypes, ReminderTypes, IsTable
<1>2. ApiTypes
    BY OperationTables
    DEF Init, ApiTypes, IsRequest, GoodRequest, NoRequest, None, RequestSteps
<1>3. ContactTypes
    BY EngineAssumption DEF Init, ContactTypes, IsTable, NewContact, ContactRow, None
<1>4. LedgerTypes
  <2>1. [action |-> "grant", record_time |-> 1, integrity_ok |-> TRUE, appended |-> 1] \in ConsentEvent
      BY DEF ConsentEvent
  <2>2. <<>> \in Seq(ConsentEvent) /\ \A e \in ConsentEvent : <<e>> \in Seq(ConsentEvent)
      OBVIOUS
  <2> QED BY <2>1, <2>2 DEF Init, LedgerTypes
<1>5. RunTypes
  <2>1. IsRun(NoRun) /\ GoodRun(NoRun)
      BY DEF NoRun, IsRun, GoodRun, IsTable, None
  <2> QED BY <2>1 DEF Init, RunTypes
<1>6. CascadeTypes
  <2>1. IsCascade(NoCascade)
      BY DEF NoCascade, IsCascade, IsTable
  <2> QED BY <2>1 DEF Init, CascadeTypes, At, NoRequest
<1> QED BY <1>1, <1>2, <1>3, <1>4, <1>5, <1>6 DEF Types

LEMMA TypesKept == ASSUME Types, [Next]_vars PROVE Types'
BY ClockTypesKept, ApiTypesKept, ContactTypesKept, ReminderTypesKept, EventTypesKept,
   LedgerTypesKept, RunTypesKept, CascadeTypesKept DEF Types

(* The types hold throughout, with what the code relies on beyond them:    *)
(* requests, evaluations and deletions in progress name what they work on. *)
THEOREM Typed == Spec => []Types
BY TypesInitially, TypesKept, PTL DEF Spec

(* Every variable keeps the type of the code's schema and local variables, *)
(* whatever the requests, evaluations and failures.                        *)
THEOREM TypeCorrect == Spec => []TypeOK
<1>1. ASSUME Types PROVE TypeOK
  <2>1. timeUp \in BOOLEAN
      BY <1>1 DEF Types, ClockTypes
  <2>2. now \in Nat \ {0}
      BY <1>1, RepositoryAssumption DEF Types, ClockTypes
  <2> QED
      BY <1>1, <2>1, <2>2, Zenon
      DEF Types, ApiTypes, ContactTypes, ReminderTypes, EventTypes, LedgerTypes, RunTypes,
          CascadeTypes, TypeOK
<1> QED BY <1>1, Typed, PTL

-------------------------------------------------------------------------------
LEMMA AuditGrows == ASSUME [Next]_vars PROVE audit \subseteq audit'
<1>1. \A action, ref : AuditAppend(action, ref) => audit \subseteq audit'
    BY DEF AuditAppend
<1>2. AuditRaises => audit \subseteq audit'
    BY DEF AuditRaises
<1>3. ASSUME NEW t \in Threads, ActionRequest(t) PROVE audit \subseteq audit'
    BY <1>1, <1>2, <1>3
    DEF ActionRequest, Snooze, Dismiss, MarkContacted, StartAction, StartLog, ReminderActionStep,
        SetStatus, SuppressContact, AuditAction, FindContact, LogContact, AddEvent, ResetClock
<1>4. ASSUME NEW t \in Threads, ContactRequest(t) PROVE audit \subseteq audit'
    BY <1>1, <1>2, <1>4
    DEF ContactRequest, StartCreate, StartUpdate, StartDelete, ContactServiceStep, FindCategory,
        WriteCategory, InsertContact, ListReminders, ListEvents, CopyContact, CopyReminder,
        CopyEvent, RemoveContact, AuditDeletion, RestoreContact, RolledBack, RemoveReminder,
        RestoreReminder, RemoveEvent, RestoreEvent
<1>5. ASSUME NEW t \in Threads, ConsentRequest(t) PROVE audit \subseteq audit'
    BY <1>1, <1>2, <1>5
    DEF ConsentRequest, StartConsent, ConsentStoreStep, RecordConsent, AppendConsent
<1>6. ASSUME NEW e \in Evaluators, SchedulerStep(e) PROVE audit \subseteq audit'
    BY <1>1, <1>2, <1>6
    DEF SchedulerStep, EvaluationStep, Evaluate, ListCategories, ListContacts, CapReached,
        AddReminder, EvaluationDone, Killed, AlreadyGeneratedOrNotDue, NoConsent, Consented
<1> QED BY <1>3, <1>4, <1>5, <1>6 DEF Next, ApiStep, Tick, TimeSource, vars

(* A request is between its contact.logged entry and the clock it resets   *)
(* only by way of LogContact.                                              *)
LEMMA LogSteps ==
    ASSUME Types, [Next]_vars, NEW t \in Threads
    PROVE  \/ api'[t] = api[t]
           \/ api'[t].step \notin {"event", "clock"}
           \/ LogContact(t) \/ AddEvent(t)
<1> DEFINE Elsewhere == api'[t].step \notin {"event", "clock"}
<1>1. Finish(t) => Elsewhere
    BY OnFinish
<1>2. \A ops : Begins(t, ops) => Elsewhere
    BY DEF Begins, Begin, FirstSteps, Types, ApiTypes
<1>3. \A step : GoTo(t, step) /\ step \notin {"event", "clock"} => Elsewhere
    BY OnGoTo
<1>4. ReminderActionStep(t) => Elsewhere \/ LogContact(t) \/ AddEvent(t)
  <2>1. SetStatus(t) => AfterStatus[api[t].op] \notin {"event", "clock"}
      BY OperationTables DEF SetStatus, OnReminder
  <2>2. SetStatus(t) => Elsewhere
      BY <1>3, <2>1 DEF SetStatus
  <2>3. SuppressContact(t) \/ AuditAction(t) \/ FindContact(t) \/ ResetClock(t) => Elsewhere
      BY <1>1, <1>3 DEF SuppressContact, AuditAction, FindContact, ResetClock
  <2> QED BY <2>2, <2>3 DEF ReminderActionStep
<1>5. ContactServiceStep(t) => api'[t] = api[t] \/ Elsewhere
  <2>1. FindCategory(t) \/ WriteCategory(t) \/ ListReminders(t) \/ ListEvents(t) \/ CopyContact(t)
        \/ RemoveContact(t) \/ RestoreContact(t) \/ RolledBack(t)
        \/ (\E c \in ContactIds : InsertContact(t, c))
        => Elsewhere
      BY <1>1, <1>3
      DEF FindCategory, WriteCategory, ListReminders, ListEvents, CopyContact, RemoveContact,
          RestoreContact, RolledBack, InsertContact
  <2>2. AuditDeletion(t) => Elsewhere
      BY <1>1, <1>3 DEF AuditDeletion
  <2> QED
      BY <2>1, <2>2
      DEF ContactServiceStep, CopyReminder, CopyEvent, RemoveReminder, RestoreReminder, RemoveEvent,
          RestoreEvent
<1>6. ConsentStoreStep(t) => Elsewhere
  <2>1. ASSUME api' = [api EXCEPT ![t].step = "append", ![t].arg = now] PROVE api'[t].step = "append"
      BY <2>1, OnStamp, Zenon
  <2> QED BY <1>1, <2>1 DEF ConsentStoreStep, RecordConsent, AppendConsent
<1>7. \A c \in ContactIds : StartDelete(t, c) => Elsewhere
    BY OnDelete
<1>8. CASE ApiStep(t)
    BY <1>2, <1>4, <1>5, <1>6, <1>7, <1>8, ActionMoves, ContactMoves, ConsentMoves DEF ApiStep
<1>9. CASE \E u \in Threads \ {t} : ApiStep(u)
    BY <1>9, OnlyItsThread
<1>10. CASE UNCHANGED vars \/ Tick \/ TimeSource \/ \E e \in Evaluators : SchedulerStep(e)
    BY <1>10 DEF vars, Tick, TimeSource, SchedulerStep
<1> QED BY <1>8, <1>9, <1>10 DEF Next

(* Whoever holds a cadence clock that may reach a row (the row, the copy a *)
(* deletion would restore, a request about to write it) got it from the    *)
(* audit trail.                                                            *)
Logged(c, at) == [action |-> "contact.logged", ref |-> c, at |-> at] \in audit
RowsLogged(rows) ==
    \A c \in DOMAIN rows :
        rows[c].last_contacted_at # None => Logged(c, rows[c].last_contacted_at)
ClocksLogged ==
    /\ RowsLogged(contact)
    /\ \A t \in Threads : RowsLogged(cascade[t].contact)
    /\ \A t \in Threads :
        Logging(t, "event") \/ Logging(t, "clock") => Logged(api[t].c, api[t].arg)

LEMMA ClocksLoggedKept == ASSUME Types, ClocksLogged, [Next]_vars PROVE ClocksLogged'
<1>1. \A c, at : Logged(c, at) => Logged(c, at)'
    BY AuditGrows DEF Logged
<1>2. \A rows : RowsLogged(rows) => RowsLogged(rows)'
    BY <1>1 DEF RowsLogged
<1>3. IsTable(contact, ContactIds, ContactRow)
    BY DEF Types, ContactTypes
<1>4. ASSUME NEW t \in Threads
      PROVE  Logging(t, "event")' \/ Logging(t, "clock")' => Logged(api[t].c, api[t].arg)'
  <2>1. Logging(t, "event") \/ Logging(t, "clock") => Logged(api[t].c, api[t].arg)
      BY DEF ClocksLogged
  <2>2. CASE api'[t] = api[t]
      BY <1>1, <2>1, <2>2 DEF Logging
  <2>3. CASE api'[t].step \notin {"event", "clock"}
      BY <2>3 DEF Logging
  <2>4. CASE AddEvent(t)
    <3>1. api'[t].c = api[t].c /\ api'[t].arg = api[t].arg
        BY <2>4, OnGoTo DEF AddEvent
    <3> QED BY <1>1, <2>1, <2>4, <3>1 DEF AddEvent
  <2>5. CASE LogContact(t)
    <3>1. CASE Finish(t)
        BY <3>1, OnFinish DEF Logging
    <3>2. CASE AuditAppend("contact.logged", api[t].c)
               /\ api' = [api EXCEPT ![t].step = "event", ![t].arg = now]
      <4>1. api'[t].c = api[t].c /\ api'[t].arg = now
          BY <3>2, OnStamp
      <4> QED BY <3>2, <4>1 DEF Logged, AuditAppend
    <3> QED BY <2>5, <3>1, <3>2 DEF LogContact
  <2> QED BY <2>2, <2>3, <2>4, <2>5, LogSteps
<1>5. ASSUME NEW t \in Threads PROVE RowsLogged(cascade[t].contact)'
  <2>1. RowsLogged(contact) /\ RowsLogged(cascade[t].contact)
      BY DEF ClocksLogged
  <2>2. \/ cascade'[t].contact = cascade[t].contact
        \/ cascade'[t].contact = Rows(contact, {api[t].c})
        \/ cascade'[t].contact = NoCascade.contact
      BY CopiesAreFound
  <2>3. RowsLogged(Rows(contact, {api[t].c})) /\ RowsLogged(NoCascade.contact)
      BY <2>1 DEF RowsLogged, Rows, NoCascade
  <2> QED BY <1>2, <2>1, <2>2, <2>3
<1>6. RowsLogged(contact)'
  <2> SUFFICES RowsLogged(contact') BY <1>2 DEF RowsLogged, Logged
  <2>1. RowsLogged(contact)
      BY DEF ClocksLogged
  <2>2. CASE UNCHANGED contact
      BY <2>1, <2>2
  <2>3. ASSUME NEW t \in Threads, SuppressContact(t) \/ WriteCategory(t) PROVE RowsLogged(contact')
      BY <1>3, <2>1, <2>3
      DEF SuppressContact, WriteCategory, WriteContacts, RowsLogged, IsTable, ContactRow
  <2>4. ASSUME NEW t \in Threads, ResetClock(t) PROVE RowsLogged(contact')
    <3>1. Logged(api[t].c, api[t].arg)
        BY <2>4 DEF ResetClock, ClocksLogged
    <3> QED BY <1>3, <2>1, <2>4, <3>1 DEF ResetClock, WriteContacts, RowsLogged, IsTable, ContactRow
  <2>5. ASSUME NEW t \in Threads, RemoveContact(t) PROVE RowsLogged(contact')
      BY <2>1, <2>5 DEF RemoveContact, WriteContacts, Delete, RowsLogged
  <2>6. ASSUME NEW t \in Threads, RestoreContact(t) PROVE RowsLogged(contact')
    <3>1. RowsLogged(cascade[t].contact)
        BY DEF ClocksLogged
    <3>2. CASE api[t].c \notin DOMAIN cascade[t].contact
        BY <2>1, <2>6, <3>2 DEF RestoreContact
    <3>3. ASSUME NEW c, NEW row, contact' = Add(contact, c, row),
                 row.last_contacted_at # None => Logged(c, row.last_contacted_at)
          PROVE  RowsLogged(contact')
        BY <2>1, <3>3 DEF Add, RowsLogged
    <3>4. CASE api[t].c \in DOMAIN cascade[t].contact
        BY <2>6, <3>1, <3>3, <3>4 DEF RestoreContact, WriteContacts, RowsLogged
    <3> QED BY <3>2, <3>4
  <2>7. ASSUME NEW t \in Threads, NEW c \in ContactIds, InsertContact(t, c) PROVE RowsLogged(contact')
      BY <2>1, <2>7 DEF InsertContact, WriteContacts, Add, NewContact, RowsLogged
  <2> QED BY <2>2, <2>3, <2>4, <2>5, <2>6, <2>7, ContactWriters
<1> QED BY <1>4, <1>5, <1>6 DEF ClocksLogged

(* A cadence clock that moved is one the audit trail shows was logged:     *)
(* log_event writes the entry first, a snooze or a change of category      *)
(* keeps the clock it finds, and a deletion rolled back restores a copy    *)
(* whose entry is still there.                                             *)
THEOREM ClocksAreAudited == Spec => []ClockResetIsAudited
<1>1. Init => ClocksLogged
    BY DEF Init, ClocksLogged, RowsLogged, NewContact, NoCascade, NoRequest, Logging
<1>2. Types /\ ClocksLogged /\ [Next]_vars => ClocksLogged'
    BY ClocksLoggedKept
<1>3. ClocksLogged => ClockResetIsAudited
    BY DEF ClocksLogged, RowsLogged, Logged, ClockResetIsAudited
<1> QED BY <1>1, <1>2, <1>3, Typed, PTL DEF Spec

-------------------------------------------------------------------------------
(* What a deletion has achieved by each of its steps, whatever the others  *)
(* do: what it plans and copies is its contact's, when it removes rows the *)
(* contact's is gone, and when it restores them that is on record.         *)
Gone(c) == c \notin DOMAIN contact /\ touched[c] # None
Removing == {"plan", "events", "copy", "rows", "remove rows"}
Restoring == {"restore contact", "restore rows"}
Dependents(c) == OfContacts(Keys, {c})

DeletionProceeds(t) ==
    LET c == api[t].c
        step == api[t].step
    IN  IF api[t].op = "delete_contact"
        THEN /\ step \in Removing \cup Restoring
             /\ cascade[t].keys \cup cascade[t].uncopied \cup DOMAIN cascade[t].reminder
                    \subseteq Dependents(c)
             /\ step = "remove rows" => Gone(c) \/ c \in restored
             /\ step \in Restoring => c \in restored
        ELSE cascade[t] = NoCascade
DeletionsProceed == \A t \in Threads : DeletionProceeds(t)

LEMMA RestoredGrows == ASSUME [Next]_vars PROVE restored \subseteq restored'
BY CascadeWriters
DEF ListReminders, ListEvents, CopyContact, CopyReminder, CopyEvent, AuditDeletion, RolledBack,
    RemoveReminder, RestoreReminder, RemoveEvent, RestoreEvent, deletions

(* A contact that is gone comes back only when its deletion is undone.     *)
LEMMA GoneStays ==
    ASSUME Types, DeletionsProceed, [Next]_vars, NEW c \in ContactIds, c \notin restored, Gone(c)
    PROVE  Gone(c)'
<1>1. c \in DOMAIN touched /\ now # None
    BY RepositoryAssumption DEF Types, ContactTypes, ClockTypes, None
<1>2. ASSUME NEW t \in Threads, SuppressContact(t) \/ ResetClock(t) \/ WriteCategory(t) PROVE Gone(c)'
    BY <1>1, <1>2 DEF SuppressContact, ResetClock, WriteCategory, WriteContacts, Gone
<1>3. ASSUME NEW t \in Threads, RemoveContact(t) PROVE Gone(c)'
    BY <1>1, <1>3 DEF RemoveContact, WriteContacts, Delete, Gone
<1>4. ASSUME NEW t \in Threads, RestoreContact(t) PROVE Gone(c)'
  <2>1. api[t].c \in restored
      BY <1>4 DEF RestoreContact, At, DeletionsProceed, DeletionProceeds, Restoring
  <2>2. api[t].c # c
      BY <2>1
  <2>3. ASSUME NEW d, NEW row, d # c, WriteContacts(d, Add(contact, d, row)) PROVE Gone(c)'
      BY <1>1, <2>3 DEF WriteContacts, Add, Gone
  <2> QED BY <1>4, <2>2, <2>3 DEF RestoreContact, Gone
<1>5. ASSUME NEW t \in Threads, NEW d \in ContactIds, InsertContact(t, d) PROVE Gone(c)'
  <2>1. d # c
      BY <1>5 DEF InsertContact, Gone
  <2> QED BY <1>1, <1>5, <2>1 DEF InsertContact, WriteContacts, Add, Gone
<1>6. CASE UNCHANGED <<contact, touched>>
    BY <1>6 DEF Gone
<1> QED BY <1>2, <1>3, <1>4, <1>5, <1>6, ContactWriters

LEMMA DeletionsProceedKept == ASSUME Types, Types', DeletionsProceed, [Next]_vars PROVE DeletionsProceed'
<1> SUFFICES ASSUME NEW t \in Threads PROVE DeletionProceeds(t)'
    BY DEF DeletionsProceed
<1>0. PICK c : c = api[t].c
    OBVIOUS
<1> DEFINE old == cascade[t]
           new == cascade'[t]
<1>1. DeletionProceeds(t) /\ now # None /\ restored \subseteq restored'
    BY RestoredGrows, RepositoryAssumption DEF DeletionsProceed, Types, ClockTypes, None
<1>2. api[t].op = "delete_contact" => c \in ContactIds
    BY <1>0 DEF Types, ApiTypes, GoodRequest
<1>3. Gone(c) \/ c \in restored => Gone(c)' \/ c \in restored' \/ api[t].op # "delete_contact"
    BY <1>1, <1>2, GoneStays
<1>a. api[t].op = "delete_contact" =>
          old.keys \subseteq Dependents(c) /\ old.uncopied \subseteq Dependents(c)
          /\ DOMAIN old.reminder \subseteq Dependents(c)
    BY <1>0, <1>1 DEF DeletionProceeds
<1>b. ASSUME api'[t].op # "delete_contact", new = NoCascade PROVE DeletionProceeds(t)'
    BY <1>b DEF DeletionProceeds
<1>c. ASSUME api[t].op = "delete_contact", api'[t].op = "delete_contact", api'[t].c = c,
             api'[t].step \in Removing \cup Restoring,
             api'[t].step = "remove rows" => Gone(c)' \/ c \in restored',
             api'[t].step \in Restoring => c \in restored',
             new.keys \subseteq Dependents(c), new.uncopied \subseteq Dependents(c),
             DOMAIN new.reminder \subseteq Dependents(c)
      PROVE  DeletionProceeds(t)'
    BY <1>c DEF DeletionProceeds, Dependents, OfContacts, Gone
<1>4. CASE api'[t] = api[t] /\ cascade'[t] = cascade[t]
    BY <1>0, <1>1, <1>3, <1>4 DEF DeletionProceeds, Gone
<1>5. ASSUME NEW d \in ContactIds, StartDelete(t, d) PROVE DeletionProceeds(t)'
  <2>1. cascade'[t] = NoCascade
      BY <1>1, <1>5, OnDelete DEF StartDelete, DeletionProceeds
  <2>2. new.keys = {} /\ new.uncopied = {} /\ DOMAIN new.reminder = {}
      BY <2>1 DEF NoCascade
  <2> QED BY <1>5, <2>2, OnDelete DEF DeletionProceeds, Removing, Restoring
<1>6. CASE ListReminders(t)
  <2>1. /\ api[t].op = "delete_contact" /\ api'[t].op = "delete_contact"
        /\ api'[t].c = c /\ api'[t].step = "events"
      BY <1>0, <1>6, OnGoTo DEF ListReminders, At
  <2>2. /\ new.keys = {k \in DOMAIN reminder : k[1] = c} /\ new.uncopied = new.keys
        /\ new.reminder = old.reminder
      BY <1>0, <1>6, DeletionFields DEF SameCopies
  <2>3. new.keys \subseteq Dependents(c)
      BY <2>2 DEF Dependents, OfContacts, Types, ReminderTypes, IsTable
  <2> QED BY <1>a, <1>c, <2>1, <2>2, <2>3 DEF Removing, Restoring
<1>d. CASE ListEvents(t) \/ CopyContact(t)
  <2>1. /\ api[t].op = "delete_contact" /\ api'[t].op = "delete_contact"
        /\ api'[t].c = c /\ api'[t].step \in {"copy", "rows"}
      BY <1>0, <1>d, OnGoTo DEF ListEvents, CopyContact, At
  <2>2. new.reminder = old.reminder /\ new.keys = old.keys /\ new.uncopied = old.uncopied
      BY <1>d, DeletionFields DEF SameCopies
  <2> QED BY <1>a, <1>c, <2>1, <2>2 DEF Removing, Restoring
<1>7. ASSUME NEW k \in Keys, CopyReminder(t, k) PROVE DeletionProceeds(t)'
  <2>1. /\ api[t].op = "delete_contact" /\ api'[t].op = "delete_contact"
        /\ api'[t].c = c /\ api'[t].step = "rows" /\ k \in old.uncopied
      BY <1>0, <1>7 DEF CopyReminder, At
  <2>2. new.keys = old.keys /\ new.uncopied = old.uncopied \ {k} /\ Copies(t, k)
      BY <1>7, DeletionFields
  <2>3. DOMAIN new.reminder \subseteq DOMAIN old.reminder \cup {k}
      BY <2>2 DEF Copies, Add
  <2> QED BY <1>a, <1>c, <2>1, <2>2, <2>3 DEF Removing, Restoring
<1>8. CASE RemoveContact(t)
  <2>1. /\ api[t].op = "delete_contact" /\ api'[t].op = "delete_contact"
        /\ api'[t].c = c /\ api'[t].step = "remove rows" /\ new = old
      BY <1>0, <1>8, OnGoTo DEF RemoveContact, At
  <2>2. Gone(c)'
      BY <1>0, <1>1, <1>2, <1>8, <2>1 DEF RemoveContact, WriteContacts, Delete, Gone, Types, ContactTypes
  <2> QED BY <1>a, <1>c, <2>1, <2>2 DEF Removing, Restoring
<1>9. CASE AuditDeletion(t)
  <2>1. CASE Finish(t) /\ new = NoCascade
      BY <1>b, <2>1, OnFinish
  <2>2. CASE /\ new.keys = DOMAIN old.reminder /\ new.uncopied = old.uncopied /\ SameCopies(t)
             /\ GoTo(t, "restore contact") /\ restored' = restored \cup {c}
    <3>1. /\ api[t].op = "delete_contact" /\ api'[t].op = "delete_contact"
          /\ api'[t].c = c /\ api'[t].step = "restore contact"
        BY <1>0, <1>9, <2>2, OnGoTo DEF AuditDeletion, At
    <3> QED BY <1>a, <1>c, <2>2, <3>1 DEF SameCopies, Removing, Restoring
  <2> QED BY <1>0, <1>9, <2>1, <2>2, DeletionFields
<1>10. CASE RestoreContact(t)
  <2>1. /\ api[t].op = "delete_contact" /\ api'[t].op = "delete_contact"
        /\ api'[t].c = c /\ api'[t].step = "restore rows" /\ new = old /\ c \in restored'
      BY <1>0, <1>1, <1>10, OnGoTo DEF RestoreContact, At, DeletionProceeds, Restoring
  <2> QED BY <1>a, <1>c, <2>1 DEF Removing, Restoring
<1>11. CASE RolledBack(t)
    BY <1>b, <1>11, OnFinish, DeletionFields DEF RolledBack
<1>12. ASSUME new.keys \subseteq old.keys, new.uncopied = old.uncopied, new.reminder = old.reminder,
              api'[t] = api[t], api[t].op = "delete_contact"
       PROVE  DeletionProceeds(t)'
  <2>1. api'[t].op = "delete_contact" /\ api'[t].c = c /\ api'[t].step = api[t].step
      BY <1>0, <1>12
  <2>2. /\ api[t].step \in Removing \cup Restoring
        /\ api[t].step = "remove rows" => Gone(c)' \/ c \in restored'
        /\ api[t].step \in Restoring => c \in restored'
      BY <1>0, <1>1, <1>3, <1>12 DEF DeletionProceeds
  <2> QED BY <1>a, <1>c, <1>12, <2>1, <2>2
<1>13. ASSUME NEW k \in Keys, RemoveReminder(t, k) \/ RestoreReminder(t, k) PROVE DeletionProceeds(t)'
  <2>1. new.keys \subseteq old.keys /\ new.uncopied = old.uncopied /\ new.reminder = old.reminder
      BY <1>13, DeletionFields DEF SameCopies
  <2>2. api'[t] = api[t] /\ api[t].op = "delete_contact"
      BY <1>13 DEF RemoveReminder, RestoreReminder, At
  <2> QED BY <1>12, <2>1, <2>2
<1>14. ASSUME NEW x, CopyEvent(t, x) \/ RemoveEvent(t, x) \/ RestoreEvent(t, x)
      PROVE  DeletionProceeds(t)'
    BY <1>12, <1>14, DeletionFields DEF CopyEvent, RemoveEvent, RestoreEvent, At, SameCopies
<1>15. CASE cascade'[t] = cascade[t] /\ api[t].op # "delete_contact" /\ api'[t].op # "delete_contact"
    BY <1>1, <1>b, <1>15 DEF DeletionProceeds
<1> QED
    BY <1>4, <1>5, <1>6, <1>7, <1>8, <1>9, <1>10, <1>11, <1>13, <1>14, <1>15, <1>d, DeletionSteps
    DEF OfDeletion

(* ContactService.delete: at every step of a deletion what it has listed,  *)
(* copied and yet to delete or to restore is what that step needs.         *)
THEOREM DeletionsAlwaysProceed == Spec => []DeletionsProceed
<1>1. Init => DeletionsProceed
  <2>1. Init => \A t \in Threads : api[t].op = "none" /\ cascade[t] = NoCascade
      BY DEF Init, NoRequest
  <2> QED BY <2>1 DEF DeletionsProceed, DeletionProceeds
<1>2. Types /\ Types' /\ DeletionsProceed /\ [Next]_vars => DeletionsProceed'
    BY DeletionsProceedKept
<1> QED BY <1>1, <1>2, Typed, PTL DEF Spec
===============================================================================
