--------------------------- MODULE ReminderActions ---------------------------
(***************************************************************************)
(* The API's reminder actions (snooze, dismiss, mark-contacted) and the    *)
(* last-contact log that mark-contacted goes through, one repository or    *)
(* audit call a step.  A request that finds no reminder, or no contact to  *)
(* log, raises and changes nothing.                                        *)
(***************************************************************************)
EXTENDS Repository

StatusAfter == [snooze |-> "snoozed", dismiss |-> "dismissed", mark_contacted |-> "contacted"]
ActionName == [snooze |-> "reminder.snooze", dismiss |-> "reminder.dismiss",
               mark_contacted |-> "reminder.mark_contacted"]
ReminderOps == DOMAIN StatusAfter
OnReminder(t, step) == api[t].op \in ReminderOps /\ api[t].step = step

(* _owned finds the reminder; the request goes on with its first write.    *)
FirstStep == [snooze |-> "status", dismiss |-> "status", mark_contacted |-> "contact"]
StartAction(t, op, k, until) ==
    /\ k \in DOMAIN reminder
    /\ Begin(t, [Request(op, FirstStep[op]) EXCEPT !.c = k[1], !.w = k[2], !.arg = until])
    /\ UNCHANGED <<contact, reminder, event, audit, touched>>

(* Mutant: the status written is the operation's name.                     *)
SetStatusToOperation(t) ==
    /\ OnReminder(t, "status")
    /\ reminder' = Update(reminder, Key(t), [reminder[Key(t)] EXCEPT !.status = api[t].op])
    /\ GoTo(t, "audit")
    /\ UNCHANGED <<contact, event, audit, touched>>

(* The update of the reminder's status, a no-op if the row is gone by now. *)
AfterStatus == [snooze |-> "suppress", dismiss |-> "audit", mark_contacted |-> "audit"]
SetStatus(t) ==
    /\ OnReminder(t, "status")
    /\ reminder' = Update(reminder, Key(t),
                          [reminder[Key(t)] EXCEPT !.status = StatusAfter[api[t].op]])
    /\ GoTo(t, AfterStatus[api[t].op])
    /\ UNCHANGED <<contact, event, audit, touched>>

SuppressContact(t) ==
    LET c == api[t].c IN
    /\ At(t, "snooze", "suppress")
    /\ IF c \in DOMAIN contact
       THEN WriteContacts(c, [contact EXCEPT ![c].snooze_until = api[t].arg])
       ELSE UNCHANGED <<contact, touched>>
    /\ GoTo(t, "audit")
    /\ UNCHANGED <<reminder, event, audit>>

AuditAction(t) ==
    /\ OnReminder(t, "audit")
    /\ AuditAppend(ActionName[api[t].op], Key(t)) \/ AuditRaises
    /\ Finish(t)
    /\ UNCHANGED <<contact, reminder, event, touched>>

(* LastContactService.log_event, on its own or within mark_contacted.      *)
Logging(t, step) == api[t].op \in {"log_event", "mark_contacted"} /\ api[t].step = step

StartLog(t, c) ==
    /\ Begin(t, [Request("log_event", "contact") EXCEPT !.c = c])
    /\ UNCHANGED <<contact, reminder, event, audit, touched>>

FindContact(t) ==
    /\ Logging(t, "contact")
    /\ IF api[t].c \in DOMAIN contact THEN GoTo(t, "log") ELSE Finish(t)
    /\ UNCHANGED <<contact, reminder, event, audit, touched>>

(* Mutant: a contact whose audit entry cannot be written is logged anyway. *)
LogContactUnaudited(t) ==
    /\ Logging(t, "log")
    /\ AuditAppend("contact.logged", api[t].c) \/ AuditRaises
    /\ api' = [api EXCEPT ![t].step = "event", ![t].arg = now]
    /\ UNCHANGED <<contact, reminder, event, touched, requests>>

(* The record time of the event is that of its audit entry.                *)
LogContact(t) ==
    /\ Logging(t, "log")
    /\ \/ /\ AuditAppend("contact.logged", api[t].c)
          /\ api' = [api EXCEPT ![t].step = "event", ![t].arg = now]
          /\ UNCHANGED requests
       \/ AuditRaises /\ Finish(t)
    /\ UNCHANGED <<contact, reminder, event, touched>>

AddEvent(t) ==
    /\ Logging(t, "event")
    /\ event' = event \cup {<<api[t].c, api[t].arg>>}
    /\ GoTo(t, "clock")
    /\ UNCHANGED <<contact, reminder, audit, touched>>

ResetClock(t) ==
    LET c == api[t].c IN
    /\ Logging(t, "clock")
    /\ IF c \in DOMAIN contact
       THEN WriteContacts(c, [contact EXCEPT ![c].last_contacted_at = api[t].arg])
       ELSE UNCHANGED <<contact, touched>>
    /\ IF api[t].op = "log_event" THEN Finish(t) ELSE GoTo(t, "status")
    /\ UNCHANGED <<reminder, event, audit>>

ReminderActionStep(t) ==
    SetStatus(t) \/ SuppressContact(t) \/ AuditAction(t)
    \/ FindContact(t) \/ LogContact(t) \/ AddEvent(t) \/ ResetClock(t)
=============================================================================
