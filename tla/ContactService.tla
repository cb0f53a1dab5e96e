---------------------------- MODULE ContactService ----------------------------
(***************************************************************************)
(* ContactService: create and update a contact within its quota, and       *)
(* delete it with everything that depends on it.  The deletion removes the *)
(* planned rows one call at a time, then writes its audit entry; if that   *)
(* raises, the rows are added back as they were when the plan was made.    *)
(*                                                                         *)
(* No code writes outreach_action rows, so the cascade finds none.         *)
(***************************************************************************)
EXTENDS Repository

CONSTANT MaxContacts    \* QuotaConfig.max_contacts

ASSUME ContactServiceAssumption == MaxContacts \in Nat

VARIABLES
    cascade,    \* each thread's deletion: the reminders (keys) and events (log) still to
                \* process, those still to copy (uncopied, unsaved), and the copies
    restored,   \* history: contacts a deletion of which was rolled back
    contested   \* history: contacts with two deletions in flight at once

deletions == <<restored, contested>>
NoCascade == [contact |-> [c \in {} |-> None], reminder |-> [k \in {} |-> None],
              event |-> {}, keys |-> {}, log |-> {}, uncopied |-> {}, unsaved |-> {}]
NewContact(g) == [category_id |-> g, snooze_until |-> None, last_contacted_at |-> None]

(* create: check the quota, then that the category exists, then insert     *)
(* under a fresh id (one no row was ever written with).                    *)
StartCreate(t, g) ==
    /\ Cardinality(DOMAIN contact) < MaxContacts
    /\ Begin(t, [Request("create_contact", "category") EXCEPT !.g = g])
    /\ UNCHANGED <<contact, reminder, event, audit, touched, cascade, deletions>>

(* update: check that the category exists, then write it.                  *)
StartUpdate(t, c, g) ==
    /\ Begin(t, [Request("update_contact", "category") EXCEPT !.c = c, !.g = g])
    /\ UNCHANGED <<contact, reminder, event, audit, touched, cascade, deletions>>

FindCategory(t) ==
    /\ api[t].op \in {"create_contact", "update_contact"} /\ api[t].step = "category"
    /\ IF api[t].g \in category THEN GoTo(t, "write") ELSE Finish(t)
    /\ UNCHANGED <<contact, reminder, event, audit, touched, cascade, deletions>>

InsertContact(t, c) ==
    /\ At(t, "create_contact", "write")
    /\ touched[c] = None
    /\ WriteContacts(c, Add(contact, c, NewContact(api[t].g)))
    /\ Finish(t)
    /\ UNCHANGED <<reminder, event, audit, cascade, deletions>>

(* Mutant: the update writes the row whether or not it is still there.     *)
WriteCategoryOfAny(t) ==
    LET c == api[t].c IN
    /\ At(t, "update_contact", "write")
    /\ WriteContacts(c, Add(contact, c, NewContact(api[t].g)))
    /\ Finish(t)
    /\ UNCHANGED <<reminder, event, audit, cascade, deletions>>

WriteCategory(t) ==
    LET c == api[t].c IN
    /\ At(t, "update_contact", "write")
    /\ IF c \in DOMAIN contact
       THEN WriteContacts(c, [contact EXCEPT ![c].category_id = api[t].g])
       ELSE UNCHANGED <<contact, touched>>
    /\ Finish(t)
    /\ UNCHANGED <<reminder, event, audit, cascade, deletions>>

(* delete: _cascade_delete lists the dependents, copies every planned row, *)
(* and removes first the contact, then its reminders, then its events.     *)
Deleting(c) == \E t \in Threads : api[t].op = "delete_contact" /\ api[t].c = c

StartDelete(t, c) ==
    /\ c \in DOMAIN contact
    /\ Begin(t, [Request("delete_contact", "plan") EXCEPT !.c = c])
    /\ contested' = IF Deleting(c) THEN contested \cup {c} ELSE contested
    /\ UNCHANGED <<contact, reminder, event, audit, touched, cascade, restored>>

ListReminders(t) ==
    LET keys == {k \in DOMAIN reminder : k[1] = api[t].c} IN
    /\ At(t, "delete_contact", "plan")
    /\ cascade' = [cascade EXCEPT ![t].keys = keys, ![t].uncopied = keys]
    /\ GoTo(t, "events")
    /\ UNCHANGED <<contact, reminder, event, audit, touched, deletions>>

ListEvents(t) ==
    LET log == {x \in event : x[1] = api[t].c} IN
    /\ At(t, "delete_contact", "events")
    /\ cascade' = [cascade EXCEPT ![t].log = log, ![t].unsaved = log]
    /\ GoTo(t, "copy")
    /\ UNCHANGED <<contact, reminder, event, audit, touched, deletions>>

CopyContact(t) ==
    /\ At(t, "delete_contact", "copy")
    /\ cascade' = [cascade EXCEPT ![t].contact = Rows(contact, {api[t].c})]
    /\ GoTo(t, "rows")
    /\ UNCHANGED <<contact, reminder, event, audit, touched, deletions>>

CopyReminder(t, k) ==
    /\ At(t, "delete_contact", "rows") /\ k \in cascade[t].uncopied
    /\ cascade' = [cascade EXCEPT ![t].uncopied = @ \ {k},
                                  ![t].reminder = IF k \in DOMAIN reminder THEN Add(@, k, reminder[k]) ELSE @]
    /\ UNCHANGED <<contact, reminder, event, audit, touched, api, requests, deletions>>

CopyEvent(t, x) ==
    /\ At(t, "delete_contact", "rows") /\ cascade[t].uncopied = {} /\ x \in cascade[t].unsaved
    /\ cascade' = [cascade EXCEPT ![t].unsaved = @ \ {x}, ![t].event = @ \cup (event \cap {x})]
    /\ UNCHANGED <<contact, reminder, event, audit, touched, api, requests, deletions>>

RemoveContact(t) ==
    /\ At(t, "delete_contact", "rows") /\ cascade[t].uncopied = {} /\ cascade[t].unsaved = {}
    /\ WriteContacts(api[t].c, Delete(contact, api[t].c))
    /\ GoTo(t, "remove rows")
    /\ UNCHANGED <<reminder, event, audit, cascade, deletions>>

RemoveReminder(t, k) ==
    /\ At(t, "delete_contact", "remove rows") /\ k \in cascade[t].keys
    /\ reminder' = Delete(reminder, k)
    /\ cascade' = [cascade EXCEPT ![t].keys = @ \ {k}]
    /\ UNCHANGED <<contact, event, audit, touched, api, requests, deletions>>

RemoveEvent(t, x) ==
    /\ At(t, "delete_contact", "remove rows") /\ cascade[t].keys = {} /\ x \in cascade[t].log
    /\ event' = event \ {x}
    /\ cascade' = [cascade EXCEPT ![t].log = @ \ {x}]
    /\ UNCHANGED <<contact, reminder, audit, touched, api, requests, deletions>>

(* Mutant: a failed audit write is not rolled back.                        *)
AuditDeletionWithoutRollback(t) ==
    /\ At(t, "delete_contact", "remove rows") /\ cascade[t].keys = {} /\ cascade[t].log = {}
    /\ AuditAppend("deletion", api[t].c) \/ AuditRaises
    /\ Finish(t) /\ cascade' = [cascade EXCEPT ![t] = NoCascade]
    /\ UNCHANGED <<contact, reminder, event, touched, deletions>>

AuditDeletion(t) ==
    /\ At(t, "delete_contact", "remove rows") /\ cascade[t].keys = {} /\ cascade[t].log = {}
    /\ \/ AuditAppend("deletion", api[t].c) /\ Finish(t)
          /\ cascade' = [cascade EXCEPT ![t] = NoCascade]
          /\ UNCHANGED restored
       \/ AuditRaises /\ GoTo(t, "restore contact")
          /\ cascade' = [cascade EXCEPT ![t].keys = DOMAIN cascade[t].reminder,
                                        ![t].log = cascade[t].event]
          /\ restored' = restored \cup {api[t].c}
    /\ UNCHANGED <<contact, reminder, event, touched, contested>>

(* The rollback adds back the copies that were found, in the same order.   *)
RestoreContact(t) ==
    LET c == api[t].c IN
    /\ At(t, "delete_contact", "restore contact")
    /\ IF c \in DOMAIN cascade[t].contact
       THEN WriteContacts(c, Add(contact, c, cascade[t].contact[c]))
       ELSE UNCHANGED <<contact, touched>>
    /\ GoTo(t, "restore rows")
    /\ UNCHANGED <<reminder, event, audit, cascade, deletions>>

RestoreReminder(t, k) ==
    /\ At(t, "delete_contact", "restore rows") /\ k \in cascade[t].keys
    /\ reminder' = Add(reminder, k, cascade[t].reminder[k])
    /\ cascade' = [cascade EXCEPT ![t].keys = @ \ {k}]
    /\ UNCHANGED <<contact, event, audit, touched, api, requests, deletions>>

RestoreEvent(t, x) ==
    /\ At(t, "delete_contact", "restore rows") /\ cascade[t].keys = {} /\ x \in cascade[t].log
    /\ event' = event \cup {x}
    /\ cascade' = [cascade EXCEPT ![t].log = @ \ {x}]
    /\ UNCHANGED <<contact, reminder, audit, touched, api, requests, deletions>>

RolledBack(t) ==
    /\ At(t, "delete_contact", "restore rows") /\ cascade[t].keys = {} /\ cascade[t].log = {}
    /\ Finish(t)
    /\ cascade' = [cascade EXCEPT ![t] = NoCascade]
    /\ UNCHANGED <<contact, reminder, event, audit, touched, deletions>>

ContactServiceStep(t) ==
    \/ FindCategory(t) \/ WriteCategory(t)
    \/ \E c \in ContactIds : InsertContact(t, c)
    \/ ListReminders(t) \/ ListEvents(t) \/ CopyContact(t) \/ RemoveContact(t) \/ AuditDeletion(t)
    \/ RestoreContact(t) \/ RolledBack(t)
    \/ \E k \in Keys : CopyReminder(t, k) \/ RemoveReminder(t, k) \/ RestoreReminder(t, k)
    \/ \E x \in cascade[t].unsaved : CopyEvent(t, x)
    \/ \E x \in cascade[t].log : RemoveEvent(t, x) \/ RestoreEvent(t, x)
=============================================================================
