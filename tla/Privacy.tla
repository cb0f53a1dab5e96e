------------------------------- MODULE Privacy -------------------------------
(***************************************************************************)
(* Data-subject rights over the owner's rows: export, rectification, the   *)
(* erasure of a contact and of the whole account; the retention job that   *)
(* removes old contact events, and the logging of events, which adds the   *)
(* rows an erasure may miss.                                               *)
(*                                                                         *)
(* An account's erasure copies the rows, removes them one by one, and adds *)
(* them back if the provider, the export store or the audit log fails.     *)
(***************************************************************************)
EXTENDS OwnedRows, Sequences

CONSTANT Retention  \* operational_retention_seconds, in ticks

ASSUME PrivacyAssumption == Retention \in Nat

VARIABLES
    tokensLive, \* are the owner's provider tokens live at the provider?
    outcome     \* history: the locals of a call, and how it ended, if the last step
                \* ended an export, an erasure or a retention run

privacyVars == <<tokensLive, outcome>>

NoOutcome == NoCall
Quietly == outcome' = NoOutcome
Ends(t, how) == Return(t) /\ outcome' = [call[t] EXCEPT !.step = how]
-------------------------------------------------------------------------------
(* log_event: find the contact, get the record time from the audit log     *)
(* (which may raise), add the event.  (The cadence clock it resets is      *)
(* modelled in ReminderActions.)                                           *)
StartLogEvent(t, c) ==
    /\ c \in List("contact")
    /\ Begin(t, [op |-> "log_event", step |-> "audit", c |-> c, at |-> None])
    /\ Quietly /\ UNCHANGED <<now, minted, rows, tokensLive>>
AuditEvent(t) ==
    /\ At(t, "log_event", "audit")
    /\ GoOn(t, [call[t] EXCEPT !.step = "add", !.at = now]) \/ Return(t)
    /\ Quietly /\ UNCHANGED <<now, minted, rows, tokensLive>>
AddEvent(t) ==
    /\ At(t, "log_event", "add")
    /\ AddRow(ContactEvent(call[t].c, call[t].at)) /\ Return(t) /\ Quietly /\ UNCHANGED <<now, tokensLive>>

(* rectify_contact: the write, and an audit entry that may fail after it.  *)
Rectify(t, c) ==
    /\ c \in List("contact")
    /\ Begin(t, [op |-> "rectify", step |-> "audit"])
    /\ rows' = [rows EXCEPT ![c].at = now]
    /\ Quietly /\ UNCHANGED <<now, minted, tokensLive>>
AuditRectification(t) ==
    /\ At(t, "rectify", "audit") /\ Return(t)
    /\ Quietly /\ UNCHANGED <<now, minted, rows, tokensLive>>

(* erase_contact: the dependents as listed, then the contact.              *)
StartEraseContact(t, c) ==
    /\ c \in List("contact")
    /\ Begin(t, [op |-> "erase_contact", step |-> "list", c |-> c, todo |-> {}])
    /\ Quietly /\ UNCHANGED <<now, minted, rows, tokensLive>>
(* Mutant: the events are not deleted.                                     *)
ListNoDependents(t) ==
    /\ At(t, "erase_contact", "list") /\ GoTo(t, "delete")
    /\ Quietly /\ UNCHANGED <<now, minted, rows, tokensLive>>
ListDependents(t) ==
    /\ At(t, "erase_contact", "list")
    /\ GoOn(t, [call[t] EXCEPT !.step = "delete",
                               !.todo = {x \in List("contact_event") : rows[x].of = call[t].c}])
    /\ Quietly /\ UNCHANGED <<now, minted, rows, tokensLive>>
EraseContact(t) ==
    /\ At(t, "erase_contact", "delete")
    /\ IF call[t].todo = {}
       THEN DeleteRow(call[t].c) /\ Return(t)    \* the audit entry is written or fails
       ELSE \E x \in call[t].todo : DeleteRow(x) /\ GoOn(t, [call[t] EXCEPT !.todo = @ \ {x}])
    /\ Quietly /\ UNCHANGED <<now, minted, tokensLive>>
-------------------------------------------------------------------------------
(* RetentionJob.run: the events older than the cutoff, as listed.  (What   *)
(* it does to the audit log is modelled in AuditLog.)  before: history,    *)
(* the rows when the call began.                                           *)
(* Mutant: the event at the cutoff goes as well.                           *)
AgedByCutoff(cutoff) == {x \in List("contact_event") : rows[x].at <= cutoff}
Aged(cutoff) == {x \in List("contact_event") : rows[x].at < cutoff}
StartRetention(t) ==
    LET cutoff == now - Retention IN
    /\ Begin(t, [op |-> "retention", step |-> "delete", cutoff |-> cutoff, todo |-> Aged(cutoff),
                 before |-> rows])
    /\ Quietly /\ UNCHANGED <<now, minted, rows, tokensLive>>
DeleteAged(t, x) ==
    /\ At(t, "retention", "delete") /\ x \in call[t].todo
    /\ DeleteRow(x) /\ GoOn(t, [call[t] EXCEPT !.todo = @ \ {x}])
    /\ Quietly /\ UNCHANGED <<now, minted, tokensLive>>
FinishRetention(t) ==
    /\ At(t, "retention", "delete") /\ call[t].todo = {}
    /\ Ends(t, "done") /\ UNCHANGED <<now, minted, rows, tokensLive>>
-------------------------------------------------------------------------------
(* build_export and erase_subject list the entities one by one.            *)
StartListing(t, op) ==
    /\ Begin(t, [op |-> op, step |-> "list", next |-> 1, copy |-> Empty, todo |-> {},
                 before |-> rows,
                 missing |-> None])
    /\ Quietly /\ UNCHANGED <<now, minted, rows, tokensLive>>
Copied(c) == LET listed == List(Entities[c.next])
             IN  [x \in DOMAIN c.copy \cup listed |-> IF x \in listed THEN rows[x] ELSE c.copy[x]]
Listing(c, last) ==
    [c EXCEPT !.copy = Copied(c), !.next = @ + 1, !.todo = DOMAIN Copied(c),
              !.step = IF c.next < last THEN @ ELSE IF c.op = "export" THEN "audit" ELSE "revoke"]
(* Mutant: the last entity is left out.                                    *)
ListAllButLast(t) ==
    /\ call[t].step = "list" /\ call[t].op \in {"export", "erase"}
    /\ GoOn(t, Listing(call[t], Len(Entities) - 1))
    /\ Quietly /\ UNCHANGED <<now, minted, rows, tokensLive>>
ListEntity(t) ==
    /\ call[t].step = "list" /\ call[t].op \in {"export", "erase"}
    /\ GoOn(t, Listing(call[t], Len(Entities)))
    /\ Quietly /\ UNCHANGED <<now, minted, rows, tokensLive>>

(* The export is handed out once its audit entry is written.               *)
FinishExport(t) ==
    /\ At(t, "export", "audit")
    /\ Ends(t, "done") \/ (Return(t) /\ Quietly)
    /\ UNCHANGED <<now, minted, rows, tokensLive>>

(* erase_subject: revoke the tokens, delete the rows listed, purge the     *)
(* exports and write the proof; any of these but the deletions may raise.  *)
RollBack(t) == GoOn(t, [call[t] EXCEPT !.step = "restore", !.todo = DOMAIN call[t].copy])
RevokeTokens(t) ==
    /\ At(t, "erase", "revoke")
    /\ \/ tokensLive' = FALSE /\ GoTo(t, "delete")
       \/ UNCHANGED tokensLive /\ RollBack(t)
    /\ Quietly /\ UNCHANGED <<now, minted, rows>>

(* The rows are worked off entity by entity.                               *)
Rank(row) == CHOOSE i \in 1 .. Len(Entities) : Entities[i] = row.entity
InOrder(c, x) == x \in c.todo /\ \A y \in c.todo : Rank(c.copy[x]) <= Rank(c.copy[y])

DeleteListed(t, x) ==
    /\ At(t, "erase", "delete") /\ InOrder(call[t], x)
    /\ DeleteRow(x) /\ GoOn(t, [call[t] EXCEPT !.todo = @ \ {x}])
    /\ Quietly /\ UNCHANGED <<now, minted, tokensLive>>
FinishErasure(t) ==
    /\ At(t, "erase", "delete") /\ call[t].todo = {}
    /\ \/ Ends(t, "done")
       \/ RollBack(t) /\ Quietly
    /\ UNCHANGED <<now, minted, rows, tokensLive>>
(* The rows are added back where they are found missing.                   *)
LookForListed(t, x) ==
    /\ At(t, "erase", "restore") /\ InOrder(call[t], x)
    /\ GoOn(t, IF x \in DOMAIN rows THEN [call[t] EXCEPT !.todo = @ \ {x}]
                                     ELSE [call[t] EXCEPT !.step = "add_back", !.missing = x])
    /\ Quietly /\ UNCHANGED <<now, minted, rows, tokensLive>>
(* Mutant: they are not.                                                   *)
AddNothingBack(t) ==
    /\ At(t, "erase", "add_back")
    /\ GoOn(t, [call[t] EXCEPT !.step = "restore", !.todo = @ \ {call[t].missing}])
    /\ Quietly /\ UNCHANGED <<now, minted, rows, tokensLive>>
AddBack(t) ==
    LET c == call[t] IN
    /\ At(t, "erase", "add_back")
    /\ rows' = Insert(rows, c.missing, c.copy[c.missing])
    /\ GoOn(t, [c EXCEPT !.step = "restore", !.todo = @ \ {c.missing}])
    /\ Quietly /\ UNCHANGED <<now, minted, tokensLive>>
AbortErasure(t) ==
    /\ At(t, "erase", "restore") /\ call[t].todo = {}
    /\ Ends(t, "aborted")
    /\ UNCHANGED <<now, minted, rows, tokensLive>>

PrivacyStep(t) ==
    \/ AuditEvent(t) \/ AddEvent(t) \/ AuditRectification(t) \/ ListDependents(t) \/ EraseContact(t)
    \/ \E op \in {"export", "erase"} : StartListing(t, op)
    \/ StartRetention(t) \/ FinishRetention(t)
    \/ ListEntity(t) \/ FinishExport(t)
    \/ RevokeTokens(t) \/ FinishErasure(t) \/ AddBack(t) \/ AbortErasure(t)
    \/ \E x \in Ids : DeleteAged(t, x) \/ DeleteListed(t, x) \/ LookForListed(t, x)
    \/ \E c \in List("contact") : StartLogEvent(t, c) \/ Rectify(t, c) \/ StartEraseContact(t, c)
=============================================================================
