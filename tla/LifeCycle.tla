------------------------------ MODULE LifeCycle ------------------------------
(***************************************************************************)
(* What the reminder engine promises, in the abstract, of each contact and *)
(* of its reminders, one for each window.  A contact is created, is live,  *)
(* and is deleted once and for all, or its deletion is undone; meanwhile   *)
(* reminders are generated a bounded number of times, are acted on, and    *)
(* are removed only by a deletion.  Two deletions of one contact at a time *)
(* leave it contested, and nothing is promised of it but the bounds.       *)
(***************************************************************************)
EXTENDS Naturals

CONSTANTS Contacts, Windows, Statuses,
    Limit       \* how often a reminder may be generated

VARIABLES
    phase,      \* of each contact: "none", "live", "deleting", "restoring", "deleted", "contested"
    status,     \* of each reminder, "absent" unless there is one
    generations,    \* how often each reminder was generated
    undone,     \* the contacts a deletion of which failed
    recorded    \* the contacts a deletion of which is on record

Reminders == Contacts \X Windows
Of(c) == {c} \X Windows
Present(k) == status[k] # "absent"

Init ==
    /\ phase \in [Contacts -> {"none", "live"}]
    /\ status = [k \in Reminders |-> "absent"] /\ generations = [k \in Reminders |-> 0]
    /\ undone = {} /\ recorded = {}

Become(c, from, to) == phase[c] \in from /\ phase' = [phase EXCEPT ![c] = to]

Create(c) == Become(c, {"none"}, "live") /\ UNCHANGED <<status, generations, undone, recorded>>
StartDeleting(c) ==
    Become(c, {"live"}, "deleting") /\ UNCHANGED <<status, generations, undone, recorded>>
Contest(c) ==
    /\ Become(c, {"deleting", "restoring"}, "contested")
    /\ UNCHANGED <<status, generations, undone, recorded>>
Decide(c, to) ==
    \/ phase[c] = "contested" /\ UNCHANGED phase
    \/ Become(c, {"deleting"}, to)
(* The deletion is recorded, or that fails and it is undone: every         *)
(* reminder the contact had is there again before it is live.              *)
Delete(c) ==
    /\ Decide(c, "deleted")
    /\ recorded' = recorded \cup {c}
    /\ UNCHANGED <<status, generations, undone>>
Fail(c) ==
    /\ Decide(c, "restoring")
    /\ undone' = undone \cup {c}
    /\ UNCHANGED <<status, generations, recorded>>
Undo(c) ==
    /\ Become(c, {"restoring"}, "live")
    /\ \A k \in Of(c) : generations[k] > 0 => Present(k)
    /\ UNCHANGED <<status, generations, undone, recorded>>

SetStatus(k, s) == status' = [status EXCEPT ![k] = s] /\ UNCHANGED <<phase, undone, recorded>>
(* A contact that was never created has no reminders.  One whose deletion  *)
(* failed may be reminded of again.                                        *)
Generate(k) ==
    /\ phase[k[1]] # "none"
    /\ generations[k] < Limit \/ k[1] \in undone
    /\ generations' = [generations EXCEPT ![k] = @ + 1]
    /\ SetStatus(k, "pending")
Act(k, s) == /\ Present(k) /\ s # "pending"
             /\ SetStatus(k, s) /\ UNCHANGED generations
Remove(k) == /\ phase[k[1]] \in {"deleting", "contested"}
             /\ SetStatus(k, "absent") /\ UNCHANGED generations
Restore(k, s) == /\ phase[k[1]] \in {"restoring", "contested"}
                 /\ SetStatus(k, s) /\ UNCHANGED generations

ContactStep(c) ==
    Create(c) \/ StartDeleting(c) \/ Contest(c) \/ Delete(c) \/ Fail(c) \/ Undo(c)
ReminderStep(k) ==
    \/ Generate(k) \/ Remove(k)
    \/ \E s \in Statuses : Act(k, s) \/ Restore(k, s)

vars == <<phase, status, generations, undone, recorded>>

(* Only what changes something is a step.                                  *)
Next ==
    /\ vars' # vars
    /\ (\E c \in Contacts : ContactStep(c)) \/ \E k \in Reminders : ReminderStep(k)

Spec == Init /\ [][Next]_vars
=============================================================================
