------------------------------- MODULE Sessions -------------------------------
(***************************************************************************)
(* SessionManager: server-side sessions with an idle and an absolute       *)
(* lifetime, a fresh id on every privilege transition, and revocation.     *)
(*                                                                         *)
(* validate and rotate work on the row they read: a session revoked in     *)
(* between is written back by the one and survives under a new id by the   *)
(* other.  revoke_all_for_user deletes what it listed, one id at a time,   *)
(* and stops with a KeyError at one that is gone.                          *)
(***************************************************************************)
EXTENDS Calls

CONSTANTS
    Users,
    Idle,       \* SessionManager.idle_seconds, in ticks
    Absolute    \* SessionManager.absolute_seconds, in ticks

ASSUME SessionsAssumption == Idle \in Nat /\ Absolute \in Nat /\ None \notin Users

VARIABLES
    session,    \* the sessions, by id
    signedIn,   \* history: when the user (or visitor) behind each id signed in
    dead,       \* history: ids dropped while no call held a copy of their row
    accepted    \* history: id and time of the last validation that succeeded

sessionVars == <<session, signedIn, dead, accepted>>

(* The user is None for an anonymous session; authenticated says no more.  *)
Row(user, created, seen) == [user_id |-> user, created_at |-> created, last_seen |-> seen]
Expired(row) == now - row.created_at > Absolute \/ now - row.last_seen > Idle

SessionsInit == session = Empty /\ signedIn = Empty /\ dead = {} /\ accepted = <<None, None>>

Open(row, since) ==
    /\ Mint
    /\ session' = Insert(session, Fresh, row)
    /\ signedIn' = Insert(signedIn, Fresh, since)

(* The ids among sids of which no other validate has a copy of the row.    *)
Unread(t, sids) ==
    sids \ {call[u].sid : u \in Under("validate") \ {t}}
Drop(t, sids) == session' = Remove(session, sids) /\ dead' = dead \cup Unread(t, sids)

BeginAnonymous(t) ==
    /\ OneStep(t) /\ Open(Row(None, now, now), now)
    /\ UNCHANGED <<now, dead, accepted>>

(* promote invalidates the prior session, if there is one.                 *)
StartPromote(t, prior, user) ==
    /\ Begin(t, [op |-> "promote", step |-> "insert", user |-> user])
    /\ Drop(t, {prior} \ {None})
    /\ UNCHANGED <<now, minted, signedIn, accepted>>
InsertPromoted(t) ==
    /\ At(t, "promote", "insert")
    /\ Open(Row(call[t].user, now, now), now)
    /\ Return(t) /\ UNCHANGED <<now, dead, accepted>>

StartRotate(t, sid) ==
    /\ sid \in DOMAIN session
    /\ Begin(t, [op |-> "rotate", step |-> "pop", sid |-> sid, row |-> session[sid]])
    /\ UNCHANGED <<now, minted, sessionVars>>
PopRotated(t) ==
    /\ At(t, "rotate", "pop")
    /\ Drop(t, {call[t].sid}) /\ GoTo(t, "insert")
    /\ UNCHANGED <<now, minted, signedIn, accepted>>
(* Mutant: the session is put back under the id it had.                    *)
InsertUnrotated(t) ==
    /\ At(t, "rotate", "insert")
    /\ session' = Insert(session, call[t].sid, [call[t].row EXCEPT !.last_seen = now])
    /\ Return(t) /\ UNCHANGED <<now, minted, signedIn, dead, accepted>>
(* Mutant: the absolute lifetime starts anew.                              *)
InsertRotatedAnew(t) ==
    /\ At(t, "rotate", "insert")
    /\ Open(Row(call[t].row.user_id, now, now), signedIn[call[t].sid])
    /\ Return(t) /\ UNCHANGED <<now, dead, accepted>>
InsertRotated(t) ==
    /\ At(t, "rotate", "insert")
    /\ Open([call[t].row EXCEPT !.last_seen = now], signedIn[call[t].sid])
    /\ Return(t) /\ UNCHANGED <<now, dead, accepted>>

StartValidate(t, sid) ==
    /\ sid \in DOMAIN session
    /\ Begin(t, [op |-> "validate", step |-> "refresh", sid |-> sid, row |-> session[sid]])
    /\ UNCHANGED <<now, minted, sessionVars>>
Refresh(t) ==
    LET sid == call[t].sid IN
    /\ At(t, "validate", "refresh")
    /\ IF Expired(call[t].row)
       THEN Drop(t, {sid}) /\ UNCHANGED accepted
       ELSE /\ session' = Insert(session, sid, [call[t].row EXCEPT !.last_seen = now])
            /\ accepted' = <<sid, now>> /\ UNCHANGED dead
    /\ Return(t) /\ UNCHANGED <<now, minted, signedIn>>

Revoke(t, sid) ==
    /\ OneStep(t) /\ Drop(t, {sid})
    /\ UNCHANGED <<now, minted, signedIn, accepted>>

StartRevokeAll(t, user) ==
    LET victims == {sid \in DOMAIN session : session[sid].user_id = user} IN
    /\ Begin(t, [op |-> "revoke_all", step |-> "delete", todo |-> victims])
    /\ UNCHANGED <<now, minted, sessionVars>>
DeleteVictim(t, sid) ==
    /\ At(t, "revoke_all", "delete") /\ sid \in call[t].todo
    /\ IF sid \in DOMAIN session
       THEN Drop(t, {sid}) /\ GoOn(t, [call[t] EXCEPT !.todo = @ \ {sid}])
       ELSE Return(t) /\ UNCHANGED <<session, dead>>        \* KeyError
    /\ UNCHANGED <<now, minted, signedIn, accepted>>
RevokedAll(t) ==
    /\ At(t, "revoke_all", "delete") /\ call[t].todo = {}
    /\ Return(t) /\ UNCHANGED <<now, minted, sessionVars>>

SessionStep(t) ==
    \/ BeginAnonymous(t) \/ InsertPromoted(t) \/ PopRotated(t) \/ InsertRotated(t)
    \/ Refresh(t) \/ RevokedAll(t)
    \/ \E user \in Users :
        \/ StartRevokeAll(t, user)
        \/ \E prior \in 0 .. minted : StartPromote(t, prior, user)
    \/ \E sid \in 1 .. minted :
        StartRotate(t, sid) \/ StartValidate(t, sid) \/ Revoke(t, sid) \/ DeleteVictim(t, sid)
-------------------------------------------------------------------------------
(* An id that a promotion, a rotation, a revocation or its expiry took out *)
(* of use never gets a session again, unless a validation had read it      *)
(* before and writes it back.                                              *)
RevokedStaysRevoked == dead \cap DOMAIN session = {}

(* The absolute lifetime counts from the sign-in: however often a session  *)
(* is refreshed or its id rotated, expired or not, no validation succeeds  *)
(* once that is over.                                                      *)
NoSessionOutlivesSignIn ==
    accepted[1] # None => accepted[2] - signedIn[accepted[1]] <= Absolute
=============================================================================
