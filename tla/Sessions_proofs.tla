--------------------------- MODULE Sessions_proofs ---------------------------
(***************************************************************************)
(* What holds of the sessions for any number of threads, users and calls.  *)
(*                                                                         *)
(* A behaviour uses one service.  While that is another one the sessions'  *)
(* variables keep their initial values: the invariant says no more then.   *)
(***************************************************************************)
EXTENDS Access, TLAPS

(* What a thread of the session manager can be doing.                      *)
Rows == [user_id : Users \cup {None}, created_at : Nat, last_seen : Nat]
SessionCalls ==
    {NoCall}
    \cup [op : {"promote"}, step : {"insert"}, user : Users]
    \cup [op : {"rotate"}, step : {"pop", "insert"}, sid : Nat, row : Rows]
    \cup [op : {"validate"}, step : {"refresh"}, sid : Nat, row : Rows]
    \cup [op : {"revoke_all"}, step : {"delete"}, todo : SUBSET Nat]

SessionTypes ==
    /\ now \in Nat /\ minted \in Nat
    /\ call \in [Threads -> SessionCalls]
    /\ session \in [DOMAIN session -> Rows]
    /\ signedIn \in [DOMAIN signedIn -> Nat]
    /\ DOMAIN session \subseteq DOMAIN signedIn /\ DOMAIN signedIn \subseteq 1 .. minted
    /\ dead \subseteq 1 .. minted

(* Every copy of a row, stored or held by a call, says when its person     *)
(* signed in; no validation holds a dead id; and the property itself.      *)
Copies ==
    /\ \A sid \in DOMAIN session : session[sid].created_at = signedIn[sid]
    /\ \A t \in Threads : call[t].op \in {"rotate", "validate"} =>
           call[t].sid \in DOMAIN signedIn /\ call[t].row.created_at = signedIn[call[t].sid]
NoneDead ==
    /\ dead \cap DOMAIN session = {}
    /\ \A t \in Threads : call[t].op = "validate" => call[t].sid \notin dead
InLifetime ==
    accepted[1] # None =>
        /\ accepted[1] \in DOMAIN signedIn /\ accepted[2] \in Nat
        /\ accepted[2] - signedIn[accepted[1]] <= Absolute

SessionInv == SessionTypes /\ Copies /\ NoneDead /\ InLifetime
Unused == session = Empty /\ signedIn = Empty /\ dead = {} /\ accepted = <<None, None>>
SInv == IF use = "sessions" THEN SessionInv ELSE Unused
-------------------------------------------------------------------------------
LEMMA SessionInit == Init => SInv
<1> SUFFICES ASSUME Init PROVE SInv
    OBVIOUS
<1>1. Unused
    BY DEF Init, SessionsInit, Unused
<1>2. now \in Nat /\ minted \in Nat /\ call = [t \in Threads |-> NoCall]
    BY DEF Init
<1>3. SessionTypes
    BY <1>1, <1>2 DEF Unused, Empty, SessionTypes, SessionCalls, NoCall
<1>4. Copies /\ NoneDead /\ InLifetime
    BY <1>1, <1>2 DEF Unused, Empty, Copies, NoneDead, InLifetime, NoCall
<1> QED BY <1>1, <1>3, <1>4 DEF SInv, SessionInv

(* A thread's call goes on as c, and the others do not move.               *)
LEMMA CallMoves ==
    ASSUME SessionTypes, NEW t \in Threads, NEW c \in SessionCalls, call' = [call EXCEPT ![t] = c]
    PROVE  /\ call' \in [Threads -> SessionCalls]
           /\ call'[t] = c
           /\ \A u \in Threads : u # t => call'[u] = call[u]
BY DEF SessionTypes

(* A call that holds a copy of a row has the copy it had before.           *)
CopiesStay ==
    \A u \in Threads : call'[u].op \in {"rotate", "validate"} =>
        /\ call[u].op = call'[u].op
        /\ call'[u].sid = call[u].sid /\ call'[u].row = call[u].row

(* A new session with a row that dates from the sign-in.                   *)
LEMMA OpenKeeps ==
    ASSUME SessionInv, NEW row \in Rows, Open(row, row.created_at),
           call' \in [Threads -> SessionCalls], CopiesStay,
           UNCHANGED <<now, dead, accepted>>
    PROVE  SessionInv'
<1> USE DEF SessionInv
<1>1. /\ Fresh \in Nat /\ minted' = Fresh /\ Fresh = minted + 1
      /\ Fresh \notin 1 .. minted /\ 1 .. minted' = 1 .. minted \cup {Fresh}
    BY DEF Open, Mint, Fresh, SessionTypes
<1>2. session' = Insert(session, Fresh, row) /\ signedIn' = Insert(signedIn, Fresh, row.created_at)
    BY DEF Open
<1>3. row.created_at \in Nat
    BY DEF Rows
<1>4. /\ DOMAIN session' = DOMAIN session \cup {Fresh}
      /\ session'[Fresh] = row
      /\ \A x \in DOMAIN session : x # Fresh => session'[x] = session[x]
      /\ session' \in [DOMAIN session \cup {Fresh} -> Rows]
  <2>1. session \in [DOMAIN session -> Rows]
      BY DEF SessionTypes
  <2> HIDE DEF SessionInv
  <2> QED BY <1>2, <2>1 DEF Insert
<1>5. /\ DOMAIN signedIn' = DOMAIN signedIn \cup {Fresh}
      /\ signedIn'[Fresh] = row.created_at
      /\ \A x \in DOMAIN signedIn : x # Fresh => signedIn'[x] = signedIn[x]
      /\ signedIn' \in [DOMAIN signedIn \cup {Fresh} -> Nat]
  <2>1. signedIn \in [DOMAIN signedIn -> Nat]
      BY DEF SessionTypes
  <2> HIDE DEF SessionInv
  <2> QED BY <1>2, <1>3, <2>1 DEF Insert
<1>6. Fresh \notin DOMAIN signedIn /\ Fresh \notin DOMAIN session /\ Fresh \notin dead
    BY <1>1 DEF SessionTypes
<1>7. SessionTypes'
    BY <1>1, <1>4, <1>5 DEF SessionTypes
<1>8. Copies'
  <2>1. \A sid \in DOMAIN session' : session'[sid].created_at = signedIn'[sid]
      BY <1>4, <1>5, <1>6 DEF Copies, SessionTypes
  <2>2. \A u \in Threads : call'[u].op \in {"rotate", "validate"} =>
            call'[u].sid \in DOMAIN signedIn' /\ call'[u].row.created_at = signedIn'[call'[u].sid]
      BY <1>5, <1>6 DEF Copies, CopiesStay
  <2> QED BY <2>1, <2>2 DEF Copies
<1>9. NoneDead'
    BY <1>4, <1>6 DEF NoneDead, CopiesStay
<1>10. InLifetime'
    BY <1>5, <1>6 DEF InLifetime
<1> QED BY <1>7, <1>8, <1>9, <1>10

(* Sessions are dropped by t, which is not validating afterwards.          *)
LEMMA DropKeeps ==
    ASSUME SessionInv, NEW t \in Threads, NEW sids, sids \subseteq 1 .. minted, Drop(t, sids),
           call' \in [Threads -> SessionCalls], CopiesStay, call'[t].op # "validate",
           UNCHANGED <<now, minted, signedIn, accepted>>
    PROVE  SessionInv'
<1> USE DEF SessionInv
<1>1. /\ DOMAIN session' = DOMAIN session \ sids
      /\ \A x \in DOMAIN session \ sids : session'[x] = session[x]
      /\ session' \in [DOMAIN session \ sids -> Rows]
  <2>1. session \in [DOMAIN session -> Rows] /\ session' = Remove(session, sids)
      BY DEF Drop, SessionTypes
  <2> HIDE DEF SessionInv
  <2> QED BY <2>1 DEF Remove
<1>2. dead' = dead \cup Unread(t, sids) /\ Unread(t, sids) \subseteq sids
    BY DEF Drop, Unread
<1>3. SessionTypes'
    BY <1>1, <1>2 DEF SessionTypes
<1>4. Copies'
    BY <1>1 DEF Copies, CopiesStay
<1>5. NoneDead'
  <2>1. dead' \cap DOMAIN session' = {}
      BY <1>1, <1>2 DEF NoneDead
  <2>2. ASSUME NEW u \in Threads, call'[u].op = "validate" PROVE call'[u].sid \notin dead'
    <3>1. u # t /\ call[u].op = "validate" /\ call'[u].sid = call[u].sid
        BY <2>2 DEF CopiesStay
    <3>2. call[u].sid \notin dead /\ call[u].sid \notin Unread(t, sids)
        BY <3>1 DEF NoneDead, Unread, Under
    <3> QED BY <1>2, <3>1, <3>2
  <2> QED BY <2>1, <2>2 DEF NoneDead
<1>6. InLifetime'
    BY DEF InLifetime
<1> QED BY <1>3, <1>4, <1>5, <1>6

(* Nothing but the threads' calls changes, and whoever takes a copy of a   *)
(* row takes it from the store.                                            *)
LEMMA ReadKeeps ==
    ASSUME SessionInv, call' \in [Threads -> SessionCalls],
           \A u \in Threads : call'[u].op \in {"rotate", "validate"} =>
               \/ call'[u] = call[u]
               \/ call'[u].sid \in DOMAIN session /\ call'[u].row = session[call'[u].sid],
           UNCHANGED <<now, minted, sessionVars>>
    PROVE  SessionInv'
<1> USE DEF SessionInv, sessionVars
<1>1. SessionTypes'
    BY DEF SessionTypes
<1>2. Copies' /\ NoneDead'
    BY DEF Copies, NoneDead, SessionTypes
<1>3. InLifetime'
    BY DEF InLifetime
<1> QED BY <1>1, <1>2, <1>3

LEMMA SessionStepKeeps ==
    ASSUME SessionInv, NEW t \in Threads, SessionStep(t), SessionsAssumption
    PROVE  SessionInv'
<1> USE DEF SessionInv
<1>0. NoCall \in SessionCalls /\ NoCall.op = "none"
    BY DEF SessionCalls, NoCall
<1>1. CASE BeginAnonymous(t)
  <2>1. Row(None, now, now) \in Rows /\ Row(None, now, now).created_at = now
      BY DEF Row, Rows, SessionTypes
  <2>2. call' = call /\ CopiesStay /\ call' \in [Threads -> SessionCalls]
      BY <1>1 DEF BeginAnonymous, OneStep, CopiesStay, SessionTypes
  <2> QED BY <1>1, <2>1, <2>2, OpenKeeps DEF BeginAnonymous
<1>2. ASSUME NEW user \in Users, NEW prior \in 0 .. minted, StartPromote(t, prior, user)
      PROVE SessionInv'
  <2> DEFINE c == [op |-> "promote", step |-> "insert", user |-> user]
  <2>1. c \in SessionCalls /\ c.op = "promote"
      BY DEF SessionCalls
  <2>2. call' = [call EXCEPT ![t] = c]
      BY <1>2 DEF StartPromote, Begin
  <2>3. call' \in [Threads -> SessionCalls] /\ CopiesStay /\ call'[t].op # "validate"
      BY <2>1, <2>2, CallMoves DEF CopiesStay
  <2>4. {prior} \ {None} \subseteq 1 .. minted
      BY DEF None, SessionTypes
  <2> QED BY <1>2, <2>3, <2>4, DropKeeps DEF StartPromote
<1>3. CASE InsertPromoted(t)
  <2>1. call[t] \in SessionCalls /\ call[t].op = "promote" /\ call' = [call EXCEPT ![t] = NoCall]
      BY <1>3 DEF InsertPromoted, At, Return, GoOn, SessionTypes
  <2>2. call[t].user \in Users
      BY <2>1 DEF SessionCalls, NoCall
  <2>3. Row(call[t].user, now, now) \in Rows /\ Row(call[t].user, now, now).created_at = now
      BY <2>2 DEF Row, Rows, SessionTypes
  <2>4. call' \in [Threads -> SessionCalls] /\ CopiesStay
      BY <1>0, <2>1, CallMoves DEF CopiesStay
  <2> QED BY <1>3, <2>3, <2>4, OpenKeeps DEF InsertPromoted
<1>4. ASSUME NEW sid \in 1 .. minted, StartRotate(t, sid) PROVE SessionInv'
  <2> DEFINE c == [op |-> "rotate", step |-> "pop", sid |-> sid, row |-> session[sid]]
  <2>1. sid \in DOMAIN session /\ call' = [call EXCEPT ![t] = c]
      BY <1>4 DEF StartRotate, Begin
  <2>2. c \in SessionCalls /\ c.sid = sid /\ c.row = session[sid]
      BY <2>1 DEF SessionCalls, SessionTypes
  <2> QED BY <1>4, <2>1, <2>2, CallMoves, ReadKeeps DEF StartRotate
<1>5. CASE PopRotated(t)
  <2> DEFINE c == [call[t] EXCEPT !.step = "insert"]
  <2>1. call[t] \in SessionCalls /\ call[t].op = "rotate" /\ call' = [call EXCEPT ![t] = c]
      BY <1>5 DEF PopRotated, At, GoTo, GoOn, SessionTypes
  <2>2. c \in SessionCalls /\ c.op = "rotate" /\ c.sid = call[t].sid /\ c.row = call[t].row
      BY <2>1 DEF SessionCalls, NoCall
  <2>3. {call[t].sid} \subseteq 1 .. minted
      BY <2>1 DEF Copies, SessionTypes
  <2>4. call' \in [Threads -> SessionCalls] /\ CopiesStay /\ call'[t].op # "validate"
      BY <2>1, <2>2, CallMoves DEF CopiesStay
  <2> QED BY <1>5, <2>3, <2>4, DropKeeps DEF PopRotated
<1>6. CASE InsertRotated(t)
  <2> DEFINE row == [call[t].row EXCEPT !.last_seen = now]
  <2>1. call[t] \in SessionCalls /\ call[t].op = "rotate" /\ call' = [call EXCEPT ![t] = NoCall]
      BY <1>6 DEF InsertRotated, At, Return, GoOn, SessionTypes
  <2>2. call[t].row \in Rows
      BY <2>1 DEF SessionCalls, NoCall
  <2>3. row \in Rows /\ row.created_at = signedIn[call[t].sid]
      BY <2>1, <2>2 DEF Rows, Copies, SessionTypes
  <2>4. call' \in [Threads -> SessionCalls] /\ CopiesStay
      BY <1>0, <2>1, CallMoves DEF CopiesStay
  <2> QED BY <1>6, <2>3, <2>4, OpenKeeps DEF InsertRotated
<1>7. ASSUME NEW sid \in 1 .. minted, StartValidate(t, sid) PROVE SessionInv'
  <2> DEFINE c == [op |-> "validate", step |-> "refresh", sid |-> sid, row |-> session[sid]]
  <2>1. sid \in DOMAIN session /\ call' = [call EXCEPT ![t] = c]
      BY <1>7 DEF StartValidate, Begin
  <2>2. c \in SessionCalls /\ c.sid = sid /\ c.row = session[sid]
      BY <2>1 DEF SessionCalls, SessionTypes
  <2> QED BY <1>7, <2>1, <2>2, CallMoves, ReadKeeps DEF StartValidate
<1>8. CASE Refresh(t)
  <2> DEFINE sid == call[t].sid
             row == [call[t].row EXCEPT !.last_seen = now]
  <2>1. call[t] \in SessionCalls /\ call[t].op = "validate" /\ call' = [call EXCEPT ![t] = NoCall]
      BY <1>8 DEF Refresh, At, Return, GoOn, SessionTypes
  <2>2. call[t].row \in Rows
      BY <2>1 DEF SessionCalls, NoCall
  <2>3. /\ sid \in DOMAIN signedIn /\ sid \in 1 .. minted /\ sid \notin dead
        /\ call[t].row.created_at = signedIn[sid]
      BY <2>1 DEF Copies, SessionTypes, NoneDead
  <2>4. call' \in [Threads -> SessionCalls] /\ CopiesStay /\ call'[t].op # "validate"
      BY <1>0, <2>1, CallMoves DEF CopiesStay
  <2>5. CASE Expired(call[t].row)
      BY <1>8, <2>3, <2>4, <2>5, DropKeeps DEF Refresh
  <2>6. CASE ~Expired(call[t].row)
    <3>1. row \in Rows /\ row.created_at = signedIn[sid]
        BY <2>2, <2>3 DEF Rows, SessionTypes
    <3>2. /\ session' = Insert(session, sid, row) /\ accepted' = <<sid, now>>
          /\ UNCHANGED <<now, minted, signedIn, dead>>
        BY <1>8, <2>6 DEF Refresh
    <3>3. /\ DOMAIN session' = DOMAIN session \cup {sid}
          /\ session'[sid] = row
          /\ \A x \in DOMAIN session : x # sid => session'[x] = session[x]
          /\ session' \in [DOMAIN session \cup {sid} -> Rows]
      <4>1. session \in [DOMAIN session -> Rows]
          BY DEF SessionTypes
      <4> HIDE DEF SessionInv, sid, row
      <4> QED BY <3>1, <3>2, <4>1 DEF Insert
    <3>4. SessionTypes'
        BY <2>3, <2>4, <3>2, <3>3 DEF SessionTypes
    <3>5. Copies'
        BY <2>4, <3>1, <3>2, <3>3 DEF Copies, CopiesStay
    <3>6. NoneDead'
        BY <2>3, <2>4, <3>2, <3>3 DEF NoneDead, CopiesStay
    <3>7. now - signedIn[sid] <= Absolute
      <4>1. now \in Nat /\ signedIn[sid] \in Nat /\ Absolute \in Nat
          BY <2>3 DEF SessionTypes, SessionsAssumption
      <4>2. ~(now - signedIn[sid] > Absolute)
          BY <2>3, <2>6 DEF Expired
      <4> QED BY <4>1, <4>2
    <3>8. InLifetime'
        BY <2>3, <3>2, <3>7 DEF InLifetime, SessionTypes
    <3> QED BY <3>4, <3>5, <3>6, <3>8
  <2> QED BY <2>5, <2>6
<1>9. ASSUME NEW sid \in 1 .. minted, Revoke(t, sid) PROVE SessionInv'
  <2>1. call' = call /\ call[t] = NoCall
      BY <1>9 DEF Revoke, OneStep
  <2>2. call' \in [Threads -> SessionCalls] /\ CopiesStay /\ call'[t].op # "validate"
      BY <1>0, <2>1 DEF CopiesStay, SessionTypes
  <2> QED BY <1>9, <2>2, DropKeeps DEF Revoke
<1>10. ASSUME NEW user \in Users, StartRevokeAll(t, user) PROVE SessionInv'
  <2> DEFINE victims == {sid \in DOMAIN session : session[sid].user_id = user}
             c == [op |-> "revoke_all", step |-> "delete", todo |-> victims]
  <2>1. c \in SessionCalls /\ c.op = "revoke_all"
      BY DEF SessionCalls, SessionTypes
  <2>2. call' = [call EXCEPT ![t] = c]
      BY <1>10 DEF StartRevokeAll, Begin
  <2> QED BY <1>10, <2>1, <2>2, CallMoves, ReadKeeps DEF StartRevokeAll
<1>11. ASSUME NEW sid \in 1 .. minted, DeleteVictim(t, sid) PROVE SessionInv'
  <2>1. call[t] \in SessionCalls /\ call[t].op = "revoke_all"
      BY <1>11 DEF DeleteVictim, At, SessionTypes
  <2>2. CASE sid \in DOMAIN session
    <3> DEFINE c == [call[t] EXCEPT !.todo = @ \ {sid}]
    <3>1. c \in SessionCalls /\ c.op = "revoke_all"
        BY <2>1 DEF SessionCalls, NoCall
    <3>2. Drop(t, {sid}) /\ call' = [call EXCEPT ![t] = c]
        BY <1>11, <2>2 DEF DeleteVictim, GoOn
    <3>3. call' \in [Threads -> SessionCalls] /\ CopiesStay /\ call'[t].op # "validate"
        BY <3>1, <3>2, CallMoves DEF CopiesStay
    <3> QED BY <1>11, <3>2, <3>3, DropKeeps DEF DeleteVictim
  <2>3. CASE sid \notin DOMAIN session
    <3>1. call' = [call EXCEPT ![t] = NoCall] /\ UNCHANGED <<now, minted, sessionVars>>
        BY <1>11, <2>3 DEF DeleteVictim, Return, GoOn, sessionVars
    <3> QED BY <1>0, <3>1, CallMoves, ReadKeeps
  <2> QED BY <2>2, <2>3
<1>12. CASE RevokedAll(t)
  <2>1. call' = [call EXCEPT ![t] = NoCall]
      BY <1>12 DEF RevokedAll, Return, GoOn
  <2> QED BY <1>0, <1>12, <2>1, CallMoves, ReadKeeps DEF RevokedAll
<1> QED
    BY <1>1, <1>2, <1>3, <1>4, <1>5, <1>6, <1>7, <1>8, <1>9, <1>10, <1>11, <1>12 DEF SessionStep

(* A service's clock may run, and it may do nothing.                       *)
LEMMA StillKeeps ==
    ASSUME SessionInv, now' \in Nat, UNCHANGED <<minted, call, sessionVars>>
    PROVE  SessionInv'
BY DEF SessionInv, SessionTypes, Copies, NoneDead, InLifetime, sessionVars

(* While the sessions are in use, a step is theirs or leaves them alone.   *)
LEMMA InUseKeeps ==
    ASSUME use = "sessions", SessionInv, [Next]_vars, SessionsAssumption
    PROVE  use' = use /\ SessionInv'
<1>1. CASE Tick /\ UNCHANGED use
  <2>1. now' \in Nat /\ UNCHANGED <<minted, call, sessionVars>>
      BY <1>1 DEF Tick, threads, SessionInv, SessionTypes
  <2> QED BY <1>1, <2>1, StillKeeps
<1>2. ASSUME NEW t \in Threads, BySessions(t), UNCHANGED use PROVE use' = use /\ SessionInv'
    BY <1>2, SessionStepKeeps DEF BySessions
<1>3. CASE UNCHANGED vars
  <2>1. now' \in Nat /\ UNCHANGED <<minted, call, sessionVars, use>>
      BY <1>3 DEF vars, threads, SessionInv, SessionTypes
  <2> QED BY <2>1, StillKeeps
<1> QED
    BY <1>1, <1>2, <1>3
    DEF Next, Provider, ByRefreshTokens, ByCeremonies, ByVault, ByGuards, ByExports

(* While another service is, no step touches them.                         *)
LEMMA OutOfUseKeeps ==
    ASSUME use # "sessions", Unused, [Next]_vars
    PROVE  use' = use /\ Unused'
<1>1. use' = use /\ UNCHANGED sessionVars
  <2>1. CASE Next
      BY <2>1 DEF Next, Tick, Provider, BySessions, ByRefreshTokens, ByCeremonies, ByVault,
                  ByGuards, ByExports
  <2>2. CASE UNCHANGED vars
      BY <2>2 DEF vars
  <2> QED BY <2>1, <2>2
<1> QED BY <1>1 DEF Unused, sessionVars

(* The inductive invariant of the sessions: what the calls in progress     *)
(* hold, and when each person signed in, for any number of threads, users, *)
(* ids and calls.                                                          *)
THEOREM SessionsAreConsistent == Spec => []SInv
<1>1. SInv /\ [Next]_vars => SInv'
    BY InUseKeeps, OutOfUseKeeps, SessionsAssumption DEF SInv
<1> QED BY <1>1, SessionInit, PTL DEF Spec

(* The absolute lifetime counts from the sign-in, through every refresh    *)
(* and rotation in flight: no validation succeeds once it is over.         *)
THEOREM NoSessionOutlivesSignInHolds == Spec => []NoSessionOutlivesSignIn
<1>1. SInv => NoSessionOutlivesSignIn
    BY DEF SInv, SessionInv, Unused, InLifetime, NoSessionOutlivesSignIn
<1> QED BY <1>1, SessionsAreConsistent, PTL

(* An id whose session was dropped while no validation held its row never  *)
(* gets a session again, whatever other calls are in progress.             *)
THEOREM RevokedStaysRevokedHolds == Spec => []RevokedStaysRevoked
<1>1. SInv => RevokedStaysRevoked
    BY DEF SInv, SessionInv, Unused, NoneDead, RevokedStaysRevoked
<1> QED BY <1>1, SessionsAreConsistent, PTL
===============================================================================
