------------------------------ MODULE Ceremonies ------------------------------
(***************************************************************************)
(* The ceremonies that start at one request and finish at a later one: an  *)
(* OIDC login (TransactionStore, validate_id_token), the linking of a      *)
(* provider identity (LinkingCeremony) and the registration and assertion  *)
(* of a passkey (WebAuthnRelyingParty).  Each hands out a ticket -- a      *)
(* state or a challenge -- that must be brought back.                      *)
(*                                                                         *)
(* Of the checks on a request alone (response type, redirect URI, re-      *)
(* authentication, RP id and origin, authenticated session) only requests  *)
(* that pass are modelled: the others change nothing.                      *)
(***************************************************************************)
EXTENDS Calls

CONSTANTS
    Browsers,       \* a browser stands for its session id and user-agent binding
    Accounts,       \* user ids
    Credentials,    \* passkey credential ids
    Counts,         \* values of a signature counter
    TTL, MaxPending,    \* TransactionStore
    Leeway,         \* of validate_id_token, in ticks
    Nobody          \* the holder of a ticket nobody has

ASSUME CeremoniesAssumption ==
    /\ TTL \in Nat /\ MaxPending \in Nat /\ Leeway \in Nat /\ Counts \subseteq Nat

VARIABLES
    pending,    \* TransactionStore: OIDC transactions by state
    idToken,    \* ID tokens the provider has issued, by nonce (one per transaction)
    linking,    \* LinkingCeremony: initiating session, by state
    challenge,  \* ChallengeStore: the challenge issued to each user and purpose
    credential, \* CredentialStore: credentials by id
    issuedTo,   \* history: whom each ticket was issued to
    uses,       \* history: how often each ticket completed its ceremony
    usedBy,     \* history: for whom it last did
    login,      \* history: the last login: when its transaction and its callback began
    highest,    \* history: the highest counter since each credential's registration
    raced       \* history: credentials two requests updated at once

ceremonyVars == <<pending, idToken, linking, challenge, credential,
                  issuedTo, uses, usedBy, login, highest, raced>>

NoLogin == [created |-> None, started |-> None]
CeremoniesInit ==
    /\ pending = Empty /\ idToken = Empty /\ linking = Empty /\ challenge = Empty
    /\ credential = Empty /\ issuedTo = Empty /\ uses = [x \in Ids |-> 0] /\ usedBy = Empty
    /\ login = NoLogin /\ highest = Empty /\ raced = {}

Issue(h) == Mint /\ issuedTo' = Insert(issuedTo, Fresh, h)
Complete(x, h) == uses' = [uses EXCEPT ![x] = @ + 1] /\ usedBy' = Insert(usedBy, x, h)
passkeys == <<challenge, credential, highest, raced>>
-------------------------------------------------------------------------------
(* TransactionStore: put and consume first drop what has expired, one by   *)
(* one as listed, with a KeyError at one another thread has dropped.       *)
Old == {x \in DOMAIN pending : pending[x].created_at < now - TTL}

(* build_authorization_request.                                            *)
StartAuthorization(t, b) ==
    /\ Begin(t, [op |-> "put", step |-> "evict", next |-> "count", victims |-> Old,
                 txn |-> [created_at |-> now, ua_binding |-> b]])
    /\ UNCHANGED <<now, minted, ceremonyVars>>
EvictExpired(t) ==
    LET c == call[t] there == c.victims \cap DOMAIN pending IN
    /\ c.op \in {"put", "consume"} /\ c.step = "evict"
    /\ \/ there = c.victims /\ pending' = Remove(pending, there) /\ GoTo(t, c.next)
       \/ /\ there # c.victims /\ Return(t)
          /\ \E some \in SUBSET there : pending' = Remove(pending, some)
    /\ UNCHANGED <<now, minted, idToken, linking, issuedTo, uses, usedBy, login, passkeys>>
(* Mutant: the bound is off by one.                                        *)
CountOneMore(t) ==
    /\ At(t, "put", "count")
    /\ IF Cardinality(DOMAIN pending) > MaxPending THEN Return(t) ELSE GoTo(t, "insert")
    /\ UNCHANGED <<now, minted, ceremonyVars>>
CountPending(t) ==
    /\ At(t, "put", "count")
    /\ IF Cardinality(DOMAIN pending) >= MaxPending THEN Return(t) ELSE GoTo(t, "insert")
    /\ UNCHANGED <<now, minted, ceremonyVars>>
InsertTransaction(t) ==
    /\ At(t, "put", "insert")
    /\ Issue(call[t].txn.ua_binding) /\ pending' = Insert(pending, Fresh, call[t].txn)
    /\ Return(t)
    /\ UNCHANGED <<now, idToken, linking, uses, usedBy, login, passkeys>>

(* The callback consumes the transaction of its state and validates the ID *)
(* token that came with it, which may be that of another login.            *)
(* Mutant: expired transactions are not dropped here.                      *)
StartCallbackAnyTime(t, b, state, nonce) ==
    /\ Begin(t, [op |-> "consume", step |-> "pop", next |-> "pop", victims |-> Old,
                 state |-> state, nonce |-> nonce, browser |-> b, started |-> now, txn |-> None])
    /\ UNCHANGED <<now, minted, ceremonyVars>>
StartCallback(t, b, state, nonce) ==
    /\ Begin(t, [op |-> "consume", step |-> "evict", next |-> "pop", victims |-> Old,
                 state |-> state, nonce |-> nonce, browser |-> b, started |-> now, txn |-> None])
    /\ UNCHANGED <<now, minted, ceremonyVars>>
PopTransaction(t) ==
    LET state == call[t].state IN
    /\ At(t, "consume", "pop")
    /\ IF state \in DOMAIN pending
       THEN GoOn(t, [call[t] EXCEPT !.txn = pending[state], !.step = "id token"])
       ELSE Return(t)
    /\ pending' = Remove(pending, {state})
    /\ UNCHANGED <<now, minted, idToken, linking, issuedTo, uses, usedBy, login, passkeys>>

(* validate_id_token; good stands for signature, iss, aud, sub and a       *)
(* verified email.                                                         *)
(* Mutant: the nonce is not compared.                                      *)
AcceptedWithAnyNonce(c) ==
    LET claims == idToken[c.nonce] IN
    /\ claims.good
    /\ now <= claims.exp + Leeway /\ claims.iat <= now + Leeway
    /\ c.txn.ua_binding = c.browser
Accepted(c) ==
    LET claims == idToken[c.nonce] IN
    /\ claims.good
    /\ now <= claims.exp + Leeway /\ claims.iat <= now + Leeway
    /\ c.nonce = c.state    \* the state stands for the nonce of its transaction
    /\ c.txn.ua_binding = c.browser
ValidateIdToken(t) ==
    LET c == call[t] IN
    /\ At(t, "consume", "id token")
    /\ IF Accepted(c)
       THEN /\ Complete(c.nonce, c.browser)
            /\ login' = [created |-> c.txn.created_at, started |-> c.started]
       ELSE UNCHANGED <<uses, usedBy, login>>
    /\ Return(t)
    /\ UNCHANGED <<now, minted, pending, idToken, linking, issuedTo, passkeys>>

(* The provider issues one ID token for an authorization request; its      *)
(* clock may be ahead.                                                     *)
IssueIdToken(nonce) ==
    /\ nonce \in DOMAIN pending /\ nonce \notin DOMAIN idToken
    /\ \E iat \in now .. now + 1, good \in BOOLEAN :
           idToken' = Insert(idToken, nonce,
                             [iat |-> iat, exp |-> iat + 1, good |-> good])
    /\ UNCHANGED <<now, minted, threads, pending, linking, issuedTo, uses, usedBy, login, passkeys>>
-------------------------------------------------------------------------------
(* LinkingCeremony: the state is popped, and counts only in the session    *)
(* that began the linking.                                                 *)
BeginLink(t, b) ==
    /\ OneStep(t) /\ Issue(b) /\ linking' = Insert(linking, Fresh, b)
    /\ UNCHANGED <<now, pending, idToken, uses, usedBy, login, passkeys>>
CompleteLink(t, b, state) ==
    /\ OneStep(t)
    /\ linking' = Remove(linking, {state})
    /\ IF state \in DOMAIN linking /\ linking[state] = b
       THEN Complete(state, b) ELSE UNCHANGED <<uses, usedBy>>
    /\ UNCHANGED <<now, minted, pending, idToken, issuedTo, login, passkeys>>
-------------------------------------------------------------------------------
(* WebAuthn: one challenge per user and purpose, popped by any attempt to  *)
(* consume it.  The update of the counter writes the count checked earlier *)
(* into the row as read again, which another request may have replaced.    *)
IssueChallenge(t, u, purpose) ==
    /\ OneStep(t) /\ Issue(<<u, purpose>>)
    /\ challenge' = Insert(challenge, <<u, purpose>>, Fresh)
    /\ UNCHANGED <<now, pending, idToken, linking, credential, uses, usedBy, login, highest, raced>>

Updating(k) == \E t \in Threads : call[t].step \in {"add", "read", "update"} /\ call[t].k = k
Race(k) == raced' = IF Updating(k) THEN raced \cup {k} ELSE raced

(* An attempt pops the challenge, and is over if it brings back another or *)
(* the authenticator did not verify the user.                              *)
RefusePasskey(t, u, purpose) ==
    /\ OneStep(t) /\ challenge' = Remove(challenge, {<<u, purpose>>})
    /\ UNCHANGED <<now, minted, pending, idToken, linking, credential, issuedTo, uses, usedBy,
                   login, highest, raced>>
(* A registration or an assertion with credential k and counter n goes on. *)
StartPasskey(t, u, purpose, k, n) ==
    LET key == <<u, purpose>> IN
    /\ key \in DOMAIN challenge
    /\ Begin(t, [op |-> purpose, step |-> IF purpose = "register" THEN "add" ELSE "check",
                 u |-> u, x |-> challenge[key], k |-> k, n |-> n, owner |-> u])
    /\ IF purpose = "register" THEN Race(k) ELSE UNCHANGED raced
    /\ challenge' = Remove(challenge, {key})
    /\ UNCHANGED <<now, minted, pending, idToken, linking, credential, issuedTo, uses, usedBy,
                   login, highest>>
AddCredential(t) ==
    LET c == call[t] IN
    /\ At(t, "register", "add")
    /\ credential' = Insert(credential, c.k, [user_id |-> c.u, sign_count |-> c.n])
    /\ highest' = Insert(highest, c.k, c.n)
    /\ Complete(c.x, <<c.u, "register">>) /\ Return(t)
    /\ UNCHANGED <<now, minted, pending, idToken, linking, challenge, issuedTo, login, raced>>
(* verify_assertion: the credential is the user's, its counter is lower    *)
(* and the signature verifies.                                             *)
CheckAssertion(t) ==
    LET c == call[t] IN
    /\ At(t, "assert", "check")
    /\ \/ /\ c.k \in DOMAIN credential /\ credential[c.k].user_id = c.u
          /\ c.n > credential[c.k].sign_count
          /\ GoTo(t, "read") /\ Race(c.k)
       \/ Return(t) /\ UNCHANGED raced
    /\ UNCHANGED <<now, minted, pending, idToken, linking, challenge, credential, issuedTo, uses,
                   usedBy, login, highest>>
ReadCredential(t) ==
    /\ At(t, "assert", "read")
    /\ GoOn(t, [call[t] EXCEPT !.step = "update", !.owner = credential[call[t].k].user_id])
    /\ UNCHANGED <<now, minted, ceremonyVars>>
(* Mutant: the counter is not written back.                                *)
AcceptAssertion(t) ==
    LET c == call[t] IN
    /\ At(t, "assert", "update")
    /\ highest' = [highest EXCEPT ![c.k] = IF c.n > @ THEN c.n ELSE @]
    /\ Complete(c.x, <<c.u, "assert">>) /\ Return(t)
    /\ UNCHANGED <<now, minted, pending, idToken, linking, challenge, credential, issuedTo, login,
                   raced>>
UpdateCounter(t) ==
    LET c == call[t] IN
    /\ At(t, "assert", "update")
    /\ credential' = [credential EXCEPT ![c.k] = [user_id |-> c.owner, sign_count |-> c.n]]
    /\ highest' = [highest EXCEPT ![c.k] = IF c.n > @ THEN c.n ELSE @]
    /\ Complete(c.x, <<c.u, "assert">>) /\ Return(t)
    /\ UNCHANGED <<now, minted, pending, idToken, linking, challenge, issuedTo, login, raced>>

BrowserStep(t) ==
    \/ EvictExpired(t) \/ CountPending(t) \/ InsertTransaction(t)
    \/ PopTransaction(t) \/ ValidateIdToken(t)
    \/ \E b \in Browsers :
        \/ StartAuthorization(t, b) \/ BeginLink(t, b)
        \/ \E state \in DOMAIN issuedTo : CompleteLink(t, b, state)
        \/ \E state \in DOMAIN issuedTo, nonce \in DOMAIN idToken : StartCallback(t, b, state, nonce)
PasskeyStep(t) ==
    \/ AddCredential(t) \/ CheckAssertion(t) \/ ReadCredential(t) \/ UpdateCounter(t)
    \/ \E u \in Accounts, purpose \in {"register", "assert"} :
        \/ IssueChallenge(t, u, purpose) \/ RefusePasskey(t, u, purpose)
        \/ \E k \in Credentials, n \in Counts : StartPasskey(t, u, purpose, k, n)
-------------------------------------------------------------------------------
InStore(x) ==
    \/ x \in DOMAIN pending \/ x \in DOMAIN linking
    \/ \E key \in DOMAIN challenge : challenge[key] = x
InHand(x) ==
    \E t \in Threads : \/ At(t, "consume", "id token") /\ call[t].state = x
                       \/ call[t].step \in {"add", "check", "read", "update"} /\ call[t].x = x
TicketStatus ==
    [x \in Ids |-> IF x \notin DOMAIN issuedTo THEN "unissued"
                   ELSE IF uses[x] = 1 THEN "spent"
                   ELSE IF uses[x] > 1 THEN "spent again"
                   ELSE IF InStore(x) \/ InHand(x) THEN "live" ELSE "void"]
Person(record) == [x \in Ids |-> IF x \in DOMAIN record THEN record[x] ELSE Nobody]

Tickets == INSTANCE SingleUse WITH
    Tickets <- Ids, status <- TicketStatus, holder <- Person(issuedTo), spender <- Person(usedBy),
    Holders <- Browsers \cup (Accounts \X {"register", "assert"})

(* Every state and challenge is good for one completed ceremony, of the    *)
(* browser or user it was issued to, whatever requests race, expire, fail  *)
(* or bring back another's: the stores implement SingleUse.  In particular *)
(* each ID token logs in once.                                             *)
TicketsAreSingleUse == Tickets!Spec

(* A login is completed only by a callback that came within the lifetime   *)
(* of its transaction, even while other threads drop expired ones.         *)
NoLateLogin == login.started - login.created <= TTL

(* Concurrent initiations count the pending transactions before they add   *)
(* theirs: the bound is exceeded by one per other thread at the most.      *)
PendingIsBounded == Cardinality(DOMAIN pending) <= MaxPending + Cardinality(Threads) - 1

(* The stored counter is the highest one accepted since the registration,  *)
(* so no assertion is accepted again, as long as no two requests updated   *)
(* the credential at once.                                                 *)
CounterIsHighest ==
    \A k \in DOMAIN credential \ raced : credential[k].sign_count = highest[k]
=============================================================================
