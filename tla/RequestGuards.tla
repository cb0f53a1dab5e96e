---------------------------- MODULE RequestGuards ----------------------------
(***************************************************************************)
(* What a request passes on its way into a view and out again: TLS, the    *)
(* fixed-window rate limiter, the body limit, CSRF, authorization, and for *)
(* import and export the cap on concurrent work.  Limiter and cap read a   *)
(* dictionary entry and write it back in two steps.                        *)
(*                                                                         *)
(* All requests here are of one client to one endpoint: they share one     *)
(* rate key and one concurrency key.                                       *)
(***************************************************************************)
EXTENDS Calls, Sequences

CONSTANTS
    Requests,       \* the requests sent, records of the fields below
    MaxRequests, Window,    \* the Limit: requests per window, its length in ticks
    Cap             \* of concurrency_guard

(* site: Sec-Fetch-Site; origin: is Origin on the allowlist?; token: do    *)
(* the CSRF cookie and header agree?; principal: what is known of it;      *)
(* owner: whose object is the target (none without an owner_loader)?       *)
ASSUME GuardsAssumption ==
    /\ MaxRequests \in Nat /\ Window \in Nat \ {0} /\ Cap \in Nat
    /\ Requests \subseteq
        [secure : BOOLEAN, big : BOOLEAN, mutating : BOOLEAN, token : BOOLEAN,
         site : {"same-origin", "same-site", "cross-site", "absent"}, origin : BOOLEAN,
         principal : {"none", "capable", "incapable", "broken"}, owner : {"none", "self", "other"}]

VARIABLES
    window,     \* FixedWindowRateLimiter: start and count of the current window
    active,     \* ConcurrencyCap: the counter
    admitted,   \* history: when each request the limiter lets by came, in their order
    answer,     \* the answer the last step gave, and whether it recorded a denial
    lostCount, lostSlot \* history: did two updates of the window, of the counter overlap?

guardVars == <<window, active, admitted, answer, lostCount, lostSlot>>

NoAnswer == [request |-> NoCall, status |-> None, denied |-> FALSE]

NoWindow == [start |-> None, count |-> 0]
GuardsInit ==
    /\ window = NoWindow /\ active = 0
    /\ admitted = <<>> /\ answer = NoAnswer
    /\ lostCount = FALSE /\ lostSlot = FALSE

Here(t, step) == At(t, "request", step)
Elsewhere(t, steps) == \E u \in Under("request") \ {t} : call[u].step \in steps
Silently == answer' = NoAnswer
Reply(r, status, denied) == answer' = [request |-> r, status |-> status, denied |-> denied]
Answer(t, status) == Return(t) /\ Reply(call[t].request, status, FALSE)
-------------------------------------------------------------------------------
(* _enforce_tls, then the first half of FixedWindowRateLimiter.check.      *)
NewWindow == window.start = None \/ now - window.start >= Window
Counted == IF NewWindow THEN [start |-> now, count |-> 1] ELSE [window EXCEPT !.count = @ + 1]

Plaintext(r) == ~r.secure
Oversized(r) == r.big

Arrive(t, r) ==
    /\ IF ~Plaintext(r)
       THEN /\ Begin(t, [op |-> "request", step |-> "count", request |-> r, local |-> Counted])
            /\ lostCount' = (lostCount \/ Elsewhere(t, {"count"}))
            /\ admitted' = IF Counted.count <= MaxRequests THEN Append(admitted, now) ELSE admitted
            /\ Silently
       ELSE /\ OneStep(t) /\ Reply(r, 400, FALSE)
            /\ UNCHANGED <<admitted, lostCount>>
    /\ UNCHANGED <<now, minted, window, active, lostSlot>>
(* register_csrf: a state-changing request needs an affirmative signal.    *)
SameOrigin(r) ==
    \/ r.site = "same-origin"
    \/ r.site = "absent" /\ r.origin
CsrfRefuses(r) == r.mutating /\ ~r.token /\ ~SameOrigin(r)

(* PolicyDecisionPoint.authorize: function first, then object; a policy    *)
(* that raises denies.  Denied requests for an object look like not-found. *)
Authorized(r) == r.principal = "capable" /\ r.owner # "other"
DeniedStatus(r) == IF r.principal # "none" /\ r.owner # "none" THEN 404 ELSE 403

(* Mutant: a denial is answered without being recorded.                    *)
CheckSilently(t) ==
    LET r == call[t].request IN
    IF Oversized(r) THEN Answer(t, 413)
    ELSE IF CsrfRefuses(r) THEN Answer(t, 403)
    ELSE IF Authorized(r) THEN GoTo(t, "cap") /\ Silently
    ELSE Answer(t, DeniedStatus(r))
Check(t) ==
    LET r == call[t].request IN
    IF Oversized(r) THEN Answer(t, 413)
    ELSE IF CsrfRefuses(r) THEN Answer(t, 403)
    ELSE IF Authorized(r) THEN GoTo(t, "cap") /\ Silently
    ELSE \/ Return(t) /\ Reply(r, DeniedStatus(r), TRUE)
         \/ Answer(t, 500)    \* the sink raises

(* The second half of check; the checks after it share nothing.            *)
(* Mutant: only the start of a window is written back.                     *)
CountFirst(t) ==
    LET w == call[t].local IN
    /\ Here(t, "count")
    /\ window' = IF w.count = 1 THEN w ELSE window
    /\ IF w.count <= MaxRequests THEN Check(t) ELSE Answer(t, 429)
    /\ UNCHANGED <<now, minted, active, admitted, lostCount, lostSlot>>
Count(t) ==
    LET w == call[t].local IN
    /\ Here(t, "count")
    /\ window' = w
    /\ IF w.count <= MaxRequests THEN Check(t) ELSE Answer(t, 429)
    /\ UNCHANGED <<now, minted, active, admitted, lostCount, lostSlot>>
-------------------------------------------------------------------------------
(* concurrency_guard: ConcurrencyCap.try_acquire and release.              *)
Slots == {"acquire", "release", "decrement"}
Overlap(t) == lostSlot' = (lostSlot \/ Elsewhere(t, Slots))
ReadActive(t) ==
    /\ Here(t, "cap")
    /\ IF active >= Cap THEN Answer(t, 429) /\ UNCHANGED lostSlot
       ELSE /\ GoOn(t, [call[t] EXCEPT !.step = "acquire", !.local = active])
            /\ Overlap(t) /\ Silently
    /\ UNCHANGED <<now, minted, window, active, admitted, lostCount>>
Acquire(t) ==
    /\ Here(t, "acquire")
    /\ active' = call[t].local + 1 /\ GoTo(t, "work") /\ Silently
    /\ UNCHANGED <<now, minted, window, admitted, lostCount, lostSlot>>
(* The work returns or raises; the slot is released either way.  Mutant:   *)
(* it is not released if the work raises.                                  *)
WorkWithoutFinally(t) ==
    /\ Here(t, "work")
    /\ \/ GoTo(t, "release") /\ Overlap(t) /\ Silently
       \/ Answer(t, 500) /\ UNCHANGED lostSlot
    /\ UNCHANGED <<now, minted, window, active, admitted, lostCount>>
Work(t) ==
    /\ Here(t, "work")
    /\ IF active > 0 THEN GoTo(t, "release") /\ Silently
                     ELSE \E status \in {200, 500} : Answer(t, status)
    /\ Overlap(t) /\ UNCHANGED <<now, minted, window, active, admitted, lostCount>>
ReadToRelease(t) ==
    /\ Here(t, "release")
    /\ GoOn(t, [call[t] EXCEPT !.step = "decrement", !.local = active]) /\ Silently
    /\ UNCHANGED <<now, minted, window, active, admitted, lostCount, lostSlot>>
Decrement(t) ==
    /\ Here(t, "decrement")
    /\ active' = call[t].local - 1 /\ \E status \in {200, 500} : Answer(t, status)
    /\ UNCHANGED <<now, minted, window, admitted, lostCount, lostSlot>>

GuardStep(t) ==
    \/ \E r \in Requests : Arrive(t, r)
    \/ Count(t) \/ ReadActive(t) \/ Acquire(t) \/ Work(t) \/ ReadToRelease(t) \/ Decrement(t)
-------------------------------------------------------------------------------
(* A window opens with the request it counts first, so that any span of    *)
(* its length sees fewer than twice the limit let through, as long as no   *)
(* two requests counted themselves at once (then one is not counted) and   *)
(* the limit lets anything through.                                        *)
AdmittedIn(span) == {i \in DOMAIN admitted : admitted[i] \in span}
FewerThanTwiceTheLimit ==
    ~lostCount /\ MaxRequests > 0 =>
        \A from \in 1 .. MaxTime :
            Cardinality(AdmittedIn(from .. from + Window - 1)) < 2 * MaxRequests

(* The counter is the number of slots in use, at most the cap, whatever    *)
(* the work does, as long as no two updates of it overlapped: otherwise    *)
(* one is lost, and a slot with it or one too many is given out.           *)
Holding == {t \in Under("request") : call[t].step \in {"work", "release", "decrement"}}
SlotsAreAccountedFor == ~lostSlot => active = Cardinality(Holding) /\ active <= Cap

(* A request is served only over TLS, within the limits, with a CSRF       *)
(* signal if it changes state, and to a principal entitled to function and *)
(* object; one refused for the principal is on the audit trail, or failed. *)
ServedOrRefused ==
    LET r == answer.request
        entitled == r.principal = "capable" /\ r.owner \in {"none", "self"}
        signal == \/ r.token \/ r.site = "same-origin"
                  \/ r.origin /\ r.site \notin {"cross-site", "same-site"}
    IN  /\ answer.status = 200 => r.secure /\ ~r.big /\ entitled /\ (r.mutating => signal)
        /\ answer.status \in {403, 404} => (r.mutating /\ ~signal) \/ answer.denied
=============================================================================
