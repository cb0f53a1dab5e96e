---------------------------- MODULE Access_proofs ----------------------------
(***************************************************************************)
(* What holds of the refresh tokens, the exports, the requests' guards and *)
(* the ceremonies, for any number of threads, ids and calls.  (Sessions    *)
(* and the token vault have modules of their own.)                         *)
(*                                                                         *)
(* A behaviour uses one service.  While that is another one, a service's   *)
(* variables keep their initial values: its invariant says no more then.   *)
(***************************************************************************)
EXTENDS Access, FiniteSetTheorems, TLAPS

(* The services that are not in use do not move.                           *)
LEMMA UseStays ==
    ASSUME [Next]_vars
    PROVE  /\ use' = use
           /\ use # "refresh tokens" => UNCHANGED refreshVars
           /\ use # "exports" => UNCHANGED exportVars
           /\ use # "requests" => UNCHANGED guardVars
           /\ use \notin {"logins", "passkeys"} => UNCHANGED ceremonyVars
<1>1. CASE Next
    BY <1>1 DEF Next, Tick, Provider, BySessions, ByRefreshTokens, ByCeremonies, ByVault, ByGuards,
                ByExports
<1>2. CASE UNCHANGED vars
    BY <1>2 DEF vars
<1> QED BY <1>1, <1>2

(* The clock runs, or nothing happens.                                     *)
Still ==
    /\ now' = now \/ now' = now + 1
    /\ UNCHANGED <<minted, call, refreshVars, exportVars, guardVars, ceremonyVars>>

LEMMA UseSteps ==
    ASSUME [Next]_vars
    PROVE  \/ Still
           \/ use = "logins" /\ \E nonce \in Ids : IssueIdToken(nonce)
           \/ \E t \in Threads :
                \/ BySessions(t) \/ ByVault(t)
                \/ use = "refresh tokens" /\ RefreshStep(t)
                \/ use = "exports" /\ ExportStep(t)
                \/ use = "requests" /\ GuardStep(t)
                \/ use = "logins" /\ BrowserStep(t)
                \/ use = "passkeys" /\ PasskeyStep(t)
<1>1. CASE UNCHANGED vars
    BY <1>1 DEF vars, Still, threads
<1>2. CASE Tick
    BY <1>2 DEF Tick, Still, threads
<1> QED
    BY <1>1, <1>2 DEF Next, Provider, ByRefreshTokens, ByCeremonies, ByGuards, ByExports
-------------------------------------------------------------------------------
(* Refresh tokens.  A family that is revoked or about to be had a token    *)
(* presented twice; so had one with a token that was superseded without    *)
(* having been used, or with an exchange under way of a token that is no   *)
(* longer the active one.                                                  *)
Families == [active_token : Nat, used_tokens : SUBSET Nat, revoked : BOOLEAN]
RefreshCalls == {NoCall} \cup [op : {"rotate_token"}, token : Nat, step : {"revoke", "exchange"}]
RefreshTypes ==
    /\ minted \in Nat /\ call \in [Threads -> RefreshCalls]
    /\ family \in [DOMAIN family -> Families] /\ index \in [DOMAIN index -> DOMAIN family]
    /\ DOMAIN index \subseteq 1 .. minted
    /\ \A f \in DOMAIN family : f \in DOMAIN index /\ index[f] = f
    /\ \A t \in Threads : call[t] # NoCall => call[t].token \in DOMAIN index
    /\ reused \subseteq DOMAIN index

FamilyOf(x) == family[index[x]]
Rotates(t, x, step) == call[t] # NoCall /\ call[t].token = x /\ call[t].step = step
Twice(x) == \E y \in repeated \cap DOMAIN index : index[y] = index[x]
Active(x) == x = FamilyOf(x).active_token /\ x \notin FamilyOf(x).used_tokens
IsRevoked(x) == FamilyOf(x).revoked
IsBeingRevoked(x) ==
    \E t \in Threads, y \in DOMAIN index : Rotates(t, y, "revoke") /\ index[y] = index[x]

Presentations ==
    /\ \A f \in DOMAIN family : family[f].used_tokens \subseteq presented
    /\ \A t \in Threads : call[t] # NoCall => call[t].token \in presented
    /\ \A t, u \in Threads : t # u /\ call[t] # NoCall /\ call[u] # NoCall
                                /\ call[t].token = call[u].token => call[t].token \in repeated
TokenInv(x) ==
    /\ IsRevoked(x) => Twice(x)
    /\ \A t \in Threads : Rotates(t, x, "revoke") => Twice(x)
    /\ \A t \in Threads : Rotates(t, x, "exchange") => Active(x) \/ Twice(x)
    /\ x = FamilyOf(x).active_token \/ x \in FamilyOf(x).used_tokens \/ Twice(x)
    /\ x \in reused => IsRevoked(x) \/ IsBeingRevoked(x)
RefreshInv == RefreshTypes /\ Presentations /\ \A x \in DOMAIN index : TokenInv(x)
RefreshUnused == family = Empty /\ index = Empty /\ presented = {} /\ repeated = {} /\ reused = {}
RInv == IF use = "refresh tokens" THEN RefreshInv ELSE RefreshUnused

LEMMA RevokedFields ==
    ASSUME NEW r \in Families
    PROVE  LET revoked == [r EXCEPT !.revoked = TRUE]
           IN  /\ revoked \in Families /\ revoked.revoked
               /\ revoked.active_token = r.active_token /\ revoked.used_tokens = r.used_tokens
<1>1. /\ r = [active_token |-> r.active_token, used_tokens |-> r.used_tokens, revoked |-> r.revoked]
      /\ r.active_token \in Nat /\ r.used_tokens \in SUBSET Nat /\ r.revoked \in BOOLEAN
    BY DEF Families
<1> QED BY <1>1 DEF Families

LEMMA CallFields ==
    ASSUME RefreshTypes, NEW t \in Threads
    PROVE  /\ \A op, step : At(t, op, step) => op = "none" \/ call[t] # NoCall
           /\ call[t] # NoCall => call[t].op = "rotate_token" /\ call[t].token \in DOMAIN index
                                  /\ call[t].token \in Nat
BY DEF RefreshTypes, RefreshCalls, NoCall, At

(* A token of a new family.                                                *)
LEMMA IssueFamilyKeeps == ASSUME RefreshInv, NEW t \in Threads, IssueFamily(t) PROVE RefreshInv'
<1>0. PICK fresh : fresh = Fresh
    OBVIOUS
<1>1. /\ fresh \notin DOMAIN index /\ fresh \notin DOMAIN family /\ fresh \in Nat
      /\ minted' \in Nat /\ DOMAIN index \cup {fresh} \subseteq 1 .. minted'
    BY <1>0 DEF RefreshInv, RefreshTypes, Fresh, IssueFamily, HandOut, Mint
<1>2. NewFamily(fresh) \in Families /\ ~NewFamily(fresh).revoked
      /\ NewFamily(fresh).active_token = fresh /\ NewFamily(fresh).used_tokens = {}
    BY <1>1 DEF NewFamily, Families
<1>3. /\ DOMAIN family' = DOMAIN family \cup {fresh} /\ family' \in [DOMAIN family' -> Families]
      /\ family'[fresh] = NewFamily(fresh) /\ \A f \in DOMAIN family : family'[f] = family[f]
  <2>1. family' = Insert(family, fresh, NewFamily(fresh)) /\ family \in [DOMAIN family -> Families]
      BY <1>0 DEF IssueFamily, RefreshInv, RefreshTypes
  <2> QED BY <1>1, <1>2, <2>1 DEF Insert
<1>4. /\ DOMAIN index' = DOMAIN index \cup {fresh} /\ index'[fresh] = fresh
      /\ \A x \in DOMAIN index : index'[x] = index[x] /\ index[x] \in DOMAIN family
      /\ index' \in [DOMAIN index' -> DOMAIN family']
  <2>1. index' = Insert(index, fresh, fresh)
      BY <1>0 DEF IssueFamily, HandOut
  <2>2. index \in [DOMAIN index -> DOMAIN family'] /\ fresh \in DOMAIN family'
        /\ \A x \in DOMAIN index : index[x] \in DOMAIN family
      BY <1>3 DEF RefreshInv, RefreshTypes
  <2>3. \A x \in DOMAIN index : index'[x] = index[x]
      BY <1>1, <2>1 DEF Insert
  <2> QED BY <2>1, <2>2, <2>3 DEF Insert
<1>5. UNCHANGED <<call, presented, repeated, reused>>
    BY DEF IssueFamily, OneStep, history
<1>6. RefreshTypes'
    BY <1>1, <1>3, <1>4, <1>5 DEF RefreshInv, RefreshTypes
<1>7. Presentations'
    BY <1>2, <1>3, <1>5 DEF RefreshInv, Presentations
<1>8. ASSUME NEW x \in DOMAIN index PROVE TokenInv(x)'
  <2>1. FamilyOf(x)' = FamilyOf(x) /\ TokenInv(x)
      BY <1>3, <1>4 DEF FamilyOf, RefreshInv
  <2>2. (Twice(x) => Twice(x)') /\ (IsBeingRevoked(x) => IsBeingRevoked(x)')
      BY <1>4, <1>5 DEF Twice, IsBeingRevoked, Rotates
  <2> QED BY <1>5, <2>1, <2>2 DEF TokenInv, Active, IsRevoked, Rotates
<1>9. TokenInv(fresh)'
  <2>1. \A u \in Threads : \A step : ~Rotates(u, fresh, step)'
      BY <1>1, <1>5 DEF Rotates, RefreshInv, RefreshTypes
  <2>2. FamilyOf(fresh)' = NewFamily(fresh) /\ fresh \notin reused'
      BY <1>1, <1>3, <1>4, <1>5 DEF FamilyOf, RefreshInv, RefreshTypes
  <2> QED BY <1>2, <2>1, <2>2 DEF TokenInv, IsRevoked
<1> QED BY <1>4, <1>6, <1>7, <1>8, <1>9 DEF RefreshInv

(* A token is presented.                                                   *)
LEMMA PresentKeeps ==
    ASSUME RefreshInv, NEW t \in Threads, NEW token \in DOMAIN index, Present(t, token)
    PROVE  RefreshInv'
<1> USE DEF RefreshInv
<1>0. PICK c : c = [op |-> "rotate_token", token |-> token,
                    step |-> IF Replayed(FamilyOf(token), token) THEN "revoke" ELSE "exchange"]
    OBVIOUS
<1>1. /\ call[t] = NoCall /\ call' = [call EXCEPT ![t] = c] /\ ~IsRevoked(token)
      /\ UNCHANGED <<minted, family, index>> /\ token \in Nat
    BY <1>0 DEF Present, Begin, FamilyOf, IsRevoked, RefreshTypes
<1>2. c \in RefreshCalls /\ c # NoCall /\ c.token = token
    BY <1>0, <1>1 DEF RefreshCalls, NoCall
<1>3. /\ call' \in [Threads -> RefreshCalls] /\ call'[t] = c
      /\ \A u \in Threads \ {t} : call'[u] = call[u]
    BY <1>1, <1>2 DEF RefreshTypes
<1>4. /\ presented' = presented \cup {token}
      /\ repeated' = repeated \cup (presented \cap {token})
      /\ reused' = reused \cup (FamilyOf(token).used_tokens \cap {token})
    BY DEF Present, FamilyOf
<1>5. RefreshTypes'
    BY <1>1, <1>2, <1>3, <1>4 DEF RefreshTypes
<1>6. Presentations'
  <2>1. \A u \in Threads \ {t} : call[u] # NoCall /\ call[u].token = token => token \in repeated'
      BY <1>4 DEF Presentations
  <2> QED BY <1>1, <1>2, <1>3, <1>4, <2>1 DEF Presentations
<1>7. ASSUME NEW x \in DOMAIN index PROVE TokenInv(x)'
  <2>1. FamilyOf(x)' = FamilyOf(x) /\ TokenInv(x) /\ (Active(x) => Active(x)')
        /\ (Twice(x) => Twice(x)') /\ (IsRevoked(x)' <=> IsRevoked(x))
      BY <1>1, <1>4 DEF FamilyOf, Twice, Active, IsRevoked
  <2>2. IsBeingRevoked(x) => IsBeingRevoked(x)'
    <3>1. \A u \in Threads : \A y : Rotates(u, y, "revoke") => Rotates(u, y, "revoke")'
        BY <1>1, <1>3 DEF Rotates
    <3> QED BY <1>1, <3>1 DEF IsBeingRevoked
  <2>3. Replayed(FamilyOf(token), token) => Twice(token)'
    <3>1. CASE token \in FamilyOf(token).used_tokens
      <4>1. token \in repeated'
          BY <1>4, <3>1 DEF Presentations, FamilyOf, RefreshTypes
      <4> QED BY <1>1, <4>1 DEF Twice
    <3>2. CASE token \notin FamilyOf(token).used_tokens /\ token # FamilyOf(token).active_token
      <4>1. Twice(token)
          BY <3>2 DEF TokenInv
      <4> QED BY <1>1, <1>4, <4>1 DEF Twice
    <3> QED BY <3>1, <3>2 DEF Replayed
  <2>4. Rotates(t, x, "revoke")' => Twice(x)'
      BY <1>0, <1>2, <1>3, <2>3 DEF Rotates
  <2>5. Rotates(t, x, "exchange")' => Active(x)'
    <3>1. Rotates(t, x, "exchange")' => x = token /\ ~Replayed(FamilyOf(x), x)
        BY <1>0, <1>2, <1>3 DEF Rotates
    <3> QED BY <2>1, <3>1 DEF Active, Replayed
  <2>6. \A u \in Threads \ {t} : \A step : Rotates(u, x, step)' => Rotates(u, x, step)
      BY <1>3 DEF Rotates
  <2>7. x \in reused' => IsRevoked(x)' \/ IsBeingRevoked(x)'
    <3>1. CASE x \in reused
        BY <2>1, <2>2, <3>1 DEF TokenInv
    <3>2. CASE x = token /\ x \in FamilyOf(token).used_tokens
      <4>1. Rotates(t, x, "revoke")'
          BY <1>0, <1>2, <1>3, <3>2 DEF Rotates, Replayed
      <4> QED BY <1>1, <4>1 DEF IsBeingRevoked
    <3> QED BY <1>4, <3>1, <3>2
  <2>8. x = FamilyOf(x)'.active_token \/ x \in FamilyOf(x)'.used_tokens \/ Twice(x)'
      BY <2>1 DEF TokenInv
  <2>9. \A u \in Threads : Rotates(u, x, "revoke")' => Twice(x)'
      BY <2>1, <2>4, <2>6 DEF TokenInv
  <2>10. \A u \in Threads : Rotates(u, x, "exchange")' => Active(x)' \/ Twice(x)'
      BY <2>1, <2>5, <2>6 DEF TokenInv
  <2> QED BY <2>1, <2>7, <2>8, <2>9, <2>10 DEF TokenInv
<1> QED BY <1>1, <1>5, <1>6, <1>7

(* A family is revoked.                                                    *)
LEMMA RevokeFamilyKeeps == ASSUME RefreshInv, NEW t \in Threads, RevokeFamily(t) PROVE RefreshInv'
<1> USE DEF RefreshInv
<1>1. PICK x : x = call[t].token
    OBVIOUS
<1>2. PICK f : f = index[x]
    OBVIOUS
<1>3. /\ x \in DOMAIN index /\ f \in DOMAIN family /\ x \in Nat
      /\ Rotates(t, x, "revoke") /\ Twice(x)
  <2>1. call[t] # NoCall /\ x \in DOMAIN index /\ x \in Nat /\ call[t].step = "revoke"
      BY <1>1, CallFields DEF RevokeFamily, At
  <2> QED BY <1>1, <1>2, <2>1 DEF Rotates, TokenInv, RefreshTypes
<1>4. PICK r : r = [family[f] EXCEPT !.revoked = TRUE]
    OBVIOUS
<1>5. /\ r \in Families /\ r.revoked
      /\ r.active_token = family[f].active_token /\ r.used_tokens = family[f].used_tokens
  <2>1. family[f] \in Families
      BY <1>3 DEF RefreshTypes
  <2> QED BY <1>3, <1>4, <2>1, RevokedFields
<1>6. /\ family' = [family EXCEPT ![f] = r] /\ call' = [call EXCEPT ![t] = NoCall]
      /\ UNCHANGED <<minted, index, presented, repeated, reused>>
    BY <1>1, <1>2, <1>4 DEF RevokeFamily, Return, GoOn, history
<1>7. /\ DOMAIN family' = DOMAIN family /\ family' \in [DOMAIN family' -> Families]
      /\ family'[f] = r /\ \A g \in DOMAIN family \ {f} : family'[g] = family[g]
    BY <1>3, <1>5, <1>6 DEF RefreshTypes
<1>8. /\ call' \in [Threads -> RefreshCalls] /\ call'[t] = NoCall
      /\ \A u \in Threads \ {t} : call'[u] = call[u]
    BY <1>6 DEF RefreshTypes, RefreshCalls
<1>9. RefreshTypes'
    BY <1>6, <1>7, <1>8 DEF RefreshTypes
<1>10. Presentations'
    BY <1>5, <1>6, <1>7, <1>8 DEF Presentations
<1>11. ASSUME NEW y \in DOMAIN index PROVE TokenInv(y)'
  <2>1. /\ FamilyOf(y)'.active_token = FamilyOf(y).active_token
        /\ FamilyOf(y)'.used_tokens = FamilyOf(y).used_tokens
        /\ IsRevoked(y)' <=> IsRevoked(y) \/ index[y] = f
    <3>1. index'[y] = index[y] /\ index[y] \in DOMAIN family
        BY <1>6 DEF RefreshTypes
    <3> QED BY <1>5, <1>7, <3>1 DEF FamilyOf, IsRevoked
  <2>2. TokenInv(y) /\ (Twice(y)' <=> Twice(y)) /\ (Active(y)' <=> Active(y))
      BY <1>6, <2>1 DEF Twice, Active
  <2>3. \A u \in Threads : \A step : Rotates(u, y, step)' => Rotates(u, y, step)
      BY <1>8 DEF Rotates
  <2>4. IsRevoked(y)' => Twice(y)'
      BY <1>2, <1>3, <2>1, <2>2 DEF TokenInv, Twice
  <2>5. y \in reused' => IsRevoked(y)' \/ IsBeingRevoked(y)'
    <3>1. CASE index[y] = f
        BY <2>1, <3>1
    <3>2. CASE index[y] # f
      <4>1. IsBeingRevoked(y) => IsBeingRevoked(y)'
        <5> SUFFICES ASSUME NEW u \in Threads, NEW z \in DOMAIN index,
                            Rotates(u, z, "revoke"), index[z] = index[y]
                     PROVE  IsBeingRevoked(y)'
            BY DEF IsBeingRevoked
        <5>1. u # t
            BY <1>2, <1>3, <3>2 DEF Rotates
        <5>2. Rotates(u, z, "revoke")'
            BY <1>8, <5>1 DEF Rotates
        <5> QED BY <1>6, <5>2 DEF IsBeingRevoked
      <4> QED BY <1>6, <2>1, <2>2, <4>1 DEF TokenInv
    <3> QED BY <3>1, <3>2
  <2>6. y = FamilyOf(y)'.active_token \/ y \in FamilyOf(y)'.used_tokens \/ Twice(y)'
      BY <2>1, <2>2 DEF TokenInv
  <2>7. \A u \in Threads : Rotates(u, y, "revoke")' => Twice(y)'
      BY <2>2, <2>3 DEF TokenInv
  <2>8. \A u \in Threads : Rotates(u, y, "exchange")' => Active(y)' \/ Twice(y)'
      BY <2>2, <2>3 DEF TokenInv
  <2> QED BY <2>4, <2>5, <2>6, <2>7, <2>8 DEF TokenInv
<1> QED BY <1>6, <1>9, <1>10, <1>11

(* A token is exchanged for the next one.                                  *)
LEMMA ExchangeKeeps == ASSUME RefreshInv, NEW t \in Threads, Exchange(t) PROVE RefreshInv'
<1> USE DEF RefreshInv
<1>1. PICK x : x = call[t].token
    OBVIOUS
<1>2. PICK f : f = index[x]
    OBVIOUS
<1>3. PICK fresh : fresh = Fresh
    OBVIOUS
<1>4. /\ fresh \notin DOMAIN index /\ fresh \in Nat
      /\ minted' \in Nat /\ DOMAIN index \cup {fresh} \subseteq 1 .. minted'
    BY <1>3 DEF RefreshTypes, Fresh, Exchange, HandOut, Mint
<1>5. /\ x \in DOMAIN index /\ f \in DOMAIN family /\ x \in Nat
      /\ Rotates(t, x, "exchange") /\ (Active(x) \/ Twice(x)) /\ x \in presented
  <2>1. call[t] # NoCall /\ x \in DOMAIN index /\ x \in Nat /\ call[t].step = "exchange"
      BY <1>1, CallFields DEF Exchange, At
  <2> QED BY <1>1, <1>2, <2>1 DEF Rotates, TokenInv, RefreshTypes, Presentations
<1>6. PICK r : r = [family[f] EXCEPT !.used_tokens = family[f].used_tokens \cup {x},
                                     !.active_token = fresh]
    OBVIOUS
<1>7. /\ r \in Families /\ r.revoked = family[f].revoked
      /\ r.active_token = fresh /\ r.used_tokens = family[f].used_tokens \cup {x}
  <2>1. family[f] \in Families
      BY <1>5 DEF RefreshTypes
  <2>2. PICK q : q = family[f]
      OBVIOUS
  <2>3. r = [q EXCEPT !.used_tokens = q.used_tokens \cup {x}, !.active_token = fresh]
      BY <1>6, <2>2
  <2>4. /\ q \in Families /\ q.active_token \in Nat
        /\ q.used_tokens \cup {x} \in SUBSET Nat /\ q.revoked \in BOOLEAN
      BY <1>5, <2>1, <2>2 DEF Families
  <2>5. /\ r \in Families /\ r.revoked = q.revoked
        /\ r.active_token = fresh /\ r.used_tokens = q.used_tokens \cup {x}
      BY <1>4, <2>3, <2>4 DEF Families
  <2> QED BY <2>2, <2>5
<1>8. /\ family' = [family EXCEPT ![f] = r] /\ call' = [call EXCEPT ![t] = NoCall]
      /\ index' = Insert(index, fresh, f) /\ UNCHANGED <<presented, repeated, reused>>
    BY <1>1, <1>2, <1>3, <1>6 DEF Exchange, HandOut, Return, GoOn, history
<1>9. /\ DOMAIN family' = DOMAIN family /\ family' \in [DOMAIN family' -> Families]
      /\ family'[f] = r /\ \A g \in DOMAIN family \ {f} : family'[g] = family[g]
    BY <1>5, <1>7, <1>8 DEF RefreshTypes
<1>10. /\ DOMAIN index' = DOMAIN index \cup {fresh} /\ index'[fresh] = f
       /\ \A y \in DOMAIN index : index'[y] = index[y] /\ index[y] \in DOMAIN family
       /\ index' \in [DOMAIN index' -> DOMAIN family']
  <2>1. index \in [DOMAIN index -> DOMAIN family'] /\ f \in DOMAIN family'
      BY <1>5, <1>9 DEF RefreshTypes
  <2> QED BY <1>4, <1>8, <1>9, <2>1 DEF Insert
<1>11. /\ call' \in [Threads -> RefreshCalls] /\ call'[t] = NoCall
       /\ \A u \in Threads \ {t} : call'[u] = call[u]
    BY <1>8 DEF RefreshTypes, RefreshCalls
<1>12. RefreshTypes'
    BY <1>4, <1>8, <1>9, <1>10, <1>11 DEF RefreshTypes
<1>13. Presentations'
    BY <1>5, <1>7, <1>8, <1>9, <1>11 DEF Presentations
<1>14. ASSUME NEW y \in DOMAIN index PROVE TokenInv(y)'
  <2>1. TokenInv(y) /\ (Twice(y) => Twice(y)') /\ (index[y] = f /\ Twice(x) => Twice(y))
      BY <1>2, <1>8, <1>10 DEF Twice
  <2>2. IsRevoked(y)' <=> IsRevoked(y)
      BY <1>7, <1>9, <1>10 DEF IsRevoked, FamilyOf
  <2>3. \A u \in Threads : \A step :
            Rotates(u, y, step)' => u # t /\ Rotates(u, y, step) /\ (y = x => Twice(y))
    <3> SUFFICES ASSUME NEW u \in Threads, NEW step, Rotates(u, y, step)'
                 PROVE  u # t /\ Rotates(u, y, step) /\ (y = x => Twice(y))
        OBVIOUS
    <3>1. u # t /\ Rotates(u, y, step)
        BY <1>11 DEF Rotates
    <3>2. y = x => y \in repeated
        BY <1>5, <3>1 DEF Presentations, Rotates
    <3> QED BY <3>1, <3>2 DEF Twice
  <2>4. IsBeingRevoked(y) => IsBeingRevoked(y)'
    <3> SUFFICES ASSUME NEW u \in Threads, NEW z \in DOMAIN index,
                        Rotates(u, z, "revoke"), index[z] = index[y]
                 PROVE  IsBeingRevoked(y)'
        BY DEF IsBeingRevoked
    <3>1. u # t
        BY <1>5 DEF Rotates
    <3>2. Rotates(u, z, "revoke")' /\ z \in DOMAIN index' /\ index'[z] = index'[y]
        BY <1>10, <1>11, <3>1 DEF Rotates
    <3> QED BY <3>2 DEF IsBeingRevoked
  <2>5. index[y] # f => FamilyOf(y)' = FamilyOf(y)
      BY <1>9, <1>10 DEF FamilyOf
  <2>6. index[y] = f =>
            /\ FamilyOf(y)'.used_tokens = FamilyOf(y).used_tokens \cup {x}
            /\ FamilyOf(y).active_token = FamilyOf(x).active_token
            /\ FamilyOf(y).used_tokens = FamilyOf(x).used_tokens
      BY <1>2, <1>7, <1>9, <1>10 DEF FamilyOf
  <2>7. \A u \in Threads : Rotates(u, y, "exchange")' => Active(y)' \/ Twice(y)'
    <3>1. CASE index[y] # f
        BY <2>1, <2>3, <2>5, <3>1 DEF TokenInv, Active
    <3>2. CASE index[y] = f /\ y = x
        BY <2>1, <2>3, <3>2
    <3>3. CASE index[y] = f /\ y # x
      <4>1. Active(y) => ~Active(x)
          BY <2>6, <3>3 DEF Active
      <4> QED BY <1>5, <2>1, <2>3, <3>3, <4>1 DEF TokenInv
    <3> QED BY <3>1, <3>2, <3>3
  <2>8. y = FamilyOf(y)'.active_token \/ y \in FamilyOf(y)'.used_tokens \/ Twice(y)'
    <3>1. CASE index[y] # f
        BY <2>1, <2>5, <3>1 DEF TokenInv
    <3>2. CASE index[y] = f
      <4>1. y = FamilyOf(y).active_token /\ y # x => ~Active(x)
          BY <2>6, <3>2 DEF Active
      <4> QED BY <1>5, <2>1, <2>6, <3>2, <4>1 DEF TokenInv
    <3> QED BY <3>1, <3>2
  <2>9. \A u \in Threads : Rotates(u, y, "revoke")' => Twice(y)'
      BY <2>1, <2>3 DEF TokenInv
  <2> QED BY <1>8, <2>1, <2>2, <2>4, <2>7, <2>8, <2>9 DEF TokenInv
<1>15. TokenInv(fresh)'
  <2>1. \A u \in Threads : \A step : ~Rotates(u, fresh, step)'
      BY <1>4, <1>11 DEF Rotates, RefreshTypes
  <2>2. IsRevoked(fresh)' => Twice(fresh)'
    <3>1. IsRevoked(fresh)' => Twice(x)
        BY <1>2, <1>5, <1>7, <1>9, <1>10 DEF IsRevoked, FamilyOf, TokenInv
    <3> QED BY <1>2, <1>8, <1>10, <3>1 DEF Twice
  <2>3. fresh = FamilyOf(fresh)'.active_token /\ fresh \notin reused'
      BY <1>4, <1>7, <1>8, <1>9, <1>10 DEF FamilyOf, RefreshTypes
  <2> QED BY <2>1, <2>2, <2>3 DEF TokenInv
<1> QED BY <1>10, <1>12, <1>13, <1>14, <1>15

LEMMA RefreshUnusedKeeps ==
    ASSUME use # "refresh tokens", RInv, [Next]_vars PROVE RInv'
<1>1. RefreshUnused /\ use' = use /\ UNCHANGED refreshVars
    BY UseStays DEF RInv
<1> QED BY <1>1 DEF RInv, RefreshUnused, refreshVars, history

LEMMA RefreshKept == RInv /\ [Next]_vars => RInv'
<1> SUFFICES ASSUME RInv, [Next]_vars PROVE RInv'
    OBVIOUS
<1>1. CASE use # "refresh tokens"
    BY <1>1, RefreshUnusedKeeps
<1>2. CASE use = "refresh tokens"
  <2>0. RefreshInv /\ use' = use
      BY <1>2, UseStays DEF RInv
  <2>1. CASE Still
    <3>1. UNCHANGED <<minted, call, family, index, presented, repeated, reused>>
        BY <2>1 DEF Still, refreshVars, history
    <3>2. RefreshTypes' /\ Presentations'
        BY <2>0, <3>1 DEF RefreshInv, RefreshTypes, Presentations
    <3>3. \A x \in DOMAIN index : TokenInv(x)'
        BY <2>0, <3>1 DEF RefreshInv, TokenInv, Twice, IsRevoked, IsBeingRevoked, Active, FamilyOf,
                          Rotates
    <3>4. RefreshInv'
        BY <3>1, <3>2, <3>3 DEF RefreshInv
    <3> QED BY <1>2, <2>0, <3>4 DEF RInv
  <2>2. ASSUME NEW t \in Threads, RefreshStep(t) PROVE RInv'
    <3>1. RefreshInv'
        BY <2>0, <2>2, IssueFamilyKeeps, PresentKeeps, RevokeFamilyKeeps, ExchangeKeeps
           DEF RefreshStep
    <3> QED BY <1>2, <2>0, <3>1 DEF RInv
  <2>3. Still \/ \E t \in Threads : RefreshStep(t)
      BY <1>2, UseSteps DEF BySessions, ByVault
  <2> QED BY <2>1, <2>2, <2>3
<1> QED BY <1>1, <1>2

(* RefreshTokenManager.rotate: however presentations of a family's tokens  *)
(* overlap, it is revoked only if one of them was presented twice, and it  *)
(* is revoked once the call that met a used token is over.                 *)
THEOREM FamiliesAreRevokedOnReuse == Spec => []RevokedExactlyOnReuse
<1>1. Init => RInv
  <2> SUFFICES ASSUME Init PROVE RInv
      OBVIOUS
  <2>1. RefreshUnused /\ minted = 0 /\ call = [t \in Threads |-> NoCall]
      BY DEF Init, RefreshInit, RefreshUnused
  <2>2. DOMAIN family = {} /\ DOMAIN index = {} /\ reused = {} /\ \A t \in Threads : call[t] = NoCall
      BY <2>1 DEF RefreshUnused, Empty
  <2>3. RefreshTypes
      BY <2>1, <2>2 DEF RefreshTypes, RefreshCalls
  <2>4. RefreshInv
      BY <2>2, <2>3 DEF RefreshInv, Presentations
  <2> QED BY <2>1, <2>4 DEF RInv
<1>2. RInv => RevokedExactlyOnReuse
  <2> SUFFICES ASSUME RInv, NEW f \in DOMAIN family
               PROVE  LET tokens == {x \in DOMAIN index : index[x] = f} IN
                      /\ family[f].revoked => repeated \cap tokens # {}
                      /\ reused \cap tokens # {} /\ Under("rotate_token") = {} => family[f].revoked
      BY DEF RevokedExactlyOnReuse
  <2>1. RefreshInv
      BY DEF RInv, RefreshUnused, Empty
  <2>2. f \in DOMAIN index /\ index[f] = f
      BY <2>1 DEF RefreshInv, RefreshTypes
  <2>3. family[f].revoked => \E y \in repeated \cap DOMAIN index : index[y] = f
      BY <2>1, <2>2 DEF RefreshInv, TokenInv, IsRevoked, FamilyOf, Twice
  <2>4. ASSUME NEW x \in reused, x \in DOMAIN index, index[x] = f, Under("rotate_token") = {}
        PROVE  family[f].revoked
    <3>1. \A t \in Threads : \A y : ~Rotates(t, y, "revoke")
        BY <2>1, <2>4, CallFields DEF RefreshInv, Rotates, Under
    <3>2. ~IsBeingRevoked(x)
        BY <3>1 DEF IsBeingRevoked
    <3> QED BY <2>1, <2>4, <3>2 DEF RefreshInv, TokenInv, IsRevoked, FamilyOf
  <2> QED BY <2>3, <2>4
<1> QED BY <1>1, <1>2, RefreshKept, PTL DEF Spec
-------------------------------------------------------------------------------
(* Exports.  What was handed out or purged is not in the store; a download *)
(* under way has the artifact of its own user and, past the checks, came   *)
(* in time; of the owner's artifacts a purge listed, those it has dealt    *)
(* with are gone for good.                                                 *)
Artifacts == [owner : Owners, expires_at : Nat]
ExportCalls ==
    {NoCall}
    \cup [op : {"download"}, step : {"check", "use", "consume"}, x : Nat, user : Owners,
          art : Artifacts, started : Nat]
    \cup [op : {"purge"}, step : {"delete"}, todo : SUBSET Nat, mine : SUBSET Nat]
ExportTypes ==
    /\ now \in Nat /\ minted \in Nat /\ call \in [Threads -> ExportCalls]
    /\ artifact \in [DOMAIN artifact -> Artifacts] /\ DOMAIN artifact \subseteq 1 .. minted
    /\ served \in [Ids -> Nat]

Fits(c) ==
    /\ c.op = "download" =>
        /\ c.x \in 1 .. minted /\ c.art.owner = c.user /\ c.started <= now
        /\ c.step # "check" => c.started <= c.art.expires_at
    /\ c.op = "purge" =>
        c.mine \subseteq 1 .. minted /\ (c.mine \ c.todo) \cap DOMAIN artifact = {}
CallsFit == \A t \in Threads, c \in ExportCalls : call[t] = c => Fits(c)
GoneForGood ==
    /\ purged \subseteq 1 .. minted /\ purged \cap DOMAIN artifact = {}
    /\ \A x \in Ids : served[x] <= 1 /\ (served[x] = 1 => x \in 1 .. minted \ DOMAIN artifact)
ExportInv == ExportTypes /\ CallsFit /\ GoneForGood /\ handedOut.rightly
ExportsUnused ==
    /\ artifact = Empty /\ used = {} /\ purged = {} /\ served = [x \in Ids |-> 0]
    /\ handedOut = [rightly |-> TRUE]
EInv == IF use = "exports" THEN ExportInv ELSE ExportsUnused

(* The clock and the ids run on, and of the artifacts none that ever was   *)
(* in the store comes back.                                                *)
NoneComesBack ==
    /\ now' \in Nat /\ now <= now' /\ minted' \in Nat /\ minted <= minted'
    /\ DOMAIN artifact' \cap 1 .. minted \subseteq DOMAIN artifact

LEMMA FitsStays ==
    ASSUME ExportTypes, NoneComesBack, NEW c \in ExportCalls, Fits(c) PROVE Fits(c)'
<1>1. 1 .. minted \subseteq 1 .. minted'
    BY DEF ExportTypes, NoneComesBack
<1>2. c.op = "download" => Fits(c)'
  <2>1. c.op = "download" => c.started \in Nat
      BY DEF ExportCalls, NoCall
  <2> QED BY <1>1, <2>1 DEF Fits, ExportTypes, NoneComesBack
<1>3. c.op = "purge" => Fits(c)'
    BY <1>1 DEF Fits, ExportTypes, NoneComesBack
<1> QED BY <1>2, <1>3 DEF Fits

LEMMA CallsGoOn ==
    ASSUME ExportTypes, CallsFit, NoneComesBack, NEW t \in Threads, NEW c \in ExportCalls,
           call' = [call EXCEPT ![t] = c], Fits(c)'
    PROVE  call' \in [Threads -> ExportCalls] /\ CallsFit'
<1>1. /\ call' \in [Threads -> ExportCalls] /\ call'[t] = c
      /\ \A u \in Threads \ {t} : call'[u] = call[u]
    BY DEF ExportTypes
<1>2. \A u \in Threads \ {t}, d \in ExportCalls : call'[u] = d => Fits(d)'
    BY <1>1, FitsStays DEF CallsFit
<1> QED BY <1>1, <1>2 DEF CallsFit

LEMMA NothingFits == NoCall \in ExportCalls /\ Fits(NoCall) /\ Fits(NoCall)'
BY DEF NoCall, ExportCalls, Fits

LEMMA CallsStay ==
    ASSUME ExportTypes, CallsFit, NoneComesBack, UNCHANGED call
    PROVE  call' \in [Threads -> ExportCalls] /\ CallsFit'
BY FitsStays DEF ExportTypes, CallsFit

(* Some artifacts are dropped, and the rest of the store stays.            *)
LEMMA DropKeeps ==
    ASSUME ExportInv, NEW gone, artifact' = Remove(artifact, gone),
           UNCHANGED <<now, minted, purged, served, handedOut>>
    PROVE  /\ NoneComesBack /\ GoneForGood' /\ handedOut'.rightly
           /\ call' \in [Threads -> ExportCalls] => ExportTypes'
           /\ DOMAIN artifact' = DOMAIN artifact \ gone
<1>1. DOMAIN artifact' = DOMAIN artifact \ gone /\ artifact' \in [DOMAIN artifact' -> Artifacts]
    BY DEF Remove, ExportInv, ExportTypes
<1>2. NoneComesBack
    BY <1>1 DEF NoneComesBack, ExportInv, ExportTypes
<1>3. GoneForGood' /\ handedOut'.rightly
    BY <1>1 DEF GoneForGood, ExportInv
<1>4. call' \in [Threads -> ExportCalls] => ExportTypes'
    BY <1>1 DEF ExportInv, ExportTypes
<1> QED BY <1>1, <1>2, <1>3, <1>4

LEMMA StoreStays ==
    ASSUME ExportInv, UNCHANGED <<now, minted, artifact, purged, served, handedOut>>
    PROVE  /\ NoneComesBack /\ GoneForGood' /\ handedOut'.rightly
           /\ call' \in [Threads -> ExportCalls] => ExportTypes'
BY DEF ExportInv, ExportTypes, NoneComesBack, GoneForGood

LEMMA PutKeeps ==
    ASSUME ExportInv, NEW t \in Threads, NEW o \in Owners, Put(t, o) PROVE ExportInv'
<1> USE DEF ExportInv
<1>1. PICK fresh : fresh = Fresh
    OBVIOUS
<1>2. PICK art : art = [owner |-> o, expires_at |-> now + Lifetime]
    OBVIOUS
<1>3. /\ fresh \in Nat /\ fresh = minted + 1 /\ minted' = fresh
      /\ art \in Artifacts /\ artifact' = Insert(artifact, fresh, art)
      /\ UNCHANGED <<now, call, purged, served, handedOut>>
    BY <1>1, <1>2, ExportArtifactsAssumption
       DEF Put, OneStep, Mint, Fresh, Artifacts, ExportTypes
<1>4. DOMAIN artifact' = DOMAIN artifact \cup {fresh} /\ artifact' \in [DOMAIN artifact' -> Artifacts]
  <2>1. artifact \in [DOMAIN artifact -> Artifacts]
      BY DEF ExportTypes
  <2> QED BY <1>3, <2>1 DEF Insert
<1>5. NoneComesBack /\ DOMAIN artifact' \subseteq 1 .. minted' /\ fresh \notin 1 .. minted
      /\ 1 .. minted \subseteq 1 .. minted'
    BY <1>3, <1>4 DEF NoneComesBack, ExportTypes
<1>6. CallsFit' /\ ExportTypes'
    BY <1>3, <1>4, <1>5, CallsStay DEF ExportTypes
<1>7. GoneForGood' /\ handedOut'.rightly
    BY <1>3, <1>4, <1>5 DEF GoneForGood
<1> QED BY <1>6, <1>7

LEMMA StartDownloadKeeps ==
    ASSUME ExportInv, NEW t \in Threads, NEW o \in Owners, NEW x \in Ids, StartDownload(t, o, x)
    PROVE  ExportInv'
<1> USE DEF ExportInv
<1>1. NoneComesBack /\ GoneForGood' /\ handedOut'.rightly
      /\ (call' \in [Threads -> ExportCalls] => ExportTypes')
    BY StoreStays DEF StartDownload, exportVars
<1>2. CASE UNCHANGED call
    BY <1>1, <1>2, CallsStay
<1>3. CASE x \in DOMAIN artifact /\ artifact[x].owner = o
  <2>1. PICK c : c = [op |-> "download", step |-> "check", x |-> x, user |-> o,
                      art |-> artifact[x], started |-> now]
      OBVIOUS
  <2>2. artifact[x] \in Artifacts /\ now \in Nat /\ x \in 1 .. minted /\ x \in Nat
      BY <1>3 DEF ExportTypes
  <2>3. c \in ExportCalls
      BY <2>1, <2>2 DEF ExportCalls
  <2>4. Fits(c)
      BY <1>3, <2>1, <2>2 DEF Fits
  <2>5. call' = [call EXCEPT ![t] = c]
      BY <1>3, <2>1 DEF StartDownload, Begin
  <2>6. Fits(c)'
      BY <1>1, <2>3, <2>4, FitsStays
  <2> QED BY <1>1, <2>3, <2>5, <2>6, CallsGoOn
<1> QED BY <1>2, <1>3 DEF StartDownload, OneStep

(* A download past a step; one past the checks came in time.               *)
LEMMA DownloadGoesOn ==
    ASSUME NEW c \in ExportCalls, c.op = "download", Fits(c), NEW step \in {"use", "consume"},
           c.started <= c.art.expires_at, NEW d, d = [c EXCEPT !.step = step]
    PROVE  d \in ExportCalls /\ Fits(d)
<1>1. c \in [op : {"download"}, step : {"check", "use", "consume"}, x : Nat, user : Owners,
             art : Artifacts, started : Nat]
    BY DEF ExportCalls, NoCall
<1>2. /\ d \in [op : {"download"}, step : {"check", "use", "consume"}, x : Nat, user : Owners,
                art : Artifacts, started : Nat]
      /\ d.op = "download" /\ d.x = c.x /\ d.art = c.art /\ d.user = c.user /\ d.started = c.started
    BY <1>1
<1> QED BY <1>1, <1>2 DEF ExportCalls, Fits

LEMMA CheckArtifactKeeps == ASSUME ExportInv, NEW t \in Threads, CheckArtifact(t) PROVE ExportInv'
<1> USE DEF ExportInv
<1>1. PICK c \in ExportCalls : c = call[t]
    BY DEF ExportTypes
<1>2. c.op = "download" /\ Fits(c) /\ c.started \in Nat /\ c.art.expires_at \in Nat
  <2>1. c.op = "download" /\ Fits(c)
      BY <1>1 DEF CheckArtifact, At, CallsFit
  <2> QED BY <2>1 DEF ExportCalls, NoCall, Artifacts
<1>3. NoneComesBack /\ GoneForGood' /\ handedOut'.rightly
      /\ (call' \in [Threads -> ExportCalls] => ExportTypes')
  <2>1. UNCHANGED <<now, minted, purged, served, handedOut>>
        /\ (UNCHANGED artifact \/ artifact' = Remove(artifact, {c.x}))
      BY <1>1 DEF CheckArtifact
  <2> QED BY <2>1, StoreStays, DropKeeps
<1>4. CASE call' = [call EXCEPT ![t] = NoCall]
    BY <1>3, <1>4, NothingFits, CallsGoOn
<1>5. CASE now <= c.art.expires_at /\ GoTo(t, "use")
  <2>1. PICK d : d = [c EXCEPT !.step = "use"]
      OBVIOUS
  <2>2. c.started <= c.art.expires_at
      BY <1>2, <1>5 DEF Fits, ExportTypes
  <2>3. d \in ExportCalls /\ Fits(d)
      BY <1>2, <2>1, <2>2, DownloadGoesOn
  <2>4. call' = [call EXCEPT ![t] = d] /\ Fits(d)'
      BY <1>1, <1>3, <1>5, <2>1, <2>3, FitsStays DEF GoTo, GoOn
  <2> QED BY <1>3, <2>3, <2>4, CallsGoOn
<1>6. (now <= c.art.expires_at /\ GoTo(t, "use")) \/ call' = [call EXCEPT ![t] = NoCall]
    BY <1>1, <1>2 DEF CheckArtifact, Return, GoOn, ExportTypes
<1> QED BY <1>4, <1>5, <1>6

LEMMA UseArtifactKeeps == ASSUME ExportInv, NEW t \in Threads, UseArtifact(t) PROVE ExportInv'
<1> USE DEF ExportInv
<1>1. PICK c \in ExportCalls : c = call[t]
    BY DEF ExportTypes
<1>2. c.op = "download" /\ Fits(c) /\ c.step = "use"
    BY <1>1 DEF UseArtifact, At, CallsFit
<1>3. NoneComesBack /\ GoneForGood' /\ handedOut'.rightly
      /\ (call' \in [Threads -> ExportCalls] => ExportTypes')
    BY StoreStays DEF UseArtifact
<1>4. PICK d : d = [c EXCEPT !.step = "consume"]
    OBVIOUS
<1>5. d \in ExportCalls /\ Fits(d)
    BY <1>2, <1>4, DownloadGoesOn DEF Fits
<1>6. call' = [call EXCEPT ![t] = d] /\ Fits(d)'
    BY <1>1, <1>3, <1>4, <1>5, FitsStays DEF UseArtifact, GoTo, GoOn
<1> QED BY <1>3, <1>5, <1>6, CallsGoOn

LEMMA ConsumeArtifactKeeps ==
    ASSUME ExportInv, NEW t \in Threads, ConsumeArtifact(t) PROVE ExportInv'
<1> USE DEF ExportInv
<1>1. PICK c \in ExportCalls : c = call[t]
    BY DEF ExportTypes
<1>2. /\ c.op = "download" /\ Fits(c) /\ c.step = "consume"
      /\ call' = [call EXCEPT ![t] = NoCall] /\ UNCHANGED <<now, minted, purged>>
    BY <1>1 DEF ConsumeArtifact, At, CallsFit, Return, GoOn
<1>3. CASE UNCHANGED <<artifact, served, handedOut>>
  <2>1. NoneComesBack /\ GoneForGood' /\ handedOut'.rightly
        /\ (call' \in [Threads -> ExportCalls] => ExportTypes')
      BY <1>2, <1>3, StoreStays
  <2> QED BY <1>2, <2>1, NothingFits, CallsGoOn
<1>4. CASE c.x \in DOMAIN artifact
  <2>1. /\ HandOutArtifact(c) /\ artifact' = Remove(artifact, {c.x})
      BY <1>1, <1>4 DEF ConsumeArtifact
  <2>2. /\ DOMAIN artifact' = DOMAIN artifact \ {c.x}
        /\ artifact' \in [DOMAIN artifact' -> Artifacts]
      BY <2>1 DEF Remove, ExportTypes
  <2>3. NoneComesBack
      BY <1>2, <2>2 DEF NoneComesBack, ExportTypes
  <2>4. call' \in [Threads -> ExportCalls] /\ CallsFit'
      BY <1>2, <2>3, NothingFits, CallsGoOn
  <2>5. /\ served' \in [Ids -> Nat]
        /\ \A x \in Ids : served'[x] = IF x = c.x THEN served[x] + 1 ELSE served[x]
    <3>1. served \in [Ids -> Nat] /\ served' = [served EXCEPT ![c.x] = served[c.x] + 1]
        BY <2>1 DEF HandOutArtifact, ExportTypes
    <3>2. PICK x : x = c.x
        OBVIOUS
    <3>3. x \in Ids => served[x] + 1 \in Nat
        BY <3>1
    <3> QED BY <3>1, <3>2, <3>3
  <2>6. ExportTypes'
      BY <1>2, <2>2, <2>4, <2>5 DEF ExportTypes
  <2>7. ASSUME NEW x \in Ids
        PROVE  served'[x] <= 1 /\ (served'[x] = 1 => x \in 1 .. minted' \ DOMAIN artifact')
    <3>1. CASE x = c.x
      <4>1. served[x] \in Nat /\ served[x] <= 1 /\ served[x] # 1
          BY <1>4, <3>1 DEF GoneForGood, ExportTypes
      <4>2. x \in 1 .. minted'
          BY <1>2, <1>4, <3>1 DEF ExportTypes
      <4> QED BY <2>2, <2>5, <3>1, <4>1, <4>2
    <3>2. CASE x # c.x
        BY <1>2, <2>2, <2>5, <3>2 DEF GoneForGood
    <3> QED BY <3>1, <3>2
  <2>8. purged' \subseteq 1 .. minted' /\ purged' \cap DOMAIN artifact' = {}
      BY <1>2, <2>2 DEF GoneForGood
  <2>9. handedOut'.rightly
    <3>1. c.art.owner = c.user /\ c.started <= c.art.expires_at /\ c.x \notin purged
        BY <1>2, <1>4 DEF Fits, GoneForGood
    <3> QED BY <2>1, <3>1 DEF HandOutArtifact
  <2> QED BY <2>4, <2>6, <2>7, <2>8, <2>9 DEF GoneForGood
<1> QED BY <1>1, <1>3, <1>4 DEF ConsumeArtifact

LEMMA StartPurgeKeeps ==
    ASSUME ExportInv, NEW t \in Threads, NEW mine, NEW victims, mine \subseteq victims,
           victims \subseteq DOMAIN artifact, StartPurge(t, victims, mine)
    PROVE  ExportInv'
<1> USE DEF ExportInv
<1>1. NoneComesBack /\ GoneForGood' /\ handedOut'.rightly
      /\ (call' \in [Threads -> ExportCalls] => ExportTypes')
    BY StoreStays DEF StartPurge, exportVars
<1>2. PICK c : c = [op |-> "purge", step |-> "delete", todo |-> victims, mine |-> mine]
    OBVIOUS
<1>3. victims \in SUBSET Nat /\ mine \in SUBSET Nat /\ mine \subseteq 1 .. minted
    BY DEF ExportTypes
<1>4. c \in ExportCalls
    BY <1>2, <1>3 DEF ExportCalls
<1>5. Fits(c)
    BY <1>2, <1>3 DEF Fits
<1>6. call' = [call EXCEPT ![t] = c]
    BY <1>2 DEF StartPurge, Begin
<1>7. Fits(c)'
    BY <1>1, <1>4, <1>5, FitsStays
<1> QED BY <1>1, <1>4, <1>6, <1>7, CallsGoOn

LEMMA DeleteArtifactKeeps ==
    ASSUME ExportInv, NEW t \in Threads, NEW x \in Ids, DeleteArtifact(t, x) PROVE ExportInv'
<1> USE DEF ExportInv
<1>1. PICK c \in ExportCalls : c = call[t]
    BY DEF ExportTypes
<1>2. c.op = "purge" /\ Fits(c)
    BY <1>1 DEF DeleteArtifact, At, CallsFit
<1>3. NoneComesBack /\ GoneForGood' /\ handedOut'.rightly
      /\ (call' \in [Threads -> ExportCalls] => ExportTypes')
      /\ DOMAIN artifact' = DOMAIN artifact \ {x}
  <2>1. artifact' = Remove(artifact, {x}) /\ UNCHANGED <<now, minted, purged, served, handedOut>>
      BY DEF DeleteArtifact
  <2> QED BY <2>1, DropKeeps
<1>4. CASE call' = [call EXCEPT ![t] = NoCall]
    BY <1>3, <1>4, NothingFits, CallsGoOn
<1>5. CASE call' = [call EXCEPT ![t] = [c EXCEPT !.todo = c.todo \ {x}]]
  <2>1. PICK d : d = [c EXCEPT !.todo = c.todo \ {x}]
      OBVIOUS
  <2>2. c \in [op : {"purge"}, step : {"delete"}, todo : SUBSET Nat, mine : SUBSET Nat]
      BY <1>2 DEF ExportCalls, NoCall
  <2>3. c.todo \ {x} \in SUBSET Nat
      BY <2>2
  <2>4. /\ d \in [op : {"purge"}, step : {"delete"}, todo : SUBSET Nat, mine : SUBSET Nat]
        /\ d.op = "purge" /\ d.mine = c.mine /\ d.todo = c.todo \ {x}
      BY <2>1, <2>2, <2>3
  <2>5. d \in ExportCalls
      BY <2>4 DEF ExportCalls
  <2>6. Fits(d)'
    <3>1. Fits(c)'
        BY <1>2, <1>3, FitsStays
    <3>2. d.mine \subseteq 1 .. minted'
        BY <1>2, <2>4, <3>1 DEF Fits
    <3>3. (d.mine \ d.todo) \cap DOMAIN artifact' = {}
        BY <1>2, <1>3, <2>4, <3>1 DEF Fits
    <3> QED BY <2>4, <3>2, <3>3 DEF Fits
  <2> QED BY <1>3, <1>5, <2>1, <2>5, <2>6, CallsGoOn
<1>6. \/ call' = [call EXCEPT ![t] = [c EXCEPT !.todo = c.todo \ {x}]]
      \/ call' = [call EXCEPT ![t] = NoCall]
    BY <1>1 DEF DeleteArtifact, Return, GoOn
<1> QED BY <1>4, <1>5, <1>6

LEMMA PurgedKeeps == ASSUME ExportInv, NEW t \in Threads, Purged(t) PROVE ExportInv'
<1> USE DEF ExportInv
<1>1. PICK c \in ExportCalls : c = call[t]
    BY DEF ExportTypes
<1>2. /\ c.op = "purge" /\ c.todo = {} /\ Fits(c)
      /\ call' = [call EXCEPT ![t] = NoCall] /\ purged' = purged \cup c.mine
      /\ UNCHANGED <<now, minted, artifact, served, handedOut>>
    BY <1>1 DEF Purged, At, CallsFit, Return, GoOn
<1>3. c.mine \subseteq 1 .. minted /\ c.mine \cap DOMAIN artifact = {}
    BY <1>2 DEF Fits
<1>4. NoneComesBack
    BY <1>2 DEF NoneComesBack, ExportTypes
<1>5. call' \in [Threads -> ExportCalls] /\ CallsFit'
    BY <1>2, <1>4, NothingFits, CallsGoOn
<1>6. ExportTypes' /\ GoneForGood' /\ handedOut'.rightly
    BY <1>2, <1>3, <1>5 DEF ExportTypes, GoneForGood
<1> QED BY <1>5, <1>6

LEMMA ExportsKept == EInv /\ [Next]_vars => EInv'
<1> SUFFICES ASSUME EInv, [Next]_vars PROVE EInv'
    OBVIOUS
<1>1. CASE use # "exports"
  <2>1. ExportsUnused /\ use' = use /\ UNCHANGED exportVars
      BY <1>1, UseStays DEF EInv
  <2> QED BY <1>1, <2>1 DEF EInv, ExportsUnused, exportVars
<1>2. CASE use = "exports"
  <2>0. ExportInv /\ use' = use
      BY <1>2, UseStays DEF EInv
  <2>1. CASE Still
    <3>1. /\ now' \in Nat /\ now <= now'
          /\ UNCHANGED <<minted, call, artifact, purged, served, handedOut>>
        BY <2>0, <2>1 DEF Still, exportVars, ExportInv, ExportTypes
    <3>2. NoneComesBack
        BY <2>0, <3>1 DEF NoneComesBack, ExportInv, ExportTypes
    <3>3. CallsFit' /\ call' \in [Threads -> ExportCalls]
        BY <2>0, <3>1, <3>2, CallsStay DEF ExportInv
    <3>4. ExportTypes' /\ GoneForGood' /\ handedOut'.rightly
        BY <2>0, <3>1 DEF ExportInv, ExportTypes, GoneForGood
    <3> QED BY <1>2, <2>0, <3>3, <3>4 DEF EInv, ExportInv
  <2>2. ASSUME NEW t \in Threads, ExportStep(t) PROVE EInv'
    <3>1. CASE PurgeExpired(t)
      <4>1. PICK old : old = {x \in DOMAIN artifact : now > artifact[x].expires_at}
          OBVIOUS
      <4>2. StartPurge(t, old, {}) /\ {} \subseteq old /\ old \subseteq DOMAIN artifact
          BY <3>1, <4>1 DEF PurgeExpired
      <4> QED BY <1>2, <2>0, <4>2, StartPurgeKeeps DEF EInv
    <3>2. ASSUME NEW o \in Owners, PurgeForOwner(t, o) PROVE EInv'
      <4>1. PICK mine : mine = {x \in DOMAIN artifact : artifact[x].owner = o}
          OBVIOUS
      <4>2. StartPurge(t, mine, mine) /\ mine \subseteq DOMAIN artifact
          BY <3>2, <4>1 DEF PurgeForOwner
      <4> QED BY <1>2, <2>0, <4>2, StartPurgeKeeps DEF EInv
    <3>3. CASE CheckArtifact(t) \/ UseArtifact(t) \/ ConsumeArtifact(t) \/ Purged(t)
        BY <1>2, <2>0, <3>3, CheckArtifactKeeps, UseArtifactKeeps, ConsumeArtifactKeeps, PurgedKeeps
           DEF EInv
    <3>4. ASSUME NEW o \in Owners, Put(t, o) PROVE EInv'
        BY <1>2, <2>0, <3>4, PutKeeps DEF EInv
    <3>5. ASSUME NEW o \in Owners, NEW x \in Ids, StartDownload(t, o, x) PROVE EInv'
        BY <1>2, <2>0, <3>5, StartDownloadKeeps DEF EInv
    <3>6. ASSUME NEW x \in Ids, DeleteArtifact(t, x) PROVE EInv'
        BY <1>2, <2>0, <3>6, DeleteArtifactKeeps DEF EInv
    <3> QED BY <2>2, <3>1, <3>2, <3>3, <3>4, <3>5, <3>6 DEF ExportStep
  <2>3. Still \/ \E t \in Threads : ExportStep(t)
      BY <1>2, UseSteps DEF BySessions, ByVault
  <2> QED BY <2>1, <2>2, <2>3
<1> QED BY <1>1, <1>2

(* ExportArtifactStore: however downloads and purges overlap, an export is *)
(* handed out at most once, to its owner, in time, and never after a purge *)
(* of the owner's exports has run to its end.                              *)
THEOREM ExportsAreServedOnce == Spec => []ServedOnceInTime
<1>1. Init => EInv
  <2> SUFFICES ASSUME Init PROVE EInv
      OBVIOUS
  <2>1. /\ now = 1 /\ minted = 0 /\ call = [t \in Threads |-> NoCall] /\ ExportsUnused
      BY DEF Init, ExportsInit, ExportsUnused
  <2>2. ExportTypes
      BY <2>1, NothingFits DEF ExportTypes, ExportsUnused, Empty
  <2>3. CallsFit
      BY <2>1, NothingFits DEF CallsFit
  <2>4. GoneForGood /\ handedOut.rightly
      BY <2>1 DEF ExportsUnused, GoneForGood, Empty
  <2> QED BY <2>1, <2>2, <2>3, <2>4 DEF EInv, ExportInv
<1>2. EInv => ServedOnceInTime
    BY DEF EInv, ExportInv, ExportsUnused, GoneForGood, ServedOnceInTime
<1> QED BY <1>1, <1>2, ExportsKept, PTL DEF Spec
-------------------------------------------------------------------------------
(* Requests.  In a behaviour that uses another service no thread is at a   *)
(* request: that takes the op of each call, not its type.                  *)
Named(c) == "op" \in DOMAIN c /\ c.op # "request"
NoRequests == call = [t \in Threads |-> call[t]] /\ \A t \in Threads : Named(call[t])
MovesOn(t) == UNCHANGED call \/ \E c : Named(c) /\ call' = [call EXCEPT ![t] = c]

LEMMA OpStays ==
    ASSUME NEW c, Named(c), NEW x
    PROVE  /\ Named([c EXCEPT !.step = x]) /\ Named([c EXCEPT !.todo = x])
           /\ Named([c EXCEPT !.result = x])
BY DEF Named

LEMMA NothingIsNamed == Named(NoCall)
BY DEF Named, NoCall

LEMMA SessionsMoveOn ==
    ASSUME NoRequests, NEW t \in Threads, SessionStep(t) PROVE MovesOn(t)
<1>1. CASE UNCHANGED call
    BY <1>1 DEF MovesOn
<1>2. CASE Return(t) \/ GoTo(t, "insert")
    BY <1>2, OpStays, NothingIsNamed DEF MovesOn, Return, GoTo, GoOn, NoRequests
<1>3. ASSUME NEW user \in Users, StartRevokeAll(t, user) PROVE MovesOn(t)
  <2>1. PICK c : c = [op |-> "revoke_all", step |-> "delete",
                      todo |-> {sid \in DOMAIN session : session[sid].user_id = user}]
      OBVIOUS
  <2>2. Named(c) /\ call' = [call EXCEPT ![t] = c]
      BY <1>3, <2>1 DEF StartRevokeAll, Begin, Named
  <2> QED BY <2>2 DEF MovesOn
<1>4. ASSUME NEW user \in Users, NEW prior, StartPromote(t, prior, user) PROVE MovesOn(t)
  <2>1. PICK c : c = [op |-> "promote", step |-> "insert", user |-> user]
      OBVIOUS
  <2>2. Named(c) /\ call' = [call EXCEPT ![t] = c]
      BY <1>4, <2>1 DEF StartPromote, Begin, Named
  <2> QED BY <2>2 DEF MovesOn
<1>5. ASSUME NEW sid, StartRotate(t, sid) \/ StartValidate(t, sid) PROVE MovesOn(t)
  <2>1. PICK c : \/ c = [op |-> "rotate", step |-> "pop", sid |-> sid, row |-> session[sid]]
                    /\ StartRotate(t, sid)
                 \/ c = [op |-> "validate", step |-> "refresh", sid |-> sid, row |-> session[sid]]
                    /\ StartValidate(t, sid)
      BY <1>5
  <2>2. Named(c)
      BY <2>1 DEF Named
  <2>3. call' = [call EXCEPT ![t] = c]
      BY <2>1 DEF StartRotate, StartValidate, Begin
  <2> QED BY <2>2, <2>3 DEF MovesOn
<1>6. ASSUME NEW sid, DeleteVictim(t, sid) PROVE MovesOn(t)
  <2>1. PICK todo : todo = call[t].todo \ {sid}
      OBVIOUS
  <2>2. call' = [call EXCEPT ![t] = [call[t] EXCEPT !.todo = todo]] \/ Return(t)
      BY <1>6, <2>1 DEF DeleteVictim, GoOn
  <2> QED BY <1>2, <2>2, OpStays DEF MovesOn, NoRequests
<1> QED
    BY <1>1, <1>2, <1>3, <1>4, <1>5, <1>6
       DEF SessionStep, BeginAnonymous, InsertPromoted, PopRotated, InsertRotated, Refresh, RevokedAll,
           Revoke, OneStep

LEMMA VaultMovesOn == ASSUME NoRequests, NEW t \in Threads, VaultStep(t) PROVE MovesOn(t)
<1>1. CASE UNCHANGED call
    BY <1>1 DEF MovesOn
<1>2. CASE Return(t)
    BY <1>2, NothingIsNamed DEF MovesOn, Return, GoOn
<1>3. ASSUME NEW action, NEW outcome, NEW comp, NEW p, NEW x
      PROVE  Named(Crypt(action, outcome, comp, p, x))
    BY DEF Named, Crypt
<1>4. ASSUME NEW comp, NEW p, StartEncrypt(t, comp, p) PROVE MovesOn(t)
  <2>1. PICK denied : denied = Crypt("encrypt", "denied", comp, p, Fresh)
      OBVIOUS
  <2>2. PICK c : c = Crypt("encrypt", "allowed", comp, p, Fresh)
      OBVIOUS
  <2>3. PICK result : result = {Ciphertext(p, Fresh)}
      OBVIOUS
  <2>4. Named(denied) /\ Named(c)
      BY <1>3, <2>1, <2>2
  <2>5. Named([c EXCEPT !.result = result])
      BY <2>4, OpStays
  <2> QED BY <1>1, <1>4, <2>1, <2>2, <2>3, <2>4, <2>5 DEF StartEncrypt, Begin, OneStep, MovesOn
<1>5. ASSUME NEW comp, NEW p, NEW ct, StartDecrypt(t, comp, p, ct) PROVE MovesOn(t)
  <2>1. PICK denied : denied = Crypt("decrypt", "denied", comp, p, ct.object)
      OBVIOUS
  <2>2. PICK c : c = Crypt("decrypt", "allowed", comp, p, ct.object)
      OBVIOUS
  <2>4. Named(denied) /\ Named(c)
      BY <1>3, <2>1, <2>2
  <2>5. Named([c EXCEPT !.result = {ct}])
      BY <2>4, OpStays
  <2> QED BY <1>1, <1>5, <2>1, <2>2, <2>4, <2>5 DEF StartDecrypt, Begin, OneStep, MovesOn
<1> QED BY <1>1, <1>2, <1>4, <1>5 DEF VaultStep, RecordUse, Bind, OneStep

LEMMA RefreshMovesOn == ASSUME NoRequests, NEW t \in Threads, RefreshStep(t) PROVE MovesOn(t)
<1>1. CASE UNCHANGED call
    BY <1>1 DEF MovesOn
<1>2. CASE Return(t)
    BY <1>2, NothingIsNamed DEF MovesOn, Return, GoOn
<1>3. ASSUME NEW token, Present(t, token) PROVE MovesOn(t)
  <2>1. PICK c : c = [op |-> "rotate_token", token |-> token,
                      step |-> IF Replayed(family[index[token]], token) THEN "revoke" ELSE "exchange"]
      OBVIOUS
  <2>2. Named(c)
      BY <2>1 DEF Named
  <2> QED BY <1>3, <2>1, <2>2 DEF Present, Begin, MovesOn
<1> QED BY <1>1, <1>2, <1>3 DEF RefreshStep, IssueFamily, RevokeFamily, Exchange, OneStep

LEMMA ExportsMoveOn == ASSUME NoRequests, NEW t \in Threads, ExportStep(t) PROVE MovesOn(t)
<1>1. CASE UNCHANGED call
    BY <1>1 DEF MovesOn
<1>2. CASE Return(t) \/ GoTo(t, "use") \/ GoTo(t, "consume")
    BY <1>2, OpStays, NothingIsNamed DEF MovesOn, Return, GoTo, GoOn, NoRequests
<1>3. ASSUME NEW victims, NEW mine, StartPurge(t, victims, mine) PROVE MovesOn(t)
  <2>1. PICK c : c = [op |-> "purge", step |-> "delete", todo |-> victims, mine |-> mine]
      OBVIOUS
  <2>2. Named(c)
      BY <2>1 DEF Named
  <2> QED BY <1>3, <2>1, <2>2 DEF StartPurge, Begin, MovesOn
<1>4. ASSUME NEW o, NEW x, StartDownload(t, o, x) PROVE MovesOn(t)
  <2>1. PICK c : c = [op |-> "download", step |-> "check", x |-> x, user |-> o,
                      art |-> artifact[x], started |-> now]
      OBVIOUS
  <2>2. Named(c)
      BY <2>1 DEF Named
  <2> QED BY <1>1, <1>4, <2>1, <2>2 DEF StartDownload, Begin, OneStep, MovesOn
<1>5. ASSUME NEW x, DeleteArtifact(t, x) PROVE MovesOn(t)
  <2>1. PICK todo : todo = call[t].todo \ {x}
      OBVIOUS
  <2>2. call' = [call EXCEPT ![t] = [call[t] EXCEPT !.todo = todo]] \/ Return(t)
      BY <1>5, <2>1 DEF DeleteArtifact, GoOn
  <2> QED BY <1>2, <2>2, OpStays DEF MovesOn, NoRequests
<1>6. CASE PurgeExpired(t) \/ \E o \in Owners : PurgeForOwner(t, o)
    BY <1>3, <1>6 DEF PurgeExpired, PurgeForOwner
<1> QED
    BY <1>1, <1>2, <1>4, <1>5, <1>6
       DEF ExportStep, CheckArtifact, UseArtifact, ConsumeArtifact, Purged, Put, OneStep

LEMMA LoginsMoveOn == ASSUME NoRequests, NEW t \in Threads, BrowserStep(t) PROVE MovesOn(t)
<1>1. CASE UNCHANGED call
    BY <1>1 DEF MovesOn
<1>2. CASE Return(t) \/ \E step : GoTo(t, step)
    BY <1>2, OpStays, NothingIsNamed DEF MovesOn, Return, GoTo, GoOn, NoRequests
<1>3. ASSUME NEW b, StartAuthorization(t, b) PROVE MovesOn(t)
  <2>1. PICK c : c = [op |-> "put", step |-> "evict", next |-> "count", victims |-> Old,
                      txn |-> [created_at |-> now, ua_binding |-> b]]
      OBVIOUS
  <2>2. Named(c)
      BY <2>1 DEF Named
  <2> QED BY <1>3, <2>1, <2>2 DEF StartAuthorization, Begin, MovesOn
<1>4. ASSUME NEW b, NEW state, NEW nonce, StartCallback(t, b, state, nonce) PROVE MovesOn(t)
  <2>1. PICK c : c = [op |-> "consume", step |-> "evict", next |-> "pop", victims |-> Old,
                      state |-> state, nonce |-> nonce, browser |-> b, started |-> now, txn |-> None]
      OBVIOUS
  <2>2. Named(c)
      BY <2>1 DEF Named
  <2> QED BY <1>4, <2>1, <2>2 DEF StartCallback, Begin, MovesOn
<1>5. CASE PopTransaction(t)
  <2>1. PICK txn : txn = pending[call[t].state]
      OBVIOUS
  <2>2. Named([call[t] EXCEPT !.txn = txn, !.step = "id token"])
      BY DEF NoRequests, Named
  <2> QED BY <1>2, <1>5, <2>1, <2>2 DEF PopTransaction, GoOn, MovesOn
<1>6. CASE EvictExpired(t) \/ CountPending(t) \/ InsertTransaction(t) \/ ValidateIdToken(t)
    BY <1>2, <1>6 DEF EvictExpired, CountPending, InsertTransaction, ValidateIdToken
<1> QED
    BY <1>1, <1>3, <1>4, <1>5, <1>6 DEF BrowserStep, BeginLink, CompleteLink, OneStep

LEMMA PasskeysMoveOn == ASSUME NoRequests, NEW t \in Threads, PasskeyStep(t) PROVE MovesOn(t)
<1>1. CASE UNCHANGED call
    BY <1>1 DEF MovesOn
<1>2. CASE Return(t) \/ \E step : GoTo(t, step)
    BY <1>2, OpStays, NothingIsNamed DEF MovesOn, Return, GoTo, GoOn, NoRequests
<1>3. ASSUME NEW u, NEW purpose \in {"register", "assert"}, NEW k, NEW n,
             StartPasskey(t, u, purpose, k, n)
      PROVE  MovesOn(t)
  <2>1. PICK c : c = [op |-> purpose, step |-> IF purpose = "register" THEN "add" ELSE "check",
                      u |-> u, x |-> challenge[<<u, purpose>>], k |-> k, n |-> n, owner |-> u]
      OBVIOUS
  <2>2. Named(c)
      BY <2>1 DEF Named
  <2> QED BY <1>3, <2>1, <2>2 DEF StartPasskey, Begin, MovesOn
<1>4. CASE ReadCredential(t)
  <2>1. PICK u : u = credential[call[t].k].user_id
      OBVIOUS
  <2>2. Named([call[t] EXCEPT !.step = "update", !.owner = u])
      BY DEF NoRequests, Named
  <2> QED BY <1>4, <2>1, <2>2 DEF ReadCredential, GoOn, MovesOn
<1> QED
    BY <1>1, <1>2, <1>3, <1>4
       DEF PasskeyStep, AddCredential, CheckAssertion, UpdateCounter, IssueChallenge, RefusePasskey,
           OneStep

LEMMA NoRequestsStay == ASSUME NoRequests, use # "requests", [Next]_vars PROVE NoRequests'
<1>1. ASSUME NEW t \in Threads, MovesOn(t) PROVE NoRequests'
  <2>1. CASE UNCHANGED call
      BY <2>1 DEF NoRequests
  <2>2. ASSUME NEW c, Named(c), call' = [call EXCEPT ![t] = c] PROVE NoRequests'
    <3>1. /\ call' = [u \in Threads |-> call'[u]] /\ call'[t] = c
          /\ \A u \in Threads : u # t => call'[u] = call[u]
        BY <2>2 DEF NoRequests
    <3>2. \A u \in Threads : Named(call'[u])
        BY <2>2, <3>1 DEF NoRequests
    <3> QED BY <3>1, <3>2 DEF NoRequests
  <2> QED BY <1>1, <2>1, <2>2 DEF MovesOn
<1>2. UNCHANGED call => NoRequests'
    BY DEF NoRequests
<1>3. Still \/ (\E nonce \in Ids : IssueIdToken(nonce)) => UNCHANGED call
    BY DEF Still, IssueIdToken, threads
<1> QED
    BY <1>1, <1>2, <1>3, UseSteps, SessionsMoveOn, VaultMovesOn, RefreshMovesOn, ExportsMoveOn,
       LoginsMoveOn, PasskeysMoveOn DEF BySessions, ByVault
-------------------------------------------------------------------------------
(* A request that has passed the limiter's first half came over TLS; one   *)
(* that asks for a slot has passed every check.  As long as no update of   *)
(* the counter was lost, one thread at the most is updating it, what it    *)
(* has read is what the counter says, and that is the slots in use.        *)
RequestCalls ==
    [op : {"request"}, step : {"count", "cap", "acquire", "work", "release", "decrement"},
     request : Requests, local : [start : Nat, count : Nat] \cup Int]
GuardCalls == {NoCall} \cup RequestCalls
GuardTypes ==
    /\ now \in Nat /\ call \in [Threads -> GuardCalls]
    /\ window \in [start : Nat, count : Nat] /\ active \in Int /\ lostSlot \in BOOLEAN

Passes(r) == r.secure /\ ~Oversized(r) /\ ~CsrfRefuses(r) /\ Authorized(r)
Checked(c) ==
    c.op = "request" =>
        /\ c.request.secure
        /\ IF c.step = "count" THEN c.local \in [start : Nat, count : Nat] ELSE Passes(c.request)
        /\ c.step \in {"acquire", "decrement"} => c.local \in Int
AllChecked == \A t \in Threads, c \in GuardCalls : call[t] = c => Checked(c)

InSlots(t) == call[t].op = "request" /\ call[t].step \in Slots
OneUpdates == \A t, u \in Threads : InSlots(t) /\ InSlots(u) => t = u
ReadIsCurrent ==
    \A t \in Threads :
        /\ Here(t, "acquire") => call[t].local = active /\ active < Cap
        /\ Here(t, "decrement") => call[t].local = active
SlotInv == ~lostSlot => OneUpdates /\ ReadIsCurrent /\ active = Cardinality(Holding) /\ active <= Cap
GuardInv == GuardTypes /\ AllChecked /\ SlotInv /\ ServedOrRefused
GuardsUnused == active = 0 /\ answer = NoAnswer /\ NoRequests
GInv == IF use = "requests" THEN GuardInv ELSE GuardsUnused

(* Every answer given is one the property allows.                          *)
LEMMA SilenceIsFine == ASSUME Silently PROVE ServedOrRefused'
BY DEF Silently, NoAnswer, None, ServedOrRefused
LEMMA NoSignalIsFine ==
    ASSUME NEW r \in Requests, CsrfRefuses(r), Reply(r, 403, FALSE) PROVE ServedOrRefused'
BY GuardsAssumption DEF Reply, CsrfRefuses, SameOrigin, ServedOrRefused
LEMMA ServingIsFine ==
    ASSUME NEW r \in Requests, Passes(r), Reply(r, 200, FALSE) PROVE ServedOrRefused'
BY GuardsAssumption
   DEF Reply, Passes, CsrfRefuses, SameOrigin, Oversized, Authorized, ServedOrRefused

LEMMA GuardCallMoves ==
    ASSUME GuardTypes, AllChecked, NEW t \in Threads, NEW c \in GuardCalls, Checked(c),
           call' = [call EXCEPT ![t] = c]
    PROVE  /\ call' \in [Threads -> GuardCalls] /\ AllChecked'
           /\ call'[t] = c /\ \A u \in Threads \ {t} : call'[u] = call[u]
BY DEF GuardTypes, AllChecked, Checked, Passes, Oversized, CsrfRefuses, Authorized

LEMMA NothingIsChecked == NoCall \in GuardCalls /\ Checked(NoCall) /\ NoCall.op # "request"
BY DEF NoCall, GuardCalls, Checked

(* The slots are the same if the thread that moves neither holds one nor   *)
(* updates the counter before and after.                                   *)
LEMMA SlotsStay ==
    ASSUME SlotInv, NEW t \in Threads, \A u \in Threads \ {t} : call'[u] = call[u],
           ~InSlots(t)', t \notin Holding, t \notin Holding', UNCHANGED <<active, lostSlot>>
    PROVE  SlotInv'
<1>1. Holding' = Holding
    BY DEF Holding, Under
<1>2. (\A u \in Threads : InSlots(u)' => InSlots(u)) /\ ~Here(t, "acquire")' /\ ~Here(t, "decrement")'
    BY DEF InSlots, Here, At, Slots
<1>3. OneUpdates => OneUpdates'
    BY <1>2 DEF OneUpdates
<1>4. ReadIsCurrent => ReadIsCurrent'
    BY <1>2 DEF ReadIsCurrent, Here, At
<1> QED BY <1>1, <1>3, <1>4 DEF SlotInv

LEMMA HoldingIsFinite == IsFiniteSet(Holding) /\ IsFiniteSet(Holding')
BY CallsAssumption, FS_Subset DEF Holding, Under

LEMMA ArriveKeeps ==
    ASSUME GuardInv, NEW t \in Threads, NEW r \in Requests, Arrive(t, r) PROVE GuardInv'
<1> USE DEF GuardInv
<1>1. CASE UNCHANGED call /\ Reply(r, 400, FALSE)
  <2>1. UNCHANGED <<now, window, active, lostSlot>>
      BY DEF Arrive
  <2>2. GuardTypes' /\ AllChecked' /\ SlotInv'
      BY <1>1, <2>1 DEF GuardTypes, AllChecked, Checked, Passes, Oversized, CsrfRefuses, Authorized,
                        SlotInv, OneUpdates, ReadIsCurrent, InSlots, Here, At, Holding, Under
  <2>3. ServedOrRefused'
      BY <1>1 DEF GuardInv, Reply, ServedOrRefused
  <2> QED BY <2>2, <2>3
<1>2. CASE r.secure /\ Silently /\ Begin(t, [op |-> "request", step |-> "count", request |-> r,
                                             local |-> Counted])
  <2>1. PICK w : w = Counted
      OBVIOUS
  <2>2. w \in [start : Nat, count : Nat]
      BY <2>1 DEF Counted, GuardTypes
  <2>3. PICK c : c = [op |-> "request", step |-> "count", request |-> r, local |-> w]
      OBVIOUS
  <2>4. c \in GuardCalls /\ Checked(c) /\ c.op = "request" /\ c.step = "count"
      BY <1>2, <2>2, <2>3 DEF GuardCalls, RequestCalls, Checked
  <2>5. call[t] = NoCall /\ call' = [call EXCEPT ![t] = c]
        /\ UNCHANGED <<now, window, active, lostSlot>>
      BY <1>2, <2>1, <2>3 DEF Begin, Arrive
  <2>6. /\ call' \in [Threads -> GuardCalls] /\ AllChecked'
        /\ call'[t] = c /\ \A u \in Threads \ {t} : call'[u] = call[u]
      BY <2>4, <2>5, GuardCallMoves
  <2>7. ~InSlots(t)' /\ t \notin Holding /\ t \notin Holding'
      BY <2>4, <2>5, <2>6 DEF InSlots, Slots, Holding, Under, NoCall
  <2>8. SlotInv'
      BY <2>5, <2>6, <2>7, SlotsStay
  <2>9. ServedOrRefused'
      BY <1>2, SilenceIsFine
  <2> QED BY <2>5, <2>6, <2>8, <2>9 DEF GuardTypes
<1> QED BY <1>1, <1>2, GuardsAssumption DEF Arrive, Plaintext, OneStep

(* A request goes on to another step.                                      *)
LEMMA RequestGoesOn ==
    ASSUME NEW c \in RequestCalls, NEW d,
           NEW step \in {"count", "cap", "acquire", "work", "release", "decrement"},
           d = [c EXCEPT !.step = step]
    PROVE  /\ d \in GuardCalls /\ d.op = "request" /\ d.step = step /\ d.request = c.request
           /\ d.local = c.local
BY DEF GuardCalls, RequestCalls

(* What a thread at a step has in hand.                                    *)
LEMMA AtStep ==
    ASSUME GuardInv, NEW t \in Threads, NEW step, Here(t, step)
    PROVE  \E c \in RequestCalls :
               /\ c = call[t] /\ c.op = "request" /\ c.step = step /\ Checked(c)
               /\ c.request \in Requests
<1>1. PICK c \in GuardCalls : c = call[t]
    BY DEF GuardInv, GuardTypes
<1>2. c.op = "request" /\ c.step = step /\ Checked(c)
    BY <1>1 DEF GuardInv, Here, At, AllChecked
<1>3. c \in RequestCalls /\ c.request \in Requests
    BY <1>2, NothingIsChecked DEF GuardCalls, RequestCalls
<1> QED BY <1>1, <1>2, <1>3

LEMMA CountKeeps == ASSUME GuardInv, NEW t \in Threads, Count(t) PROVE GuardInv'
<1> USE DEF GuardInv
<1>1. PICK c \in RequestCalls : /\ c = call[t] /\ c.op = "request" /\ c.step = "count" /\ Checked(c)
                                /\ c.request \in Requests
    BY AtStep DEF Count
<1>2. window' = c.local /\ c.local \in [start : Nat, count : Nat] /\ UNCHANGED <<now, active, lostSlot>>
    BY <1>1 DEF Checked, Count
<1>3. t \notin Holding
    BY <1>1 DEF Holding
<1>4. ASSUME NEW d \in GuardCalls, Checked(d), call' = [call EXCEPT ![t] = d], ServedOrRefused',
             d.op = "request" => d.step = "cap"
      PROVE  GuardInv'
  <2>1. /\ call' \in [Threads -> GuardCalls] /\ AllChecked'
        /\ call'[t] = d /\ \A u \in Threads \ {t} : call'[u] = call[u]
      BY <1>4, GuardCallMoves
  <2>2. ~InSlots(t)' /\ t \notin Holding'
      BY <1>4, <2>1 DEF InSlots, Slots, Holding, Under
  <2>3. SlotInv'
      BY <1>2, <1>3, <2>1, <2>2, SlotsStay
  <2> QED BY <1>2, <1>4, <2>1, <2>3 DEF GuardTypes
<1>5. Return(t) => call' = [call EXCEPT ![t] = NoCall]
    BY DEF Return, GoOn
<1>6. CASE Answer(t, 413) \/ Answer(t, 429) \/ Answer(t, 500)
  <2>1. Return(t)
      BY <1>6 DEF Answer
  <2>2. ServedOrRefused'
      BY <1>6 DEF GuardInv, Answer, Reply, ServedOrRefused
  <2> QED BY <1>4, <1>5, <2>1, <2>2, NothingIsChecked
<1>7. CASE Answer(t, 403) /\ CsrfRefuses(c.request)
  <2>1. Return(t) /\ Reply(c.request, 403, FALSE)
      BY <1>1, <1>7 DEF Answer
  <2>2. ServedOrRefused'
      BY <1>1, <1>7, <2>1, NoSignalIsFine
  <2> QED BY <1>4, <1>5, <2>1, <2>2, NothingIsChecked
<1>8. CASE Return(t) /\ Reply(c.request, DeniedStatus(c.request), TRUE)
  <2>1. DeniedStatus(c.request) \in {403, 404}
      BY DEF DeniedStatus
  <2>2. ServedOrRefused'
      BY <1>8, <2>1 DEF Reply, ServedOrRefused
  <2> QED BY <1>4, <1>5, <1>8, <2>2, NothingIsChecked
<1>9. CASE Passes(c.request) /\ GoTo(t, "cap") /\ Silently
  <2>1. PICK d : d = [c EXCEPT !.step = "cap"]
      OBVIOUS
  <2>2. d \in GuardCalls /\ d.op = "request" /\ d.step = "cap" /\ d.request = c.request
      BY <1>1, <1>2, <2>1, RequestGoesOn
  <2>3. Checked(d)
      BY <1>1, <1>9, <2>2 DEF Checked
  <2>4. call' = [call EXCEPT ![t] = d] /\ ServedOrRefused'
      BY <1>1, <1>9, <2>1, SilenceIsFine DEF GoTo, GoOn
  <2> QED BY <1>4, <2>2, <2>3, <2>4
<1>10. \/ Answer(t, 413) \/ Answer(t, 429) \/ Answer(t, 500)
       \/ Answer(t, 403) /\ CsrfRefuses(c.request)
       \/ Return(t) /\ Reply(c.request, DeniedStatus(c.request), TRUE)
       \/ Passes(c.request) /\ GoTo(t, "cap") /\ Silently
  <2>1. PICK r : r = call[t].request
      OBVIOUS
  <2>2. r = c.request /\ r.secure
      BY <1>1, <2>1 DEF Checked
  <2>3. Check(t) \/ Answer(t, 429)
      BY DEF Count
  <2>4. CASE Answer(t, 429) \/ Answer(t, 413) \/ Answer(t, 500)
      BY <2>4
  <2>5. Check(t) => IF Oversized(r) THEN Answer(t, 413)
                    ELSE IF CsrfRefuses(r) THEN Answer(t, 403)
                    ELSE IF Authorized(r) THEN GoTo(t, "cap") /\ Silently
                    ELSE (Return(t) /\ Reply(r, DeniedStatus(r), TRUE)) \/ Answer(t, 500)
      BY <2>1, Zenon DEF Check
  <2> QED BY <2>2, <2>3, <2>4, <2>5, Zenon DEF Passes
<1> QED BY <1>6, <1>7, <1>8, <1>9, <1>10

LEMMA ReadActiveKeeps == ASSUME GuardInv, NEW t \in Threads, ReadActive(t) PROVE GuardInv'
<1> USE DEF GuardInv
<1>1. PICK c \in RequestCalls : /\ c = call[t] /\ c.op = "request" /\ c.step = "cap" /\ Checked(c)
                                /\ c.request \in Requests
    BY AtStep DEF ReadActive
<1>2. UNCHANGED <<now, window, active>> /\ active \in Int /\ t \notin Holding
    BY <1>1 DEF ReadActive, GuardTypes, Holding
<1>3. CASE Answer(t, 429) /\ UNCHANGED lostSlot
  <2>1. call' = [call EXCEPT ![t] = NoCall] /\ Reply(c.request, 429, FALSE)
      BY <1>1, <1>3 DEF Answer, Return, GoOn
  <2>2. /\ call' \in [Threads -> GuardCalls] /\ AllChecked'
        /\ call'[t] = NoCall /\ \A u \in Threads \ {t} : call'[u] = call[u]
      BY <2>1, NothingIsChecked, GuardCallMoves
  <2>3. ~InSlots(t)' /\ t \notin Holding'
      BY <2>2, NothingIsChecked DEF InSlots, Holding, Under
  <2>4. SlotInv'
      BY <1>2, <1>3, <2>2, <2>3, SlotsStay
  <2>5. ServedOrRefused'
      BY <2>1 DEF Reply, ServedOrRefused
  <2> QED BY <1>2, <1>3, <2>2, <2>4, <2>5 DEF GuardTypes
<1>4. CASE active < Cap /\ Overlap(t) /\ Silently
           /\ GoOn(t, [call[t] EXCEPT !.step = "acquire", !.local = active])
  <2>1. PICK a : a = active
      OBVIOUS
  <2>2. PICK d : d = [c EXCEPT !.step = "acquire", !.local = a]
      OBVIOUS
  <2>3. /\ d \in GuardCalls /\ d.op = "request" /\ d.step = "acquire" /\ d.request = c.request
        /\ d.local = a
      BY <1>1, <1>2, <2>1, <2>2 DEF GuardCalls, RequestCalls
  <2>4. Checked(d)
      BY <1>1, <1>2, <2>1, <2>3 DEF Checked
  <2>5. call' = [call EXCEPT ![t] = d] /\ ServedOrRefused'
      BY <1>1, <1>4, <2>1, <2>2, SilenceIsFine DEF GoOn
  <2>6. /\ call' \in [Threads -> GuardCalls] /\ AllChecked'
        /\ call'[t] = d /\ \A u \in Threads \ {t} : call'[u] = call[u]
      BY <2>3, <2>4, <2>5, GuardCallMoves
  <2>7. Holding' = Holding
      BY <1>1, <2>3, <2>6 DEF Holding, Under
  <2>8. ~lostSlot' => ~lostSlot /\ \A u \in Threads \ {t} : ~InSlots(u)'
      BY <1>4, <2>6 DEF Overlap, Elsewhere, InSlots, Under
  <2>9. SlotInv'
    <3> SUFFICES ASSUME ~lostSlot'
                 PROVE  OneUpdates' /\ ReadIsCurrent' /\ active' = Cardinality(Holding)' /\ active' <= Cap
        BY DEF SlotInv
    <3>1. OneUpdates'
        BY <2>8 DEF OneUpdates
    <3>2. ReadIsCurrent'
      <4>1. \A u \in Threads \ {t} : ~Here(u, "acquire")' /\ ~Here(u, "decrement")'
          BY <2>8 DEF InSlots, Slots, Here, At
      <4>2. call'[t].local = active' /\ active' < Cap
          BY <1>2, <1>4, <2>1, <2>3, <2>6
      <4> QED BY <4>1, <4>2 DEF ReadIsCurrent
    <3> QED BY <1>2, <2>7, <2>8, <3>1, <3>2 DEF SlotInv
  <2>10. lostSlot' \in BOOLEAN
      BY <1>4 DEF Overlap
  <2> QED BY <1>2, <2>5, <2>6, <2>9, <2>10 DEF GuardTypes
<1> QED BY <1>2, <1>3, <1>4, GuardsAssumption DEF ReadActive

(* While one thread updates the counter the others have nothing in hand    *)
(* that depends on it.                                                     *)
LEMMA OthersAreElsewhere ==
    ASSUME SlotInv, ~lostSlot, NEW t \in Threads, InSlots(t),
           \A u \in Threads \ {t} : call'[u] = call[u]
    PROVE  /\ OneUpdates'
           /\ \A u \in Threads \ {t} : ~Here(u, "acquire")' /\ ~Here(u, "decrement")'
<1>1. \A u \in Threads \ {t} : ~InSlots(u)'
    BY DEF SlotInv, OneUpdates, InSlots
<1> QED BY <1>1 DEF OneUpdates, InSlots, Slots, Here, At

LEMMA AcquireKeeps == ASSUME GuardInv, NEW t \in Threads, Acquire(t) PROVE GuardInv'
<1> USE DEF GuardInv
<1>1. PICK c \in RequestCalls : /\ c = call[t] /\ c.op = "request" /\ c.step = "acquire" /\ Checked(c)
                                /\ c.request \in Requests
    BY AtStep DEF Acquire
<1>2. PICK d : d = [c EXCEPT !.step = "work"]
    OBVIOUS
<1>3. d \in GuardCalls /\ d.op = "request" /\ d.step = "work" /\ d.request = c.request
    BY <1>2, RequestGoesOn
<1>4. Checked(d) /\ c.local \in Int
    BY <1>1, <1>3 DEF Checked
<1>5. /\ call' = [call EXCEPT ![t] = d] /\ active' = c.local + 1 /\ active' \in Int
      /\ UNCHANGED <<now, window, lostSlot>> /\ Silently
    BY <1>1, <1>2, <1>4 DEF Acquire, GoTo, GoOn
<1>6. /\ call' \in [Threads -> GuardCalls] /\ AllChecked'
      /\ call'[t] = d /\ \A u \in Threads \ {t} : call'[u] = call[u]
    BY <1>3, <1>4, <1>5, GuardCallMoves
<1>7. SlotInv'
  <2> SUFFICES ASSUME ~lostSlot
               PROVE  OneUpdates' /\ ReadIsCurrent' /\ active' = Cardinality(Holding') /\ active' <= Cap
      BY <1>5 DEF SlotInv
  <2>1. InSlots(t) /\ c.local = active /\ active < Cap
      BY <1>1 DEF InSlots, Slots, SlotInv, ReadIsCurrent, Here, At
  <2>2. ~Here(t, "acquire")' /\ ~Here(t, "decrement")'
      BY <1>3, <1>6 DEF Here, At
  <2>3. OneUpdates' /\ ReadIsCurrent'
      BY <1>6, <2>1, <2>2, OthersAreElsewhere DEF ReadIsCurrent
  <2>4. t \notin Holding /\ Holding' = Holding \cup {t}
      BY <1>1, <1>3, <1>6 DEF Holding, Under
  <2>5. Cardinality(Holding') = Cardinality(Holding) + 1
      BY <2>4, HoldingIsFinite, FS_AddElement
  <2>6. active = Cardinality(Holding)
      BY DEF SlotInv
  <2> QED BY <1>4, <1>5, <2>1, <2>3, <2>5, <2>6, GuardsAssumption
<1> QED BY <1>5, <1>6, <1>7, SilenceIsFine DEF GuardTypes

LEMMA WorkKeeps == ASSUME GuardInv, NEW t \in Threads, Work(t) PROVE GuardInv'
<1> USE DEF GuardInv
<1>1. PICK c \in RequestCalls : /\ c = call[t] /\ c.op = "request" /\ c.step = "work" /\ Checked(c)
                                /\ c.request \in Requests
    BY AtStep DEF Work
<1>2. /\ UNCHANGED <<now, window, active>> /\ lostSlot' \in BOOLEAN /\ t \in Holding
      /\ Passes(c.request)
    BY <1>1 DEF Work, Overlap, Holding, Under, Checked
<1>3. ~lostSlot' => ~lostSlot /\ active > 0 /\ \A u \in Threads \ {t} : ~InSlots(u)
  <2>1. ~lostSlot' => ~lostSlot /\ \A u \in Threads \ {t} : ~InSlots(u)
      BY DEF Work, Overlap, Elsewhere, InSlots, Under
  <2>2. Cardinality(Holding) \in Nat /\ Cardinality(Holding) # 0
      BY <1>2, HoldingIsFinite, FS_CardinalityType, FS_EmptySet
  <2> QED BY <2>1, <2>2 DEF SlotInv
<1>4. CASE active > 0 /\ GoTo(t, "release") /\ Silently
  <2>1. PICK d : d = [c EXCEPT !.step = "release"]
      OBVIOUS
  <2>2. d \in GuardCalls /\ d.op = "request" /\ d.step = "release" /\ d.request = c.request
      BY <2>1, RequestGoesOn
  <2>3. Checked(d)
      BY <1>1, <2>2 DEF Checked
  <2>4. call' = [call EXCEPT ![t] = d]
      BY <1>1, <1>4, <2>1 DEF GoTo, GoOn
  <2>5. /\ call' \in [Threads -> GuardCalls] /\ AllChecked'
        /\ call'[t] = d /\ \A u \in Threads \ {t} : call'[u] = call[u]
      BY <2>2, <2>3, <2>4, GuardCallMoves
  <2>6. Holding' = Holding
      BY <1>1, <2>2, <2>5 DEF Holding, Under
  <2>7. SlotInv'
    <3> SUFFICES ASSUME ~lostSlot'
                 PROVE  OneUpdates' /\ ReadIsCurrent' /\ active' = Cardinality(Holding') /\ active' <= Cap
        BY DEF SlotInv
    <3>1. \A u \in Threads \ {t} : ~InSlots(u)'
        BY <1>3, <2>5 DEF InSlots
    <3>2. OneUpdates'
        BY <3>1 DEF OneUpdates
    <3>3. \A u \in Threads : ~Here(u, "acquire")' /\ ~Here(u, "decrement")'
        BY <2>2, <2>5, <3>1 DEF InSlots, Slots, Here, At
    <3>4. ReadIsCurrent'
        BY <3>3 DEF ReadIsCurrent
    <3> QED BY <1>2, <1>3, <2>6, <3>2, <3>4 DEF SlotInv
  <2> QED BY <1>2, <1>4, <2>5, <2>7, SilenceIsFine DEF GuardTypes
<1>5. CASE ~(active > 0) /\ \E status \in {200, 500} : Answer(t, status)
  <2>1. /\ call' = [call EXCEPT ![t] = NoCall]
        /\ Reply(c.request, 200, FALSE) \/ Reply(c.request, 500, FALSE)
      BY <1>1, <1>5 DEF Answer, Return, GoOn, Reply
  <2>2. call' \in [Threads -> GuardCalls] /\ AllChecked'
      BY <2>1, NothingIsChecked, GuardCallMoves
  <2>3. SlotInv'
      BY <1>3, <1>5 DEF SlotInv
  <2>4. ServedOrRefused'
    <3>1. CASE Reply(c.request, 200, FALSE)
        BY <1>1, <1>2, <3>1, ServingIsFine
    <3>2. CASE Reply(c.request, 500, FALSE)
        BY <3>2 DEF Reply, ServedOrRefused
    <3> QED BY <2>1, <3>1, <3>2
  <2> QED BY <1>2, <2>2, <2>3, <2>4 DEF GuardTypes
<1> QED BY <1>4, <1>5 DEF Work

LEMMA ReadToReleaseKeeps == ASSUME GuardInv, NEW t \in Threads, ReadToRelease(t) PROVE GuardInv'
<1> USE DEF GuardInv
<1>1. PICK c \in RequestCalls : /\ c = call[t] /\ c.op = "request" /\ c.step = "release" /\ Checked(c)
                                /\ c.request \in Requests
    BY AtStep DEF ReadToRelease
<1>2. PICK a \in Int : a = active
    BY DEF GuardTypes
<1>3. PICK d : d = [c EXCEPT !.step = "decrement", !.local = a]
    OBVIOUS
<1>4. /\ d \in GuardCalls /\ d.op = "request" /\ d.step = "decrement" /\ d.request = c.request
      /\ d.local = a
    BY <1>1, <1>2, <1>3 DEF GuardCalls, RequestCalls
<1>5. Checked(d)
    BY <1>1, <1>2, <1>4 DEF Checked
<1>6. /\ call' = [call EXCEPT ![t] = d] /\ UNCHANGED <<now, window, active, lostSlot>> /\ Silently
    BY <1>1, <1>2, <1>3 DEF ReadToRelease, GoOn
<1>7. /\ call' \in [Threads -> GuardCalls] /\ AllChecked'
      /\ call'[t] = d /\ \A u \in Threads \ {t} : call'[u] = call[u]
    BY <1>4, <1>5, <1>6, GuardCallMoves
<1>8. SlotInv'
  <2> SUFFICES ASSUME ~lostSlot
               PROVE  OneUpdates' /\ ReadIsCurrent' /\ active' = Cardinality(Holding') /\ active' <= Cap
      BY <1>6 DEF SlotInv
  <2>1. InSlots(t)
      BY <1>1 DEF InSlots, Slots
  <2>2. call'[t].local = active' /\ ~Here(t, "acquire")'
      BY <1>2, <1>4, <1>6, <1>7 DEF Here, At
  <2>3. OneUpdates' /\ ReadIsCurrent'
      BY <1>7, <2>1, <2>2, OthersAreElsewhere DEF ReadIsCurrent
  <2>4. Holding' = Holding
      BY <1>1, <1>4, <1>7 DEF Holding, Under
  <2> QED BY <1>6, <2>3, <2>4 DEF SlotInv
<1> QED BY <1>6, <1>7, <1>8, SilenceIsFine DEF GuardTypes

LEMMA DecrementKeeps == ASSUME GuardInv, NEW t \in Threads, Decrement(t) PROVE GuardInv'
<1> USE DEF GuardInv
<1>1. PICK c \in RequestCalls : /\ c = call[t] /\ c.op = "request" /\ c.step = "decrement"
                                /\ Checked(c) /\ c.request \in Requests
    BY AtStep DEF Decrement
<1>2. Passes(c.request) /\ c.local \in Int
    BY <1>1 DEF Checked
<1>3. /\ call' = [call EXCEPT ![t] = NoCall] /\ active' = c.local - 1 /\ active' \in Int
      /\ UNCHANGED <<now, window, lostSlot>>
      /\ Reply(c.request, 200, FALSE) \/ Reply(c.request, 500, FALSE)
  <2>1. \E status \in {200, 500} : Return(t) /\ Reply(c.request, status, FALSE)
      BY <1>1 DEF Decrement, Answer, Return, GoOn, Reply
  <2>2. Return(t) /\ (Reply(c.request, 200, FALSE) \/ Reply(c.request, 500, FALSE))
      BY <2>1 DEF Return, GoOn, Reply
  <2>3. active' = c.local - 1 /\ UNCHANGED <<now, window, lostSlot>>
      BY <1>1 DEF Decrement
  <2>4. call' = [call EXCEPT ![t] = NoCall] /\ active' \in Int
      BY <1>2, <2>2, <2>3 DEF Return, GoOn
  <2> QED BY <2>2, <2>3, <2>4
<1>4. /\ call' \in [Threads -> GuardCalls] /\ AllChecked'
      /\ call'[t] = NoCall /\ \A u \in Threads \ {t} : call'[u] = call[u]
    BY <1>3, NothingIsChecked, GuardCallMoves
<1>5. SlotInv'
  <2> SUFFICES ASSUME ~lostSlot
               PROVE  OneUpdates' /\ ReadIsCurrent' /\ active' = Cardinality(Holding') /\ active' <= Cap
      BY <1>3 DEF SlotInv
  <2>1. InSlots(t) /\ c.local = active
      BY <1>1 DEF InSlots, Slots, SlotInv, ReadIsCurrent, Here, At
  <2>2. ~Here(t, "acquire")' /\ ~Here(t, "decrement")'
      BY <1>4, NothingIsChecked DEF Here, At
  <2>3. OneUpdates' /\ ReadIsCurrent'
      BY <1>4, <2>1, <2>2, OthersAreElsewhere DEF ReadIsCurrent
  <2>4. t \in Holding /\ Holding' = Holding \ {t}
      BY <1>1, <1>4, NothingIsChecked DEF Holding, Under
  <2>5. Cardinality(Holding') = Cardinality(Holding) - 1
      BY <2>4, HoldingIsFinite, FS_RemoveElement
  <2>6. active = Cardinality(Holding) /\ active <= Cap
      BY DEF SlotInv
  <2> QED BY <1>2, <1>3, <2>1, <2>3, <2>5, <2>6, GuardsAssumption
<1>6. ServedOrRefused'
  <2>1. CASE Reply(c.request, 200, FALSE)
      BY <1>1, <1>2, <2>1, ServingIsFine
  <2>2. CASE Reply(c.request, 500, FALSE)
      BY <2>2 DEF Reply, ServedOrRefused
  <2> QED BY <1>3, <2>1, <2>2
<1> QED BY <1>3, <1>4, <1>5, <1>6 DEF GuardTypes

LEMMA GuardsKept == GInv /\ [Next]_vars => GInv'
<1> SUFFICES ASSUME GInv, [Next]_vars PROVE GInv'
    OBVIOUS
<1>1. CASE use # "requests"
  <2>1. GuardsUnused /\ use' = use /\ UNCHANGED guardVars
      BY <1>1, UseStays DEF GInv
  <2>2. NoRequests'
      BY <1>1, <2>1, NoRequestsStay DEF GuardsUnused
  <2> QED BY <1>1, <2>1, <2>2 DEF GInv, GuardsUnused, guardVars
<1>2. CASE use = "requests"
  <2>0. GuardInv /\ use' = use
      BY <1>2, UseStays DEF GInv
  <2>1. CASE Still
    <3>1. now' \in Nat /\ UNCHANGED <<call, window, active, lostSlot, answer>>
        BY <2>0, <2>1 DEF Still, guardVars, GuardInv, GuardTypes
    <3>2. GuardTypes' /\ AllChecked' /\ SlotInv' /\ ServedOrRefused'
        BY <2>0, <3>1
           DEF GuardInv, GuardTypes, AllChecked, Checked, Passes, Oversized, CsrfRefuses, Authorized,
               SlotInv, OneUpdates, ReadIsCurrent, InSlots, Here, At, Holding, Under, ServedOrRefused
    <3> QED BY <1>2, <2>0, <3>2 DEF GInv, GuardInv
  <2>2. ASSUME NEW t \in Threads, GuardStep(t) PROVE GInv'
    <3>1. GuardInv'
        BY <2>0, <2>2, ArriveKeeps, CountKeeps, ReadActiveKeeps, AcquireKeeps, WorkKeeps,
           ReadToReleaseKeeps, DecrementKeeps DEF GuardStep
    <3> QED BY <1>2, <2>0, <3>1 DEF GInv
  <2>3. Still \/ \E t \in Threads : GuardStep(t)
      BY <1>2, UseSteps DEF BySessions, ByVault
  <2> QED BY <2>1, <2>2, <2>3
<1> QED BY <1>1, <1>2

LEMMA GuardsStart == Init => GInv
<1> SUFFICES ASSUME Init PROVE GInv
    OBVIOUS
<1>1. /\ now = 1 /\ call = [t \in Threads |-> NoCall] /\ window = NoWindow /\ active = 0
      /\ answer = NoAnswer /\ lostSlot = FALSE
    BY DEF Init, GuardsInit
<1>2. GuardTypes
  <2>1. window \in [start : Nat, count : Nat]
      BY <1>1 DEF NoWindow, None
  <2>2. call \in [Threads -> GuardCalls] /\ now \in Nat /\ active \in Int
      BY <1>1, NothingIsChecked
  <2>3. lostSlot \in BOOLEAN
      BY <1>1
  <2> QED BY <2>1, <2>2, <2>3 DEF GuardTypes
<1>3. AllChecked
    BY <1>1, NothingIsChecked DEF AllChecked
<1>4. Holding = {} /\ \A t \in Threads : \A step : ~InSlots(t) /\ ~Here(t, step)
    BY <1>1, NothingIsChecked DEF Holding, Under, InSlots, Here, At
<1>5. SlotInv
    BY <1>1, <1>4, FS_EmptySet, GuardsAssumption DEF SlotInv, OneUpdates, ReadIsCurrent
<1>6. ServedOrRefused
    BY <1>1 DEF ServedOrRefused, NoAnswer, None
<1>7. NoRequests
    BY <1>1, NothingIsNamed DEF NoRequests
<1> QED BY <1>1, <1>2, <1>3, <1>5, <1>6, <1>7 DEF GInv, GuardInv, GuardsUnused

(* concurrency_guard: as long as no two updates of the counter overlapped  *)
(* it is the number of slots in use and at most the cap, whatever the work *)
(* does.                                                                   *)
THEOREM SlotsAreCounted == Spec => []SlotsAreAccountedFor
<1>1. GInv => SlotsAreAccountedFor
  <2>1. CASE use = "requests"
      BY <2>1 DEF GInv, GuardInv, SlotInv, SlotsAreAccountedFor
  <2>2. ASSUME GInv, use # "requests" PROVE SlotsAreAccountedFor
    <3>1. active = 0 /\ NoRequests
        BY <2>2 DEF GInv, GuardsUnused
    <3>2. Holding = {}
        BY <3>1 DEF NoRequests, Named, Holding, Under
    <3> QED BY <3>1, <3>2, FS_EmptySet, GuardsAssumption DEF SlotsAreAccountedFor
  <2> QED BY <2>1, <2>2
<1> QED BY <1>1, GuardsStart, GuardsKept, PTL DEF Spec

(* The hooks and guards around a view: a request is served only over TLS,  *)
(* within the limits, with a CSRF signal if it changes state, and to a     *)
(* principal entitled to it; one refused for the principal is recorded.    *)
THEOREM RequestsAreGuarded == Spec => []ServedOrRefused
<1>1. GInv => ServedOrRefused
    BY DEF GInv, GuardInv, GuardsUnused, ServedOrRefused, NoAnswer, None
<1> QED BY <1>1, GuardsStart, GuardsKept, PTL DEF Spec
-------------------------------------------------------------------------------
(* The rate limiter.  A window w fits what was admitted if all of that     *)
(* came before its end, at most its count and at most the limit since its  *)
(* start, the request that opened it among them, and less than the limit   *)
(* so shortly before its start that one span can see both.  As long as no  *)
(* two requests counted themselves at once, the window that is stored or   *)
(* about to be stored fits, and no span sees twice the limit.              *)
Since(s) == {i \in DOMAIN admitted : s <= admitted[i]}
ShortlyBefore(s) == {i \in DOMAIN admitted : s - Window < admitted[i] /\ admitted[i] < s}
WindowFits(w) ==
    /\ w.start <= now /\ \A i \in DOMAIN admitted : admitted[i] < w.start + Window
    /\ IF w.start = None THEN admitted = <<>> ELSE \E i \in DOMAIN admitted : admitted[i] = w.start
    /\ Cardinality(Since(w.start)) <= w.count /\ Cardinality(Since(w.start)) <= MaxRequests
    /\ Cardinality(ShortlyBefore(w.start)) < MaxRequests
SpansBounded ==
    \A from \in Nat : Cardinality(AdmittedIn(from .. from + Window - 1)) < 2 * MaxRequests

OneCounts == \A t, u \in Threads : Here(t, "count") /\ Here(u, "count") => t = u
CountedFits == \A t \in Threads : Here(t, "count") => WindowFits(call[t].local)
StoredFits == (\A t \in Threads : ~Here(t, "count")) => WindowFits(window)
LimitInv ==
    /\ admitted \in Seq(Nat) /\ \A i \in DOMAIN admitted : admitted[i] <= now
    /\ now > 0 /\ lostCount \in BOOLEAN
    /\ ~lostCount /\ MaxRequests > 0 => OneCounts /\ CountedFits /\ StoredFits /\ SpansBounded
NothingAdmitted == admitted = <<>> /\ lostCount = FALSE
RateInv == IF use = "requests" THEN GuardInv /\ LimitInv ELSE GuardsUnused /\ NothingAdmitted

LEMMA AdmittedIsFinite ==
    ASSUME admitted \in Seq(Nat)
    PROVE  /\ IsFiniteSet(DOMAIN admitted)
           /\ \A s : IsFiniteSet(Since(s)) /\ IsFiniteSet(ShortlyBefore(s)) /\ IsFiniteSet(AdmittedIn(s))
<1>1. DOMAIN admitted = 1 .. Len(admitted) /\ Len(admitted) \in Nat
    OBVIOUS
<1>2. IsFiniteSet(DOMAIN admitted)
    BY <1>1, FS_Interval
<1> QED BY <1>2, FS_Subset DEF Since, ShortlyBefore, AdmittedIn

(* A span that reaches into a window that fits sees fewer than twice the   *)
(* limit: those shortly before the window, and those since its start.      *)
ReachingSpansBounded ==
    admitted \in Seq(Nat) =>
        \A w \in [start : Nat, count : Nat], from \in Nat :
            WindowFits(w) /\ w.start <= from + Window - 1
                => Cardinality(AdmittedIn(from .. from + Window - 1)) < 2 * MaxRequests
LEMMA ReachingSpan == ReachingSpansBounded
<1> SUFFICES ASSUME admitted \in Seq(Nat), NEW w \in [start : Nat, count : Nat], WindowFits(w),
                    NEW from \in Nat, w.start <= from + Window - 1
             PROVE  Cardinality(AdmittedIn(from .. from + Window - 1)) < 2 * MaxRequests
    BY DEF ReachingSpansBounded
<1> DEFINE S == AdmittedIn(from .. from + Window - 1)
           A == Since(w.start)
           B == ShortlyBefore(w.start)
<1>1. S \subseteq A \cup B
    BY GuardsAssumption DEF AdmittedIn, Since, ShortlyBefore
<1>2. IsFiniteSet(A) /\ IsFiniteSet(B) /\ IsFiniteSet(S)
    BY AdmittedIsFinite
<1>3. IsFiniteSet(A \cup B) /\ Cardinality(S) <= Cardinality(A \cup B)
    BY <1>1, <1>2, FS_Union, FS_Subset
<1>4. Cardinality(A \cup B) <= Cardinality(A) + Cardinality(B)
  <2>1. Cardinality(A \cup B) = Cardinality(A) + Cardinality(B) - Cardinality(A \cap B)
      BY <1>2, FS_Union
  <2>2. IsFiniteSet(A \cap B) /\ Cardinality(A \cap B) \in Nat
      BY <1>2, FS_Intersection, FS_CardinalityType
  <2>3. Cardinality(A) \in Nat /\ Cardinality(B) \in Nat
      BY <1>2, FS_CardinalityType
  <2> HIDE DEF A, B
  <2> QED BY <2>1, <2>2, <2>3
<1>5. Cardinality(A) <= MaxRequests /\ Cardinality(B) < MaxRequests
    BY DEF WindowFits
<1>6. /\ Cardinality(A) \in Nat /\ Cardinality(B) \in Nat
      /\ Cardinality(S) \in Nat /\ Cardinality(A \cup B) \in Nat
    BY <1>2, <1>3, FS_CardinalityType
<1> HIDE DEF S, A, B
<1>7. Cardinality(S) < 2 * MaxRequests
    BY <1>3, <1>4, <1>5, <1>6, GuardsAssumption
<1> QED BY <1>7 DEF S

(* A request is admitted now.                                              *)
LEMMA Admitting ==
    ASSUME admitted \in Seq(Nat), now \in Nat, \A i \in DOMAIN admitted : admitted[i] <= now,
           admitted' = Append(admitted, now)
    PROVE  /\ admitted' \in Seq(Nat) /\ \A i \in DOMAIN admitted' : admitted'[i] <= now
           /\ Len(admitted) + 1 \in DOMAIN admitted' /\ admitted'[Len(admitted) + 1] = now
           /\ Len(admitted) + 1 \notin DOMAIN admitted
           /\ DOMAIN admitted' = DOMAIN admitted \cup {Len(admitted) + 1}
           /\ \A i \in DOMAIN admitted : admitted'[i] = admitted[i]
OBVIOUS

LEMMA SinceGrows ==
    ASSUME admitted \in Seq(Nat), now \in Nat, \A i \in DOMAIN admitted : admitted[i] <= now,
           admitted' = Append(admitted, now), NEW s \in Nat, s <= now
    PROVE  /\ Cardinality(Since(s)') = Cardinality(Since(s)) + 1
           /\ ShortlyBefore(s)' = ShortlyBefore(s)
<1>1. Since(s)' = Since(s) \cup {Len(admitted) + 1} /\ Len(admitted) + 1 \notin Since(s)
    BY Admitting DEF Since
<1>2. Cardinality(Since(s)') = Cardinality(Since(s)) + 1
    BY <1>1, AdmittedIsFinite, FS_AddElement
<1>3. ShortlyBefore(s)' = ShortlyBefore(s)
    BY Admitting DEF ShortlyBefore
<1> QED BY <1>2, <1>3

(* The window a request is counted in fits if the one before it does.      *)
LEMMA CountedFitsToo ==
    ASSUME admitted \in Seq(Nat), now \in Nat, \A i \in DOMAIN admitted : admitted[i] <= now,
           window \in [start : Nat, count : Nat], WindowFits(window), now' = now, MaxRequests > 0,
           NEW w, w = Counted, now > 0,
           admitted' = IF w.count <= MaxRequests THEN Append(admitted, now) ELSE admitted
    PROVE  WindowFits(w)' /\ w \in [start : Nat, count : Nat]
<1>0. Cardinality(Since(window.start)) \in Nat
    BY AdmittedIsFinite, FS_CardinalityType
<1>1. CASE NewWindow
  <2>0. PICK n \in Nat : n = now
      OBVIOUS
  <2>1. w.start = n /\ w.count = 1 /\ w \in [start : Nat, count : Nat]
      BY <1>1, <2>0 DEF Counted
  <2>2. admitted' = Append(admitted, now)
      BY <2>1, GuardsAssumption
  <2>3. \A i \in DOMAIN admitted : admitted[i] < n
      BY <1>1, <2>0, GuardsAssumption DEF NewWindow, WindowFits, None
  <2>4. Since(n) = {}
      BY <2>3 DEF Since
  <2>5. /\ Cardinality(Since(n)') = Cardinality(Since(n)) + 1
        /\ ShortlyBefore(n)' = ShortlyBefore(n)
      BY <2>0, <2>2, SinceGrows
  <2>a. Cardinality(Since(n)') = 1
      BY <2>4, <2>5, FS_EmptySet
  <2>6. Cardinality(ShortlyBefore(n)) < MaxRequests
    <3>1. CASE admitted = <<>>
      <4>1. ShortlyBefore(n) = {}
          BY <3>1 DEF ShortlyBefore
      <4> QED BY <4>1, FS_EmptySet, GuardsAssumption
    <3>2. CASE window.start # None /\ n - window.start >= Window
      <4>1. PICK i \in DOMAIN admitted : admitted[i] = window.start
          BY <3>2 DEF WindowFits
      <4>2. ShortlyBefore(n) \subseteq Since(window.start) \ {i} /\ i \in Since(window.start)
          BY <3>2, <4>1, GuardsAssumption DEF ShortlyBefore, Since
      <4>3. /\ IsFiniteSet(Since(window.start) \ {i})
            /\ Cardinality(Since(window.start) \ {i}) = Cardinality(Since(window.start)) - 1
          BY <4>2, AdmittedIsFinite, FS_RemoveElement
      <4>4. Cardinality(ShortlyBefore(n)) <= Cardinality(Since(window.start) \ {i})
          BY <4>2, <4>3, FS_Subset
      <4>5. Cardinality(ShortlyBefore(n)) \in Nat
          BY AdmittedIsFinite, FS_CardinalityType
      <4> QED BY <1>0, <4>3, <4>4, <4>5, GuardsAssumption DEF WindowFits
    <3> QED BY <1>1, <2>0, <3>1, <3>2 DEF NewWindow, WindowFits
  <2>7. /\ \A i \in DOMAIN admitted' : admitted'[i] < n + Window
        /\ \E i \in DOMAIN admitted' : admitted'[i] = n
        /\ n # None
      BY <2>0, <2>2, Admitting, GuardsAssumption DEF None
  <2>8. /\ Cardinality(Since(n)') <= w.count /\ Cardinality(Since(n)') <= MaxRequests
        /\ Cardinality(ShortlyBefore(n)') < MaxRequests
      BY <2>1, <2>5, <2>6, <2>a, GuardsAssumption
  <2> QED BY <2>0, <2>1, <2>7, <2>8 DEF WindowFits
<1>2. CASE ~NewWindow
  <2>0. PICK s \in Nat : s = window.start
      OBVIOUS
  <2>1. /\ w.start = s /\ w.count = window.count + 1 /\ w \in [start : Nat, count : Nat]
        /\ s # None /\ now < s + Window
      BY <1>2, <2>0, GuardsAssumption DEF Counted, NewWindow
  <2>4. /\ s <= now /\ \E i \in DOMAIN admitted : admitted[i] = s
        /\ \A i \in DOMAIN admitted : admitted[i] < s + Window
        /\ Cardinality(Since(s)) <= window.count /\ Cardinality(Since(s)) <= MaxRequests
        /\ Cardinality(ShortlyBefore(s)) < MaxRequests /\ Cardinality(Since(s)) \in Nat
      BY <1>0, <2>0, <2>1 DEF WindowFits
  <2>2. CASE admitted' = admitted /\ ~(w.count <= MaxRequests)
    <3>1. Since(s)' = Since(s) /\ ShortlyBefore(s)' = ShortlyBefore(s)
        BY <2>2 DEF Since, ShortlyBefore
    <3> QED BY <2>1, <2>2, <2>4, <3>1, GuardsAssumption DEF WindowFits
  <2>3. CASE admitted' = Append(admitted, now) /\ w.count <= MaxRequests
    <3>1. /\ Cardinality(Since(s)') = Cardinality(Since(s)) + 1
          /\ ShortlyBefore(s)' = ShortlyBefore(s)
        BY <2>3, <2>4, SinceGrows
    <3>2. /\ \A i \in DOMAIN admitted' : admitted'[i] < s + Window
          /\ \E i \in DOMAIN admitted' : admitted'[i] = s
      <4>1. PICK i \in DOMAIN admitted : admitted[i] = s
          BY <2>4
      <4>2. i \in DOMAIN admitted' /\ admitted'[i] = s
          BY <2>3, <4>1, Admitting
      <4>3. ASSUME NEW j \in DOMAIN admitted' PROVE admitted'[j] < s + Window
          BY <2>1, <2>3, <2>4, Admitting
      <4> QED BY <4>2, <4>3
    <3>3. Cardinality(Since(s)') <= w.count /\ Cardinality(Since(s)') <= MaxRequests
        BY <2>1, <2>3, <2>4, <3>1, GuardsAssumption
    <3> QED BY <2>1, <2>4, <3>1, <3>2, <3>3 DEF WindowFits
  <2> QED BY <2>2, <2>3
<1> QED BY <1>1, <1>2

(* If the window counted in fits, the request admitted with it leaves no   *)
(* span with twice the limit.                                              *)
LEMMA SpansStayBounded ==
    ASSUME admitted \in Seq(Nat), admitted' \in Seq(Nat), now \in Nat, now' = now, SpansBounded,
           \A i \in DOMAIN admitted : admitted[i] <= now,
           NEW w \in [start : Nat, count : Nat], WindowFits(w)',
           admitted' = admitted \/ admitted' = Append(admitted, now)
    PROVE  SpansBounded'
<1> SUFFICES ASSUME NEW from \in Nat
             PROVE  Cardinality(AdmittedIn(from .. from + Window - 1)') < 2 * MaxRequests
    BY DEF SpansBounded
<1>1. CASE w.start <= from + Window - 1
  <2>1. ReachingSpansBounded'
      BY ReachingSpan, PTL
  <2> QED BY <1>1, <2>1 DEF ReachingSpansBounded
<1>2. CASE ~(w.start <= from + Window - 1)
  <2>1. w.start <= now
      BY DEF WindowFits
  <2>2. AdmittedIn(from .. from + Window - 1)' = AdmittedIn(from .. from + Window - 1)
    <3>1. CASE admitted' = admitted
        BY <3>1 DEF AdmittedIn
    <3>2. CASE admitted' = Append(admitted, now)
        BY <1>2, <2>1, <3>2, Admitting, GuardsAssumption DEF AdmittedIn
    <3> QED BY <3>1, <3>2
  <2> QED BY <2>2 DEF SpansBounded
<1> QED BY <1>1, <1>2

LEMMA LimitKeptByArrive ==
    ASSUME GuardInv, LimitInv, NEW t \in Threads, NEW r \in Requests, Arrive(t, r)
    PROVE  LimitInv'
<1>1. CASE UNCHANGED call /\ UNCHANGED <<admitted, lostCount>>
  <2>1. UNCHANGED <<now, window>>
      BY DEF Arrive
  <2> QED BY <1>1, <2>1
     DEF LimitInv, OneCounts, CountedFits, StoredFits, SpansBounded, WindowFits, Since,
         ShortlyBefore, AdmittedIn, Here, At
<1>2. CASE r.secure
  <2>1. PICK w : w = Counted
      OBVIOUS
  <2>2. PICK c : c = [op |-> "request", step |-> "count", request |-> r, local |-> w]
      OBVIOUS
  <2>3. /\ call[t] = NoCall /\ call' = [call EXCEPT ![t] = c] /\ UNCHANGED <<now, window>>
        /\ lostCount' = (lostCount \/ Elsewhere(t, {"count"}))
        /\ admitted' = IF w.count <= MaxRequests THEN Append(admitted, now) ELSE admitted
      BY <1>2, <2>1, <2>2, GuardsAssumption DEF Arrive, Plaintext, Begin
  <2>4. /\ admitted \in Seq(Nat) /\ now \in Nat /\ window \in [start : Nat, count : Nat]
        /\ \A i \in DOMAIN admitted : admitted[i] <= now
      BY DEF LimitInv, GuardInv, GuardTypes
  <2>5. admitted' \in Seq(Nat) /\ \A i \in DOMAIN admitted' : admitted'[i] <= now'
    <3>1. CASE admitted' = admitted
        BY <2>3, <2>4, <3>1
    <3>2. CASE admitted' = Append(admitted, now)
        BY <2>3, <2>4, <3>2, Admitting
    <3> QED BY <2>3, <3>1, <3>2
  <2>6. now > 0 /\ lostCount' \in BOOLEAN
      BY <2>3 DEF LimitInv
  <2>7. ASSUME ~lostCount', MaxRequests > 0
        PROVE  OneCounts' /\ CountedFits' /\ StoredFits' /\ SpansBounded'
    <3>1. ~lostCount /\ ~Elsewhere(t, {"count"})
        BY <2>3, <2>7 DEF LimitInv
    <3>2. \A u \in Threads : ~Here(u, "count")
        BY <2>3, <3>1 DEF Elsewhere, Under, Here, At, NoCall
    <3>3. WindowFits(window) /\ SpansBounded
        BY <2>7, <3>1, <3>2 DEF LimitInv, StoredFits
    <3>4. WindowFits(w)' /\ w \in [start : Nat, count : Nat]
        BY <2>1, <2>3, <2>4, <2>6, <2>7, <3>3, CountedFitsToo
    <3>5. SpansBounded'
        BY <2>3, <2>4, <2>5, <3>3, <3>4, SpansStayBounded
    <3>6. call'[t] = c /\ \A u \in Threads \ {t} : call'[u] = call[u]
        BY <2>3 DEF GuardInv, GuardTypes
    <3>7. Here(t, "count")' /\ \A u \in Threads : Here(u, "count")' => u = t
        BY <2>2, <3>2, <3>6 DEF Here, At
    <3>8. OneCounts' /\ StoredFits'
        BY <3>7 DEF OneCounts, StoredFits
    <3>9. CountedFits'
        BY <2>2, <3>4, <3>6, <3>7 DEF CountedFits
    <3> QED BY <3>5, <3>8, <3>9
  <2> QED BY <2>3, <2>5, <2>6, <2>7 DEF LimitInv
<1> QED BY <1>1, <1>2, GuardsAssumption DEF Arrive, Plaintext, OneStep

(* A thread that counted itself has stored its window.                     *)
LEMMA LimitKeptByCount ==
    ASSUME GuardInv, LimitInv, NEW t \in Threads, Count(t) PROVE LimitInv'
<1>1. PICK c \in RequestCalls : c = call[t] /\ c.step = "count"
    BY AtStep DEF Count
<1>2. window' = c.local /\ UNCHANGED <<now, admitted, lostCount>> /\ Here(t, "count")
    BY <1>1 DEF Count
<1>3. PICK d : call' = [call EXCEPT ![t] = d] /\ d.step # "count"
  <2>1. Return(t) \/ GoTo(t, "cap")
      BY DEF Count, Check, Answer
  <2>2. CASE Return(t)
    <3>1. NoCall.step # "count"
        BY DEF NoCall
    <3> QED BY <2>2, <3>1 DEF Return, GoOn
  <2>3. CASE GoTo(t, "cap")
    <3>1. [call[t] EXCEPT !.step = "cap"].step # "count"
        BY <1>1 DEF RequestCalls
    <3> QED BY <2>3, <3>1 DEF GoTo, GoOn
  <2> QED BY <2>1, <2>2, <2>3
<1>4. call'[t] = d /\ \A u \in Threads \ {t} : call'[u] = call[u]
    BY <1>3 DEF GuardInv, GuardTypes
<1>5. ASSUME ~lostCount, MaxRequests > 0
      PROVE  OneCounts' /\ CountedFits' /\ StoredFits' /\ SpansBounded'
  <2>1. OneCounts /\ CountedFits /\ SpansBounded
      BY <1>5 DEF LimitInv
  <2>2. \A u \in Threads : ~Here(u, "count")'
      BY <1>2, <1>3, <1>4, <2>1 DEF OneCounts, Here, At
  <2>3. WindowFits(window)'
      BY <1>1, <1>2, <2>1 DEF CountedFits, WindowFits, Since, ShortlyBefore
  <2>4. SpansBounded'
      BY <1>2, <2>1 DEF SpansBounded, AdmittedIn
  <2> QED BY <2>2, <2>3, <2>4 DEF OneCounts, CountedFits, StoredFits
<1> QED BY <1>2, <1>5 DEF LimitInv

(* The other steps of a request leave the limiter alone.                   *)
LEMMA LimitKeptElsewhere ==
    ASSUME GuardInv, LimitInv, now' \in {now, now + 1}, UNCHANGED <<window, admitted, lostCount>>,
           \A u \in Threads : \/ call'[u] = call[u]
                              \/ ~Here(u, "count") /\ ~Here(u, "count")'
    PROVE  LimitInv'
<1>1. now \in Nat
    BY DEF GuardInv, GuardTypes
<1>2. \A u \in Threads : Here(u, "count")' <=> Here(u, "count")
    BY DEF Here, At
<1>3. \A u \in Threads : Here(u, "count") => call'[u] = call[u]
    OBVIOUS
<1>4. \A w \in [start : Nat, count : Nat] : WindowFits(w) => WindowFits(w)'
    BY <1>1 DEF WindowFits, Since, ShortlyBefore
<1>5. \A u \in Threads : Here(u, "count") => call[u].local \in [start : Nat, count : Nat]
  <2> SUFFICES ASSUME NEW u \in Threads, Here(u, "count")
               PROVE  call[u].local \in [start : Nat, count : Nat]
      OBVIOUS
  <2>1. PICK c \in RequestCalls : c = call[u] /\ c.op = "request" /\ c.step = "count" /\ Checked(c)
      BY AtStep
  <2> QED BY <2>1 DEF Checked
<1>6. window \in [start : Nat, count : Nat]
    BY DEF GuardInv, GuardTypes
<1>7. OneCounts => OneCounts'
    BY <1>2 DEF OneCounts
<1>8. CountedFits => CountedFits'
    BY <1>2, <1>3, <1>4, <1>5 DEF CountedFits
<1>9. StoredFits => StoredFits'
    BY <1>2, <1>4, <1>6 DEF StoredFits
<1>10. SpansBounded => SpansBounded'
    BY DEF SpansBounded, AdmittedIn
<1>11. now' > 0 /\ admitted' \in Seq(Nat) /\ \A i \in DOMAIN admitted' : admitted'[i] <= now'
    BY <1>1 DEF LimitInv
<1> QED BY <1>7, <1>8, <1>9, <1>10, <1>11 DEF LimitInv

LEMMA OtherGuardSteps ==
    ASSUME GuardInv, NEW t \in Threads,
           ReadActive(t) \/ Acquire(t) \/ Work(t) \/ ReadToRelease(t) \/ Decrement(t)
    PROVE  /\ UNCHANGED <<now, window, admitted, lostCount>>
           /\ \A u \in Threads : \/ call'[u] = call[u]
                                 \/ ~Here(u, "count") /\ ~Here(u, "count")'
<1>1. UNCHANGED <<now, window, admitted, lostCount>>
    BY DEF ReadActive, Acquire, Work, ReadToRelease, Decrement
<1>2. PICK step \in {"cap", "acquire", "work", "release", "decrement"} : Here(t, step)
    BY DEF ReadActive, Acquire, Work, ReadToRelease, Decrement
<1>3. PICK c \in RequestCalls : c = call[t] /\ c.step = step
    BY <1>2, AtStep
<1>4. PICK d : call' = [call EXCEPT ![t] = d] /\ d.step # "count"
  <2>1. ASSUME NEW s, NEW l, s # "count" PROVE [c EXCEPT !.step = s, !.local = l].step # "count"
      BY <2>1 DEF RequestCalls
  <2>2. ASSUME NEW s, s # "count" PROVE [c EXCEPT !.step = s].step # "count"
      BY <2>2 DEF RequestCalls
  <2>3. CASE Return(t)
    <3>1. NoCall.step # "count"
        BY DEF NoCall
    <3> QED BY <2>3, <3>1 DEF Return, GoOn
  <2>4. CASE GoTo(t, "work") \/ GoTo(t, "release")
    <3>1. PICK s \in {"work", "release"} : call' = [call EXCEPT ![t] = [c EXCEPT !.step = s]]
        BY <1>3, <2>4 DEF GoTo, GoOn
    <3> QED BY <3>1, <2>2
  <2>5. CASE \/ GoOn(t, [call[t] EXCEPT !.step = "acquire", !.local = active])
             \/ GoOn(t, [call[t] EXCEPT !.step = "decrement", !.local = active])
    <3>1. \/ call' = [call EXCEPT ![t] = [c EXCEPT !.step = "acquire", !.local = active]]
          \/ call' = [call EXCEPT ![t] = [c EXCEPT !.step = "decrement", !.local = active]]
        BY <1>3, <2>5 DEF GoOn
    <3>2. PICK l : l = active
        OBVIOUS
    <3> QED BY <2>1, <3>1, <3>2
  <2> QED
      BY <2>3, <2>4, <2>5 DEF ReadActive, Acquire, Work, ReadToRelease, Decrement, Answer
<1>5. call'[t] = d /\ \A u \in Threads \ {t} : call'[u] = call[u]
    BY <1>4 DEF GuardInv, GuardTypes
<1>6. ~Here(t, "count") /\ ~Here(t, "count")'
    BY <1>2, <1>4, <1>5 DEF Here, At
<1> QED BY <1>1, <1>5, <1>6

LEMMA RateKept == GInv /\ RateInv /\ [Next]_vars => RateInv'
<1> SUFFICES ASSUME GInv, RateInv, [Next]_vars PROVE RateInv'
    OBVIOUS
<1>0. GInv' /\ use' = use
    BY GuardsKept, UseStays
<1>1. CASE use # "requests"
    BY <1>0, <1>1, UseStays DEF RateInv, GInv, NothingAdmitted, guardVars
<1>2. CASE use = "requests"
  <2>0. GuardInv /\ GuardInv' /\ LimitInv
      BY <1>0, <1>2 DEF GInv, RateInv
  <2>1. CASE Still
    <3>1. now' \in {now, now + 1} /\ UNCHANGED <<call, window, admitted, lostCount>>
        BY <2>1 DEF Still, guardVars
    <3>2. LimitInv'
        BY <2>0, <3>1, LimitKeptElsewhere
    <3> QED BY <1>0, <1>2, <2>0, <3>2 DEF RateInv
  <2>2. ASSUME NEW t \in Threads, GuardStep(t) PROVE RateInv'
    <3>1. ASSUME ReadActive(t) \/ Acquire(t) \/ Work(t) \/ ReadToRelease(t) \/ Decrement(t)
          PROVE  LimitInv'
      <4>1. now' \in {now, now + 1} /\ UNCHANGED <<window, admitted, lostCount>>
          BY <2>0, <3>1, OtherGuardSteps
      <4> QED BY <2>0, <3>1, <4>1, OtherGuardSteps, LimitKeptElsewhere
    <3>2. LimitInv'
        BY <2>0, <2>2, <3>1, LimitKeptByArrive, LimitKeptByCount DEF GuardStep
    <3> QED BY <1>0, <1>2, <2>0, <3>2 DEF RateInv
  <2>3. Still \/ \E t \in Threads : GuardStep(t)
      BY <1>2, UseSteps DEF BySessions, ByVault
  <2> QED BY <2>1, <2>2, <2>3
<1> QED BY <1>1, <1>2

LEMMA RateStarts == Init => RateInv
<1> SUFFICES ASSUME Init PROVE RateInv
    OBVIOUS
<1>1. GInv /\ now = 1 /\ call = [t \in Threads |-> NoCall] /\ window = NoWindow
      /\ admitted = <<>> /\ lostCount = FALSE
    BY GuardsStart DEF Init, GuardsInit
<1>2. admitted \in Seq(Nat) /\ (\A i \in DOMAIN admitted : admitted[i] <= now) /\ now > 0
    BY <1>1
<1>3. (\A s : Since(s) = {} /\ ShortlyBefore(s) = {} /\ AdmittedIn(s) = {}) /\ Cardinality({}) = 0
    BY <1>1, FS_EmptySet DEF Since, ShortlyBefore, AdmittedIn
<1>4. \A t \in Threads : ~Here(t, "count")
    BY <1>1 DEF Here, At, NoCall
<1>5. MaxRequests > 0 => WindowFits(window) /\ SpansBounded
  <2>1. window.start = 0 /\ window.count = 0
      BY <1>1 DEF NoWindow, None
  <2>2. /\ Cardinality(Since(window.start)) = 0 /\ Cardinality(ShortlyBefore(window.start)) = 0
        /\ \A span : Cardinality(AdmittedIn(span)) = 0
      BY <1>3
  <2>3. MaxRequests > 0 => WindowFits(window)
      BY <1>1, <1>2, <2>1, <2>2, GuardsAssumption DEF WindowFits, None
  <2>4. MaxRequests > 0 => SpansBounded
      BY <2>2, GuardsAssumption DEF SpansBounded
  <2> QED BY <2>3, <2>4
<1>6. LimitInv
    BY <1>1, <1>2, <1>4, <1>5 DEF LimitInv, OneCounts, CountedFits, StoredFits
<1> QED BY <1>1, <1>6 DEF RateInv, GInv, NothingAdmitted

(* FixedWindowRateLimiter.check: as long as no two requests counted        *)
(* themselves at once, no span of a window's length sees twice the limit   *)
(* let through, wherever it begins.                                        *)
THEOREM LimiterIsBounded == Spec => []FewerThanTwiceTheLimit
<1>1. RateInv => FewerThanTwiceTheLimit
  <2> SUFFICES ASSUME RateInv, ~lostCount, MaxRequests > 0
               PROVE  \A from \in 1 .. MaxTime :
                          Cardinality(AdmittedIn(from .. from + Window - 1)) < 2 * MaxRequests
      BY DEF FewerThanTwiceTheLimit
  <2>1. CASE use = "requests"
      BY <2>1 DEF RateInv, LimitInv, SpansBounded
  <2>2. CASE use # "requests"
    <3>1. \A s : AdmittedIn(s) = {}
        BY <2>2 DEF RateInv, NothingAdmitted, AdmittedIn
    <3> QED BY <3>1, FS_EmptySet, GuardsAssumption
  <2> QED BY <2>1, <2>2
<1> QED BY <1>1, RateStarts, RateKept, GuardsStart, GuardsKept, PTL DEF Spec
-------------------------------------------------------------------------------
(* Logins.  The transaction a callback consumes had not expired when it    *)
(* came: what had is among the ids it listed before it looked, and what is *)
(* added later has another id.                                             *)
Transactions == [created_at : Nat, ua_binding : Browsers]
Puts ==
    [op : {"put"}, step : {"evict", "count", "insert"}, next : {"count"}, victims : SUBSET Nat,
     txn : Transactions]
Callbacks ==
    [op : {"consume"}, step : {"evict", "pop", "id token"}, next : {"pop"}, victims : SUBSET Nat,
     state : Nat, nonce : Nat, browser : Browsers, started : Nat, txn : Transactions \cup {None}]
LoginCalls == {NoCall} \cup Puts \cup Callbacks
LoginTypes ==
    /\ now \in Nat /\ minted \in Nat /\ call \in [Threads -> LoginCalls]
    /\ pending \in [DOMAIN pending -> Transactions] /\ DOMAIN pending \subseteq 1 .. minted
    /\ DOMAIN issuedTo \subseteq 1 .. minted

InTime(txn, c) == c.started - txn.created_at <= TTL
ComesInTime(c) ==
    /\ c \in Callbacks => c.state \in 1 .. minted
    /\ c \in Callbacks /\ c.state \in DOMAIN pending =>
        /\ c.step = "evict" => c.state \in c.victims \/ InTime(pending[c.state], c)
        /\ c.step = "pop" => InTime(pending[c.state], c)
    /\ c \in Callbacks /\ c.step = "id token" => c.txn \in Transactions /\ InTime(c.txn, c)
AllComeInTime == \A t \in Threads, c \in LoginCalls : call[t] = c => ComesInTime(c)

(* Threads that have counted the pending transactions add one each.        *)
Inserting == {t \in Threads : At(t, "put", "insert")}
RoomIsLeft == Cardinality(DOMAIN pending) + Cardinality(Inserting) <= MaxPending + Cardinality(Threads) - 1

LoginInv == LoginTypes /\ AllComeInTime /\ RoomIsLeft /\ NoLateLogin
LInv == IF use = "logins" THEN LoginInv /\ DOMAIN idToken \subseteq Nat
                          ELSE pending = Empty /\ login = NoLogin

(* The clock and the ids run on, and no transaction changes or comes back. *)
PendingShrinks ==
    /\ minted' \in Nat /\ minted <= minted'
    /\ \A x \in DOMAIN pending' \cap 1 .. minted : x \in DOMAIN pending /\ pending'[x] = pending[x]

LEMMA LoginKinds ==
    \A c \in LoginCalls : /\ c.op = "none" <=> c = NoCall
                          /\ c.op = "put" <=> c \in Puts
                          /\ c.op = "consume" <=> c \in Callbacks
<1>1. NoCall.op = "none" /\ (\A c \in Puts : c.op = "put") /\ \A c \in Callbacks : c.op = "consume"
    BY DEF Puts, Callbacks, NoCall
<1> QED BY <1>1 DEF LoginCalls

LEMMA ComesInTimeStays ==
    ASSUME LoginTypes, PendingShrinks, NEW c \in LoginCalls, ComesInTime(c) PROVE ComesInTime(c)'
<1>1. 1 .. minted \subseteq 1 .. minted'
    BY DEF LoginTypes, PendingShrinks
<1>2. c \in Callbacks /\ c.state \in DOMAIN pending' =>
          c.state \in DOMAIN pending /\ pending'[c.state] = pending[c.state]
    BY DEF ComesInTime, PendingShrinks
<1> QED BY <1>1, <1>2 DEF ComesInTime, InTime

LEMMA LoginCallMoves ==
    ASSUME LoginTypes, AllComeInTime, PendingShrinks, NEW t \in Threads, NEW c \in LoginCalls,
           call' = [call EXCEPT ![t] = c], ComesInTime(c)'
    PROVE  /\ call' \in [Threads -> LoginCalls] /\ AllComeInTime'
           /\ call'[t] = c /\ \A u \in Threads \ {t} : call'[u] = call[u]
<1>1. /\ call' \in [Threads -> LoginCalls] /\ call'[t] = c
      /\ \A u \in Threads \ {t} : call'[u] = call[u]
    BY DEF LoginTypes
<1>2. \A u \in Threads \ {t}, d \in LoginCalls : call'[u] = d => ComesInTime(d)'
    BY <1>1, ComesInTimeStays DEF AllComeInTime
<1> QED BY <1>1, <1>2 DEF AllComeInTime

LEMMA LoginCallsStay ==
    ASSUME LoginTypes, AllComeInTime, PendingShrinks, UNCHANGED call
    PROVE  call' \in [Threads -> LoginCalls] /\ AllComeInTime'
BY ComesInTimeStays DEF LoginTypes, AllComeInTime

LEMMA NothingComes == NoCall \in LoginCalls /\ NoCall \notin Callbacks /\ ComesInTime(NoCall)'
                      /\ ComesInTime(NoCall)
BY DEF LoginCalls, Callbacks, NoCall, ComesInTime

LEMMA LoginSizes ==
    ASSUME LoginTypes
    PROVE  /\ IsFiniteSet(DOMAIN pending) /\ Cardinality(DOMAIN pending) \in Nat
           /\ IsFiniteSet(Inserting) /\ Cardinality(Inserting) \in Nat
           /\ Cardinality(Inserting) <= Cardinality(Threads) /\ Cardinality(Threads) \in Nat
<1>1. IsFiniteSet(1 .. minted)
  <2>1. 1 \in Int /\ minted \in Int
      BY DEF LoginTypes
  <2> QED BY <2>1, FS_Interval, Zenon
<1>2. DOMAIN pending \in SUBSET (1 .. minted) /\ Inserting \in SUBSET Threads
    BY DEF LoginTypes, Inserting
<1>3. IsFiniteSet(DOMAIN pending) /\ IsFiniteSet(Inserting)
      /\ Cardinality(Inserting) <= Cardinality(Threads)
    BY <1>1, <1>2, CallsAssumption, FS_Subset
<1> QED BY <1>3, CallsAssumption, FS_CardinalityType

(* A step that adds no transaction and puts no thread before adding one.   *)
LEMMA RoomStays ==
    ASSUME LoginTypes, LoginTypes', RoomIsLeft, DOMAIN pending' \subseteq DOMAIN pending,
           Inserting' \subseteq Inserting
    PROVE  RoomIsLeft'
<1>1. /\ IsFiniteSet(DOMAIN pending) /\ Cardinality(DOMAIN pending) \in Nat
      /\ IsFiniteSet(Inserting) /\ Cardinality(Inserting) \in Nat /\ Cardinality(Threads) \in Nat
    BY LoginSizes
<1>2. PICK p \in Nat : p = Cardinality(DOMAIN pending)
    BY <1>1
<1>3. PICK i \in Nat : i = Cardinality(Inserting)
    BY <1>1
<1>4. PICK pp : pp = DOMAIN pending'
    OBVIOUS
<1>5. PICK ii : ii = Inserting'
    OBVIOUS
<1>6. /\ Cardinality(pp) <= p /\ Cardinality(pp) \in Nat
      /\ Cardinality(ii) <= i /\ Cardinality(ii) \in Nat
  <2>1. pp \in SUBSET DOMAIN pending /\ ii \in SUBSET Inserting
      BY <1>4, <1>5
  <2>2. /\ IsFiniteSet(pp) /\ Cardinality(pp) <= p
        /\ IsFiniteSet(ii) /\ Cardinality(ii) <= i
      BY <1>1, <1>2, <1>3, <2>1, FS_Subset
  <2> QED BY <2>2, FS_CardinalityType
<1>7. PICK n \in Nat : n = Cardinality(Threads)
    BY <1>1
<1>8. p + i <= MaxPending + n - 1
    BY <1>2, <1>3, <1>7 DEF RoomIsLeft
<1>9. Cardinality(pp) + Cardinality(ii) <= MaxPending + n - 1
    BY <1>6, <1>8, CeremoniesAssumption
<1> QED BY <1>4, <1>5, <1>7, <1>9 DEF RoomIsLeft

LEMMA OldIsOfIds == LoginTypes => Old \in SUBSET Nat
<1>1. Old \subseteq DOMAIN pending
    BY DEF Old
<1>2. LoginTypes => DOMAIN pending \subseteq Nat
    BY DEF LoginTypes
<1> QED BY <1>1, <1>2

LEMMA StartAuthorizationKeeps ==
    ASSUME LoginInv, NEW t \in Threads, NEW b \in Browsers, StartAuthorization(t, b) PROVE LoginInv'
<1> USE DEF LoginInv
<1>1. UNCHANGED <<now, minted, pending, issuedTo, login>>
    BY DEF StartAuthorization, ceremonyVars
<1>2. PICK txn : txn = [created_at |-> now, ua_binding |-> b]
    OBVIOUS
<1>3. PICK old \in SUBSET Nat : old = Old
    BY OldIsOfIds
<1>4. PICK c : c = [op |-> "put", step |-> "evict", next |-> "count", victims |-> old, txn |-> txn]
    OBVIOUS
<1>5. txn \in Transactions
    BY <1>2 DEF Transactions, LoginTypes
<1>6. c \in Puts /\ c.step = "evict"
    BY <1>3, <1>4, <1>5 DEF Puts
<1>7. c \in LoginCalls /\ c \notin Callbacks
    BY <1>6, LoginKinds DEF LoginCalls
<1>8. ComesInTime(c)' /\ PendingShrinks
  <2>1. ComesInTime(c)'
      BY <1>7 DEF ComesInTime
  <2>2. PendingShrinks
      BY <1>1 DEF PendingShrinks, LoginTypes
  <2> QED BY <2>1, <2>2
<1>9. call' = [call EXCEPT ![t] = c]
    BY <1>2, <1>3, <1>4 DEF StartAuthorization, Begin
<1>10. /\ call' \in [Threads -> LoginCalls] /\ AllComeInTime'
       /\ call'[t] = c /\ \A u \in Threads \ {t} : call'[u] = call[u]
    BY <1>7, <1>8, <1>9, LoginCallMoves
<1>11. LoginTypes'
    BY <1>1, <1>10 DEF LoginTypes
<1>12. Inserting' \subseteq Inserting
    BY <1>6, <1>10 DEF Inserting, At
<1> QED BY <1>1, <1>10, <1>11, <1>12, RoomStays DEF NoLateLogin

LEMMA StartCallbackKeeps ==
    ASSUME LoginInv, NEW t \in Threads, NEW b \in Browsers, NEW state \in DOMAIN issuedTo,
           NEW nonce \in Nat, StartCallback(t, b, state, nonce)
    PROVE  LoginInv'
<1> USE DEF LoginInv
<1>1. UNCHANGED <<now, minted, pending, issuedTo, login>>
    BY DEF StartCallback, ceremonyVars
<1>2. PICK n \in Nat : n = now
    BY DEF LoginTypes
<1>3. PICK old \in SUBSET Nat : old = Old
    BY OldIsOfIds
<1>4. PICK c : c = [op |-> "consume", step |-> "evict", next |-> "pop", victims |-> old,
                    state |-> state, nonce |-> nonce, browser |-> b, started |-> n, txn |-> None]
    OBVIOUS
<1>5. state \in 1 .. minted /\ state \in Nat
    BY DEF LoginTypes
<1>6. c \in Callbacks
    BY <1>3, <1>4, <1>5 DEF Callbacks
<1>7. c \in LoginCalls
    BY <1>6 DEF LoginCalls
<1>8. state \in DOMAIN pending => state \in old \/ InTime(pending[state], c)
  <2>1. state \in DOMAIN pending => pending[state].created_at \in Nat
      BY DEF LoginTypes, Transactions
  <2>2. c.started = now
      BY <1>2, <1>4
  <2> QED BY <1>2, <1>3, <2>1, <2>2, CeremoniesAssumption DEF Old, InTime
<1>9. ComesInTime(c)
    BY <1>4, <1>5, <1>8 DEF ComesInTime
<1>10. PendingShrinks
    BY <1>1 DEF PendingShrinks, LoginTypes
<1>11. call' = [call EXCEPT ![t] = c] /\ ComesInTime(c)'
    BY <1>2, <1>3, <1>4, <1>7, <1>9, <1>10, ComesInTimeStays DEF StartCallback, Begin
<1>12. /\ call' \in [Threads -> LoginCalls] /\ AllComeInTime'
       /\ call'[t] = c /\ \A u \in Threads \ {t} : call'[u] = call[u]
    BY <1>7, <1>10, <1>11, LoginCallMoves
<1>13. LoginTypes'
    BY <1>1, <1>12 DEF LoginTypes
<1>14. Inserting' \subseteq Inserting
  <2>1. c.op = "consume"
      BY <1>4
  <2> QED BY <1>12, <2>1 DEF Inserting, At
<1> QED BY <1>1, <1>12, <1>13, <1>14, RoomStays DEF NoLateLogin

(* The thread is done.                                                     *)
LEMMA ReturnKeeps ==
    ASSUME LoginInv, NEW t \in Threads, Return(t), PendingShrinks,
           DOMAIN pending' \subseteq DOMAIN pending, pending' \in [DOMAIN pending' -> Transactions],
           NoLateLogin', UNCHANGED <<now, minted, issuedTo>>
    PROVE  LoginInv'
<1> USE DEF LoginInv
<1>1. call' = [call EXCEPT ![t] = NoCall]
    BY DEF Return, GoOn
<1>2. /\ call' \in [Threads -> LoginCalls] /\ AllComeInTime'
      /\ call'[t] = NoCall /\ \A u \in Threads \ {t} : call'[u] = call[u]
    BY <1>1, NothingComes, LoginCallMoves
<1>3. LoginTypes'
    BY <1>2 DEF LoginTypes
<1>4. Inserting' \subseteq Inserting
    BY <1>2 DEF Inserting, At, NoCall
<1> QED BY <1>2, <1>3, <1>4, RoomStays

(* What some ids are taken out of, with the rest as it was.                *)
LEMMA PendingRemoved ==
    ASSUME LoginTypes, NEW keys, pending' = Remove(pending, keys), UNCHANGED minted
    PROVE  /\ PendingShrinks /\ DOMAIN pending' = DOMAIN pending \ keys
           /\ pending' \in [DOMAIN pending' -> Transactions]
           /\ \A x \in DOMAIN pending' : pending'[x] = pending[x]
<1>1. /\ DOMAIN pending' = DOMAIN pending \ keys /\ \A x \in DOMAIN pending' : pending'[x] = pending[x]
      /\ pending' \in [DOMAIN pending' -> Transactions]
    BY DEF Remove, LoginTypes
<1>2. PendingShrinks
    BY <1>1 DEF PendingShrinks, LoginTypes
<1> QED BY <1>1, <1>2

(* A call of a kind goes on to one of its steps.                           *)
LEMMA PutGoesOn ==
    ASSUME NEW c \in Puts, NEW step \in {"evict", "count", "insert"}, NEW d,
           d = [c EXCEPT !.step = step]
    PROVE  d \in Puts /\ d \in LoginCalls /\ d.op = "put" /\ d.step = step
BY DEF Puts, LoginCalls

LEMMA EvictExpiredKeeps == ASSUME LoginInv, NEW t \in Threads, EvictExpired(t) PROVE LoginInv'
<1> USE DEF LoginInv
<1>1. PICK c \in LoginCalls : c = call[t]
    BY DEF LoginTypes
<1>2. /\ c \in Puts \cup Callbacks /\ c.step = "evict" /\ ComesInTime(c)
      /\ UNCHANGED <<now, minted, issuedTo, login>> /\ NoLateLogin'
    BY <1>1, LoginKinds DEF EvictExpired, AllComeInTime, NoLateLogin
<1>3. PICK gone \in SUBSET DOMAIN pending :
          /\ pending' = Remove(pending, gone)
          /\ (gone = c.victims /\ GoTo(t, c.next)) \/ Return(t)
    BY <1>1 DEF EvictExpired
<1>4. /\ PendingShrinks /\ DOMAIN pending' = DOMAIN pending \ gone
      /\ pending' \in [DOMAIN pending' -> Transactions]
      /\ \A x \in DOMAIN pending' : pending'[x] = pending[x]
    BY <1>2, <1>3, PendingRemoved
<1>5. CASE Return(t)
    BY <1>2, <1>4, <1>5, ReturnKeeps
<1>6. ASSUME NEW d \in LoginCalls, ComesInTime(d)', call' = [call EXCEPT ![t] = d],
             d.step # "insert"
      PROVE  LoginInv'
  <2>1. /\ call' \in [Threads -> LoginCalls] /\ AllComeInTime'
        /\ call'[t] = d /\ \A u \in Threads \ {t} : call'[u] = call[u]
      BY <1>4, <1>6, LoginCallMoves
  <2>2. LoginTypes' /\ Inserting' \subseteq Inserting
      BY <1>2, <1>4, <1>6, <2>1 DEF LoginTypes, Inserting, At
  <2> QED BY <1>2, <1>4, <2>1, <2>2, RoomStays
<1>7. CASE c \in Puts /\ GoTo(t, c.next)
  <2>1. PICK d : d = [c EXCEPT !.step = "count"]
      OBVIOUS
  <2>2. d \in LoginCalls /\ d.op = "put" /\ d.step = "count"
      BY <1>7, <2>1, PutGoesOn
  <2>3. d \notin Callbacks
      BY <2>2, LoginKinds
  <2>4. call' = [call EXCEPT ![t] = d] /\ ComesInTime(d)'
      BY <1>1, <1>7, <2>1, <2>3 DEF GoTo, GoOn, Puts, ComesInTime
  <2> QED BY <1>6, <2>2, <2>4
<1>8. CASE c \in Callbacks /\ gone = c.victims /\ GoTo(t, c.next)
  <2>1. PICK d : d = [c EXCEPT !.step = "pop"]
      OBVIOUS
  <2>2. d \in Callbacks /\ d \in LoginCalls /\ d.step = "pop" /\ d.state = c.state
        /\ d.started = c.started
      BY <1>8, <2>1 DEF Callbacks, LoginCalls
  <2>3. d.state \in DOMAIN pending' => InTime(pending'[d.state], d)
      BY <1>2, <1>4, <1>8, <2>2 DEF ComesInTime, InTime
  <2>4. d.state \in 1 .. minted'
      BY <1>2, <1>8, <2>2 DEF ComesInTime
  <2>5. ComesInTime(d)'
      BY <2>2, <2>3, <2>4 DEF ComesInTime, InTime
  <2>6. call' = [call EXCEPT ![t] = d]
      BY <1>1, <1>8, <2>1 DEF GoTo, GoOn, Callbacks
  <2> QED BY <1>6, <2>2, <2>5, <2>6
<1> QED BY <1>2, <1>3, <1>5, <1>7, <1>8

LEMMA PopTransactionKeeps == ASSUME LoginInv, NEW t \in Threads, PopTransaction(t) PROVE LoginInv'
<1> USE DEF LoginInv
<1>1. PICK c \in LoginCalls : c = call[t]
    BY DEF LoginTypes
<1>2. /\ c \in Callbacks /\ c.step = "pop" /\ ComesInTime(c)
      /\ UNCHANGED <<now, minted, issuedTo, login>> /\ NoLateLogin'
      /\ pending' = Remove(pending, {c.state})
    BY <1>1, LoginKinds DEF PopTransaction, At, AllComeInTime, NoLateLogin
<1>3. /\ PendingShrinks /\ DOMAIN pending' = DOMAIN pending \ {c.state}
      /\ pending' \in [DOMAIN pending' -> Transactions]
    BY <1>2, PendingRemoved
<1>4. CASE Return(t)
    BY <1>2, <1>3, <1>4, ReturnKeeps
<1>5. CASE c.state \in DOMAIN pending
  <2>1. PICK txn : txn = pending[c.state]
      OBVIOUS
  <2>2. txn \in Transactions /\ InTime(txn, c)
      BY <1>2, <1>5, <2>1 DEF ComesInTime, LoginTypes
  <2>3. PICK d : d = [c EXCEPT !.txn = txn, !.step = "id token"]
      OBVIOUS
  <2>4. /\ d \in Callbacks /\ d.op = "consume" /\ d.step = "id token" /\ d.txn = txn
        /\ d.state = c.state /\ d.started = c.started
      BY <1>2, <2>2, <2>3 DEF Callbacks
  <2>5. d \in LoginCalls /\ call' = [call EXCEPT ![t] = d]
      BY <1>1, <1>5, <2>1, <2>3, <2>4 DEF LoginCalls, PopTransaction, GoOn
  <2>6. ComesInTime(d)
      BY <1>2, <2>2, <2>4 DEF ComesInTime, InTime
  <2>7. ComesInTime(d)'
      BY <1>3, <2>5, <2>6, ComesInTimeStays
  <2>8. /\ call' \in [Threads -> LoginCalls] /\ AllComeInTime'
        /\ call'[t] = d /\ \A u \in Threads \ {t} : call'[u] = call[u]
      BY <1>3, <2>5, <2>7, LoginCallMoves
  <2>9. LoginTypes' /\ Inserting' \subseteq Inserting
      BY <1>2, <1>3, <2>4, <2>8 DEF LoginTypes, Inserting, At
  <2> QED BY <1>2, <1>3, <2>8, <2>9, RoomStays
<1> QED BY <1>1, <1>4, <1>5 DEF PopTransaction

LEMMA ValidateIdTokenKeeps == ASSUME LoginInv, NEW t \in Threads, ValidateIdToken(t) PROVE LoginInv'
<1> USE DEF LoginInv
<1>1. PICK c \in LoginCalls : c = call[t]
    BY DEF LoginTypes
<1>2. /\ c \in Callbacks /\ c.step = "id token" /\ ComesInTime(c)
      /\ UNCHANGED <<now, minted, pending, issuedTo>> /\ Return(t)
    BY <1>1, LoginKinds DEF ValidateIdToken, At, AllComeInTime
<1>3. c.started - c.txn.created_at <= TTL
    BY <1>2 DEF ComesInTime, InTime
<1>4. NoLateLogin'
  <2>1. login' = [created |-> c.txn.created_at, started |-> c.started] \/ UNCHANGED login
      BY <1>1 DEF ValidateIdToken
  <2> QED BY <1>3, <2>1 DEF NoLateLogin
<1>5. PendingShrinks /\ pending' \in [DOMAIN pending' -> Transactions]
  <2>1. UNCHANGED <<minted, pending>>
      BY <1>2
  <2> QED BY <2>1 DEF PendingShrinks, LoginTypes
<1> QED BY <1>2, <1>4, <1>5, ReturnKeeps

LEMMA CountPendingKeeps == ASSUME LoginInv, NEW t \in Threads, CountPending(t) PROVE LoginInv'
<1> USE DEF LoginInv
<1>1. PICK c \in LoginCalls : c = call[t]
    BY DEF LoginTypes
<1>2. /\ c \in Puts /\ UNCHANGED <<now, minted, pending, issuedTo, login>> /\ NoLateLogin'
    BY <1>1, LoginKinds DEF CountPending, At, ceremonyVars, NoLateLogin
<1>3. PendingShrinks /\ pending' \in [DOMAIN pending' -> Transactions]
    BY <1>2 DEF PendingShrinks, LoginTypes
<1>4. CASE Return(t)
    BY <1>2, <1>3, <1>4, ReturnKeeps
<1>5. CASE ~(Cardinality(DOMAIN pending) >= MaxPending) /\ GoTo(t, "insert")
  <2>1. PICK d : d = [c EXCEPT !.step = "insert"]
      OBVIOUS
  <2>2. d \in LoginCalls /\ d.op = "put"
      BY <1>2, <2>1, PutGoesOn
  <2>3. d \notin Callbacks
      BY <2>2, LoginKinds
  <2>4. call' = [call EXCEPT ![t] = d] /\ ComesInTime(d)'
      BY <1>1, <1>5, <2>1, <2>3 DEF GoTo, GoOn, ComesInTime
  <2>5. call' \in [Threads -> LoginCalls] /\ AllComeInTime'
      BY <1>3, <2>2, <2>4, LoginCallMoves
  <2>6. LoginTypes'
      BY <1>2, <2>5 DEF LoginTypes
  <2>7. RoomIsLeft'
    <3>1. PICK i : i = Cardinality(Inserting')
        OBVIOUS
    <3>2. i \in Nat /\ i <= Cardinality(Threads)
        BY <2>6, <3>1, CallsAssumption, FS_Subset, FS_CardinalityType DEF Inserting
    <3>3. Cardinality(DOMAIN pending) \in Nat /\ Cardinality(Threads) \in Nat
        BY LoginSizes
    <3>4. Cardinality(DOMAIN pending) + i <= MaxPending + Cardinality(Threads) - 1
        BY <1>5, <3>2, <3>3, CeremoniesAssumption
    <3> QED BY <1>2, <3>1, <3>4 DEF RoomIsLeft
  <2> QED BY <1>2, <2>5, <2>6, <2>7
<1> QED BY <1>4, <1>5, LoginSizes, CeremoniesAssumption DEF CountPending

LEMMA InsertTransactionKeeps ==
    ASSUME LoginInv, NEW t \in Threads, InsertTransaction(t) PROVE LoginInv'
<1> USE DEF LoginInv
<1>1. PICK c \in LoginCalls : c = call[t]
    BY DEF LoginTypes
<1>2. PICK fresh : fresh = Fresh
    OBVIOUS
<1>3. /\ c \in Puts /\ c.step = "insert" /\ c.op = "put" /\ c.txn \in Transactions
      /\ UNCHANGED <<now, login>> /\ NoLateLogin'
      /\ call' = [call EXCEPT ![t] = NoCall]
  <2>1. c.op = "put" /\ c.step = "insert"
      BY <1>1 DEF InsertTransaction, At
  <2>2. c \in Puts /\ c.txn \in Transactions
      BY <2>1, LoginKinds DEF Puts
  <2> QED BY <2>1, <2>2 DEF InsertTransaction, Return, GoOn, NoLateLogin
<1>4. /\ fresh \in Nat /\ fresh = minted + 1 /\ minted' = fresh /\ fresh \notin 1 .. minted
      /\ pending' = Insert(pending, fresh, c.txn)
      /\ \E h : issuedTo' = Insert(issuedTo, fresh, h)
    BY <1>1, <1>2 DEF InsertTransaction, Issue, Mint, Fresh, LoginTypes
<1>5. /\ DOMAIN pending' = DOMAIN pending \cup {fresh}
      /\ \A x \in DOMAIN pending : pending'[x] = pending[x]
      /\ pending' \in [DOMAIN pending' -> Transactions]
      /\ DOMAIN issuedTo' = DOMAIN issuedTo \cup {fresh}
  <2>1. pending \in [DOMAIN pending -> Transactions] /\ fresh \notin DOMAIN pending
      BY <1>4 DEF LoginTypes
  <2> QED BY <1>3, <1>4, <2>1 DEF Insert
<1>6. PendingShrinks
    BY <1>4, <1>5 DEF PendingShrinks, LoginTypes
<1>7. /\ call' \in [Threads -> LoginCalls] /\ AllComeInTime'
      /\ call'[t] = NoCall /\ \A u \in Threads \ {t} : call'[u] = call[u]
    BY <1>3, <1>6, NothingComes, LoginCallMoves
<1>8. LoginTypes'
    BY <1>3, <1>4, <1>5, <1>7 DEF LoginTypes
<1>9. RoomIsLeft'
  <2>1. t \in Inserting /\ Inserting' = Inserting \ {t} /\ fresh \notin DOMAIN pending
      BY <1>1, <1>3, <1>4, <1>7 DEF Inserting, At, NoCall, LoginTypes
  <2>2. IsFiniteSet(DOMAIN pending) /\ IsFiniteSet(Inserting)
        /\ Cardinality(DOMAIN pending) \in Nat /\ Cardinality(Inserting) \in Nat
      BY LoginSizes
  <2>3. Cardinality(DOMAIN pending') = Cardinality(DOMAIN pending) + 1
      BY <1>5, <2>1, <2>2, FS_AddElement
  <2>4. Cardinality(Inserting') = Cardinality(Inserting) - 1
      BY <2>1, <2>2, FS_RemoveElement
  <2> QED BY <2>2, <2>3, <2>4 DEF RoomIsLeft
<1> QED BY <1>3, <1>7, <1>8, <1>9

(* The other steps of the service touch neither transactions nor calls.    *)
LEMMA LoginStays ==
    ASSUME LoginInv, UNCHANGED <<call, pending, login>>, now' \in Nat, minted' \in Nat,
           minted <= minted', DOMAIN issuedTo' \subseteq 1 .. minted'
    PROVE  LoginInv'
<1> USE DEF LoginInv
<1>1. PendingShrinks
    BY DEF PendingShrinks, LoginTypes
<1>2. call' \in [Threads -> LoginCalls] /\ AllComeInTime'
    BY <1>1, LoginCallsStay
<1>3. LoginTypes' /\ Inserting' \subseteq Inserting
    BY <1>2 DEF LoginTypes, Inserting, At
<1> QED BY <1>2, <1>3, RoomStays DEF NoLateLogin

LEMMA BeginLinkKeeps ==
    ASSUME LoginInv, NEW t \in Threads, NEW b, BeginLink(t, b) PROVE LoginInv'
<1>1. PICK fresh : fresh = Fresh
    OBVIOUS
<1>2. /\ now \in Nat /\ minted \in Nat /\ DOMAIN issuedTo \subseteq 1 .. minted
      /\ UNCHANGED <<now, call, pending, login>>
      /\ fresh = minted + 1 /\ minted' = fresh /\ issuedTo' = Insert(issuedTo, fresh, b)
    BY <1>1 DEF LoginInv, LoginTypes, BeginLink, OneStep, Issue, Mint, Fresh
<1>3. DOMAIN issuedTo' \subseteq 1 .. minted'
    BY <1>2 DEF Insert
<1> QED BY <1>2, <1>3, LoginStays

LEMMA LoginsKept == LInv /\ [Next]_vars => LInv'
<1> SUFFICES ASSUME LInv, [Next]_vars PROVE LInv'
    OBVIOUS
<1>0. use' = use
    BY UseStays
<1>1. CASE use # "logins"
  <2>1. UNCHANGED <<pending, login>>
    <3>1. use # "passkeys" => UNCHANGED <<pending, login>>
        BY <1>1, UseStays DEF ceremonyVars
    <3>2. \A t \in Threads : PasskeyStep(t) => UNCHANGED <<pending, login>>
      <4> SUFFICES ASSUME NEW t \in Threads, PasskeyStep(t) PROVE UNCHANGED <<pending, login>>
          OBVIOUS
      <4>1. CASE ReadCredential(t)
          BY <4>1 DEF ReadCredential, ceremonyVars
      <4>2. CASE ~ReadCredential(t)
          BY <4>2 DEF PasskeyStep, AddCredential, CheckAssertion, UpdateCounter, IssueChallenge,
                      RefusePasskey, StartPasskey
      <4> QED BY <4>1, <4>2
    <3>3. Still => UNCHANGED <<pending, login>>
        BY DEF Still, ceremonyVars
    <3>4. use = "passkeys" => Still \/ \E t \in Threads : PasskeyStep(t)
        BY UseSteps DEF BySessions, ByVault
    <3> QED BY <3>1, <3>2, <3>3, <3>4
  <2> QED BY <1>0, <1>1, <2>1 DEF LInv
<1>2. CASE use = "logins"
  <2>0. LoginInv /\ now \in Nat /\ minted \in Nat /\ DOMAIN issuedTo \subseteq 1 .. minted
        /\ DOMAIN pending \subseteq Nat /\ DOMAIN idToken \subseteq Nat
      BY <1>2 DEF LInv, LoginInv, LoginTypes
  <2>1. LoginInv'
    <3>1. CASE Still
      <4>1. now' \in Nat /\ UNCHANGED <<minted, issuedTo, call, pending, login>>
          BY <2>0, <3>1 DEF Still, ceremonyVars
      <4> QED BY <2>0, <4>1, LoginStays
    <3>2. ASSUME NEW nonce \in Ids, IssueIdToken(nonce) PROVE LoginInv'
      <4>1. UNCHANGED <<now, minted, issuedTo, call, pending, login>>
          BY <3>2 DEF IssueIdToken, threads
      <4> QED BY <2>0, <4>1, LoginStays
    <3>3. ASSUME NEW t \in Threads, BrowserStep(t) PROVE LoginInv'
      <4>1. CASE EvictExpired(t) \/ CountPending(t) \/ InsertTransaction(t)
                 \/ PopTransaction(t) \/ ValidateIdToken(t)
          BY <2>0, <4>1, EvictExpiredKeeps, CountPendingKeeps, InsertTransactionKeeps,
             PopTransactionKeeps, ValidateIdTokenKeeps
      <4>2. ASSUME NEW b \in Browsers, StartAuthorization(t, b) PROVE LoginInv'
          BY <2>0, <4>2, StartAuthorizationKeeps
      <4>3. ASSUME NEW b \in Browsers, BeginLink(t, b) PROVE LoginInv'
          BY <2>0, <4>3, BeginLinkKeeps
      <4>4. ASSUME NEW b \in Browsers, NEW state, CompleteLink(t, b, state) PROVE LoginInv'
        <5>1. UNCHANGED <<now, minted, issuedTo, call, pending, login>>
            BY <4>4 DEF CompleteLink, OneStep
        <5> QED BY <2>0, <5>1, LoginStays
      <4>5. ASSUME NEW b \in Browsers, NEW state \in DOMAIN issuedTo, NEW nonce \in DOMAIN idToken,
                   StartCallback(t, b, state, nonce)
            PROVE  LoginInv'
          BY <2>0, <4>5, StartCallbackKeeps
      <4> QED BY <3>3, <4>1, <4>2, <4>3, <4>4, <4>5 DEF BrowserStep
    <3> QED BY <1>2, <3>1, <3>2, <3>3, UseSteps DEF BySessions, ByVault
  <2>2. DOMAIN idToken' \subseteq Nat
    <3>1. ASSUME NEW nonce, IssueIdToken(nonce) PROVE DOMAIN idToken' \subseteq Nat
        BY <2>0, <3>1 DEF IssueIdToken, Insert
    <3>2. Still \/ (\E t \in Threads : BrowserStep(t)) => UNCHANGED idToken
        BY DEF Still, ceremonyVars, BrowserStep, EvictExpired, CountPending, InsertTransaction,
               PopTransaction, ValidateIdToken, StartAuthorization, BeginLink, CompleteLink,
               StartCallback
    <3> QED BY <1>2, <2>0, <3>1, <3>2, UseSteps DEF BySessions, ByVault
  <2> QED BY <1>0, <1>2, <2>1, <2>2 DEF LInv
<1> QED BY <1>1, <1>2

LEMMA LoginsStart == Init => LInv
<1> SUFFICES ASSUME Init PROVE LInv
    OBVIOUS
<1>1. /\ now = 1 /\ minted = 0 /\ call = [t \in Threads |-> NoCall]
      /\ pending = Empty /\ issuedTo = Empty /\ idToken = Empty /\ login = NoLogin
    BY DEF Init, CeremoniesInit
<1>2. DOMAIN pending = {} /\ DOMAIN issuedTo = {} /\ DOMAIN idToken = {}
    BY <1>1 DEF Empty
<1>3. LoginTypes
    BY <1>1, <1>2, NothingComes DEF LoginTypes
<1>4. AllComeInTime
    BY <1>1, NothingComes DEF AllComeInTime
<1>5. NoLateLogin
    BY <1>1, CeremoniesAssumption DEF NoLateLogin, NoLogin, None
<1>6. RoomIsLeft
  <2>1. Inserting = {}
      BY <1>1 DEF Inserting, At, NoCall
  <2>2. Cardinality(Threads) \in Nat /\ Cardinality(Threads) # 0
      BY CallsAssumption, FS_CardinalityType, FS_EmptySet
  <2> QED BY <1>2, <2>1, <2>2, FS_EmptySet, CeremoniesAssumption DEF RoomIsLeft
<1> QED BY <1>1, <1>2, <1>3, <1>4, <1>5, <1>6 DEF LInv, LoginInv

(* TransactionStore.consume and validate_id_token: a login is completed    *)
(* only by a callback that came within the lifetime of its transaction,    *)
(* even while other threads drop expired ones.                             *)
THEOREM LoginsAreInTime == Spec => []NoLateLogin
<1>1. LInv => NoLateLogin
    BY CeremoniesAssumption DEF LInv, LoginInv, NoLateLogin, NoLogin, None
<1> QED BY <1>1, LoginsStart, LoginsKept, PTL DEF Spec

(* TransactionStore.put: concurrent initiations exceed the bound on        *)
(* pending transactions by one per other thread at the most.               *)
THEOREM PendingStaysBounded == Spec => []PendingIsBounded
<1>1. LInv => PendingIsBounded
  <2>1. CASE use = "logins"
    <3> SUFFICES ASSUME LoginInv PROVE PendingIsBounded
        BY <2>1 DEF LInv
    <3>1. Cardinality(DOMAIN pending) \in Nat /\ Cardinality(Inserting) \in Nat
          /\ Cardinality(Threads) \in Nat
        BY LoginSizes DEF LoginInv
    <3> QED BY <3>1, CeremoniesAssumption DEF LoginInv, RoomIsLeft, PendingIsBounded
  <2>2. CASE pending = Empty
    <3>1. Cardinality(Threads) \in Nat /\ Cardinality(Threads) # 0
        BY CallsAssumption, FS_CardinalityType, FS_EmptySet
    <3>2. DOMAIN pending = {}
        BY <2>2 DEF Empty
    <3> QED BY <3>1, <3>2, FS_EmptySet, CeremoniesAssumption DEF PendingIsBounded
  <2> QED BY <2>1, <2>2 DEF LInv
<1> QED BY <1>1, LoginsStart, LoginsKept, PTL DEF Spec
-------------------------------------------------------------------------------
(* Passkeys.  Of two threads that are about to write a credential one made *)
(* a race of it when it came; otherwise the counter of an assertion that   *)
(* was checked is higher than the stored one until it is written.          *)
StoredCredentials == [user_id : Accounts, sign_count : Nat]
Registrations ==
    [op : {"register"}, step : {"add"}, u : Accounts, x : Nat, k : Credentials, n : Counts,
     owner : Accounts]
Assertions ==
    [op : {"assert"}, step : {"check", "read", "update"}, u : Accounts, x : Nat, k : Credentials,
     n : Counts, owner : Accounts]
PasskeyCalls == {NoCall} \cup Registrations \cup Assertions
PasskeyTypes ==
    /\ call \in [Threads -> PasskeyCalls] /\ minted \in Nat
    /\ challenge \in [DOMAIN challenge -> Nat]
    /\ credential \in [DOMAIN credential -> StoredCredentials]
    /\ highest \in [DOMAIN credential -> Nat]

Writes(t, k) == call[t].step \in {"add", "read", "update"} /\ call[t].k = k
RacesAreSeen == \A t, u \in Threads, k \in Credentials : Writes(t, k) /\ Writes(u, k) => t = u \/ k \in raced
Beats(c) ==
    c \in Assertions /\ c.step \in {"read", "update"} =>
        /\ c.k \in DOMAIN credential
        /\ c.k \notin raced => c.n > credential[c.k].sign_count
AllBeat == \A t \in Threads, c \in PasskeyCalls : call[t] = c => Beats(c)

PasskeyInv == PasskeyTypes /\ RacesAreSeen /\ AllBeat /\ CounterIsHighest
PInv == IF use = "passkeys" THEN PasskeyInv ELSE credential = Empty

LEMMA PasskeyKinds ==
    \A c \in PasskeyCalls : /\ c.op = "none" <=> c = NoCall
                            /\ c.op = "register" <=> c \in Registrations
                            /\ c.op = "assert" <=> c \in Assertions
<1>1. NoCall.op = "none" /\ (\A c \in Registrations : c.op = "register")
      /\ \A c \in Assertions : c.op = "assert"
    BY DEF Registrations, Assertions, NoCall
<1> QED BY <1>1 DEF PasskeyCalls

LEMMA NothingBeats ==
    NoCall \in PasskeyCalls /\ NoCall \notin Assertions /\ Beats(NoCall) /\ Beats(NoCall)'
BY DEF PasskeyCalls, Registrations, Assertions, NoCall, Beats

LEMMA PasskeyCallMoves ==
    ASSUME PasskeyTypes, NEW t \in Threads, NEW c \in PasskeyCalls, call' = [call EXCEPT ![t] = c]
    PROVE  /\ call' \in [Threads -> PasskeyCalls]
           /\ call'[t] = c /\ \A u \in Threads \ {t} : call'[u] = call[u]
BY DEF PasskeyTypes

(* A call that goes on without coming to write.                            *)
LEMMA NotToWrite ==
    ASSUME PasskeyInv, NEW t \in Threads, NEW c \in PasskeyCalls, call' = [call EXCEPT ![t] = c],
           c.step \notin {"add", "read", "update"},
           challenge' \in [DOMAIN challenge' -> Nat], minted' \in Nat,
           UNCHANGED <<credential, highest, raced>>
    PROVE  PasskeyInv'
<1> USE DEF PasskeyInv
<1>1. /\ call' \in [Threads -> PasskeyCalls]
      /\ call'[t] = c /\ \A u \in Threads \ {t} : call'[u] = call[u]
    BY PasskeyCallMoves
<1>2. PasskeyTypes'
    BY <1>1 DEF PasskeyTypes
<1>3. RacesAreSeen'
    BY <1>1 DEF RacesAreSeen, Writes
<1>4. AllBeat'
  <2>1. Beats(c)' /\ \A d \in PasskeyCalls : Beats(d)' <=> Beats(d)
      BY DEF Beats
  <2> QED BY <1>1, <2>1 DEF AllBeat
<1> QED BY <1>2, <1>3, <1>4 DEF CounterIsHighest

LEMMA ChallengesMove ==
    ASSUME PasskeyInv, UNCHANGED <<call, credential, highest, raced>>,
           challenge' \in [DOMAIN challenge' -> Nat], minted' \in Nat
    PROVE  PasskeyInv'
<1>1. PasskeyTypes'
    BY DEF PasskeyInv, PasskeyTypes
<1>2. RacesAreSeen' /\ CounterIsHighest'
    BY DEF PasskeyInv, RacesAreSeen, Writes, CounterIsHighest
<1>3. AllBeat'
  <2>1. \A d \in PasskeyCalls : Beats(d)' <=> Beats(d)
      BY DEF Beats
  <2> QED BY <2>1 DEF PasskeyInv, AllBeat
<1> QED BY <1>1, <1>2, <1>3 DEF PasskeyInv

LEMMA ChallengeRemoved ==
    ASSUME PasskeyTypes, NEW keys, challenge' = Remove(challenge, keys)
    PROVE  challenge' \in [DOMAIN challenge' -> Nat]
BY DEF PasskeyTypes, Remove

LEMMA IssueChallengeKeeps ==
    ASSUME PasskeyInv, NEW t \in Threads, NEW u, NEW purpose, IssueChallenge(t, u, purpose)
    PROVE  PasskeyInv'
<1>1. PICK key : key = <<u, purpose>>
    OBVIOUS
<1>2. PICK fresh : fresh = Fresh
    OBVIOUS
<1>3. /\ fresh \in Nat /\ minted' = fresh /\ challenge' = Insert(challenge, key, fresh)
      /\ UNCHANGED <<call, credential, highest, raced>>
    BY <1>1, <1>2 DEF IssueChallenge, Issue, Mint, Fresh, OneStep, PasskeyInv, PasskeyTypes
<1>4. challenge' \in [DOMAIN challenge' -> Nat]
    BY <1>3 DEF Insert, PasskeyInv, PasskeyTypes
<1> QED BY <1>3, <1>4, ChallengesMove

LEMMA RefusePasskeyKeeps ==
    ASSUME PasskeyInv, NEW t \in Threads, NEW u, NEW purpose, RefusePasskey(t, u, purpose)
    PROVE  PasskeyInv'
<1>1. /\ UNCHANGED <<minted, call, credential, highest, raced>>
      /\ \E keys : challenge' = Remove(challenge, keys)
    BY DEF RefusePasskey, OneStep
<1> QED BY <1>1, ChallengeRemoved, ChallengesMove DEF PasskeyInv, PasskeyTypes

(* A thread comes to write credential k: if another is about to, it races. *)
LEMMA ToWrite ==
    ASSUME PasskeyInv, NEW t \in Threads, NEW k \in Credentials, Race(k),
           \A u \in Threads \ {t} : call'[u] = call[u], call'[t].k = k
    PROVE  /\ RacesAreSeen' /\ raced \subseteq raced'
           /\ k \notin raced' => \A u \in Threads : ~Writes(u, k)
<1>1. raced \subseteq raced' /\ (k \notin raced' => \A u \in Threads : ~Writes(u, k))
    BY DEF Race, Updating, Writes
<1>2. RacesAreSeen'
  <2> SUFFICES ASSUME NEW u \in Threads, NEW v \in Threads, NEW l \in Credentials,
                      Writes(u, l)', Writes(v, l)', u # v
               PROVE  l \in raced'
      BY DEF RacesAreSeen
  <2>1. CASE u # t /\ v # t
      BY <1>1, <2>1 DEF PasskeyInv, RacesAreSeen, Writes
  <2>2. CASE u = t \/ v = t
    <3>1. l = k /\ \E w \in Threads : Writes(w, k)
        BY <2>2 DEF Writes
    <3> QED BY <1>1, <3>1
  <2> QED BY <2>1, <2>2
<1> QED BY <1>1, <1>2

LEMMA StartPasskeyKeeps ==
    ASSUME PasskeyInv, NEW t \in Threads, NEW u \in Accounts, NEW purpose \in {"register", "assert"},
           NEW k \in Credentials, NEW n \in Counts, StartPasskey(t, u, purpose, k, n)
    PROVE  PasskeyInv'
<1> USE DEF PasskeyInv
<1>1. PICK x : x = challenge[<<u, purpose>>]
    OBVIOUS
<1>2. /\ x \in Nat /\ challenge' \in [DOMAIN challenge' -> Nat] /\ minted' \in Nat
      /\ UNCHANGED <<credential, highest>>
  <2>1. challenge' \in [DOMAIN challenge' -> Nat]
      BY ChallengeRemoved DEF StartPasskey
  <2> QED BY <1>1, <2>1 DEF StartPasskey, PasskeyTypes
<1>3. CASE purpose = "assert"
  <2>1. PICK c : c = [op |-> "assert", step |-> "check", u |-> u, x |-> x, k |-> k, n |-> n,
                      owner |-> u]
      OBVIOUS
  <2>2. c \in PasskeyCalls /\ c.step = "check"
      BY <1>2, <2>1 DEF PasskeyCalls, Assertions
  <2>3. call' = [call EXCEPT ![t] = c] /\ UNCHANGED raced
      BY <1>1, <1>3, <2>1 DEF StartPasskey, Begin
  <2> QED BY <1>2, <2>2, <2>3, NotToWrite
<1>4. CASE purpose = "register"
  <2>1. PICK c : c = [op |-> "register", step |-> "add", u |-> u, x |-> x, k |-> k, n |-> n,
                      owner |-> u]
      OBVIOUS
  <2>2. c \in Registrations /\ c \in PasskeyCalls /\ c.k = k
      BY <1>2, <2>1 DEF PasskeyCalls, Registrations
  <2>3. call' = [call EXCEPT ![t] = c] /\ Race(k)
      BY <1>1, <1>4, <2>1 DEF StartPasskey, Begin
  <2>4. /\ call' \in [Threads -> PasskeyCalls]
        /\ call'[t] = c /\ \A v \in Threads \ {t} : call'[v] = call[v]
      BY <2>2, <2>3, PasskeyCallMoves
  <2>5. RacesAreSeen' /\ raced \subseteq raced'
      BY <2>2, <2>3, <2>4, ToWrite
  <2>6. AllBeat'
    <3>1. c \notin Assertions
        BY <2>2, PasskeyKinds
    <3>2. Beats(c)' /\ \A d \in PasskeyCalls : Beats(d) => Beats(d)'
        BY <1>2, <2>5, <3>1 DEF Beats
    <3> QED BY <2>4, <3>2 DEF AllBeat
  <2>7. PasskeyTypes' /\ CounterIsHighest'
      BY <1>2, <2>4, <2>5 DEF PasskeyTypes, CounterIsHighest
  <2> QED BY <2>5, <2>6, <2>7
<1> QED BY <1>3, <1>4

LEMMA CheckAssertionKeeps == ASSUME PasskeyInv, NEW t \in Threads, CheckAssertion(t) PROVE PasskeyInv'
<1> USE DEF PasskeyInv
<1>1. PICK c \in PasskeyCalls : c = call[t]
    BY DEF PasskeyTypes
<1>2. c \in Assertions /\ UNCHANGED <<minted, challenge, credential, highest>>
    BY <1>1, PasskeyKinds DEF CheckAssertion, At
<1>3. CASE Return(t) /\ UNCHANGED raced
  <2>1. call' = [call EXCEPT ![t] = NoCall] /\ NoCall.step = "none"
      BY <1>3 DEF Return, GoOn, NoCall
  <2> QED BY <1>2, <1>3, <2>1, NothingBeats, NotToWrite DEF PasskeyTypes
<1>4. CASE /\ c.k \in DOMAIN credential /\ c.n > credential[c.k].sign_count
           /\ GoTo(t, "read") /\ Race(c.k)
  <2>1. PICK d : d = [c EXCEPT !.step = "read"]
      OBVIOUS
  <2>2. d \in Assertions /\ d \in PasskeyCalls /\ d.k = c.k /\ d.n = c.n /\ d.k \in Credentials
      BY <1>2, <2>1 DEF PasskeyCalls, Assertions
  <2>3. call' = [call EXCEPT ![t] = d]
      BY <1>1, <1>4, <2>1 DEF GoTo, GoOn
  <2>4. /\ call' \in [Threads -> PasskeyCalls]
        /\ call'[t] = d /\ \A v \in Threads \ {t} : call'[v] = call[v]
      BY <2>2, <2>3, PasskeyCallMoves
  <2>5. RacesAreSeen' /\ raced \subseteq raced'
      BY <1>4, <2>2, <2>4, ToWrite
  <2>6. AllBeat'
    <3>1. Beats(d)' /\ \A e \in PasskeyCalls : Beats(e) => Beats(e)'
        BY <1>2, <1>4, <2>2, <2>5 DEF Beats
    <3> QED BY <2>4, <3>1 DEF AllBeat
  <2>7. PasskeyTypes' /\ CounterIsHighest'
      BY <1>2, <2>4, <2>5 DEF PasskeyTypes, CounterIsHighest
  <2> QED BY <2>5, <2>6, <2>7
<1> QED BY <1>1, <1>3, <1>4 DEF CheckAssertion

(* A credential is written, and its writer is done.                        *)
LEMMA WriteKeeps ==
    ASSUME PasskeyInv, NEW t \in Threads, NEW k \in Credentials, Writes(t, k), Return(t),
           PasskeyTypes', UNCHANGED raced,
           DOMAIN credential' = DOMAIN credential \cup {k},
           \A l \in DOMAIN credential \ {k} :
               credential'[l] = credential[l] /\ highest'[l] = highest[l],
           k \notin raced => credential'[k].sign_count = highest'[k]
    PROVE  PasskeyInv'
<1> USE DEF PasskeyInv
<1>1. call' = [call EXCEPT ![t] = NoCall]
    BY DEF Return, GoOn
<1>2. /\ call' \in [Threads -> PasskeyCalls]
      /\ call'[t] = NoCall /\ \A v \in Threads \ {t} : call'[v] = call[v]
    BY <1>1, NothingBeats, PasskeyCallMoves
<1>3. RacesAreSeen'
    BY <1>2 DEF RacesAreSeen, Writes, NoCall
<1>4. CounterIsHighest'
    BY DEF CounterIsHighest
<1>5. AllBeat'
  <2> SUFFICES ASSUME NEW v \in Threads, NEW c \in PasskeyCalls, call'[v] = c,
                      c \in Assertions, c.step \in {"read", "update"}
               PROVE  Beats(c)'
      BY DEF AllBeat, Beats
  <2>1. v # t /\ c = call[v] /\ c.k \in Credentials
      BY <1>2, NothingBeats DEF Assertions
  <2>2. Beats(c) /\ Writes(v, c.k)
      BY <2>1 DEF AllBeat, Writes
  <2>3. c.k = k => k \in raced
      BY <2>1, <2>2 DEF RacesAreSeen
  <2> QED BY <2>2, <2>3 DEF Beats
<1> QED BY <1>3, <1>4, <1>5

LEMMA AddCredentialKeeps == ASSUME PasskeyInv, NEW t \in Threads, AddCredential(t) PROVE PasskeyInv'
<1> USE DEF PasskeyInv
<1>1. PICK c \in PasskeyCalls : c = call[t]
    BY DEF PasskeyTypes
<1>2. /\ c \in Registrations /\ c.step = "add" /\ Return(t)
      /\ UNCHANGED <<minted, challenge, raced>>
    BY <1>1, PasskeyKinds DEF AddCredential, At
<1>3. PICK row : row = [user_id |-> c.u, sign_count |-> c.n]
    OBVIOUS
<1>4. /\ row \in StoredCredentials /\ row.sign_count = c.n /\ c.n \in Nat /\ c.k \in Credentials
    BY <1>2, <1>3, CeremoniesAssumption DEF Registrations, StoredCredentials
<1>5. /\ credential' = Insert(credential, c.k, row) /\ highest' = Insert(highest, c.k, c.n)
    BY <1>1, <1>3 DEF AddCredential
<1>6. /\ DOMAIN credential' = DOMAIN credential \cup {c.k} /\ credential'[c.k] = row
      /\ \A l \in DOMAIN credential \ {c.k} : credential'[l] = credential[l]
      /\ credential' \in [DOMAIN credential' -> StoredCredentials]
  <2>1. credential \in [DOMAIN credential -> StoredCredentials]
      BY DEF PasskeyTypes
  <2> QED BY <1>4, <1>5, <2>1 DEF Insert
<1>7. /\ highest' \in [DOMAIN credential' -> Nat] /\ highest'[c.k] = c.n
      /\ \A l \in DOMAIN credential \ {c.k} : highest'[l] = highest[l]
  <2>1. highest \in [DOMAIN credential -> Nat]
      BY DEF PasskeyTypes
  <2> QED BY <1>4, <1>5, <1>6, <2>1 DEF Insert
<1>8. PasskeyTypes'
  <2>1. call' \in [Threads -> PasskeyCalls]
      BY <1>2, NothingBeats, PasskeyCallMoves DEF Return, GoOn
  <2> QED BY <1>2, <1>6, <1>7, <2>1 DEF PasskeyTypes
<1>9. Writes(t, c.k)
    BY <1>1, <1>2 DEF Writes
<1> QED BY <1>2, <1>4, <1>6, <1>7, <1>8, <1>9, WriteKeeps

LEMMA ReadCredentialKeeps == ASSUME PasskeyInv, NEW t \in Threads, ReadCredential(t) PROVE PasskeyInv'
<1> USE DEF PasskeyInv
<1>1. PICK c \in PasskeyCalls : c = call[t]
    BY DEF PasskeyTypes
<1>2. /\ c \in Assertions /\ c.step = "read" /\ Beats(c)
      /\ UNCHANGED <<minted, challenge, credential, highest, raced>>
    BY <1>1, PasskeyKinds DEF ReadCredential, At, AllBeat, ceremonyVars
<1>3. PICK row \in StoredCredentials : row = credential[c.k]
    BY <1>2 DEF Beats, PasskeyTypes
<1>4. PICK d : d = [c EXCEPT !.step = "update", !.owner = row.user_id]
    OBVIOUS
<1>5. /\ d \in Assertions /\ d \in PasskeyCalls
      /\ d.k = c.k /\ d.n = c.n /\ d.step \in {"read", "update"}
    BY <1>2, <1>3, <1>4 DEF PasskeyCalls, Assertions, StoredCredentials
<1>6. call' = [call EXCEPT ![t] = d]
    BY <1>1, <1>3, <1>4 DEF ReadCredential, GoOn
<1>7. /\ call' \in [Threads -> PasskeyCalls]
      /\ call'[t] = d /\ \A v \in Threads \ {t} : call'[v] = call[v]
    BY <1>5, <1>6, PasskeyCallMoves
<1>8. \A v \in Threads, k \in Credentials : Writes(v, k)' => Writes(v, k)
  <2>1. \A k \in Credentials : Writes(t, k)' => Writes(t, k)
      BY <1>1, <1>2, <1>5, <1>7 DEF Writes
  <2> QED BY <1>7, <2>1 DEF Writes
<1>9. AllBeat'
  <2>1. Beats(d)' /\ \A e \in PasskeyCalls : Beats(e) => Beats(e)'
      BY <1>2, <1>5 DEF Beats
  <2> QED BY <1>7, <2>1 DEF AllBeat
<1>10. PasskeyTypes' /\ CounterIsHighest'
    BY <1>2, <1>7 DEF PasskeyTypes, CounterIsHighest
<1>11. RacesAreSeen'
    BY <1>2, <1>8 DEF RacesAreSeen
<1> QED BY <1>9, <1>10, <1>11

LEMMA UpdateCounterKeeps == ASSUME PasskeyInv, NEW t \in Threads, UpdateCounter(t) PROVE PasskeyInv'
<1> USE DEF PasskeyInv
<1>1. PICK c \in PasskeyCalls : c = call[t]
    BY DEF PasskeyTypes
<1>2. /\ c \in Assertions /\ c.step = "update" /\ Return(t) /\ Beats(c)
      /\ UNCHANGED <<minted, challenge, raced>>
    BY <1>1, PasskeyKinds DEF UpdateCounter, At, AllBeat
<1>3. c.n \in Nat /\ c.k \in Credentials /\ c.k \in DOMAIN credential
    BY <1>2, CeremoniesAssumption DEF Assertions, Beats
<1>4. PICK row : row = [user_id |-> c.owner, sign_count |-> c.n]
    OBVIOUS
<1>5. c.owner \in Accounts
    BY <1>2 DEF Assertions
<1>6. row \in StoredCredentials /\ row.sign_count = c.n
    BY <1>3, <1>4, <1>5 DEF StoredCredentials
<1>7. credential' = [credential EXCEPT ![c.k] = row]
    BY <1>1, <1>4 DEF UpdateCounter
<1>8. /\ DOMAIN credential' = DOMAIN credential /\ credential'[c.k] = row
      /\ \A l \in DOMAIN credential \ {c.k} : credential'[l] = credential[l]
      /\ credential' \in [DOMAIN credential' -> StoredCredentials]
    BY <1>3, <1>6, <1>7 DEF PasskeyTypes
<1>9. PICK h \in Nat : h = highest[c.k]
    BY <1>3 DEF PasskeyTypes
<1>10. highest' = [highest EXCEPT ![c.k] = IF c.n > h THEN c.n ELSE h]
    BY <1>1, <1>9 DEF UpdateCounter
<1>11. /\ highest' \in [DOMAIN credential' -> Nat] /\ highest'[c.k] = IF c.n > h THEN c.n ELSE h
       /\ \A l \in DOMAIN credential \ {c.k} : highest'[l] = highest[l]
    BY <1>3, <1>8, <1>9, <1>10 DEF PasskeyTypes
<1>12. PasskeyTypes'
  <2>1. call' \in [Threads -> PasskeyCalls]
      BY <1>2, NothingBeats, PasskeyCallMoves DEF Return, GoOn
  <2> QED BY <1>2, <1>8, <1>11, <2>1 DEF PasskeyTypes
<1>13. c.k \notin raced => highest'[c.k] = c.n
    BY <1>2, <1>3, <1>9, <1>11 DEF Beats, CounterIsHighest
<1>14. Writes(t, c.k)
    BY <1>1, <1>2 DEF Writes
<1> QED BY <1>2, <1>3, <1>6, <1>8, <1>11, <1>12, <1>13, <1>14, WriteKeeps

LEMMA PasskeysKept == PInv /\ [Next]_vars => PInv'
<1> SUFFICES ASSUME PInv, [Next]_vars PROVE PInv'
    OBVIOUS
<1>0. use' = use
    BY UseStays
<1>1. CASE use # "passkeys"
  <2>1. UNCHANGED credential
    <3>1. use # "logins" => UNCHANGED credential
        BY <1>1, UseStays DEF ceremonyVars
    <3>2. Still \/ (\E nonce \in Ids : IssueIdToken(nonce)) \/ (\E t \in Threads : BrowserStep(t))
            => UNCHANGED credential
        BY DEF Still, ceremonyVars, passkeys, IssueIdToken, BrowserStep, EvictExpired, CountPending,
               InsertTransaction, PopTransaction, ValidateIdToken, StartAuthorization, BeginLink,
               CompleteLink, StartCallback
    <3>3. use = "logins" => Still \/ (\E nonce \in Ids : IssueIdToken(nonce))
                                  \/ (\E t \in Threads : BrowserStep(t))
        BY UseSteps DEF BySessions, ByVault
    <3> QED BY <3>1, <3>2, <3>3
  <2> QED BY <1>0, <1>1, <2>1 DEF PInv
<1>2. CASE use = "passkeys"
  <2>0. PasskeyInv
      BY <1>2 DEF PInv
  <2>1. CASE Still
    <3>1. UNCHANGED <<minted, call, challenge, credential, highest, raced>>
        BY <2>1 DEF Still, ceremonyVars
    <3> QED BY <1>0, <1>2, <2>0, <3>1, ChallengesMove DEF PInv, PasskeyInv, PasskeyTypes
  <2>2. ASSUME NEW t \in Threads, PasskeyStep(t) PROVE PasskeyInv'
    <3>1. CASE AddCredential(t) \/ CheckAssertion(t) \/ ReadCredential(t) \/ UpdateCounter(t)
        BY <2>0, <3>1, AddCredentialKeeps, CheckAssertionKeeps, ReadCredentialKeeps,
           UpdateCounterKeeps
    <3>2. ASSUME NEW u \in Accounts, NEW purpose \in {"register", "assert"},
                 IssueChallenge(t, u, purpose) \/ RefusePasskey(t, u, purpose)
          PROVE  PasskeyInv'
        BY <2>0, <3>2, IssueChallengeKeeps, RefusePasskeyKeeps
    <3>3. ASSUME NEW u \in Accounts, NEW purpose \in {"register", "assert"},
                 NEW k \in Credentials, NEW n \in Counts, StartPasskey(t, u, purpose, k, n)
          PROVE  PasskeyInv'
        BY <2>0, <3>3, StartPasskeyKeeps
    <3> QED BY <2>2, <3>1, <3>2, <3>3 DEF PasskeyStep
  <2>3. Still \/ \E t \in Threads : PasskeyStep(t)
      BY <1>2, UseSteps DEF BySessions, ByVault
  <2> QED BY <1>0, <1>2, <2>1, <2>2, <2>3 DEF PInv
<1> QED BY <1>1, <1>2

LEMMA PasskeysStart == Init => PInv
<1> SUFFICES ASSUME Init PROVE PInv
    OBVIOUS
<1>1. /\ minted = 0 /\ call = [t \in Threads |-> NoCall]
      /\ challenge = Empty /\ credential = Empty /\ highest = Empty
    BY DEF Init, CeremoniesInit
<1>2. DOMAIN challenge = {} /\ DOMAIN credential = {} /\ DOMAIN highest = {}
    BY <1>1 DEF Empty
<1>3. PasskeyTypes
  <2>1. call \in [Threads -> PasskeyCalls]
      BY <1>1, NothingBeats
  <2>2. challenge \in [{} -> Nat] /\ highest \in [{} -> Nat] /\ credential \in [{} -> StoredCredentials]
      BY <1>1 DEF Empty
  <2> QED BY <1>1, <1>2, <2>1, <2>2 DEF PasskeyTypes
<1>4. RacesAreSeen /\ AllBeat /\ CounterIsHighest
    BY <1>1, <1>2, NothingBeats DEF RacesAreSeen, Writes, NoCall, AllBeat, CounterIsHighest
<1> QED BY <1>1, <1>3, <1>4 DEF PInv, PasskeyInv

(* WebAuthnRelyingParty: the stored counter is the highest one accepted    *)
(* since the registration, so no assertion is accepted again, as long as   *)
(* no two requests updated the credential at once.                         *)
THEOREM CountersAreHighest == Spec => []CounterIsHighest
<1>1. PInv => CounterIsHighest
    BY DEF PInv, PasskeyInv, CounterIsHighest, Empty
<1> QED BY <1>1, PasskeysStart, PasskeysKept, PTL DEF Spec
-------------------------------------------------------------------------------
(* Tickets.  A ticket is live while one store or one thread holds it, and  *)
(* what holds it knows whom it was issued to; one that was spent is held   *)
(* nowhere.                                                                *)
LiveIds == {x \in Ids : InStore(x) \/ InHand(x)}
SpentIds == {x \in Ids : uses[x] = 1}
Unspent == DOMAIN issuedTo \ SpentIds
TicketInv ==
    /\ minted \in 0 .. MaxIds /\ DOMAIN issuedTo = 1 .. minted
    /\ uses \in [Ids -> {0, 1}] /\ SpentIds \subseteq DOMAIN issuedTo
    /\ LiveIds \subseteq Unspent

LEMMA UnspentIds == TicketInv => Unspent \subseteq Ids
<1> SUFFICES ASSUME TicketInv, NEW x \in DOMAIN issuedTo PROVE x \in Ids
    BY DEF Unspent
<1>1. PICK n \in 0 .. MaxIds : n = minted
    BY DEF TicketInv
<1>2. x \in 1 .. n
    BY <1>1 DEF TicketInv
<1> QED BY <1>2, CallsAssumption DEF Ids

StatusOf(issued, spent, live) ==
    [x \in Ids |-> IF x \notin issued THEN "unissued" ELSE IF x \in spent THEN "spent" ELSE
                   IF x \in live THEN "live" ELSE "void"]

LEMMA StatusIs ==
    ASSUME uses \in [Ids -> {0, 1}]
    PROVE  TicketStatus = StatusOf(DOMAIN issuedTo, SpentIds, LiveIds)
<1>1. \A x \in Ids : uses[x] \in {0, 1}
    OBVIOUS
<1>2. \A x \in Ids : (x \in SpentIds <=> uses[x] = 1) /\ (x \in LiveIds <=> InStore(x) \/ InHand(x))
    BY DEF SpentIds, LiveIds
<1>3. ASSUME NEW x \in Ids
      PROVE  TicketStatus[x] = StatusOf(DOMAIN issuedTo, SpentIds, LiveIds)[x]
  <2>1. ~(uses[x] > 1)
      BY <1>1
  <2> QED BY <1>2, <2>1 DEF TicketStatus, StatusOf
<1> QED BY <1>3 DEF TicketStatus, StatusOf

LEMMA NextStatusIs ==
    ASSUME uses' \in [Ids -> {0, 1}]
    PROVE  TicketStatus' = StatusOf(DOMAIN issuedTo', SpentIds', LiveIds')
<1>1. \A x \in Ids : uses'[x] \in {0, 1}
    OBVIOUS
<1>2. \A x \in Ids : (x \in SpentIds' <=> uses'[x] = 1)
                     /\ (x \in LiveIds' <=> InStore(x)' \/ InHand(x)')
    BY DEF SpentIds, LiveIds
<1>3. ASSUME NEW x \in Ids
      PROVE  TicketStatus'[x] = StatusOf(DOMAIN issuedTo', SpentIds', LiveIds')[x]
  <2>1. ~(uses'[x] > 1)
      BY <1>1
  <2> QED BY <1>2, <2>1 DEF TicketStatus, StatusOf
<1> QED BY <1>3 DEF TicketStatus, StatusOf

(* A step that issues and spends nothing makes some tickets void, or none. *)
LEMMA VoidStep ==
    ASSUME TicketInv, UNCHANGED <<minted, issuedTo, uses, usedBy>>, LiveIds' \subseteq LiveIds
    PROVE  TicketInv' /\ Tickets!Next
<1>1. TicketInv'
    BY DEF TicketInv, SpentIds, Unspent
<1>2. /\ TicketStatus = StatusOf(DOMAIN issuedTo, SpentIds, LiveIds)
      /\ TicketStatus' = StatusOf(DOMAIN issuedTo, SpentIds, LiveIds')
    BY <1>1, StatusIs, NextStatusIs DEF TicketInv, SpentIds
<1>3. PICK old : old = LiveIds \ LiveIds'
    OBVIOUS
<1>4. \A x \in old : x \in Ids /\ TicketStatus[x] = "live"
    BY <1>2, <1>3 DEF TicketInv, Unspent, StatusOf, LiveIds
<1>5. TicketStatus' = [x \in Ids |-> IF x \in old THEN "void" ELSE TicketStatus[x]]
    BY <1>2, <1>3 DEF TicketInv, Unspent, StatusOf
<1>6. Person(issuedTo)' = Person(issuedTo) /\ Person(usedBy)' = Person(usedBy)
    BY DEF Person
<1> QED BY <1>1, <1>4, <1>5, <1>6 DEF Tickets!Next, Tickets!Void

(* A step that issues a ticket, perhaps in place of others.                *)
LEMMA IssueStep ==
    ASSUME TicketInv, NEW h \in Browsers \cup (Accounts \X {"register", "assert"}), Issue(h),
           UNCHANGED <<uses, usedBy>>, LiveIds' \ {minted + 1} \subseteq LiveIds,
           minted + 1 \in LiveIds'
    PROVE  TicketInv' /\ Tickets!Next
<1>1. PICK y : y = minted + 1
    OBVIOUS
<1>2. /\ y \in Ids /\ y \notin DOMAIN issuedTo /\ minted' = y /\ y \in LiveIds'
      /\ issuedTo' = Insert(issuedTo, y, h) /\ LiveIds' \ {y} \subseteq LiveIds
    BY <1>1 DEF Issue, Mint, Fresh, TicketInv
<1>3. DOMAIN issuedTo' = DOMAIN issuedTo \cup {y} /\ SpentIds' = SpentIds
    BY <1>2 DEF Insert, SpentIds
<1>4. TicketInv'
  <2>0. PICK n \in 0 .. MaxIds : n = minted
      BY DEF TicketInv
  <2>1. minted' \in 0 .. MaxIds /\ DOMAIN issuedTo' = 1 .. minted'
    <3>1. n + 1 \in 1 .. MaxIds /\ minted' = n + 1 /\ DOMAIN issuedTo' = (1 .. n) \cup {n + 1}
        BY <1>1, <1>2, <1>3, <2>0 DEF TicketInv, Ids
    <3>2. n + 1 \in 0 .. MaxIds /\ (1 .. n) \cup {n + 1} = 1 .. n + 1
        BY <3>1, CallsAssumption
    <3> QED BY <3>1, <3>2
  <2> QED BY <1>2, <1>3, <2>1 DEF TicketInv, Unspent
<1>5. /\ TicketStatus = StatusOf(DOMAIN issuedTo, SpentIds, LiveIds)
      /\ TicketStatus' = StatusOf(DOMAIN issuedTo \cup {y}, SpentIds, LiveIds')
    BY <1>3, <1>4, StatusIs, NextStatusIs DEF TicketInv
<1>6. PICK old : old = LiveIds \ LiveIds'
    OBVIOUS
<1>7. \A x \in old : x \in Ids /\ TicketStatus[x] = "live"
    BY <1>5, <1>6 DEF TicketInv, Unspent, StatusOf, LiveIds
<1>8. TicketStatus[y] = "unissued"
    BY <1>2, <1>5 DEF StatusOf
<1>9. TicketStatus' = [x \in Ids |-> IF x = y THEN "live" ELSE
                                     IF x \in old THEN "void" ELSE TicketStatus[x]]
  <2>1. y \notin SpentIds
      BY <1>2 DEF TicketInv
  <2> QED BY <1>2, <1>5, <1>6, <2>1 DEF TicketInv, Unspent, StatusOf
<1>10. Person(issuedTo)' = [Person(issuedTo) EXCEPT ![y] = h]
    BY <1>2 DEF Person, Insert
<1>11. Person(usedBy)' = Person(usedBy)
    BY DEF Person
<1>12. Tickets!Issue(y, h)
    BY <1>7, <1>8, <1>9, <1>10, <1>11 DEF Tickets!Issue
<1> QED BY <1>2, <1>4, <1>12 DEF Tickets!Next

(* A step that spends a ticket for the holder it was issued to.            *)
LEMMA SpendStep ==
    ASSUME TicketInv, NEW x \in LiveIds, Complete(x, issuedTo[x]), UNCHANGED <<minted, issuedTo>>,
           LiveIds' = LiveIds \ {x}
    PROVE  TicketInv' /\ Tickets!Next
<1>1. PICK h : h = issuedTo[x]
    OBVIOUS
<1>2. /\ x \in Ids /\ x \in DOMAIN issuedTo /\ uses[x] = 0 /\ x \notin SpentIds
      /\ usedBy' = Insert(usedBy, x, h) /\ uses' = [uses EXCEPT ![x] = uses[x] + 1]
    BY <1>1 DEF TicketInv, Unspent, LiveIds, SpentIds, Complete
<1>3. uses' \in [Ids -> {0, 1}] /\ uses'[x] = 1 /\ \A y \in Ids \ {x} : uses'[y] = uses[y]
    BY <1>2 DEF TicketInv
<1>4. SpentIds' = SpentIds \cup {x}
    BY <1>2, <1>3 DEF SpentIds
<1>5. TicketInv'
    BY <1>2, <1>3, <1>4 DEF TicketInv, Unspent
<1>6. /\ TicketStatus = StatusOf(DOMAIN issuedTo, SpentIds, LiveIds)
      /\ TicketStatus' = StatusOf(DOMAIN issuedTo, SpentIds \cup {x}, LiveIds \ {x})
    BY <1>3, <1>4, StatusIs, NextStatusIs DEF TicketInv
<1>7. TicketStatus[x] = "live"
    BY <1>2, <1>6 DEF StatusOf
<1>8. TicketStatus' = [TicketStatus EXCEPT ![x] = "spent"]
    BY <1>2, <1>6 DEF StatusOf
<1>9. Person(usedBy)' = [Person(usedBy) EXCEPT ![x] = h]
    BY <1>2 DEF Person, Insert
<1>10. Person(issuedTo)' = Person(issuedTo) /\ Person(issuedTo)[x] = h
    BY <1>1, <1>2 DEF Person
<1>11. Tickets!Spend(x)
    BY <1>7, <1>8, <1>9, <1>10 DEF Tickets!Spend, Tickets!Become
<1> QED BY <1>2, <1>5, <1>11 DEF Tickets!Next
-------------------------------------------------------------------------------
(* Logins and linkings: a state is kept by one store, or by the callback   *)
(* that has popped it.                                                     *)
Carriers == {t \in Threads : At(t, "consume", "id token")}
LoginTickets ==
    /\ challenge = Empty /\ DOMAIN pending \cap DOMAIN linking = {}
    /\ \A x \in DOMAIN pending : x \in Unspent /\ pending[x].ua_binding = issuedTo[x]
    /\ \A x \in DOMAIN linking : x \in Unspent /\ linking[x] = issuedTo[x]
    /\ \A t \in Carriers :
        /\ call[t].state \in Unspent /\ call[t].txn.ua_binding = issuedTo[call[t].state]
        /\ call[t].state \notin DOMAIN pending \cup DOMAIN linking
        /\ \A u \in Carriers : call[u].state = call[t].state => u = t

LEMMA LoginCallSteps == \A c \in LoginCalls : c.step \notin {"add", "check", "read", "update"}
<1>1. NoCall.step = "none"
    BY DEF NoCall
<1>2. \A c \in Puts : c.step \notin {"add", "check", "read", "update"}
    BY DEF Puts
<1>3. \A c \in Callbacks : c.step \notin {"add", "check", "read", "update"}
    BY DEF Callbacks
<1> QED BY <1>1, <1>2, <1>3 DEF LoginCalls

LEMMA LoginLives ==
    ASSUME LoginTypes, LoginTickets
    PROVE  \A x : x \in LiveIds <=>
                    /\ x \in Ids
                    /\ x \in DOMAIN pending \cup DOMAIN linking \/ \E t \in Carriers : call[t].state = x
<1>1. DOMAIN challenge = {}
    BY DEF LoginTickets, Empty
<1>2. \A t \in Threads : call[t].step \notin {"add", "check", "read", "update"}
    BY LoginCallSteps DEF LoginTypes
<1> QED BY <1>1, <1>2 DEF LiveIds, InStore, InHand, Carriers

LEMMA NextLoginLives ==
    ASSUME LoginTypes', LoginTickets'
    PROVE  \A x : x \in LiveIds' <=>
                    /\ x \in Ids
                    /\ x \in DOMAIN pending' \cup DOMAIN linking' \/ \E t \in Carriers' : call'[t].state = x
<1>1. DOMAIN challenge' = {}
    BY DEF LoginTickets, Empty
<1>2. \A t \in Threads : call'[t].step \notin {"add", "check", "read", "update"}
    BY LoginCallSteps DEF LoginTypes
<1> QED BY <1>1, <1>2 DEF LiveIds, InStore, InHand, Carriers

LoginsImplement == LoginTickets' /\ TicketInv' /\ Tickets!Next

(* A step that moves no state anywhere, but may lose some.                 *)
LEMMA StatesAreLost ==
    ASSUME LoginTypes, LoginTypes', LoginTickets, TicketInv,
           UNCHANGED <<minted, issuedTo, uses, usedBy, challenge>>,
           DOMAIN pending' \subseteq DOMAIN pending, DOMAIN linking' \subseteq DOMAIN linking,
           \A x \in DOMAIN pending' : pending'[x] = pending[x],
           \A x \in DOMAIN linking' : linking'[x] = linking[x],
           \A t \in Carriers' : t \in Carriers /\ call'[t] = call[t]
    PROVE  LoginsImplement
<1>1. LoginTickets'
    BY DEF LoginTickets, Unspent, SpentIds
<1>2. LiveIds' \subseteq LiveIds
    BY <1>1, LoginLives, NextLoginLives
<1> QED BY <1>1, <1>2, VoidStep DEF LoginsImplement

(* A thread's call moves on, not to holding a state.                       *)
LEMMA HandsEmpty ==
    ASSUME LoginTypes, NEW t \in Threads, NEW c, call' = [call EXCEPT ![t] = c],
           c.step # "id token"
    PROVE  Carriers' = Carriers \ {t} /\ \A u \in Carriers' : call'[u] = call[u]
<1>1. call'[t] = c /\ \A u \in Threads \ {t} : call'[u] = call[u]
    BY DEF LoginTypes
<1> QED BY <1>1 DEF Carriers, At

LEMMA EvictExpiredLoses ==
    ASSUME LoginTypes, LoginTypes', LoginTickets, TicketInv, NEW t \in Threads, EvictExpired(t)
    PROVE  LoginsImplement
<1>1. PICK c \in LoginCalls : c = call[t]
    BY DEF LoginTypes
<1>2. PICK d : call' = [call EXCEPT ![t] = d] /\ d.step # "id token"
  <2>1. CASE Return(t)
    <3>1. call' = [call EXCEPT ![t] = NoCall] /\ NoCall.step # "id token"
        BY <2>1 DEF Return, GoOn, NoCall
    <3> QED BY <3>1
  <2>2. CASE GoTo(t, c.next)
    <3>1. PICK d : d = [c EXCEPT !.step = c.next]
        OBVIOUS
    <3>2. c \in Puts \cup Callbacks
        BY <1>1, LoginKinds DEF EvictExpired
    <3>3. d.step # "id token"
        BY <3>1, <3>2 DEF Puts, Callbacks
    <3> QED BY <1>1, <2>2, <3>1, <3>3 DEF GoTo, GoOn
  <2> QED BY <1>1, <2>1, <2>2 DEF EvictExpired
<1>3. PICK gone : pending' = Remove(pending, gone)
    BY DEF EvictExpired
<1>4. UNCHANGED <<minted, issuedTo, uses, usedBy, challenge, linking>>
    BY DEF EvictExpired, passkeys
<1>5. DOMAIN pending' \subseteq DOMAIN pending /\ \A x \in DOMAIN pending' : pending'[x] = pending[x]
    BY <1>3 DEF Remove
<1>6. \A u \in Carriers' : u \in Carriers /\ call'[u] = call[u]
    BY <1>2, HandsEmpty
<1> QED BY <1>4, <1>5, <1>6, StatesAreLost

(* Counting, beginning a call: the stores stay as they are.                *)
LEMMA CallsMoveOn ==
    ASSUME LoginTypes, LoginTypes', LoginTickets, TicketInv, NEW t \in Threads, NEW c,
           call' = [call EXCEPT ![t] = c], c.step # "id token",
           UNCHANGED <<minted, issuedTo, uses, usedBy, challenge, pending, linking>>
    PROVE  LoginsImplement
BY HandsEmpty, StatesAreLost

LEMMA CountPendingLoses ==
    ASSUME LoginTypes, LoginTypes', LoginTickets, TicketInv, NEW t \in Threads, CountPending(t)
    PROVE  LoginsImplement
<1>1. PICK c \in LoginCalls : c = call[t]
    BY DEF LoginTypes
<1>2. c \in Puts
    BY <1>1, LoginKinds DEF CountPending, At
<1>3. PICK d : d = [c EXCEPT !.step = "insert"]
    OBVIOUS
<1>4. d.step # "id token" /\ NoCall.step # "id token"
    BY <1>2, <1>3 DEF Puts, NoCall
<1>5. call' = [call EXCEPT ![t] = NoCall] \/ call' = [call EXCEPT ![t] = d]
    BY <1>1, <1>3 DEF CountPending, Return, GoTo, GoOn
<1>6. UNCHANGED <<minted, issuedTo, uses, usedBy, challenge, pending, linking>>
    BY DEF CountPending, ceremonyVars
<1> QED BY <1>4, <1>5, <1>6, CallsMoveOn

LEMMA StartAuthorizationLoses ==
    ASSUME LoginTypes, LoginTypes', LoginTickets, TicketInv, NEW t \in Threads, NEW b,
           StartAuthorization(t, b)
    PROVE  LoginsImplement
<1>1. PICK c : c = [op |-> "put", step |-> "evict", next |-> "count", victims |-> Old,
                    txn |-> [created_at |-> now, ua_binding |-> b]]
    OBVIOUS
<1>2. call' = [call EXCEPT ![t] = c] /\ c.step # "id token"
    BY <1>1 DEF StartAuthorization, Begin
<1>3. UNCHANGED <<minted, issuedTo, uses, usedBy, challenge, pending, linking>>
    BY DEF StartAuthorization, ceremonyVars
<1> QED BY <1>2, <1>3, CallsMoveOn

LEMMA StartCallbackLoses ==
    ASSUME LoginTypes, LoginTypes', LoginTickets, TicketInv, NEW t \in Threads, NEW b, NEW state,
           NEW nonce, StartCallback(t, b, state, nonce)
    PROVE  LoginsImplement
<1>1. PICK c : c = [op |-> "consume", step |-> "evict", next |-> "pop", victims |-> Old,
                    state |-> state, nonce |-> nonce, browser |-> b, started |-> now, txn |-> None]
    OBVIOUS
<1>2. call' = [call EXCEPT ![t] = c] /\ c.step # "id token"
    BY <1>1 DEF StartCallback, Begin
<1>3. UNCHANGED <<minted, issuedTo, uses, usedBy, challenge, pending, linking>>
    BY DEF StartCallback, ceremonyVars
<1> QED BY <1>2, <1>3, CallsMoveOn

(* The callback pops its transaction: the state is now in its hand.        *)
LEMMA PopTransactionMoves ==
    ASSUME LoginTypes, LoginTypes', LoginTickets, TicketInv, NEW t \in Threads, PopTransaction(t)
    PROVE  LoginsImplement
<1>1. PICK c \in Callbacks : c = call[t] /\ c.step = "pop"
  <2>1. PICK c \in LoginCalls : c = call[t]
      BY DEF LoginTypes
  <2> QED BY <2>1, LoginKinds DEF PopTransaction, At
<1>2. PICK x : x = c.state
    OBVIOUS
<1>3. /\ pending' = Remove(pending, {x})
      /\ UNCHANGED <<minted, issuedTo, uses, usedBy, challenge, linking>>
    BY <1>1, <1>2 DEF PopTransaction, passkeys
<1>4. /\ DOMAIN pending' = DOMAIN pending \ {x}
      /\ \A y \in DOMAIN pending' : pending'[y] = pending[y]
    BY <1>3 DEF Remove
<1>5. CASE x \notin DOMAIN pending
  <2>1. call' = [call EXCEPT ![t] = NoCall] /\ NoCall.step # "id token"
      BY <1>1, <1>2, <1>5 DEF PopTransaction, Return, GoOn, NoCall
  <2>2. \A u \in Carriers' : u \in Carriers /\ call'[u] = call[u]
      BY <2>1, HandsEmpty
  <2> QED BY <1>3, <1>4, <2>2, StatesAreLost
<1>6. CASE x \in DOMAIN pending
  <2>1. PICK txn : txn = pending[x]
      OBVIOUS
  <2>2. PICK d : d = [c EXCEPT !.txn = txn, !.step = "id token"]
      OBVIOUS
  <2>3. d.op = "consume" /\ d.step = "id token" /\ d.state = x /\ d.txn = txn
      BY <1>1, <1>2, <2>2 DEF Callbacks
  <2>4. call' = [call EXCEPT ![t] = d]
      BY <1>1, <1>2, <1>6, <2>1, <2>2 DEF PopTransaction, GoOn
  <2>5. call'[t] = d /\ \A u \in Threads \ {t} : call'[u] = call[u]
      BY <2>4 DEF LoginTypes
  <2>6. Carriers' = Carriers \cup {t} /\ t \notin Carriers
      BY <1>1, <2>3, <2>5 DEF Carriers, At
  <2>7. txn.ua_binding = issuedTo[x] /\ x \in Unspent /\ x \notin DOMAIN linking
      BY <1>6, <2>1 DEF LoginTickets
  <2>8. \A u \in Carriers : call[u].state # x /\ u # t /\ call'[u] = call[u]
      BY <1>6, <2>5, <2>6 DEF LoginTickets, Carriers
  <2>9. LoginTickets'
    <3>1. Unspent' = Unspent
        BY <1>3 DEF Unspent, SpentIds
    <3>2. challenge' = Empty /\ DOMAIN pending' \cap DOMAIN linking' = {}
        BY <1>3, <1>4 DEF LoginTickets
    <3>3. \A y \in DOMAIN pending' : y \in Unspent' /\ pending'[y].ua_binding = issuedTo'[y]
        BY <1>3, <1>4, <3>1 DEF LoginTickets
    <3>4. \A y \in DOMAIN linking' : y \in Unspent' /\ linking'[y] = issuedTo'[y]
        BY <1>3, <3>1 DEF LoginTickets
    <3>5. ASSUME NEW u \in Carriers'
          PROVE  /\ call'[u].state \in Unspent'
                 /\ call'[u].txn.ua_binding = issuedTo'[call'[u].state]
                 /\ call'[u].state \notin DOMAIN pending' \cup DOMAIN linking'
      <4>1. CASE u = t
          BY <1>3, <1>4, <2>3, <2>5, <2>7, <3>1, <4>1
      <4>2. CASE u \in Carriers
        <5>1. call'[u] = call[u] /\ call[u].state \in Unspent
              /\ call[u].txn.ua_binding = issuedTo[call[u].state]
              /\ call[u].state \notin DOMAIN pending \cup DOMAIN linking
            BY <2>8, <4>2 DEF LoginTickets
        <5> QED BY <1>3, <1>4, <3>1, <5>1
      <4> QED BY <2>6, <4>1, <4>2
    <3>6. \A u, v \in Carriers' : call'[u].state = call'[v].state => u = v
      <4>1. \A u, v \in Carriers : call[u].state = call[v].state => u = v
          BY DEF LoginTickets
      <4>2. call'[t].state = x
          BY <2>3, <2>5
      <4> QED BY <2>6, <2>8, <4>1, <4>2
    <3> QED BY <3>2, <3>3, <3>4, <3>5, <3>6 DEF LoginTickets
  <2>10. LiveIds' \subseteq LiveIds
    <3> SUFFICES ASSUME NEW y \in LiveIds' PROVE y \in LiveIds
        OBVIOUS
    <3>1. y \in Ids /\ (y \in DOMAIN pending' \cup DOMAIN linking'
                        \/ \E u \in Carriers' : call'[u].state = y)
        BY <2>9, NextLoginLives
    <3>2. y \in DOMAIN pending \cup DOMAIN linking \/ \E u \in Carriers : call[u].state = y
        BY <1>3, <1>4, <1>6, <2>3, <2>5, <2>6, <2>8, <3>1
    <3> QED BY <3>1, <3>2, LoginLives
  <2> QED BY <1>3, <2>9, <2>10, VoidStep DEF LoginsImplement
<1> QED BY <1>5, <1>6

(* A login or a linking is completed with a state of its own: no other is  *)
(* lost or found.                                                          *)
LEMMA StateIsSpent ==
    ASSUME LoginTypes, LoginTypes', LoginTickets, TicketInv, NEW x \in LiveIds,
           Complete(x, issuedTo[x]), UNCHANGED <<minted, issuedTo, challenge>>,
           DOMAIN pending' = DOMAIN pending \ {x}, DOMAIN linking' = DOMAIN linking \ {x},
           \A y \in DOMAIN pending' : pending'[y] = pending[y],
           \A y \in DOMAIN linking' : linking'[y] = linking[y],
           Carriers' = {t \in Carriers : call[t].state # x},
           \A t \in Carriers' : call'[t] = call[t]
    PROVE  LoginsImplement
<1>1. Unspent \ {x} \subseteq Unspent'
  <2>1. \A y \in Ids \ {x} : uses'[y] = uses[y]
      BY DEF Complete, TicketInv
  <2> QED BY <2>1 DEF Unspent, SpentIds
<1>2. LoginTickets'
  <2>1. challenge' = Empty /\ DOMAIN pending' \cap DOMAIN linking' = {}
      BY DEF LoginTickets
  <2>2. \A y \in DOMAIN pending' : y \in Unspent' /\ pending'[y].ua_binding = issuedTo'[y]
      BY <1>1 DEF LoginTickets
  <2>3. \A y \in DOMAIN linking' : y \in Unspent' /\ linking'[y] = issuedTo'[y]
      BY <1>1 DEF LoginTickets
  <2>4. ASSUME NEW t \in Carriers'
        PROVE  /\ call'[t].state \in Unspent' /\ call'[t].txn.ua_binding = issuedTo'[call'[t].state]
               /\ call'[t].state \notin DOMAIN pending' \cup DOMAIN linking'
               /\ \A u \in Carriers' : call'[u].state = call'[t].state => u = t
      BY <1>1 DEF LoginTickets
  <2> QED BY <2>1, <2>2, <2>3, <2>4 DEF LoginTickets
<1>3. LiveIds' = LiveIds \ {x}
  <2>1. ASSUME NEW y \in Ids
        PROVE  (\E t \in Carriers' : call'[t].state = y) <=> y # x /\ \E t \in Carriers : call[t].state = y
      OBVIOUS
  <2>2. \A y : y \in LiveIds' <=> y \in LiveIds \ {x}
      BY <1>2, <2>1, LoginLives, NextLoginLives
  <2> QED BY <2>2
<1> QED BY <1>2, <1>3, SpendStep DEF LoginsImplement

LEMMA ValidateIdTokenSpends ==
    ASSUME LoginTypes, LoginTypes', LoginTickets, TicketInv, NEW t \in Threads, ValidateIdToken(t)
    PROVE  LoginsImplement
<1>1. PICK c \in Callbacks : c = call[t] /\ c.step = "id token" /\ c.op = "consume"
  <2>1. PICK c \in LoginCalls : c = call[t]
      BY DEF LoginTypes
  <2> QED BY <2>1, LoginKinds DEF ValidateIdToken, At
<1>2. /\ call' = [call EXCEPT ![t] = NoCall] /\ NoCall.step # "id token"
      /\ UNCHANGED <<minted, issuedTo, challenge, pending, linking>>
    BY DEF ValidateIdToken, Return, GoOn, NoCall, passkeys
<1>3. CASE ~Accepted(c)
  <2>1. UNCHANGED <<uses, usedBy>>
      BY <1>1, <1>3 DEF ValidateIdToken
  <2> QED BY <1>2, <2>1, CallsMoveOn
<1>4. CASE Accepted(c)
  <2>1. PICK x : x = c.state
      OBVIOUS
  <2>2. t \in Carriers /\ call[t].state = x
      BY <1>1, <2>1 DEF Carriers, At
  <2>3. x \in Unspent /\ c.txn.ua_binding = issuedTo[x] /\ x \notin DOMAIN pending \cup DOMAIN linking
        /\ \A u \in Carriers : call[u].state = x => u = t
      BY <1>1, <2>2 DEF LoginTickets
  <2>4. x \in LiveIds
    <3>1. x \in Ids
        BY <2>3, UnspentIds
    <3> QED BY <2>2, <3>1, LoginLives
  <2>5. c.nonce = x /\ c.browser = issuedTo[x]
      BY <1>4, <2>1, <2>3 DEF Accepted
  <2>6. Complete(x, issuedTo[x])
    <3>1. Complete(c.nonce, c.browser)
        BY <1>1, <1>4 DEF ValidateIdToken
    <3> QED BY <2>5, <3>1 DEF Complete
  <2>7. Carriers' = {u \in Carriers : call[u].state # x} /\ \A u \in Carriers' : call'[u] = call[u]
    <3>1. Carriers' = Carriers \ {t} /\ \A u \in Carriers' : call'[u] = call[u]
        BY <1>2, HandsEmpty
    <3>2. \A u \in Carriers : call[u].state # x <=> u # t
        BY <2>2, <2>3
    <3> QED BY <3>1, <3>2
  <2> QED BY <1>2, <2>3, <2>4, <2>6, <2>7, StateIsSpent
<1> QED BY <1>3, <1>4

LEMMA CompleteLinkSpends ==
    ASSUME LoginTypes, LoginTypes', LoginTickets, TicketInv, NEW t, NEW b, NEW x,
           CompleteLink(t, b, x)
    PROVE  LoginsImplement
<1>1. /\ linking' = Remove(linking, {x})
      /\ UNCHANGED <<minted, issuedTo, challenge, pending, call>>
    BY DEF CompleteLink, OneStep, passkeys
<1>2. /\ DOMAIN linking' = DOMAIN linking \ {x} /\ Carriers' = Carriers
      /\ \A y \in DOMAIN linking' : linking'[y] = linking[y]
    BY <1>1 DEF Remove, Carriers, At
<1>3. CASE x \in DOMAIN linking /\ linking[x] = b
  <2>1. /\ x \in Unspent /\ b = issuedTo[x] /\ x \notin DOMAIN pending
        /\ \A u \in Carriers : call[u].state # x
      BY <1>3 DEF LoginTickets
  <2>2. x \in LiveIds
    <3>1. x \in Ids
        BY <2>1, UnspentIds
    <3> QED BY <1>3, <3>1, LoginLives
  <2>3. Complete(x, issuedTo[x])
      BY <1>3, <2>1 DEF CompleteLink, Complete
  <2>4. Carriers' = {u \in Carriers : call[u].state # x} /\ \A u \in Carriers' : call'[u] = call[u]
      BY <1>1, <1>2, <2>1
  <2> QED BY <1>1, <1>2, <2>1, <2>2, <2>3, <2>4, StateIsSpent
<1>4. CASE ~(x \in DOMAIN linking /\ linking[x] = b)
  <2>1. UNCHANGED <<uses, usedBy>>
      BY <1>4 DEF CompleteLink
  <2> QED BY <1>1, <1>2, <2>1, StatesAreLost
<1> QED BY <1>3, <1>4

(* A thread issues a state: a transaction or a linking is stored.          *)
LEMMA StateIsIssued ==
    ASSUME LoginTypes, LoginTypes', LoginTickets, TicketInv, NEW b \in Browsers, Issue(b),
           UNCHANGED <<uses, usedBy, challenge>>,
           \/ /\ DOMAIN pending' = DOMAIN pending \cup {minted + 1}
              /\ pending'[minted + 1].ua_binding = b /\ UNCHANGED linking
              /\ \A x \in DOMAIN pending : pending'[x] = pending[x]
           \/ /\ DOMAIN linking' = DOMAIN linking \cup {minted + 1}
              /\ linking'[minted + 1] = b /\ UNCHANGED pending
              /\ \A x \in DOMAIN linking : linking'[x] = linking[x],
           Carriers' \subseteq Carriers, \A t \in Carriers' : call'[t] = call[t]
    PROVE  LoginsImplement
<1>1. PICK y : y = minted + 1
    OBVIOUS
<1>2. y \in Ids /\ y \notin DOMAIN issuedTo /\ issuedTo' = Insert(issuedTo, y, b)
    BY <1>1 DEF Issue, Mint, Fresh, TicketInv
<1>3. /\ DOMAIN issuedTo' = DOMAIN issuedTo \cup {y} /\ issuedTo'[y] = b
      /\ \A x \in DOMAIN issuedTo : issuedTo'[x] = issuedTo[x]
    BY <1>2 DEF Insert
<1>4. /\ SpentIds' = SpentIds /\ Unspent' = Unspent \cup {y} /\ y \notin Unspent
      /\ \A x \in Unspent : issuedTo'[x] = issuedTo[x] /\ x # y
    BY <1>2, <1>3 DEF TicketInv, SpentIds, Unspent
<1>5. y \notin DOMAIN pending \cup DOMAIN linking /\ \A t \in Carriers : call[t].state # y
    BY <1>4 DEF LoginTickets
<1>6. LoginTickets'
  <2>1. challenge' = Empty /\ DOMAIN pending' \cap DOMAIN linking' = {}
      BY <1>1, <1>5 DEF LoginTickets
  <2>2. ASSUME NEW x \in DOMAIN pending'
        PROVE  x \in Unspent' /\ pending'[x].ua_binding = issuedTo'[x]
    <3>1. CASE x = y /\ pending'[x].ua_binding = b
        BY <1>3, <1>4, <3>1
    <3>2. CASE x \in DOMAIN pending /\ pending'[x] = pending[x]
        BY <1>4, <3>2 DEF LoginTickets
    <3> QED BY <1>1, <3>1, <3>2
  <2>3. ASSUME NEW x \in DOMAIN linking' PROVE x \in Unspent' /\ linking'[x] = issuedTo'[x]
    <3>1. CASE x = y /\ linking'[x] = b
        BY <1>3, <1>4, <3>1
    <3>2. CASE x \in DOMAIN linking /\ linking'[x] = linking[x]
        BY <1>4, <3>2 DEF LoginTickets
    <3> QED BY <1>1, <3>1, <3>2
  <2>4. DOMAIN pending' \cup DOMAIN linking' = DOMAIN pending \cup DOMAIN linking \cup {y}
      BY <1>1
  <2>5. ASSUME NEW t \in Carriers'
        PROVE  /\ call'[t].state \in Unspent' /\ call'[t].txn.ua_binding = issuedTo'[call'[t].state]
               /\ call'[t].state \notin DOMAIN pending' \cup DOMAIN linking'
    <3>1. t \in Carriers /\ call'[t] = call[t]
        BY <2>5
    <3>2. /\ call[t].state \in Unspent /\ call[t].txn.ua_binding = issuedTo[call[t].state]
          /\ call[t].state \notin DOMAIN pending \cup DOMAIN linking
        BY <3>1 DEF LoginTickets
    <3> QED BY <1>4, <2>4, <3>1, <3>2
  <2>6. \A t, u \in Carriers' : call'[u].state = call'[t].state => u = t
      BY DEF LoginTickets
  <2> QED BY <2>1, <2>2, <2>3, <2>5, <2>6 DEF LoginTickets
<1>7. y \in LiveIds' /\ LiveIds' \ {y} \subseteq LiveIds
  <2>1. y \in DOMAIN pending' \cup DOMAIN linking'
      BY <1>1
  <2>2. \A x : x \in DOMAIN pending' \cup DOMAIN linking' => x = y \/ x \in DOMAIN pending \cup DOMAIN linking
      BY <1>1
  <2> QED BY <1>2, <1>6, <2>1, <2>2, LoginLives, NextLoginLives
<1> QED BY <1>1, <1>6, <1>7, IssueStep DEF LoginsImplement

LEMMA InsertTransactionIssues ==
    ASSUME LoginTypes, LoginTypes', LoginTickets, TicketInv, NEW t \in Threads, InsertTransaction(t)
    PROVE  LoginsImplement
<1>1. PICK c \in Puts : c = call[t]
  <2>1. PICK c \in LoginCalls : c = call[t]
      BY DEF LoginTypes
  <2> QED BY <2>1, LoginKinds DEF InsertTransaction, At
<1>2. PICK b \in Browsers : b = c.txn.ua_binding
    BY DEF Puts, Transactions
<1>3. /\ Issue(b) /\ pending' = Insert(pending, minted + 1, c.txn)
      /\ UNCHANGED <<uses, usedBy, challenge, linking>>
    BY <1>1, <1>2 DEF InsertTransaction, Issue, Fresh, passkeys
<1>4. /\ DOMAIN pending' = DOMAIN pending \cup {minted + 1}
      /\ pending'[minted + 1].ua_binding = b
    BY <1>2, <1>3 DEF Insert
<1>5. \A x \in DOMAIN pending : pending'[x] = pending[x]
  <2>1. minted + 1 \notin DOMAIN pending
      BY DEF LoginTypes
  <2> QED BY <1>3, <2>1 DEF Insert
<1>6. \A u \in Carriers' : u \in Carriers /\ call'[u] = call[u]
  <2>1. call' = [call EXCEPT ![t] = NoCall] /\ NoCall.step # "id token"
      BY DEF InsertTransaction, Return, GoOn, NoCall
  <2> QED BY <2>1, HandsEmpty
<1> QED BY <1>3, <1>4, <1>5, <1>6, StateIsIssued

LEMMA BeginLinkIssues ==
    ASSUME LoginTypes, LoginTypes', LoginTickets, TicketInv, NEW t, NEW b \in Browsers,
           BeginLink(t, b)
    PROVE  LoginsImplement
<1>1. /\ Issue(b) /\ linking' = Insert(linking, minted + 1, b)
      /\ UNCHANGED <<uses, usedBy, challenge, pending, call>>
    BY DEF BeginLink, OneStep, Fresh, passkeys
<1>2. DOMAIN linking' = DOMAIN linking \cup {minted + 1} /\ linking'[minted + 1] = b
    BY <1>1 DEF Insert
<1>3. \A x \in DOMAIN linking : linking'[x] = linking[x]
  <2>1. minted + 1 \notin DOMAIN linking
      BY DEF LoginTickets, Unspent, TicketInv
  <2> QED BY <1>1, <2>1 DEF Insert
<1>4. Carriers' = Carriers /\ \A u \in Carriers' : call'[u] = call[u]
    BY <1>1 DEF Carriers, At
<1> QED BY <1>1, <1>2, <1>3, <1>4, StateIsIssued

LEMMA BrowserStepsImplement ==
    ASSUME LoginTypes, LoginTypes', LoginTickets, TicketInv, NEW t \in Threads, BrowserStep(t)
    PROVE  LoginsImplement
<1>1. CASE EvictExpired(t) \/ CountPending(t) \/ InsertTransaction(t) \/ PopTransaction(t)
           \/ ValidateIdToken(t)
    BY <1>1, EvictExpiredLoses, CountPendingLoses, InsertTransactionIssues, PopTransactionMoves,
       ValidateIdTokenSpends
<1>2. ASSUME NEW b \in Browsers, StartAuthorization(t, b) \/ BeginLink(t, b) PROVE LoginsImplement
    BY <1>2, StartAuthorizationLoses, BeginLinkIssues
<1>3. ASSUME NEW b \in Browsers, NEW state \in DOMAIN issuedTo, CompleteLink(t, b, state)
      PROVE  LoginsImplement
    BY <1>3, CompleteLinkSpends
<1>4. ASSUME NEW b \in Browsers, NEW state \in DOMAIN issuedTo, NEW nonce \in DOMAIN idToken,
             StartCallback(t, b, state, nonce)
      PROVE  LoginsImplement
    BY <1>4, StartCallbackLoses
<1> QED BY <1>1, <1>2, <1>3, <1>4 DEF BrowserStep
-------------------------------------------------------------------------------
(* Passkeys: a challenge is kept for its user and purpose, or by the       *)
(* registration or assertion that has popped it.                           *)
Busy == {t \in Threads : call[t] # NoCall}
Held(t) == /\ call[t].x \in Unspent /\ issuedTo[call[t].x] = <<call[t].u, call[t].op>>
           /\ \A key \in DOMAIN challenge : challenge[key] # call[t].x
PasskeyTickets ==
    /\ pending = Empty /\ linking = Empty
    /\ \A key \in DOMAIN challenge : challenge[key] \in Unspent /\ issuedTo[challenge[key]] = key
    /\ \A t \in Busy : Held(t)
    /\ \A t, u \in Busy : call[t].x = call[u].x => t = u

LEMMA PasskeySteps ==
    \A c \in PasskeyCalls \ {NoCall} :
        c.op \in {"register", "assert"} /\ c.step \in {"add", "check", "read", "update"}
<1>1. \A c \in Registrations : c.op = "register" /\ c.step = "add"
    BY DEF Registrations
<1>2. \A c \in Assertions : c.op = "assert" /\ c.step \in {"check", "read", "update"}
    BY DEF Assertions
<1> QED BY <1>1, <1>2 DEF PasskeyCalls

LEMMA PasskeyLives ==
    ASSUME PasskeyTypes, PasskeyTickets
    PROVE  \A x : x \in LiveIds <=>
                    /\ x \in Ids
                    /\ (\E key \in DOMAIN challenge : challenge[key] = x) \/ \E t \in Busy : call[t].x = x
<1>1. DOMAIN pending = {} /\ DOMAIN linking = {}
    BY DEF PasskeyTickets, Empty
<1>2. \A t \in Busy : call[t].op # "consume" /\ call[t].step \in {"add", "check", "read", "update"}
    BY PasskeySteps DEF PasskeyTypes, Busy
<1>3. \A t \in Threads \ Busy : call[t].op # "consume" /\ call[t].step \notin {"add", "check", "read", "update"}
    BY DEF NoCall, Busy
<1>4. \A x : InHand(x) <=> \E t \in Busy : call[t].x = x
    BY <1>2, <1>3 DEF InHand, At, Busy
<1> QED BY <1>1, <1>4 DEF LiveIds, InStore

LEMMA NextPasskeyLives ==
    ASSUME PasskeyTypes', PasskeyTickets'
    PROVE  \A x : x \in LiveIds' <=>
                    /\ x \in Ids
                    /\ \/ \E key \in DOMAIN challenge' : challenge'[key] = x
                       \/ \E t \in Busy' : call'[t].x = x
<1>1. DOMAIN pending' = {} /\ DOMAIN linking' = {}
    BY DEF PasskeyTickets, Empty
<1>2. \A t \in Busy' : call'[t].op # "consume" /\ call'[t].step \in {"add", "check", "read", "update"}
    BY PasskeySteps DEF PasskeyTypes, Busy
<1>3. \A t \in Threads \ Busy' : call'[t].op # "consume" /\ call'[t].step \notin {"add", "check", "read", "update"}
    BY DEF NoCall, Busy
<1>4. \A x : InHand(x)' <=> \E t \in Busy' : call'[t].x = x
    BY <1>2, <1>3 DEF InHand, At, Busy
<1> QED BY <1>1, <1>4 DEF LiveIds, InStore

PasskeysImplement == PasskeyTickets' /\ TicketInv' /\ Tickets!Next

(* A step that moves no challenge, but may lose some.                      *)
LEMMA ChallengesAreLost ==
    ASSUME PasskeyTypes, PasskeyTypes', PasskeyTickets, TicketInv,
           UNCHANGED <<minted, issuedTo, uses, usedBy, pending, linking>>,
           DOMAIN challenge' \subseteq DOMAIN challenge,
           \A key \in DOMAIN challenge' : challenge'[key] = challenge[key],
           Busy' \subseteq Busy,
           \A t \in Busy' : call'[t].x = call[t].x /\ call'[t].u = call[t].u /\ call'[t].op = call[t].op
    PROVE  PasskeysImplement
<1>1. Unspent' = Unspent
    BY DEF Unspent, SpentIds
<1>2. PasskeyTickets'
  <2>1. pending' = Empty /\ linking' = Empty
      BY DEF PasskeyTickets
  <2>2. \A key \in DOMAIN challenge' : challenge'[key] \in Unspent' /\ issuedTo'[challenge'[key]] = key
      BY <1>1 DEF PasskeyTickets
  <2>3. ASSUME NEW t \in Busy' PROVE Held(t)'
    <3>1. Held(t)
        BY DEF PasskeyTickets
    <3> QED BY <1>1, <3>1 DEF Held
  <2>4. \A t, u \in Busy' : call'[t].x = call'[u].x => t = u
      BY DEF PasskeyTickets
  <2> QED BY <2>1, <2>2, <2>3, <2>4 DEF PasskeyTickets, Held
<1>3. LiveIds' \subseteq LiveIds
    BY <1>2, PasskeyLives, NextPasskeyLives
<1> QED BY <1>2, <1>3, VoidStep DEF PasskeysImplement

(* A registration or an assertion pops its challenge.                      *)
LEMMA StartPasskeyMoves ==
    ASSUME PasskeyTypes, PasskeyTypes', PasskeyTickets, TicketInv, NEW t \in Threads,
           NEW u \in Accounts, NEW purpose \in {"register", "assert"}, NEW k, NEW n,
           StartPasskey(t, u, purpose, k, n)
    PROVE  PasskeysImplement
<1>1. PICK key : key = <<u, purpose>>
    OBVIOUS
<1>2. PICK x : x = challenge[key]
    OBVIOUS
<1>3. PICK c : c = [op |-> purpose, step |-> IF purpose = "register" THEN "add" ELSE "check",
                    u |-> u, x |-> x, k |-> k, n |-> n, owner |-> u]
    OBVIOUS
<1>4. /\ key \in DOMAIN challenge /\ call[t] = NoCall /\ call' = [call EXCEPT ![t] = c]
      /\ challenge' = Remove(challenge, {key})
      /\ UNCHANGED <<minted, issuedTo, uses, usedBy, pending, linking>>
    BY <1>1, <1>2, <1>3 DEF StartPasskey, Begin
<1>5. c.x = x /\ c.u = u /\ c.op = purpose /\ c # NoCall
  <2>1. NoCall.op = "none"
      BY DEF NoCall
  <2> QED BY <1>3, <2>1
<1>6. call'[t] = c /\ \A v \in Threads \ {t} : call'[v] = call[v]
    BY <1>4 DEF PasskeyTypes
<1>7. Busy' = Busy \cup {t} /\ t \notin Busy
    BY <1>4, <1>5, <1>6 DEF Busy
<1>8. /\ DOMAIN challenge' = DOMAIN challenge \ {key}
      /\ \A l \in DOMAIN challenge' : challenge'[l] = challenge[l]
    BY <1>4 DEF Remove
<1>9. x \in Unspent /\ issuedTo[x] = key /\ \A l \in DOMAIN challenge' : challenge'[l] # x
  <2>1. x \in Unspent /\ issuedTo[x] = key
      BY <1>2, <1>4 DEF PasskeyTickets
  <2>2. \A l \in DOMAIN challenge' : challenge'[l] = challenge[l] /\ issuedTo[challenge[l]] = l /\ l # key
      BY <1>8 DEF PasskeyTickets
  <2> QED BY <2>1, <2>2
<1>10. \A v \in Busy : call'[v] = call[v] /\ call[v].x # x
    BY <1>2, <1>4, <1>6, <1>7 DEF PasskeyTickets, Held, Busy
<1>11. Unspent' = Unspent
    BY <1>4 DEF Unspent, SpentIds
<1>12. PasskeyTickets'
  <2>1. pending' = Empty /\ linking' = Empty
      BY <1>4 DEF PasskeyTickets
  <2>2. \A l \in DOMAIN challenge' : challenge'[l] \in Unspent' /\ issuedTo'[challenge'[l]] = l
      BY <1>4, <1>8, <1>11 DEF PasskeyTickets
  <2>3. Held(t)'
      BY <1>1, <1>4, <1>5, <1>6, <1>9, <1>11 DEF Held
  <2>4. ASSUME NEW v \in Busy PROVE Held(v)'
    <3>1. Held(v) /\ call'[v] = call[v]
        BY <1>10 DEF PasskeyTickets
    <3> QED BY <1>4, <1>8, <1>11, <3>1 DEF Held
  <2>5. \A v, w \in Busy' : call'[v].x = call'[w].x => v = w
    <3>1. \A v, w \in Busy : call[v].x = call[w].x => v = w
        BY DEF PasskeyTickets
    <3> QED BY <1>5, <1>6, <1>7, <1>10, <3>1
  <2> QED BY <1>7, <2>1, <2>2, <2>3, <2>4, <2>5 DEF PasskeyTickets
<1>13. LiveIds' \subseteq LiveIds
  <2> SUFFICES ASSUME NEW y \in LiveIds' PROVE y \in LiveIds
      OBVIOUS
  <2>1. y \in Ids /\ ((\E l \in DOMAIN challenge' : challenge'[l] = y) \/ \E v \in Busy' : call'[v].x = y)
      BY <1>12, NextPasskeyLives
  <2>2. (\E l \in DOMAIN challenge : challenge[l] = y) \/ \E v \in Busy : call[v].x = y
      BY <1>2, <1>4, <1>5, <1>6, <1>7, <1>8, <1>10, <2>1
  <2> QED BY <2>1, <2>2, PasskeyLives
<1> QED BY <1>4, <1>12, <1>13, VoidStep DEF PasskeysImplement

LEMMA CheckAssertionLoses ==
    ASSUME PasskeyTypes, PasskeyTypes', PasskeyTickets, TicketInv, NEW t \in Threads,
           CheckAssertion(t)
    PROVE  PasskeysImplement
<1>1. PICK c \in Assertions : c = call[t]
  <2>1. PICK c \in PasskeyCalls : c = call[t]
      BY DEF PasskeyTypes
  <2> QED BY <2>1, PasskeyKinds DEF CheckAssertion, At
<1>2. PICK d : d = [c EXCEPT !.step = "read"]
    OBVIOUS
<1>3. d.x = c.x /\ d.u = c.u /\ d.op = c.op
    BY <1>1, <1>2 DEF Assertions
<1>4. call' = [call EXCEPT ![t] = NoCall] \/ call' = [call EXCEPT ![t] = d]
    BY <1>1, <1>2 DEF CheckAssertion, Return, GoTo, GoOn
<1>5. /\ call'[t] = NoCall \/ call'[t] = d
      /\ \A u \in Threads \ {t} : call'[u] = call[u]
    BY <1>4 DEF PasskeyTypes
<1>6. UNCHANGED <<minted, issuedTo, uses, usedBy, pending, linking, challenge>>
    BY DEF CheckAssertion
<1>7. t \in Busy
  <2>1. c.op = "assert" /\ NoCall.op = "none"
      BY <1>1 DEF Assertions, NoCall
  <2> QED BY <1>1, <2>1 DEF Busy
<1>8. Busy' \subseteq Busy
    BY <1>5, <1>7 DEF Busy
<1>9. \A u \in Busy' : call'[u].x = call[u].x /\ call'[u].u = call[u].u /\ call'[u].op = call[u].op
    BY <1>1, <1>3, <1>5 DEF Busy
<1> QED BY <1>6, <1>8, <1>9, ChallengesAreLost

LEMMA ReadCredentialLoses ==
    ASSUME PasskeyTypes, PasskeyTypes', PasskeyTickets, TicketInv, NEW t \in Threads,
           ReadCredential(t)
    PROVE  PasskeysImplement
<1>1. PICK c \in Assertions : c = call[t]
  <2>1. PICK c \in PasskeyCalls : c = call[t]
      BY DEF PasskeyTypes
  <2> QED BY <2>1, PasskeyKinds DEF ReadCredential, At
<1>2. PICK u : u = credential[c.k].user_id
    OBVIOUS
<1>3. PICK d : d = [c EXCEPT !.step = "update", !.owner = u]
    OBVIOUS
<1>4. d.x = c.x /\ d.u = c.u /\ d.op = c.op
    BY <1>1, <1>3 DEF Assertions
<1>5. call' = [call EXCEPT ![t] = d]
    BY <1>1, <1>2, <1>3 DEF ReadCredential, GoOn
<1>6. call'[t] = d /\ \A v \in Threads \ {t} : call'[v] = call[v]
    BY <1>5 DEF PasskeyTypes
<1>7. UNCHANGED <<minted, issuedTo, uses, usedBy, pending, linking, challenge>>
    BY DEF ReadCredential, ceremonyVars
<1>8. t \in Busy
  <2>1. c.op = "assert" /\ NoCall.op = "none"
      BY <1>1 DEF Assertions, NoCall
  <2> QED BY <1>1, <2>1 DEF Busy
<1>9. Busy' \subseteq Busy
    BY <1>6, <1>8 DEF Busy
<1>10. \A v \in Busy' : call'[v].x = call[v].x /\ call'[v].u = call[v].u /\ call'[v].op = call[v].op
    BY <1>1, <1>4, <1>6 DEF Busy
<1> QED BY <1>7, <1>9, <1>10, ChallengesAreLost

LEMMA RefusePasskeyLoses ==
    ASSUME PasskeyTypes, PasskeyTypes', PasskeyTickets, TicketInv, NEW t, NEW u, NEW purpose,
           RefusePasskey(t, u, purpose)
    PROVE  PasskeysImplement
<1>1. PICK keys : challenge' = Remove(challenge, keys)
    BY DEF RefusePasskey
<1>2. UNCHANGED <<call, minted, issuedTo, uses, usedBy, pending, linking>>
    BY DEF RefusePasskey, OneStep
<1>3. Busy' = Busy
    BY <1>2 DEF Busy
<1>4. DOMAIN challenge' \subseteq DOMAIN challenge
      /\ \A key \in DOMAIN challenge' : challenge'[key] = challenge[key]
    BY <1>1 DEF Remove
<1> QED BY <1>2, <1>3, <1>4, ChallengesAreLost

(* A registration or an assertion is completed with its challenge.         *)
LEMMA ChallengeIsSpent ==
    ASSUME PasskeyTypes, PasskeyTypes', PasskeyTickets, TicketInv, NEW t \in Busy, Return(t),
           Complete(call[t].x, <<call[t].u, call[t].op>>),
           UNCHANGED <<minted, issuedTo, pending, linking, challenge>>
    PROVE  PasskeysImplement
<1>1. PICK x : x = call[t].x
    OBVIOUS
<1>2. /\ x \in Unspent /\ issuedTo[x] = <<call[t].u, call[t].op>>
      /\ \A key \in DOMAIN challenge : challenge[key] # x
      /\ \A u \in Busy : call[u].x = x <=> u = t
    BY <1>1 DEF PasskeyTickets, Held
<1>3. call'[t] = NoCall /\ \A u \in Threads \ {t} : call'[u] = call[u]
    BY DEF Return, GoOn, PasskeyTypes
<1>4. Busy' = Busy \ {t} /\ \A u \in Busy' : call'[u] = call[u]
    BY <1>3 DEF Busy
<1>5. Unspent \ {x} \subseteq Unspent'
  <2>1. \A y \in Ids \ {x} : uses'[y] = uses[y]
      BY <1>1 DEF Complete, TicketInv
  <2> QED BY <2>1 DEF Unspent, SpentIds
<1>6. PasskeyTickets'
  <2>1. pending' = Empty /\ linking' = Empty
      BY DEF PasskeyTickets
  <2>2. \A l \in DOMAIN challenge' : challenge'[l] \in Unspent' /\ issuedTo'[challenge'[l]] = l
      BY <1>2, <1>5 DEF PasskeyTickets
  <2>3. ASSUME NEW u \in Busy' PROVE Held(u)'
    <3>1. Held(u) /\ call'[u] = call[u] /\ call[u].x # x
        BY <1>2, <1>4 DEF PasskeyTickets
    <3> QED BY <1>5, <3>1 DEF Held
  <2>4. \A u, v \in Busy' : call'[u].x = call'[v].x => u = v
      BY <1>4 DEF PasskeyTickets
  <2> QED BY <2>1, <2>2, <2>3, <2>4 DEF PasskeyTickets
<1>7. x \in LiveIds
    BY <1>1, <1>2, UnspentIds, PasskeyLives
<1>8. LiveIds' = LiveIds \ {x}
  <2>1. \A y : (\E u \in Busy' : call'[u].x = y) <=> y # x /\ \E u \in Busy : call[u].x = y
      BY <1>2, <1>4
  <2>2. \A y : y \in LiveIds' <=> y \in LiveIds \ {x}
      BY <1>2, <1>6, <2>1, PasskeyLives, NextPasskeyLives
  <2> QED BY <2>2
<1>9. Complete(x, issuedTo[x])
    BY <1>1, <1>2 DEF Complete
<1> QED BY <1>6, <1>7, <1>8, <1>9, SpendStep DEF PasskeysImplement

LEMMA WritersSpend ==
    ASSUME PasskeyTypes, PasskeyTypes', PasskeyTickets, TicketInv, NEW t \in Threads,
           AddCredential(t) \/ UpdateCounter(t)
    PROVE  PasskeysImplement
<1>1. PICK c \in PasskeyCalls : c = call[t]
    BY DEF PasskeyTypes
<1>2. t \in Busy
  <2>1. c # NoCall
      BY <1>1, PasskeyKinds DEF AddCredential, UpdateCounter, At, NoCall
  <2> QED BY <1>1, <2>1 DEF Busy
<1>3. Complete(c.x, <<c.u, c.op>>)
  <2>1. CASE AddCredential(t)
    <3>1. c.op = "register" /\ Complete(c.x, <<c.u, "register">>)
        BY <1>1, <2>1 DEF AddCredential, At
    <3> QED BY <3>1
  <2>2. CASE UpdateCounter(t)
    <3>1. c.op = "assert" /\ Complete(c.x, <<c.u, "assert">>)
        BY <1>1, <2>2 DEF UpdateCounter, At
    <3> QED BY <3>1
  <2> QED BY <2>1, <2>2
<1>4. Return(t) /\ UNCHANGED <<minted, issuedTo, pending, linking, challenge>>
    BY DEF AddCredential, UpdateCounter
<1>5. Complete(call[t].x, <<call[t].u, call[t].op>>)
    BY <1>1, <1>3
<1> QED BY <1>2, <1>4, <1>5, ChallengeIsSpent

(* A new challenge takes the place of an unused one.                       *)
LEMMA IssueChallengeIssues ==
    ASSUME PasskeyTypes, PasskeyTypes', PasskeyTickets, TicketInv, NEW t,
           NEW u \in Accounts, NEW purpose \in {"register", "assert"},
           IssueChallenge(t, u, purpose)
    PROVE  PasskeysImplement
<1>1. PICK key \in Accounts \X {"register", "assert"} : key = <<u, purpose>>
    OBVIOUS
<1>2. PICK y : y = minted + 1
    OBVIOUS
<1>3. /\ Issue(key) /\ challenge' = Insert(challenge, key, y)
      /\ UNCHANGED <<call, pending, linking, uses, usedBy>>
    BY <1>1, <1>2 DEF IssueChallenge, OneStep, Fresh
<1>4. y \in Ids /\ y \notin DOMAIN issuedTo /\ issuedTo' = Insert(issuedTo, y, key)
    BY <1>2, <1>3 DEF Issue, Mint, Fresh, TicketInv
<1>5. /\ DOMAIN issuedTo' = DOMAIN issuedTo \cup {y} /\ issuedTo'[y] = key
      /\ \A x \in DOMAIN issuedTo : issuedTo'[x] = issuedTo[x]
    BY <1>4 DEF Insert
<1>6. /\ Unspent' = Unspent \cup {y} /\ y \notin Unspent
      /\ \A x \in Unspent : issuedTo'[x] = issuedTo[x] /\ x # y
    BY <1>3, <1>4, <1>5 DEF TicketInv, SpentIds, Unspent
<1>7. /\ DOMAIN challenge' = DOMAIN challenge \cup {key} /\ challenge'[key] = y
      /\ \A l \in DOMAIN challenge \ {key} : challenge'[l] = challenge[l]
    BY <1>3 DEF Insert
<1>8. Busy' = Busy
    BY <1>3 DEF Busy
<1>9. PasskeyTickets'
  <2>1. pending' = Empty /\ linking' = Empty
      BY <1>3 DEF PasskeyTickets
  <2>2. ASSUME NEW l \in DOMAIN challenge'
        PROVE  challenge'[l] \in Unspent' /\ issuedTo'[challenge'[l]] = l
    <3>1. CASE l = key
        BY <1>5, <1>6, <1>7, <3>1
    <3>2. CASE l # key
        BY <1>6, <1>7, <3>2 DEF PasskeyTickets
    <3> QED BY <3>1, <3>2
  <2>3. ASSUME NEW v \in Busy' PROVE Held(v)'
    <3>1. Held(v) /\ call'[v] = call[v] /\ call[v].x # y
        BY <1>3, <1>6, <1>8 DEF PasskeyTickets, Held
    <3> QED BY <1>6, <1>7, <3>1 DEF Held
  <2>4. \A v, w \in Busy' : call'[v].x = call'[w].x => v = w
      BY <1>3, <1>8 DEF PasskeyTickets
  <2> QED BY <2>1, <2>2, <2>3, <2>4 DEF PasskeyTickets
<1>10. y \in LiveIds'
    BY <1>4, <1>7, <1>9, NextPasskeyLives
<1>11. LiveIds' \ {y} \subseteq LiveIds
  <2> SUFFICES ASSUME NEW x \in LiveIds' \ {y} PROVE x \in LiveIds
      OBVIOUS
  <2>1. x \in Ids /\ ((\E l \in DOMAIN challenge' : challenge'[l] = x) \/ \E v \in Busy' : call'[v].x = x)
      BY <1>9, NextPasskeyLives
  <2>2. (\E l \in DOMAIN challenge : challenge[l] = x) \/ \E v \in Busy : call[v].x = x
      BY <1>3, <1>7, <1>8, <2>1
  <2> QED BY <2>1, <2>2, PasskeyLives
<1> QED BY <1>2, <1>3, <1>9, <1>10, <1>11, IssueStep DEF PasskeysImplement

LEMMA PasskeyStepsImplement ==
    ASSUME PasskeyTypes, PasskeyTypes', PasskeyTickets, TicketInv, NEW t \in Threads, PasskeyStep(t)
    PROVE  PasskeysImplement
<1>1. CASE AddCredential(t) \/ CheckAssertion(t) \/ ReadCredential(t) \/ UpdateCounter(t)
    BY <1>1, WritersSpend, CheckAssertionLoses, ReadCredentialLoses
<1>2. ASSUME NEW u \in Accounts, NEW purpose \in {"register", "assert"},
             IssueChallenge(t, u, purpose) \/ RefusePasskey(t, u, purpose)
      PROVE  PasskeysImplement
    BY <1>2, IssueChallengeIssues, RefusePasskeyLoses
<1>3. ASSUME NEW u \in Accounts, NEW purpose \in {"register", "assert"},
             NEW k \in Credentials, NEW n \in Counts, StartPasskey(t, u, purpose, k, n)
      PROVE  PasskeysImplement
    BY <1>3, StartPasskeyMoves
<1> QED BY <1>1, <1>2, <1>3 DEF PasskeyStep
-------------------------------------------------------------------------------
(* Any other service leaves every ticket unissued.                         *)
NoTickets == issuedTo = Empty /\ usedBy = Empty /\ uses = [x \in Ids |-> 0]
TInv ==
    /\ use = "logins" => TicketInv /\ LoginTickets
    /\ use = "passkeys" => TicketInv /\ PasskeyTickets
    /\ use \notin {"logins", "passkeys"} => NoTickets

TicketStutter == UNCHANGED <<TicketStatus, Person(issuedTo), Person(usedBy)>>
TicketStep == Tickets!Next \/ TicketStutter

LEMMA TicketsStart == Init => TInv /\ Tickets!Init
<1> SUFFICES ASSUME Init PROVE TInv /\ Tickets!Init
    OBVIOUS
<1>1. /\ minted = 0 /\ call = [t \in Threads |-> NoCall] /\ pending = Empty /\ linking = Empty
      /\ challenge = Empty /\ issuedTo = Empty /\ usedBy = Empty /\ uses = [x \in Ids |-> 0]
    BY DEF Init, CeremoniesInit
<1>2. DOMAIN pending = {} /\ DOMAIN linking = {} /\ DOMAIN challenge = {} /\ DOMAIN issuedTo = {}
      /\ DOMAIN usedBy = {}
    BY <1>1 DEF Empty
<1>3. \A t \in Threads : call[t] = NoCall
    BY <1>1
<1>4. LiveIds = {} /\ SpentIds = {} /\ Carriers = {} /\ Busy = {}
  <2>0. \A t \in Threads : call[t] = NoCall /\ call[t].op = "none" /\ call[t].step = "none"
      BY <1>3 DEF NoCall
  <2>1. Carriers = {} /\ Busy = {}
      BY <2>0 DEF Carriers, Busy, At
  <2>2. \A x : ~InHand(x)
      BY <2>0 DEF InHand, At
  <2>3. \A x : ~InStore(x)
      BY <1>2 DEF InStore
  <2> QED BY <1>1, <2>1, <2>2, <2>3 DEF LiveIds, SpentIds
<1>5. TicketInv
  <2>1. minted \in 0 .. MaxIds /\ DOMAIN issuedTo = 1 .. minted
      BY <1>1, <1>2, CallsAssumption
  <2> QED BY <1>1, <1>4, <2>1 DEF TicketInv
<1>6. TInv
    BY <1>1, <1>2, <1>4, <1>5 DEF TInv, NoTickets, LoginTickets, PasskeyTickets
<1>7. Tickets!Init
    BY <1>1, <1>2 DEF Tickets!Init, TicketStatus, Person
<1> QED BY <1>6, <1>7

LEMMA StillImplements ==
    ASSUME UNCHANGED <<call, pending, linking, challenge, issuedTo, uses, usedBy, minted>>
    PROVE  /\ TicketStutter /\ (TicketInv => TicketInv')
           /\ (LoginTickets => LoginTickets') /\ (PasskeyTickets => PasskeyTickets')
<1>1. \A x : (InStore(x) <=> InStore(x)') /\ (InHand(x) <=> InHand(x)')
    BY DEF InStore, InHand, At
<1>2. Unspent' = Unspent /\ SpentIds' = SpentIds /\ LiveIds' = LiveIds /\ Carriers' = Carriers
      /\ Busy' = Busy
    BY <1>1 DEF Unspent, SpentIds, LiveIds, Carriers, Busy, At
<1>3. TicketStatus' = TicketStatus /\ Person(issuedTo)' = Person(issuedTo)
      /\ Person(usedBy)' = Person(usedBy)
    BY <1>1 DEF TicketStatus, Person
<1>4. \A t \in Threads : Held(t) <=> Held(t)'
    BY <1>2 DEF Held
<1> QED BY <1>2, <1>3, <1>4 DEF TicketStutter, TicketInv, LoginTickets, PasskeyTickets, Busy

LEMMA TicketsKept == LInv /\ LInv' /\ PInv /\ PInv' /\ TInv /\ [Next]_vars => TInv' /\ TicketStep
<1> SUFFICES ASSUME LInv, LInv', PInv, PInv', TInv, [Next]_vars PROVE TInv' /\ TicketStep
    OBVIOUS
<1>0. use' = use
    BY UseStays
<1>1. CASE use \notin {"logins", "passkeys"}
  <2>1. UNCHANGED <<issuedTo, uses, usedBy>> /\ NoTickets
      BY <1>1, UseStays DEF ceremonyVars, TInv
  <2>2. TicketStatus = [x \in Ids |-> "unissued"] /\ TicketStatus' = [x \in Ids |-> "unissued"]
      BY <2>1 DEF NoTickets, TicketStatus, Empty
  <2>3. Person(issuedTo)' = Person(issuedTo) /\ Person(usedBy)' = Person(usedBy)
      BY <2>1 DEF Person
  <2> QED BY <1>0, <1>1, <2>1, <2>2, <2>3 DEF TInv, NoTickets, TicketStep, TicketStutter
<1>2. ASSUME UNCHANGED <<call, pending, linking, challenge, issuedTo, uses, usedBy, minted>>
      PROVE  TInv' /\ TicketStep
    BY <1>0, <1>2, StillImplements DEF TInv, NoTickets, TicketStep
<1>3. CASE Still
    BY <1>2, <1>3 DEF Still, ceremonyVars
<1>4. CASE use = "logins"
  <2>1. LoginTypes /\ LoginTypes' /\ LoginTickets /\ TicketInv
      BY <1>0, <1>4 DEF LInv, LoginInv, TInv
  <2>2. ASSUME NEW nonce, IssueIdToken(nonce) PROVE TInv' /\ TicketStep
      BY <1>2, <2>2 DEF IssueIdToken, threads, passkeys
  <2>3. ASSUME NEW t \in Threads, BrowserStep(t) PROVE TInv' /\ TicketStep
      BY <1>0, <1>4, <2>1, <2>3, BrowserStepsImplement DEF TInv, LoginsImplement, TicketStep
  <2> QED BY <1>3, <1>4, <2>2, <2>3, UseSteps DEF BySessions, ByVault
<1>5. CASE use = "passkeys"
  <2>1. PasskeyTypes /\ PasskeyTypes' /\ PasskeyTickets /\ TicketInv
      BY <1>0, <1>5 DEF PInv, PasskeyInv, TInv
  <2>2. ASSUME NEW t \in Threads, PasskeyStep(t) PROVE TInv' /\ TicketStep
      BY <1>0, <1>5, <2>1, <2>2, PasskeyStepsImplement DEF TInv, PasskeysImplement, TicketStep
  <2> QED BY <1>3, <1>5, <2>2, UseSteps DEF BySessions, ByVault
<1> QED BY <1>1, <1>4, <1>5

(* The stores of pending ceremonies implement SingleUse: a state or a      *)
(* challenge is good for one completed ceremony, of the browser or user it *)
(* was issued to, whatever requests race, expire, fail or bring back       *)
(* another's.                                                              *)
THEOREM TicketsAreSpentOnce == Spec => TicketsAreSingleUse
<1>1. TicketStep => [Tickets!Next]_<<TicketStatus, Person(issuedTo), Person(usedBy)>>
    BY DEF TicketStep, TicketStutter
<1> QED
    BY <1>1, LoginsStart, LoginsKept, PasskeysStart, PasskeysKept, TicketsStart, TicketsKept, PTL
       DEF Spec, TicketsAreSingleUse, Tickets!Spec
===============================================================================
