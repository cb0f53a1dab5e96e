-------------------------------- MODULE Access --------------------------------
(***************************************************************************)
(* Who gets in and how: the in-memory services around sign-in that threads *)
(* share -- sessions, refresh tokens, login and passkey ceremonies, the    *)
(* store of provider tokens, the guards every request passes and the       *)
(* exports that wait for their download.                                   *)
(*                                                                         *)
(* They share no state, so that an interleaving of two of them shows       *)
(* nothing that each alone does not: a behaviour uses one of them.         *)
(***************************************************************************)
EXTENDS Sessions, RefreshTokens, Ceremonies, TokenVault, RequestGuards, ExportArtifacts

CONSTANTS
    Uses,       \* the services a behaviour may use
    Budget      \* bound: calls and time a behaviour with each of them has

ASSUME AccessAssumption == Budget \in [Uses -> [calls : Nat, time : 1 .. MaxTime]]

VARIABLE use    \* the one it uses

vars == <<now, minted, threads, sessionVars, refreshVars, ceremonyVars, vaultVars, guardVars,
          exportVars, use>>

Init ==
    /\ now = 1 /\ minted = 0 /\ call = [t \in Threads |-> NoCall]
    /\ use \in Uses /\ left = Budget[use].calls
    /\ SessionsInit /\ RefreshInit /\ CeremoniesInit /\ VaultInit /\ GuardsInit
    /\ ExportsInit

Tick ==
    /\ now < Budget[use].time /\ now' = now + 1
    /\ UNCHANGED <<minted, threads, sessionVars, refreshVars, ceremonyVars, vaultVars, guardVars,
                   exportVars>>

BySessions(t) ==
    /\ use = "sessions" /\ SessionStep(t)
    /\ UNCHANGED <<refreshVars, ceremonyVars, vaultVars, guardVars, exportVars>>
ByRefreshTokens(t) ==
    /\ use = "refresh tokens" /\ RefreshStep(t)
    /\ UNCHANGED <<sessionVars, ceremonyVars, vaultVars, guardVars, exportVars>>
ByCeremonies(t) ==
    /\ \/ use = "logins" /\ BrowserStep(t)
       \/ use = "passkeys" /\ PasskeyStep(t)
    /\ UNCHANGED <<sessionVars, refreshVars, vaultVars, guardVars, exportVars>>
ByVault(t) ==
    /\ use = "vault" /\ VaultStep(t)
    /\ UNCHANGED <<sessionVars, refreshVars, ceremonyVars, guardVars, exportVars>>
ByGuards(t) ==
    /\ use = "requests" /\ GuardStep(t)
    /\ UNCHANGED <<sessionVars, refreshVars, ceremonyVars, vaultVars, exportVars>>
ByExports(t) ==
    /\ use = "exports" /\ ExportStep(t)
    /\ UNCHANGED <<sessionVars, refreshVars, ceremonyVars, vaultVars, guardVars>>
Provider ==
    /\ use = "logins" /\ \E nonce \in Ids : IssueIdToken(nonce)
    /\ UNCHANGED <<sessionVars, refreshVars, vaultVars, guardVars, exportVars>>

Next ==
    /\ \/ Tick \/ Provider
       \/ \E t \in Threads :
           \/ BySessions(t) \/ ByRefreshTokens(t) \/ ByCeremonies(t) \/ ByVault(t) \/ ByGuards(t)
           \/ ByExports(t)
    /\ UNCHANGED use

Spec == Init /\ [][Next]_vars
===============================================================================
