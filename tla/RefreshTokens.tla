---------------------------- MODULE RefreshTokens ----------------------------
(***************************************************************************)
(* RefreshTokenManager: families of refresh tokens, each token exchanged   *)
(* for the next one when it is used; presenting a used one revokes the     *)
(* family.  Nothing tells a replay from a client that lost the response    *)
(* and tries again: any token handed out may be presented at any time.     *)
(***************************************************************************)
EXTENDS Calls

VARIABLES
    family,     \* the families by id (the id of the first token stands for it)
    index,      \* the family of each token
    presented,  \* history: tokens presented to their family before it was revoked
    repeated,   \* history: those presented more than once
    reused      \* history: those presented again after they had been exchanged

history == <<presented, repeated, reused>>
refreshVars == <<family, index, history>>

RefreshInit ==
    /\ family = Empty /\ index = Empty
    /\ presented = {} /\ repeated = {} /\ reused = {}

HandOut(f) == Mint /\ index' = Insert(index, Fresh, f)
NewFamily(token) == [active_token |-> token, used_tokens |-> {}, revoked |-> FALSE]

IssueFamily(t) ==
    /\ OneStep(t) /\ HandOut(Fresh)
    /\ family' = Insert(family, Fresh, NewFamily(Fresh))
    /\ UNCHANGED <<now, history>>

(* rotate, up to the decision: an unknown token or one of a revoked family *)
(* is refused; a used or superseded one is a replay.                       *)
ReplayedLater(fam, token) == token \in fam.used_tokens /\ token = fam.active_token    \* Mutant
Replayed(fam, token) == token \in fam.used_tokens \/ token # fam.active_token

Present(t, token) ==
    LET f == index[token] IN
    /\ token \in DOMAIN index /\ ~family[f].revoked
    /\ Begin(t, [op |-> "rotate_token", token |-> token,
                 step |-> IF Replayed(family[f], token) THEN "revoke" ELSE "exchange"])
    /\ presented' = presented \cup {token}
    /\ repeated' = repeated \cup (presented \cap {token})
    /\ reused' = reused \cup (family[f].used_tokens \cap {token})
    /\ UNCHANGED <<now, minted, family, index>>
RevokeFamily(t) ==
    /\ At(t, "rotate_token", "revoke")
    /\ family' = [family EXCEPT ![index[call[t].token]].revoked = TRUE]
    /\ Return(t) /\ UNCHANGED <<now, minted, index, history>>
Exchange(t) ==
    LET token == call[t].token f == index[token] IN
    /\ At(t, "rotate_token", "exchange")
    /\ HandOut(f)
    /\ family' = [family EXCEPT ![f].used_tokens = @ \cup {token}, ![f].active_token = Fresh]
    /\ Return(t) /\ UNCHANGED <<now, history>>

RefreshStep(t) ==
    \/ IssueFamily(t) \/ RevokeFamily(t) \/ Exchange(t)
    \/ \E token \in DOMAIN index : Present(t, token)
-------------------------------------------------------------------------------
(* A family is revoked only if one of its tokens was presented twice; and  *)
(* once the calls are over, a token presented again after its exchange has *)
(* revoked it, be it a replay or a retry after a lost response.  (Calls    *)
(* that present a token at once may both exchange it.)                     *)
RevokedExactlyOnReuse ==
    \A f \in DOMAIN family :
        LET tokens == {x \in DOMAIN index : index[x] = f} IN
        /\ family[f].revoked => repeated \cap tokens # {}
        /\ reused \cap tokens # {} /\ Under("rotate_token") = {} => family[f].revoked
=============================================================================
