---------------------------- MODULE ExportArtifacts ----------------------------
(***************************************************************************)
(* ExportArtifactStore: an export waits for its owner's download, which    *)
(* uses it up, until it expires or the owner's exports are purged.         *)
(*                                                                         *)
(* A download marks the artifact as used and only then deletes its entry;  *)
(* the deletion fails with a KeyError if the entry is gone, and so does a  *)
(* purge at an entry it listed that is gone when its turn comes.           *)
(***************************************************************************)
EXTENDS Calls

CONSTANTS
    Owners,
    Lifetime    \* ttl_seconds, in ticks

ASSUME ExportArtifactsAssumption == Lifetime \in Nat

VARIABLES
    artifact,   \* the artifacts in the store, by id: owner and expiry
    used,       \* those marked as used
    purged,     \* history: those of an owner when a purge began that ran to its end
    served,     \* history: how often each artifact was handed out
    handedOut   \* history: the last one handed out: to whom, in time, purged before?

exportVars == <<artifact, used, purged, served, handedOut>>

ExportsInit ==
    /\ artifact = Empty /\ used = {} /\ purged = {} /\ served = [x \in Ids |-> 0]
    /\ handedOut = [rightly |-> TRUE]

Put(t, o) ==
    /\ OneStep(t) /\ Mint
    /\ artifact' = Insert(artifact, Fresh, [owner |-> o, expires_at |-> now + Lifetime])
    /\ UNCHANGED <<now, used, purged, served, handedOut>>

(* download, by user o: another's or an unknown artifact is not found.     *)
StartDownload(t, o, x) ==
    /\ IF x \in DOMAIN artifact /\ artifact[x].owner = o
       THEN Begin(t, [op |-> "download", step |-> "check", x |-> x, user |-> o,
                      art |-> artifact[x], started |-> now])
       ELSE OneStep(t)
    /\ UNCHANGED <<now, minted, exportVars>>
CheckArtifact(t) ==
    LET c == call[t] expired == now > c.art.expires_at IN
    /\ At(t, "download", "check")
    /\ \/ c.x \notin used /\ ~expired /\ GoTo(t, "use")
       \/ Return(t)     \* used, expired or called with another token
    /\ artifact' = IF c.x \notin used /\ expired THEN Remove(artifact, {c.x}) ELSE artifact
    /\ UNCHANGED <<now, minted, used, purged, served, handedOut>>
UseArtifact(t) ==
    /\ At(t, "download", "use") /\ GoTo(t, "consume")
    /\ used' = used \cup {call[t].x}
    /\ UNCHANGED <<now, minted, artifact, purged, served, handedOut>>
HandOutArtifact(c) ==
    /\ served' = [served EXCEPT ![c.x] = @ + 1]
    /\ handedOut' = [rightly |-> /\ c.art.owner = c.user /\ c.started <= c.art.expires_at
                                 /\ c.x \notin purged]
(* Mutant: an entry that is gone is no error.                              *)
ConsumeIfThere(t) ==
    /\ At(t, "download", "consume") /\ Return(t)
    /\ HandOutArtifact(call[t]) /\ artifact' = Remove(artifact, {call[t].x})
    /\ UNCHANGED <<now, minted, used, purged>>
ConsumeArtifact(t) ==
    LET c == call[t] IN
    /\ At(t, "download", "consume") /\ Return(t)
    /\ IF c.x \in DOMAIN artifact
       THEN HandOutArtifact(c) /\ artifact' = Remove(artifact, {c.x})
       ELSE UNCHANGED <<artifact, served, handedOut>>
    /\ UNCHANGED <<now, minted, used, purged>>

(* purge_expired and purge_for_owner.                                      *)
StartPurge(t, victims, mine) ==
    /\ Begin(t, [op |-> "purge", step |-> "delete", todo |-> victims, mine |-> mine])
    /\ UNCHANGED <<now, minted, exportVars>>
PurgeExpired(t) ==
    StartPurge(t, {x \in DOMAIN artifact : now > artifact[x].expires_at}, {})
PurgeForOwner(t, o) ==
    LET mine == {x \in DOMAIN artifact : artifact[x].owner = o} IN StartPurge(t, mine, mine)
DeleteArtifact(t, x) ==
    /\ At(t, "purge", "delete") /\ x \in call[t].todo
    /\ IF x \in DOMAIN artifact THEN GoOn(t, [call[t] EXCEPT !.todo = @ \ {x}]) ELSE Return(t)
    /\ artifact' = Remove(artifact, {x})
    /\ UNCHANGED <<now, minted, used, purged, served, handedOut>>
Purged(t) ==
    /\ At(t, "purge", "delete") /\ call[t].todo = {}
    /\ purged' = purged \cup call[t].mine
    /\ Return(t) /\ UNCHANGED <<now, minted, artifact, used, served, handedOut>>

ExportStep(t) ==
    \/ CheckArtifact(t) \/ UseArtifact(t) \/ ConsumeArtifact(t)
    \/ PurgeExpired(t) \/ Purged(t)
    \/ \E o \in Owners : Put(t, o) \/ PurgeForOwner(t, o) \/ \E x \in Ids : StartDownload(t, o, x)
    \/ \E x \in Ids : DeleteArtifact(t, x)
-------------------------------------------------------------------------------
(* However downloads and purges overlap, an export is handed out at most   *)
(* once, to its owner, to a request that came before it expired, and never *)
(* after a purge of the owner's exports has run to its end.                *)
ServedOnceInTime ==
    /\ \A x \in Ids : served[x] <= 1
    /\ handedOut.rightly
===============================================================================
