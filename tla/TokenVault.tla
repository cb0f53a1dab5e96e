------------------------------ MODULE TokenVault ------------------------------
(***************************************************************************)
(* SecureStore over CryptoService: provider tokens encrypted at rest.  A   *)
(* component may use only the purposes it is granted; a purpose is bound   *)
(* to an algorithm and a key, which an operator may rotate; every use and  *)
(* every denial is recorded before its result is handed out.               *)
(*                                                                         *)
(* A key reference stands for an algorithm and a key, and the key store    *)
(* may fail to resolve it.  Encryption is authenticated: under any other   *)
(* key decryption fails.                                                   *)
(***************************************************************************)
EXTENDS Calls

CONSTANTS
    Purposes,
    KeyRefs,
    KeysOf,     \* [Purposes -> SUBSET KeyRefs]: keys a purpose may be bound to
    Components,
    Grants      \* [Components -> SUBSET Purposes]

(* Nothing in the code keeps two purposes from sharing a key; the          *)
(* partition of decrypt authority takes it that they do not.               *)
ASSUME VaultAssumption ==
    /\ KeysOf \in [Purposes -> SUBSET KeyRefs] /\ Grants \in [Components -> SUBSET Purposes]
    /\ \A p, q \in Purposes : p # q => KeysOf[p] \cap KeysOf[q] = {}

VARIABLES
    binding,    \* CryptoConfig: the key each purpose is bound to
    stored,     \* ciphertexts handed out: the key, and as history what is inside
    trail,      \* the uses and denials recorded
    released,   \* history: what was decrypted, for whom
    undone,     \* history: loads that were granted but failed to decrypt
    rotations   \* history: rotations of each purpose

vaultVars == <<binding, stored, trail, released, undone, rotations>>

VaultInit ==
    /\ binding \in [Purposes -> KeyRefs] /\ \A p \in Purposes : binding[p] \in KeysOf[p]
    /\ stored = {} /\ trail = {} /\ released = {} /\ undone = {}
    /\ rotations = [p \in Purposes |-> 0]

Crypt(action, outcome, comp, p, x) ==
    [op |-> "crypt", step |-> "record",
     event |-> [action |-> action, outcome |-> outcome, principal |-> comp, purpose |-> p, object |-> x],
     result |-> {}]
Granted(comp, p) == p \in Grants[comp]

(* CryptoService: both go by the binding the purpose has now.              *)
Ciphertext(p, x) == [key |-> binding[p], purpose |-> p, object |-> x, epoch |-> rotations[p]]
Decrypts(p, ct) == ct.key = binding[p]

(* encrypt: its result is the ciphertext of a new object.  The key store   *)
(* may fail to resolve the key.                                            *)
StartEncrypt(t, comp, p) ==
    /\ Mint
    /\ IF ~Granted(comp, p) THEN Begin(t, Crypt("encrypt", "denied", comp, p, Fresh))
       ELSE \/ OneStep(t)
            \/ Begin(t, [Crypt("encrypt", "allowed", comp, p, Fresh) EXCEPT
                           !.result = {Ciphertext(p, Fresh)}])
    /\ UNCHANGED <<now, vaultVars>>
(* decrypt: under the key the purpose is bound to now.                     *)
StartDecrypt(t, comp, p, ct) ==
    /\ IF ~Granted(comp, p)
       THEN Begin(t, Crypt("decrypt", "denied", comp, p, ct.object)) /\ UNCHANGED undone
       ELSE \/ OneStep(t) /\ UNCHANGED undone
            \/ /\ Decrypts(p, ct) /\ UNCHANGED undone
               /\ Begin(t, [Crypt("decrypt", "allowed", comp, p, ct.object) EXCEPT !.result = {ct}])
            \/ /\ ~Decrypts(p, ct) /\ OneStep(t)
               /\ undone' = undone \cup {[ct |-> ct, purpose |-> p, at |-> rotations[p]]}
    /\ UNCHANGED <<now, minted, binding, stored, trail, released, rotations>>

HandOutResult(c) ==
    /\ stored' = IF c.event.action = "encrypt" THEN stored \cup c.result ELSE stored
    /\ released' = IF c.event.action = "decrypt"
                   THEN released \cup {[to |-> c.event.principal, ct |-> ct] : ct \in c.result}
                   ELSE released
(* Mutant: the result is handed out even if its use cannot be recorded.    *)
RecordIfPossible(t) ==
    /\ At(t, "crypt", "record")
    /\ trail' \in {trail, trail \cup {call[t].event}} /\ HandOutResult(call[t])
    /\ Return(t) /\ UNCHANGED <<now, minted, binding, undone, rotations>>
(* The sink records the use, or raises; only then is there a result.       *)
RecordUse(t) ==
    /\ At(t, "crypt", "record")
    /\ \/ trail' = trail \cup {call[t].event} /\ HandOutResult(call[t])
       \/ UNCHANGED <<trail, stored, released>>
    /\ Return(t) /\ UNCHANGED <<now, minted, binding, undone, rotations>>

(* Mutant: a rotation reaches the binding of another purpose.              *)
BindElsewhere(t, p, key) ==
    /\ OneStep(t)
    /\ \E q \in Purposes : binding' = [binding EXCEPT ![q] = key]
    /\ rotations' = [rotations EXCEPT ![p] = @ + 1]
    /\ UNCHANGED <<now, minted, stored, trail, released, undone>>
Bind(t, p, key) ==
    /\ OneStep(t)
    /\ binding' = [binding EXCEPT ![p] = key]
    /\ rotations' = [rotations EXCEPT ![p] = @ + 1]
    /\ UNCHANGED <<now, minted, stored, trail, released, undone>>

VaultStep(t) ==
    \/ RecordUse(t)
    \/ \E p \in Purposes, comp \in Components :
        StartEncrypt(t, comp, p) \/ \E ct \in stored : StartDecrypt(t, comp, p, ct)
    \/ \E p \in Purposes : \E key \in KeysOf[p] : Bind(t, p, key)
-------------------------------------------------------------------------------
(* A component gets to see only objects of purposes it is granted, through *)
(* all rotations, and each one it saw is on the audit trail as such: no    *)
(* outage of the sink lets a decryption go unrecorded.                     *)
DecryptsAreGrantedAndRecorded ==
    \A r \in released :
        /\ r.ct.purpose \in Grants[r.to]
        /\ [action |-> "decrypt", outcome |-> "allowed", principal |-> r.to,
            purpose |-> r.ct.purpose, object |-> r.ct.object] \in trail

(* An authorized load of a stored object fails to decrypt only because its *)
(* purpose was rotated since it was encrypted (or it is asked for under a  *)
(* purpose it was not encrypted for).                                      *)
OnlyRotationLosesObjects ==
    \A u \in undone : u.purpose = u.ct.purpose => u.at > u.ct.epoch
=============================================================================
