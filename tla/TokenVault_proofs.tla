-------------------------- MODULE TokenVault_proofs --------------------------
(***************************************************************************)
(* What holds of the token vault for any purposes, keys, components,       *)
(* grants, threads and rotations.                                          *)
(*                                                                         *)
(* A behaviour uses one service.  While that is another one, nothing is    *)
(* stored, decrypted or lost: the invariant says no more then.             *)
(***************************************************************************)
EXTENDS Access, TLAPS

(* A ciphertext has a key of its purpose, and the one its purpose is bound *)
(* to unless that was rotated since.                                       *)
GoodCiphertext(ct) ==
    /\ ct.purpose \in Purposes /\ ct.key \in KeysOf[ct.purpose]
    /\ ct.epoch \in Nat /\ ct.epoch <= rotations[ct.purpose]
    /\ ct.epoch = rotations[ct.purpose] => ct.key = binding[ct.purpose]

Decryption(comp, ct) ==
    [action |-> "decrypt", outcome |-> "allowed", principal |-> comp, purpose |-> ct.purpose,
     object |-> ct.object]

(* A call about to be recorded is recorded for what it does: what it has   *)
(* decrypted is of the purpose in the event, and that was granted.         *)
GoodCall(c) ==
    /\ \A ct \in c.result : GoodCiphertext(ct)
    /\ c.event.action = "decrypt" =>
           \A ct \in c.result :
               /\ c.event = Decryption(c.event.principal, ct)
               /\ ct.purpose \in Grants[c.event.principal]

Bindings ==
    /\ binding \in [Purposes -> KeyRefs] /\ \A p \in Purposes : binding[p] \in KeysOf[p]
    /\ rotations \in [Purposes -> Nat]
Calling ==
    /\ call = [t \in Threads |-> call[t]]
    /\ \A t \in Threads : call[t].op = "crypt" => GoodCall(call[t])
Storing == \A ct \in stored : GoodCiphertext(ct)

VaultInv ==
    Bindings /\ Calling /\ Storing /\ DecryptsAreGrantedAndRecorded /\ OnlyRotationLosesObjects
Unused == stored = {} /\ released = {} /\ undone = {}
VInv == IF use = "vault" THEN VaultInv ELSE Unused
-------------------------------------------------------------------------------
LEMMA VaultStarts == Init => VInv
<1> SUFFICES ASSUME Init PROVE VInv
    OBVIOUS
<1>1. Unused
    BY DEF Init, VaultInit, Unused
<1>2. Bindings
    BY DEF Init, VaultInit, Bindings
<1>3. Calling
    BY DEF Init, Calling, NoCall
<1>4. Storing /\ DecryptsAreGrantedAndRecorded /\ OnlyRotationLosesObjects
    BY <1>1 DEF Unused, Storing, DecryptsAreGrantedAndRecorded, OnlyRotationLosesObjects
<1> QED BY <1>1, <1>2, <1>3, <1>4 DEF VInv, VaultInv

(* A call goes on as c: if that is good, all are, for the ciphertexts are  *)
(* as good as they were.                                                   *)
LEMMA CallGoesOn ==
    ASSUME Calling, NEW t \in Threads, NEW c, call' = [call EXCEPT ![t] = c],
           c.op = "crypt" => GoodCall(c), UNCHANGED <<binding, rotations>>
    PROVE  Calling'
<1>1. call' = [u \in Threads |-> IF u = t THEN c ELSE call[u]]
    BY DEF Calling
<1>2. call' = [u \in Threads |-> call'[u]]
    BY <1>1
<1>3. ASSUME NEW u \in Threads, call'[u].op = "crypt" PROVE GoodCall(call[u])'
    BY <1>1, <1>3 DEF Calling, GoodCall, GoodCiphertext
<1> QED BY <1>2, <1>3 DEF Calling

LEMMA EncryptKeeps ==
    ASSUME VaultInv, NEW t \in Threads, NEW comp \in Components, NEW p \in Purposes,
           StartEncrypt(t, comp, p)
    PROVE  VaultInv'
<1> USE DEF VaultInv
<1>1. UNCHANGED <<binding, stored, trail, released, undone, rotations>>
    BY DEF StartEncrypt, vaultVars
<1>2. Calling'
  <2>1. CASE call' = call
      BY <1>1, <2>1 DEF Calling, GoodCall, GoodCiphertext
  <2>2. CASE call' = [call EXCEPT ![t] = Crypt("encrypt", "denied", comp, p, Fresh)]
    <3>1. GoodCall(Crypt("encrypt", "denied", comp, p, Fresh))
        BY DEF Crypt, GoodCall
    <3> QED BY <1>1, <2>2, <3>1, CallGoesOn
  <2>3. ASSUME NEW c, call' = [call EXCEPT ![t] = c],
               c = [Crypt("encrypt", "allowed", comp, p, Fresh) EXCEPT
                      !.result = {Ciphertext(p, Fresh)}]
        PROVE  Calling'
    <3>1. GoodCiphertext(Ciphertext(p, Fresh))
        BY DEF Ciphertext, GoodCiphertext, Bindings
    <3>2. c.result = {Ciphertext(p, Fresh)} /\ c.event.action = "encrypt"
        BY <2>3 DEF Crypt
    <3>3. GoodCall(c)
        BY <3>1, <3>2 DEF GoodCall
    <3> QED BY <1>1, <2>3, <3>3, CallGoesOn
  <2> QED BY <2>1, <2>2, <2>3 DEF StartEncrypt, OneStep, Begin
<1> QED
    BY <1>1, <1>2
    DEF Bindings, Storing, GoodCiphertext, DecryptsAreGrantedAndRecorded, OnlyRotationLosesObjects

(* Purposes share no key, so what decrypts under one is of that purpose.   *)
LEMMA DecryptKeeps ==
    ASSUME VaultInv, VaultAssumption, NEW t \in Threads, NEW comp \in Components,
           NEW p \in Purposes, NEW ct \in stored, StartDecrypt(t, comp, p, ct)
    PROVE  VaultInv'
<1> USE DEF VaultInv
<1>1. UNCHANGED <<binding, stored, trail, released, rotations>>
    BY DEF StartDecrypt
<1>2. GoodCiphertext(ct)
    BY DEF Storing
<1>3. Calling'
  <2>1. CASE call' = call
      BY <1>1, <2>1 DEF Calling, GoodCall, GoodCiphertext
  <2>2. CASE call' = [call EXCEPT ![t] = Crypt("decrypt", "denied", comp, p, ct.object)]
    <3>1. GoodCall(Crypt("decrypt", "denied", comp, p, ct.object))
        BY DEF Crypt, GoodCall
    <3> QED BY <1>1, <2>2, <3>1, CallGoesOn
  <2>3. ASSUME NEW c, call' = [call EXCEPT ![t] = c], Granted(comp, p), Decrypts(p, ct),
               c = [Crypt("decrypt", "allowed", comp, p, ct.object) EXCEPT !.result = {ct}]
        PROVE  Calling'
    <3>1. ct.purpose = p
        BY <1>2, <2>3 DEF Decrypts, GoodCiphertext, Bindings, VaultAssumption
    <3>2. c.result = {ct} /\ c.event = Decryption(comp, ct) /\ c.event.principal = comp
        BY <2>3, <3>1 DEF Crypt, Decryption
    <3>3. GoodCall(c)
        BY <1>2, <2>3, <3>1, <3>2 DEF GoodCall, Granted
    <3> QED BY <1>1, <2>3, <3>3, CallGoesOn
  <2> QED BY <2>1, <2>2, <2>3 DEF StartDecrypt, OneStep, Begin
<1>4. OnlyRotationLosesObjects'
  <2> SUFFICES ASSUME NEW u \in undone', u.purpose = u.ct.purpose PROVE u.at > u.ct.epoch
      BY DEF OnlyRotationLosesObjects
  <2>1. CASE u \in undone
      BY <2>1 DEF OnlyRotationLosesObjects
  <2>2. CASE u = [ct |-> ct, purpose |-> p, at |-> rotations[p]] /\ ~Decrypts(p, ct)
    <3>1. u.ct = ct /\ u.at = rotations[p] /\ ct.purpose = p /\ ct.key # binding[p]
        BY <2>2 DEF Decrypts
    <3>2. ct.epoch \in Nat /\ rotations[p] \in Nat /\ ct.epoch <= rotations[p]
          /\ ct.epoch # rotations[p]
        BY <1>2, <3>1 DEF GoodCiphertext, Bindings
    <3> QED BY <3>1, <3>2
  <2> QED BY <2>1, <2>2 DEF StartDecrypt
<1> QED
    BY <1>1, <1>3, <1>4 DEF Bindings, Storing, GoodCiphertext, DecryptsAreGrantedAndRecorded

LEMMA RecordKeeps ==
    ASSUME VaultInv, NEW t \in Threads, RecordUse(t)
    PROVE  VaultInv'
<1> USE DEF VaultInv
<1>1. UNCHANGED <<binding, rotations, undone>> /\ call' = [call EXCEPT ![t] = NoCall]
    BY DEF RecordUse, Return, GoOn
<1>2. Calling'
    BY <1>1, CallGoesOn DEF NoCall
<1>3. Bindings' /\ OnlyRotationLosesObjects'
    BY <1>1 DEF Bindings, OnlyRotationLosesObjects
<1>4. GoodCall(call[t])
    BY DEF RecordUse, At, Calling
<1>5. CASE UNCHANGED <<trail, stored, released>>
    BY <1>1, <1>2, <1>3, <1>5
    DEF Storing, GoodCiphertext, DecryptsAreGrantedAndRecorded
<1>6. CASE trail' = trail \cup {call[t].event} /\ HandOutResult(call[t])
  <2>1. Storing'
      BY <1>1, <1>4, <1>6 DEF HandOutResult, GoodCall, Storing, GoodCiphertext
  <2>2. DecryptsAreGrantedAndRecorded'
    <3> SUFFICES ASSUME NEW r \in released'
                 PROVE  r.ct.purpose \in Grants[r.to] /\ Decryption(r.to, r.ct) \in trail'
        BY DEF DecryptsAreGrantedAndRecorded, Decryption
    <3>1. CASE r \in released
        BY <1>6, <3>1 DEF DecryptsAreGrantedAndRecorded, Decryption
    <3>2. ASSUME r \notin released
          PROVE  r.ct.purpose \in Grants[r.to] /\ Decryption(r.to, r.ct) = call[t].event
      <4>1. PICK ct \in call[t].result : r = [to |-> call[t].event.principal, ct |-> ct]
          BY <1>6, <3>2 DEF HandOutResult
      <4>2. call[t].event.action = "decrypt"
          BY <1>6, <3>2 DEF HandOutResult
      <4> QED BY <1>4, <4>1, <4>2 DEF GoodCall
    <3> QED BY <1>6, <3>1, <3>2
  <2> QED BY <1>2, <1>3, <2>1, <2>2
<1> QED BY <1>5, <1>6 DEF RecordUse

LEMMA BindKeeps ==
    ASSUME VaultInv, VaultAssumption, NEW t \in Threads, NEW p \in Purposes,
           NEW key \in KeysOf[p], Bind(t, p, key)
    PROVE  VaultInv'
<1> USE DEF VaultInv
<1>1. /\ binding' = [binding EXCEPT ![p] = key]
      /\ rotations' = [rotations EXCEPT ![p] = @ + 1]
      /\ UNCHANGED <<call, stored, trail, released, undone>>
    BY DEF Bind, OneStep
<1>2. key \in KeyRefs
    BY DEF VaultAssumption
<1>3. Bindings'
    BY <1>1, <1>2 DEF Bindings
<1>4. ASSUME NEW ct, GoodCiphertext(ct) PROVE GoodCiphertext(ct)'
  <2>1. CASE ct.purpose = p
    <3>1. rotations[p] \in Nat /\ rotations'[p] = rotations[p] + 1
        BY <1>1 DEF Bindings
    <3> QED BY <1>4, <2>1, <3>1 DEF GoodCiphertext
  <2>2. CASE ct.purpose # p
      BY <1>1, <1>4, <2>2 DEF GoodCiphertext, Bindings
  <2> QED BY <2>1, <2>2
<1>5. Calling' /\ Storing'
    BY <1>1, <1>4 DEF Calling, Storing, GoodCall
<1> QED
    BY <1>1, <1>3, <1>5 DEF DecryptsAreGrantedAndRecorded, OnlyRotationLosesObjects

(* While the vault is in use, a step is its own or leaves it alone.        *)
LEMMA InUseKeeps ==
    ASSUME use = "vault", VaultInv, [Next]_vars, VaultAssumption
    PROVE  use' = use /\ VaultInv'
<1>1. ASSUME UNCHANGED <<call, vaultVars>> PROVE VaultInv'
    BY <1>1
    DEF vaultVars, VaultInv, Bindings, Calling, Storing, GoodCall, GoodCiphertext,
        DecryptsAreGrantedAndRecorded, OnlyRotationLosesObjects
<1>2. CASE (Tick /\ UNCHANGED use) \/ UNCHANGED vars
    BY <1>1, <1>2 DEF Tick, vars, threads
<1>3. ASSUME NEW t \in Threads, ByVault(t), UNCHANGED use PROVE use' = use /\ VaultInv'
    BY <1>3, EncryptKeeps, DecryptKeeps, RecordKeeps, BindKeeps DEF ByVault, VaultStep
<1> QED
    BY <1>2, <1>3
    DEF Next, Provider, BySessions, ByRefreshTokens, ByCeremonies, ByGuards, ByExports

(* While another service is, no step touches it.                           *)
LEMMA OutOfUseKeeps ==
    ASSUME use # "vault", Unused, [Next]_vars
    PROVE  use' = use /\ Unused'
<1>1. use' = use /\ UNCHANGED vaultVars
  <2>1. CASE Next
      BY <2>1 DEF Next, Tick, Provider, BySessions, ByRefreshTokens, ByCeremonies, ByVault,
                  ByGuards, ByExports
  <2>2. CASE UNCHANGED vars
      BY <2>2 DEF vars
  <2> QED BY <2>1, <2>2
<1> QED BY <1>1 DEF Unused, vaultVars

(* The inductive invariant of the vault: what a ciphertext's key says of   *)
(* its purpose's bindings, and what a call about to be recorded holds.     *)
THEOREM VaultIsConsistent == Spec => []VInv
<1>1. VInv /\ [Next]_vars => VInv'
    BY InUseKeeps, OutOfUseKeeps, VaultAssumption DEF VInv
<1> QED BY <1>1, VaultStarts, PTL DEF Spec

(* A component gets to see only objects of purposes it is granted, and     *)
(* each one it saw is on the trail, through all rotations and outages, as  *)
(* long as no two purposes share a key.                                    *)
THEOREM DecryptsAreGrantedAndRecordedHolds == Spec => []DecryptsAreGrantedAndRecorded
<1>1. VInv => DecryptsAreGrantedAndRecorded
    BY DEF VInv, VaultInv, Unused, DecryptsAreGrantedAndRecorded
<1> QED BY <1>1, VaultIsConsistent, PTL

(* An authorized load under the purpose an object was encrypted for fails  *)
(* to decrypt only if that purpose was rotated in between.                 *)
THEOREM OnlyRotationLosesObjectsHolds == Spec => []OnlyRotationLosesObjects
<1>1. VInv => OnlyRotationLosesObjects
    BY DEF VInv, VaultInv, Unused, OnlyRotationLosesObjects
<1> QED BY <1>1, VaultIsConsistent, PTL
===============================================================================
