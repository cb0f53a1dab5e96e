----------------------------- MODULE ConsentStore -----------------------------
(***************************************************************************)
(* ConsentStore.grant and withdraw: write the audit entry, then append the *)
(* immutable event to the ledger under the entry's record time.            *)
(***************************************************************************)
EXTENDS Repository, Consent

VARIABLE ledger     \* the consent ledger of the channel in use

ConsentOps == {"grant", "withdraw"}
AuditedAs == [grant |-> "consent.grant", withdraw |-> "consent.withdraw"]
OnConsent(t, step) == api[t].op \in ConsentOps /\ api[t].step = step

StartConsent(t, action) == Begin(t, Request(action, "record")) /\ UNCHANGED <<audit, ledger>>

RecordConsent(t) ==
    /\ OnConsent(t, "record")
    /\ \/ /\ AuditAppend(AuditedAs[api[t].op], None)
          /\ api' = [api EXCEPT ![t].step = "append", ![t].arg = now]
          /\ UNCHANGED requests
       \/ AuditRaises /\ Finish(t)
    /\ UNCHANGED ledger

AppendConsent(t) ==
    /\ OnConsent(t, "append")
    /\ ledger' = Append(ledger, [action |-> api[t].op, record_time |-> api[t].arg,
                                 integrity_ok |-> TRUE, appended |-> now])
    /\ Finish(t)
    /\ UNCHANGED audit

ConsentStoreStep(t) == RecordConsent(t) \/ AppendConsent(t)
=============================================================================
