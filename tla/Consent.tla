------------------------------- MODULE Consent -------------------------------
(***************************************************************************)
(* The consent ledger of one owner and channel: an append-only sequence of *)
(* consent events, and the delivery authorization derived from it.         *)
(***************************************************************************)
EXTENDS Integers, Sequences

(* "appended" is history: the clock when the event entered the ledger,     *)
(* which may be later than the record time its audit entry got.            *)
ConsentEvent == [action : {"grant", "withdraw"}, record_time : Nat,
                 integrity_ok : BOOLEAN, appended : Nat]

(* The events at or before t, and the latest of them: the greatest record  *)
(* time, and among equals the greatest seq, its position in the ledger.    *)
Relevant(ledger, t) == {i \in DOMAIN ledger : ledger[i].record_time <= t}

Later(ledger, i, j) ==
    \/ ledger[i].record_time > ledger[j].record_time
    \/ ledger[i].record_time = ledger[j].record_time /\ i >= j

IsLatest(ledger, t, i) ==
    i \in Relevant(ledger, t) /\ \A j \in Relevant(ledger, t) : Later(ledger, i, j)

(* InMemoryConsentLedger.effective_state: no record denies, a record that  *)
(* fails its integrity check is indeterminate.                             *)
EffectiveState(ledger, t) ==
    IF Relevant(ledger, t) = {} THEN "denied"
    ELSE LET latest == ledger[CHOOSE i \in DOMAIN ledger : IsLatest(ledger, t, i)]
         IN  IF ~latest.integrity_ok THEN "indeterminate"
             ELSE IF latest.action = "grant" THEN "granted" ELSE "denied"

(* is_delivery_consented: anything but an active grant fails closed.       *)
IsDeliveryConsented(ledger, t) == EffectiveState(ledger, t) = "granted"
=============================================================================
