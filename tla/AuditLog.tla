------------------------------- MODULE AuditLog -------------------------------
(***************************************************************************)
(* TamperEvidentAuditLog and the retention job that ages it out: a hash    *)
(* chain of entries, the head of which is kept in a separate anchor store. *)
(*                                                                         *)
(* append reads the clock and the last entry, adds its entry, then sets    *)
(* the anchor; seal_and_purge reads the entries, sets the anchor to the    *)
(* head of the rechained survivors, replaces the entries, then appends.    *)
(* Nothing locks these steps against those of another thread.              *)
(*                                                                         *)
(* SHA-256 is taken to be injective: a digest is represented by what was   *)
(* hashed, the payloads of the chain from the genesis up to the entry.     *)
(***************************************************************************)
EXTENDS Integers, Sequences, FiniteSets

CONSTANTS
    Writers,        \* threads that append or run the retention job
    Actions,        \* actions an entry can record
    Accountability, \* ACCOUNTABILITY_ACTIONS
    Retention,      \* accountability_retention_seconds, in ticks
    MaxTime,        \* bound: the clock stops here
    MaxEntries      \* bound: only a shorter log is appended to, one no longer purged

ASSUME AuditAssumption ==
    /\ "audit.purge" \in Accountability /\ Accountability \subseteq Actions
    /\ Retention \in Nat /\ MaxTime \in Nat \ {0} /\ MaxEntries \in Nat

VARIABLES
    now,        \* server clock
    timeUp,     \* is the time source available?
    log,        \* the entries
    anchor,     \* the chain head in the anchor store
    writer,     \* each writer's step and local variables
    overlapped, \* history: have two writers ever been between read and write at once?
    damage,     \* history: "none", "fresh" until the anchor is next set, then "old"
    recorded    \* history: time and action of every accountability entry stored

vars == <<now, timeUp, log, anchor, writer, overlapped, damage, recorded>>

Genesis == <<>>
Payload(entry) == <<entry.seq, entry.record_time, entry.action>>
ComputeHash(entry) == Append(entry.prev_hash, Payload(entry))
ChainHead(entries) == IF entries = <<>> THEN Genesis ELSE entries[Len(entries)].entry_hash

(* The next entry of a log, and a log with the given times and actions.    *)
NewEntry(entries, time, action) ==
    LET draft == [seq |-> Len(entries), record_time |-> time, action |-> action,
                  prev_hash |-> ChainHead(entries)]
    IN  [seq |-> draft.seq, record_time |-> time, action |-> action,
         prev_hash |-> draft.prev_hash, entry_hash |-> ComputeHash(draft)]

(* Mutant: the survivors keep their sequence numbers.                      *)
RechainKeepingSeq(survivors) ==
    LET payload == [i \in 1 .. Len(survivors) |-> Payload(survivors[i])]
    IN  [i \in 1 .. Len(survivors) |->
            [survivors[i] EXCEPT !.prev_hash = [j \in 1 .. i - 1 |-> payload[j]],
                                 !.entry_hash = [j \in 1 .. i |-> payload[j]]]]

(* _rechain numbers the survivors anew and recomputes every hash.          *)
Rechain(survivors) ==
    LET payload == [i \in 1 .. Len(survivors) |->
                       <<i - 1, survivors[i].record_time, survivors[i].action>>]
    IN  [i \in 1 .. Len(survivors) |->
            [seq |-> i - 1, record_time |-> survivors[i].record_time,
             action |-> survivors[i].action,
             prev_hash |-> [j \in 1 .. i - 1 |-> payload[j]],
             entry_hash |-> [j \in 1 .. i |-> payload[j]]]]

(* verify: sequence numbers, links and hashes of every entry, and the head *)
(* against the anchor.                                                     *)
ChainOK(entries) ==
    \A i \in 1 .. Len(entries) :
        /\ entries[i].seq = i - 1
        /\ entries[i].prev_hash = IF i = 1 THEN Genesis ELSE entries[i - 1].entry_hash
        /\ entries[i].entry_hash = ComputeHash(entries[i])
VerifyChainOnly == ChainOK(log)     \* Mutant: the anchor is not consulted.
Verify == ChainOK(log) /\ ChainHead(log) = anchor
-------------------------------------------------------------------------------
NoEntry == [seq |-> 0, record_time |-> 0, action |-> "none", prev_hash |-> <<>>, entry_hash |-> <<>>]
Idle == [step |-> "idle", entry |-> NoEntry, rebuilt |-> <<>>]
InFlight == {w \in Writers : writer[w] # Idle}
Quiet == InFlight = {}

Init ==
    /\ now = 1 /\ timeUp = TRUE
    /\ log = <<>> /\ anchor = Genesis
    /\ writer = [w \in Writers |-> Idle]
    /\ overlapped = FALSE /\ damage = "none" /\ recorded = {}

Start(w, locals) ==
    /\ writer[w] = Idle
    /\ writer' = [writer EXCEPT ![w] = locals]
    /\ overlapped' = (overlapped \/ ~Quiet)
SetAnchor(head) == anchor' = head /\ damage' = IF damage = "none" THEN "none" ELSE "old"

(* append: a time source that is down rejects the record.                  *)
Draft(w, action) ==
    /\ timeUp /\ Len(log) < MaxEntries
    /\ Start(w, [Idle EXCEPT !.step = "store", !.entry = NewEntry(log, now, action)])
    /\ UNCHANGED <<now, timeUp, log, anchor, damage, recorded>>

Store(w) ==
    /\ writer[w].step = "store"
    /\ log' = Append(log, writer[w].entry)
    /\ writer' = [writer EXCEPT ![w].step = "anchor"]
    /\ recorded' = recorded \cup {<<e.record_time, e.action>> : e \in
                        {f \in {writer[w].entry} : f.action \in Accountability}}
    /\ UNCHANGED <<now, timeUp, anchor, overlapped, damage>>

SetHead(w) ==
    /\ writer[w].step = "anchor"
    /\ SetAnchor(writer[w].entry.entry_hash)
    /\ writer' = [writer EXCEPT ![w] = Idle]
    /\ UNCHANGED <<now, timeUp, log, overlapped, recorded>>

(* RetentionJob: everything up to the last entry older than the retention  *)
(* is aged out, except for accountability actions.                         *)
Cutoff == {log[i].seq : i \in {j \in DOMAIN log : log[j].record_time < now - Retention}}
AgedWhateverTheAction(i) == \E s \in Cutoff : log[i].seq <= s    \* Mutant
Aged(i) == /\ log[i].action \notin Accountability
           /\ \E s \in Cutoff : log[i].seq <= s
Kept == {i \in DOMAIN log : ~Aged(i)}
Increasing(f) == \A m, n \in DOMAIN f : m < n => f[m] < f[n]

SealAndPurge(w) ==
    /\ Cutoff # {} /\ Len(log) <= MaxEntries
    /\ \E nth \in [1 .. Cardinality(Kept) -> Kept] :
        /\ Increasing(nth)
        /\ Start(w, [Idle EXCEPT !.step = "reanchor",
                                !.rebuilt = Rechain([n \in DOMAIN nth |-> log[nth[n]]])])
    /\ UNCHANGED <<now, timeUp, log, anchor, damage, recorded>>

Reanchor(w) ==
    /\ writer[w].step = "reanchor"
    /\ SetAnchor(ChainHead(writer[w].rebuilt))
    /\ writer' = [writer EXCEPT ![w].step = "replace"]
    /\ UNCHANGED <<now, timeUp, log, overlapped, recorded>>

ReplaceEntries(w) ==
    /\ writer[w].step = "replace"
    /\ log' = writer[w].rebuilt
    /\ writer' = [writer EXCEPT ![w] = [Idle EXCEPT !.step = "log purge"]]
    /\ UNCHANGED <<now, timeUp, anchor, overlapped, damage, recorded>>

(* Mutant: the purge is recorded under a name the log does not know.       *)
LogPurgeMisnamed(w) ==
    /\ writer[w].step = "log purge"
    /\ writer' = [writer EXCEPT ![w] = [Idle EXCEPT !.step = "store",
                                                    !.entry = NewEntry(log, now, "purge")]]
    /\ UNCHANGED <<now, timeUp, log, anchor, overlapped, damage, recorded>>

LogPurge(w) ==
    /\ writer[w].step = "log purge"
    /\ writer' = [writer EXCEPT ![w] = IF timeUp
           THEN [Idle EXCEPT !.step = "store", !.entry = NewEntry(log, now, "audit.purge")]
           ELSE Idle]
    /\ UNCHANGED <<now, timeUp, log, anchor, overlapped, damage, recorded>>

Tick == now < MaxTime /\ now' = now + 1
        /\ UNCHANGED <<timeUp, log, anchor, writer, overlapped, damage, recorded>>
TimeSource == timeUp' = ~timeUp /\ UNCHANGED <<now, log, anchor, writer, overlapped, damage, recorded>>

(* The entry store loses or changes records, once, while the log is quiet  *)
(* (and, to bound the model, before any two writers have overlapped):      *)
(* an entry is lost, an entry is changed, or the log is rewritten with a   *)
(* changed entry or without its last ones and every hash recomputed.       *)
Without(i) == [j \in 1 .. Len(log) - 1 |-> IF j < i THEN log[j] ELSE log[j + 1]]
Changed(i, action) == [log EXCEPT ![i].action = action]
Damage ==
    /\ damage = "none" /\ Quiet /\ ~overlapped
    /\ \E i \in DOMAIN log :
        \/ log' = Without(i)
        \/ \E action \in Actions \ {log[i].action} :
               log' = Changed(i, action) \/ log' = Rechain(Changed(i, action))
        \/ log' = Rechain(SubSeq(log, 1, i - 1))
    /\ damage' = "fresh"
    /\ UNCHANGED <<now, timeUp, anchor, writer, overlapped, recorded>>

Next ==
    \/ \E w \in Writers :
        \/ \E action \in Actions \ {"audit.purge"} : Draft(w, action)
        \/ Store(w) \/ SetHead(w)
        \/ SealAndPurge(w) \/ Reanchor(w) \/ ReplaceEntries(w) \/ LogPurge(w)
    \/ Tick \/ TimeSource \/ Damage

Spec == Init /\ [][Next]_vars
-------------------------------------------------------------------------------
Hash == Seq(Nat \X Nat \X (Actions \cup {"none"}))
Entry == [seq : Nat, record_time : Nat, action : Actions \cup {"none"},
          prev_hash : Hash, entry_hash : Hash]
Steps == {"idle", "store", "anchor", "reanchor", "replace", "log purge"}

(* Entries carry times, actions and hash chains; the writers' locals are   *)
(* an entry or a rechained log.                                            *)
TypeOK ==
    /\ now \in Nat \ {0} /\ timeUp \in BOOLEAN /\ log \in Seq(Entry) /\ anchor \in Hash
    /\ writer \in [Writers -> [step : Steps, entry : Entry, rebuilt : Seq(Entry)]]
    /\ overlapped \in BOOLEAN /\ damage \in {"none", "fresh", "old"}
    /\ recorded \subseteq Nat \X Accountability

(* verify() raises no false alarm: as long as no two writers overlapped    *)
(* and the store was not damaged, the log verifies whenever no writer is   *)
(* at work, through appends, outages of the time source and purges.        *)
NoFalseAlarm == Quiet /\ ~overlapped /\ damage = "none" => Verify

(* Until the next write after damage to a quiet log, verify() misses none, *)
(* whether or not the hashes were recomputed.                              *)
FreshDamageIsDetected == Quiet /\ ~overlapped /\ damage = "fresh" => ~Verify

(* Retention removes only what it may: unless writers overlapped, no step  *)
(* on an undamaged log loses an accountability entry or an entry within    *)
(* the retention period.                                                   *)
Count(entries, time, action) ==
    Cardinality({i \in DOMAIN entries : entries[i].record_time = time /\ entries[i].action = action})
NeededEntriesSurvive ==
    [][~overlapped /\ damage' = "none" =>
        \A time \in 1 .. now, action \in Actions :
            action \in Accountability \/ time >= now - Retention =>
                Count(log', time, action) >= Count(log, time, action)]_vars

(* log.py promises that verify() alerts on any break, gap, reorder or      *)
(* truncation, so a log that verifies holds every accountability entry     *)
(* ever recorded.                                                          *)
VerifiedLogIsComplete ==
    Quiet /\ Verify =>
        \A x \in recorded : \E i \in DOMAIN log : <<log[i].record_time, log[i].action>> = x
=============================================================================
