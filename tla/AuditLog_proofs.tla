---------------------------- MODULE AuditLog_proofs ----------------------------
(***************************************************************************)
(* Proofs about the audit log, for any writers, actions, retention and     *)
(* bounds: its types, and, as long as no two writers overlap, that         *)
(* verify() neither raises a false alarm nor misses damage done to a quiet *)
(* log, and that retention keeps every entry it must.                      *)
(***************************************************************************)
EXTENDS AuditLog, SequenceTheorems, FiniteSetTheorems, TLAPS

(* The interval from 1 to n has n elements.                                *)
LEMMA Intervals == ASSUME NEW n \in Nat PROVE IsFiniteSet(1 .. n) /\ Cardinality(1 .. n) = n
<1>1. 1 \in Int /\ n \in Int /\ (IF 1 > n THEN 0 ELSE n - 1 + 1) = n
    OBVIOUS
<1> QED BY <1>1, FS_Interval, Zenon

(* What the digest of entry n stands for: the payloads of entries 1 to n.  *)
Prefix(entries, n) == [j \in 1 .. n |-> Payload(entries[j])]

(* Every entry is numbered and hashed over all the entries before it.  The *)
(* code's check, ChainOK, compares neighbours only.                        *)
Sound(entries) ==
    \A i \in 1 .. Len(entries) :
        /\ entries[i].seq = i - 1
        /\ entries[i].prev_hash = Prefix(entries, i - 1)
        /\ entries[i].entry_hash = Prefix(entries, i)

-----------------------------------------------------------------------------
(* A payload is a triple of the hashed kind, and a prefix is a hash.       *)
LEMMA PayloadType ==
    ASSUME NEW e \in Entry
    PROVE  Payload(e) \in Nat \X Nat \X (Actions \cup {"none"})
BY DEF Payload, Entry

(* The digest of the first n entries is a hash of length n.                *)
LEMMA PrefixType ==
    ASSUME NEW entries \in Seq(Entry), NEW n \in 0 .. Len(entries)
    PROVE  Prefix(entries, n) \in Hash /\ Len(Prefix(entries, n)) = n
<1>1. \A j \in 1 .. n : Payload(entries[j]) \in Nat \X Nat \X (Actions \cup {"none"})
    BY PayloadType, ElementOfSeq
<1> QED BY <1>1 DEF Prefix, Hash

(* The digest of the next entry extends the digest before it.              *)
LEMMA PrefixExtends ==
    ASSUME NEW entries \in Seq(Entry), NEW n \in 1 .. Len(entries)
    PROVE  Prefix(entries, n) = Append(Prefix(entries, n - 1), Payload(entries[n]))
<1> DEFINE T == Nat \X Nat \X (Actions \cup {"none"})
           p == Prefix(entries, n - 1)
           q == Append(p, Payload(entries[n]))
<1> n - 1 \in 0 .. Len(entries) /\ n \in 0 .. Len(entries)
    BY LenProperties
<1>1. p \in Seq(T) /\ Len(p) = n - 1
    BY PrefixType DEF Hash
<1>2. Payload(entries[n]) \in T
    BY PayloadType, ElementOfSeq
<1>3. q \in Seq(T) /\ Len(q) = n /\ \A j \in 1 .. n : q[j] = IF j = n THEN Payload(entries[n]) ELSE p[j]
    BY <1>1, <1>2
<1>4. Prefix(entries, n) \in Seq(T) /\ Len(Prefix(entries, n)) = n
    BY PrefixType DEF Hash
<1>5. \A j \in 1 .. n : Prefix(entries, n)[j] = q[j]
    BY <1>3 DEF Prefix
<1> QED BY <1>3, <1>4, <1>5, SeqEqual

(* So a sound log passes the code's check, and its head is the digest of   *)
(* all its entries.                                                        *)
LEMMA SoundChainOK ==
    ASSUME NEW entries \in Seq(Entry), Sound(entries)
    PROVE  ChainOK(entries) /\ ChainHead(entries) = Prefix(entries, Len(entries))
<1>1. ASSUME NEW i \in 1 .. Len(entries)
      PROVE  /\ entries[i].seq = i - 1
             /\ entries[i].prev_hash = IF i = 1 THEN Genesis ELSE entries[i - 1].entry_hash
             /\ entries[i].entry_hash = ComputeHash(entries[i])
    <2>1. Prefix(entries, 0) = << >>
        BY DEF Prefix
    <2>2. i # 1 => entries[i - 1].entry_hash = Prefix(entries, i - 1)
        BY DEF Sound
    <2>3. entries[i].seq = i - 1 /\ entries[i].prev_hash = Prefix(entries, i - 1)
        BY DEF Sound
    <2>4. entries[i].entry_hash = Append(Prefix(entries, i - 1), Payload(entries[i]))
        BY PrefixExtends DEF Sound
    <2>5. i = 1 => i - 1 = 0
        OBVIOUS
    <2> QED BY <2>1, <2>2, <2>3, <2>4, <2>5 DEF Genesis, ComputeHash
<1>2. ChainHead(entries) = Prefix(entries, Len(entries))
    <2>1. CASE entries = << >>
        BY <2>1 DEF ChainHead, Prefix, Genesis
    <2>2. CASE entries # << >>
        <3>1. Len(entries) \in 1 .. Len(entries)
            BY <2>2, EmptySeq
        <3> QED BY <2>2, <3>1 DEF ChainHead, Sound
    <2> QED BY <2>1, <2>2
<1> QED BY <1>1, <1>2 DEF ChainOK

(* Rechaining yields a sound log with the same times and actions.          *)
LEMMA RechainSound ==
    ASSUME NEW s \in Seq(Entry)
    PROVE  /\ Rechain(s) \in Seq(Entry)
           /\ Len(Rechain(s)) = Len(s)
           /\ Sound(Rechain(s))
           /\ \A i \in 1 .. Len(s) :
                 Payload(Rechain(s)[i]) = <<i - 1, s[i].record_time, s[i].action>>
<1> DEFINE T == Nat \X Nat \X (Actions \cup {"none"})
           P == [i \in 1 .. Len(s) |-> <<i - 1, s[i].record_time, s[i].action>>]
           E == [i \in 1 .. Len(s) |->
                   [seq |-> i - 1, record_time |-> s[i].record_time, action |-> s[i].action,
                    prev_hash |-> [j \in 1 .. i - 1 |-> P[j]],
                    entry_hash |-> [j \in 1 .. i |-> P[j]]]]
<1>1. Rechain(s) = E
    BY DEF Rechain
<1>2. Len(s) \in Nat /\ \A i \in 1 .. Len(s) : s[i] \in Entry
    BY LenProperties, ElementOfSeq
<1>3. \A i \in 1 .. Len(s) : P[i] \in T
    BY <1>2 DEF Entry
<1> HIDE DEF P
<1>4. \A n \in 0 .. Len(s) : [j \in 1 .. n |-> P[j]] \in Hash
    <2> SUFFICES ASSUME NEW n \in 0 .. Len(s) PROVE [j \in 1 .. n |-> P[j]] \in Seq(T)
        BY DEF Hash
    <2> n \in Nat /\ \A j \in 1 .. n : j \in 1 .. Len(s)
        BY <1>2
    <2> QED BY <1>3
<1>5. \A i \in 1 .. Len(s) : E[i] \in Entry
    <2> SUFFICES ASSUME NEW i \in 1 .. Len(s) PROVE E[i] \in Entry
        OBVIOUS
    <2> i - 1 \in 0 .. Len(s) /\ i \in 0 .. Len(s)
        BY <1>2
    <2>1. [j \in 1 .. i - 1 |-> P[j]] \in Hash /\ [j \in 1 .. i |-> P[j]] \in Hash
        BY <1>4
    <2> QED BY <1>2, <2>1 DEF Entry
<1>6. E \in Seq(Entry) /\ Len(E) = Len(s)
    BY <1>2, <1>5
<1>7. \A i \in 1 .. Len(s) : Payload(E[i]) = P[i]
    BY DEF Payload, P
<1>8. \A n \in 0 .. Len(s) : Prefix(E, n) = [j \in 1 .. n |-> P[j]]
    <2> SUFFICES ASSUME NEW n \in 0 .. Len(s) PROVE Prefix(E, n) = [j \in 1 .. n |-> P[j]]
        OBVIOUS
    <2> HIDE DEF E
    <2> n \in Nat /\ \A j \in 1 .. n : j \in 1 .. Len(s)
        BY <1>2
    <2>1. \A j \in 1 .. n : Payload(E[j]) = P[j]
        BY <1>7
    <2> QED BY <2>1 DEF Prefix
<1>9. Sound(E)
    <2> SUFFICES ASSUME NEW i \in 1 .. Len(s)
                 PROVE  /\ E[i].seq = i - 1
                        /\ E[i].prev_hash = Prefix(E, i - 1)
                        /\ E[i].entry_hash = Prefix(E, i)
        BY <1>6 DEF Sound
    <2>1. Prefix(E, i - 1) = [j \in 1 .. i - 1 |-> P[j]] /\ Prefix(E, i) = [j \in 1 .. i |-> P[j]]
        <3> i - 1 \in 0 .. Len(s) /\ i \in 0 .. Len(s)
            BY <1>2
        <3> QED BY <1>8
    <2> QED BY <2>1
<1>10. \A i \in 1 .. Len(s) : Payload(E[i]) = <<i - 1, s[i].record_time, s[i].action>>
    BY <1>7 DEF P
<1> HIDE DEF E
<1> QED BY <1>1, <1>6, <1>9, <1>10

(* The head of a log is a hash.                                            *)
LEMMA HeadType ==
    ASSUME NEW entries \in Seq(Entry)
    PROVE  ChainHead(entries) \in Hash
<1>1. CASE entries = << >>
    BY <1>1 DEF ChainHead, Genesis, Hash
<1>2. CASE entries # << >>
    <2>1. Len(entries) \in 1 .. Len(entries)
        BY <1>2, EmptySeq
    <2>2. entries[Len(entries)] \in Entry
        BY <2>1, ElementOfSeq
    <2> QED BY <1>2, <2>2 DEF ChainHead, Entry
<1> QED BY <1>1, <1>2

(* append's new entry is an entry that names the head it was read from and *)
(* the next number, and is hashed over both.                               *)
LEMMA NewEntryType ==
    ASSUME NEW entries \in Seq(Entry), NEW time \in Nat, NEW action \in Actions
    PROVE  LET e == NewEntry(entries, time, action)
           IN  /\ e \in Entry
               /\ e.seq = Len(entries) /\ e.prev_hash = ChainHead(entries)
               /\ e.entry_hash = Append(ChainHead(entries), Payload(e))
<1> DEFINE p == <<Len(entries), time, action>>
           e == [seq |-> Len(entries), record_time |-> time, action |-> action,
                 prev_hash |-> ChainHead(entries), entry_hash |-> Append(ChainHead(entries), p)]
<1>1. NewEntry(entries, time, action) = e
    BY DEF NewEntry, ComputeHash, Payload
<1>2. Len(entries) \in Nat /\ ChainHead(entries) \in Hash
    BY LenProperties, HeadType
<1>3. p \in Nat \X Nat \X (Actions \cup {"none"})
    BY <1>2
<1>4. Append(ChainHead(entries), p) \in Hash
    BY <1>2, <1>3 DEF Hash
<1>5. e \in Entry /\ Payload(e) = p
    BY <1>2, <1>4 DEF Entry, Payload
<1> QED BY <1>1, <1>5

-----------------------------------------------------------------------------
(* What a purge keeps is a sequence of entries.                            *)
LEMMA SurvivorsType ==
    ASSUME TypeOK, NEW nth \in [1 .. Cardinality(Kept) -> Kept]
    PROVE  [n \in DOMAIN nth |-> log[nth[n]]] \in Seq(Entry)
<1>1. log \in Seq(Entry) /\ DOMAIN log = 1 .. Len(log) /\ Len(log) \in Nat
    BY LenProperties DEF TypeOK
<1>2. Kept \subseteq 1 .. Len(log)
    BY <1>1 DEF Kept
<1>3. Cardinality(Kept) \in Nat
    <2>1. IsFiniteSet(1 .. Len(log))
        BY <1>1, Intervals
    <2> QED BY <1>2, <2>1, FS_Subset, FS_CardinalityType
<1>4. \A n \in 1 .. Cardinality(Kept) : log[nth[n]] \in Entry
    BY <1>1, <1>2, ElementOfSeq
<1> QED BY <1>3, <1>4

(* A writer that is not at work has the writers' type.                     *)
LEMMA IdleType == Idle \in [step : Steps, entry : Entry, rebuilt : Seq(Entry)]
<1>1. << >> \in Hash /\ << >> \in Seq(Entry)
    BY DEF Hash
<1>2. NoEntry \in Entry
    BY <1>1 DEF NoEntry, Entry
<1> QED BY <1>1, <1>2 DEF Idle, Steps

(* Every action preserves the types.                                       *)
LEMMA TypeInductive == TypeOK /\ [Next]_vars => TypeOK'
<1> DEFINE Locals == [step : Steps, entry : Entry, rebuilt : Seq(Entry)]
<1> SUFFICES ASSUME TypeOK, [Next]_vars PROVE TypeOK'
    OBVIOUS
<1> USE AuditAssumption
<1>a. log \in Seq(Entry) /\ anchor \in Hash /\ writer \in [Writers -> Locals]
    BY DEF TypeOK
<1>b. ASSUME NEW w \in Writers, NEW l \in Locals PROVE [writer EXCEPT ![w] = l] \in [Writers -> Locals]
    BY <1>a, <1>b
<1>1. ASSUME NEW w \in Writers, NEW action \in Actions, Draft(w, action) PROVE TypeOK'
    <2>1. NewEntry(log, now, action) \in Entry
        BY <1>a, NewEntryType DEF TypeOK
    <2>2. [Idle EXCEPT !.step = "store", !.entry = NewEntry(log, now, action)] \in Locals
        BY <2>1, IdleType DEF Steps
    <2> QED BY <1>1, <1>a, <1>b, <2>2 DEF Draft, Start, TypeOK
<1>2. ASSUME NEW w \in Writers, Store(w) PROVE TypeOK'
    <2>1. writer[w].entry \in Entry
        BY <1>a
    <2>2. [writer[w] EXCEPT !.step = "anchor"] \in Locals
        BY <1>a DEF Steps
    <2>3. writer' \in [Writers -> Locals]
        BY <1>2, <1>a, <2>2 DEF Store
    <2>4. log' \in Seq(Entry)
        BY <1>2, <1>a, <2>1 DEF Store
    <2>5. recorded' \subseteq Nat \X Accountability
        BY <1>2, <2>1 DEF Store, TypeOK, Entry
    <2> QED BY <1>2, <2>3, <2>4, <2>5 DEF Store, TypeOK
<1>3. ASSUME NEW w \in Writers, SetHead(w) PROVE TypeOK'
    <2>1. writer[w].entry.entry_hash \in Hash
        BY <1>a DEF Entry
    <2> QED BY <1>3, <1>b, <2>1, IdleType DEF SetHead, SetAnchor, TypeOK
<1>4. ASSUME NEW w \in Writers, SealAndPurge(w) PROVE TypeOK'
    <2>1. PICK nth \in [1 .. Cardinality(Kept) -> Kept] :
              Start(w, [Idle EXCEPT !.step = "reanchor",
                                    !.rebuilt = Rechain([n \in DOMAIN nth |-> log[nth[n]]])])
        BY <1>4 DEF SealAndPurge
    <2>2. Rechain([n \in DOMAIN nth |-> log[nth[n]]]) \in Seq(Entry)
        BY SurvivorsType, RechainSound
    <2>3. [Idle EXCEPT !.step = "reanchor",
                       !.rebuilt = Rechain([n \in DOMAIN nth |-> log[nth[n]]])] \in Locals
        BY <2>2, IdleType DEF Steps
    <2> QED BY <1>4, <1>b, <2>1, <2>3 DEF SealAndPurge, Start, TypeOK
<1>5. ASSUME NEW w \in Writers, Reanchor(w) PROVE TypeOK'
    <2>1. ChainHead(writer[w].rebuilt) \in Hash
        BY <1>a, HeadType
    <2>2. [writer[w] EXCEPT !.step = "replace"] \in Locals
        BY <1>a DEF Steps
    <2>3. writer' \in [Writers -> Locals]
        BY <1>5, <1>a, <2>2 DEF Reanchor
    <2> QED BY <1>5, <2>1, <2>3 DEF Reanchor, SetAnchor, TypeOK
<1>6. ASSUME NEW w \in Writers, ReplaceEntries(w) PROVE TypeOK'
    <2>1. [Idle EXCEPT !.step = "log purge"] \in Locals
        BY IdleType DEF Steps
    <2> QED BY <1>6, <1>a, <1>b, <2>1 DEF ReplaceEntries, TypeOK
<1>7. ASSUME NEW w \in Writers, LogPurge(w) PROVE TypeOK'
    <2>1. NewEntry(log, now, "audit.purge") \in Entry
        BY <1>a, NewEntryType DEF TypeOK, AuditAssumption
    <2>2. [Idle EXCEPT !.step = "store", !.entry = NewEntry(log, now, "audit.purge")] \in Locals
        BY <2>1, IdleType DEF Steps
    <2> QED BY <1>7, <1>b, <2>2, IdleType DEF LogPurge, TypeOK
<1>8. CASE Tick
    BY <1>8 DEF Tick, TypeOK
<1>9. CASE TimeSource
    BY <1>9 DEF TimeSource, TypeOK
<1>10. CASE Damage
    <2>1. PICK i \in DOMAIN log :
            \/ log' = Without(i)
            \/ \E action \in Actions \ {log[i].action} :
                   log' = Changed(i, action) \/ log' = Rechain(Changed(i, action))
            \/ log' = Rechain(SubSeq(log, 1, i - 1))
        BY <1>10 DEF Damage
    <2>2. Len(log) \in Nat /\ i \in 1 .. Len(log) /\ \A j \in 1 .. Len(log) : log[j] \in Entry
        BY <1>a, LenProperties, ElementOfSeq
    <2>3. Without(i) \in Seq(Entry)
        <3>1. \A j \in 1 .. Len(log) - 1 : (IF j < i THEN log[j] ELSE log[j + 1]) \in Entry
            BY <2>2
        <3> QED BY <2>2, <3>1 DEF Without
    <2>4. ASSUME NEW action \in Actions PROVE Changed(i, action) \in Seq(Entry)
        <3>1. [log[i] EXCEPT !.action = action] \in Entry
            BY <2>2 DEF Entry
        <3>2. Changed(i, action) = [log EXCEPT ![i] = [log[i] EXCEPT !.action = action]]
            BY DEF Changed
        <3> QED BY <1>a, <2>2, <3>1, <3>2, ExceptSeq
    <2>5. SubSeq(log, 1, i - 1) \in Seq(Entry)
        BY <2>2, SubSeqProperties
    <2>6. log' \in Seq(Entry)
        BY <2>1, <2>3, <2>4, <2>5, RechainSound
    <2> QED BY <1>10, <2>6 DEF Damage, TypeOK
<1>11. CASE UNCHANGED vars
    BY <1>11 DEF vars, TypeOK
<1> QED BY <1>1, <1>2, <1>3, <1>4, <1>5, <1>6, <1>7, <1>8, <1>9, <1>10, <1>11 DEF Next

(* The initial state has the types.                                        *)
LEMMA TypeInit == Init => TypeOK
<1> DEFINE Locals == [step : Steps, entry : Entry, rebuilt : Seq(Entry)]
<1> SUFFICES ASSUME Init PROVE TypeOK
    OBVIOUS
<1>1. << >> \in Hash /\ << >> \in Seq(Entry)
    BY DEF Hash
<1>2. writer \in [Writers -> Locals]
    BY IdleType DEF Init
<1>3. log \in Seq(Entry) /\ anchor \in Hash
    BY <1>1 DEF Init, Genesis
<1>4. recorded \subseteq Nat \X Accountability
    BY DEF Init
<1>5. now \in Nat \ {0}
    BY DEF Init
<1>6. timeUp \in BOOLEAN /\ overlapped \in BOOLEAN /\ damage \in {"none", "fresh", "old"}
    BY DEF Init
<1> QED BY <1>2, <1>3, <1>4, <1>5, <1>6 DEF TypeOK

(* The types hold throughout: an entry is never stored half built, and a   *)
(* purge leaves a log of entries behind.                                   *)
THEOREM TypeCorrect == Spec => []TypeOK
BY TypeInit, TypeInductive, PTL DEF Spec

-----------------------------------------------------------------------------
(* The inductive invariant.  While no two writers have overlapped, at most *)
(* one is under way, and its step and locals tell how the log and the      *)
(* anchor are related.  An undamaged log is sound; a damaged one fails     *)
(* verify until the anchor is set again.                                   *)
OneAtATime == \A v, w \in Writers : v # w => writer[v] = Idle \/ writer[w] = Idle

IsNext(entries, e) ==
    /\ e.seq = Len(entries) /\ e.prev_hash = ChainHead(entries)
    /\ e.entry_hash = Append(ChainHead(entries), Payload(e))

Fits(locals, entries, head) ==
    /\ locals.step = "store" => IsNext(entries, locals.entry)
    /\ locals.step = "anchor" => locals.entry.entry_hash = ChainHead(entries)
    /\ locals.step \in {"reanchor", "replace"} => Sound(locals.rebuilt)
    /\ locals.step = "replace" => head = ChainHead(locals.rebuilt)
    /\ locals.step = "log purge" => head = ChainHead(entries)

Undamaged ==
    /\ Sound(log)
    /\ Quiet => ChainHead(log) = anchor
    /\ \A w \in Writers : Fits(writer[w], log, anchor)

Freshly ==
    /\ Quiet => ~Verify
    /\ \A w \in Writers : writer[w].step \in {"idle", "store", "anchor", "reanchor"}

Inv ==
    /\ TypeOK
    /\ \A w \in Writers : writer[w].step = "idle" => writer[w] = Idle
    /\ ~overlapped =>
        /\ OneAtATime
        /\ damage = "none" => Undamaged
        /\ damage = "fresh" => Freshly

(* Storing the next entry of a sound log gives a sound log, the head of    *)
(* which is the entry's digest.                                            *)
LEMMA AppendSound ==
    ASSUME NEW entries \in Seq(Entry), Sound(entries), NEW e \in Entry, IsNext(entries, e)
    PROVE  Sound(Append(entries, e)) /\ ChainHead(Append(entries, e)) = e.entry_hash
<1> DEFINE n == Len(entries)
           longer == Append(entries, e)
<1>1. /\ n \in Nat /\ longer \in Seq(Entry) /\ Len(longer) = n + 1 /\ longer[n + 1] = e
      /\ \A i \in 1 .. n : longer[i] = entries[i]
    BY LenProperties
<1> HIDE DEF longer
<1>2. \A m \in 0 .. n : Prefix(longer, m) = Prefix(entries, m)
    BY <1>1 DEF Prefix
<1>3. ChainHead(entries) = Prefix(longer, n)
    BY <1>1, <1>2, SoundChainOK
<1>4. Prefix(longer, n + 1) = Append(Prefix(longer, n), Payload(e))
    <2>1. n + 1 \in 1 .. Len(longer) /\ (n + 1) - 1 = n
        BY <1>1
    <2> QED BY <1>1, <2>1, PrefixExtends
<1>5. ASSUME NEW i \in 1 .. n + 1
      PROVE  /\ longer[i].seq = i - 1
             /\ longer[i].prev_hash = Prefix(longer, i - 1)
             /\ longer[i].entry_hash = Prefix(longer, i)
    <2>1. CASE i = n + 1
        <3>1. i - 1 = n
            BY <1>1, <2>1
        <3> QED BY <1>1, <1>3, <1>4, <2>1, <3>1 DEF IsNext
    <2>2. CASE i # n + 1
        <3>1. i \in 1 .. n /\ i \in 0 .. n /\ i - 1 \in 0 .. n
            BY <1>1, <2>2
        <3> QED BY <1>1, <1>2, <3>1 DEF Sound
    <2> QED BY <2>1, <2>2
<1>6. ChainHead(longer) = e.entry_hash
    <2>1. longer # << >>
        BY <1>1, EmptySeq
    <2> QED BY <1>1, <2>1 DEF ChainHead
<1> QED BY <1>1, <1>5, <1>6 DEF Sound, longer

(* Whatever the store does to a sound log, it no longer verifies against   *)
(* the head it had, even if every hash is recomputed.                      *)
LEMMA DamageDetected ==
    ASSUME TypeOK, Sound(log), NEW i \in DOMAIN log,
           NEW damaged \in Seq(Entry),
           \/ damaged = Without(i)
           \/ \E action \in Actions \ {log[i].action} :
                  damaged = Changed(i, action) \/ damaged = Rechain(Changed(i, action))
           \/ damaged = Rechain(SubSeq(log, 1, i - 1))
    PROVE  ~(ChainOK(damaged) /\ ChainHead(damaged) = ChainHead(log))
<1> DEFINE n == Len(log)
<1>1. /\ log \in Seq(Entry) /\ n \in Nat /\ i \in 1 .. n /\ n \in 1 .. n
      /\ \A j \in 1 .. n : log[j] \in Entry
    BY LenProperties, ElementOfSeq DEF TypeOK
<1>2. ChainHead(log) = Prefix(log, n) /\ Len(ChainHead(log)) = n
    <2> n \in 0 .. n
        BY <1>1
    <2> QED BY <1>1, SoundChainOK, PrefixType
<1>3. CASE damaged = Without(i)
    <2>1. Len(damaged) = n - 1 /\ \A j \in 1 .. n - 1 : damaged[j] = IF j < i THEN log[j] ELSE log[j + 1]
        BY <1>1, <1>3 DEF Without
    <2>2. CASE n = 1
        <3>1. damaged = << >>
            BY <2>1, <2>2, EmptySeq
        <3>2. Len(ChainHead(damaged)) = 0
            BY <3>1 DEF ChainHead, Genesis
        <3> QED BY <1>2, <2>2, <3>2
    <2>3. CASE n # 1 /\ i = n
        <3>1. ChainHead(damaged) = log[n - 1].entry_hash
            <4>1. damaged # << >> /\ n - 1 \in 1 .. n - 1 /\ n - 1 < i
                BY <1>1, <2>1, <2>3, EmptySeq
            <4> QED BY <2>1, <4>1 DEF ChainHead
        <3>2. n - 1 \in 1 .. n /\ n - 1 \in 0 .. n
            BY <1>1, <2>3
        <3>3. Len(log[n - 1].entry_hash) = n - 1
            BY <1>1, <3>2, PrefixType DEF Sound
        <3> QED BY <1>1, <1>2, <3>1, <3>3
    <2>4. CASE i # n
        <3>1. n - 1 \in 1 .. n - 1 /\ ~(n - 1 < i) /\ (n - 1) + 1 = n
            BY <1>1, <2>4
        <3>2. damaged[n - 1].seq = n - 1
            BY <1>1, <2>1, <3>1 DEF Sound
        <3>3. ChainOK(damaged) => damaged[n - 1].seq = (n - 1) - 1
            BY <2>1, <3>1 DEF ChainOK
        <3> QED BY <1>1, <3>2, <3>3
    <2> QED BY <2>2, <2>3, <2>4
<1>4. ASSUME NEW action \in Actions \ {log[i].action}
      PROVE  /\ Changed(i, action) \in Seq(Entry) /\ Len(Changed(i, action)) = n
             /\ Changed(i, action)[i] = [log[i] EXCEPT !.action = action]
    <2>1. [log[i] EXCEPT !.action = action] \in Entry
        BY <1>1 DEF Entry
    <2>2. Changed(i, action) = [log EXCEPT ![i] = [log[i] EXCEPT !.action = action]]
        BY DEF Changed
    <2> QED BY <1>1, <2>1, <2>2, ExceptSeq
<1>5. ASSUME NEW action \in Actions \ {log[i].action}, damaged = Changed(i, action)
      PROVE  ~ChainOK(damaged)
    <2> DEFINE changed == [log[i] EXCEPT !.action = action]
    <2>1. damaged[i] = changed /\ Len(damaged) = n
        BY <1>4, <1>5
    <2>2. /\ changed.entry_hash = Append(log[i].prev_hash, Payload(log[i]))
          /\ changed.prev_hash = log[i].prev_hash
        <3>1. ChainOK(log)
            BY <1>1, SoundChainOK
        <3> QED BY <1>1, <3>1 DEF ChainOK, ComputeHash, Entry
    <2>3. Payload(changed) # Payload(log[i])
        BY <1>1 DEF Payload, Entry
    <2>4. Append(changed.prev_hash, Payload(changed)) # changed.entry_hash
        <3> DEFINE T == Nat \X Nat \X (Actions \cup {"none"})
        <3>1. log[i].prev_hash \in Seq(T)
            BY <1>1 DEF Entry, Hash
        <3>2. changed \in Entry
            BY <1>1 DEF Entry
        <3>3. Payload(changed) \in T /\ Payload(log[i]) \in T
            BY <1>1, <3>2, PayloadType
        <3>4. ASSUME NEW s \in Seq(T), NEW p \in T, NEW q \in T, p # q PROVE Append(s, p) # Append(s, q)
            <4>1. Append(s, p)[Len(s) + 1] = p /\ Append(s, q)[Len(s) + 1] = q
                BY <3>4
            <4> QED BY <3>4, <4>1
        <3> QED BY <2>2, <2>3, <3>1, <3>3, <3>4
    <2> QED BY <1>1, <2>1, <2>4 DEF ChainOK, ComputeHash
<1>6. ASSUME NEW action \in Actions \ {log[i].action}, damaged = Rechain(Changed(i, action))
      PROVE  ChainHead(damaged) # ChainHead(log)
    <2>1. /\ damaged \in Seq(Entry) /\ Len(damaged) = n /\ Sound(damaged)
          /\ Payload(damaged[i])[3] = action
        <3>1. Payload(damaged[i]) = <<i - 1, Changed(i, action)[i].record_time, Changed(i, action)[i].action>>
            BY <1>1, <1>4, <1>6, RechainSound
        <3>2. Changed(i, action)[i].action = action
            BY <1>1, <1>4 DEF Entry
        <3>3. Payload(damaged[i])[3] = action
            BY <3>1, <3>2
        <3>4. Changed(i, action) \in Seq(Entry) /\ Len(Changed(i, action)) = n
            BY <1>4
        <3>5. damaged \in Seq(Entry) /\ Len(damaged) = n /\ Sound(damaged)
            BY <1>6, <3>4, RechainSound
        <3> QED BY <3>3, <3>5
    <2>2. ChainHead(damaged) = Prefix(damaged, n)
        BY <2>1, SoundChainOK
    <2>3. Prefix(damaged, n)[i] = Payload(damaged[i]) /\ Prefix(log, n)[i] = Payload(log[i])
        BY <1>1 DEF Prefix
    <2>4. Payload(log[i])[3] = log[i].action
        BY DEF Payload
    <2> QED BY <1>2, <2>1, <2>2, <2>3, <2>4
<1>7. CASE damaged = Rechain(SubSeq(log, 1, i - 1))
    <2>1. SubSeq(log, 1, i - 1) \in Seq(Entry) /\ Len(SubSeq(log, 1, i - 1)) = i - 1
        <3>1. 1 \in Int /\ i - 1 \in Int /\ \A j \in 1 .. i - 1 : log[j] \in Entry
            BY <1>1
        <3> QED BY <1>1, <3>1, SubSeqProperties
    <2>2. damaged \in Seq(Entry) /\ Len(damaged) = i - 1 /\ Sound(damaged)
        BY <1>7, <2>1, RechainSound
    <2>3. Len(ChainHead(damaged)) = i - 1
        <3> i - 1 \in 0 .. i - 1
            BY <1>1
        <3> QED BY <2>2, SoundChainOK, PrefixType
    <2> QED BY <1>1, <1>2, <2>3
<1> QED BY <1>3, <1>5, <1>6, <1>7

(* How a step of one writer, alone at work afterwards, re-establishes the  *)
(* invariant: only its own locals matter.                                  *)
LEMMA SoloStep ==
    ASSUME TypeOK, NEW w \in Writers, NEW locals, writer' = [writer EXCEPT ![w] = locals],
           \A v \in Writers : v # w => writer[v] = Idle
    PROVE  /\ \A v \in Writers : writer'[v] = IF v = w THEN locals ELSE Idle
           /\ OneAtATime'
           /\ Quiet' => locals = Idle
           /\ /\ Sound(log') /\ Fits(locals, log', anchor')
              /\ locals = Idle => ChainHead(log') = anchor'
              => Undamaged'
           /\ /\ locals.step \in {"idle", "store", "anchor", "reanchor"}
              /\ locals = Idle => ~Verify'
              => Freshly'
<1>1. \A v \in Writers : writer'[v] = IF v = w THEN locals ELSE Idle
    BY DEF TypeOK
<1>2. OneAtATime'
    BY <1>1 DEF OneAtATime
<1>3. Quiet' => locals = Idle
    BY <1>1 DEF Quiet, InFlight
<1>4. Idle.step = "idle" /\ Fits(Idle, log', anchor')
    BY DEF Idle, Fits
<1>5. Sound(log') /\ Fits(locals, log', anchor') /\ (locals = Idle => ChainHead(log') = anchor')
      => Undamaged'
    <2> SUFFICES ASSUME Sound(log'), Fits(locals, log', anchor'), locals = Idle => ChainHead(log') = anchor'
                 PROVE  Undamaged'
        OBVIOUS
    <2>1. \A v \in Writers : Fits(writer'[v], log', anchor')
        BY <1>1, <1>4
    <2> QED BY <1>3, <2>1 DEF Undamaged
<1>6. locals.step \in {"idle", "store", "anchor", "reanchor"} /\ (locals = Idle => ~Verify') => Freshly'
    BY <1>1, <1>3, <1>4 DEF Freshly
<1> QED BY <1>1, <1>2, <1>3, <1>5, <1>6

(* Who is under way is alone, unless writers have overlapped; who starts   *)
(* without overlapping was alone too.                                      *)
LEMMA Alone ==
    ASSUME Inv, ~overlapped, NEW w \in Writers, writer[w].step # "idle"
    PROVE  ~Quiet /\ \A v \in Writers : v # w => writer[v] = Idle
BY DEF Inv, OneAtATime, Quiet, InFlight, Idle

(* A writer that starts without overlapping another is alone at work.      *)
LEMMA StartsAlone ==
    ASSUME Inv, NEW w \in Writers, NEW locals, Start(w, locals), ~overlapped'
    PROVE  /\ ~overlapped /\ Quiet /\ writer' = [writer EXCEPT ![w] = locals]
           /\ \A v \in Writers : v # w => writer[v] = Idle
BY DEF Start, Quiet, InFlight

(* A writer at step "idle" holds no local state, whichever writer moved.   *)
LEMMA StoreIdle ==
    ASSUME Inv, NEW w \in Writers, NEW locals, writer' = [writer EXCEPT ![w] = locals],
           locals.step = "idle" => locals = Idle
    PROVE  \A v \in Writers : writer'[v].step = "idle" => writer'[v] = Idle
BY DEF Inv, TypeOK

(* The invariant is preserved by every step.                               *)
LEMMA InvInductive == Inv /\ [Next]_vars => Inv'
<1> SUFFICES ASSUME Inv, [Next]_vars PROVE Inv'
    OBVIOUS
<1> USE AuditAssumption
<1> DEFINE Idles == \A v \in Writers : writer[v].step = "idle" => writer[v] = Idle
           Safe == ~overlapped => /\ OneAtATime
                                  /\ damage = "none" => Undamaged
                                  /\ damage = "fresh" => Freshly
<1>a. TypeOK /\ TypeOK'
    BY TypeInductive DEF Inv
<1>b. /\ log \in Seq(Entry) /\ now \in Nat
      /\ writer \in [Writers -> [step : Steps, entry : Entry, rebuilt : Seq(Entry)]]
    BY <1>a DEF TypeOK
<1>c. Idle.step = "idle"
    BY DEF Idle
<1>1. ASSUME NEW w \in Writers, NEW action \in Actions, Draft(w, action) PROVE Idles' /\ Safe'
    <2> DEFINE e == NewEntry(log, now, action)
               l == [Idle EXCEPT !.step = "store", !.entry = e]
    <2>1. l.step = "store" /\ l.entry = e /\ l # Idle
        BY <1>c DEF Idle
    <2> HIDE DEF l
    <2>2. Idles'
        BY <1>1, <2>1, StoreIdle DEF Draft, Start, l
    <2>3. ASSUME ~overlapped' PROVE Safe'
        <3>1. /\ ~overlapped /\ writer' = [writer EXCEPT ![w] = l]
              /\ \A v \in Writers : v # w => writer[v] = Idle
            BY <1>1, <2>3, StartsAlone DEF Draft, l
        <3>2. IsNext(log, e)
            BY <1>b, NewEntryType DEF IsNext
        <3>3. Fits(l, log', anchor')
            BY <1>1, <2>1, <3>2 DEF Draft, Fits
        <3> QED BY <1>1, <1>a, <2>1, <3>1, <3>3, SoloStep DEF Draft, Inv, Undamaged
    <2> QED BY <2>2, <2>3
<1>2. ASSUME NEW w \in Writers, Store(w) PROVE Idles' /\ Safe'
    <2> DEFINE l == [writer[w] EXCEPT !.step = "anchor"]
    <2>1. l.step = "anchor" /\ l.entry = writer[w].entry /\ writer[w].entry \in Entry /\ l # Idle
        BY <1>b, <1>c
    <2> HIDE DEF l
    <2>2. writer' = [writer EXCEPT ![w] = l] /\ log' = Append(log, writer[w].entry)
        BY <1>2 DEF Store, l
    <2>3. Idles'
        BY <2>1, <2>2, StoreIdle
    <2>4. ASSUME ~overlapped' PROVE Safe'
        <3>1. ~overlapped /\ \A v \in Writers : v # w => writer[v] = Idle
            BY <1>2, <2>4, Alone DEF Store
        <3>2. ASSUME damage = "none" PROVE Sound(log') /\ Fits(l, log', anchor')
            <4>1. Sound(log) /\ IsNext(log, writer[w].entry)
                BY <1>2, <3>1, <3>2 DEF Inv, Undamaged, Fits, Store
            <4>2. Sound(log') /\ ChainHead(log') = writer[w].entry.entry_hash
                BY <1>b, <2>1, <2>2, <4>1, AppendSound
            <4> QED BY <2>1, <4>2 DEF Fits
        <3> QED BY <1>2, <1>a, <2>1, <2>2, <3>1, <3>2, SoloStep DEF Store
    <2> QED BY <2>3, <2>4
<1>3. ASSUME NEW w \in Writers, SetHead(w) PROVE Idles' /\ Safe'
    <2>1. Idles'
        BY <1>3, StoreIdle DEF SetHead
    <2>2. ASSUME ~overlapped' PROVE Safe'
        <3>1. ~overlapped /\ \A v \in Writers : v # w => writer[v] = Idle
            BY <1>3, <2>2, Alone DEF SetHead
        <3>2. damage' # "fresh" /\ (damage' = "none" => damage = "none")
            BY <1>3 DEF SetHead, SetAnchor
        <3>3. ASSUME damage = "none" PROVE Sound(log') /\ ChainHead(log') = anchor'
            BY <1>3, <3>1, <3>3 DEF Inv, Undamaged, Fits, SetHead, SetAnchor
        <3>4. Fits(Idle, log', anchor')
            BY <1>c DEF Fits
        <3> QED BY <1>3, <1>a, <3>1, <3>2, <3>3, <3>4, SoloStep DEF SetHead
    <2> QED BY <2>1, <2>2
<1>4. ASSUME NEW w \in Writers, SealAndPurge(w) PROVE Idles' /\ Safe'
    <2>1. PICK nth \in [1 .. Cardinality(Kept) -> Kept] :
              Start(w, [Idle EXCEPT !.step = "reanchor",
                                    !.rebuilt = Rechain([n \in DOMAIN nth |-> log[nth[n]]])])
        BY <1>4 DEF SealAndPurge
    <2> DEFINE r == Rechain([n \in DOMAIN nth |-> log[nth[n]]])
               l == [Idle EXCEPT !.step = "reanchor", !.rebuilt = r]
    <2>2. l.step = "reanchor" /\ l.rebuilt = r /\ l # Idle
        BY <1>c DEF Idle
    <2>3. Sound(r)
        BY <1>a, SurvivorsType, RechainSound
    <2> HIDE DEF r
    <2>4. Start(w, l)
        BY <2>1 DEF r
    <2> HIDE DEF l
    <2>5. Idles'
        BY <2>2, <2>4, StoreIdle DEF Start
    <2>6. ASSUME ~overlapped' PROVE Safe'
        <3>1. /\ ~overlapped /\ writer' = [writer EXCEPT ![w] = l]
              /\ \A v \in Writers : v # w => writer[v] = Idle
            BY <2>4, <2>6, StartsAlone
        <3>2. Fits(l, log', anchor')
            BY <2>2, <2>3 DEF Fits
        <3> QED BY <1>4, <1>a, <2>2, <3>1, <3>2, SoloStep DEF SealAndPurge, Inv, Undamaged
    <2> QED BY <2>5, <2>6
<1>5. ASSUME NEW w \in Writers, Reanchor(w) PROVE Idles' /\ Safe'
    <2> DEFINE l == [writer[w] EXCEPT !.step = "replace"]
    <2>1. l.step = "replace" /\ l.rebuilt = writer[w].rebuilt /\ l # Idle
        BY <1>b, <1>c
    <2> HIDE DEF l
    <2>2. writer' = [writer EXCEPT ![w] = l]
        BY <1>5 DEF Reanchor, l
    <2>3. Idles'
        BY <2>1, <2>2, StoreIdle
    <2>4. ASSUME ~overlapped' PROVE Safe'
        <3>1. ~overlapped /\ \A v \in Writers : v # w => writer[v] = Idle
            BY <1>5, <2>4, Alone DEF Reanchor
        <3>2. damage' # "fresh" /\ (damage' = "none" => damage = "none")
            BY <1>5 DEF Reanchor, SetAnchor
        <3>3. ASSUME damage = "none" PROVE Sound(log') /\ Fits(l, log', anchor')
            BY <1>5, <2>1, <3>1, <3>3 DEF Inv, Undamaged, Fits, Reanchor, SetAnchor
        <3> QED BY <1>5, <1>a, <2>1, <2>2, <3>1, <3>2, <3>3, SoloStep
    <2> QED BY <2>3, <2>4
<1>6. ASSUME NEW w \in Writers, ReplaceEntries(w) PROVE Idles' /\ Safe'
    <2> DEFINE l == [Idle EXCEPT !.step = "log purge"]
    <2>1. l.step = "log purge" /\ l # Idle
        BY <1>c DEF Idle
    <2> HIDE DEF l
    <2>2. writer' = [writer EXCEPT ![w] = l]
        BY <1>6 DEF ReplaceEntries, l
    <2>3. Idles'
        BY <2>1, <2>2, StoreIdle
    <2>4. ASSUME ~overlapped' PROVE Safe'
        <3>1. ~overlapped /\ \A v \in Writers : v # w => writer[v] = Idle
            BY <1>6, <2>4, Alone DEF ReplaceEntries
        <3>2. damage' = damage /\ damage # "fresh"
            BY <1>6, <3>1 DEF Inv, Freshly, ReplaceEntries
        <3>3. ASSUME damage = "none" PROVE Sound(log') /\ Fits(l, log', anchor')
            BY <1>6, <2>1, <3>1, <3>3 DEF Inv, Undamaged, Fits, ReplaceEntries
        <3> QED BY <1>a, <2>1, <2>2, <3>1, <3>2, <3>3, SoloStep
    <2> QED BY <2>3, <2>4
<1>7. ASSUME NEW w \in Writers, LogPurge(w) PROVE Idles' /\ Safe'
    <2> DEFINE e == NewEntry(log, now, "audit.purge")
               l == [Idle EXCEPT !.step = "store", !.entry = e]
    <2>1. l.step = "store" /\ l.entry = e /\ l # Idle
        BY <1>c DEF Idle
    <2>2. PICK locals \in {l, Idle} : writer' = [writer EXCEPT ![w] = locals]
        BY <1>7 DEF LogPurge
    <2>3. IsNext(log, e)
        BY <1>b, NewEntryType DEF IsNext, AuditAssumption
    <2> HIDE DEF l, e
    <2>4. Idles'
        BY <2>1, <2>2, StoreIdle
    <2>5. ASSUME ~overlapped' PROVE Safe'
        <3>1. ~overlapped /\ \A v \in Writers : v # w => writer[v] = Idle
            BY <1>7, <2>5, Alone DEF LogPurge
        <3>2. damage' = damage /\ damage # "fresh" /\ log' = log /\ anchor' = anchor
            BY <1>7, <3>1 DEF Inv, Freshly, LogPurge
        <3>3. ASSUME damage = "none"
              PROVE  Sound(log') /\ Fits(locals, log', anchor') /\ ChainHead(log') = anchor'
            <4>1. Sound(log) /\ ChainHead(log) = anchor
                BY <1>7, <3>1, <3>3 DEF Inv, Undamaged, Fits, LogPurge
            <4>2. Fits(l, log, anchor) /\ Fits(Idle, log, anchor)
                BY <1>c, <2>1, <2>3 DEF Fits
            <4> QED BY <2>2, <3>2, <4>1, <4>2
        <3> QED BY <1>a, <2>2, <3>1, <3>2, <3>3, SoloStep
    <2> QED BY <2>4, <2>5
<1>8. ASSUME UNCHANGED <<log, anchor, writer, overlapped, damage>> PROVE Idles' /\ Safe'
    <2>1. (Quiet' <=> Quiet) /\ (Verify' <=> Verify)
        BY <1>8 DEF Quiet, InFlight, Verify
    <2> QED BY <1>8, <2>1 DEF Inv, OneAtATime, Undamaged, Freshly
<1>9. ASSUME Damage PROVE Idles' /\ Safe'
    <2>1. Quiet /\ damage = "none" /\ ~overlapped /\ damage' = "fresh" /\ UNCHANGED <<anchor, writer>>
        BY <1>9 DEF Damage
    <2>2. Sound(log) /\ ChainHead(log) = anchor
        BY <2>1 DEF Inv, Undamaged
    <2>3. ~(ChainOK(log') /\ ChainHead(log') = ChainHead(log))
        <3>1. log' \in Seq(Entry)
            BY <1>a DEF TypeOK
        <3> QED BY <1>9, <1>a, <2>2, <3>1, DamageDetected DEF Damage
    <2>4. \A v \in Writers : writer'[v] = Idle
        BY <2>1 DEF Quiet, InFlight
    <2>5. Freshly'
        BY <1>c, <2>1, <2>2, <2>3, <2>4 DEF Freshly, Verify
    <2> QED BY <1>c, <2>1, <2>4, <2>5 DEF OneAtATime
<1>10. Idles' /\ Safe'
    <2>1. CASE Tick \/ TimeSource \/ UNCHANGED vars
        BY <2>1, <1>8 DEF Tick, TimeSource, vars
    <2>2. ASSUME NEW w \in Writers,
                 \/ \E action \in Actions \ {"audit.purge"} : Draft(w, action)
                 \/ Store(w) \/ SetHead(w)
                 \/ SealAndPurge(w) \/ Reanchor(w) \/ ReplaceEntries(w) \/ LogPurge(w)
          PROVE  Idles' /\ Safe'
        BY <2>2, <1>1, <1>2, <1>3, <1>4, <1>5, <1>6, <1>7
    <2>3. CASE \E w \in Writers :
                 \/ \E action \in Actions \ {"audit.purge"} : Draft(w, action)
                 \/ Store(w) \/ SetHead(w)
                 \/ SealAndPurge(w) \/ Reanchor(w) \/ ReplaceEntries(w) \/ LogPurge(w)
        <3> HIDE DEF Idles, Safe
        <3> QED BY <2>2, <2>3
    <2>4. Next \/ UNCHANGED vars
        OBVIOUS
    <2> HIDE DEF Idles, Safe
    <2> QED BY <2>1, <2>3, <2>4, <1>9 DEF Next
<1> QED BY <1>a, <1>10 DEF Inv

(* The inductive invariant holds in every reachable state: the log, the    *)
(* anchor and the locals of the one writer at work agree at every step of  *)
(* append and of seal_and_purge.                                           *)
THEOREM InvHolds == Spec => []Inv
<1>1. Init => Inv
    <2> SUFFICES ASSUME Init PROVE Inv
        OBVIOUS
    <2>1. \A w \in Writers : writer[w] = Idle
        BY DEF Init
    <2>2. Sound(log) /\ ChainHead(log) = anchor
        BY DEF Init, Sound, ChainHead
    <2> Idle.step = "idle"
        BY DEF Idle
    <2>3. \A w \in Writers : Fits(writer[w], log, anchor)
        BY <2>1 DEF Fits
    <2>4. OneAtATime /\ damage = "none"
        BY <2>1 DEF Init, OneAtATime
    <2> QED BY TypeInit, <2>1, <2>2, <2>3, <2>4 DEF Inv, Undamaged
<1> QED BY <1>1, InvInductive, PTL DEF Spec

(* For every number of writers and every retention, through appends,       *)
(* purges and outages: a log that no two writers worked on at once and     *)
(* that was not damaged verifies whenever no writer is at work.            *)
THEOREM NoFalseAlarmHolds == Spec => []NoFalseAlarm
<1>1. Inv => NoFalseAlarm
    BY SoundChainOK DEF Inv, TypeOK, Undamaged, NoFalseAlarm, Verify
<1> QED BY <1>1, InvHolds, PTL

(* And as long as nobody has written after it, verify detects any loss or  *)
(* change of an entry, and any rewriting of the log with a changed entry   *)
(* or without its last ones, even with every hash recomputed.              *)
THEOREM FreshDamageIsDetectedHolds == Spec => []FreshDamageIsDetected
<1>1. Inv => FreshDamageIsDetected
    BY DEF Inv, Freshly, FreshDamageIsDetected
<1> QED BY <1>1, InvHolds, PTL
-----------------------------------------------------------------------------
(* Retention.  The survivors of a purge hold as many entries of each kind  *)
(* needed as the log had: entries are in the order of their times, so what *)
(* is younger than the retention period comes after what sets the cutoff.  *)
Ordered(entries, time) ==
    \A i \in 1 .. Len(entries) :
        /\ entries[i].record_time <= time
        /\ \A j \in i .. Len(entries) : entries[i].record_time <= entries[j].record_time
Keeps(old, new, since) ==
    \A time \in Nat, action \in Actions :
        action \in Accountability \/ time >= since => Count(new, time, action) >= Count(old, time, action)
Of(entries, time, action) ==
    {i \in DOMAIN entries : entries[i].record_time = time /\ entries[i].action = action}
Timely(locals, entries, time) ==
    /\ locals.step = "store" => Ordered(Append(entries, locals.entry), time)
    /\ locals.step \in {"reanchor", "replace"} =>
        Ordered(locals.rebuilt, time) /\ Keeps(entries, locals.rebuilt, time - Retention)
TimesInv ==
    ~overlapped /\ damage = "none" =>
        Ordered(log, now) /\ \A w \in Writers : Timely(writer[w], log, now)

(* An entry of a log carries a time and a number.                          *)
LEMMA EntryTimes ==
    ASSUME NEW entries \in Seq(Entry), NEW i \in 1 .. Len(entries)
    PROVE  entries[i].record_time \in Nat /\ entries[i].seq \in Nat
<1>1. entries[i] \in Entry
    BY ElementOfSeq
<1> QED BY <1>1 DEF Entry

(* A log whose entries are in order stays so as the clock advances.        *)
LEMMA OrderedLater ==
    ASSUME NEW entries \in Seq(Entry), NEW time \in Nat, NEW later \in Nat, time <= later,
           Ordered(entries, time)
    PROVE  Ordered(entries, later)
BY EntryTimes DEF Ordered

(* The entries of a kind are finitely many, and Count is their number.     *)
LEMMA Counts ==
    ASSUME NEW entries \in Seq(Entry), NEW time, NEW action
    PROVE  /\ IsFiniteSet(Of(entries, time, action)) /\ Count(entries, time, action) \in Nat
           /\ Count(entries, time, action) = Cardinality(Of(entries, time, action))
<1>1. DOMAIN entries = 1 .. Len(entries) /\ Len(entries) \in Nat
    OBVIOUS
<1>2. IsFiniteSet(DOMAIN entries)
    BY <1>1, Intervals
<1>3. Of(entries, time, action) \in SUBSET DOMAIN entries
    BY DEF Of
<1>4. IsFiniteSet(Of(entries, time, action))
    BY <1>2, <1>3, FS_Subset
<1>5. Count(entries, time, action) = Cardinality(Of(entries, time, action))
    BY Zenon DEF Count, Of
<1> QED BY <1>4, <1>5, FS_CardinalityType

(* What is needed later is needed now.                                     *)
LEMMA KeepsLater ==
    ASSUME NEW old, NEW new, NEW since \in Int, NEW later \in Int, since <= later,
           Keeps(old, new, since)
    PROVE  Keeps(old, new, later)
BY DEF Keeps

(* A log keeps what it holds, and so does a longer one.                    *)
LEMMA SameKeeps == ASSUME NEW entries \in Seq(Entry), NEW since PROVE Keeps(entries, entries, since)
<1>1. \A time \in Nat, action \in Actions : Count(entries, time, action) \in Nat
    BY Counts
<1>2. \A n \in Nat : n >= n
    OBVIOUS
<1> QED BY <1>1, <1>2 DEF Keeps

LEMMA AppendKeeps ==
    ASSUME NEW entries \in Seq(Entry), NEW e \in Entry, NEW since
    PROVE  Keeps(entries, Append(entries, e), since)
<1> DEFINE longer == Append(entries, e)
<1>1. /\ longer \in Seq(Entry) /\ DOMAIN entries \subseteq DOMAIN longer
      /\ \A i \in DOMAIN entries : longer[i] = entries[i]
    BY AppendProperties
<1> HIDE DEF longer
<1>2. ASSUME NEW time, NEW action PROVE Count(longer, time, action) >= Count(entries, time, action)
  <2>1. Of(entries, time, action) \in SUBSET Of(longer, time, action)
      BY <1>1 DEF Of
  <2>2. IsFiniteSet(Of(longer, time, action))
      BY <1>1, Counts
  <2>3. Cardinality(Of(entries, time, action)) <= Cardinality(Of(longer, time, action))
      BY <2>1, <2>2, FS_Subset
  <2> QED BY <1>1, <2>3, Counts
<1> QED BY <1>2 DEF Keeps, longer

(* An entry that is drafted now is not older than those before it.         *)
LEMMA AppendOrdered ==
    ASSUME NEW entries \in Seq(Entry), NEW e \in Entry, NEW time \in Nat, Ordered(entries, time),
           e.record_time = time
    PROVE  Ordered(Append(entries, e), time)
<1>1. PICK longer : longer = Append(entries, e)
    OBVIOUS
<1>2. PICK n \in Nat : n = Len(entries)
    BY LenProperties
<1>3. /\ Len(longer) = n + 1 /\ longer[n + 1] = e
      /\ \A i \in 1 .. n : longer[i] = entries[i]
    BY <1>1, <1>2, AppendProperties
<1>4. \A i \in 1 .. n + 1 : i \in 1 .. n \/ i = n + 1
    BY <1>2
<1>5. ASSUME NEW i \in 1 .. n + 1
      PROVE  /\ longer[i].record_time <= time
             /\ \A j \in i .. n + 1 : longer[i].record_time <= longer[j].record_time
  <2>1. CASE i = n + 1
      BY <1>2, <1>3, <2>1
  <2>2. CASE i \in 1 .. n
    <3>1. longer[i].record_time <= time
        BY <1>2, <1>3, <2>2 DEF Ordered
    <3>2. ASSUME NEW j \in i .. n + 1 PROVE longer[i].record_time <= longer[j].record_time
      <4>1. CASE j = n + 1
          BY <1>3, <3>1, <4>1
      <4>2. CASE j # n + 1
        <5>1. j \in i .. n /\ j \in 1 .. n
            BY <1>2, <2>2, <4>2
        <5> QED BY <1>2, <1>3, <2>2, <5>1 DEF Ordered
      <4> QED BY <4>1, <4>2
    <3> QED BY <3>1, <3>2
  <2> QED BY <1>4, <2>1, <2>2
<1> QED BY <1>1, <1>3, <1>5 DEF Ordered

(* What a purge must keep it does not take for aged.                       *)
LEMMA NeededIsKept ==
    ASSUME TypeOK, Sound(log), Ordered(log, now), NEW i \in DOMAIN log,
           log[i].action \in Accountability \/ log[i].record_time >= now - Retention
    PROVE  i \in Kept
<1>1. log \in Seq(Entry) /\ DOMAIN log = 1 .. Len(log) /\ Len(log) \in Nat /\ now \in Nat
      /\ Retention \in Nat
    BY AuditAssumption DEF TypeOK
<1>2. CASE log[i].action \in Accountability
    BY <1>2 DEF Kept, Aged
<1>3. CASE log[i].record_time >= now - Retention
  <2> SUFFICES ASSUME NEW j \in DOMAIN log, log[j].record_time < now - Retention,
                      log[i].seq <= log[j].seq
               PROVE  FALSE
      BY DEF Kept, Aged, Cutoff
  <2>1. log[i].seq = i - 1 /\ log[j].seq = j - 1
      BY <1>1 DEF Sound
  <2>2. j \in i .. Len(log)
      BY <1>1, <2>1
  <2>3. log[i].record_time <= log[j].record_time
      BY <1>1, <2>2 DEF Ordered
  <2> QED BY <1>1, <1>3, <2>3, EntryTimes
<1> QED BY <1>2, <1>3

(* The increasing enumeration of Kept reaches all of it, so the survivors  *)
(* are in order and hold every needed entry.                               *)
LEMMA PurgeKeeps ==
    ASSUME TypeOK, Sound(log), Ordered(log, now), NEW nth \in [1 .. Cardinality(Kept) -> Kept],
           Increasing(nth),
           NEW rebuilt, rebuilt = Rechain([n \in DOMAIN nth |-> log[nth[n]]])
    PROVE  Ordered(rebuilt, now) /\ Keeps(log, rebuilt, now - Retention)
<1>1. /\ log \in Seq(Entry) /\ DOMAIN log = 1 .. Len(log) /\ Len(log) \in Nat /\ now \in Nat
      /\ Kept \subseteq 1 .. Len(log)
    BY DEF TypeOK, Kept
<1>2. IsFiniteSet(Kept)
  <2>1. Kept \in SUBSET (1 .. Len(log))
      BY <1>1
  <2>2. IsFiniteSet(1 .. Len(log))
      BY <1>1, Intervals
  <2> QED BY <2>1, <2>2, FS_Subset
<1>3. PICK k \in Nat : k = Cardinality(Kept)
    BY <1>2, FS_CardinalityType
<1>4. PICK survivors : survivors = [n \in DOMAIN nth |-> log[nth[n]]]
    OBVIOUS
<1>5. /\ survivors \in Seq(Entry) /\ DOMAIN nth = 1 .. k /\ Len(survivors) = k
      /\ \A n \in 1 .. k : survivors[n] = log[nth[n]] /\ nth[n] \in Kept
  <2>1. survivors \in Seq(Entry)
      BY <1>4, SurvivorsType
  <2>2. DOMAIN nth = 1 .. k /\ DOMAIN survivors = 1 .. k
      BY <1>3, <1>4
  <2>3. Len(survivors) = k
      BY <2>1, <2>2, LenProperties
  <2> QED BY <1>3, <1>4, <2>1, <2>2, <2>3
<1>6. /\ rebuilt \in Seq(Entry) /\ Len(rebuilt) = k /\ DOMAIN rebuilt = 1 .. k
      /\ \A n \in 1 .. k :
            rebuilt[n].record_time = log[nth[n]].record_time /\ rebuilt[n].action = log[nth[n]].action
  <2>1. rebuilt = Rechain(survivors)
      BY <1>4
  <2>2. rebuilt \in Seq(Entry) /\ Len(rebuilt) = k
      BY <1>5, <2>1, RechainSound
  <2>3. DOMAIN rebuilt = 1 .. k
      BY <2>2, LenProperties
  <2>4. \A n \in 1 .. k : rebuilt[n].record_time = survivors[n].record_time
                          /\ rebuilt[n].action = survivors[n].action
      BY <1>5, <2>1 DEF Rechain
  <2> QED BY <1>5, <2>2, <2>3, <2>4
<1>7. \A m, n \in 1 .. k : m < n => nth[m] < nth[n]
    BY <1>5 DEF Increasing
<1>8. Ordered(rebuilt, now)
  <2> SUFFICES ASSUME NEW i \in 1 .. k
               PROVE  /\ rebuilt[i].record_time <= now
                      /\ \A j \in i .. k : rebuilt[i].record_time <= rebuilt[j].record_time
      BY <1>6 DEF Ordered
  <2>1. nth[i] \in 1 .. Len(log)
      BY <1>1, <1>5
  <2>2. rebuilt[i].record_time <= now
      BY <1>6, <2>1 DEF Ordered
  <2>3. ASSUME NEW j \in i .. k PROVE rebuilt[i].record_time <= rebuilt[j].record_time
    <3>1. j \in 1 .. k /\ nth[j] \in 1 .. Len(log)
        BY <1>1, <1>3, <1>5
    <3>2. nth[j] \in nth[i] .. Len(log)
      <4>1. i = j \/ i < j
          BY <1>3
      <4>2. nth[i] = nth[j] \/ nth[i] < nth[j]
          BY <1>7, <3>1, <4>1
      <4> QED BY <1>1, <2>1, <3>1, <4>2
    <3>3. log[nth[i]].record_time <= log[nth[j]].record_time
        BY <2>1, <3>2 DEF Ordered
    <3> QED BY <1>6, <3>1, <3>3
  <2> QED BY <2>2, <2>3
<1>9. nth \in Surjection(1 .. k, Kept)
  <2>1. \A m, n \in 1 .. k : nth[m] = nth[n] => m = n
    <3> SUFFICES ASSUME NEW m \in 1 .. k, NEW n \in 1 .. k, nth[m] = nth[n] PROVE m = n
        OBVIOUS
    <3>1. nth[m] \in Int /\ nth[n] \in Int
        BY <1>1, <1>5
    <3>2. m = n \/ m < n \/ n < m
        BY <1>3
    <3> QED BY <1>7, <3>1, <3>2
  <2>2. nth \in Injection(1 .. k, Kept)
      BY <1>3, <1>5, <2>1 DEF Injection, IsInjective
  <2>3. Cardinality(1 .. k) = k
      BY Intervals
  <2> QED BY <1>2, <1>3, <2>2, <2>3, FS_Injection
<1>10. ASSUME NEW time \in Nat, NEW action \in Actions,
              action \in Accountability \/ time >= now - Retention
       PROVE  Count(rebuilt, time, action) >= Count(log, time, action)
  <2> DEFINE M == Of(log, time, action)
             R == Of(rebuilt, time, action)
             f == [n \in R |-> nth[n]]
  <2>1. M \subseteq Kept
      BY <1>10, NeededIsKept DEF Of
  <2>2. \A n \in 1 .. k : n \in R <=> nth[n] \in M
      BY <1>1, <1>5, <1>6 DEF Of
  <2>3. f \in Surjection(R, M)
    <3>1. f \in [R -> M]
        BY <1>6, <2>2 DEF Of
    <3>2. ASSUME NEW i \in M PROVE \E n \in R : f[n] = i
      <4>1. PICK n \in 1 .. k : nth[n] = i
          BY <1>9, <2>1 DEF Surjection
      <4> QED BY <2>2, <4>1
    <3> QED BY <3>1, <3>2 DEF Surjection
  <2>4. IsFiniteSet(R)
      BY <1>6, Counts
  <2>5. Cardinality(M) <= Cardinality(R)
    <3> HIDE DEF M, R, f
    <3> QED BY <2>3, <2>4, FS_Surjection
  <2>6. Count(rebuilt, time, action) \in Nat /\ Count(log, time, action) \in Nat
      BY <1>1, <1>6, Counts
  <2>7. Count(rebuilt, time, action) = Cardinality(R) /\ Count(log, time, action) = Cardinality(M)
      BY <1>1, <1>6, Counts
  <2> QED BY <2>5, <2>6, <2>7
<1>11. Keeps(log, rebuilt, now - Retention)
    BY <1>10 DEF Keeps
<1> QED BY <1>8, <1>11

(* The invariant TimesInv: it holds at the start, and of every step.       *)
LEMMA TimesStart == Init => TimesInv
<1> SUFFICES ASSUME Init PROVE TimesInv
    OBVIOUS
<1>1. Ordered(log, now)
    BY DEF Init, Ordered
<1>2. \A w \in Writers : writer[w].step = "idle"
    BY DEF Init, Idle
<1> QED BY <1>1, <1>2 DEF TimesInv, Timely

(* A step of the one writer at work, after which it alone has locals.      *)
LEMMA TimesMove ==
    ASSUME TypeOK, NEW w \in Writers, NEW locals, writer' = [writer EXCEPT ![w] = locals],
           \A v \in Writers : v # w => writer[v] = Idle,
           Ordered(log', now'), Timely(locals, log', now')
    PROVE  TimesInv'
<1>1. \A v \in Writers : writer'[v] = IF v = w THEN locals ELSE Idle
    BY DEF TypeOK
<1>2. Timely(Idle, log', now')
    BY DEF Timely, Idle
<1> QED BY <1>1, <1>2 DEF TimesInv

(* What the step keeps of the log, if it is one of the property's.         *)
StepKeeps == ~overlapped /\ damage' = "none" => Keeps(log, log', now - Retention)

(* Every step keeps TimesInv and, of the log, what the property needs.     *)
LEMMA TimesKept == Inv /\ Inv' /\ TimesInv /\ [Next]_vars => TimesInv' /\ StepKeeps
<1> SUFFICES ASSUME Inv, Inv', TimesInv, [Next]_vars PROVE TimesInv' /\ StepKeeps
    OBVIOUS
<1>a. /\ TypeOK /\ log \in Seq(Entry) /\ now \in Nat /\ Retention \in Nat
      /\ writer \in [Writers -> [step : Steps, entry : Entry, rebuilt : Seq(Entry)]]
    BY AuditAssumption DEF Inv, TypeOK
<1>b. /\ (~overlapped' => ~overlapped) /\ (damage' = "none" => damage = "none")
      /\ (now' = now \/ now' = now + 1)
  <2>1. ASSUME NEW w \in Writers, NEW locals, Start(w, locals) PROVE ~overlapped' => ~overlapped
      BY <2>1 DEF Start
  <2>2. ASSUME NEW head, SetAnchor(head) PROVE damage' = "none" => damage = "none"
      BY <2>2 DEF SetAnchor
  <2>3. ASSUME NEW w \in Writers, (\E action \in Actions : Draft(w, action)) \/ SealAndPurge(w)
        PROVE  (\E locals : Start(w, locals)) /\ now' = now /\ damage' = damage
      BY <2>3 DEF Draft, SealAndPurge
  <2>4. ASSUME NEW w \in Writers, SetHead(w) \/ Reanchor(w)
        PROVE  (\E head : SetAnchor(head)) /\ now' = now /\ overlapped' = overlapped
      BY <2>4 DEF SetHead, Reanchor
  <2>5. ASSUME NEW w \in Writers, Store(w) \/ ReplaceEntries(w) \/ LogPurge(w)
        PROVE  now' = now /\ overlapped' = overlapped /\ damage' = damage
      BY <2>5 DEF Store, ReplaceEntries, LogPurge
  <2>6. Tick \/ TimeSource \/ UNCHANGED vars =>
            (now' = now \/ now' = now + 1) /\ overlapped' = overlapped /\ damage' = damage
      BY DEF Tick, TimeSource, vars
  <2>7. Damage => now' = now /\ overlapped' = overlapped /\ damage' # "none"
      BY DEF Damage
  <2> QED BY <2>1, <2>2, <2>3, <2>4, <2>5, <2>6, <2>7 DEF Next
<1>c. UNCHANGED log => StepKeeps
    BY <1>a, SameKeeps DEF StepKeeps
<1>d. SUFFICES ASSUME ~overlapped, damage = "none", damage' = "none"
               PROVE  (~overlapped' => TimesInv') /\ StepKeeps
    BY <1>b DEF TimesInv, StepKeeps
<1>e. Ordered(log, now) /\ Sound(log) /\ \A w \in Writers : Timely(writer[w], log, now)
    BY <1>d DEF TimesInv, Inv, Undamaged
(* The next entry is dated now.                                            *)
<1>f. ASSUME NEW action \in Actions
      PROVE  Ordered(Append(log, NewEntry(log, now, action)), now)
  <2>1. PICK e : e = NewEntry(log, now, action)
      OBVIOUS
  <2>2. e \in Entry
      BY <1>a, <2>1, NewEntryType
  <2>3. e.record_time = now
      BY <2>1 DEF NewEntry
  <2> QED BY <1>a, <1>e, <2>1, <2>2, <2>3, AppendOrdered
<1>1. ASSUME NEW w \in Writers, NEW action \in Actions, Draft(w, action), ~overlapped' PROVE TimesInv'
  <2>1. PICK e : e = NewEntry(log, now, action)
      OBVIOUS
  <2>2. PICK l : l = [Idle EXCEPT !.step = "store", !.entry = e]
      OBVIOUS
  <2>3. l.step = "store" /\ l.entry = e
      BY <2>2 DEF Idle
  <2>4. Start(w, l) /\ log' = log /\ now' = now
      BY <1>1, <2>1, <2>2 DEF Draft
  <2>5. writer' = [writer EXCEPT ![w] = l] /\ \A v \in Writers : v # w => writer[v] = Idle
      BY <1>1, <2>4, StartsAlone
  <2>6. Timely(l, log', now')
      BY <1>f, <2>1, <2>3, <2>4 DEF Timely
  <2> QED BY <1>a, <1>e, <2>4, <2>5, <2>6, TimesMove
<1>2. ASSUME NEW w \in Writers, Store(w) PROVE (~overlapped' => TimesInv') /\ StepKeeps
  <2>1. PICK e \in Entry : e = writer[w].entry
      BY <1>a
  <2>2. PICK l : l = [writer[w] EXCEPT !.step = "anchor"]
      OBVIOUS
  <2>3. l.step = "anchor"
      BY <1>a, <2>2
  <2>4. log' = Append(log, e) /\ now' = now /\ writer' = [writer EXCEPT ![w] = l]
      BY <1>2, <2>1, <2>2 DEF Store
  <2>5. \A v \in Writers : v # w => writer[v] = Idle
      BY <1>2, <1>d, Alone DEF Store
  <2>6. Ordered(log', now') /\ Timely(l, log', now')
      BY <1>2, <1>e, <2>1, <2>3, <2>4 DEF Timely, Store
  <2>7. Keeps(log, log', now - Retention)
      BY <1>a, <2>4, AppendKeeps
  <2> QED BY <1>a, <2>4, <2>5, <2>6, <2>7, TimesMove DEF StepKeeps
<1>3. ASSUME NEW w \in Writers, SetHead(w) PROVE TimesInv'
  <2>1. \A v \in Writers : v # w => writer[v] = Idle
      BY <1>3, <1>d, Alone DEF SetHead
  <2>2. log' = log /\ now' = now /\ writer' = [writer EXCEPT ![w] = Idle]
      BY <1>3 DEF SetHead
  <2>3. Timely(Idle, log', now')
      BY DEF Timely, Idle
  <2> QED BY <1>a, <1>e, <2>1, <2>2, <2>3, TimesMove
<1>4. ASSUME NEW w \in Writers, SealAndPurge(w), ~overlapped' PROVE TimesInv'
  <2>1. PICK nth \in [1 .. Cardinality(Kept) -> Kept] :
            /\ Increasing(nth)
            /\ Start(w, [Idle EXCEPT !.step = "reanchor",
                                     !.rebuilt = Rechain([n \in DOMAIN nth |-> log[nth[n]]])])
      BY <1>4 DEF SealAndPurge
  <2>2. PICK r : r = Rechain([n \in DOMAIN nth |-> log[nth[n]]])
      OBVIOUS
  <2>3. PICK l : l = [Idle EXCEPT !.step = "reanchor", !.rebuilt = r]
      OBVIOUS
  <2>4. l.step = "reanchor" /\ l.rebuilt = r
      BY <2>3 DEF Idle
  <2>5. Start(w, l) /\ log' = log /\ now' = now
      BY <1>4, <2>1, <2>2, <2>3 DEF SealAndPurge
  <2>6. writer' = [writer EXCEPT ![w] = l] /\ \A v \in Writers : v # w => writer[v] = Idle
      BY <1>4, <2>5, StartsAlone
  <2>7. Ordered(r, now) /\ Keeps(log, r, now - Retention)
      BY <1>a, <1>e, <2>1, <2>2, PurgeKeeps
  <2>8. Timely(l, log', now')
      BY <2>4, <2>5, <2>7 DEF Timely
  <2> QED BY <1>a, <1>e, <2>5, <2>6, <2>8, TimesMove
<1>5. ASSUME NEW w \in Writers, Reanchor(w) PROVE TimesInv'
  <2>1. PICK l : l = [writer[w] EXCEPT !.step = "replace"]
      OBVIOUS
  <2>2. l.step = "replace" /\ l.rebuilt = writer[w].rebuilt
      BY <1>a, <2>1
  <2>3. log' = log /\ now' = now /\ writer' = [writer EXCEPT ![w] = l] /\ writer[w].step = "reanchor"
      BY <1>5, <2>1 DEF Reanchor
  <2>4. \A v \in Writers : v # w => writer[v] = Idle
      BY <2>3, <1>d, Alone
  <2>5. Timely(l, log', now')
      BY <1>e, <2>2, <2>3 DEF Timely
  <2> QED BY <1>a, <1>e, <2>3, <2>4, <2>5, TimesMove
<1>6. ASSUME NEW w \in Writers, ReplaceEntries(w) PROVE (~overlapped' => TimesInv') /\ StepKeeps
  <2>1. PICK l : l = [Idle EXCEPT !.step = "log purge"]
      OBVIOUS
  <2>2. l.step = "log purge"
      BY <2>1 DEF Idle
  <2>3. /\ log' = writer[w].rebuilt /\ now' = now /\ writer' = [writer EXCEPT ![w] = l]
        /\ writer[w].step = "replace"
      BY <1>6, <2>1 DEF ReplaceEntries
  <2>4. \A v \in Writers : v # w => writer[v] = Idle
      BY <2>3, <1>d, Alone
  <2>5. Ordered(log', now') /\ Keeps(log, log', now - Retention)
      BY <1>e, <2>3 DEF Timely
  <2>6. Timely(l, log', now')
      BY <2>2 DEF Timely
  <2> QED BY <1>a, <2>3, <2>4, <2>5, <2>6, TimesMove DEF StepKeeps
<1>7. ASSUME NEW w \in Writers, LogPurge(w) PROVE TimesInv'
  <2>1. PICK e : e = NewEntry(log, now, "audit.purge")
      OBVIOUS
  <2>2. PICK l : l = [Idle EXCEPT !.step = "store", !.entry = e]
      OBVIOUS
  <2>3. l.step = "store" /\ l.entry = e
      BY <2>2 DEF Idle
  <2>4. log' = log /\ now' = now /\ (writer' = [writer EXCEPT ![w] = l] \/ writer' = [writer EXCEPT ![w] = Idle])
      BY <1>7, <2>1, <2>2 DEF LogPurge
  <2>5. \A v \in Writers : v # w => writer[v] = Idle
      BY <1>7, <1>d, Alone DEF LogPurge
  <2>6. Timely(l, log', now') /\ Timely(Idle, log', now')
    <3>1. Ordered(Append(log, e), now)
        BY <1>f, <2>1, AuditAssumption
    <3>2. Idle.step = "idle"
        BY DEF Idle
    <3> QED BY <2>3, <2>4, <3>1, <3>2 DEF Timely
  <2> QED BY <1>a, <1>e, <2>4, <2>5, <2>6, TimesMove
(* Time passes, or nothing the property is about happens.                  *)
<1>8. ASSUME UNCHANGED <<log, writer>> PROVE TimesInv'
  <2>1. now' \in Nat /\ now <= now' /\ now - Retention \in Int /\ now' - Retention \in Int
        /\ now - Retention <= now' - Retention
      BY <1>a, <1>b
  <2>2. Ordered(log', now')
      BY <1>8, <1>a, <1>e, <2>1, OrderedLater
  <2>3. ASSUME NEW w \in Writers PROVE Timely(writer'[w], log', now')
    <3>1. Timely(writer[w], log, now) /\ writer'[w] = writer[w]
          /\ writer[w].rebuilt \in Seq(Entry) /\ writer[w].entry \in Entry
        BY <1>8, <1>a, <1>e
    <3>2. Append(log, writer[w].entry) \in Seq(Entry)
        BY <1>a, <3>1, AppendProperties
    <3>3. writer[w].step = "store" => Ordered(Append(log, writer[w].entry), now')
        BY <1>a, <2>1, <3>1, <3>2, OrderedLater DEF Timely
    <3>4. writer[w].step \in {"reanchor", "replace"} =>
              Ordered(writer[w].rebuilt, now') /\ Keeps(log, writer[w].rebuilt, now' - Retention)
        BY <1>a, <2>1, <3>1, OrderedLater, KeepsLater DEF Timely
    <3> QED BY <1>8, <3>1, <3>3, <3>4 DEF Timely
  <2> QED BY <2>2, <2>3 DEF TimesInv
<1>9. Damage => damage' # "none"
    BY DEF Damage
<1>10. ASSUME NEW w \in Writers,
              \/ \E action \in Actions \ {"audit.purge"} : Draft(w, action)
              \/ SetHead(w) \/ SealAndPurge(w) \/ Reanchor(w) \/ LogPurge(w)
       PROVE  UNCHANGED log
    BY <1>10 DEF Draft, SetHead, SealAndPurge, Reanchor, LogPurge
<1>11. CASE \E w \in Writers :
              \/ \E action \in Actions \ {"audit.purge"} : Draft(w, action)
              \/ Store(w) \/ SetHead(w)
              \/ SealAndPurge(w) \/ Reanchor(w) \/ ReplaceEntries(w) \/ LogPurge(w)
    BY <1>11, <1>c, <1>1, <1>2, <1>3, <1>4, <1>5, <1>6, <1>7, <1>10
<1>12. CASE Tick \/ TimeSource \/ UNCHANGED vars
    BY <1>12, <1>c, <1>8 DEF Tick, TimeSource, vars
<1> QED BY <1>9, <1>11, <1>12, <1>d DEF Next

(* seal_and_purge removes only what it may: unless writers overlapped, no  *)
(* step on an undamaged log loses an accountability entry, or one within   *)
(* the retention period, of any kind and time.                             *)
THEOREM NeededEntriesAreKept == Spec => NeededEntriesSurvive
<1>1. Inv /\ Inv' /\ TimesInv /\ [Next]_vars => TimesInv' /\ StepKeeps
    BY TimesKept
<1>2. Inv /\ StepKeeps =>
        (~overlapped /\ damage' = "none" =>
            \A time \in 1 .. now, action \in Actions :
                action \in Accountability \/ time >= now - Retention =>
                    Count(log', time, action) >= Count(log, time, action))
    BY DEF StepKeeps, Keeps, Inv, TypeOK
<1> QED BY <1>1, <1>2, InvHolds, TimesStart, PTL DEF Spec, NeededEntriesSurvive
=============================================================================
