-------------------------- MODULE Generation_proofs --------------------------
(***************************************************************************)
(* What the evaluations generate: for whom, with what consent, how often   *)
(* and how much at once; and what the deletion of a contact leaves of it.  *)
(***************************************************************************)
EXTENDS ReminderEngine_proofs, SequenceTheorems

(* The interval from 1 to n has n elements.                                *)
LEMMA Intervals == ASSUME NEW n \in Nat PROVE IsFiniteSet(1 .. n) /\ Cardinality(1 .. n) = n
<1>1. 1 \in Int /\ n \in Int /\ (IF 1 > n THEN 0 ELSE n - 1 + 1) = n
    OBVIOUS
<1> QED BY <1>1, FS_Interval, Zenon

(* What a step of the system is to one evaluation.                         *)
LEMMA OnlyItsRun ==
    ASSUME Types, [Next]_vars, NEW e \in Evaluators
    PROVE  run'[e] = run[e] \/ SchedulerStep(e)
<1>1. ASSUME NEW f \in Evaluators \ {e}, SchedulerStep(f) PROVE run'[e] = run[e]
  <2>1. e \in DOMAIN run /\ e # f
      BY DEF Types, RunTypes
  <2> QED
      BY <1>1, <2>1
      DEF SchedulerStep, EvaluationStep, Evaluate, ListCategories, ListContacts, CapReached,
          AddReminder, EvaluationDone, Killed, Return, Skip, AlreadyGeneratedOrNotDue, NoConsent,
          Consented
<1> QED BY <1>1, RunWriters

LEMMA RunFields ==
    ASSUME Types, NEW e \in Evaluators
    PROVE  LET old == run[e]
               new == run'[e]
           IN  /\ Return(e) => new = NoRun
               /\ \A w : Evaluate(e, w) =>
                    /\ new.step = "categories" /\ new.at = now /\ new.window = w
                    /\ new.existing = DOMAIN reminder
                    /\ new.count = Cardinality(InWindow(DOMAIN reminder, w)) /\ new.todo = {}
               /\ ListCategories(e) =>
                    /\ new.step = "contacts" /\ new.at = old.at /\ new.window = old.window
                    /\ new.existing = old.existing /\ new.count = old.count /\ new.todo = old.todo
               /\ ListContacts(e) =>
                    /\ new.step = "visit" /\ new.at = old.at /\ new.window = old.window
                    /\ new.existing = old.existing /\ new.count = old.count
                    /\ new.contacts = contact /\ new.todo = DOMAIN contact
               /\ \A c : Skip(e, c) =>
                    /\ new.step = old.step /\ new.at = old.at /\ new.window = old.window
                    /\ new.existing = old.existing /\ new.count = old.count
                    /\ new.contacts = old.contacts /\ new.todo = old.todo \ {c}
               /\ \A c : Consented(e, c) =>
                    /\ new.step = "add" /\ new.at = old.at /\ new.window = old.window
                    /\ new.existing = old.existing /\ new.count = old.count
                    /\ new.contacts = old.contacts /\ new.todo = old.todo /\ new.next = c
               /\ AddReminder(e) =>
                    /\ new.step = "visit" /\ new.at = old.at /\ new.window = old.window
                    /\ new.existing = old.existing \cup {<<old.next, old.window>>}
                    /\ new.count = old.count + 1
                    /\ new.contacts = old.contacts /\ new.todo = old.todo \ {old.next}
<1>1. PICK r : r = run[e]
    OBVIOUS
<1>2. PICK q : q = run'[e]
    OBVIOUS
<1>3. e \in DOMAIN run /\ IsRun(r)
    BY <1>1 DEF Types, RunTypes
<1>4. Return(e) => q = NoRun
    BY <1>2, <1>3 DEF Return
<1>5. ASSUME NEW w, Evaluate(e, w)
      PROVE  /\ q.step = "categories" /\ q.at = now /\ q.window = w
             /\ q.existing = DOMAIN reminder
             /\ q.count = Cardinality(InWindow(DOMAIN reminder, w)) /\ q.todo = {}
  <2>1. PICK n : n = Cardinality(InWindow(DOMAIN reminder, w))
      OBVIOUS
  <2>2. PICK p : p = NoRun
      OBVIOUS
  <2>3. q = [p EXCEPT !.step = "categories", !.at = now, !.window = w,
                      !.existing = DOMAIN reminder, !.count = n]
      BY <1>2, <1>3, <1>5, <2>1, <2>2 DEF Evaluate
  <2> QED BY <2>1, <2>2, <2>3 DEF NoRun
<1>6. ASSUME ListCategories(e)
      PROVE  /\ q.step = "contacts" /\ q.at = r.at /\ q.window = r.window
             /\ q.existing = r.existing /\ q.count = r.count /\ q.todo = r.todo
  <2>1. q = [r EXCEPT !.step = "contacts", !.categories = category]
      BY <1>1, <1>2, <1>3, <1>6 DEF ListCategories
  <2> QED BY <1>3, <2>1 DEF IsRun
<1>7. ASSUME ListContacts(e)
      PROVE  /\ q.step = "visit" /\ q.at = r.at /\ q.window = r.window
             /\ q.existing = r.existing /\ q.count = r.count
             /\ q.contacts = contact /\ q.todo = DOMAIN contact
  <2>1. q = [r EXCEPT !.step = "visit", !.contacts = contact, !.todo = DOMAIN contact]
      BY <1>1, <1>2, <1>3, <1>7 DEF ListContacts
  <2> QED BY <1>3, <2>1 DEF IsRun
<1>8. ASSUME NEW c, Skip(e, c)
      PROVE  /\ q.step = r.step /\ q.at = r.at /\ q.window = r.window
             /\ q.existing = r.existing /\ q.count = r.count
             /\ q.contacts = r.contacts /\ q.todo = r.todo \ {c}
  <2>1. q = [r EXCEPT !.todo = r.todo \ {c}]
      BY <1>1, <1>2, <1>3, <1>8 DEF Skip
  <2> QED BY <1>3, <2>1 DEF IsRun
<1>9. ASSUME NEW c, Consented(e, c)
      PROVE  /\ q.step = "add" /\ q.at = r.at /\ q.window = r.window
             /\ q.existing = r.existing /\ q.count = r.count
             /\ q.contacts = r.contacts /\ q.todo = r.todo /\ q.next = c
  <2>1. q = [r EXCEPT !.step = "add", !.next = c]
      BY <1>1, <1>2, <1>3, <1>9 DEF Consented
  <2> QED BY <1>3, <2>1 DEF IsRun
<1>10. ASSUME AddReminder(e)
       PROVE  /\ q.step = "visit" /\ q.at = r.at /\ q.window = r.window
              /\ q.existing = r.existing \cup {<<r.next, r.window>>}
              /\ q.count = r.count + 1
              /\ q.contacts = r.contacts /\ q.todo = r.todo \ {r.next}
  <2>1. PICK key : key = <<r.next, r.window>>
      OBVIOUS
  <2>2. q = [r EXCEPT !.step = "visit", !.existing = r.existing \cup {key},
                      !.count = r.count + 1, !.todo = r.todo \ {r.next}, !.next = None]
      BY <1>1, <1>2, <1>3, <1>10, <2>1 DEF AddReminder
  <2> QED BY <1>3, <2>1, <2>2 DEF IsRun
<1> QED BY <1>1, <1>2, <1>4, <1>5, <1>6, <1>7, <1>8, <1>9, <1>10

(* The steps of an evaluation, those that skip a contact or end it as one. *)
LEMMA RunSteps ==
    ASSUME Types, NEW e \in Evaluators, SchedulerStep(e)
    PROVE  \/ Return(e)
           \/ \E w \in WindowIds : Evaluate(e, w)
           \/ ListCategories(e) \/ ListContacts(e) \/ AddReminder(e)
           \/ \E c \in ContactIds : (Visiting(e, c) /\ Skip(e, c)) \/ Consented(e, c)
<1>1. WindowsAt[now] \subseteq WindowIds
    BY SchedulerAssumption DEF Types, ClockTypes
<1> QED
    BY <1>1
    DEF SchedulerStep, EvaluationStep, CapReached, EvaluationDone, Killed,
        AlreadyGeneratedOrNotDue, NoConsent

-------------------------------------------------------------------------------
(* A contact's row changes only by a write of this instant.                *)
LEMMA RowsAreTouched ==
    ASSUME Types, [Next]_vars, NEW c \in ContactIds
    PROVE  \/ /\ touched'[c] = touched[c]
              /\ c \in DOMAIN contact' <=> c \in DOMAIN contact
              /\ c \in DOMAIN contact => contact'[c] = contact[c]
           \/ touched'[c] = now
<1>1. c \in DOMAIN touched /\ DOMAIN contact \subseteq ContactIds
    BY DEF Types, ContactTypes, IsTable
<1>2. ASSUME NEW t \in Threads, SuppressContact(t) \/ ResetClock(t) \/ WriteCategory(t)
      PROVE  \/ /\ touched'[c] = touched[c]
                /\ c \in DOMAIN contact' <=> c \in DOMAIN contact
                /\ c \in DOMAIN contact => contact'[c] = contact[c]
             \/ touched'[c] = now
    BY <1>1, <1>2 DEF SuppressContact, ResetClock, WriteCategory, WriteContacts
<1>3. ASSUME NEW d, NEW row, NEW rows, WriteContacts(d, rows),
             rows = Add(contact, d, row) \/ rows = Delete(contact, d)
      PROVE  \/ /\ touched'[c] = touched[c]
                /\ c \in DOMAIN contact' <=> c \in DOMAIN contact
                /\ c \in DOMAIN contact => contact'[c] = contact[c]
             \/ touched'[c] = now
  <2>1. CASE d = c
      BY <1>1, <1>3, <2>1 DEF WriteContacts
  <2>2. CASE d # c
    <3>1. touched'[c] = touched[c]
        BY <1>1, <1>3, <2>2 DEF WriteContacts
    <3>2. rows = Add(contact, d, row) => (c \in DOMAIN rows <=> c \in DOMAIN contact)
                                         /\ (c \in DOMAIN contact => rows[c] = contact[c])
        BY <2>2 DEF Add
    <3>3. rows = Delete(contact, d) => (c \in DOMAIN rows <=> c \in DOMAIN contact)
                                       /\ (c \in DOMAIN contact => rows[c] = contact[c])
        BY <2>2 DEF Delete
    <3> QED BY <1>3, <3>1, <3>2, <3>3 DEF WriteContacts
  <2> QED BY <2>1, <2>2
<1>4. ASSUME NEW t \in Threads,
             \/ RemoveContact(t) \/ RestoreContact(t)
             \/ \E d \in ContactIds : InsertContact(t, d)
      PROVE  \/ /\ touched'[c] = touched[c]
                /\ c \in DOMAIN contact' <=> c \in DOMAIN contact
                /\ c \in DOMAIN contact => contact'[c] = contact[c]
             \/ touched'[c] = now
    BY <1>3, <1>4 DEF RemoveContact, RestoreContact, InsertContact
<1> QED BY <1>2, <1>4, ContactWriters

(* What justifies a reminder: its row, the quiet hours and a consent.      *)
RowMakesItDue(k, due) ==
    LET row == contact[k[1]]
    IN  k[1] \in DOMAIN contact /\ touched[k[1]] < due =>
            /\ ~(row.snooze_until > due)
            /\ row.last_contacted_at # None =>
                   row.last_contacted_at + Cadence[row.category_id] <= due
OutsideQuietHours(k, due) ==
    LET hours == Settings[k[2]].quiet_hours
    IN  MinutesUntil(hours[1], MinuteAt[due]) >= MinutesUntil(hours[1], hours[2])
HadConsent(due) ==
    \E n \in Cardinality(AppendedBefore(due)) .. Len(ledger) :
        IsDeliveryConsented(SubSeq(ledger, 1, n), due)
Justified(k, due) ==
    due \in 1 .. now /\ RowMakesItDue(k, due) /\ OutsideQuietHours(k, due) /\ HadConsent(due)

(* Consent once had at an instant no earlier than due stays had: what the  *)
(* ledger gets later, it gets at or after due.                             *)
LEMMA ConsentStaysHad ==
    ASSUME Types, [Next]_vars, NEW due \in 1 .. now, HadConsent(due) PROVE HadConsent(due)'
<1>1. CASE UNCHANGED ledger
    BY <1>1 DEF HadConsent, AppendedBefore
<1>2. ASSUME NEW e \in ConsentEvent, e.appended = now, ledger' = Append(ledger, e)
      PROVE  HadConsent(due)'
  <2>1. ledger \in Seq(ConsentEvent) /\ now \in Nat
      BY RepositoryAssumption DEF Types, LedgerTypes, ClockTypes
  <2>2. /\ Len(ledger') = Len(ledger) + 1 /\ Len(ledger) \in Nat
        /\ \A i \in 1 .. Len(ledger) : ledger'[i] = ledger[i]
        /\ ledger'[Len(ledger) + 1] = e /\ ledger' \in Seq(ConsentEvent)
      BY <1>2, <2>1, AppendProperties
  <2>3. AppendedBefore(due)' = AppendedBefore(due)
    <3>1. DOMAIN ledger = 1 .. Len(ledger) /\ DOMAIN ledger' = 1 .. Len(ledger) + 1
        BY <2>1, <2>2
    <3> QED BY <1>2, <2>1, <2>2, <3>1 DEF AppendedBefore
  <2>4. PICK n \in Cardinality(AppendedBefore(due)) .. Len(ledger) :
            IsDeliveryConsented(SubSeq(ledger, 1, n), due)
      BY DEF HadConsent
  <2>5. AppendedBefore(due) \subseteq 1 .. Len(ledger) /\ Cardinality(AppendedBefore(due)) \in Nat
    <3>1. AppendedBefore(due) \subseteq 1 .. Len(ledger)
        BY <2>1 DEF AppendedBefore
    <3>2. IsFiniteSet(1 .. Len(ledger))
        BY <2>2, Intervals
    <3> QED BY <3>1, <3>2, FS_Subset, FS_CardinalityType
  <2>6. n \in 0 .. Len(ledger)
      BY <2>2, <2>5
  <2>7. SubSeq(ledger', 1, n) = SubSeq(ledger, 1, n)
    <3>1. /\ SubSeq(ledger, 1, n) \in Seq(ConsentEvent) /\ Len(SubSeq(ledger, 1, n)) = n
          /\ \A i \in 1 .. n : SubSeq(ledger, 1, n)[i] = ledger[i]
      <4>1. \A i \in 1 .. n : ledger[i] \in ConsentEvent
          BY <2>1, <2>6
      <4> QED BY <2>6, <4>1, SubSeqProperties
    <3>2. /\ SubSeq(ledger', 1, n) \in Seq(ConsentEvent) /\ Len(SubSeq(ledger', 1, n)) = n
          /\ \A i \in 1 .. n : SubSeq(ledger', 1, n)[i] = ledger'[i]
      <4>1. \A i \in 1 .. n : ledger'[i] \in ConsentEvent
          BY <2>1, <2>2, <2>6
      <4> QED BY <2>6, <4>1, SubSeqProperties
    <3>3. \A i \in 1 .. n : SubSeq(ledger', 1, n)[i] = SubSeq(ledger, 1, n)[i]
        BY <2>2, <2>6, <3>1, <3>2
    <3> QED BY <3>1, <3>2, <3>3, SeqEqual
  <2>8. n \in Cardinality(AppendedBefore(due)') .. Len(ledger')
      BY <2>2, <2>3, <2>4, <2>5
  <2> QED BY <2>4, <2>7, <2>8 DEF HadConsent
<1> QED BY <1>1, <1>2, LedgerTypesKept

LEMMA JustifiedStays ==
    ASSUME Types, [Next]_vars, NEW k \in Keys, NEW due, Justified(k, due) PROVE Justified(k, due)'
<1>1. due \in 1 .. now /\ due \in 1 .. now'
    BY ClockTypesKept, RepositoryAssumption DEF Justified, Types, ClockTypes
<1>2. RowMakesItDue(k, due)'
  <2>1. k[1] \in ContactIds /\ RowMakesItDue(k, due) /\ now \in Nat
      BY RepositoryAssumption DEF Keys, Justified, Types, ClockTypes
  <2>2. CASE touched'[k[1]] = now
      BY <1>1, <2>1, <2>2 DEF RowMakesItDue
  <2>3. CASE /\ touched'[k[1]] = touched[k[1]]
             /\ k[1] \in DOMAIN contact' <=> k[1] \in DOMAIN contact
             /\ k[1] \in DOMAIN contact => contact'[k[1]] = contact[k[1]]
      BY <2>1, <2>3 DEF RowMakesItDue
  <2> QED BY <2>1, <2>2, <2>3, RowsAreTouched
<1>3. OutsideQuietHours(k, due)'
    BY DEF Justified, OutsideQuietHours
<1>4. HadConsent(due)'
    BY <1>1, ConsentStaysHad DEF Justified
<1> QED BY <1>1, <1>2, <1>3, <1>4 DEF Justified

(* The due times a reminder could justly have.                             *)
Dues == [k \in Keys |-> {due \in 1 .. now : Justified(k, due)}]

LEMMA DuesGrow == ASSUME Types, [Next]_vars, NEW k \in Keys PROVE Dues[k] \subseteq Dues'[k]
<1> SUFFICES ASSUME NEW due \in Dues[k] PROVE due \in Dues'[k]
    OBVIOUS
<1>1. Justified(k, due)'
    BY JustifiedStays DEF Dues
<1> QED BY <1>1 DEF Dues, Justified

LEMMA DuesAreJustified ==
    ASSUME Types
    PROVE  \A k \in DOMAIN reminder :
               reminder[k].due_at \in Dues[k] => Justified(k, reminder[k].due_at)
BY DEF Types, ReminderTypes, IsTable, Dues

(* Every reminder is justified, whether in the table, in the copy a        *)
(* deletion would restore or about to be added; for which an evaluation    *)
(* relies on the rows it read: those not written since are still the same. *)
Justifications ==
    /\ \A k \in DOMAIN reminder : reminder[k].due_at \in Dues[k]
    /\ \A t \in Threads : \A k \in DOMAIN cascade[t].reminder :
            cascade[t].reminder[k].due_at \in Dues[k]
    /\ \A e \in Evaluators :
        run[e].step = "add" => run[e].at \in Dues[<<run[e].next, run[e].window>>]
ReadRows ==
    \A e \in Evaluators, c \in ContactIds :
        /\ run[e].step \in {"visit", "add"} /\ touched[c] < run[e].at
        /\ c \in DOMAIN run[e].contacts /\ c \in DOMAIN contact
        => contact[c] = run[e].contacts[c]
TouchedByNow == \A c \in ContactIds : touched[c] <= now

LEMMA TouchedByNowKept == ASSUME Types, TouchedByNow, [Next]_vars PROVE TouchedByNow'
<1>1. touched \in [ContactIds -> Nat] /\ now \in Nat /\ now' >= now /\ now' \in Nat
    BY ClockTypesKept, RepositoryAssumption DEF Types, ClockTypes, ContactTypes
<1>2. ASSUME NEW c \in ContactIds PROVE touched'[c] <= now'
    BY <1>1, RowsAreTouched DEF TouchedByNow
<1> QED BY <1>2 DEF TouchedByNow

LEMMA ReadRowsKept == ASSUME Types, ReadRows, [Next]_vars PROVE ReadRows'
<1> SUFFICES ASSUME NEW e \in Evaluators, NEW c \in ContactIds,
                    run'[e].step \in {"visit", "add"}, touched'[c] < run'[e].at,
                    c \in DOMAIN run'[e].contacts, c \in DOMAIN contact'
             PROVE  contact'[c] = run'[e].contacts[c]
    BY DEF ReadRows
<1>1. IsRun(run[e]) /\ GoodRun(run[e]) /\ now \in Nat /\ IsRun(run'[e]) /\ touched[c] \in Nat
    BY RunTypesKept, RepositoryAssumption DEF Types, RunTypes, ClockTypes, ContactTypes
<1>2. CASE \/ run'[e] = run[e]
           \/ /\ run[e].step \in {"visit", "add"}
              /\ run'[e].at = run[e].at /\ run'[e].contacts = run[e].contacts
  <2>1. run[e].step \in {"visit", "add"} /\ run'[e].at = run[e].at /\ run'[e].contacts = run[e].contacts
      BY <1>2
  <2>2. run[e].at <= now /\ run[e].at \in Nat
      BY <1>1, <2>1 DEF IsRun, GoodRun
  <2>3. touched'[c] # now
      BY <1>1, <2>1, <2>2
  <2> QED BY <2>1, <2>3, RowsAreTouched DEF ReadRows
<1>3. CASE SchedulerStep(e)
  <2>1. UNCHANGED contact
      BY <1>3 DEF SchedulerStep
  <2>2. CASE Return(e) \/ ListCategories(e) \/ \E w \in WindowIds : Evaluate(e, w)
      BY <2>2, RunFields DEF NoRun
  <2>3. CASE ListContacts(e)
      BY <2>1, <2>3, RunFields
  <2>4. CASE AddReminder(e) \/ \E d \in ContactIds : (Visiting(e, d) /\ Skip(e, d)) \/ Consented(e, d)
    <3>1. run[e].step \in {"visit", "add"}
        BY <2>4 DEF AddReminder, Visiting, Consented
    <3>2. run'[e].at = run[e].at /\ run'[e].contacts = run[e].contacts
        BY <2>4, RunFields
    <3> QED BY <1>2, <3>1, <3>2
  <2> QED BY <1>3, <2>2, <2>3, <2>4, RunSteps
<1> QED BY <1>2, <1>3, OnlyItsRun

(* The decision of an evaluation, on the rows and the ledger it reads.     *)
LEMMA DecisionIsJustified ==
    ASSUME Types, ReadRows, NEW e \in Evaluators, NEW c \in ContactIds, Consented(e, c)
    PROVE  run[e].at \in Dues[<<c, run[e].window>>]
<1> DEFINE r == run[e]
           k == <<c, r.window>>
           due == r.at
           row == r.contacts[c]
<1>1. /\ r.step = "visit" /\ r.window \in WindowIds /\ due \in 1 .. now /\ due \in 1 .. MaxTime
      /\ c \in DOMAIN r.contacts /\ row \in ContactRow /\ r.categories \subseteq CategoryIds
  <2>1. r.step = "visit" /\ c \in r.todo
      BY DEF Consented, Visiting
  <2>2. IsRun(r) /\ GoodRun(r) /\ now \in 1 .. MaxTime
      BY DEF Types, RunTypes, ClockTypes
  <2> QED BY <2>1, <2>2, RepositoryAssumption DEF IsRun, GoodRun, IsTable
<1>2. RowDue(row, r.categories, due) /\ IsDeliveryAllowed(Settings[r.window], MinuteAt[due])
      /\ IsDeliveryConsented(ledger, due)
    BY DEF Consented, Due
<1> HIDE DEF r
<1>3. RowMakesItDue(k, due)
  <2>1. ~(row.snooze_until > due)
        /\ (row.last_contacted_at # None => row.last_contacted_at + Cadence[row.category_id] <= due)
      BY <1>1, <1>2, RepositoryAssumption DEF RowDue, ContactRow
  <2>2. c \in DOMAIN contact /\ touched[c] < due => contact[c] = row
      BY <1>1 DEF ReadRows, r
  <2> QED BY <2>1, <2>2 DEF RowMakesItDue
<1>4. OutsideQuietHours(k, due)
  <2>1. PICK hours \in Minutes \X Minutes : hours = Settings[r.window].quiet_hours
      BY <1>1, SchedulerAssumption DEF UserSettings
  <2>2. hours[1] \in Minutes /\ hours[2] \in Minutes /\ MinuteAt[due] \in Minutes
      BY <1>1, <2>1, SchedulerAssumption
  <2>3. ~InQuietHours(hours[1], hours[2], MinuteAt[due])
      BY <1>2, <2>1 DEF IsDeliveryAllowed
  <2>4. ~(MinutesUntil(hours[1], MinuteAt[due]) < MinutesUntil(hours[1], hours[2]))
      BY <2>2, <2>3, QuietHoursGoRoundTheClock
  <2> QED BY <2>1, <2>2, <2>4, CadenceAssumption DEF OutsideQuietHours, MinutesUntil, Minutes
<1>5. HadConsent(due)
  <2>1. ledger \in Seq(ConsentEvent) /\ Len(ledger) \in Nat
      BY DEF Types, LedgerTypes
  <2>2. SubSeq(ledger, 1, Len(ledger)) = ledger
      BY <2>1, SubSeqFull
  <2>3. Cardinality(AppendedBefore(due)) \in Nat /\ Cardinality(AppendedBefore(due)) <= Len(ledger)
    <3>1. AppendedBefore(due) \subseteq 1 .. Len(ledger)
        BY <2>1 DEF AppendedBefore
    <3>2. IsFiniteSet(1 .. Len(ledger)) /\ Cardinality(1 .. Len(ledger)) = Len(ledger)
        BY <2>1, Intervals
    <3>3. IsFiniteSet(AppendedBefore(due)) /\ Cardinality(AppendedBefore(due)) <= Len(ledger)
        BY <3>1, <3>2, FS_Subset
    <3> QED BY <3>3, FS_CardinalityType
  <2>4. Len(ledger) \in Cardinality(AppendedBefore(due)) .. Len(ledger)
      BY <2>1, <2>3
  <2> QED BY <1>2, <2>2, <2>4 DEF HadConsent
<1> QED BY <1>1, <1>3, <1>4, <1>5 DEF Justified, Dues, Keys, r

LEMMA JustificationsKept ==
    ASSUME Types, Types', Justifications, ReadRows, [Next]_vars PROVE Justifications'
<1>1. \A k \in Keys : Dues[k] \subseteq Dues'[k]
    BY DuesGrow
<1>2. IsTable(reminder, Keys, ReminderRow) /\ \A t \in Threads : IsCascade(cascade[t])
    BY DEF Types, ReminderTypes, CascadeTypes
<1>3. ASSUME NEW k \in DOMAIN reminder' PROVE reminder'[k].due_at \in Dues'[k]
  <2>1. k \in Keys
      BY DEF Types, ReminderTypes, IsTable
  <2>2. CASE k \in DOMAIN reminder /\ reminder'[k].due_at = reminder[k].due_at
      BY <1>1, <2>1, <2>2 DEF Justifications
  <2>3. ASSUME NEW t \in Threads, SetStatus(t) PROVE k \in DOMAIN reminder /\ reminder'[k].due_at = reminder[k].due_at
      BY <1>2, <2>3 DEF SetStatus, Update, IsTable, ReminderRow
  <2>4. ASSUME NEW t \in Threads, NEW j \in Keys, RemoveReminder(t, j)
        PROVE  k \in DOMAIN reminder /\ reminder'[k].due_at = reminder[k].due_at
      BY <2>4 DEF RemoveReminder, Delete
  <2>5. ASSUME NEW t \in Threads, NEW j \in Keys, RestoreReminder(t, j)
        PROVE  reminder'[k].due_at \in Dues'[k]
    <3>1. j \in DOMAIN cascade[t].reminder
        BY <2>5 DEF RestoreReminder, Types, CascadeTypes
    <3>2. CASE j = k
      <4>1. reminder'[k] = cascade[t].reminder[k]
          BY <2>5, <3>2 DEF RestoreReminder, Add
      <4> QED BY <1>1, <2>1, <3>1, <3>2, <4>1 DEF Justifications
    <3>3. CASE j # k
        BY <2>2, <2>5, <3>3 DEF RestoreReminder, Add
    <3> QED BY <3>2, <3>3
  <2>6. ASSUME NEW e \in Evaluators, AddReminder(e) PROVE reminder'[k].due_at \in Dues'[k]
    <3> DEFINE key == <<run[e].next, run[e].window>>
    <3>1. CASE k = key
      <4>1. reminder'[k].due_at = run[e].at
          BY <2>6, <3>1 DEF AddReminder, Add
      <4>2. run[e].at \in Dues[key]
          BY <2>6 DEF AddReminder, Justifications
      <4> QED BY <1>1, <2>1, <3>1, <4>1, <4>2
    <3>2. CASE k # key
      <4>1. k \in DOMAIN reminder /\ reminder'[k] = reminder[k]
          BY <2>6, <3>2 DEF AddReminder, Add
      <4> QED BY <2>2, <4>1
    <3> QED BY <3>1, <3>2
  <2> QED BY <2>2, <2>3, <2>4, <2>5, <2>6, ReminderWriters
<1>4. ASSUME NEW t \in Threads, NEW k \in DOMAIN cascade'[t].reminder
      PROVE  cascade'[t].reminder[k].due_at \in Dues'[k]
  <2>1. k \in Keys
      BY DEF Types, CascadeTypes, IsCascade, IsTable
  <2>2. CASE cascade'[t].reminder = cascade[t].reminder
      BY <1>1, <2>1, <2>2 DEF Justifications
  <2>3. ASSUME NEW j \in DOMAIN reminder,
               cascade'[t].reminder = Add(cascade[t].reminder, j, reminder[j])
        PROVE  cascade'[t].reminder[k].due_at \in Dues'[k]
      BY <1>1, <2>1, <2>3 DEF Justifications, Add
  <2>4. CASE cascade'[t] = NoCascade
      BY <2>4 DEF NoCascade
  <2> QED BY <2>2, <2>3, <2>4, CopiesAreFound
<1>5. ASSUME NEW e \in Evaluators, run'[e].step = "add"
      PROVE  run'[e].at \in Dues'[<<run'[e].next, run'[e].window>>]
  <2> DEFINE k == <<run'[e].next, run'[e].window>>
  <2>1. k \in Keys
      BY <1>5 DEF Types, RunTypes, IsRun, GoodRun, IsTable, Keys
  <2>2. CASE run'[e] = run[e]
      BY <1>1, <1>5, <2>1, <2>2 DEF Justifications
  <2>3. ASSUME NEW c \in ContactIds, Consented(e, c) PROVE run'[e].at \in Dues'[k]
      BY <1>1, <2>1, <2>3, DecisionIsJustified, RunFields
  <2>4. CASE SchedulerStep(e)
    <3>1. Return(e) \/ ListCategories(e) \/ ListContacts(e) \/ AddReminder(e)
              \/ (\E w \in WindowIds : Evaluate(e, w)) => run'[e].step # "add"
        BY RunFields DEF NoRun
    <3>2. \A c : Visiting(e, c) /\ Skip(e, c) => run'[e].step # "add"
        BY RunFields DEF Visiting
    <3> QED BY <1>5, <2>3, <2>4, <3>1, <3>2, RunSteps
  <2> QED BY <2>2, <2>4, OnlyItsRun
<1> QED BY <1>3, <1>4, <1>5 DEF Justifications

JustifiedInv == Justifications /\ ReadRows /\ TouchedByNow

(* What justified each reminder and each one about to be added still       *)
(* stands, unless its contact's row was written since the evaluation began.*)
THEOREM RemindersAreJustified == Spec => []JustifiedInv
<1>1. Init => JustifiedInv
  <2>1. Init => TouchedByNow
      BY DEF Init, TouchedByNow, None
  <2> QED BY <2>1 DEF Init, JustifiedInv, Justifications, ReadRows, NoRun, NoCascade
<1>2. Types /\ Types' /\ JustifiedInv /\ [Next]_vars => JustifiedInv'
    BY JustificationsKept, ReadRowsKept, TouchedByNowKept DEF JustifiedInv
<1> QED BY <1>1, <1>2, Typed, PTL DEF Spec

(* Unless its contact's row was written at or after its due time, a        *)
(* reminder is one that row made due: whatever an evaluation read before   *)
(* the row was written it uses only for contacts that were.  And it is due *)
(* outside the quiet hours.                                                *)
THEOREM StableRowsAreHonoured == Spec => []StableRowMadeItDue
<1>1. Types /\ JustifiedInv => StableRowMadeItDue
    BY DuesAreJustified DEF JustifiedInv, Justifications, Justified, RowMakesItDue,
                            OutsideQuietHours, StableRowMadeItDue
<1> QED BY <1>1, Typed, RemindersAreJustified, PTL

(* Every reminder had consent at an instant of its evaluation, however the *)
(* ledger grew since.                                                      *)
THEOREM RemindersHadConsent == Spec => []ConsentedDuringEvaluation
<1>1. Types /\ JustifiedInv => ConsentedDuringEvaluation
    BY DuesAreJustified DEF JustifiedInv, Justifications, Justified, HadConsent,
                            ConsentedDuringEvaluation
<1> QED BY <1>1, Typed, RemindersAreJustified, PTL

-------------------------------------------------------------------------------
(* The evaluations that may yet generate a key: those of its window that   *)
(* did not find its reminder and have the contact before them.  A contact  *)
(* that is gone, an evaluation that lists contacts does not find.          *)
CanAdd(k) ==
    {e \in Evaluators :
        /\ run[e].step # "idle" /\ run[e].window = k[2] /\ k \notin run[e].existing
        /\ \/ run[e].step \in {"categories", "contacts"} /\ ~Gone(k[1])
           \/ run[e].step \in {"visit", "add"} /\ k[1] \in run[e].todo}
FoundOrGone(k) == generated[k] > 0 => k \in DOMAIN reminder \/ Gone(k[1])
FewMayAdd(k) == Cardinality(CanAdd(k)) + generated[k] <= Cardinality(Evaluators)
Onces == \A k \in Keys : k[1] \notin restored => FoundOrGone(k) /\ FewMayAdd(k)

LEMMA FiniteEvaluators ==
    /\ IsFiniteSet(Evaluators) /\ Cardinality(Evaluators) \in Nat
    /\ \A S \in SUBSET Evaluators : /\ IsFiniteSet(S) /\ Cardinality(S) \in Nat
                                    /\ Cardinality(S) <= Cardinality(Evaluators)
BY SchedulerAssumption, FS_Subset, FS_CardinalityType

(* A reminder once generated stays, or its contact's deletion removes it.  *)
LEMMA FoundOrGoneKept ==
    ASSUME Types, DeletionsProceed, Onces, [Next]_vars, NEW k \in Keys, k[1] \notin restored'
    PROVE  FoundOrGone(k)'
<1>1. k[1] \in ContactIds /\ k[1] \notin restored /\ FoundOrGone(k)
    BY RestoredGrows DEF Keys, Onces
<1>2. Gone(k[1]) => Gone(k[1])'
    BY <1>1, GoneStays
<1>3. generated[k] \in Nat /\ DOMAIN generated = Keys
    BY DEF Types, RunTypes
<1>4. ASSUME generated'[k] = generated[k], k \in DOMAIN reminder => k \in DOMAIN reminder' \/ Gone(k[1])
      PROVE  FoundOrGone(k)'
    BY <1>1, <1>2, <1>4 DEF FoundOrGone
<1>5. ASSUME NEW e \in Evaluators, AddReminder(e) PROVE FoundOrGone(k)'
    BY <1>1, <1>2, <1>3, <1>5 DEF AddReminder, Add, FoundOrGone
<1>6. generated'[k] = generated[k] \/ \E e \in Evaluators : AddReminder(e)
    BY RunWriters
    DEF SchedulerStep, EvaluationStep, Evaluate, ListCategories, ListContacts, CapReached,
        EvaluationDone, Killed, Return, Skip, AlreadyGeneratedOrNotDue, NoConsent, Consented
<1>7. k \in DOMAIN reminder => \/ k \in DOMAIN reminder' \/ Gone(k[1])
                               \/ \E e \in Evaluators : AddReminder(e)
  <2>1. ASSUME NEW t \in Threads, SetStatus(t) PROVE k \in DOMAIN reminder => k \in DOMAIN reminder'
      BY <2>1 DEF SetStatus, Update
  <2>2. ASSUME NEW t \in Threads, NEW j \in Keys, RestoreReminder(t, j)
        PROVE  k \in DOMAIN reminder => k \in DOMAIN reminder'
      BY <2>2 DEF RestoreReminder, Add
  <2>3. ASSUME NEW t \in Threads, NEW j \in Keys, RemoveReminder(t, j)
        PROVE  k \in DOMAIN reminder => k \in DOMAIN reminder' \/ Gone(k[1])
    <3>1. j # k => (k \in DOMAIN reminder => k \in DOMAIN reminder')
        BY <2>3 DEF RemoveReminder, Delete
    <3>2. j \in Dependents(api[t].c) /\ (Gone(api[t].c) \/ api[t].c \in restored)
        BY <2>3 DEF RemoveReminder, At, DeletionsProceed, DeletionProceeds
    <3> QED BY <1>1, <3>1, <3>2 DEF Dependents, OfContacts
  <2> QED BY <2>1, <2>2, <2>3, ReminderWriters
<1> QED BY <1>4, <1>5, <1>6, <1>7

(* Only an evaluation that begins adds to those that may add.              *)
LEMMA CanAddShrinks ==
    ASSUME Types, DeletionsProceed, [Next]_vars, NEW k \in Keys, k[1] \notin restored',
           NEW e \in CanAdd(k)', e \notin CanAdd(k)
    PROVE  Evaluate(e, k[2]) /\ k \notin DOMAIN reminder /\ ~Gone(k[1])
<1>1. k[1] \in ContactIds /\ k[1] \notin restored /\ e \in Evaluators /\ k[2] \in WindowIds
    BY RestoredGrows DEF Keys, CanAdd
<1>2. Gone(k[1]) => Gone(k[1])'
    BY <1>1, GoneStays
<1>3. DOMAIN contact \subseteq ContactIds
    BY DEF Types, ContactTypes, IsTable
<1>4. SchedulerStep(e)
  <2>1. CASE run'[e] = run[e]
      BY <1>1, <1>2, <2>1 DEF CanAdd
  <2> QED BY <1>1, <2>1, OnlyItsRun
<1>5. UNCHANGED <<contact, touched>> /\ (Gone(k[1])' <=> Gone(k[1]))
    BY <1>4 DEF SchedulerStep, Gone
<1>6. /\ run'[e].step # "idle" /\ run'[e].window = k[2] /\ k \notin run'[e].existing
      /\ \/ run'[e].step \in {"categories", "contacts"} /\ ~Gone(k[1])
         \/ run'[e].step \in {"visit", "add"} /\ k[1] \in run'[e].todo
    BY <1>5 DEF CanAdd
<1>7. ~ /\ run[e].step # "idle" /\ run[e].window = k[2] /\ k \notin run[e].existing
        /\ \/ run[e].step \in {"categories", "contacts"} /\ ~Gone(k[1])
           \/ run[e].step \in {"visit", "add"} /\ k[1] \in run[e].todo
    BY <1>1 DEF CanAdd
<1>8. CASE Return(e)
    BY <1>1, <1>6, <1>8, RunFields DEF NoRun
<1>9. ASSUME NEW w \in WindowIds, Evaluate(e, w) PROVE Evaluate(e, k[2]) /\ k \notin DOMAIN reminder /\ ~Gone(k[1])
    BY <1>1, <1>6, <1>9, RunFields
<1>10. CASE ListCategories(e)
    BY <1>1, <1>6, <1>7, <1>10, RunFields DEF ListCategories
<1>11. CASE ListContacts(e)
    BY <1>1, <1>6, <1>7, <1>11, RunFields DEF ListContacts, Gone
<1>12. CASE AddReminder(e)
  <2>1. run[e].step = "add"
      BY <1>12 DEF AddReminder
  <2>2. /\ run'[e].window = run[e].window /\ run[e].existing \subseteq run'[e].existing
        /\ run'[e].step = "visit" /\ run'[e].todo \subseteq run[e].todo
      BY <1>1, <1>12, RunFields
  <2> QED BY <1>6, <1>7, <2>1, <2>2
<1>13. ASSUME NEW c \in ContactIds, Visiting(e, c), Skip(e, c) PROVE FALSE
    BY <1>1, <1>6, <1>7, <1>13, RunFields DEF Visiting
<1>14. ASSUME NEW c \in ContactIds, Consented(e, c) PROVE FALSE
    BY <1>1, <1>6, <1>7, <1>14, RunFields DEF Consented, Visiting
<1> QED BY <1>1, <1>4, <1>8, <1>9, <1>10, <1>11, <1>12, <1>13, <1>14, RunSteps

LEMMA FewMayAddKept ==
    ASSUME Types, Types', DeletionsProceed, Onces, [Next]_vars, NEW k \in Keys, k[1] \notin restored'
    PROVE  FewMayAdd(k)'
<1> DEFINE N == Cardinality(Evaluators)
<1>1. k[1] \notin restored /\ FoundOrGone(k) /\ FewMayAdd(k)
    BY RestoredGrows DEF Onces
<1>2. generated[k] \in Nat /\ DOMAIN generated = Keys /\ generated'[k] \in Nat
    BY DEF Types, RunTypes
<1>3. /\ N \in Nat /\ IsFiniteSet(CanAdd(k)) /\ IsFiniteSet(CanAdd(k)')
      /\ Cardinality(CanAdd(k)) \in Nat /\ Cardinality(CanAdd(k)') \in Nat /\ Cardinality(CanAdd(k)') <= N
    BY FiniteEvaluators DEF CanAdd
<1>4. CASE CanAdd(k)' \subseteq CanAdd(k) /\ generated'[k] = generated[k]
  <2>1. Cardinality(CanAdd(k)') <= Cardinality(CanAdd(k))
      BY <1>3, <1>4, FS_Subset
  <2> QED BY <1>1, <1>2, <1>3, <1>4, <2>1 DEF FewMayAdd
<1>5. ASSUME NEW e \in Evaluators, AddReminder(e) PROVE FewMayAdd(k)'
  <2> DEFINE key == <<run[e].next, run[e].window>>
  <2>1. CanAdd(k)' \subseteq CanAdd(k)
    <3>1. run[e].step = "add"
        BY <1>5 DEF AddReminder
    <3>2. \A f \in Evaluators \ {e} : run'[f] = run[f]
        BY <1>5 DEF AddReminder, Types, RunTypes
    <3>3. \A f \in Evaluators : \A w : Evaluate(f, w) => run[f].step = "idle" /\ run'[f].step = "categories"
        BY RunFields DEF Evaluate
    <3>4. \A f \in Evaluators : \A w : ~Evaluate(f, w)
        BY <3>1, <3>2, <3>3
    <3>5. ASSUME NEW f \in CanAdd(k)', f \notin CanAdd(k) PROVE FALSE
        BY <3>4, <3>5, CanAddShrinks DEF CanAdd
    <3> QED BY <3>5
  <2>2. CASE key # k
      BY <1>2, <1>4, <1>5, <2>1, <2>2 DEF AddReminder
  <2>3. CASE key = k
    <3>1. generated'[k] = generated[k] + 1
        BY <1>2, <1>5, <2>3 DEF AddReminder
    <3>2. e \in CanAdd(k)
      <4>1. IsRun(run[e]) /\ GoodRun(run[e]) /\ run[e].step = "add"
          BY <1>5 DEF Types, RunTypes, AddReminder
      <4> QED BY <2>3, <4>1 DEF CanAdd, GoodRun
    <3>3. e \notin CanAdd(k)'
      <4>1. k \in run'[e].existing
          BY <1>5, <2>3, RunFields
      <4> QED BY <4>1 DEF CanAdd
    <3>4. CanAdd(k)' \subseteq CanAdd(k) \ {e}
        BY <2>1, <3>3
    <3>5. IsFiniteSet(CanAdd(k) \ {e}) /\ Cardinality(CanAdd(k) \ {e}) = Cardinality(CanAdd(k)) - 1
        BY <1>3, <3>2, FS_RemoveElement
    <3>6. Cardinality(CanAdd(k)') <= Cardinality(CanAdd(k)) - 1
        BY <3>4, <3>5, FS_Subset
    <3> QED BY <1>1, <1>2, <1>3, <3>1, <3>6 DEF FewMayAdd
  <2> QED BY <2>2, <2>3
<1>6. ASSUME NEW e \in CanAdd(k)', e \notin CanAdd(k) PROVE FewMayAdd(k)'
  <2>1. Evaluate(e, k[2]) /\ k \notin DOMAIN reminder /\ ~Gone(k[1])
      BY <1>6, CanAddShrinks
  <2>2. generated[k] = 0 /\ UNCHANGED generated
      BY <1>1, <1>2, <2>1 DEF FoundOrGone, Evaluate
  <2> QED BY <1>2, <1>3, <2>2 DEF FewMayAdd
<1>7. generated'[k] = generated[k] \/ \E e \in Evaluators : AddReminder(e)
    BY RunWriters
    DEF SchedulerStep, EvaluationStep, Evaluate, ListCategories, ListContacts, CapReached,
        EvaluationDone, Killed, Return, Skip, AlreadyGeneratedOrNotDue, NoConsent, Consented
<1> QED BY <1>4, <1>5, <1>6, <1>7

(* However often a window is evaluated, killed and evaluated again, and    *)
(* whatever became of the reminder, a key's reminder is generated at most  *)
(* once by each evaluation that can be in flight at once: an evaluation    *)
(* that begins later finds the reminder, or no contact.                    *)
THEOREM GenerationIsIdempotent == Spec => []OncePerWindow
<1>1. Init => Onces
  <2>1. ASSUME Init, NEW k \in Keys PROVE FoundOrGone(k) /\ FewMayAdd(k)
    <3>1. generated[k] = 0 /\ \A e \in Evaluators : run[e].step = "idle"
        BY <2>1 DEF Init, NoRun
    <3>2. CanAdd(k) = {}
        BY <3>1 DEF CanAdd
    <3> QED BY <3>1, <3>2, FS_EmptySet, FiniteEvaluators DEF FoundOrGone, FewMayAdd
  <2> QED BY <2>1 DEF Onces
<1>2. Types /\ Types' /\ DeletionsProceed /\ Onces /\ [Next]_vars => Onces'
    BY FoundOrGoneKept, FewMayAddKept DEF Onces
<1>3. Types /\ Onces => OncePerWindow
  <2>1. ASSUME Types, Onces, NEW k \in Keys, k[1] \notin restored PROVE ~(generated[k] > Cardinality(Evaluators))
    <3>1. Cardinality(CanAdd(k)) \in Nat /\ Cardinality(Evaluators) \in Nat /\ generated[k] \in Nat
        BY <2>1, FiniteEvaluators DEF CanAdd, Types, RunTypes
    <3> QED BY <2>1, <3>1 DEF Onces, FewMayAdd
  <2> QED BY <2>1 DEF OncePerWindow
<1> QED BY <1>1, <1>2, <1>3, Typed, DeletionsAlwaysProceed, PTL DEF Spec

-------------------------------------------------------------------------------
(* A window's budget: the cap for each evaluation that can be in flight.   *)
(* A reminder takes one of it; so does each one an evaluation in flight    *)
(* may still add before its count, which began with the reminders it       *)
(* found, is at the cap.                                                   *)
Held(w) == InWindow(DOMAIN reminder, w) \ OfContacts(Keys, restored)
Slots(w) ==
    {s \in Evaluators \X (1 .. PerWindowCap) :
        run[s[1]].step # "idle" /\ run[s[1]].window = w /\ s[2] > run[s[1]].count}
Budget == PerWindowCap * Cardinality(Evaluators)
WithinBudget(w) == Cardinality(Held(w)) + Cardinality(Slots(w)) <= Budget

LEMMA FiniteBudget ==
    ASSUME Types, NEW w \in WindowIds
    PROVE  /\ IsFiniteSet(InWindow(DOMAIN reminder, w)) /\ IsFiniteSet(Held(w)) /\ IsFiniteSet(Slots(w))
           /\ Cardinality(InWindow(DOMAIN reminder, w)) \in Nat
           /\ Cardinality(Held(w)) \in Nat /\ Cardinality(Slots(w)) \in Nat
           /\ Cardinality(Held(w)) <= Cardinality(InWindow(DOMAIN reminder, w))
           /\ PerWindowCap \in Nat /\ Budget \in Nat
<1>1. PerWindowCap \in Nat /\ IsFiniteSet(1 .. PerWindowCap)
    BY SchedulerAssumption, Intervals
<1>2. IsFiniteSet(Evaluators \X (1 .. PerWindowCap))
    BY <1>1, FiniteEvaluators, FS_Product
<1>3. IsFiniteSet(Slots(w)) /\ Cardinality(Slots(w)) \in Nat
    BY <1>2, FS_Subset, FS_CardinalityType DEF Slots
<1>4. IsFiniteSet(Keys)
    BY RepositoryAssumption, FS_Product DEF Keys
<1>5. InWindow(DOMAIN reminder, w) \subseteq Keys
    BY DEF Types, ReminderTypes, IsTable, InWindow
<1>6. IsFiniteSet(InWindow(DOMAIN reminder, w)) /\ Cardinality(InWindow(DOMAIN reminder, w)) \in Nat
    BY <1>4, <1>5, FS_Subset, FS_CardinalityType
<1>7. /\ IsFiniteSet(Held(w)) /\ Cardinality(Held(w)) \in Nat
      /\ Cardinality(Held(w)) <= Cardinality(InWindow(DOMAIN reminder, w))
    BY <1>6, FS_Subset, FS_CardinalityType DEF Held
<1> QED BY <1>1, <1>3, <1>6, <1>7, FiniteEvaluators DEF Budget

LEMMA FiniteBudgetNext ==
    ASSUME Types', NEW w \in WindowIds
    PROVE  /\ IsFiniteSet(Held(w)') /\ IsFiniteSet(Slots(w)')
           /\ Cardinality(Held(w)') \in Nat /\ Cardinality(Slots(w)') \in Nat
<1>1. IsFiniteSet(1 .. PerWindowCap)
    BY SchedulerAssumption, Intervals
<1>2. IsFiniteSet(Evaluators \X (1 .. PerWindowCap))
    BY <1>1, FiniteEvaluators, FS_Product
<1>3. Slots(w)' \subseteq Evaluators \X (1 .. PerWindowCap)
    BY DEF Slots
<1>4. IsFiniteSet(Keys)
    BY RepositoryAssumption, FS_Product DEF Keys
<1>5. Held(w)' \subseteq Keys
    BY DEF Types, ReminderTypes, IsTable, InWindow, Held
<1> QED BY <1>2, <1>3, <1>4, <1>5, FS_Subset, FS_CardinalityType

(* A reminder that is restored does not count.                             *)
LEMMA HeldGrows ==
    ASSUME Types, DeletionsProceed, [Next]_vars, NEW w \in WindowIds
    PROVE  \/ Held(w)' \subseteq Held(w)
           \/ \E e \in Evaluators : /\ AddReminder(e) /\ run[e].window = w
                                    /\ Held(w)' \subseteq Held(w) \cup {<<run[e].next, w>>}
<1>1. restored \subseteq restored' /\ DOMAIN reminder \subseteq Keys
    BY RestoredGrows DEF Types, ReminderTypes, IsTable
<1>2. CASE DOMAIN reminder' \subseteq DOMAIN reminder
    BY <1>1, <1>2 DEF Held, InWindow, OfContacts
<1>3. ASSUME NEW t \in Threads, NEW k \in Keys, RestoreReminder(t, k) PROVE Held(w)' \subseteq Held(w)
  <2>1. k[1] \in restored
    <3>1. k \in Dependents(api[t].c) /\ api[t].c \in restored
        BY <1>3 DEF RestoreReminder, At, DeletionsProceed, DeletionProceeds, Restoring
    <3> QED BY <3>1 DEF Dependents, OfContacts
  <2>2. DOMAIN reminder' = DOMAIN reminder \cup {k}
      BY <1>3 DEF RestoreReminder, Add
  <2> QED BY <1>1, <2>1, <2>2 DEF Held, InWindow, OfContacts
<1>4. ASSUME NEW e \in Evaluators, AddReminder(e)
      PROVE  \/ Held(w)' \subseteq Held(w)
             \/ /\ run[e].window = w
                /\ Held(w)' \subseteq Held(w) \cup {<<run[e].next, w>>}
  <2>1. DOMAIN reminder' = DOMAIN reminder \cup {<<run[e].next, run[e].window>>}
      BY <1>4 DEF AddReminder, Add
  <2> QED BY <1>1, <2>1 DEF Held, InWindow, OfContacts
<1>5. \A t \in Threads : SetStatus(t) => DOMAIN reminder' = DOMAIN reminder
    BY DEF SetStatus, Update
<1>6. \A t \in Threads, k \in Keys : RemoveReminder(t, k) => DOMAIN reminder' \subseteq DOMAIN reminder
    BY DEF RemoveReminder, Delete
<1> QED BY <1>2, <1>3, <1>4, <1>5, <1>6, ReminderWriters

(* Only an evaluation that begins claims slots.                            *)
LEMMA SlotsGrow ==
    ASSUME Types, [Next]_vars, NEW w \in WindowIds, NEW s \in Slots(w)', s \notin Slots(w)
    PROVE  Evaluate(s[1], w) /\ s[2] > Cardinality(InWindow(DOMAIN reminder, w))
<1>1. PICK e \in Evaluators, i \in 1 .. PerWindowCap : s = <<e, i>>
    BY DEF Slots
<1>2. run'[e].step # "idle" /\ run'[e].window = w /\ i > run'[e].count
    BY <1>1 DEF Slots
<1>3. ~(run[e].step # "idle" /\ run[e].window = w /\ i > run[e].count)
    BY <1>1 DEF Slots
<1>4. SchedulerStep(e)
    BY <1>2, <1>3, OnlyItsRun
<1>5. CASE Return(e)
    BY <1>2, <1>5, RunFields DEF NoRun
<1>6. ASSUME NEW v \in WindowIds, Evaluate(e, v)
      PROVE  Evaluate(e, w) /\ i > Cardinality(InWindow(DOMAIN reminder, w))
    BY <1>2, <1>6, RunFields
<1>7. CASE ListCategories(e)
    BY <1>2, <1>3, <1>7, RunFields DEF ListCategories
<1>8. CASE ListContacts(e)
    BY <1>2, <1>3, <1>8, RunFields DEF ListContacts
<1>9. CASE AddReminder(e)
  <2>1. run[e].step = "add" /\ run[e].count \in Nat
      BY <1>9 DEF AddReminder, Types, RunTypes, IsRun
  <2>2. run'[e].window = run[e].window /\ run'[e].count = run[e].count + 1
      BY <1>9, RunFields
  <2> QED BY <1>2, <1>3, <2>1, <2>2
<1>10. ASSUME NEW c \in ContactIds, (Visiting(e, c) /\ Skip(e, c)) \/ Consented(e, c) PROVE FALSE
  <2>1. run[e].step = "visit"
      BY <1>10 DEF Consented, Visiting
  <2>2. run'[e].window = run[e].window /\ run'[e].count = run[e].count
      BY <1>10, RunFields
  <2> QED BY <1>2, <1>3, <2>1, <2>2
<1> QED BY <1>1, <1>4, <1>5, <1>6, <1>7, <1>8, <1>9, <1>10, RunSteps

(* The slots of an evaluation that begins are those above the count.       *)
LEMMA BeginnersSlots ==
    ASSUME Types, Types', [Next]_vars, NEW w \in WindowIds, NEW e \in Evaluators, Evaluate(e, w),
           Cardinality(InWindow(DOMAIN reminder, w)) <= PerWindowCap
    PROVE  Cardinality(Slots(w)')
               <= Budget - Cardinality(InWindow(DOMAIN reminder, w))
<1> DEFINE Others == (Evaluators \ {e}) \X (1 .. PerWindowCap)
<1>1. PICK m \in Nat : m = Cardinality(InWindow(DOMAIN reminder, w))
    BY FiniteBudget
<1>2. PICK N \in Nat : N = Cardinality(Evaluators)
    BY FiniteEvaluators
<1> DEFINE Own == {e} \X (m + 1 .. PerWindowCap)
<1>3. PerWindowCap \in Nat /\ m <= PerWindowCap
    BY <1>1, SchedulerAssumption
<1>4. IsFiniteSet(Evaluators \ {e}) /\ Cardinality(Evaluators \ {e}) = N - 1
    BY <1>2, FiniteEvaluators, FS_RemoveElement
<1>5. IsFiniteSet(Others) /\ Cardinality(Others) = (N - 1) * PerWindowCap
  <2>1. IsFiniteSet(1 .. PerWindowCap) /\ Cardinality(1 .. PerWindowCap) = PerWindowCap
    <3>1. 1 \in Int /\ PerWindowCap \in Int
        BY <1>3
    <3>2. (IF 1 > PerWindowCap THEN 0 ELSE PerWindowCap - 1 + 1) = PerWindowCap
        BY <1>3
    <3> QED BY <3>1, <3>2, FS_Interval, Zenon
  <2>2. IsFiniteSet(Others)
        /\ Cardinality(Others) = Cardinality(Evaluators \ {e}) * Cardinality(1 .. PerWindowCap)
      BY <1>4, <2>1, FS_Product, Zenon
  <2> QED BY <1>4, <2>1, <2>2, Zenon
<1>6. IsFiniteSet(Own) /\ Cardinality(Own) = PerWindowCap - m
  <2>1. IsFiniteSet(m + 1 .. PerWindowCap) /\ Cardinality(m + 1 .. PerWindowCap) = PerWindowCap - m
    <3>1. m + 1 \in Int /\ PerWindowCap \in Int
        BY <1>3
    <3>2. (IF m + 1 > PerWindowCap THEN 0 ELSE PerWindowCap - (m + 1) + 1) = PerWindowCap - m
        BY <1>3
    <3> QED BY <3>1, <3>2, FS_Interval, Zenon
  <2>2. IsFiniteSet({e}) /\ Cardinality({e}) = 1
      BY FS_Singleton
  <2>3. /\ IsFiniteSet(Own)
        /\ Cardinality(Own) = Cardinality({e}) * Cardinality(m + 1 .. PerWindowCap)
      BY <2>1, <2>2, FS_Product, Zenon
  <2>4. 1 * (PerWindowCap - m) = PerWindowCap - m
      BY <1>3
  <2> QED BY <2>1, <2>2, <2>3, <2>4, Zenon
<1>7. Slots(w)' \subseteq Others \cup Own
  <2>1. ASSUME NEW s \in Slots(w)' PROVE s \in Others \cup Own
    <3>1. PICK f \in Evaluators, i \in 1 .. PerWindowCap : s = <<f, i>> /\ i > run'[f].count
        BY <2>1 DEF Slots
    <3>2. f = e => i > m
        BY <1>1, <3>1, RunFields
    <3> QED BY <1>3, <3>1, <3>2
  <2> QED BY <2>1
<1>8. /\ IsFiniteSet(Others \cup Own) /\ Cardinality(Others \cap Own) \in Nat
      /\ Cardinality(Others \cup Own) = Cardinality(Others) + Cardinality(Own) - Cardinality(Others \cap Own)
    BY <1>5, <1>6, FS_Union, FS_Intersection, FS_CardinalityType
<1>9. Cardinality(Slots(w)') <= Cardinality(Others \cup Own) /\ Cardinality(Slots(w)') \in Nat
    BY <1>7, <1>8, FS_Subset, FS_CardinalityType
<1>10. (N - 1) * PerWindowCap + PerWindowCap = PerWindowCap * N
    BY <1>3
<1> HIDE DEF Others, Own
<1>11. Cardinality(Slots(w)') <= PerWindowCap * N - m
  <2>1. PICK p \in Int : p = (N - 1) * PerWindowCap
      BY <1>3
  <2>2. PICK q \in Int : q = PerWindowCap * N
      BY <1>3
  <2> QED BY <1>3, <1>5, <1>6, <1>8, <1>9, <1>10, <2>1, <2>2
<1> QED BY <1>1, <1>2, <1>11 DEF Budget

LEMMA WithinBudgetKept ==
    ASSUME Types, Types', DeletionsProceed, [Next]_vars, NEW w \in WindowIds, WithinBudget(w)
    PROVE  WithinBudget(w)'
<1> DEFINE m == Cardinality(InWindow(DOMAIN reminder, w))
           h == Cardinality(Held(w))
           s == Cardinality(Slots(w))
           h1 == Cardinality(Held(w)')
           s1 == Cardinality(Slots(w)')
<1>1. /\ IsFiniteSet(Held(w)) /\ IsFiniteSet(Slots(w)) /\ PerWindowCap \in Nat /\ Budget \in Nat
      /\ m \in Nat /\ h \in Nat /\ s \in Nat /\ h <= m /\ h + s <= Budget
    BY FiniteBudget DEF WithinBudget
<1>2. /\ IsFiniteSet(Held(w)') /\ IsFiniteSet(Slots(w)') /\ h1 \in Nat /\ s1 \in Nat
    BY FiniteBudgetNext
<1>3. Held(w)' \subseteq Held(w) => h1 <= h
    BY <1>1, FS_Subset
<1>4. Slots(w)' \subseteq Slots(w) => s1 <= s
    BY <1>1, FS_Subset
<1> SUFFICES h1 + s1 <= Budget
    BY DEF WithinBudget, Budget
<1>5. CASE Held(w)' \subseteq Held(w) /\ Slots(w)' \subseteq Slots(w)
  <2> HIDE DEF h, s, h1, s1, m
  <2> QED BY <1>1, <1>2, <1>3, <1>4, <1>5
<1>6. ASSUME NEW e \in Evaluators, AddReminder(e), run[e].window = w,
             Held(w)' \subseteq Held(w) \cup {<<run[e].next, w>>}
      PROVE  h1 + s1 <= Budget
  <2> DEFINE slot == <<e, run[e].count + 1>>
  <2>1. run[e].step = "add" /\ run[e].count \in Nat /\ run[e].count < PerWindowCap
      BY <1>6 DEF AddReminder, Types, RunTypes, IsRun, GoodRun
  <2>2. slot \in Slots(w)
      BY <1>1, <1>6, <2>1 DEF Slots
  <2>3. Slots(w)' \subseteq Slots(w) \ {slot}
    <3>1. \A v : ~Evaluate(e, v)
        BY <2>1 DEF Evaluate
    <3>2. \A f \in Evaluators \ {e} : run'[f] = run[f]
        BY <1>6 DEF AddReminder, Types, RunTypes
    <3>3. \A f \in Evaluators : \A v : Evaluate(f, v) => run[f].step = "idle" /\ run'[f].step = "categories"
        BY RunFields DEF Evaluate
    <3>4. Slots(w)' \subseteq Slots(w)
      <4>1. ASSUME NEW x \in Slots(w)', x \notin Slots(w) PROVE FALSE
          BY <3>1, <3>2, <3>3, <4>1, SlotsGrow DEF Slots
      <4> QED BY <4>1
    <3>5. run'[e].count = run[e].count + 1
        BY <1>6, RunFields
    <3> QED BY <2>1, <3>4, <3>5 DEF Slots
  <2>4. IsFiniteSet(Slots(w) \ {slot}) /\ Cardinality(Slots(w) \ {slot}) = s - 1
      BY <1>1, <2>2, FS_RemoveElement
  <2>5. s1 <= s - 1
      BY <2>3, <2>4, FS_Subset
  <2>6. IsFiniteSet(Held(w) \cup {<<run[e].next, w>>})
        /\ Cardinality(Held(w) \cup {<<run[e].next, w>>}) <= h + 1
    <3>1. Cardinality(Held(w) \cup {<<run[e].next, w>>})
              = IF <<run[e].next, w>> \in Held(w) THEN h ELSE h + 1
        BY <1>1, FS_AddElement, Zenon
    <3>2. IsFiniteSet(Held(w) \cup {<<run[e].next, w>>})
        BY <1>1, FS_AddElement
    <3> HIDE DEF h
    <3> QED BY <1>1, <3>1, <3>2
  <2>7. h1 <= h + 1
    <3>1. h1 <= Cardinality(Held(w) \cup {<<run[e].next, w>>})
        BY <1>6, <2>6, FS_Subset
    <3>2. Cardinality(Held(w) \cup {<<run[e].next, w>>}) \in Nat
        BY <2>6, FS_CardinalityType
    <3> QED BY <1>1, <1>2, <2>6, <3>1, <3>2
  <2> HIDE DEF h, s, h1, s1, m
  <2> QED BY <1>1, <1>2, <2>5, <2>7
<1>7. ASSUME NEW x \in Slots(w)', x \notin Slots(w), Held(w)' \subseteq Held(w)
      PROVE  h1 + s1 <= Budget
  <2>1. PICK e \in Evaluators, i \in 1 .. PerWindowCap : x = <<e, i>>
      BY <1>7 DEF Slots
  <2>2. Evaluate(e, w) /\ i > m
      BY <1>7, <2>1, SlotsGrow
  <2>3. m <= PerWindowCap
      BY <1>1, <2>1, <2>2
  <2>4. s1 <= Budget - m
      BY <2>2, <2>3, BeginnersSlots
  <2> HIDE DEF h, s, h1, s1, m
  <2> QED BY <1>1, <1>2, <1>3, <1>7, <2>4
<1> QED BY <1>5, <1>6, <1>7, HeldGrows

(* However evaluations of a window overlap, are killed or run again, and   *)
(* whatever is deleted, the window's reminders do not exceed the cap for   *)
(* each evaluation that can be in flight at once.                          *)
THEOREM CapHoldsPerEvaluation == Spec => []CapPerWindow
<1> DEFINE Budgets == \A w \in WindowIds : WithinBudget(w)
<1>1. Init => Budgets
  <2>1. ASSUME Init, NEW w \in WindowIds PROVE WithinBudget(w)
    <3>1. DOMAIN reminder = {} /\ \A e \in Evaluators : run[e].step = "idle"
        BY <2>1 DEF Init, NoRun
    <3>2. Held(w) = {} /\ Slots(w) = {}
        BY <3>1 DEF Held, InWindow, Slots
    <3>3. 0 <= Budget
        BY SchedulerAssumption, FiniteEvaluators DEF Budget
    <3> QED BY <3>2, <3>3, FS_EmptySet DEF WithinBudget
  <2> QED BY <2>1
<1>2. Types /\ Types' /\ DeletionsProceed /\ Budgets /\ [Next]_vars => Budgets'
    BY WithinBudgetKept
<1>3. Types /\ Budgets => CapPerWindow
  <2>1. ASSUME Types, NEW w \in WindowIds, WithinBudget(w)
        PROVE  Cardinality(InWindow(DOMAIN reminder, w) \ OfContacts(Keys, restored))
                   <= PerWindowCap * Cardinality(Evaluators)
      BY <2>1, FiniteBudget DEF WithinBudget, Held, Budget
  <2> QED BY <2>1 DEF CapPerWindow
<1> QED BY <1>1, <1>2, <1>3, Typed, DeletionsAlwaysProceed, PTL DEF Spec

-------------------------------------------------------------------------------
(* Deletion, as long as one thread at a time deletes the contact.  Stage   *)
(* says what a deletion has found, holds and has removed at each of its    *)
(* steps, Whole what it leaves behind, Unborn that nothing refers to an id *)
(* no row was written with, so that a contact begins with no reminders.    *)
Deletes(t, c) == api[t].op = "delete_contact" /\ api[t].c = c
GeneratedFor(c) == {k \in Dependents(c) : generated[k] > 0}
Stage(t, c) ==
    LET step == api[t].step
        keys == cascade[t].keys
        copied == DOMAIN cascade[t].reminder
    IN  /\ step \in {"plan", "events", "copy", "rows"} =>
               c \in DOMAIN contact /\ GeneratedFor(c) \subseteq DOMAIN reminder
        /\ step \in {"events", "copy", "rows"} =>
               keys \subseteq DOMAIN reminder /\ keys \subseteq cascade[t].uncopied \cup copied
        /\ step = "remove rows" => keys \subseteq copied
        /\ step \in {"rows", "remove rows", "restore contact"} => c \in DOMAIN cascade[t].contact
        /\ step = "remove rows" =>
               c \notin DOMAIN contact /\ GeneratedFor(c) \subseteq DOMAIN reminder \cup copied
        /\ step = "restore contact" => GeneratedFor(c) \subseteq DOMAIN reminder \cup keys
        /\ step = "restore rows" =>
               c \in DOMAIN contact /\ GeneratedFor(c) \subseteq DOMAIN reminder \cup keys
OnRecord(c) == \E entry \in audit : entry.action = "deletion" /\ entry.ref = c
Whole(c) ==
    /\ c \in DOMAIN contact => GeneratedFor(c) \subseteq DOMAIN reminder
    /\ c \notin DOMAIN contact => OnRecord(c)
Alone(c) == \A t, u \in Threads : Deletes(t, c) /\ Deletes(u, c) => t = u
Unborn(c) ==
    touched[c] = None =>
        /\ c \notin DOMAIN contact /\ ~Deleting(c) /\ GeneratedFor(c) = {}
        /\ \A e \in Evaluators : c \notin run[e].todo
Undisturbed(c) ==
    /\ Alone(c) /\ \A t \in Threads : Deletes(t, c) => Stage(t, c)
    /\ touched[c] # None /\ ~Deleting(c) => Whole(c)
DeletionInv == \A c \in ContactIds : Unborn(c) /\ (c \notin contested => Undisturbed(c))

LEMMA ContestedGrows == ASSUME [Next]_vars PROVE contested \subseteq contested'
<1>1. ASSUME NEW t \in Threads, ContactServiceStep(t) PROVE UNCHANGED contested
    BY <1>1
    DEF ContactServiceStep, FindCategory, WriteCategory, InsertContact, ListReminders, ListEvents,
        CopyContact, CopyReminder, CopyEvent, RemoveContact, AuditDeletion, RestoreContact,
        RolledBack, RemoveReminder, RestoreReminder, RemoveEvent, RestoreEvent, deletions
<1>2. ASSUME NEW t \in Threads, NEW d \in ContactIds, StartDelete(t, d)
      PROVE  contested \subseteq contested'
    BY <1>2 DEF StartDelete
<1> QED
    BY <1>1, <1>2
    DEF Next, ApiStep, ActionRequest, ContactRequest, ConsentRequest, SchedulerStep, Tick,
        TimeSource, vars, StartCreate, StartUpdate, deletions

(* The steps of a deletion that copy, remove or restore one row.           *)
RowStep(t) ==
    \/ \E k \in Keys : CopyReminder(t, k) \/ RemoveReminder(t, k) \/ RestoreReminder(t, k)
    \/ \E x \in cascade[t].unsaved : CopyEvent(t, x)
    \/ \E x \in cascade[t].log : RemoveEvent(t, x) \/ RestoreEvent(t, x)

LEMMA RowStepsStay == ASSUME NEW t \in Threads, RowStep(t) PROVE UNCHANGED api
BY DEF RowStep, CopyReminder, CopyEvent, RemoveReminder, RestoreReminder, RemoveEvent, RestoreEvent

(* A deletion begins with StartDelete, and ends with its audit entry, or   *)
(* rolled back.                                                            *)
LEMMA DeletionBegins ==
    ASSUME Types, [Next]_vars, NEW t \in Threads, NEW c \in ContactIds, Deletes(t, c)', ~Deletes(t, c)
    PROVE  StartDelete(t, c)
<1>1. \A step : GoTo(t, step) => api'[t].op = api[t].op /\ api'[t].c = api[t].c
    BY OnGoTo
<1>2. Finish(t) => api'[t].op # "delete_contact"
    BY OnFinish
<1>3. CASE \/ ListReminders(t) \/ ListEvents(t) \/ CopyContact(t) \/ RemoveContact(t)
           \/ AuditDeletion(t) \/ RestoreContact(t) \/ RolledBack(t)
    BY <1>1, <1>2, <1>3
    DEF ListReminders, ListEvents, CopyContact, RemoveContact, AuditDeletion, RestoreContact,
        RolledBack, Deletes
<1>4. CASE RowStep(t)
    BY <1>4, RowStepsStay DEF Deletes
<1>5. ASSUME NEW d \in ContactIds, StartDelete(t, d) PROVE StartDelete(t, c)
    BY <1>5, OnDelete DEF Deletes
<1>6. CASE api'[t] = api[t] \/ api'[t].op # "delete_contact"
    BY <1>6 DEF Deletes
<1> QED BY <1>3, <1>4, <1>5, <1>6, DeletionSteps DEF OfDeletion, RowStep

LEMMA DeletionEnds ==
    ASSUME Types, [Next]_vars, NEW t \in Threads, NEW c \in ContactIds, Deletes(t, c), ~Deletes(t, c)'
    PROVE  \/ AuditDeletion(t) /\ AuditAppend("deletion", c)
           \/ RolledBack(t)
<1>1. \A step : GoTo(t, step) => api'[t].op = api[t].op /\ api'[t].c = api[t].c
    BY OnGoTo
<1>2. CASE \/ ListReminders(t) \/ ListEvents(t) \/ CopyContact(t) \/ RemoveContact(t)
           \/ RestoreContact(t)
    BY <1>1, <1>2
    DEF ListReminders, ListEvents, CopyContact, RemoveContact, RestoreContact, Deletes
<1>3. CASE RowStep(t)
    BY <1>3, RowStepsStay DEF Deletes
<1>4. CASE AuditDeletion(t)
    BY <1>1, <1>4 DEF AuditDeletion, Deletes
<1>5. \A d \in ContactIds : ~StartDelete(t, d)
    BY DEF StartDelete, Begin, NoRequest, Deletes
<1>6. CASE api'[t] = api[t] \/ api[t].op # "delete_contact"
    BY <1>6 DEF Deletes
<1> QED BY <1>2, <1>3, <1>4, <1>5, <1>6, DeletionSteps DEF OfDeletion, RowStep

(* Two deletions of a contact in flight contest it.                        *)
LEMMA AloneKept ==
    ASSUME Types, [Next]_vars, NEW c \in ContactIds, c \notin contested', Alone(c)
    PROVE  Alone(c)'
<1>1. ASSUME NEW t \in Threads, NEW u \in Threads, t # u, Deletes(t, c)', Deletes(u, c)', ~Deletes(t, c)
      PROVE  FALSE
  <2>1. StartDelete(t, c)
      BY <1>1, DeletionBegins
  <2>2. api'[u] = api[u]
      BY <1>1, <2>1 DEF StartDelete, Begin, Types, ApiTypes
  <2>3. Deleting(c)
      BY <1>1, <2>2 DEF Deletes, Deleting
  <2> QED BY <2>1, <2>3 DEF StartDelete
<1> QED BY <1>1 DEF Alone

(* Only the thread that deletes a contact removes or restores its row, or  *)
(* removes its reminders; what is generated for it is in the table.        *)
LEMMA OnlyItsDeletion ==
    ASSUME Types, [Next]_vars, NEW c \in ContactIds, touched[c] # None
    PROVE  \/ c \in DOMAIN contact' <=> c \in DOMAIN contact
           \/ \E t \in Threads : Deletes(t, c) /\ (RemoveContact(t) \/ RestoreContact(t))
<1>1. CASE UNCHANGED <<contact, touched>>
    BY <1>1
<1>2. ASSUME NEW t \in Threads, SuppressContact(t) \/ ResetClock(t) \/ WriteCategory(t)
      PROVE  DOMAIN contact' = DOMAIN contact
    BY <1>2 DEF SuppressContact, ResetClock, WriteCategory, WriteContacts
<1>3. ASSUME NEW t \in Threads, RemoveContact(t) \/ RestoreContact(t), ~Deletes(t, c)
      PROVE  c \in DOMAIN contact' <=> c \in DOMAIN contact
  <2>1. api[t].c # c
      BY <1>3 DEF RemoveContact, RestoreContact, At, Deletes
  <2>2. PICK d : d = api[t].c
      OBVIOUS
  <2>3. \/ UNCHANGED contact \/ contact' = Delete(contact, d)
        \/ \E row : contact' = Add(contact, d, row)
      BY <1>3, <2>2 DEF RemoveContact, RestoreContact, WriteContacts
  <2>4. contact' = Delete(contact, d) => DOMAIN contact' = DOMAIN contact \ {d}
      BY DEF Delete
  <2>5. \A row : contact' = Add(contact, d, row) => DOMAIN contact' = DOMAIN contact \cup {d}
      BY DEF Add
  <2> QED BY <2>1, <2>2, <2>3, <2>4, <2>5
<1>4. ASSUME NEW t \in Threads, NEW d \in ContactIds, InsertContact(t, d)
      PROVE  c \in DOMAIN contact' <=> c \in DOMAIN contact
    BY <1>4 DEF InsertContact, WriteContacts, Add
<1> QED BY <1>1, <1>2, <1>3, <1>4, ContactWriters

LEMMA OnlyItsRemoval ==
    ASSUME Types, DeletionsProceed, [Next]_vars, NEW c \in ContactIds, NEW k \in Dependents(c),
           k \in DOMAIN reminder, k \notin DOMAIN reminder'
    PROVE  \E t \in Threads : Deletes(t, c) /\ RemoveReminder(t, k)
<1>1. \A t \in Threads : ~SetStatus(t)
    BY DEF SetStatus, Update
<1>2. \A t \in Threads, j \in Keys : ~RestoreReminder(t, j)
    BY DEF RestoreReminder, Add
<1>3. \A e \in Evaluators : ~AddReminder(e)
    BY DEF AddReminder, Add
<1>4. ASSUME NEW t \in Threads, NEW j \in Keys, RemoveReminder(t, j)
      PROVE  Deletes(t, c) /\ RemoveReminder(t, k)
  <2>1. j = k
      BY <1>4 DEF RemoveReminder, Delete
  <2>2. k \in Dependents(api[t].c)
      BY <1>4, <2>1 DEF RemoveReminder, At, DeletionsProceed, DeletionProceeds
  <2> QED BY <1>4, <2>1, <2>2 DEF Dependents, OfContacts, Deletes, RemoveReminder, At
<1> QED BY <1>1, <1>2, <1>3, <1>4, ReminderWriters

LEMMA GeneratedAreAdded ==
    ASSUME Types, [Next]_vars, NEW c \in ContactIds
    PROVE  GeneratedFor(c)' \subseteq GeneratedFor(c) \cup DOMAIN reminder'
<1>1. DOMAIN generated = Keys
    BY DEF Types, RunTypes
<1>2. generated' = generated \/ \E e \in Evaluators : AddReminder(e)
    BY RunWriters
    DEF SchedulerStep, EvaluationStep, Evaluate, ListCategories, ListContacts, CapReached,
        EvaluationDone, Killed, Return, Skip, AlreadyGeneratedOrNotDue, NoConsent, Consented
<1>3. ASSUME NEW e \in Evaluators, AddReminder(e), NEW k \in Keys
      PROVE  generated'[k] = generated[k] \/ k \in DOMAIN reminder'
    BY <1>1, <1>3 DEF AddReminder, Add
<1> QED BY <1>2, <1>3 DEF GeneratedFor, Dependents, OfContacts

(* A contact's id is new until its row is inserted.                        *)
LEMMA UnbornKept ==
    ASSUME Types, Types', [Next]_vars, NEW c \in ContactIds, Unborn(c), touched'[c] = None
    PROVE  Unborn(c)'
<1>1. now # None
    BY RepositoryAssumption DEF Types, ClockTypes, None
<1>2. touched[c] = None /\ (c \in DOMAIN contact' <=> c \in DOMAIN contact)
    BY <1>1, RowsAreTouched
<1>3. c \notin DOMAIN contact /\ ~Deleting(c) /\ GeneratedFor(c) = {}
      /\ \A e \in Evaluators : c \notin run[e].todo
    BY <1>2 DEF Unborn
<1>4. ASSUME NEW t \in Threads PROVE ~Deletes(t, c)'
  <2>1. ~Deletes(t, c) /\ ~StartDelete(t, c)
      BY <1>3 DEF Deletes, Deleting, StartDelete
  <2> QED BY <2>1, DeletionBegins
<1>5. ASSUME NEW e \in Evaluators PROVE c \notin run'[e].todo
  <2>1. CASE run'[e] = run[e]
      BY <1>3, <2>1
  <2>2. CASE Return(e)
      BY <2>2, RunFields DEF NoRun
  <2>3. CASE \/ \E w \in WindowIds : Evaluate(e, w)
             \/ ListCategories(e) \/ ListContacts(e) \/ AddReminder(e)
      BY <1>3, <2>3, RunFields
  <2>4. CASE \E d \in ContactIds : Skip(e, d) \/ Consented(e, d)
      BY <1>3, <2>4, RunFields
  <2> QED BY <2>1, <2>2, <2>3, <2>4, OnlyItsRun, RunSteps
<1>6. GeneratedFor(c)' = {}
  <2>1. DOMAIN generated = Keys
      BY DEF Types, RunTypes
  <2>2. generated' = generated \/ \E e \in Evaluators : AddReminder(e)
      BY RunWriters
      DEF SchedulerStep, EvaluationStep, Evaluate, ListCategories, ListContacts, CapReached,
          EvaluationDone, Killed, Return, Skip, AlreadyGeneratedOrNotDue, NoConsent, Consented
  <2>3. ASSUME NEW e \in Evaluators, AddReminder(e), NEW k \in Dependents(c)
        PROVE  generated'[k] = generated[k]
    <3>1. run[e].next \in run[e].todo
        BY <2>3 DEF AddReminder, Types, RunTypes, GoodRun
    <3>2. k # <<run[e].next, run[e].window>> /\ k \in Keys
        BY <1>3, <3>1 DEF Dependents, OfContacts
    <3> QED BY <2>1, <2>3, <3>2 DEF AddReminder
  <2> QED BY <1>3, <2>2, <2>3 DEF GeneratedFor
<1> QED BY <1>2, <1>3, <1>4, <1>5, <1>6 DEF Unborn, Deletes, Deleting

(* Inserted, it has no reminders.                                          *)
LEMMA BornWhole ==
    ASSUME Types, [Next]_vars, NEW c \in ContactIds, Unborn(c), touched[c] = None, touched'[c] # None
    PROVE  Whole(c)'
<1>1. c \notin DOMAIN contact /\ ~Deleting(c) /\ GeneratedFor(c) = {} /\ c \in DOMAIN touched
    BY DEF Unborn, Types, ContactTypes
<1>2. GeneratedFor(c)' \subseteq DOMAIN reminder'
    BY <1>1, GeneratedAreAdded
<1>3. ASSUME NEW d, NEW rows, WriteContacts(d, rows) PROVE d = c
    BY <1>1, <1>3 DEF WriteContacts
<1>4. \A t \in Threads : ~SuppressContact(t) /\ ~ResetClock(t) /\ ~WriteCategory(t)
    BY <1>1, <1>3 DEF SuppressContact, ResetClock, WriteCategory
<1>5. \A t \in Threads : ~RemoveContact(t) /\ ~RestoreContact(t)
    BY <1>1, <1>3 DEF RemoveContact, RestoreContact, At, Deleting
<1>6. ASSUME NEW t \in Threads, NEW d \in ContactIds, InsertContact(t, d) PROVE c \in DOMAIN contact'
    BY <1>3, <1>6 DEF InsertContact, WriteContacts, Add
<1> QED BY <1>2, <1>4, <1>5, <1>6, ContactWriters DEF Whole

(* What a deletion does at each step it does alone.                        *)
LEMMA StageKept ==
    ASSUME Types, Types', DeletionsProceed, DeletionInv, [Next]_vars, NEW c \in ContactIds,
           c \notin contested', NEW t \in Threads, Deletes(t, c)'
    PROVE  Stage(t, c)'
<1> DEFINE old == cascade[t]
           new == cascade'[t]
<1>1. c \notin contested /\ Unborn(c) /\ Undisturbed(c)
    BY ContestedGrows DEF DeletionInv
<1>2. ASSUME ~Deletes(t, c) PROVE Stage(t, c)'
  <2>1. StartDelete(t, c) /\ c \in DOMAIN contact /\ ~Deleting(c)
      BY <1>2, DeletionBegins DEF StartDelete
  <2>2. Whole(c)
      BY <1>1, <2>1 DEF Unborn, Undisturbed
  <2>3. api'[t].step = "plan" /\ UNCHANGED <<contact, reminder>>
      BY <2>1, OnDelete DEF StartDelete
  <2>4. c \in DOMAIN contact' /\ GeneratedFor(c)' \subseteq DOMAIN reminder'
      BY <2>1, <2>2, <2>3, GeneratedAreAdded DEF Whole
  <2> QED BY <2>3, <2>4 DEF Stage
<1>3. ASSUME Deletes(t, c) PROVE Stage(t, c)'
  <2>1. /\ Stage(t, c) /\ touched[c] # None
        /\ \A u \in Threads : Deletes(u, c) => u = t
      BY <1>1, <1>3 DEF Undisturbed, Alone, Unborn, Deletes, Deleting
  <2>2. GeneratedFor(c)' \subseteq GeneratedFor(c) \cup DOMAIN reminder'
      BY GeneratedAreAdded
  <2>3. CASE api'[t] = api[t] /\ cascade'[t] = cascade[t]
    <3>1. ~RemoveContact(t) /\ ~RestoreContact(t)
      <4>1. RemoveContact(t) => api[t].step = "rows" /\ api'[t].step = "remove rows"
          BY OnGoTo DEF RemoveContact, At
      <4>2. RestoreContact(t) => api[t].step = "restore contact" /\ api'[t].step = "restore rows"
          BY OnGoTo DEF RestoreContact, At
      <4> QED BY <2>3, <4>1, <4>2
    <3>2. c \in DOMAIN contact' <=> c \in DOMAIN contact
        BY <2>1, <3>1, OnlyItsDeletion
    <3>3. ASSUME NEW k \in Dependents(c), k \in DOMAIN reminder, k \notin DOMAIN reminder' PROVE FALSE
      <4>1. RemoveReminder(t, k)
          BY <2>1, <3>3, OnlyItsRemoval
      <4>2. k \in old.keys /\ new.keys = old.keys \ {k}
          BY <4>1, DeletionFields DEF RemoveReminder
      <4> QED BY <2>3, <4>2
    <3>4. old.keys \subseteq Dependents(c)
        BY <1>3 DEF DeletionsProceed, DeletionProceeds, Deletes
    <3>5. \A S : GeneratedFor(c) \subseteq DOMAIN reminder \cup S
                    => GeneratedFor(c)' \subseteq DOMAIN reminder' \cup S
        BY <2>2, <3>3 DEF GeneratedFor
    <3>6. GeneratedFor(c) \subseteq DOMAIN reminder => GeneratedFor(c)' \subseteq DOMAIN reminder'
        BY <2>2, <3>3 DEF GeneratedFor
    <3> QED BY <2>1, <2>3, <3>2, <3>3, <3>4, <3>5, <3>6 DEF Stage
  <2>4. CASE ListReminders(t)
    <3>1. api[t].step = "plan" /\ api'[t].step = "events" /\ UNCHANGED <<contact, reminder>>
        BY <2>4, OnGoTo DEF ListReminders, At
    <3>2. new.keys \subseteq DOMAIN reminder /\ new.uncopied = new.keys
        BY <2>4, DeletionFields
    <3> QED BY <2>1, <2>2, <3>1, <3>2 DEF Stage
  <2>a. CASE ListEvents(t)
    <3>1. api[t].step = "events" /\ api'[t].step = "copy" /\ UNCHANGED <<contact, reminder>>
        BY <2>a, OnGoTo DEF ListEvents, At
    <3>2. new.keys = old.keys /\ new.uncopied = old.uncopied /\ new.reminder = old.reminder
        BY <2>a, DeletionFields DEF SameCopies
    <3> QED BY <2>1, <2>2, <3>1, <3>2 DEF Stage
  <2>5. CASE CopyContact(t)
    <3>1. api[t].step = "copy" /\ api'[t].step = "rows" /\ UNCHANGED <<contact, reminder>>
        BY <2>5, OnGoTo DEF CopyContact, At
    <3>2. /\ new.contact = Rows(contact, {c}) /\ new.reminder = old.reminder
          /\ new.keys = old.keys /\ new.uncopied = old.uncopied
        BY <1>3, <2>5, DeletionFields DEF Deletes
    <3>3. DOMAIN new.contact = DOMAIN contact \cap {c}
        BY <3>2 DEF Rows
    <3> QED BY <2>1, <2>2, <3>1, <3>2, <3>3 DEF Stage
  <2>b. ASSUME NEW k \in Keys, CopyReminder(t, k) PROVE Stage(t, c)'
    <3>1. api[t].step = "rows" /\ api'[t] = api[t] /\ UNCHANGED <<contact, reminder>>
        BY <2>b DEF CopyReminder, At
    <3>2. /\ new.contact = old.contact /\ Copies(t, k)
          /\ new.keys = old.keys /\ new.uncopied = old.uncopied \ {k}
        BY <2>b, DeletionFields
    <3>3. k \in DOMAIN reminder => DOMAIN new.reminder = DOMAIN old.reminder \cup {k}
        BY <3>2 DEF Copies, Add
    <3>4. k \notin DOMAIN reminder => new.reminder = old.reminder
        BY <3>2 DEF Copies
    <3> QED BY <2>1, <2>2, <3>1, <3>2, <3>3, <3>4 DEF Stage
  <2>6. CASE RemoveContact(t)
    <3>1. api[t].step = "rows" /\ api'[t].step = "remove rows"
          /\ old.uncopied = {} /\ UNCHANGED <<cascade, reminder>>
        BY <2>6, OnGoTo DEF RemoveContact, At
    <3>2. contact' = Delete(contact, c)
        BY <1>3, <2>6 DEF RemoveContact, WriteContacts, Deletes
    <3>3. c \notin DOMAIN contact'
        BY <3>2 DEF Delete
    <3> QED BY <2>1, <2>2, <3>1, <3>3 DEF Stage
  <2>7. CASE AuditDeletion(t)
    <3>1. new.keys = DOMAIN old.reminder /\ new.contact = old.contact /\ GoTo(t, "restore contact")
      <4>1. ~Finish(t)
          BY OnFinish DEF Deletes
      <4> QED BY <2>7, <4>1, DeletionFields DEF SameCopies
    <3>2. api[t].step = "remove rows" /\ api'[t].step = "restore contact" /\ UNCHANGED <<contact, reminder>>
        BY <2>7, <3>1, OnGoTo DEF AuditDeletion, At
    <3> QED BY <2>1, <2>2, <3>1, <3>2 DEF Stage
  <2>8. CASE RestoreContact(t)
    <3>1. api[t].step = "restore contact" /\ api'[t].step = "restore rows"
          /\ UNCHANGED <<cascade, reminder>>
        BY <2>8, OnGoTo DEF RestoreContact, At
    <3>2. c \in DOMAIN old.contact
        BY <2>1, <3>1 DEF Stage
    <3>3. contact' = Add(contact, c, old.contact[c])
        BY <1>3, <2>8, <3>2 DEF RestoreContact, WriteContacts, Deletes
    <3>4. c \in DOMAIN contact'
        BY <3>3 DEF Add
    <3> QED BY <2>1, <2>2, <3>1, <3>4 DEF Stage
  <2>9. ASSUME NEW k \in Keys, RemoveReminder(t, k) PROVE Stage(t, c)'
    <3>1. api[t].step = "remove rows" /\ api'[t] = api[t] /\ UNCHANGED contact /\ k \in old.keys
        BY <2>9 DEF RemoveReminder, At
    <3>2. new.keys = old.keys \ {k} /\ new.contact = old.contact /\ new.reminder = old.reminder
        BY <2>9, DeletionFields DEF SameCopies
    <3>3. DOMAIN reminder' = DOMAIN reminder \ {k}
        BY <2>9 DEF RemoveReminder, Delete
    <3> QED BY <2>1, <2>2, <3>1, <3>2, <3>3 DEF Stage
  <2>10. ASSUME NEW k \in Keys, RestoreReminder(t, k) PROVE Stage(t, c)'
    <3>1. api[t].step = "restore rows" /\ api'[t] = api[t] /\ UNCHANGED contact
        BY <2>10 DEF RestoreReminder, At
    <3>2. new.keys = old.keys \ {k}
        BY <2>10, DeletionFields
    <3>3. DOMAIN reminder' = DOMAIN reminder \cup {k}
        BY <2>10 DEF RestoreReminder, Add
    <3> QED BY <2>1, <2>2, <3>1, <3>2, <3>3 DEF Stage
  <2>11. ASSUME NEW x, CopyEvent(t, x) \/ RemoveEvent(t, x) \/ RestoreEvent(t, x) PROVE Stage(t, c)'
    <3>1. api'[t] = api[t] /\ UNCHANGED <<contact, reminder>>
        BY <2>11 DEF CopyEvent, RemoveEvent, RestoreEvent
    <3>2. /\ new.keys = old.keys /\ new.uncopied = old.uncopied
          /\ new.contact = old.contact /\ new.reminder = old.reminder
        BY <2>11, DeletionFields DEF SameCopies
    <3> QED BY <2>1, <2>2, <3>1, <3>2 DEF Stage
  <2>12. CASE RolledBack(t) \/ \E d \in ContactIds : StartDelete(t, d)
    <3>1. RolledBack(t) => api'[t].op # "delete_contact"
        BY OnFinish DEF RolledBack
    <3>2. \A d \in ContactIds : ~StartDelete(t, d)
        BY <1>3 DEF StartDelete, Begin, NoRequest, Deletes
    <3> QED BY <2>12, <3>1, <3>2 DEF Deletes
  <2>13. api[t].op = "delete_contact"
      BY <1>3 DEF Deletes
  <2> QED
      BY <2>3, <2>4, <2>5, <2>6, <2>7, <2>8, <2>9, <2>10, <2>11, <2>12, <2>13, <2>a, <2>b,
         DeletionSteps
      DEF OfDeletion
<1> QED BY <1>2, <1>3

(* What a deletion leaves behind, and what is left once it is over.        *)
LEMMA WholeKept ==
    ASSUME Types, DeletionsProceed, DeletionInv, [Next]_vars, NEW c \in ContactIds,
           c \notin contested', touched'[c] # None, ~Deleting(c)'
    PROVE  Whole(c)'
<1>1. c \notin contested /\ Unborn(c) /\ Undisturbed(c)
    BY ContestedGrows DEF DeletionInv
<1>2. GeneratedFor(c)' \subseteq GeneratedFor(c) \cup DOMAIN reminder'
    BY GeneratedAreAdded
<1>3. CASE touched[c] = None
    BY <1>1, <1>3, BornWhole
<1>4. CASE touched[c] # None /\ ~Deleting(c)
  <2>1. Whole(c) /\ \A t \in Threads : ~Deletes(t, c)
      BY <1>1, <1>4 DEF Undisturbed, Deleting, Deletes
  <2>2. c \in DOMAIN contact' <=> c \in DOMAIN contact
      BY <1>4, <2>1, OnlyItsDeletion
  <2>3. \A k \in Dependents(c) : k \in DOMAIN reminder => k \in DOMAIN reminder'
      BY <2>1, OnlyItsRemoval
  <2>4. OnRecord(c) => OnRecord(c)'
      BY AuditGrows DEF OnRecord
  <2> QED BY <1>2, <2>1, <2>2, <2>3, <2>4 DEF Whole, GeneratedFor
<1>5. ASSUME NEW t \in Threads, Deletes(t, c) PROVE Whole(c)'
  <2>1. Stage(t, c) /\ ~Deletes(t, c)'
      BY <1>1, <1>5 DEF Undisturbed, Deleting, Deletes
  <2>2. CASE AuditDeletion(t) /\ AuditAppend("deletion", c)
    <3>1. c \notin DOMAIN contact'
        BY <2>1, <2>2 DEF AuditDeletion, At, Stage
    <3>2. OnRecord(c)'
      <4>1. PICK entry \in audit' : entry = [action |-> "deletion", ref |-> c, at |-> now]
          BY <2>2 DEF AuditAppend
      <4>2. entry.action = "deletion" /\ entry.ref = c
          BY <4>1
      <4> QED BY <4>2 DEF OnRecord
    <3> QED BY <3>1, <3>2 DEF Whole
  <2>3. CASE RolledBack(t)
    <3>1. c \in DOMAIN contact' /\ GeneratedFor(c) \subseteq DOMAIN reminder /\ UNCHANGED reminder
        BY <2>1, <2>3 DEF RolledBack, At, Stage
    <3> QED BY <1>2, <3>1 DEF Whole
  <2> QED BY <1>5, <2>1, <2>2, <2>3, DeletionEnds
<1> QED BY <1>3, <1>4, <1>5 DEF Deleting, Deletes

(* A deletion in flight proceeds as it should if no other is in flight for *)
(* the contact, whatever evaluations and other requests do meanwhile.      *)
THEOREM DeletionsAreInOrder == Spec => []DeletionInv
<1>1. Init => DeletionInv
  <2>1. ASSUME Init, NEW c \in ContactIds PROVE Unborn(c) /\ Undisturbed(c)
    <3>1. /\ \A t \in Threads : ~Deletes(t, c)
          /\ \A e \in Evaluators : run[e].todo = {}
          /\ GeneratedFor(c) = {}
        BY <2>1 DEF Init, NoRequest, NoRun, Deletes, GeneratedFor, Dependents, OfContacts
    <3>2. touched[c] # None <=> c \in DOMAIN contact
        BY <2>1 DEF Init, None
    <3> QED BY <3>1, <3>2 DEF Unborn, Undisturbed, Alone, Whole, Deleting, Deletes
  <2> QED BY <2>1 DEF DeletionInv
<1>2. ASSUME Types, Types', DeletionsProceed, DeletionInv, [Next]_vars PROVE DeletionInv'
  <2>1. ASSUME NEW c \in ContactIds PROVE Unborn(c)'
    <3>1. Unborn(c)
        BY <1>2 DEF DeletionInv
    <3>2. CASE touched'[c] = None
        BY <1>2, <3>1, <3>2, UnbornKept
    <3> QED BY <3>2 DEF Unborn
  <2>2. ASSUME NEW c \in ContactIds, c \notin contested' PROVE Undisturbed(c)'
    <3>1. Alone(c)
        BY <1>2, <2>2, ContestedGrows DEF DeletionInv, Undisturbed
    <3>2. Alone(c)'
        BY <1>2, <2>2, <3>1, AloneKept
    <3>3. \A t \in Threads : Deletes(t, c)' => Stage(t, c)'
        BY <1>2, <2>2, StageKept
    <3>4. touched'[c] # None /\ ~Deleting(c)' => Whole(c)'
        BY <1>2, <2>2, WholeKept
    <3> QED BY <3>2, <3>3, <3>4 DEF Undisturbed
  <2> QED BY <2>1, <2>2 DEF DeletionInv
<1> QED BY <1>1, <1>2, Typed, DeletionsAlwaysProceed, PTL DEF Spec

(* Once no deletion of a contact is in flight, either the contact is there *)
(* with every reminder ever generated for it, or its deletion is on the    *)
(* audit trail, even when audit writes fail and rows are restored.         *)
THEOREM DeletionIsAllOrNothing == Spec => []AllOrNothingDelete
<1>1. DeletionInv => AllOrNothingDelete
  <2>1. ASSUME DeletionInv, NEW c \in ContactIds \ contested, touched[c] # None, ~Deleting(c)
        PROVE  Whole(c)
      BY <2>1 DEF DeletionInv, Undisturbed
  <2> QED
      BY <2>1 DEF AllOrNothingDelete, Whole, OnRecord, GeneratedFor, Dependents
<1> QED BY <1>1, DeletionsAreInOrder, PTL
-------------------------------------------------------------------------------
(* The engine implements LifeCycle.  Which phase a contact is in, by the   *)
(* deletion in flight for it, follows from the parts proved above.         *)
PhasesAre ==
    \A c \in ContactIds \ contested :
        /\ \A t \in Threads : Deletes(t, c) =>
               Phases[c] = IF api[t].step \in Restoring THEN "restoring" ELSE "deleting"
        /\ (\A t \in Threads : ~Deletes(t, c)) =>
               Phases[c] = IF touched[c] = None THEN "none"
                           ELSE IF c \in DOMAIN contact THEN "live" ELSE "deleted"
LifeInv == Types /\ DeletionsProceed /\ DeletionInv /\ OncePerWindow /\ PhasesAre
LifeVars == <<Phases, StatusesNow, generated, restored, Recorded>>

LEMMA PhasesFollow == DeletionInv => PhasesAre
<1> SUFFICES ASSUME DeletionInv, NEW c \in ContactIds \ contested
             PROVE  /\ \A t \in Threads : Deletes(t, c) =>
                        Phases[c] = IF api[t].step \in Restoring THEN "restoring" ELSE "deleting"
                    /\ (\A t \in Threads : ~Deletes(t, c)) =>
                        Phases[c] = IF touched[c] = None THEN "none"
                                    ELSE IF c \in DOMAIN contact THEN "live" ELSE "deleted"
    BY DEF PhasesAre
<1>1. Unborn(c) /\ Alone(c)
    BY DEF DeletionInv, Undisturbed
<1>2. ASSUME NEW t \in Threads, Deletes(t, c)
      PROVE  Phases[c] = IF api[t].step \in Restoring THEN "restoring" ELSE "deleting"
  <2>1. Deleting(c) /\ touched[c] # None
      BY <1>1, <1>2 DEF Unborn, Deleting, Deletes
  <2>2. Undoing(c) <=> api[t].step \in Restoring
      BY <1>1, <1>2 DEF Alone, Undoing, At, Deletes, Restoring
  <2> QED BY <2>1, <2>2 DEF Phases
<1>3. ASSUME \A t \in Threads : ~Deletes(t, c)
      PROVE  Phases[c] = IF touched[c] = None THEN "none"
                         ELSE IF c \in DOMAIN contact THEN "live" ELSE "deleted"
  <2>1. ~Deleting(c) /\ ~Undoing(c)
      BY <1>3 DEF Deleting, Undoing, At, Deletes
  <2> QED BY <2>1 DEF Phases
<1> QED BY <1>2, <1>3

(* Which steps bring a contact from one phase to another.                  *)
Creates(t, c) == InsertContact(t, c) /\ Phases[c] = "none" /\ Phases'[c] = "live"
StartsDeleting(t, c) ==
    /\ StartDelete(t, c)
    /\ \/ Phases[c] = "live" /\ Phases'[c] = "deleting"
       \/ Phases[c] \in {"deleting", "restoring"} /\ Phases'[c] = "contested"
IsDeleted(t, c) ==
    /\ AuditDeletion(t) /\ Deletes(t, c) /\ Finish(t)
    /\ Phases[c] = "deleting" /\ Phases'[c] = "deleted"
IsUndone(t, c) ==
    /\ AuditDeletion(t) /\ Deletes(t, c) /\ GoTo(t, "restore contact")
    /\ Phases[c] = "deleting" /\ Phases'[c] = "restoring"
IsRestored(t, c) ==
    /\ RolledBack(t) /\ Deletes(t, c) /\ Phases[c] = "restoring" /\ Phases'[c] = "live"
Phased(t, c) ==
    Creates(t, c) \/ StartsDeleting(t, c) \/ IsDeleted(t, c) \/ IsUndone(t, c) \/ IsRestored(t, c)

(* Only StartDelete contests a contact.                                    *)
LEMMA ContestedWriters ==
    ASSUME [Next]_vars, NEW c \in ContactIds, c \notin contested, c \in contested'
    PROVE  \E t \in Threads : StartDelete(t, c) /\ Deleting(c)
<1>1. ASSUME NEW t \in Threads, ContactServiceStep(t) PROVE UNCHANGED contested
    BY <1>1
    DEF ContactServiceStep, FindCategory, WriteCategory, InsertContact, ListReminders, ListEvents,
        CopyContact, CopyReminder, CopyEvent, RemoveContact, AuditDeletion, RestoreContact,
        RolledBack, RemoveReminder, RestoreReminder, RemoveEvent, RestoreEvent, deletions
<1>2. ASSUME NEW t \in Threads, NEW d \in ContactIds, StartDelete(t, d)
      PROVE  StartDelete(t, c) /\ Deleting(c)
    BY <1>2 DEF StartDelete
<1> QED
    BY <1>1, <1>2
    DEF Next, ApiStep, ActionRequest, ContactRequest, ConsentRequest, SchedulerStep, Tick,
        TimeSource, vars, StartCreate, StartUpdate, deletions

(* Between deletions, a contact's phase changes when it is created.        *)
LEMMA PhaseOnceCreated ==
    ASSUME LifeInv, LifeInv', [Next]_vars, NEW c \in ContactIds, c \notin contested',
           \A t \in Threads : ~Deletes(t, c) /\ ~Deletes(t, c)'
    PROVE  Phases'[c] = Phases[c] \/ \E t \in Threads : Creates(t, c)
<1>1. c \notin contested /\ Unborn(c) /\ c \in DOMAIN touched /\ now # None
    BY ContestedGrows, RepositoryAssumption
    DEF LifeInv, DeletionInv, Types, ContactTypes, ClockTypes, None
<1>2. Phases[c] = IF touched[c] = None THEN "none"
                  ELSE IF c \in DOMAIN contact THEN "live" ELSE "deleted"
    BY <1>1 DEF LifeInv, PhasesAre
<1>3. Phases'[c] = IF touched'[c] = None THEN "none"
                   ELSE IF c \in DOMAIN contact' THEN "live" ELSE "deleted"
    BY DEF LifeInv, PhasesAre
<1>4. CASE touched[c] # None
  <2>1. touched'[c] # None
      BY <1>1, <1>4, RowsAreTouched DEF LifeInv
  <2>2. c \in DOMAIN contact' <=> c \in DOMAIN contact
      BY <1>4, OnlyItsDeletion DEF LifeInv
  <2> QED BY <1>2, <1>3, <1>4, <2>1, <2>2
<1>5. CASE touched[c] = None /\ touched'[c] # None
  <2>1. c \notin DOMAIN contact
      BY <1>1, <1>5 DEF Unborn
  <2>2. ASSUME NEW d, NEW rows, WriteContacts(d, rows) PROVE d = c
      BY <1>1, <1>5, <2>2 DEF WriteContacts
  <2>3. \A t \in Threads : ~SuppressContact(t) /\ ~ResetClock(t) /\ ~WriteCategory(t)
      BY <1>5, <2>1, <2>2 DEF SuppressContact, ResetClock, WriteCategory
  <2>4. \A t \in Threads : ~RemoveContact(t) /\ ~RestoreContact(t)
      BY <1>5, <2>1, <2>2 DEF RemoveContact, RestoreContact, At, Deletes
  <2>5. ASSUME NEW t \in Threads, NEW d \in ContactIds, InsertContact(t, d)
        PROVE  InsertContact(t, c) /\ c \in DOMAIN contact'
      BY <2>2, <2>5 DEF InsertContact, WriteContacts, Add
  <2> QED BY <1>2, <1>3, <1>5, <2>3, <2>4, <2>5, ContactWriters DEF Creates
<1>6. CASE touched[c] = None /\ touched'[c] = None
    BY <1>2, <1>3, <1>6
<1> QED BY <1>4, <1>5, <1>6

(* A deletion begins on a live contact, and turns to undoing itself.       *)
LEMMA PhaseOnceDeleting ==
    ASSUME LifeInv, LifeInv', [Next]_vars, NEW c \in ContactIds, c \notin contested',
           NEW t \in Threads, Deletes(t, c)'
    PROVE  Phases'[c] = Phases[c] \/ StartsDeleting(t, c) \/ IsUndone(t, c)
<1>1. c \notin contested /\ Unborn(c) /\ Types
    BY ContestedGrows DEF LifeInv, DeletionInv
<1>2. Phases'[c] = IF api'[t].step \in Restoring THEN "restoring" ELSE "deleting"
    BY DEF LifeInv, PhasesAre
<1>3. ASSUME ~Deletes(t, c) PROVE StartsDeleting(t, c)
  <2>1. StartDelete(t, c)
      BY <1>1, <1>3, DeletionBegins
  <2>2. c \in DOMAIN contact /\ \A u \in Threads : ~Deletes(u, c)
      BY <2>1 DEF StartDelete, Deleting, Deletes
  <2>3. Phases[c] = "live"
      BY <1>1, <2>2 DEF LifeInv, PhasesAre, Unborn
  <2>4. Phases'[c] = "deleting"
      BY <1>1, <1>2, <2>1, OnDelete DEF Restoring
  <2> QED BY <2>1, <2>3, <2>4 DEF StartsDeleting
<1>4. ASSUME Deletes(t, c) PROVE Phases'[c] = Phases[c] \/ IsUndone(t, c)
  <2>1. Phases[c] = IF api[t].step \in Restoring THEN "restoring" ELSE "deleting"
      BY <1>1, <1>4 DEF LifeInv, PhasesAre
  <2>2. \A d \in ContactIds : ~StartDelete(t, d)
      BY <1>4 DEF StartDelete, Begin, NoRequest, Deletes
  <2>3. ~RolledBack(t)
      BY <1>1, OnFinish DEF RolledBack, Deletes
  <2>4. CASE \/ ListReminders(t) \/ ListEvents(t) \/ CopyContact(t) \/ RemoveContact(t)
             \/ RestoreContact(t)
    <3>1. \/ /\ api[t].step \in {"plan", "events", "copy", "rows"}
             /\ \E step \in {"events", "copy", "rows", "remove rows"} : GoTo(t, step)
          \/ api[t].step = "restore contact" /\ GoTo(t, "restore rows")
        BY <2>4 DEF ListReminders, ListEvents, CopyContact, RemoveContact, RestoreContact, At
    <3>2. \A step : GoTo(t, step) => api'[t].step = step
        BY <1>1, OnGoTo
    <3>3. api'[t].step \in Restoring <=> api[t].step \in Restoring
        BY <3>1, <3>2 DEF Restoring
    <3> QED BY <1>2, <2>1, <3>3
  <2>5. CASE AuditDeletion(t)
    <3>1. GoTo(t, "restore contact") /\ api[t].step = "remove rows"
        BY <1>1, <2>5, OnFinish DEF AuditDeletion, At, Deletes
    <3>2. api'[t].step = "restore contact"
        BY <1>1, <3>1, OnGoTo
    <3> QED BY <1>2, <1>4, <2>1, <2>5, <3>1, <3>2 DEF IsUndone, Restoring
  <2>6. CASE RowStep(t)
      BY <1>2, <2>1, <2>6, RowStepsStay
  <2>7. CASE api'[t] = api[t]
      BY <1>2, <2>1, <2>7
  <2> QED BY <1>1, <1>4, <2>2, <2>3, <2>4, <2>5, <2>6, <2>7, DeletionSteps DEF OfDeletion, RowStep, Deletes
<1> QED BY <1>3, <1>4

(* A deletion ends on record, or undone.                                   *)
LEMMA PhaseOnceDeleted ==
    ASSUME LifeInv, LifeInv', [Next]_vars, NEW c \in ContactIds, c \notin contested',
           NEW t \in Threads, Deletes(t, c), \A u \in Threads : ~Deletes(u, c)'
    PROVE  IsDeleted(t, c) \/ IsRestored(t, c)
<1>1. c \notin contested /\ Unborn(c) /\ Types /\ Stage(t, c) /\ c \in DOMAIN touched /\ now # None
    BY ContestedGrows, RepositoryAssumption
    DEF LifeInv, DeletionInv, Undisturbed, Types, ContactTypes, ClockTypes, None
<1>2. touched[c] # None /\ touched'[c] # None
    BY <1>1, RowsAreTouched DEF Unborn, Deleting, Deletes
<1>3. Phases[c] = IF api[t].step \in Restoring THEN "restoring" ELSE "deleting"
    BY <1>1 DEF LifeInv, PhasesAre
<1>4. Phases'[c] = IF c \in DOMAIN contact' THEN "live" ELSE "deleted"
    BY <1>2 DEF LifeInv, PhasesAre
<1>5. CASE AuditDeletion(t)
  <2>1. Finish(t)
    <3>1. GoTo(t, "restore contact") => Deletes(t, c)'
        BY <1>1, OnGoTo DEF Deletes
    <3> QED BY <1>5, <3>1 DEF AuditDeletion
  <2>2. api[t].step = "remove rows" /\ c \notin DOMAIN contact'
      BY <1>1, <1>5 DEF AuditDeletion, At, Stage
  <2> QED BY <1>3, <1>4, <1>5, <2>1, <2>2 DEF IsDeleted, Restoring
<1>6. CASE RolledBack(t)
    BY <1>1, <1>3, <1>4, <1>6 DEF RolledBack, At, Stage, IsRestored, Restoring
<1> QED BY <1>1, <1>5, <1>6, DeletionEnds

LEMMA PhasesChange ==
    ASSUME LifeInv, LifeInv', [Next]_vars, NEW c \in ContactIds
    PROVE  Phases'[c] = Phases[c] \/ \E t \in Threads : Phased(t, c)
<1>1. CASE c \in contested
    BY <1>1, ContestedGrows DEF Phases
<1>2. CASE c \notin contested /\ c \in contested'
  <2>1. PICK t \in Threads : StartDelete(t, c) /\ Deleting(c)
      BY <1>2, ContestedWriters
  <2>2. PICK u \in Threads : Deletes(u, c)
      BY <2>1 DEF Deleting, Deletes
  <2>3. Phases[c] \in {"deleting", "restoring"}
      BY <1>2, <2>2 DEF LifeInv, PhasesAre
  <2>4. Phases'[c] = "contested"
      BY <1>2 DEF Phases
  <2> QED BY <2>1, <2>3, <2>4 DEF Phased, StartsDeleting
<1>3. CASE c \notin contested'
  <2>1. CASE \E t \in Threads : Deletes(t, c)'
      BY <1>3, <2>1, PhaseOnceDeleting DEF Phased
  <2>2. CASE (\A t \in Threads : ~Deletes(t, c)') /\ \E t \in Threads : Deletes(t, c)
      BY <1>3, <2>2, PhaseOnceDeleted DEF Phased
  <2>3. CASE \A t \in Threads : ~Deletes(t, c) /\ ~Deletes(t, c)'
      BY <1>3, <2>3, PhaseOnceCreated DEF Phased
  <2> QED BY <2>1, <2>2, <2>3
<1> QED BY <1>1, <1>2, <1>3

(* Such a step is one thread's and concerns one contact.                   *)
Turns(t, c) ==
    \/ InsertContact(t, c) \/ StartDelete(t, c)
    \/ Deletes(t, c) /\ (AuditDeletion(t) \/ RolledBack(t))

LEMMA PhasedTurns ==
    ASSUME NEW t \in Threads, NEW c \in ContactIds, Phased(t, c) PROVE Turns(t, c)
BY DEF Phased, Creates, StartsDeleting, IsDeleted, IsUndone, IsRestored, Turns

LEMMA TurnsMove ==
    ASSUME Types, NEW t \in Threads, NEW c \in ContactIds, Turns(t, c)
    PROVE  api'[t] # api[t] /\ \A u \in Threads \ {t} : api'[u] = api[u]
<1>1. t \in DOMAIN api /\ DOMAIN api = Threads
    BY DEF Types, ApiTypes
<1>2. CASE InsertContact(t, c) \/ (Finish(t) /\ api[t].op = "delete_contact") \/ RolledBack(t)
  <2>1. Finish(t) /\ api[t].op # "none"
      BY <1>2 DEF InsertContact, RolledBack, At
  <2> QED BY <1>1, <2>1, OnFinish DEF Finish
<1>3. CASE StartDelete(t, c)
  <2>1. api'[t].op # api[t].op
      BY <1>3, OnDelete
  <2>2. \E r : api' = [api EXCEPT ![t] = r]
      BY <1>3 DEF StartDelete, Begin
  <2> QED BY <1>1, <2>1, <2>2
<1>4. CASE GoTo(t, "restore contact") /\ api[t].step = "remove rows"
  <2>1. api'[t].step = "restore contact"
      BY <1>4, OnGoTo
  <2> QED BY <1>1, <1>4, <2>1 DEF GoTo
<1> QED BY <1>2, <1>3, <1>4 DEF Turns, AuditDeletion, At

LEMMA OneTurns ==
    ASSUME Types, NEW t \in Threads, NEW c \in ContactIds, NEW d \in ContactIds,
           Turns(t, c), Turns(t, d)
    PROVE  c = d
<1>1. now # None /\ c \in DOMAIN touched /\ d \in DOMAIN touched
    BY RepositoryAssumption DEF Types, ClockTypes, ContactTypes, None
<1>2. CASE InsertContact(t, c) /\ InsertContact(t, d)
    BY <1>1, <1>2 DEF InsertContact, WriteContacts
<1>3. CASE StartDelete(t, c) /\ StartDelete(t, d)
  <2>1. api'[t].c = c
      BY <1>3, OnDelete
  <2>2. api'[t].c = d
      BY <1>3, OnDelete
  <2> QED BY <2>1, <2>2
<1>4. CASE Deletes(t, c) /\ Deletes(t, d)
    BY <1>4 DEF Deletes
<1>5. \A x \in ContactIds :
          /\ InsertContact(t, x) => api[t].op = "create_contact"
          /\ StartDelete(t, x) => api[t].op = "none"
          /\ Deletes(t, x) => api[t].op = "delete_contact"
    BY OnDelete DEF InsertContact, At, Deletes
<1> QED BY <1>2, <1>3, <1>4, <1>5 DEF Turns

LEMMA PhasesTurn ==
    ASSUME LifeInv, LifeInv', [Next]_vars, NEW t \in Threads, NEW c \in ContactIds, Turns(t, c)
    PROVE  /\ Phases' = [Phases EXCEPT ![c] = Phases'[c]]
           /\ Phases'[c] = Phases[c] \/ Phased(t, c)
           /\ UNCHANGED <<StatusesNow, generated>>
<1>1. Types /\ api'[t] # api[t] /\ \A u \in Threads \ {t} : api'[u] = api[u]
    BY TurnsMove DEF LifeInv
<1>2. ASSUME NEW d \in ContactIds, NEW u \in Threads, Phased(u, d) PROVE u = t /\ d = c
  <2>1. Turns(u, d)
      BY <1>2, PhasedTurns
  <2>2. u = t
      BY <1>1, <2>1, TurnsMove
  <2> QED BY <1>1, <2>1, <2>2, OneTurns
<1>3. \A d \in ContactIds \ {c} : Phases'[d] = Phases[d]
    BY <1>2, PhasesChange
<1>4. Phases' = [Phases EXCEPT ![c] = Phases'[c]]
    BY <1>3 DEF Phases
<1>5. Phases'[c] = Phases[c] \/ Phased(t, c)
    BY <1>2, PhasesChange
<1>6. UNCHANGED reminder
    BY DEF Turns, InsertContact, StartDelete, AuditDeletion, RolledBack
<1>7. UNCHANGED generated
    BY <1>1, RunWriters DEF SchedulerStep
<1> QED BY <1>4, <1>5, <1>6, <1>7 DEF StatusesNow

LEMMA PhasesStay ==
    ASSUME LifeInv, LifeInv', [Next]_vars, \A t \in Threads, c \in ContactIds : ~Turns(t, c)
    PROVE  UNCHANGED Phases
<1>1. \A c \in ContactIds : Phases'[c] = Phases[c]
    BY PhasesChange, PhasedTurns
<1> QED BY <1>1 DEF Phases

(* Deletions are recorded, or fail, by AuditDeletion.                      *)
LEMMA RecordedWriters ==
    ASSUME [Next]_vars, \A t \in Threads : ~AuditDeletion(t)
    PROVE  UNCHANGED <<Recorded, restored>>
<1>1. ASSUME NEW action, NEW ref, action # "deletion", AuditAppend(action, ref) PROVE UNCHANGED Recorded
    BY <1>1 DEF AuditAppend, Recorded
<1>2. UNCHANGED audit => UNCHANGED Recorded
    BY DEF Recorded
<1>3. AuditRaises => UNCHANGED audit
    BY DEF AuditRaises
<1>4. \A op \in ReminderOps : ActionName[op] # "deletion"
    BY OperationTables DEF ActionName
<1>a. \A op \in ConsentOps : AuditedAs[op] # "deletion"
    BY DEF ConsentOps, AuditedAs
<1>5. ASSUME NEW t \in Threads, ActionRequest(t) PROVE UNCHANGED Recorded
    BY <1>1, <1>2, <1>3, <1>4, <1>5
    DEF ActionRequest, Snooze, Dismiss, MarkContacted, StartAction, StartLog, ReminderActionStep,
        SetStatus, SuppressContact, AuditAction, FindContact, LogContact, AddEvent, ResetClock,
        OnReminder
<1>6. ASSUME NEW t \in Threads, ContactRequest(t) PROVE UNCHANGED audit
    BY <1>6
    DEF ContactRequest, StartCreate, StartUpdate, StartDelete, ContactServiceStep, FindCategory,
        WriteCategory, InsertContact, ListReminders, ListEvents, CopyContact, CopyReminder,
        CopyEvent, RemoveContact, RestoreContact, RolledBack, RemoveReminder, RestoreReminder,
        RemoveEvent, RestoreEvent
<1>7. ASSUME NEW t \in Threads, ConsentRequest(t) PROVE UNCHANGED Recorded
    BY <1>a, <1>1, <1>2, <1>3, <1>7
    DEF ConsentRequest, StartConsent, ConsentStoreStep, RecordConsent, AppendConsent, OnConsent
<1>8. ASSUME NEW e \in Evaluators, SchedulerStep(e) PROVE UNCHANGED Recorded
    BY <1>1, <1>2, <1>3, <1>8
    DEF SchedulerStep, EvaluationStep, Evaluate, ListCategories, ListContacts, CapReached,
        AddReminder, EvaluationDone, Killed, AlreadyGeneratedOrNotDue, NoConsent, Consented
<1>9. UNCHANGED Recorded
    BY <1>2, <1>5, <1>6, <1>7, <1>8 DEF Next, ApiStep, Tick, TimeSource, vars
<1>10. UNCHANGED restored
    BY CascadeWriters
    DEF ListReminders, ListEvents, CopyContact, CopyReminder, CopyEvent, RolledBack,
        RemoveReminder, RestoreReminder, RemoveEvent, RestoreEvent, deletions
<1> QED BY <1>9, <1>10

(* What each of these steps is to LifeCycle.                               *)
LEMMA CreatedLives ==
    ASSUME LifeInv, LifeInv', [Next]_vars, NEW t \in Threads, NEW c \in ContactIds, InsertContact(t, c)
    PROVE  [Lives!Next]_LifeVars
<1>1. Turns(t, c) /\ api[t].op = "create_contact"
    BY DEF Turns, InsertContact, At
<1>2. UNCHANGED <<Recorded, restored>>
    BY DEF InsertContact, deletions, Recorded
<1>3. /\ Phases' = [Phases EXCEPT ![c] = Phases'[c]] /\ UNCHANGED <<StatusesNow, generated>>
      /\ Phases'[c] = Phases[c] \/ Phased(t, c)
    BY <1>1, PhasesTurn
<1>4. CASE Phases'[c] = Phases[c]
  <2>1. UNCHANGED Phases
      BY <1>3, <1>4 DEF Phases
  <2> QED BY <1>2, <1>3, <2>1 DEF LifeVars
<1>5. CASE Phased(t, c)
  <2>1. Creates(t, c)
      BY <1>1, <1>5, OnDelete DEF LifeInv, Phased, StartsDeleting, IsDeleted, IsUndone, IsRestored, Deletes
  <2>2. Lives!Create(c)
      BY <1>2, <1>3, <2>1 DEF Creates, Lives!Create, Lives!Become
  <2> QED BY <2>2 DEF Lives!Next, Lives!vars, LifeVars, Lives!ContactStep
<1> QED BY <1>3, <1>4, <1>5

LEMMA DeletionStartLives ==
    ASSUME LifeInv, LifeInv', [Next]_vars, NEW t \in Threads, NEW c \in ContactIds, StartDelete(t, c)
    PROVE  [Lives!Next]_LifeVars
<1>1. Turns(t, c) /\ api[t].op = "none"
    BY OnDelete DEF Turns, LifeInv
<1>2. UNCHANGED <<Recorded, restored>>
    BY DEF StartDelete, Recorded
<1>3. /\ Phases' = [Phases EXCEPT ![c] = Phases'[c]] /\ UNCHANGED <<StatusesNow, generated>>
      /\ Phases'[c] = Phases[c] \/ Phased(t, c)
    BY <1>1, PhasesTurn
<1>4. CASE Phases'[c] = Phases[c]
  <2>1. UNCHANGED Phases
      BY <1>3, <1>4 DEF Phases
  <2> QED BY <1>2, <1>3, <2>1 DEF LifeVars
<1>5. CASE Phased(t, c)
  <2>1. StartsDeleting(t, c)
      BY <1>1, <1>5 DEF Phased, Creates, InsertContact, At, IsDeleted, IsUndone, IsRestored, Deletes
  <2>2. Lives!StartDeleting(c) \/ Lives!Contest(c)
      BY <1>2, <1>3, <2>1
      DEF StartsDeleting, Lives!StartDeleting, Lives!Contest, Lives!Become
  <2> QED BY <2>2 DEF Lives!Next, Lives!vars, LifeVars, Lives!ContactStep
<1> QED BY <1>3, <1>4, <1>5

LEMMA DeletionAuditLives ==
    ASSUME LifeInv, LifeInv', [Next]_vars, NEW t \in Threads, NEW c \in ContactIds,
           AuditDeletion(t), Deletes(t, c)
    PROVE  [Lives!Next]_LifeVars
<1>1. Turns(t, c) /\ Types /\ api[t].step = "remove rows" /\ api[t].c = c
    BY DEF Turns, LifeInv, AuditDeletion, At, Deletes
<1>2. /\ Phases' = [Phases EXCEPT ![c] = Phases'[c]] /\ UNCHANGED <<StatusesNow, generated>>
      /\ Phases'[c] = Phases[c] \/ Phased(t, c)
    BY <1>1, PhasesTurn
<1>3. (c \in contested' <=> c \in contested) /\ \A u \in Threads \ {t} : api'[u] = api[u]
    BY <1>1, TurnsMove DEF AuditDeletion
<1>4. c \notin contested => Phases[c] = "deleting" /\ Alone(c)
    BY <1>1 DEF LifeInv, PhasesAre, Restoring, DeletionInv, Undisturbed
<1>5. c \in contested => Phases[c] = "contested" /\ UNCHANGED Phases
  <2>1. c \in contested => Phases[c] = "contested" /\ Phases'[c] = "contested"
      BY <1>3 DEF Phases
  <2> QED BY <1>2, <2>1 DEF Phases
<1>6. CASE AuditAppend("deletion", c) /\ Finish(t) /\ UNCHANGED restored
  <2>1. Recorded' = Recorded \cup {c}
    <3>1. PICK new : new = [action |-> "deletion", ref |-> c, at |-> now]
        OBVIOUS
    <3>2. audit' = audit \cup {new} /\ new.action = "deletion" /\ new.ref = c
        BY <1>6, <3>1 DEF AuditAppend
    <3> QED BY <3>2 DEF Recorded
  <2>2. c \notin contested => Phases'[c] = "deleted"
    <3>1. c \notin contested => \A u \in Threads : ~Deletes(u, c)'
        BY <1>1, <1>3, <1>4, <1>6, OnFinish DEF Alone, Deletes
    <3>2. ~RolledBack(t)
        BY <1>1 DEF RolledBack, At
    <3> QED BY <1>3, <3>1, <3>2, PhaseOnceDeleted DEF IsDeleted, IsRestored
  <2>3. Lives!Decide(c, "deleted")
      BY <1>2, <1>4, <1>5, <2>2 DEF Lives!Decide, Lives!Become
  <2>4. Lives!Delete(c)
      BY <1>2, <1>6, <2>1, <2>3 DEF Lives!Delete
  <2> QED BY <2>4 DEF Lives!Next, Lives!vars, LifeVars, Lives!ContactStep
<1>7. CASE UNCHANGED audit /\ GoTo(t, "restore contact") /\ restored' = restored \cup {c}
  <2>1. UNCHANGED Recorded
      BY <1>7 DEF Recorded
  <2>2. c \notin contested => Phases'[c] = "restoring"
    <3>1. api'[t].step = "restore contact" /\ Deletes(t, c)'
        BY <1>1, <1>7, OnGoTo DEF Deletes
    <3> QED BY <1>3, <3>1 DEF LifeInv, PhasesAre, Restoring
  <2>3. Lives!Decide(c, "restoring")
      BY <1>2, <1>4, <1>5, <2>2 DEF Lives!Decide, Lives!Become
  <2>4. Lives!Fail(c)
      BY <1>2, <1>7, <2>1, <2>3 DEF Lives!Fail
  <2> QED BY <2>4 DEF Lives!Next, Lives!vars, LifeVars, Lives!ContactStep
<1> QED BY <1>1, <1>6, <1>7 DEF AuditDeletion, AuditRaises

LEMMA RollbackLives ==
    ASSUME LifeInv, LifeInv', [Next]_vars, NEW t \in Threads, NEW c \in ContactIds,
           RolledBack(t), Deletes(t, c)
    PROVE  [Lives!Next]_LifeVars
<1>1. Turns(t, c) /\ api[t].step = "restore rows" /\ cascade[t].keys = {}
    BY DEF Turns, RolledBack, At
<1>2. UNCHANGED <<Recorded, restored>>
    BY DEF RolledBack, deletions, Recorded
<1>3. /\ Phases' = [Phases EXCEPT ![c] = Phases'[c]] /\ UNCHANGED <<StatusesNow, generated>>
      /\ Phases'[c] = Phases[c] \/ Phased(t, c)
    BY <1>1, PhasesTurn
<1>4. CASE Phases'[c] = Phases[c]
  <2>1. UNCHANGED Phases
      BY <1>3, <1>4 DEF Phases
  <2> QED BY <1>2, <1>3, <2>1 DEF LifeVars
<1>5. CASE Phased(t, c)
  <2>1. ~AuditDeletion(t) /\ api[t].op = "delete_contact"
      BY <1>1 DEF AuditDeletion, At, Deletes
  <2>2. IsRestored(t, c)
      BY <1>5, <2>1, OnDelete
      DEF LifeInv, Phased, Creates, InsertContact, At, StartsDeleting, IsDeleted, IsUndone
  <2>3. c \notin contested
      BY <2>2 DEF IsRestored, Phases
  <2>4. GeneratedFor(c) \subseteq DOMAIN reminder
      BY <1>1, <2>3 DEF LifeInv, DeletionInv, Undisturbed, Stage
  <2>5. ASSUME NEW k \in Lives!Of(c), generated[k] > 0 PROVE StatusesNow[k] # "absent"
    <3>1. k \in Keys /\ k[1] = c
        BY <2>5 DEF Lives!Of, Keys
    <3>2. k \in DOMAIN reminder
        BY <2>4, <2>5, <3>1 DEF GeneratedFor, Dependents, OfContacts
    <3>3. reminder[k].status \in Statuses
        BY <3>2 DEF LifeInv, Types, ReminderTypes, IsTable, ReminderRow
    <3> QED BY <3>1, <3>2, <3>3 DEF StatusesNow, Statuses
  <2>6. Lives!Undo(c)
      BY <1>2, <1>3, <2>2, <2>5 DEF IsRestored, Lives!Undo, Lives!Become, Lives!Present
  <2> QED BY <2>6 DEF Lives!Next, Lives!vars, LifeVars, Lives!ContactStep
<1> QED BY <1>3, <1>4, <1>5

(* The steps on reminders.                                                 *)
LEMMA StatusSet ==
    ASSUME Types, NEW k \in Keys, NEW row, reminder' = Add(reminder, k, row)
    PROVE  StatusesNow' = [StatusesNow EXCEPT ![k] = row.status]
BY DEF Add, StatusesNow

LEMMA StatusLives ==
    ASSUME LifeInv, NEW t \in Threads, SetStatus(t), UNCHANGED <<Phases, generated, Recorded, restored>>
    PROVE  [Lives!Next]_LifeVars
<1> DEFINE k == Key(t)
<1>1. CASE k \notin DOMAIN reminder
  <2>1. UNCHANGED StatusesNow
      BY <1>1 DEF SetStatus, Update, StatusesNow
  <2> QED BY <2>1 DEF LifeVars
<1>2. CASE k \in DOMAIN reminder
  <2>1. PICK s : s = StatusAfter[api[t].op]
      OBVIOUS
  <2>2. s \in Statuses /\ s # "pending"
    <3>1. api[t].op \in {"snooze", "dismiss", "mark_contacted"}
        BY OperationTables DEF SetStatus, OnReminder
    <3> QED BY <2>1, <3>1 DEF StatusAfter, Statuses
  <2>3. k \in Keys /\ reminder \in [DOMAIN reminder -> ReminderRow]
      BY <1>2 DEF LifeInv, Types, ReminderTypes, IsTable
  <2>4. reminder' = [reminder EXCEPT ![k] = [reminder[k] EXCEPT !.status = s]]
      BY <1>2, <2>1 DEF SetStatus, Update
  <2>5. reminder[k] \in ReminderRow /\ [reminder[k] EXCEPT !.status = s].status = s
      BY <1>2, <2>3 DEF ReminderRow
  <2>6. StatusesNow' = [StatusesNow EXCEPT ![k] = s]
      BY <1>2, <2>3, <2>4, <2>5 DEF StatusesNow
  <2>7. StatusesNow[k] # "absent"
      BY <1>2, <2>3, <2>5 DEF StatusesNow, ReminderRow, Statuses
  <2>8. Lives!Act(k, s)
      BY <2>2, <2>6, <2>7 DEF Lives!Act, Lives!Present, Lives!SetStatus
  <2>9. k \in Lives!Reminders
      BY <2>3 DEF Lives!Reminders, Keys
  <2> QED BY <2>2, <2>8, <2>9 DEF Lives!Next, Lives!vars, LifeVars, Lives!ReminderStep
<1> QED BY <1>1, <1>2

LEMMA RemovalLives ==
    ASSUME LifeInv, NEW t \in Threads, NEW k \in Keys, RemoveReminder(t, k),
           UNCHANGED <<Phases, generated, Recorded, restored>>
    PROVE  [Lives!Next]_LifeVars
<1>1. k \in Dependents(api[t].c) /\ api[t].op = "delete_contact" /\ api[t].step = "remove rows"
    BY DEF LifeInv, DeletionsProceed, DeletionProceeds, RemoveReminder, At
<1>2. k[1] = api[t].c /\ k[1] \in ContactIds
    BY <1>1 DEF Dependents, OfContacts, Keys
<1>3. Phases[k[1]] \in {"deleting", "contested"}
  <2>1. Deletes(t, k[1])
      BY <1>1, <1>2 DEF Deletes
  <2>2. k[1] \in contested => Phases[k[1]] = "contested"
      BY <1>2 DEF Phases
  <2> QED BY <1>1, <1>2, <2>1, <2>2 DEF LifeInv, PhasesAre, Restoring
<1>4. StatusesNow' = [StatusesNow EXCEPT ![k] = "absent"]
    BY DEF RemoveReminder, Delete, StatusesNow
<1>5. Lives!Remove(k) /\ k \in Lives!Reminders
    BY <1>3, <1>4 DEF Lives!Remove, Lives!SetStatus, Lives!Reminders, Keys
<1> QED BY <1>5 DEF Lives!Next, Lives!vars, LifeVars, Lives!ReminderStep

LEMMA RestorationLives ==
    ASSUME LifeInv, NEW t \in Threads, NEW k \in Keys, RestoreReminder(t, k),
           UNCHANGED <<Phases, generated, Recorded, restored>>
    PROVE  [Lives!Next]_LifeVars
<1>1. api[t].op = "delete_contact" /\ api[t].step = "restore rows" /\ k \in cascade[t].keys
    BY DEF RestoreReminder, At
<1>2. k \in Dependents(api[t].c)
    BY <1>1 DEF LifeInv, DeletionsProceed, DeletionProceeds
<1>3. k[1] = api[t].c /\ k[1] \in ContactIds
    BY <1>2 DEF Dependents, OfContacts, Keys
<1>4. Phases[k[1]] \in {"restoring", "contested"}
  <2>1. Deletes(t, k[1])
      BY <1>1, <1>3 DEF Deletes
  <2>2. k[1] \in contested => Phases[k[1]] = "contested"
      BY <1>3 DEF Phases
  <2> QED BY <1>1, <1>3, <2>1, <2>2 DEF LifeInv, PhasesAre, Restoring
<1>5. PICK s \in Statuses : s = cascade[t].reminder[k].status
  <2>1. IsTable(cascade[t].reminder, Keys, ReminderRow) /\ k \in DOMAIN cascade[t].reminder
      BY <1>1 DEF LifeInv, Types, CascadeTypes, IsCascade, At
  <2> QED BY <2>1 DEF IsTable, ReminderRow
<1>6. StatusesNow' = [StatusesNow EXCEPT ![k] = s]
    BY <1>5, StatusSet DEF LifeInv, RestoreReminder
<1>7. Lives!Restore(k, s) /\ k \in Lives!Reminders
    BY <1>4, <1>6 DEF Lives!Restore, Lives!SetStatus, Lives!Reminders, Keys
<1> QED BY <1>7 DEF Lives!Next, Lives!vars, LifeVars, Lives!ReminderStep

LEMMA GenerationLives ==
    ASSUME LifeInv, LifeInv', NEW e \in Evaluators, AddReminder(e), UNCHANGED <<Phases, Recorded, restored>>
    PROVE  [Lives!Next]_LifeVars
<1>1. PICK k : k = <<run[e].next, run[e].window>>
    OBVIOUS
<1>2. run[e].next \in run[e].todo /\ k \in Keys /\ k[1] = run[e].next /\ k[1] \in ContactIds
    BY <1>1 DEF AddReminder, LifeInv, Types, RunTypes, GoodRun, IsRun, IsTable, Keys
<1>3. Phases[k[1]] # "none"
  <2>1. touched[k[1]] # None
      BY <1>2 DEF LifeInv, DeletionInv, Unborn
  <2> QED BY <1>2, <2>1 DEF Phases
<1>4. generated' = [generated EXCEPT ![k] = @ + 1] /\ generated \in [Keys -> Nat]
    BY <1>1 DEF AddReminder, LifeInv, Types, RunTypes
<1>5. generated[k] < Cardinality(Evaluators) \/ k[1] \in restored
  <2>1. generated'[k] > Cardinality(Evaluators) => k[1] \in restored'
      BY <1>2 DEF LifeInv, OncePerWindow
  <2>2. generated'[k] = generated[k] + 1 /\ generated[k] \in Nat
      BY <1>2, <1>4
  <2>3. Cardinality(Evaluators) \in Nat
      BY SchedulerAssumption, FS_CardinalityType
  <2> QED BY <2>1, <2>2, <2>3
<1>6. StatusesNow' = [StatusesNow EXCEPT ![k] = "pending"]
  <2>1. PICK row : row = [status |-> "pending", due_at |-> run[e].at]
      OBVIOUS
  <2>2. reminder' = Add(reminder, k, row) /\ row.status = "pending"
      BY <1>1, <2>1 DEF AddReminder
  <2> QED BY <1>2, <2>2, StatusSet DEF LifeInv
<1>7. Lives!Generate(k) /\ k \in Lives!Reminders
    BY <1>2, <1>3, <1>4, <1>5, <1>6 DEF Lives!Generate, Lives!SetStatus, Lives!Reminders, Keys
<1> QED BY <1>7 DEF Lives!Next, Lives!vars, LifeVars, Lives!ReminderStep

(* A step that concerns no contact's phase.                                *)
LEMMA OtherStepLives ==
    ASSUME LifeInv, LifeInv', [Next]_vars, \A t \in Threads, c \in ContactIds : ~Turns(t, c)
    PROVE  [Lives!Next]_LifeVars
<1>1. UNCHANGED Phases
    BY PhasesStay
<1>2. \A t \in Threads : ~AuditDeletion(t)
  <2>1. ASSUME NEW t \in Threads, AuditDeletion(t) PROVE FALSE
    <3>1. Deletes(t, api[t].c) /\ api[t].c \in ContactIds
        BY <2>1 DEF AuditDeletion, At, Deletes, LifeInv, Types, ApiTypes, GoodRequest
    <3> QED BY <2>1, <3>1 DEF Turns
  <2> QED BY <2>1
<1>3. UNCHANGED <<Recorded, restored>>
    BY <1>2, RecordedWriters
<1>4. CASE \E e \in Evaluators : AddReminder(e)
    BY <1>1, <1>3, <1>4, GenerationLives
<1>5. CASE \A e \in Evaluators : ~AddReminder(e)
  <2>1. UNCHANGED generated
      BY <1>5, RunWriters
      DEF SchedulerStep, EvaluationStep, Evaluate, ListCategories, ListContacts, CapReached,
          EvaluationDone, Killed, Return, Skip, AlreadyGeneratedOrNotDue, NoConsent, Consented
  <2>2. UNCHANGED reminder => UNCHANGED StatusesNow
      BY DEF StatusesNow
  <2>3. CASE UNCHANGED reminder
      BY <1>1, <1>3, <2>1, <2>2, <2>3 DEF LifeVars
  <2>4. CASE ~UNCHANGED reminder
      BY <1>1, <1>3, <1>5, <2>1, <2>4, ReminderWriters, StatusLives, RemovalLives, RestorationLives
  <2> QED BY <2>3, <2>4
<1> QED BY <1>4, <1>5

LEMMA StepLives ==
    ASSUME LifeInv, LifeInv', [Next]_vars
    PROVE  [Lives!Next]_LifeVars
<1>1. CASE \A t \in Threads, c \in ContactIds : ~Turns(t, c)
    BY <1>1, OtherStepLives
<1>2. CASE \E t \in Threads, c \in ContactIds : Turns(t, c)
    BY <1>2, CreatedLives, DeletionStartLives, DeletionAuditLives, RollbackLives DEF Turns
<1> QED BY <1>1, <1>2

LEMMA LivesStart == Init => Lives!Init
<1> SUFFICES ASSUME Init PROVE Lives!Init
    OBVIOUS
<1>1. Phases \in [ContactIds -> {"none", "live"}]
  <2>1. \A c \in ContactIds : ~Deleting(c) /\ ~Undoing(c) /\ c \notin contested
      BY DEF Init, NoRequest, Deleting, Undoing, At
  <2>2. \A c \in ContactIds : touched[c] = None \/ c \in DOMAIN contact
      BY DEF Init
  <2> QED BY <2>1, <2>2 DEF Phases
<1>2. StatusesNow = [k \in Keys |-> "absent"] /\ generated = [k \in Keys |-> 0] /\ restored = {}
    BY DEF Init, StatusesNow
<1>3. Recorded = {}
    BY DEF Init, Recorded
<1> QED BY <1>1, <1>2, <1>3 DEF Lives!Init, Lives!Reminders, Keys

(* The engine implements LifeCycle: whatever requests, evaluations, kills  *)
(* and failing audit writes interleave, a deleted contact never returns,   *)
(* one whose deletion failed is live again only with every reminder it     *)
(* had, only deletions remove reminders, and one acted on is pending again *)
(* only by as many generations as evaluations can overlap, or after a      *)
(* failed deletion of its contact.                                         *)
THEOREM ContactsLiveAsPromised == Spec => ContactsFollowTheirLife
<1>1. LifeInv /\ LifeInv' /\ [Next]_vars => [Lives!Next]_LifeVars
    BY StepLives
<1>2. Types /\ DeletionsProceed /\ DeletionInv /\ OncePerWindow => LifeInv
    BY PhasesFollow DEF LifeInv
<1> QED
    BY <1>1, <1>2, LivesStart, Typed, DeletionsAlwaysProceed, DeletionsAreInOrder,
       GenerationIsIdempotent, PTL
    DEF Spec, ContactsFollowTheirLife, Lives!Spec, Lives!vars, LifeVars

(* What follows for the engine from being a LifeCycle.                     *)
DeletedIsOnRecord ==
    \A c \in ContactIds : Phases[c] # "contested" => (Phases[c] = "deleted" <=> c \in Recorded)
DeletedStaysDeleted == \A c \in ContactIds : Phases[c] = "deleted" => Phases'[c] = "deleted"

LEMMA OnBecoming ==
    ASSUME NEW c \in ContactIds, NEW d \in ContactIds, NEW from, NEW to, Lives!Become(c, from, to)
    PROVE  Phases[c] \in from /\ Phases'[d] = IF d = c THEN to ELSE Phases[d]
BY DEF Lives!Become, Phases

LEMMA LivesMove ==
    ASSUME [Lives!Next]_LifeVars, NEW d \in ContactIds
    PROVE  \/ Phases'[d] = Phases[d] /\ (d \in Recorded' <=> d \in Recorded)
           \/ Phases'[d] = Phases[d] /\ Phases[d] = "contested"
           \/ /\ Phases[d] \in {"none", "live", "deleting", "restoring"}
              /\ Phases'[d] \in {"live", "deleting", "restoring", "contested"}
              /\ d \in Recorded' <=> d \in Recorded
           \/ Phases[d] = "deleting" /\ Phases'[d] = "deleted" /\ d \in Recorded'
<1>1. CASE UNCHANGED LifeVars
    BY <1>1 DEF LifeVars
<1>2. ASSUME NEW k \in Lives!Reminders, Lives!ReminderStep(k) PROVE UNCHANGED <<Phases, Recorded>>
    BY <1>2
    DEF Lives!ReminderStep, Lives!Generate, Lives!Remove, Lives!Act, Lives!Restore, Lives!SetStatus
<1>3. ASSUME NEW c \in ContactIds,
             Lives!Create(c) \/ Lives!StartDeleting(c) \/ Lives!Contest(c) \/ Lives!Undo(c)
      PROVE  \/ Phases'[d] = Phases[d] /\ (d \in Recorded' <=> d \in Recorded)
             \/ /\ Phases[d] \in {"none", "live", "deleting", "restoring"}
                /\ Phases'[d] \in {"live", "deleting", "restoring", "contested"}
                /\ d \in Recorded' <=> d \in Recorded
    BY <1>3, OnBecoming DEF Lives!Create, Lives!StartDeleting, Lives!Contest, Lives!Undo
<1>4. ASSUME NEW c \in ContactIds, Lives!Delete(c)
      PROVE  \/ Phases'[d] = Phases[d] /\ (d \in Recorded' <=> d \in Recorded)
             \/ Phases'[d] = Phases[d] /\ Phases[d] = "contested"
             \/ Phases[d] = "deleting" /\ Phases'[d] = "deleted" /\ d \in Recorded'
    BY <1>4, OnBecoming DEF Lives!Delete, Lives!Decide
<1>5. ASSUME NEW c \in ContactIds, Lives!Fail(c)
      PROVE  \/ Phases'[d] = Phases[d] /\ (d \in Recorded' <=> d \in Recorded)
             \/ /\ Phases[d] \in {"none", "live", "deleting", "restoring"}
                /\ Phases'[d] \in {"live", "deleting", "restoring", "contested"}
                /\ d \in Recorded' <=> d \in Recorded
    BY <1>5, OnBecoming DEF Lives!Fail, Lives!Decide
<1> QED BY <1>1, <1>2, <1>3, <1>4, <1>5 DEF Lives!Next, Lives!vars, LifeVars, Lives!ContactStep

(* A contact no two deletions of which met is deleted exactly if that is   *)
(* on the audit trail: no entry for a contact that is there or whose       *)
(* deletion was undone, none missing for one that is gone.                 *)
THEOREM DeletionsAreOnRecord == Spec => []DeletedIsOnRecord
<1>1. Lives!Init => DeletedIsOnRecord
    BY DEF Lives!Init, DeletedIsOnRecord
<1>2. DeletedIsOnRecord /\ [Lives!Next]_LifeVars => DeletedIsOnRecord'
    BY LivesMove DEF DeletedIsOnRecord
<1> QED
    BY <1>1, <1>2, ContactsLiveAsPromised, PTL
    DEF ContactsFollowTheirLife, Lives!Spec, Lives!vars, LifeVars

(* A deleted contact never returns: no late update, logged contact or      *)
(* rollback brings back its row.                                           *)
THEOREM DeletedForGood == Spec => [][DeletedStaysDeleted]_vars
<1>1. [Lives!Next]_LifeVars => DeletedStaysDeleted
    BY LivesMove DEF DeletedStaysDeleted
<1> QED BY <1>1, ContactsLiveAsPromised, PTL
    DEF ContactsFollowTheirLife, Lives!Spec, Lives!vars, LifeVars
===============================================================================
