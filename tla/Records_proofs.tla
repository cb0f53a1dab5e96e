---------------------------- MODULE Records_proofs ----------------------------
(***************************************************************************)
(* One owner's rows under categories, import and privacy services, for any *)
(* number of threads, ids, names and persons, any quotas and retention.    *)
(***************************************************************************)
EXTENDS Records, FiniteSetTheorems, TLAPS

(* The types of rows, and of what a thread in the middle of each call      *)
(* holds.                                                                  *)
Kinds == {"category", "contact", "contact_event"}
Keys == Names \cup People \cup {None}
Row == [entity : Kinds, key : Keys, of : Nat, at : Nat]
Tables == UNION {[S -> Row] : S \in SUBSET Nat}

CreateCategoryCalls == [op : {"create_category"}, step : {"add"}, name : Names]
DeleteCategoryCalls ==
    [op : {"delete_category"}, step : {"list", "target", "reassign", "delete"},
     g : Nat, to : Nat, todo : SUBSET Nat]
ContactCalls == [op : {"create_contact", "update_contact"}, step : {"category", "write"}, c : Nat, g : Nat]
ImportCalls == [op : {"import"}, step : {"person"}, count : Nat, seen : SUBSET Keys]
LogCalls == [op : {"log_event"}, step : {"audit", "add"}, c : Nat, at : Nat]
RectifyCalls == [op : {"rectify"}, step : {"audit"}]
EraseContactCalls == [op : {"erase_contact"}, step : {"list", "delete"}, c : Nat, todo : SUBSET Nat]
RetentionCalls ==
    [op : {"retention"}, step : {"delete"}, cutoff : Int, todo : SUBSET Nat, before : Tables]
ListingCalls ==
    [op : {"export", "erase"}, step : {"list", "audit", "revoke", "delete", "restore", "add_back"},
     next : 1 .. 4, copy : Tables, todo : SUBSET Nat, before : Tables, missing : Nat]
AllCalls ==
    {NoCall} \cup CreateCategoryCalls \cup DeleteCategoryCalls \cup ContactCalls \cup ImportCalls
    \cup LogCalls \cup RectifyCalls \cup EraseContactCalls \cup RetentionCalls \cup ListingCalls

(* What a listing has copied, has still to work off, and has not found.    *)
CopyOf(c, n) ==
    /\ c.todo \subseteq DOMAIN c.copy /\ DOMAIN c.copy \subseteq 1 .. n
    /\ c.step = "add_back" => c.missing \in c.todo

Types ==
    /\ now \in Nat /\ minted \in Nat /\ rows \in Tables /\ call \in [Threads -> AllCalls]
    /\ \A t \in Threads : call[t].op \in {"export", "erase"} /\ call[t].step = "list" => call[t].next < 4
    /\ DOMAIN rows \subseteq 1 .. minted
    /\ \A t \in Threads : call[t].op \in {"export", "erase"} => CopyOf(call[t], minted)

LEMMA TablesAre ==
    ASSUME NEW tab
    PROVE  tab \in Tables <=> tab \in [DOMAIN tab -> Row] /\ DOMAIN tab \subseteq Nat
BY DEF Tables

LEMMA CallsAre ==
    ASSUME NEW c \in AllCalls
    PROVE  /\ c.op = "create_category" <=> c \in CreateCategoryCalls
           /\ c.op = "delete_category" <=> c \in DeleteCategoryCalls
           /\ c.op \in {"create_contact", "update_contact"} <=> c \in ContactCalls
           /\ c.op = "import" <=> c \in ImportCalls
           /\ c.op = "log_event" <=> c \in LogCalls
           /\ c.op = "rectify" <=> c \in RectifyCalls
           /\ c.op = "erase_contact" <=> c \in EraseContactCalls
           /\ c.op = "retention" <=> c \in RetentionCalls
           /\ c.op \in {"export", "erase"} <=> c \in ListingCalls
           /\ c.op = "none" <=> c = NoCall
BY DEF AllCalls, NoCall, CreateCategoryCalls, DeleteCategoryCalls, ContactCalls, ImportCalls, LogCalls,
       RectifyCalls, EraseContactCalls, RetentionCalls, ListingCalls

LEMMA InsertedTable ==
    ASSUME NEW tab \in Tables, NEW x \in Nat, NEW row \in Row
    PROVE  LET new == Insert(tab, x, row) IN
           /\ new \in Tables /\ DOMAIN new = DOMAIN tab \cup {x} /\ new[x] = row
           /\ \A y \in DOMAIN tab : y # x => new[y] = tab[y]
<1> DEFINE new == Insert(tab, x, row)
<1>1. tab \in [DOMAIN tab -> Row] /\ DOMAIN tab \subseteq Nat
    BY TablesAre
<1>2. DOMAIN new = DOMAIN tab \cup {x} /\ new[x] = row /\ \A y \in DOMAIN tab : y # x => new[y] = tab[y]
    BY DEF Insert
<1>3. new \in [DOMAIN new -> Row] /\ DOMAIN new \subseteq Nat
    BY <1>1, <1>2 DEF Insert
<1> QED BY <1>2, <1>3, TablesAre

LEMMA RemovedTable ==
    ASSUME NEW tab \in Tables, NEW gone, NEW new, new = Remove(tab, gone)
    PROVE  /\ new \in Tables /\ DOMAIN new = DOMAIN tab \ gone
           /\ \A y \in DOMAIN new : new[y] = tab[y]
<1>1. tab \in [DOMAIN tab -> Row] /\ DOMAIN tab \subseteq Nat
    BY TablesAre
<1>2. DOMAIN new = DOMAIN tab \ gone /\ \A y \in DOMAIN new : new[y] = tab[y]
    BY DEF Remove
<1>3. new \in [DOMAIN new -> Row] /\ DOMAIN new \subseteq Nat
    BY <1>1, <1>2 DEF Remove
<1> QED BY <1>2, <1>3, TablesAre
-------------------------------------------------------------------------------
(* Two operations that are under way at the same time have met, and what   *)
(* has met stays so.                                                       *)
MetInv ==
    \A t, u \in Threads :
        t # u /\ call[t] # NoCall /\ call[u] # NoCall => {call[t].op, call[u].op} \in met

LEMMA MetGrows == ASSUME [Next]_vars PROVE met \subseteq met'
BY DEF Next, vars

LEMMA MetStays ==
    ASSUME [Next]_vars, NEW these, NEW those, Met(these, those)
    PROVE  Met(these, those)'
BY MetGrows DEF Met

LEMMA MetKept == ASSUME MetInv, [Next]_vars PROVE MetInv'
<1>1. CASE Next
  <2> SUFFICES ASSUME NEW t \in Threads, NEW u \in Threads, t # u, call'[t] # NoCall, call'[u] # NoCall
               PROVE  {call'[t].op, call'[u].op} \in met'
      BY DEF MetInv
  <2> DEFINE pairs == {q \in Threads \X Threads : /\ q[1] # q[2]
                                                  /\ \A i \in 1 .. 2 : call'[q[i]] # NoCall}
             p == <<t, u>>
  <2>1. p \in Threads \X Threads /\ p[1] = t /\ p[2] = u
      OBVIOUS
  <2>2. \A i \in 1 .. 2 : i = 1 \/ i = 2
      OBVIOUS
  <2>3. p \in pairs
      BY <2>1, <2>2
  <2>4. met' = met \cup {{call'[q[1]].op, call'[q[2]].op} : q \in pairs}
      BY <1>1 DEF Next
  <2> HIDE DEF pairs, p
  <2>5. {call'[p[1]].op, call'[p[2]].op} \in {{call'[q[1]].op, call'[q[2]].op} : q \in pairs}
      BY <2>3
  <2> QED BY <2>1, <2>4, <2>5
<1>2. CASE UNCHANGED vars
    BY <1>2 DEF vars, threads, MetInv
<1> QED BY <1>1, <1>2

(* So an operation under way excludes what it has not met.                 *)
LEMMA Meets ==
    ASSUME MetInv, NEW t \in Threads, NEW u \in Threads, t # u, NEW these, NEW those,
           call[t].op \in these, call[u].op \in those, "none" \notin these, "none" \notin those
    PROVE  Met(these, those)
<1>1. call[t] # NoCall /\ call[u] # NoCall
    BY DEF NoCall
<1> QED BY <1>1 DEF MetInv, Met

-------------------------------------------------------------------------------
(* A step of the system is a step of one thread, or none of any.           *)
LEMMA Steps ==
    ASSUME [Next]_vars
    PROVE  \/ /\ UNCHANGED <<minted, call, rows, misdirected, tokensLive>>
              /\ outcome' = NoOutcome \/ outcome' = outcome
              /\ now' = now \/ now' = now + 1
           \/ \E t \in Threads :
                /\ UNCHANGED now
                /\ \/ CategoryStep(t) /\ Quietly /\ UNCHANGED tokensLive
                   \/ ImportStep(t) /\ Quietly /\ UNCHANGED <<misdirected, tokensLive>>
                   \/ PrivacyStep(t) /\ UNCHANGED misdirected
<1>1. ASSUME NEW t \in Threads, CategoryStep(t) PROVE UNCHANGED now
    BY <1>1
    DEF CategoryStep, AddCategory, ListContacts, FindTarget, Reassign, DeleteCategory, FindCategory,
        WriteContact, StartCreateCategory, Rename, StartCreateContact, StartDeleteCategory, StartMoveContact
<1>2. ASSUME NEW t \in Threads, ImportStep(t) PROVE UNCHANGED now
    BY <1>2 DEF ImportStep, StartImport, RejectPerson, EndImport, ImportPerson
<1>3. ASSUME NEW t \in Threads, PrivacyStep(t) PROVE UNCHANGED now
    BY <1>3
    DEF PrivacyStep, AuditEvent, AddEvent, AuditRectification, ListDependents, EraseContact, StartListing,
        StartRetention, FinishRetention, ListEntity, FinishExport, RevokeTokens, FinishErasure, AbortErasure,
        DeleteAged, DeleteListed, LookForListed, AddBack, StartLogEvent, Rectify, StartEraseContact
<1>4. CASE Tick \/ UNCHANGED vars
    BY <1>4 DEF Tick, Quietly, vars, threads, privacyVars
<1> QED BY <1>1, <1>2, <1>3, <1>4 DEF Next

(* It moves no other thread's call.                                        *)
LEMMA OnlyItsCall ==
    ASSUME Types, NEW t \in Threads, CategoryStep(t) \/ ImportStep(t) \/ PrivacyStep(t)
    PROVE  /\ \A u \in Threads \ {t} : call'[u] = call[u]
           /\ (\E c : call' = [call EXCEPT ![t] = c]) \/ UNCHANGED call
<1>1. (\E c : call' = [call EXCEPT ![t] = c]) \/ UNCHANGED call
  <2>1. CASE CategoryStep(t)
      BY <2>1
      DEF CategoryStep, AddCategory, ListContacts, FindTarget, Reassign, DeleteCategory, FindCategory,
          WriteContact, StartCreateCategory, Rename, StartCreateContact, StartDeleteCategory,
          StartMoveContact, Begin, OneStep, GoTo, GoOn, Return
  <2>2. CASE ImportStep(t)
      BY <2>2 DEF ImportStep, StartImport, RejectPerson, EndImport, ImportPerson, Begin, GoOn, Return
  <2>3. CASE PrivacyStep(t)
    <3>1. CASE \/ AuditEvent(t) \/ AddEvent(t) \/ AuditRectification(t) \/ ListDependents(t)
               \/ EraseContact(t) \/ StartRetention(t) \/ FinishRetention(t) \/ FinishExport(t)
               \/ RevokeTokens(t) \/ FinishErasure(t) \/ AddBack(t) \/ AbortErasure(t)
        BY <3>1
        DEF AuditEvent, AddEvent, AuditRectification, ListDependents, EraseContact, StartRetention,
            FinishRetention, FinishExport, AddBack, AbortErasure, RevokeTokens, FinishErasure, Ends, RollBack,
            Begin, GoTo, GoOn, Return
    <3>2. CASE ListEntity(t) \/ \E op \in {"export", "erase"} : StartListing(t, op)
        BY <3>2 DEF ListEntity, StartListing, Begin, GoOn
    <3>3. CASE \/ \E x \in Ids : DeleteAged(t, x) \/ DeleteListed(t, x) \/ LookForListed(t, x)
               \/ \E c \in List("contact") : StartLogEvent(t, c) \/ Rectify(t, c) \/ StartEraseContact(t, c)
        BY <3>3 DEF DeleteAged, DeleteListed, LookForListed, StartLogEvent, Rectify, StartEraseContact,
                    Begin, GoOn
    <3> QED BY <2>3, <3>1, <3>2, <3>3 DEF PrivacyStep
  <2> QED BY <2>1, <2>2, <2>3
<1>2. call \in [Threads -> AllCalls]
    BY DEF Types
<1> QED BY <1>1, <1>2
-------------------------------------------------------------------------------
(* What the rows are, and what each step makes of the call it belongs to.  *)
LEMMA RowsAre ==
    ASSUME Types
    PROVE  /\ rows \in [DOMAIN rows -> Row] /\ DOMAIN rows \subseteq Nat
           /\ \A entity : List(entity) \subseteq DOMAIN rows
           /\ \A entity : \A x \in List(entity) : rows[x].entity = entity
BY TablesAre DEF Types, List

LEMMA CallIs ==
    ASSUME Types, NEW t \in Threads
    PROVE  t \in DOMAIN call /\ call[t] \in AllCalls
BY DEF Types

LEMMA Goes ==
    ASSUME Types, NEW t \in Threads
    PROVE  /\ \A c : GoOn(t, c) => call'[t] = c
           /\ \A c : Begin(t, c) => call'[t] = c /\ call[t] = NoCall
           /\ Return(t) => call'[t] = NoCall
           /\ OneStep(t) => call'[t] = call[t] /\ call[t] = NoCall
BY CallIs DEF GoOn, Begin, Return, OneStep

(* Categories and contacts.                                                *)
DeletesCategory(t, step) == call[t] \in DeleteCategoryCalls /\ call[t].step = step
StillDeletes(t) == call'[t] \in DeleteCategoryCalls /\ call'[t].g = call[t].g /\ call'[t].to = call[t].to

LEMMA ListContactsDoes ==
    ASSUME Types, NEW t \in Threads, ListContacts(t)
    PROVE  /\ DeletesCategory(t, "list") /\ StillDeletes(t)
           /\ call'[t].todo = {c \in List("contact") : rows[c].of = call[t].g}
           /\ call'[t].step = IF call'[t].todo = {} THEN "delete" ELSE "target"
<1>1. call[t] \in DeleteCategoryCalls /\ call[t].step = "list"
    BY CallIs, CallsAre DEF ListContacts, At
<1>2. PICK found \in SUBSET Nat : found = {c \in List("contact") : rows[c].of = call[t].g}
    BY RowsAre
<1>3. PICK step \in {"delete", "target"} : step = IF found = {} THEN "delete" ELSE "target"
    OBVIOUS
<1>4. PICK q \in DeleteCategoryCalls : q = call[t]
    BY <1>1
<1>5. call'[t] = [q EXCEPT !.todo = found, !.step = step]
    BY <1>2, <1>3, <1>4, Goes DEF ListContacts
<1> QED BY <1>1, <1>2, <1>3, <1>4, <1>5 DEF DeletesCategory, StillDeletes, DeleteCategoryCalls

LEMMA FindTargetDoes ==
    ASSUME Types, NEW t \in Threads, FindTarget(t)
    PROVE  /\ DeletesCategory(t, "target")
           /\ \/ /\ StillDeletes(t) /\ call'[t].todo = call[t].todo /\ call'[t].step = "reassign"
                 /\ call[t].to \in List("category")
                 /\ misdirected' = misdirected \cup ({call[t].g} \cap {call[t].to})
              \/ call'[t] = NoCall /\ misdirected' = misdirected
<1>1. call[t] \in DeleteCategoryCalls /\ call[t].step = "target"
    BY CallIs, CallsAre DEF FindTarget, At
<1>2. PICK q \in DeleteCategoryCalls : q = call[t]
    BY <1>1
<1>3. GoTo(t, "reassign") => call'[t] = [q EXCEPT !.step = "reassign"]
    BY <1>2, Goes DEF GoTo
<1> QED BY <1>1, <1>2, <1>3, Goes DEF FindTarget, DeletesCategory, StillDeletes, DeleteCategoryCalls

LEMMA ReassignDoes ==
    ASSUME Types, NEW t \in Threads, Reassign(t)
    PROVE  /\ DeletesCategory(t, "reassign") /\ StillDeletes(t)
           /\ \E c \in call[t].todo :
                /\ Recategorize(c, call[t].to) /\ call'[t].todo = call[t].todo \ {c}
                /\ call'[t].step = IF call'[t].todo = {} THEN "delete" ELSE "reassign"
<1>1. call[t] \in DeleteCategoryCalls /\ call[t].step = "reassign"
    BY CallIs, CallsAre DEF Reassign, At
<1>2. PICK q \in DeleteCategoryCalls : q = call[t]
    BY <1>1
<1>3. PICK c \in q.todo :
          /\ Recategorize(c, q.to)
          /\ GoOn(t, [q EXCEPT !.todo = @ \ {c}, !.step = IF q.todo = {c} THEN "delete" ELSE @])
    BY <1>2 DEF Reassign
<1>4. PICK step \in {"delete", "reassign"} : step = IF q.todo = {c} THEN "delete" ELSE "reassign"
    OBVIOUS
<1>5. PICK todo \in SUBSET Nat : todo = q.todo \ {c}
    BY DEF DeleteCategoryCalls
<1>6. call'[t] = [q EXCEPT !.todo = todo, !.step = step]
    BY <1>1, <1>2, <1>3, <1>4, <1>5, Goes DEF DeleteCategoryCalls
<1>7. q.todo = {c} <=> todo = {}
    BY <1>5
<1> QED BY <1>1, <1>2, <1>3, <1>4, <1>5, <1>6, <1>7 DEF DeletesCategory, StillDeletes, DeleteCategoryCalls

LEMMA FindCategoryDoes ==
    ASSUME Types, NEW t \in Threads, FindCategory(t)
    PROVE  /\ call[t] \in ContactCalls /\ call[t].step = "category"
           /\ \/ /\ call'[t] \in ContactCalls /\ call'[t].op = call[t].op /\ call'[t].step = "write"
                 /\ call'[t].c = call[t].c /\ call'[t].g = call[t].g /\ call[t].g \in List("category")
              \/ call'[t] = NoCall
<1>1. call[t] \in ContactCalls /\ call[t].step = "category"
    BY CallIs, CallsAre DEF FindCategory
<1>2. PICK q \in ContactCalls : q = call[t]
    BY <1>1
<1>3. GoTo(t, "write") => call'[t] = [q EXCEPT !.step = "write"]
    BY <1>2, Goes DEF GoTo
<1> QED BY <1>1, <1>2, <1>3, Goes DEF FindCategory, ContactCalls

(* The import.                                                             *)
LEMMA ImportPersonDoes ==
    ASSUME Types, NEW t \in Threads, NEW p \in People, ImportPerson(t, p)
    PROVE  /\ call[t] \in ImportCalls /\ p \notin call[t].seen
           /\ \/ call'[t] = NoCall /\ UNCHANGED <<rows, minted>>
              \/ /\ ~ContactsFull(call[t].count) /\ AddRow(Contact(p, ImportCategory))
                 /\ call'[t] \in ImportCalls /\ call'[t].count = call[t].count + 1
                 /\ call'[t].seen = call[t].seen \cup {p}
<1>1. call[t] \in ImportCalls
    BY CallIs, CallsAre DEF ImportPerson, At
<1>2. PICK q \in ImportCalls : q = call[t]
    BY <1>1
<1>3. PICK n \in Nat : n = q.count + 1
    BY DEF ImportCalls
<1>4. PICK seen \in SUBSET Keys : seen = q.seen \cup {p}
    BY DEF ImportCalls, Keys
<1>5. GoOn(t, [q EXCEPT !.seen = @ \cup {p}, !.count = @ + 1]) => call'[t] = [q EXCEPT !.seen = seen, !.count = n]
    BY <1>3, <1>4, Goes DEF ImportCalls
<1> QED BY <1>1, <1>2, <1>3, <1>4, <1>5, Goes DEF ImportPerson, ImportCalls

LEMMA StartImportDoes ==
    ASSUME Types, NEW t \in Threads, StartImport(t)
    PROVE  /\ call[t] = NoCall /\ UNCHANGED <<rows, minted>>
           /\ call'[t].op = "import" /\ call'[t].step = "person"
           /\ call'[t].count = Cardinality(List("contact"))
           /\ call'[t].seen = {rows[c].key : c \in List("contact")} \ {None}
BY Goes DEF StartImport

(* Logging an event, erasing a contact, and retention.                     *)
LEMMA AuditEventDoes ==
    ASSUME Types, NEW t \in Threads, AuditEvent(t)
    PROVE  /\ call[t] \in LogCalls /\ call[t].step = "audit"
           /\ \/ call'[t] = NoCall
              \/ call'[t] \in LogCalls /\ call'[t].step = "add" /\ call'[t].c = call[t].c
<1>1. call[t] \in LogCalls /\ call[t].step = "audit"
    BY CallIs, CallsAre DEF AuditEvent, At
<1>2. PICK q \in LogCalls : q = call[t]
    BY <1>1
<1>3. PICK n \in Nat : n = now
    BY DEF Types
<1>4. call'[t] = NoCall \/ call'[t] = [q EXCEPT !.step = "add", !.at = n]
    BY <1>2, <1>3, Goes DEF AuditEvent
<1> QED BY <1>1, <1>2, <1>4 DEF LogCalls

LEMMA ListDependentsDoes ==
    ASSUME Types, NEW t \in Threads, ListDependents(t)
    PROVE  /\ call[t] \in EraseContactCalls /\ call[t].step = "list"
           /\ call'[t] \in EraseContactCalls /\ call'[t].step = "delete" /\ call'[t].c = call[t].c
           /\ call'[t].todo = {x \in List("contact_event") : rows[x].of = call[t].c}
<1>1. call[t] \in EraseContactCalls /\ call[t].step = "list"
    BY CallIs, CallsAre DEF ListDependents, At
<1>2. PICK found \in SUBSET Nat : found = {x \in List("contact_event") : rows[x].of = call[t].c}
    BY RowsAre
<1>3. PICK q \in EraseContactCalls : q = call[t]
    BY <1>1
<1>4. call'[t] = [q EXCEPT !.step = "delete", !.todo = found]
    BY <1>2, <1>3, Goes DEF ListDependents
<1> QED BY <1>1, <1>2, <1>3, <1>4 DEF EraseContactCalls

LEMMA EraseContactDoes ==
    ASSUME Types, NEW t \in Threads, EraseContact(t)
    PROVE  /\ call[t] \in EraseContactCalls /\ call[t].step = "delete"
           /\ \/ call[t].todo = {} /\ DeleteRow(call[t].c) /\ call'[t] = NoCall
              \/ \E x \in call[t].todo :
                    /\ DeleteRow(x) /\ call'[t] \in EraseContactCalls /\ call'[t].step = "delete"
                    /\ call'[t].c = call[t].c /\ call'[t].todo = call[t].todo \ {x}
<1>1. call[t] \in EraseContactCalls /\ call[t].step = "delete"
    BY CallIs, CallsAre DEF EraseContact, At
<1>2. CASE call[t].todo = {}
    BY <1>1, <1>2, Goes DEF EraseContact
<1>3. CASE call[t].todo # {}
  <2>1. PICK q \in EraseContactCalls : q = call[t]
      BY <1>1
  <2>2. PICK x \in q.todo : DeleteRow(x) /\ GoOn(t, [q EXCEPT !.todo = @ \ {x}])
      BY <1>3, <2>1 DEF EraseContact
  <2>3. PICK todo \in SUBSET Nat : todo = q.todo \ {x}
      BY DEF EraseContactCalls
  <2>4. call'[t] = [q EXCEPT !.todo = todo]
      BY <2>2, <2>3, Goes DEF EraseContactCalls
  <2> QED BY <1>1, <2>1, <2>2, <2>3, <2>4 DEF EraseContactCalls
<1> QED BY <1>2, <1>3

LEMMA StartRetentionDoes ==
    ASSUME Types, NEW t \in Threads, StartRetention(t)
    PROVE  /\ call[t] = NoCall /\ call'[t] \in RetentionCalls /\ call'[t].todo = Aged(call'[t].cutoff)
           /\ call'[t].before = rows
<1>1. now - Retention \in Int /\ Aged(now - Retention) \in SUBSET Nat
    BY RowsAre, PrivacyAssumption DEF Types, Aged
<1> QED BY <1>1, Goes DEF StartRetention, RetentionCalls, Types

LEMMA DeleteAgedDoes ==
    ASSUME Types, NEW t \in Threads, NEW x, DeleteAged(t, x)
    PROVE  /\ call[t] \in RetentionCalls /\ x \in call[t].todo /\ DeleteRow(x)
           /\ call'[t] \in RetentionCalls /\ call'[t].todo = call[t].todo \ {x}
           /\ call'[t].cutoff = call[t].cutoff /\ call'[t].before = call[t].before
<1>1. call[t] \in RetentionCalls /\ x \in call[t].todo /\ DeleteRow(x)
    BY CallIs, CallsAre DEF DeleteAged, At
<1>2. PICK q \in RetentionCalls : q = call[t]
    BY <1>1
<1>3. PICK todo \in SUBSET Nat : todo = q.todo \ {x}
    BY DEF RetentionCalls
<1>4. call'[t] = [q EXCEPT !.todo = todo]
    BY <1>2, <1>3, Goes DEF DeleteAged, RetentionCalls
<1> QED BY <1>1, <1>2, <1>3, <1>4 DEF RetentionCalls

(* Listing, for an export or an erasure.                                   *)
Lists(t, step) == call[t] \in ListingCalls /\ call[t].step = step
StillLists(t) ==
    call'[t] \in ListingCalls /\ call'[t].op = call[t].op /\ call'[t].before = call[t].before
Goes4(t) == StillLists(t) /\ call'[t].copy = call[t].copy /\ call'[t].next = call[t].next
Kind(i) == Entities[i]

LEMMA KindsAre ==
    /\ Kind(1) = "contact" /\ Kind(2) = "category" /\ Kind(3) = "contact_event" /\ Len(Entities) = 3
    /\ \A i \in 1 .. 3 : Kind(i) \in Kinds
BY DEF Kind, Entities, Kinds

LEMMA StartListingDoes ==
    ASSUME Types, NEW t \in Threads, NEW op \in {"export", "erase"}, StartListing(t, op)
    PROVE  /\ call[t] = NoCall /\ call'[t] \in ListingCalls /\ call'[t].op = op /\ call'[t].step = "list"
           /\ call'[t].next = 1 /\ call'[t].copy = Empty /\ DOMAIN call'[t].copy = {} /\ call'[t].before = rows
<1>1. Empty \in Tables /\ DOMAIN Empty = {} /\ None \in Nat
    BY TablesAre DEF Empty, None
<1> QED BY <1>1, Goes DEF StartListing, ListingCalls, Types

LEMMA ListEntityDoes ==
    ASSUME Types, NEW t \in Threads, ListEntity(t)
    PROVE  LET listed == List(Kind(call[t].next)) IN
           /\ Lists(t, "list") /\ call[t].next \in 1 .. 3 /\ StillLists(t)
           /\ call'[t].next = call[t].next + 1
           /\ DOMAIN call'[t].copy = DOMAIN call[t].copy \cup listed /\ call'[t].todo = DOMAIN call'[t].copy
           /\ \A x \in listed : call'[t].copy[x] = rows[x]
           /\ \A x \in DOMAIN call[t].copy \ listed : call'[t].copy[x] = call[t].copy[x]
           /\ call'[t].step = IF call[t].next < 3 THEN "list"
                              ELSE IF call[t].op = "export" THEN "audit" ELSE "revoke"
<1>1. call[t] \in ListingCalls /\ call[t].step = "list" /\ call[t].next \in 1 .. 3
  <2>1. call[t] \in ListingCalls /\ call[t].step = "list" /\ call[t].next < 4
      BY CallIs, CallsAre DEF ListEntity, Types
  <2> QED BY <2>1 DEF ListingCalls
<1>2. PICK q \in ListingCalls : q = call[t]
    BY <1>1
<1>3. PICK listed : listed = List(Kind(q.next))
    OBVIOUS
<1>4. listed \subseteq DOMAIN rows
    BY <1>3, RowsAre
<1>5. PICK copy : copy = Copied(q)
    OBVIOUS
<1>6. copy = [x \in DOMAIN q.copy \cup listed |-> IF x \in listed THEN rows[x] ELSE q.copy[x]]
    BY <1>3, <1>5 DEF Copied, Kind
<1>7. copy \in Tables
  <2>1. q.copy \in [DOMAIN q.copy -> Row] /\ DOMAIN q.copy \subseteq Nat
      BY TablesAre DEF ListingCalls
  <2>2. rows \in [DOMAIN rows -> Row] /\ DOMAIN rows \subseteq Nat
      BY RowsAre
  <2>3. copy \in [DOMAIN copy -> Row] /\ DOMAIN copy \subseteq Nat
      BY <1>4, <1>6, <2>1, <2>2
  <2> QED BY <2>3, TablesAre
<1>8. PICK n \in 1 .. 4 : n = q.next + 1
    BY <1>1, <1>2
<1>9. PICK step \in {"list", "audit", "revoke"} :
          step = IF q.next < 3 THEN "list" ELSE IF q.op = "export" THEN "audit" ELSE "revoke"
    OBVIOUS
<1>10. PICK todo \in SUBSET Nat : todo = DOMAIN copy
    BY <1>7, TablesAre
<1>11. call'[t] = Listing(q, 3)
    BY <1>2, Goes, KindsAre DEF ListEntity
<1>12. Listing(q, 3) = [q EXCEPT !.copy = copy, !.next = n, !.todo = todo, !.step = step]
    BY <1>1, <1>2, <1>5, <1>8, <1>9, <1>10 DEF Listing, ListingCalls
<1>13. /\ call'[t] \in ListingCalls /\ call'[t].op = q.op /\ call'[t].before = q.before
       /\ call'[t].copy = copy /\ call'[t].next = n /\ call'[t].todo = todo /\ call'[t].step = step
  <2>1. PICK d : d = [q EXCEPT !.copy = copy, !.next = n, !.todo = todo, !.step = step]
      OBVIOUS
  <2>2. call'[t] = d
      BY <1>11, <1>12, <2>1
  <2>3. d \in ListingCalls
      BY <1>7, <1>8, <1>9, <1>10, <2>1 DEF ListingCalls
  <2>4. d.op = q.op /\ d.before = q.before /\ d.copy = copy /\ d.next = n /\ d.todo = todo /\ d.step = step
      BY <2>1 DEF ListingCalls
  <2> QED BY <2>2, <2>3, <2>4
<1>14. \A x \in DOMAIN copy : copy[x] = IF x \in listed THEN rows[x] ELSE q.copy[x]
    BY <1>6
<1>15. DOMAIN copy = DOMAIN q.copy \cup listed
    BY <1>6
<1>16. Lists(t, "list") /\ StillLists(t)
    BY <1>1, <1>2, <1>13 DEF Lists, StillLists
<1> QED BY <1>1, <1>2, <1>3, <1>8, <1>9, <1>10, <1>13, <1>14, <1>15, <1>16

LEMMA RollBackDoes ==
    ASSUME Types, NEW t \in Threads, call[t] \in ListingCalls, RollBack(t)
    PROVE  Goes4(t) /\ call'[t].step = "restore" /\ call'[t].todo = DOMAIN call[t].copy
<1>1. PICK q \in ListingCalls : q = call[t]
    OBVIOUS
<1>2. PICK todo \in SUBSET Nat : todo = DOMAIN q.copy
    BY TablesAre DEF ListingCalls
<1>3. call'[t] = [q EXCEPT !.step = "restore", !.todo = todo]
    BY <1>1, <1>2, Goes DEF RollBack
<1> QED BY <1>1, <1>2, <1>3 DEF Goes4, StillLists, ListingCalls

LEMMA RevokeTokensDoes ==
    ASSUME Types, NEW t \in Threads, RevokeTokens(t)
    PROVE  /\ Lists(t, "revoke") /\ call[t].op = "erase" /\ Goes4(t)
           /\ \/ tokensLive' = FALSE /\ call'[t].step = "delete" /\ call'[t].todo = call[t].todo
              \/ UNCHANGED tokensLive /\ call'[t].step = "restore" /\ call'[t].todo = DOMAIN call[t].copy
<1>1. call[t] \in ListingCalls /\ call[t].step = "revoke" /\ call[t].op = "erase"
    BY CallIs, CallsAre DEF RevokeTokens, At
<1>2. PICK q \in ListingCalls : q = call[t]
    BY <1>1
<1>3. ASSUME GoTo(t, "delete") PROVE Goes4(t) /\ call'[t].step = "delete" /\ call'[t].todo = call[t].todo
  <2>1. call'[t] = [q EXCEPT !.step = "delete"]
      BY <1>2, <1>3, Goes DEF GoTo
  <2> QED BY <1>2, <2>1 DEF Goes4, StillLists, ListingCalls
<1> QED BY <1>1, <1>3, RollBackDoes DEF RevokeTokens, Lists

LEMMA FinishErasureDoes ==
    ASSUME Types, NEW t \in Threads, FinishErasure(t)
    PROVE  /\ Lists(t, "delete") /\ call[t].op = "erase" /\ call[t].todo = {}
           /\ \/ Ends(t, "done") /\ call'[t] = NoCall
              \/ Goes4(t) /\ call'[t].step = "restore" /\ call'[t].todo = DOMAIN call[t].copy /\ Quietly
<1>1. call[t] \in ListingCalls /\ call[t].step = "delete" /\ call[t].op = "erase"
    BY CallIs, CallsAre DEF FinishErasure, At
<1> QED BY <1>1, Goes, RollBackDoes DEF FinishErasure, Lists, Ends

LEMMA WorksOff ==
    ASSUME Types, NEW t \in Threads, NEW x, DeleteListed(t, x)
    PROVE  /\ call[t] \in ListingCalls /\ call[t].op = "erase" /\ x \in call[t].todo
           /\ Goes4(t) /\ call'[t].step = call[t].step /\ call'[t].todo = call[t].todo \ {x}
<1>1. call[t] \in ListingCalls /\ call[t].op = "erase" /\ x \in call[t].todo
    BY CallIs, CallsAre DEF DeleteListed, InOrder, At
<1>2. PICK q \in ListingCalls : q = call[t]
    BY <1>1
<1>3. PICK todo \in SUBSET Nat : todo = q.todo \ {x}
    BY DEF ListingCalls
<1>4. call'[t] = [q EXCEPT !.todo = todo]
    BY <1>2, <1>3, Goes DEF DeleteListed, ListingCalls
<1> QED BY <1>1, <1>2, <1>3, <1>4 DEF Goes4, StillLists, ListingCalls

LEMMA DeleteListedDoes ==
    ASSUME Types, NEW t \in Threads, NEW x, DeleteListed(t, x)
    PROVE  Lists(t, "delete") /\ DeleteRow(x)
BY CallIs, CallsAre DEF DeleteListed, At, Lists

(* A failed erasure looks for each row, and adds it back if it is missing. *)
Restoring == {"restore", "add_back"}
Restores(t, x) == LookForListed(t, x) \/ (AddBack(t) /\ x = call[t].missing)

LEMMA LookForListedDoes ==
    ASSUME Types, NEW t \in Threads, NEW x, LookForListed(t, x)
    PROVE  /\ Lists(t, "restore") /\ call[t].op = "erase" /\ x \in call[t].todo /\ Goes4(t)
           /\ \/ x \in DOMAIN rows /\ call'[t].step = "restore" /\ call'[t].todo = call[t].todo \ {x}
              \/ /\ x \notin DOMAIN rows /\ call'[t].step = "add_back" /\ call'[t].todo = call[t].todo
                 /\ call'[t].missing = x
<1>1. call[t] \in ListingCalls /\ call[t].op = "erase" /\ call[t].step = "restore" /\ x \in call[t].todo
    BY CallIs, CallsAre DEF LookForListed, InOrder, At
<1>2. PICK q \in ListingCalls : q = call[t]
    BY <1>1
<1>3. PICK todo \in SUBSET Nat : todo = q.todo \ {x}
    BY DEF ListingCalls
<1>4. x \in Nat
    BY <1>1 DEF ListingCalls
<1>5. CASE x \in DOMAIN rows
  <2>1. call'[t] = [q EXCEPT !.todo = todo]
      BY <1>2, <1>3, <1>5, Goes DEF LookForListed, ListingCalls
  <2> QED BY <1>1, <1>2, <1>3, <1>5, <2>1 DEF Lists, Goes4, StillLists, ListingCalls
<1>6. CASE x \notin DOMAIN rows
  <2>1. call'[t] = [q EXCEPT !.step = "add_back", !.missing = x]
      BY <1>2, <1>6, Goes DEF LookForListed
  <2> QED BY <1>1, <1>2, <1>4, <1>6, <2>1 DEF Lists, Goes4, StillLists, ListingCalls
<1> QED BY <1>5, <1>6

LEMMA AddBackDoes ==
    ASSUME Types, NEW t \in Threads, AddBack(t)
    PROVE  /\ Lists(t, "add_back") /\ call[t].op = "erase" /\ call[t].missing \in call[t].todo /\ Goes4(t)
           /\ call'[t].step = "restore" /\ call'[t].todo = call[t].todo \ {call[t].missing}
           /\ rows' = Insert(rows, call[t].missing, call[t].copy[call[t].missing])
<1>1. call[t] \in ListingCalls /\ call[t].op = "erase" /\ call[t].step = "add_back"
    BY CallIs, CallsAre DEF AddBack, At
<1>2. PICK q \in ListingCalls : q = call[t]
    BY <1>1
<1>3. q.missing \in q.todo
    BY <1>1, <1>2 DEF Types, CopyOf
<1>4. PICK todo \in SUBSET Nat : todo = q.todo \ {q.missing}
    BY DEF ListingCalls
<1>5. call'[t] = [q EXCEPT !.step = "restore", !.todo = todo]
    BY <1>2, <1>4, Goes DEF AddBack, ListingCalls
<1>6. rows' = Insert(rows, q.missing, q.copy[q.missing])
    BY <1>2 DEF AddBack
<1> QED BY <1>1, <1>2, <1>3, <1>4, <1>5, <1>6 DEF Lists, Goes4, StillLists, ListingCalls

LEMMA RestoresDoes ==
    ASSUME Types, NEW t \in Threads, NEW x, Restores(t, x)
    PROVE  /\ call[t] \in ListingCalls /\ call[t].op = "erase" /\ call[t].step \in Restoring
           /\ x \in call[t].todo /\ Goes4(t) /\ call'[t].step \in Restoring
           /\ \/ call'[t].todo = call[t].todo /\ call'[t].step = "add_back" /\ call'[t].missing = x
              \/ call'[t].todo = call[t].todo \ {x} /\ call'[t].step = "restore"
<1>1. CASE LookForListed(t, x)
    BY <1>1, LookForListedDoes DEF Lists, Restoring
<1>2. CASE AddBack(t) /\ x = call[t].missing
    BY <1>2, AddBackDoes DEF Lists, Restoring
<1> QED BY <1>1, <1>2 DEF Restores

-------------------------------------------------------------------------------
(* What a write makes of the rows.                                         *)
LEMMA AddRowDoes ==
    ASSUME Types, NEW row \in Row, AddRow(row)
    PROVE  /\ Fresh \in Nat /\ minted' = Fresh /\ rows' \in Tables /\ DOMAIN rows' = DOMAIN rows \cup {Fresh}
           /\ rows'[Fresh] = row /\ \A x \in DOMAIN rows : x # Fresh => rows'[x] = rows[x]
<1>1. Fresh \in Nat /\ minted' = Fresh /\ rows' = Insert(rows, Fresh, row)
    BY DEF Types, Fresh, AddRow, Mint
<1>2. PICK tab \in Tables : tab = rows
    BY DEF Types
<1>3. PICK x \in Nat : x = Fresh
    BY <1>1
<1>4. PICK new : new = Insert(tab, x, row)
    OBVIOUS
<1>5. /\ new \in Tables /\ DOMAIN new = DOMAIN tab \cup {x} /\ new[x] = row
      /\ \A y \in DOMAIN tab : y # x => new[y] = tab[y]
    BY <1>4, InsertedTable
<1>6. rows' = new
    BY <1>1, <1>2, <1>3, <1>4
<1> QED BY <1>1, <1>2, <1>3, <1>5, <1>6

LEMMA DeleteRowDoes ==
    ASSUME Types, NEW x, DeleteRow(x)
    PROVE  /\ rows' \in Tables /\ DOMAIN rows' = DOMAIN rows \ {x}
           /\ \A y \in DOMAIN rows' : rows'[y] = rows[y]
<1>1. PICK tab \in Tables : tab = rows
    BY DEF Types
<1>2. PICK gone : gone = {x}
    OBVIOUS
<1>3. PICK new : new = Remove(tab, gone)
    OBVIOUS
<1>4. rows' = new
    BY <1>1, <1>2, <1>3 DEF DeleteRow
<1> QED BY <1>1, <1>2, <1>3, <1>4, RemovedTable

SameButOf(x) ==
    rows'[x].entity = rows[x].entity /\ rows'[x].key = rows[x].key /\ rows'[x].at = rows[x].at

LEMMA RecategorizeDoes ==
    ASSUME Types, NEW c, NEW g \in Nat, Recategorize(c, g)
    PROVE  /\ rows' \in Tables /\ DOMAIN rows' = DOMAIN rows
           /\ \A x \in DOMAIN rows : x # c => rows'[x] = rows[x]
           /\ c \in DOMAIN rows => SameButOf(c) /\ rows'[c].of = g
<1>1. rows \in [DOMAIN rows -> Row] /\ DOMAIN rows \subseteq Nat
    BY RowsAre
<1>2. CASE c \notin DOMAIN rows
    BY <1>2 DEF Recategorize, Types
<1>3. CASE c \in DOMAIN rows
  <2>1. PICK r \in Row : r = rows[c]
      BY <1>1, <1>3
  <2>2. PICK new : new = [r EXCEPT !.of = g]
      OBVIOUS
  <2>3. new \in Row /\ new.of = g /\ new.entity = r.entity /\ new.key = r.key /\ new.at = r.at
      BY <2>2 DEF Row
  <2>4. rows' = [rows EXCEPT ![c] = new]
      BY <1>3, <2>1, <2>2 DEF Recategorize
  <2>5. rows' \in [DOMAIN rows' -> Row] /\ DOMAIN rows' = DOMAIN rows
      BY <1>1, <2>3, <2>4
  <2> QED BY <1>1, <1>3, <2>1, <2>3, <2>4, <2>5, TablesAre DEF SameButOf
<1> QED BY <1>2, <1>3

LEMMA RectifyDoes ==
    ASSUME Types, NEW t \in Threads, NEW c \in List("contact"), Rectify(t, c)
    PROVE  /\ call'[t] = [op |-> "rectify", step |-> "audit"] /\ call'[t] \in RectifyCalls /\ call[t] = NoCall
           /\ rows' \in Tables /\ DOMAIN rows' = DOMAIN rows /\ c \in DOMAIN rows
           /\ \A x \in DOMAIN rows : x # c => rows'[x] = rows[x]
           /\ rows'[c].entity = rows[c].entity /\ rows'[c].key = rows[c].key /\ rows'[c].of = rows[c].of
<1>1. rows \in [DOMAIN rows -> Row] /\ DOMAIN rows \subseteq Nat /\ c \in DOMAIN rows /\ now \in Nat
    BY RowsAre DEF Types
<1>2. PICK r \in Row : r = rows[c]
    BY <1>1
<1>3. PICK new : new = [r EXCEPT !.at = now]
    OBVIOUS
<1>4. new \in Row /\ new.of = r.of /\ new.entity = r.entity /\ new.key = r.key
    BY <1>1, <1>3 DEF Row
<1>5. rows' = [rows EXCEPT ![c] = new]
    BY <1>2, <1>3 DEF Rectify
<1>6. rows' \in [DOMAIN rows' -> Row] /\ DOMAIN rows' = DOMAIN rows
    BY <1>1, <1>4, <1>5
<1>7. call'[t] = [op |-> "rectify", step |-> "audit"] /\ call'[t] \in RectifyCalls /\ call[t] = NoCall
    BY Goes DEF Rectify, RectifyCalls
<1> QED BY <1>1, <1>2, <1>4, <1>5, <1>6, <1>7, TablesAre

LEMMA RenameDoes ==
    ASSUME Types, NEW t \in Threads, NEW g, NEW name \in Names, Rename(t, g, name)
    PROVE  /\ call'[t] = call[t] /\ call[t] = NoCall /\ UNCHANGED minted
           /\ rows' \in Tables /\ DOMAIN rows' = DOMAIN rows /\ g \in List("category")
           /\ \A x \in DOMAIN rows : x # g => rows'[x] = rows[x]
           /\ rows'[g].entity = "category" /\ rows'[g].of = rows[g].of /\ rows'[g].at = rows[g].at
<1>1. /\ rows \in [DOMAIN rows -> Row] /\ DOMAIN rows \subseteq Nat /\ g \in DOMAIN rows
      /\ g \in List("category") /\ rows[g].entity = "category"
    BY RowsAre DEF Rename
<1>2. PICK r \in Row : r = rows[g]
    BY <1>1
<1>3. PICK new : new = [r EXCEPT !.key = name]
    OBVIOUS
<1>4. new \in Row /\ new.of = r.of /\ new.entity = r.entity /\ new.at = r.at
    BY <1>3 DEF Row, Keys
<1>5. rows' = [rows EXCEPT ![g] = new]
    BY <1>2, <1>3 DEF Rename
<1>6. rows' \in [DOMAIN rows' -> Row] /\ DOMAIN rows' = DOMAIN rows
    BY <1>1, <1>4, <1>5
<1>7. call'[t] = call[t] /\ call[t] = NoCall /\ UNCHANGED minted
    BY Goes DEF Rename
<1> QED BY <1>1, <1>2, <1>4, <1>5, <1>6, <1>7, TablesAre

LEMMA AddBackWrites ==
    ASSUME Types, NEW t \in Threads, AddBack(t), NEW x, x = call[t].missing
    PROVE  /\ x \in DOMAIN call[t].copy /\ rows' \in Tables /\ DOMAIN rows' = DOMAIN rows \cup {x}
           /\ rows'[x] = call[t].copy[x] /\ \A y \in DOMAIN rows : y # x => rows'[y] = rows[y]
<1>1. call[t] \in ListingCalls /\ x \in call[t].todo /\ rows' = Insert(rows, x, call[t].copy[x])
    BY AddBackDoes DEF Lists
<1>2. PICK copy : copy = call[t].copy
    OBVIOUS
<1>3. copy \in [DOMAIN copy -> Row] /\ DOMAIN copy \subseteq Nat
    BY <1>1, <1>2, TablesAre DEF ListingCalls
<1>4. x \in DOMAIN copy
    BY <1>1, <1>2 DEF ListingCalls, Types, CopyOf
<1>5. PICK y \in Nat : y = x
    BY <1>3, <1>4
<1>6. PICK row \in Row : row = copy[x]
    BY <1>3, <1>4
<1>7. PICK tab \in Tables : tab = rows
    BY DEF Types
<1>8. PICK new : new = Insert(tab, y, row)
    OBVIOUS
<1>9. rows' = new
    BY <1>1, <1>2, <1>5, <1>6, <1>7, <1>8
<1>10. /\ new \in Tables /\ DOMAIN new = DOMAIN tab \cup {y} /\ new[y] = row
       /\ \A z \in DOMAIN tab : z # y => new[z] = tab[z]
    BY <1>8, InsertedTable
<1> QED BY <1>2, <1>4, <1>5, <1>6, <1>7, <1>9, <1>10

-------------------------------------------------------------------------------
(* What a step may make of the rows, and in which call.                    *)
Added(row) ==
    /\ row \in Row /\ minted' = Fresh /\ rows' \in Tables /\ DOMAIN rows' = DOMAIN rows \cup {Fresh}
    /\ rows'[Fresh] = row /\ \A x \in DOMAIN rows : rows'[x] = rows[x]
Deleted(x) ==
    /\ minted' = minted /\ rows' \in Tables /\ DOMAIN rows' = DOMAIN rows \ {x}
    /\ \A y \in DOMAIN rows' : rows'[y] = rows[y]
Rewritten(x) ==
    /\ minted' = minted /\ rows' \in Tables /\ DOMAIN rows' = DOMAIN rows
    /\ \A y \in DOMAIN rows : y # x => rows'[y] = rows[y]
    /\ x \in DOMAIN rows => rows'[x].entity = rows[x].entity
Moved(c, g) ==
    /\ Rewritten(c)
    /\ c \in DOMAIN rows => SameButOf(c) /\ rows'[c].of = g
Rectified(c) ==
    Rewritten(c) /\ c \in List("contact") /\ rows'[c].key = rows[c].key /\ rows'[c].of = rows[c].of
Renamed(g) == Rewritten(g) /\ g \in List("category")
Restored(t, x) ==
    /\ minted' = minted /\ rows' \in Tables /\ DOMAIN rows' = DOMAIN rows \cup {x}
    /\ x \in DOMAIN call[t].copy /\ rows'[x] = call[t].copy[x]
    /\ \A y \in DOMAIN rows : y # x => rows'[y] = rows[y]

Writes(t) ==
    \/ rows' = rows /\ minted' = minted
    \/ At(t, "create_category", "add") /\ Added(Category(call[t].name))
    \/ At(t, "create_contact", "write") /\ Added(Contact(None, call[t].g))
    \/ /\ At(t, "import", "person") /\ ~ContactsFull(call[t].count)
       /\ \E p \in People \ call[t].seen : Added(Contact(p, ImportCategory))
    \/ At(t, "log_event", "add") /\ Added(ContactEvent(call[t].c, call[t].at))
    \/ At(t, "delete_category", "reassign") /\ \E c \in call[t].todo : Moved(c, call[t].to)
    \/ At(t, "delete_category", "delete") /\ Deleted(call[t].g)
    \/ At(t, "update_contact", "write") /\ Moved(call[t].c, call[t].g)
    \/ call'[t].op = "rectify" /\ \E c \in List("contact") : Rectified(c)
    \/ call[t] = NoCall /\ call'[t] = NoCall /\ \E g \in List("category") : Renamed(g)
    \/ At(t, "erase_contact", "delete") /\ call[t].todo = {} /\ Deleted(call[t].c)
    \/ At(t, "erase_contact", "delete") /\ \E x \in call[t].todo : Deleted(x)
    \/ At(t, "retention", "delete") /\ \E x \in call[t].todo : Deleted(x)
    \/ At(t, "erase", "delete") /\ \E x \in call[t].todo : Deleted(x)
    \/ At(t, "erase", "add_back") /\ Restored(t, call[t].missing)

LEMMA RowsOf ==
    /\ \A name \in Names : Category(name) \in Row
    /\ \A g \in Nat : \A p \in People \cup {None} : Contact(p, g) \in Row
    /\ \A c, at \in Nat : ContactEvent(c, at) \in Row
BY DEF Category, Contact, ContactEvent, Row, Kinds, Keys, None

LEMMA Adding == ASSUME Types, NEW row \in Row, AddRow(row) PROVE Added(row)
<1>1. Fresh \notin DOMAIN rows
    BY DEF Types, Fresh
<1> QED BY <1>1, AddRowDoes DEF Added
LEMMA Deleting == ASSUME Types, NEW x, DeleteRow(x), UNCHANGED minted PROVE Deleted(x)
BY DeleteRowDoes DEF Deleted
LEMMA Moving == ASSUME Types, NEW c, NEW g \in Nat, Recategorize(c, g), UNCHANGED minted PROVE Moved(c, g)
BY RecategorizeDoes DEF Moved, Rewritten, SameButOf

LEMMA CategoryWrites == ASSUME Types, NEW t \in Threads, CategoryStep(t) PROVE Writes(t)
<1>1. None \in Nat
    BY DEF None
<1>2. CASE AddCategory(t)
  <2>1. call[t] \in CreateCategoryCalls
      BY <1>2, CallIs, CallsAre DEF AddCategory, At
  <2>2. Category(call[t].name) \in Row
      BY <2>1, RowsOf DEF CreateCategoryCalls
  <2> QED BY <1>2, <2>2, Adding DEF AddCategory, Writes
<1>3. CASE ListContacts(t) \/ FindTarget(t) \/ FindCategory(t)
    BY <1>3 DEF ListContacts, FindTarget, FindCategory, Writes
<1>4. CASE Reassign(t)
  <2>1. call[t].to \in Nat
      BY <1>4, ReassignDoes DEF DeletesCategory, DeleteCategoryCalls
  <2>2. At(t, "delete_category", "reassign") /\ minted' = minted
      BY <1>4 DEF Reassign
  <2>3. \E c \in call[t].todo : Moved(c, call[t].to)
      BY <1>4, <2>1, <2>2, ReassignDoes, Moving
  <2> QED BY <2>2, <2>3 DEF Writes
<1>5. CASE DeleteCategory(t)
    BY <1>5, Deleting DEF DeleteCategory, Writes
<1>6. CASE WriteContact(t)
  <2>1. call[t] \in ContactCalls
      BY <1>6, CallIs, CallsAre DEF WriteContact, At
  <2>2. call[t].g \in Nat /\ Contact(None, call[t].g) \in Row
      BY <2>1, RowsOf DEF ContactCalls
  <2>3. CASE At(t, "create_contact", "write") /\ AddRow(Contact(None, call[t].g))
      BY <2>2, <2>3, Adding DEF Writes
  <2>4. CASE At(t, "update_contact", "write") /\ UNCHANGED minted /\ Recategorize(call[t].c, call[t].g)
      BY <2>2, <2>4, Moving DEF Writes
  <2> QED BY <1>6, <2>3, <2>4 DEF WriteContact
<1>7. ASSUME NEW name \in Names, NEW g \in List("category"), Rename(t, g, name) PROVE Writes(t)
  <2>1. Renamed(g) /\ call[t] = NoCall /\ call'[t] = NoCall
      BY <1>7, RenameDoes, RowsAre DEF Renamed, Rewritten
  <2> QED BY <2>1 DEF Writes
<1>8. CASE \/ \E name \in Names : StartCreateCategory(t, name)
           \/ \E g \in List("category") :
               \/ StartCreateContact(t, g)
               \/ \E to \in List("category") \cup {None} : StartDeleteCategory(t, g, to)
               \/ \E c \in List("contact") : StartMoveContact(t, c, g)
    BY <1>8 DEF StartCreateCategory, StartCreateContact, StartDeleteCategory, StartMoveContact, Writes
<1> QED BY <1>2, <1>3, <1>4, <1>5, <1>6, <1>7, <1>8 DEF CategoryStep

LEMMA ImportWrites == ASSUME Types, NEW t \in Threads, ImportStep(t) PROVE Writes(t)
<1>1. CASE StartImport(t) \/ RejectPerson(t) \/ EndImport(t)
    BY <1>1 DEF StartImport, RejectPerson, EndImport, Writes
<1>2. ASSUME NEW p \in People, ImportPerson(t, p) PROVE Writes(t)
  <2>1. ImportCategory \in Nat
      BY RecordsAssumption
  <2>2. Contact(p, ImportCategory) \in Row
      BY <2>1, RowsOf
  <2>3. At(t, "import", "person")
      BY <1>2 DEF ImportPerson
  <2>4. CASE UNCHANGED <<rows, minted>>
      BY <2>4 DEF Writes
  <2>5. CASE ~ContactsFull(call[t].count) /\ AddRow(Contact(p, ImportCategory))
    <3>1. Added(Contact(p, ImportCategory)) /\ p \in People \ call[t].seen
        BY <1>2, <2>2, <2>5, ImportPersonDoes, Adding
    <3> QED BY <2>3, <2>5, <3>1 DEF Writes
  <2> QED BY <1>2, <2>4, <2>5, ImportPersonDoes
<1> QED BY <1>1, <1>2 DEF ImportStep

LEMMA PrivacyWrites == ASSUME Types, NEW t \in Threads, PrivacyStep(t) PROVE Writes(t)
<1>1. CASE \/ AuditEvent(t) \/ AuditRectification(t) \/ ListDependents(t) \/ StartRetention(t)
           \/ FinishRetention(t) \/ ListEntity(t) \/ FinishExport(t) \/ RevokeTokens(t)
           \/ FinishErasure(t) \/ AbortErasure(t)
    BY <1>1 DEF AuditEvent, AuditRectification, ListDependents, StartRetention, FinishRetention, ListEntity,
                FinishExport, RevokeTokens, FinishErasure, AbortErasure, Writes
<1>2. CASE \/ \E op \in {"export", "erase"} : StartListing(t, op)
           \/ \E c \in List("contact") : StartLogEvent(t, c) \/ StartEraseContact(t, c)
    BY <1>2 DEF StartListing, StartLogEvent, StartEraseContact, Writes
<1>3. CASE AddEvent(t)
  <2>1. call[t] \in LogCalls /\ At(t, "log_event", "add")
      BY <1>3, CallIs, CallsAre DEF AddEvent, At
  <2>2. ContactEvent(call[t].c, call[t].at) \in Row
      BY <2>1, RowsOf DEF LogCalls
  <2> QED BY <1>3, <2>1, <2>2, Adding DEF AddEvent, Writes
<1>4. CASE EraseContact(t)
  <2>1. At(t, "erase_contact", "delete") /\ minted' = minted
      BY <1>4 DEF EraseContact
  <2>2. CASE call[t].todo = {} /\ DeleteRow(call[t].c)
      BY <2>1, <2>2, Deleting DEF Writes
  <2>3. CASE \E x \in call[t].todo : DeleteRow(x)
      BY <2>1, <2>3, Deleting DEF Writes
  <2> QED BY <1>4, <2>2, <2>3, EraseContactDoes
<1>5. ASSUME NEW x, DeleteAged(t, x) PROVE Writes(t)
    BY <1>5, Deleting DEF DeleteAged, Writes
<1>6. ASSUME NEW x, DeleteListed(t, x) PROVE Writes(t)
    BY <1>6, Deleting DEF DeleteListed, InOrder, Writes
<1>7. ASSUME NEW x, LookForListed(t, x) PROVE Writes(t)
    BY <1>7 DEF LookForListed, Writes
<1>9. CASE AddBack(t)
  <2>1. At(t, "erase", "add_back") /\ minted' = minted
      BY <1>9 DEF AddBack
  <2>2. Restored(t, call[t].missing)
      BY <1>9, <2>1, AddBackWrites DEF Restored
  <2> QED BY <2>1, <2>2 DEF Writes
<1>8. ASSUME NEW c \in List("contact"), Rectify(t, c) PROVE Writes(t)
  <2>1. call'[t].op = "rectify"
      BY <1>8, RectifyDoes DEF RectifyCalls
  <2>2. rows'[c].entity = rows[c].entity /\ rows'[c].key = rows[c].key /\ rows'[c].of = rows[c].of
      BY <1>8, RectifyDoes
  <2>3. Rewritten(c)
      BY <1>8, <2>2, RectifyDoes DEF Rectify, Rewritten
  <2> QED BY <2>1, <2>2, <2>3 DEF Writes, Rectified
<1> QED BY <1>1, <1>2, <1>3, <1>4, <1>5, <1>6, <1>7, <1>8, <1>9 DEF PrivacyStep

-------------------------------------------------------------------------------
(* What is known of the rows a call holds: which id is of what entity.     *)
CallSees(c, x, e) ==
    \/ /\ c.op = "delete_category"
       /\ \/ e = "category" /\ (x = c.g \/ (x = c.to /\ x # None))
          \/ e = "contact" /\ x \in c.todo
    \/ c.op \in {"create_contact", "update_contact"} /\ e = "category" /\ x = c.g
    \/ c.op \in {"update_contact", "log_event", "erase_contact"} /\ e = "contact" /\ x = c.c
    \/ c.op \in {"erase_contact", "retention"} /\ e = "contact_event" /\ x \in c.todo
    \/ c.op \in {"export", "erase"} /\ x \in DOMAIN c.copy /\ e = c.copy[x].entity
    \/ c.op \in {"retention", "export", "erase"} /\ x \in DOMAIN c.before /\ e = c.before[x].entity
Sees(x, e) == x \in List(e) \/ \E t \in Threads : CallSees(call[t], x, e)

CallFine(c, n) ==
    /\ c \in AllCalls
    /\ c.op \in {"export", "erase"} => CopyOf(c, n)
    /\ c.op \in {"export", "erase"} /\ c.step = "list" => c.next < 4
Proceeds(t) ==
    /\ CallFine(call'[t], minted)
    /\ \A x, e : CallSees(call'[t], x, e) => Sees(x, e)

LEMMA Idles == ASSUME NEW t \in Threads, call'[t] = NoCall PROVE Proceeds(t)
BY DEF Proceeds, CallFine, NoCall, AllCalls, CallSees

LEMMA ItsRows ==
    /\ \A x \in DOMAIN rows : x \in List(rows[x].entity)
    /\ \A e : \A x \in List(e) : Sees(x, e)
BY DEF List, Sees

LEMMA CategoryProceeds == ASSUME Types, NEW t \in Threads, CategoryStep(t) PROVE Proceeds(t)
<1>1. \A x, e : CallSees(call[t], x, e) => Sees(x, e)
    BY DEF Sees
<1>2. CASE AddCategory(t) \/ DeleteCategory(t) \/ WriteContact(t)
    BY <1>2, Goes, Idles DEF AddCategory, DeleteCategory, WriteContact
<1>3. ASSUME call[t] \in DeleteCategoryCalls, StillDeletes(t),
             call'[t].todo \subseteq call[t].todo \cup List("contact")
      PROVE  Proceeds(t)
  <2>1. CallFine(call'[t], minted)
      BY <1>3 DEF CallFine, StillDeletes, DeleteCategoryCalls, AllCalls
  <2>2. ASSUME NEW x, NEW e, CallSees(call'[t], x, e) PROVE CallSees(call[t], x, e) \/ x \in List(e)
      BY <1>3, <2>2 DEF CallSees, StillDeletes, DeleteCategoryCalls
  <2> QED BY <1>1, <2>1, <2>2, ItsRows DEF Proceeds
<1>4. CASE ListContacts(t)
    BY <1>3, <1>4, ListContactsDoes DEF DeletesCategory
<1>5. CASE FindTarget(t)
    BY <1>3, <1>5, FindTargetDoes, Idles DEF DeletesCategory
<1>6. CASE Reassign(t)
    BY <1>3, <1>6, ReassignDoes DEF DeletesCategory
<1>7. CASE FindCategory(t)
  <2>1. CASE call'[t] \in ContactCalls
    <3>1. CallFine(call'[t], minted)
        BY <2>1 DEF CallFine, ContactCalls, AllCalls
    <3>2. ASSUME NEW x, NEW e, CallSees(call'[t], x, e) PROVE CallSees(call[t], x, e)
        BY <1>7, <2>1, <3>2, FindCategoryDoes, Idles DEF CallSees, ContactCalls, NoCall
    <3> QED BY <1>1, <3>1, <3>2 DEF Proceeds
  <2> QED BY <1>7, <2>1, FindCategoryDoes, Idles
<1>8. ASSUME NEW name \in Names, StartCreateCategory(t, name) PROVE Proceeds(t)
  <2>1. call'[t] = NoCall \/ call'[t] = [op |-> "create_category", step |-> "add", name |-> name]
      BY <1>8, Goes DEF StartCreateCategory
  <2>2. CASE call'[t] = [op |-> "create_category", step |-> "add", name |-> name]
      BY <2>2 DEF Proceeds, CallFine, CallSees, CreateCategoryCalls, AllCalls
  <2> QED BY <2>1, <2>2, Idles
<1>9. ASSUME NEW g, NEW name, Rename(t, g, name) PROVE Proceeds(t)
    BY <1>9, Goes, Idles DEF Rename
<1>10. ASSUME NEW c, NEW d \in ContactCalls, call'[t] = d, d.g \in List("category"),
              d.op = "update_contact" => d.c \in List("contact")
       PROVE  Proceeds(t)
  <2>1. CallFine(d, minted)
      BY DEF CallFine, ContactCalls, AllCalls
  <2>2. ASSUME NEW x, NEW e, CallSees(d, x, e) PROVE x \in List(e)
      BY <1>10, <2>2 DEF CallSees, ContactCalls
  <2> QED BY <1>10, <2>1, <2>2, ItsRows DEF Proceeds
<1>11. ASSUME NEW g \in List("category"), StartCreateContact(t, g) PROVE Proceeds(t)
  <2>1. call'[t] = NoCall \/ call'[t] = [op |-> "create_contact", step |-> "category", c |-> None, g |-> g]
      BY <1>11, Goes DEF StartCreateContact
  <2>2. [op |-> "create_contact", step |-> "category", c |-> None, g |-> g] \in ContactCalls
      BY RowsAre DEF ContactCalls, None
  <2> QED BY <1>10, <2>1, <2>2, Idles
<1>12. ASSUME NEW g \in List("category"), NEW to \in List("category") \cup {None}, StartDeleteCategory(t, g, to)
       PROVE  Proceeds(t)
  <2>1. PICK d : d = [op |-> "delete_category", step |-> "list", g |-> g, to |-> to, todo |-> {}]
      OBVIOUS
  <2>2. call'[t] = d
      BY <1>12, <2>1, Goes DEF StartDeleteCategory
  <2>3. d \in DeleteCategoryCalls
      BY <2>1, RowsAre DEF DeleteCategoryCalls, None
  <2>4. CallFine(d, minted)
      BY <2>3 DEF CallFine, DeleteCategoryCalls, AllCalls
  <2>5. ASSUME NEW x, NEW e, CallSees(d, x, e) PROVE x \in List(e)
      BY <2>1, <2>5 DEF CallSees
  <2> QED BY <2>2, <2>4, <2>5, ItsRows DEF Proceeds
<1>13. ASSUME NEW g \in List("category"), NEW c \in List("contact"), StartMoveContact(t, c, g)
       PROVE  Proceeds(t)
  <2>1. call'[t] = [op |-> "update_contact", step |-> "category", c |-> c, g |-> g]
      BY <1>13, Goes DEF StartMoveContact
  <2>2. [op |-> "update_contact", step |-> "category", c |-> c, g |-> g] \in ContactCalls
      BY RowsAre DEF ContactCalls
  <2> QED BY <1>10, <2>1, <2>2
<1> QED BY <1>2, <1>4, <1>5, <1>6, <1>7, <1>8, <1>9, <1>11, <1>12, <1>13 DEF CategoryStep

LEMMA ListIsFinite ==
    ASSUME Types PROVE \A entity : IsFiniteSet(List(entity)) /\ Cardinality(List(entity)) \in Nat
<1>1. PICK n \in Nat : n = minted
    BY DEF Types
<1>2. 1 \in Int /\ n \in Int
    OBVIOUS
<1>3. IsFiniteSet(1 .. n)
    BY <1>2, FS_Interval, Zenon
<1>4. \A entity : List(entity) \in SUBSET (1 .. n)
    BY <1>1 DEF Types, List
<1> QED BY <1>3, <1>4, FS_Subset, FS_CardinalityType

LEMMA ImportProceeds == ASSUME Types, NEW t \in Threads, ImportStep(t) PROVE Proceeds(t)
<1>1. ASSUME call'[t] \in ImportCalls PROVE Proceeds(t)
    BY <1>1 DEF Proceeds, CallFine, CallSees, ImportCalls, AllCalls
<1>2. CASE StartImport(t)
  <2>1. PICK n \in Nat : n = Cardinality(List("contact"))
      BY ListIsFinite
  <2>2. PICK seen \in SUBSET Keys : seen = {rows[c].key : c \in List("contact")} \ {None}
      BY RowsAre DEF Row
  <2>3. call'[t] = [op |-> "import", step |-> "person", count |-> n, seen |-> seen]
      BY <1>2, <2>1, <2>2, Goes DEF StartImport
  <2>4. call'[t] \in ImportCalls
      BY <2>3 DEF ImportCalls
  <2> QED BY <1>1, <2>4
<1>3. CASE RejectPerson(t) \/ EndImport(t)
    BY <1>3, Goes, Idles DEF RejectPerson, EndImport
<1>4. ASSUME NEW p \in People, ImportPerson(t, p) PROVE Proceeds(t)
    BY <1>1, <1>4, ImportPersonDoes, Idles
<1> QED BY <1>2, <1>3, <1>4 DEF ImportStep

LEMMA PrivacyProceeds == ASSUME Types, NEW t \in Threads, PrivacyStep(t) PROVE Proceeds(t)
<1>1. \A x, e : CallSees(call[t], x, e) => Sees(x, e)
    BY DEF Sees
<1>2. CASE AddEvent(t) \/ AuditRectification(t) \/ FinishExport(t) \/ AbortErasure(t) \/ FinishRetention(t)
    BY <1>2, Goes, Idles DEF AddEvent, AuditRectification, FinishExport, AbortErasure, FinishRetention, Ends
<1>3. ASSUME call[t] \in EraseContactCalls, call'[t] \in EraseContactCalls, call'[t].c = call[t].c,
             call'[t].todo \subseteq call[t].todo \cup List("contact_event")
      PROVE  Proceeds(t)
  <2>1. CallFine(call'[t], minted)
      BY <1>3 DEF CallFine, EraseContactCalls, AllCalls
  <2>2. ASSUME NEW x, NEW e, CallSees(call'[t], x, e) PROVE CallSees(call[t], x, e) \/ x \in List(e)
      BY <1>3, <2>2 DEF CallSees, EraseContactCalls
  <2> QED BY <1>1, <2>1, <2>2, ItsRows DEF Proceeds
<1>4. CASE ListDependents(t)
    BY <1>3, <1>4, ListDependentsDoes
<1>5. CASE EraseContact(t)
    BY <1>3, <1>5, EraseContactDoes, Idles
<1>6. CASE StartRetention(t)
  <2>1. PICK d \in RetentionCalls : d = call'[t]
      BY <1>6, StartRetentionDoes
  <2>2. d.todo \subseteq List("contact_event") /\ d.before = rows
      BY <1>6, <2>1, StartRetentionDoes DEF Aged
  <2>3. CallFine(d, minted)
      BY DEF CallFine, RetentionCalls, AllCalls
  <2>4. ASSUME NEW x, NEW e, CallSees(d, x, e) PROVE x \in List(e)
      BY <2>2, <2>4, ItsRows DEF CallSees, RetentionCalls
  <2> QED BY <2>1, <2>3, <2>4, ItsRows DEF Proceeds
<1>7. ASSUME NEW x, DeleteAged(t, x) PROVE Proceeds(t)
  <2>1. PICK d \in RetentionCalls : d = call'[t]
      BY <1>7, DeleteAgedDoes
  <2>2. PICK c \in RetentionCalls : c = call[t]
      BY <1>7, DeleteAgedDoes
  <2>3. d.todo \subseteq c.todo /\ d.before = c.before
      BY <1>7, <2>1, <2>2, DeleteAgedDoes
  <2>4. CallFine(d, minted)
      BY DEF CallFine, RetentionCalls, AllCalls
  <2>5. ASSUME NEW y, NEW e, CallSees(d, y, e) PROVE CallSees(c, y, e)
      BY <2>3, <2>5 DEF CallSees, RetentionCalls
  <2> QED BY <1>1, <2>1, <2>2, <2>4, <2>5 DEF Proceeds
<1>8. ASSUME NEW op \in {"export", "erase"}, StartListing(t, op) PROVE Proceeds(t)
  <2>1. PICK d \in ListingCalls : d = call'[t]
      BY <1>8, StartListingDoes
  <2>2. d.op = op /\ d.step = "list" /\ d.next = 1 /\ DOMAIN d.copy = {} /\ d.before = rows /\ d.todo = {}
    <3>1. call'[t].todo = {}
        BY <1>8, Goes DEF StartListing
    <3> QED BY <1>8, <2>1, <3>1, StartListingDoes
  <2>3. d \in AllCalls
      BY DEF AllCalls
  <2>4. CopyOf(d, minted)
      BY <2>2 DEF CopyOf
  <2>5. CallFine(d, minted)
      BY <2>2, <2>3, <2>4 DEF CallFine
  <2>6. ASSUME NEW x, NEW e, CallSees(d, x, e) PROVE x \in List(e)
      BY <2>2, <2>6, ItsRows DEF CallSees
  <2> QED BY <2>1, <2>5, <2>6, ItsRows DEF Proceeds
<1>9. CASE ListEntity(t)
  <2>1. PICK listed : listed = List(Kind(call[t].next))
      OBVIOUS
  <2>2. PICK c \in ListingCalls : c = call[t] /\ c.step = "list" /\ c.next \in 1 .. 3
      BY <1>9, ListEntityDoes DEF Lists
  <2>3. PICK d \in ListingCalls : d = call'[t] /\ d.op = c.op /\ d.before = c.before
      BY <1>9, <2>2, ListEntityDoes DEF StillLists
  <2>4. /\ d.next = c.next + 1 /\ DOMAIN d.copy = DOMAIN c.copy \cup listed /\ d.todo = DOMAIN d.copy
        /\ \A x \in listed : d.copy[x] = rows[x]
        /\ \A x \in DOMAIN c.copy \ listed : d.copy[x] = c.copy[x]
        /\ c.next < 3 \/ d.step # "list"
        /\ d.step # "add_back"
      BY <1>9, <2>1, <2>2, <2>3, ListEntityDoes
  <2>5. listed \subseteq DOMAIN rows /\ DOMAIN rows \subseteq 1 .. minted
      BY <2>1, RowsAre DEF Types
  <2>6. DOMAIN c.copy \subseteq 1 .. minted
      BY <2>2 DEF Types, CopyOf, ListingCalls
  <2>7. CallFine(d, minted)
      BY <2>2, <2>4, <2>5, <2>6 DEF CallFine, CopyOf, AllCalls
  <2>8. ASSUME NEW x, NEW e, CallSees(d, x, e) PROVE CallSees(c, x, e) \/ x \in List(e)
    <3>1. CASE x \in DOMAIN d.before /\ e = d.before[x].entity
        BY <2>3, <3>1 DEF CallSees, ListingCalls
    <3>2. CASE x \in DOMAIN d.copy /\ e = d.copy[x].entity
      <4>1. CASE x \in listed
          BY <2>4, <2>5, <3>2, <4>1, ItsRows
      <4>2. CASE x \notin listed
          BY <2>4, <3>2, <4>2 DEF CallSees, ListingCalls
      <4> QED BY <4>1, <4>2
    <3> QED BY <2>8, <3>1, <3>2 DEF CallSees, ListingCalls
  <2> QED BY <1>1, <2>2, <2>3, <2>7, <2>8, ItsRows DEF Proceeds
<1>10. ASSUME call[t] \in ListingCalls, Goes4(t), call'[t].todo \subseteq DOMAIN call[t].copy,
              call'[t].step # "list", call'[t].step = "add_back" => call'[t].missing \in call'[t].todo
       PROVE  Proceeds(t)
  <2>1. PICK c \in ListingCalls : c = call[t]
      BY <1>10
  <2>2. PICK d \in ListingCalls : d = call'[t]
      BY <1>10 DEF Goes4, StillLists
  <2>3. /\ d.copy = c.copy /\ d.before = c.before /\ d.op = c.op /\ d.todo \subseteq DOMAIN c.copy
        /\ d.step # "list"
        /\ d.step = "add_back" => d.missing \in d.todo
      BY <1>10, <2>1, <2>2 DEF Goes4, StillLists
  <2>4. DOMAIN c.copy \subseteq 1 .. minted
      BY <2>1 DEF Types, CopyOf, ListingCalls
  <2>5. d \in AllCalls
      BY DEF AllCalls
  <2>6. CopyOf(d, minted)
      BY <2>3, <2>4 DEF CopyOf
  <2>7. CallFine(d, minted)
      BY <2>3, <2>5, <2>6 DEF CallFine
  <2>8. ASSUME NEW x, NEW e, CallSees(d, x, e) PROVE CallSees(c, x, e)
      BY <2>3, <2>8 DEF CallSees, ListingCalls
  <2> QED BY <1>1, <2>1, <2>2, <2>7, <2>8 DEF Proceeds
<1>11. call[t] \in ListingCalls => call[t].todo \subseteq DOMAIN call[t].copy
    BY DEF Types, CopyOf, ListingCalls
<1>12. CASE RevokeTokens(t)
    BY <1>10, <1>11, <1>12, RevokeTokensDoes DEF Lists
<1>13. CASE FinishErasure(t)
    BY <1>10, <1>13, FinishErasureDoes, Idles DEF Lists
<1>14. ASSUME NEW x, DeleteListed(t, x) \/ Restores(t, x) PROVE Proceeds(t)
  <2>1. CASE DeleteListed(t, x)
      BY <1>10, <1>11, <2>1, WorksOff, DeleteListedDoes DEF Lists
  <2>2. CASE Restores(t, x)
      BY <1>10, <1>11, <2>2, RestoresDoes DEF Restoring
  <2> QED BY <1>14, <2>1, <2>2
<1>15. ASSUME NEW c \in List("contact"), StartLogEvent(t, c) PROVE Proceeds(t)
  <2>1. call'[t] = [op |-> "log_event", step |-> "audit", c |-> c, at |-> None]
      BY <1>15, Goes DEF StartLogEvent
  <2>2. c \in Nat /\ None \in Nat
      BY RowsAre DEF None
  <2> QED BY <2>1, <2>2, ItsRows DEF Proceeds, CallFine, CallSees, LogCalls, AllCalls
<1>16. ASSUME NEW c \in List("contact"), Rectify(t, c) PROVE Proceeds(t)
  <2>1. call'[t] = [op |-> "rectify", step |-> "audit"]
      BY <1>16, RectifyDoes
  <2> QED BY <2>1 DEF Proceeds, CallFine, CallSees, RectifyCalls, AllCalls
<1>17. ASSUME NEW c \in List("contact"), StartEraseContact(t, c) PROVE Proceeds(t)
  <2>1. PICK d : d = [op |-> "erase_contact", step |-> "list", c |-> c, todo |-> {}]
      OBVIOUS
  <2>2. call'[t] = d
      BY <1>17, <2>1, Goes DEF StartEraseContact
  <2>3. d \in EraseContactCalls
      BY <2>1, RowsAre DEF EraseContactCalls
  <2>4. CallFine(d, minted)
      BY <2>3 DEF CallFine, EraseContactCalls, AllCalls
  <2>5. ASSUME NEW x, NEW e, CallSees(d, x, e) PROVE x \in List(e)
      BY <2>1, <2>5 DEF CallSees
  <2> QED BY <2>2, <2>4, <2>5, ItsRows DEF Proceeds
<1>18. CASE AuditEvent(t)
  <2>1. CASE call'[t] \in LogCalls /\ call'[t].c = call[t].c
    <3>1. CallFine(call'[t], minted)
        BY <2>1 DEF CallFine, LogCalls, AllCalls
    <3>2. ASSUME NEW x, NEW e, CallSees(call'[t], x, e) PROVE CallSees(call[t], x, e)
        BY <1>18, <2>1, <3>2, AuditEventDoes DEF CallSees, LogCalls
    <3> QED BY <1>1, <3>1, <3>2 DEF Proceeds
  <2> QED BY <1>18, <2>1, AuditEventDoes, Idles
<1> QED BY <1>2, <1>4, <1>5, <1>6, <1>7, <1>8, <1>9, <1>12, <1>13, <1>14, <1>15, <1>16, <1>17, <1>18
        DEF PrivacyStep, Restores

-------------------------------------------------------------------------------
(* Each id is that of one entity for good, whoever holds it.               *)
SeenInv ==
    /\ \A x, e : Sees(x, e) => x \in 1 .. minted
    /\ \A x, d, e : Sees(x, d) /\ Sees(x, e) => d = e

Step(t) == (CategoryStep(t) \/ ImportStep(t) \/ PrivacyStep(t)) /\ UNCHANGED now

LEMMA StepIs == ASSUME Types, NEW t \in Threads, Step(t)
                PROVE  /\ Writes(t) /\ Proceeds(t)
                       /\ \A u \in Threads \ {t} : call'[u] = call[u]
BY OnlyItsCall, CategoryWrites, ImportWrites, PrivacyWrites, CategoryProceeds, ImportProceeds, PrivacyProceeds
   DEF Step

LEMMA RowsStayKnown ==
    ASSUME Types, NEW t \in Threads, Writes(t)
    PROVE  rows' \in Tables /\ minted' \in {minted, Fresh} /\ DOMAIN rows' \subseteq 1 .. minted'
<1>1. rows \in Tables /\ minted \in Nat /\ DOMAIN rows \subseteq 1 .. minted /\ 1 .. minted \subseteq 1 .. Fresh
    BY DEF Types, Fresh
<1>2. ASSUME NEW row, Added(row) PROVE rows' \in Tables /\ minted' = Fresh /\ DOMAIN rows' \subseteq 1 .. Fresh
    BY <1>1, <1>2 DEF Added, Fresh
<1>3. ASSUME NEW x, Deleted(x) \/ Rewritten(x)
      PROVE  rows' \in Tables /\ minted' = minted /\ DOMAIN rows' \subseteq 1 .. minted
    BY <1>1, <1>3 DEF Deleted, Rewritten
<1>4. ASSUME At(t, "erase", "add_back"), NEW x, Restored(t, x)
      PROVE  rows' \in Tables /\ minted' = minted /\ DOMAIN rows' \subseteq 1 .. minted
    BY <1>1, <1>4 DEF Restored, At, Types, CopyOf
<1> QED BY <1>1, <1>2, <1>3, <1>4 DEF Writes, Moved, Rectified, Renamed

LEMMA StepTypes == ASSUME Types, NEW t \in Threads, Step(t) PROVE Types'
<1>1. /\ CallFine(call'[t], minted) /\ \A u \in Threads \ {t} : call'[u] = call[u]
      /\ rows' \in Tables /\ minted' \in {minted, Fresh} /\ DOMAIN rows' \subseteq 1 .. minted'
    BY StepIs, RowsStayKnown DEF Proceeds
<1>2. minted \in Nat /\ minted' \in Nat /\ 1 .. minted \subseteq 1 .. minted' /\ now' \in Nat
    BY <1>1 DEF Types, Fresh, Step
<1>3. \A u \in Threads : CallFine(call'[u], minted)
    BY <1>1 DEF Types, CallFine
<1>4. \A u \in Threads : CallFine(call'[u], minted')
    BY <1>2, <1>3 DEF CallFine, CopyOf
<1>5. call' \in [Threads -> AllCalls]
  <2>1. (\E c : call' = [call EXCEPT ![t] = c]) \/ UNCHANGED call
      BY OnlyItsCall DEF Step
  <2>2. \A u \in Threads : call'[u] \in AllCalls
      BY <1>4 DEF CallFine
  <2> QED BY <2>1, <2>2 DEF Types
<1> QED BY <1>1, <1>2, <1>4, <1>5 DEF CallFine, Types

LEMMA InitTypes == ASSUME Init PROVE Types /\ SeenInv
<1>1. PICK n \in Nat : n = Len(Defaults)
    BY RecordsAssumption
<1>2. PICK p \in People \cup {None} :
          rows = Insert(Insert(Provisioned, n + 1, Contact(p, ImportCategory)), n + 2, ContactEvent(n + 1, now))
    BY <1>1 DEF Init
<1>3. Provisioned \in Tables /\ DOMAIN Provisioned = 1 .. n
  <2>1. Defaults \in Seq(Names) /\ DOMAIN Defaults = 1 .. n
      BY <1>1, RecordsAssumption
  <2>2. \A i \in 1 .. n : Defaults[i] \in Names
      BY <2>1
  <2>3. Provisioned = [i \in 1 .. n |-> Category(Defaults[i])]
      BY <2>1 DEF Provisioned
  <2>4. Provisioned \in [1 .. n -> Row]
      BY <2>2, <2>3, RowsOf
  <2> QED BY <2>3, <2>4, TablesAre
<1>4. PICK a \in Row : a = Contact(p, ImportCategory)
    BY RowsOf, RecordsAssumption
<1>5. PICK b \in Row : b = ContactEvent(n + 1, now)
  <2>1. PICK m \in Nat : m = n + 1
      OBVIOUS
  <2>2. now \in Nat
      BY DEF Init
  <2>3. ContactEvent(m, now) \in Row
      BY <2>2, RowsOf
  <2> QED BY <2>1, <2>3
<1>6. PICK one \in Tables : one = Insert(Provisioned, n + 1, a) /\ DOMAIN one = 1 .. n + 1
  <2>1. PICK m \in Nat : m = n + 1
      OBVIOUS
  <2>2. PICK new : new = Insert(Provisioned, m, a)
      OBVIOUS
  <2>3. new \in Tables /\ DOMAIN new = DOMAIN Provisioned \cup {m}
      BY <1>3, <2>2, InsertedTable
  <2>4. DOMAIN new = 1 .. m
      BY <1>3, <2>1, <2>3
  <2> QED BY <2>1, <2>2, <2>3, <2>4
<1>7. PICK two \in Tables : two = Insert(one, n + 2, b) /\ DOMAIN two = 1 .. n + 2
  <2>1. PICK m \in Nat : m = n + 2
      OBVIOUS
  <2>2. PICK new : new = Insert(one, m, b)
      OBVIOUS
  <2>3. new \in Tables /\ DOMAIN new = DOMAIN one \cup {m}
      BY <1>6, <2>2, InsertedTable
  <2>4. DOMAIN new = 1 .. m
      BY <1>6, <2>1, <2>3
  <2> QED BY <2>1, <2>2, <2>3, <2>4
<1>8. rows = two
    BY <1>2, <1>4, <1>5, <1>6, <1>7
<1>9. /\ now \in Nat /\ minted = n + 2 /\ call \in [Threads -> AllCalls]
      /\ \A t \in Threads : call[t].op = "none"
    BY <1>1 DEF Init, NoCall, AllCalls
<1>10. Types
    BY <1>7, <1>8, <1>9 DEF Types
<1>11. \A x, e : Sees(x, e) => x \in List(e)
    BY <1>9 DEF Sees, CallSees
<1> QED BY <1>7, <1>8, <1>9, <1>10, <1>11 DEF SeenInv, List

LEMMA SeesNext ==
    ASSUME Types, NEW t \in Threads, Step(t), NEW x, NEW e, Sees(x, e)'
    PROVE  Sees(x, e) \/ (x = Fresh /\ minted' = Fresh /\ x \in DOMAIN rows' /\ e = rows'[x].entity)
<1>1. Writes(t) /\ Proceeds(t) /\ \A u \in Threads \ {t} : call'[u] = call[u]
    BY StepIs
<1>2. CASE \E u \in Threads : CallSees(call'[u], x, e)
    BY <1>1, <1>2 DEF Proceeds, Sees
<1>3. CASE x \in DOMAIN rows' /\ rows'[x].entity = e
  <2>1. CASE x \in DOMAIN rows /\ rows[x].entity = e
      BY <2>1 DEF Sees, List
  <2>2. CASE \E row : Added(row)
      BY <1>3, <2>2, ItsRows DEF Added
  <2>3. CASE \E y : Deleted(y)
      BY <1>3, <2>3, ItsRows DEF Deleted
  <2>4. CASE \E y : Rewritten(y)
      BY <1>3, <2>4, ItsRows DEF Rewritten
  <2>5. CASE At(t, "erase", "add_back") /\ \E y : Restored(t, y)
    <3>0. PICK y : Restored(t, y)
        BY <2>5
    <3>1. CASE x \in DOMAIN rows /\ x # y
        BY <1>3, <3>0, <3>1, ItsRows DEF Restored
    <3>2. CASE x = y
      <4>1. x \in DOMAIN call[t].copy /\ e = call[t].copy[x].entity
          BY <1>3, <3>0, <3>2 DEF Restored
      <4>2. CallSees(call[t], x, e)
          BY <2>5, <4>1 DEF CallSees, At
      <4> QED BY <4>2 DEF Sees
    <3> QED BY <1>3, <3>0, <3>1, <3>2 DEF Restored
  <2>6. CASE rows' = rows
      BY <1>3, <2>6, ItsRows
  <2> QED BY <1>1, <2>2, <2>3, <2>4, <2>5, <2>6 DEF Writes, Moved, Rectified, Renamed
<1> QED BY <1>2, <1>3 DEF Sees, List

LEMMA StepSeen == ASSUME Types, SeenInv, NEW t \in Threads, Step(t) PROVE SeenInv'
<1>1. minted \in Nat /\ minted' \in {minted, Fresh} /\ 1 .. minted \subseteq 1 .. minted' /\ Fresh \notin 1 .. minted
    BY StepIs, RowsStayKnown DEF Types, Fresh
<1>2. ASSUME NEW x, NEW e, Sees(x, e)' PROVE x \in 1 .. minted'
    BY <1>1, <1>2, SeesNext DEF SeenInv, Fresh
<1>3. ASSUME NEW x, NEW d, NEW e, Sees(x, d)', Sees(x, e)' PROVE d = e
    BY <1>1, <1>3, SeesNext DEF SeenInv
<1> QED BY <1>2, <1>3 DEF SeenInv

(* The invariant every other one rests on.                                 *)
Basics == Types /\ SeenInv /\ MetInv
Stays == UNCHANGED <<minted, call, rows, misdirected, tokensLive>>

LEMMA EveryStep ==
    ASSUME [Next]_vars
    PROVE  \/ Stays /\ (outcome' = NoOutcome \/ outcome' = outcome) /\ (now' = now \/ now' = now + 1)
           \/ \E t \in Threads :
                /\ Step(t)
                /\ \/ CategoryStep(t) /\ Quietly /\ UNCHANGED tokensLive
                   \/ ImportStep(t) /\ Quietly /\ UNCHANGED <<misdirected, tokensLive>>
                   \/ PrivacyStep(t) /\ UNCHANGED misdirected
BY Steps DEF Step, Stays

LEMMA BasicsHold ==
    /\ Init => Basics
    /\ Basics /\ [Next]_vars => Basics'
<1>1. Init => MetInv
    BY DEF Init, MetInv
<1>2. ASSUME Basics, [Next]_vars PROVE Types' /\ SeenInv'
  <2>1. CASE Stays /\ (now' = now \/ now' = now + 1)
    <3>1. Types'
        BY <1>2, <2>1 DEF Basics, Types, Stays
    <3>2. SeenInv'
        BY <1>2, <2>1 DEF Basics, SeenInv, Sees, List, Stays
    <3> QED BY <3>1, <3>2
  <2> QED BY <1>2, <2>1, EveryStep, StepTypes, StepSeen DEF Basics
<1> QED BY <1>1, <1>2, InitTypes, MetKept DEF Basics

-------------------------------------------------------------------------------
(* Which step leaves a thread in which call.                               *)
LEMMA CategoryOps ==
    ASSUME Types, NEW t \in Threads, CategoryStep(t)
    PROVE  \/ call'[t] = NoCall
           \/ \E name \in Names : StartCreateCategory(t, name) /\ call'[t].op = "create_category"
           \/ /\ call'[t].op = "delete_category"
              /\ \/ ListContacts(t) \/ FindTarget(t) \/ Reassign(t)
                 \/ \E g \in List("category") : \E to \in List("category") \cup {None} :
                        StartDeleteCategory(t, g, to)
           \/ call'[t].op \in {"create_contact", "update_contact"} /\ FindCategory(t)
           \/ /\ call'[t].op = "create_contact" /\ call[t] = NoCall
              /\ \E g \in List("category") : StartCreateContact(t, g)
           \/ /\ call'[t].op = "update_contact" /\ call[t] = NoCall
              /\ \E g \in List("category"), c \in List("contact") : StartMoveContact(t, c, g)
<1>1. CASE AddCategory(t) \/ DeleteCategory(t) \/ WriteContact(t)
    BY <1>1, Goes DEF AddCategory, DeleteCategory, WriteContact
<1>2. CASE ListContacts(t)
    BY <1>2, ListContactsDoes DEF StillDeletes, DeleteCategoryCalls
<1>3. CASE FindTarget(t)
    BY <1>3, FindTargetDoes DEF StillDeletes, DeleteCategoryCalls
<1>4. CASE Reassign(t)
    BY <1>4, ReassignDoes DEF StillDeletes, DeleteCategoryCalls
<1>5. CASE FindCategory(t)
    BY <1>5, FindCategoryDoes DEF ContactCalls
<1>6. ASSUME NEW name \in Names, StartCreateCategory(t, name)
      PROVE  call'[t] = NoCall \/ call'[t].op = "create_category"
    BY <1>6, Goes DEF StartCreateCategory
<1>7. ASSUME NEW name, NEW g, Rename(t, g, name) PROVE call'[t] = NoCall
    BY <1>7, Goes DEF Rename
<1>8. ASSUME NEW g \in List("category"), StartCreateContact(t, g)
      PROVE  call'[t] = NoCall \/ (call'[t].op = "create_contact" /\ call[t] = NoCall)
    BY <1>8, Goes DEF StartCreateContact
<1>9. ASSUME NEW g \in List("category"), NEW to \in List("category") \cup {None}, StartDeleteCategory(t, g, to)
      PROVE  call'[t].op = "delete_category"
    BY <1>9, Goes DEF StartDeleteCategory
<1>10. ASSUME NEW g \in List("category"), NEW c \in List("contact"), StartMoveContact(t, c, g)
       PROVE  call'[t].op = "update_contact" /\ call[t] = NoCall
    BY <1>10, Goes DEF StartMoveContact
<1> QED BY <1>1, <1>2, <1>3, <1>4, <1>5, <1>6, <1>7, <1>8, <1>9, <1>10 DEF CategoryStep

LEMMA ImportOps ==
    ASSUME Types, NEW t \in Threads, ImportStep(t)
    PROVE  \/ call'[t] = NoCall
           \/ call'[t].op = "import" /\ (StartImport(t) \/ \E p \in People : ImportPerson(t, p))
<1>1. CASE StartImport(t)
    BY <1>1, StartImportDoes
<1>2. CASE RejectPerson(t) \/ EndImport(t)
    BY <1>2, Goes DEF RejectPerson, EndImport
<1>3. ASSUME NEW p \in People, ImportPerson(t, p) PROVE call'[t] = NoCall \/ call'[t].op = "import"
    BY <1>3, ImportPersonDoes DEF ImportCalls
<1> QED BY <1>1, <1>2, <1>3 DEF ImportStep

LEMMA PrivacyOps ==
    ASSUME Types, NEW t \in Threads, PrivacyStep(t)
    PROVE  \/ call'[t] = NoCall
           \/ call'[t].op = "rectify"
           \/ /\ call'[t].op = "log_event"
              /\ AuditEvent(t) \/ \E c \in List("contact") : StartLogEvent(t, c)
           \/ /\ call'[t].op = "erase_contact"
              /\ \/ ListDependents(t) \/ EraseContact(t)
                 \/ \E c \in List("contact") : StartEraseContact(t, c)
           \/ call'[t].op = "retention" /\ (StartRetention(t) \/ \E x \in Ids : DeleteAged(t, x))
           \/ /\ call'[t].op \in {"export", "erase"}
              /\ \/ ListEntity(t) \/ RevokeTokens(t) \/ FinishErasure(t)
                 \/ \E op \in {"export", "erase"} : StartListing(t, op)
                 \/ \E x : DeleteListed(t, x) \/ Restores(t, x)
<1>1. CASE AddEvent(t) \/ AuditRectification(t) \/ FinishExport(t) \/ AbortErasure(t) \/ FinishRetention(t)
    BY <1>1, Goes DEF AddEvent, AuditRectification, FinishExport, AbortErasure, FinishRetention, Ends
<1>2. CASE ListDependents(t)
    BY <1>2, ListDependentsDoes DEF EraseContactCalls
<1>3. CASE EraseContact(t)
    BY <1>3, EraseContactDoes DEF EraseContactCalls
<1>4. CASE StartRetention(t)
    BY <1>4, StartRetentionDoes DEF RetentionCalls
<1>5. ASSUME NEW x, DeleteAged(t, x) PROVE call'[t].op = "retention"
    BY <1>5, DeleteAgedDoes DEF RetentionCalls
<1>6. ASSUME NEW op \in {"export", "erase"}, StartListing(t, op) PROVE call'[t].op \in {"export", "erase"}
    BY <1>6, StartListingDoes
<1>7. CASE ListEntity(t)
    BY <1>7, ListEntityDoes DEF StillLists, ListingCalls
<1>8. CASE RevokeTokens(t)
    BY <1>8, RevokeTokensDoes DEF Goes4, StillLists
<1>9. CASE FinishErasure(t)
    BY <1>9, FinishErasureDoes DEF Goes4, StillLists
<1>10. ASSUME NEW x, DeleteListed(t, x) \/ Restores(t, x) PROVE call'[t].op = "erase"
    BY <1>10, WorksOff, RestoresDoes DEF Goes4, StillLists
<1>11. ASSUME NEW c \in List("contact"), StartLogEvent(t, c) PROVE call'[t].op = "log_event"
    BY <1>11, Goes DEF StartLogEvent
<1>12. ASSUME NEW c \in List("contact"), Rectify(t, c) PROVE call'[t].op = "rectify"
    BY <1>12, RectifyDoes
<1>13. ASSUME NEW c \in List("contact"), StartEraseContact(t, c) PROVE call'[t].op = "erase_contact"
    BY <1>13, Goes DEF StartEraseContact
<1>14. CASE AuditEvent(t)
    BY <1>14, AuditEventDoes DEF LogCalls
<1> QED BY <1>1, <1>2, <1>3, <1>4, <1>5, <1>6, <1>7, <1>8, <1>9, <1>10, <1>11, <1>12, <1>13, <1>14
        DEF PrivacyStep, Restores

(* A listing goes on by one of these steps.                                *)
LEMMA ListingSteps ==
    ASSUME Types, NEW t \in Threads, Step(t), call'[t].op \in {"export", "erase"}
    PROVE  \/ ListEntity(t) \/ RevokeTokens(t) \/ FinishErasure(t)
           \/ \E op \in {"export", "erase"} : StartListing(t, op)
           \/ \E x : DeleteListed(t, x) \/ Restores(t, x)
<1>1. call'[t] # NoCall
    BY DEF NoCall
<1>2. CASE CategoryStep(t)
    BY <1>1, <1>2, CategoryOps
<1>3. CASE ImportStep(t)
    BY <1>1, <1>3, ImportOps
<1>4. CASE PrivacyStep(t)
    BY <1>1, <1>4, PrivacyOps
<1> QED BY <1>2, <1>3, <1>4 DEF Step

LEMMA RetentionSteps ==
    ASSUME Types, NEW t \in Threads, Step(t), call'[t].op = "retention"
    PROVE  StartRetention(t) \/ \E x : DeleteAged(t, x)
<1>1. call'[t] # NoCall
    BY DEF NoCall
<1>2. CASE CategoryStep(t)
    BY <1>1, <1>2, CategoryOps
<1>3. CASE ImportStep(t)
    BY <1>1, <1>3, ImportOps
<1>4. CASE PrivacyStep(t)
    BY <1>1, <1>4, PrivacyOps
<1> QED BY <1>2, <1>3, <1>4 DEF Step

(* No row that was there when a call began comes back, but by an erasure   *)
(* that is rolled back.                                                    *)
HoldsBefore(u) == call[u].op \in {"retention", "export", "erase"}

LEMMA BeforeIsKnown ==
    ASSUME Basics, NEW u \in Threads, HoldsBefore(u), NEW x \in DOMAIN call[u].before
    PROVE  /\ Sees(x, call[u].before[x].entity) /\ x \in 1 .. minted /\ x # Fresh
           /\ x \in DOMAIN rows => rows[x].entity = call[u].before[x].entity
<1>1. CallSees(call[u], x, call[u].before[x].entity)
    BY DEF CallSees, HoldsBefore
<1>2. Sees(x, call[u].before[x].entity)
    BY <1>1 DEF Sees
<1>3. x \in DOMAIN rows => Sees(x, rows[x].entity)
    BY ItsRows
<1> QED BY <1>2, <1>3 DEF Basics, SeenInv, Types, Fresh

LEMMA NothingComesBack ==
    ASSUME Basics, NEW t \in Threads, Step(t), NEW u \in Threads, HoldsBefore(u),
           NEW x \in DOMAIN call[u].before, x \in DOMAIN rows'
    PROVE  x \in DOMAIN rows \/ At(t, "erase", "add_back")
<1>1. x # Fresh /\ Writes(t)
    BY BeforeIsKnown, StepIs DEF Basics
<1>2. (\E row : Added(row)) => x \in DOMAIN rows
    BY <1>1 DEF Added
<1>3. (\E y : Deleted(y)) => x \in DOMAIN rows
    BY DEF Deleted
<1>4. (\E y : Rewritten(y)) => x \in DOMAIN rows
    BY DEF Rewritten
<1> QED BY <1>1, <1>2, <1>3, <1>4 DEF Writes, Moved, Rectified, Renamed

(* What two threads do now or next at the same time has met.               *)
LEMMA MeetsNext ==
    ASSUME Basics, [Next]_vars, NEW t \in Threads, NEW u \in Threads, t # u, NEW these, NEW those,
           "none" \notin these, "none" \notin those,
           \/ call[t].op \in these /\ call[u].op \in those
           \/ call'[t].op \in these /\ call'[u].op \in those
    PROVE  Met(these, those)'
<1>1. CASE call[t].op \in these /\ call[u].op \in those
    BY <1>1, Meets, MetStays DEF Basics
<1>2. CASE call'[t].op \in these /\ call'[u].op \in those
  <2>1. MetInv' /\ call'[t] # NoCall /\ call'[u] # NoCall
      BY <1>2, BasicsHold DEF Basics, NoCall
  <2>2. {call'[t].op, call'[u].op} \in met'
      BY <2>1 DEF MetInv
  <2> QED BY <1>2, <2>2 DEF Met
<1> QED BY <1>1, <1>2

-------------------------------------------------------------------------------
(* How a call ends that leaves an outcome.                                 *)
LEMMA EndsDoes ==
    ASSUME Types, NEW t \in Threads, NEW how, Ends(t, how), HoldsBefore(t)
    PROVE  /\ outcome'.op = call[t].op /\ outcome'.step = how /\ outcome'.before = call[t].before
           /\ call[t].op = "retention" => outcome'.cutoff = call[t].cutoff
           /\ call[t].op # "retention" => outcome'.copy = call[t].copy
<1>1. call[t] \in RetentionCalls \/ (call[t].op # "retention" /\ call[t] \in ListingCalls)
    BY CallIs, CallsAre DEF HoldsBefore
<1>2. CASE call[t] \in RetentionCalls
  <2>1. PICK c \in RetentionCalls : c = call[t]
      BY <1>2
  <2>2. outcome' = [c EXCEPT !.step = how]
      BY <2>1 DEF Ends
  <2> QED BY <2>1, <2>2 DEF RetentionCalls
<1>3. CASE call[t].op # "retention" /\ call[t] \in ListingCalls
  <2>1. PICK c \in ListingCalls : c = call[t]
      BY <1>3
  <2>2. outcome' = [c EXCEPT !.step = how]
      BY <2>1 DEF Ends
  <2> QED BY <1>3, <2>1, <2>2 DEF ListingCalls
<1> QED BY <1>1, <1>2, <1>3

LEMMA Endings ==
    ASSUME Types, [Next]_vars
    PROVE  \/ outcome' = NoOutcome \/ (Stays /\ outcome' = outcome)
           \/ \E t \in Threads :
                /\ rows' = rows /\ tokensLive' = tokensLive
                /\ \/ At(t, "retention", "delete") /\ call[t].todo = {} /\ Ends(t, "done")
                   \/ At(t, "export", "audit") /\ Ends(t, "done")
                   \/ At(t, "erase", "delete") /\ call[t].todo = {} /\ Ends(t, "done")
                   \/ At(t, "erase", "restore") /\ call[t].todo = {} /\ Ends(t, "aborted")
<1> SUFFICES ASSUME NEW t \in Threads, PrivacyStep(t), ~Quietly
             PROVE  /\ rows' = rows /\ tokensLive' = tokensLive
                    /\ \/ At(t, "retention", "delete") /\ call[t].todo = {} /\ Ends(t, "done")
                       \/ At(t, "export", "audit") /\ Ends(t, "done")
                       \/ At(t, "erase", "delete") /\ call[t].todo = {} /\ Ends(t, "done")
                       \/ At(t, "erase", "restore") /\ call[t].todo = {} /\ Ends(t, "aborted")
    BY EveryStep DEF Quietly, Stays
<1>1. FinishRetention(t) \/ FinishExport(t) \/ FinishErasure(t) \/ AbortErasure(t)
    BY DEF PrivacyStep, AuditEvent, AddEvent, AuditRectification, ListDependents, EraseContact, StartListing,
           StartRetention, ListEntity, RevokeTokens, DeleteAged, DeleteListed, LookForListed, AddBack,
           StartLogEvent, Rectify, StartEraseContact
<1> QED BY <1>1 DEF FinishRetention, FinishExport, FinishErasure, AbortErasure

LEMMA TokensStayRevoked == ASSUME [Next]_vars, ~tokensLive PROVE ~tokensLive'
<1>1. ASSUME NEW t \in Threads, PrivacyStep(t) PROVE tokensLive' = tokensLive \/ tokensLive' = FALSE
    BY <1>1
    DEF PrivacyStep, AuditEvent, AddEvent, AuditRectification, ListDependents, EraseContact, StartListing,
        StartRetention, FinishRetention, ListEntity, FinishExport, RevokeTokens, FinishErasure, AbortErasure,
        DeleteAged, DeleteListed, LookForListed, AddBack, StartLogEvent, Rectify, StartEraseContact
<1> QED BY <1>1, EveryStep DEF Stays

-------------------------------------------------------------------------------
(* An export or an erasure has copied every row that was there when it     *)
(* began and still is, but for those of the entities it has not listed.    *)
Listed(c) ==
    \A x \in DOMAIN c.before \cap DOMAIN rows :
        \/ x \in DOMAIN c.copy
        \/ c.step = "list" /\ \E i \in c.next .. 3 : Kind(i) = c.before[x].entity
(* An erasure has still to remove what is left of them.                    *)
Unremoved(c) == DOMAIN c.before \cap DOMAIN rows \subseteq c.todo

ListingFine(c) ==
    /\ c.op \in {"export", "erase"} /\ c.step \in {"list", "audit", "revoke"} =>
           Listed(c) \/ Met({c.op}, {"erase"})
    /\ c.op = "erase" /\ c.step = "revoke" => c.todo = DOMAIN c.copy
    /\ c.op = "erase" /\ c.step = "delete" => ~tokensLive /\ (Unremoved(c) \/ Met({"erase"}, {"erase"}))
ListingInv == \A t \in Threads : ListingFine(call[t])

LEMMA OthersListing ==
    ASSUME Basics, ListingInv, [Next]_vars, NEW t \in Threads, Step(t), NEW u \in Threads \ {t}
    PROVE  ListingFine(call[u])'
<1>1. call'[u] = call[u] /\ ListingFine(call[u])
    BY StepIs DEF Basics, ListingInv
<1>2. CASE call[u].op \in {"export", "erase"} /\ At(t, "erase", "add_back")
  <2>1. PICK op \in {"export", "erase"} : op = call[u].op
      BY <1>2
  <2>2. \A o : o = op => Met({o}, {"erase"})'
      BY <1>2, <2>1, MeetsNext DEF At
  <2>3. op = "erase" => Met({"erase"}, {"erase"})'
      BY <2>2
  <2> QED BY <1>1, <2>1, <2>2, <2>3, TokensStayRevoked DEF ListingFine
<1>3. CASE call[u].op \in {"export", "erase"} /\ ~At(t, "erase", "add_back")
  <2>1. DOMAIN call[u].before \cap DOMAIN rows' \subseteq DOMAIN call[u].before \cap DOMAIN rows
      BY <1>3, NothingComesBack DEF HoldsBefore
  <2>2. Listed(call[u]) => Listed(call[u])'
      BY <1>1, <2>1 DEF Listed
  <2>3. Unremoved(call[u]) => Unremoved(call[u])'
      BY <1>1, <2>1 DEF Unremoved
  <2>4. \A op : Met({op}, {"erase"}) => Met({op}, {"erase"})'
      BY MetGrows DEF Met
  <2>5. Met({"erase"}, {"erase"}) => Met({"erase"}, {"erase"})'
      BY MetStays
  <2> QED BY <1>1, <2>2, <2>3, <2>4, <2>5, TokensStayRevoked DEF ListingFine
<1> QED BY <1>1, <1>2, <1>3 DEF ListingFine

LEMMA StartIsFine ==
    ASSUME Basics, NEW t \in Threads, NEW op \in {"export", "erase"}, StartListing(t, op)
    PROVE  ListingFine(call[t])'
<1>1. /\ call'[t].before = rows /\ call'[t].step = "list" /\ call'[t].next = 1 /\ rows' = rows
    BY StartListingDoes DEF Basics, StartListing
<1>2. ASSUME NEW x \in DOMAIN rows PROVE \E i \in 1 .. 3 : Kind(i) = rows[x].entity
  <2>1. rows[x].entity \in Kinds
      BY RowsAre DEF Basics, Row
  <2>2. 1 \in 1 .. 3 /\ 2 \in 1 .. 3 /\ 3 \in 1 .. 3
      OBVIOUS
  <2> QED BY <2>1, <2>2, KindsAre DEF Kinds
<1>3. Listed(call[t])'
    BY <1>1, <1>2 DEF Listed
<1> QED BY <1>1, <1>3 DEF ListingFine

LEMMA ListingIsFine ==
    ASSUME Basics, ListingInv, [Next]_vars, NEW t \in Threads, ListEntity(t) PROVE ListingFine(call[t])'
<1>1. PICK c \in ListingCalls : c = call[t] /\ c.step = "list" /\ c.next \in 1 .. 3 /\ ListingFine(c)
    BY ListEntityDoes DEF Basics, Lists, ListingInv
<1>2. PICK listed : listed = List(Kind(c.next))
    OBVIOUS
<1>3. PICK d \in ListingCalls : d = call'[t] /\ d.op = c.op /\ d.before = c.before
    BY <1>1, ListEntityDoes DEF Basics, StillLists
<1>4. /\ d.next = c.next + 1 /\ DOMAIN d.copy = DOMAIN c.copy \cup listed /\ d.todo = DOMAIN d.copy
      /\ d.step = IF c.next < 3 THEN "list" ELSE IF c.op = "export" THEN "audit" ELSE "revoke"
    BY <1>1, <1>2, <1>3, ListEntityDoes DEF Basics
<1>5. rows' = rows
    BY DEF ListEntity
<1>6. c.op \in {"export", "erase"}
    BY DEF ListingCalls
<1>7. ASSUME Listed(c) PROVE Listed(call[t])'
  <2> SUFFICES ASSUME NEW x \in DOMAIN c.before \cap DOMAIN rows
               PROVE  \/ x \in DOMAIN d.copy
                      \/ d.step = "list" /\ \E i \in d.next .. 3 : Kind(i) = c.before[x].entity
      BY <1>3, <1>5 DEF Listed
  <2>1. CASE x \in DOMAIN c.copy
      BY <1>4, <2>1
  <2>2. ASSUME NEW i \in c.next .. 3, Kind(i) = c.before[x].entity
        PROVE  \/ x \in DOMAIN d.copy
               \/ d.step = "list" /\ \E j \in d.next .. 3 : Kind(j) = c.before[x].entity
    <3>1. rows[x].entity = c.before[x].entity
        BY <1>1, <1>6, BeforeIsKnown DEF HoldsBefore
    <3>2. CASE i = c.next
        BY <1>2, <1>4, <2>2, <3>1, <3>2, ItsRows
    <3>3. CASE i # c.next
        BY <1>1, <1>4, <2>2, <3>3
    <3> QED BY <3>2, <3>3
  <2> QED BY <1>1, <1>7, <2>1, <2>2 DEF Listed
<1>8. \A op : Met({op}, {"erase"}) => Met({op}, {"erase"})'
    BY MetGrows DEF Met
<1>9. Listed(call[t])' \/ Met({c.op}, {"erase"})'
    BY <1>1, <1>6, <1>7, <1>8 DEF ListingFine
<1> QED BY <1>1, <1>3, <1>4, <1>9 DEF ListingFine

LEMMA WorkingOffIsFine ==
    ASSUME Basics, ListingInv, [Next]_vars, NEW t \in Threads,
           RevokeTokens(t) \/ FinishErasure(t) \/ \E x : DeleteListed(t, x) \/ Restores(t, x)
    PROVE  ListingFine(call[t])'
<1>1. ListingFine(call[t]) /\ (Met({"erase"}, {"erase"}) => Met({"erase"}, {"erase"})')
    BY MetStays DEF ListingInv
<1>2. CASE RevokeTokens(t)
  <2>1. PICK c \in ListingCalls : c = call[t] /\ c.op = "erase" /\ c.step = "revoke"
      BY <1>2, RevokeTokensDoes DEF Basics, Lists
  <2>2. PICK d \in ListingCalls : d = call'[t] /\ d.op = c.op /\ d.before = c.before /\ d.copy = c.copy
      BY <1>2, <2>1, RevokeTokensDoes DEF Basics, Goes4, StillLists
  <2>3. \/ tokensLive' = FALSE /\ d.step = "delete" /\ d.todo = c.todo
        \/ d.step = "restore"
      BY <1>2, <2>1, <2>2, RevokeTokensDoes DEF Basics
  <2>4. rows' = rows
      BY <1>2 DEF RevokeTokens
  <2>5. d.todo = c.todo => (Unremoved(call[t])' \/ Met({"erase"}, {"erase"})')
      BY <1>1, <2>1, <2>2, <2>4 DEF ListingFine, Listed, Unremoved
  <2> QED BY <2>1, <2>2, <2>3, <2>5 DEF ListingFine
<1>3. CASE FinishErasure(t)
  <2>1. call'[t] = NoCall \/ call'[t].step = "restore"
      BY <1>3, FinishErasureDoes DEF Basics
  <2> QED BY <2>1 DEF ListingFine, NoCall
<1>4. ASSUME NEW x, DeleteListed(t, x) PROVE ListingFine(call[t])'
  <2>1. PICK c \in ListingCalls : c = call[t] /\ c.op = "erase" /\ c.step = "delete"
      BY <1>4, WorksOff, DeleteListedDoes DEF Basics, Lists
  <2>2. PICK d \in ListingCalls : d = call'[t] /\ d.op = c.op /\ d.before = c.before /\ d.step = "delete"
                                  /\ d.todo = c.todo \ {x}
      BY <1>4, <2>1, WorksOff DEF Basics, Goes4, StillLists
  <2>3. DOMAIN rows' = DOMAIN rows \ {x}
      BY <1>4, DeleteListedDoes, DeleteRowDoes DEF Basics
  <2>4. Unremoved(c) => Unremoved(call[t])'
      BY <2>2, <2>3 DEF Unremoved
  <2> QED BY <1>1, <2>1, <2>2, <2>4, TokensStayRevoked DEF ListingFine
<1>5. ASSUME NEW x, Restores(t, x) PROVE ListingFine(call[t])'
  <2>1. call'[t].step \in Restoring
      BY <1>5, RestoresDoes DEF Basics
  <2> QED BY <2>1 DEF ListingFine, Restoring
<1> QED BY <1>2, <1>3, <1>4, <1>5

LEMMA ListingKept ==
    /\ Init => ListingInv
    /\ Basics /\ ListingInv /\ [Next]_vars => ListingInv'
<1>1. Init => ListingInv
    BY DEF Init, ListingInv, ListingFine, NoCall
<1>2. ASSUME Basics, ListingInv, [Next]_vars PROVE ListingInv'
  <2>1. CASE Stays
      <3> SUFFICES ASSUME NEW t \in Threads PROVE ListingFine(call[t])'
          BY DEF ListingInv
      <3>1. call'[t] = call[t] /\ rows' = rows /\ tokensLive' = tokensLive /\ ListingFine(call[t])
          BY <1>2, <2>1 DEF ListingInv, Stays
      <3>2. \A op : Met({op}, {"erase"}) => Met({op}, {"erase"})'
          BY <1>2, MetGrows DEF Met
      <3> QED BY <3>1, <3>2 DEF ListingFine, Listed, Unremoved
  <2>2. ASSUME NEW t \in Threads, Step(t) PROVE ListingInv'
    <3>1. ListingFine(call[t])'
      <4>1. CASE call'[t].op \in {"export", "erase"}
          BY <1>2, <2>2, <4>1, ListingSteps, StartIsFine, ListingIsFine, WorkingOffIsFine DEF Basics
      <4>2. CASE call'[t].op \notin {"export", "erase"}
          BY <4>2 DEF ListingFine
      <4> QED BY <4>1, <4>2
    <3> QED BY <1>2, <2>2, <3>1, OthersListing DEF ListingInv
  <2> QED BY <1>2, <2>1, <2>2, EveryStep
<1> QED BY <1>1, <1>2

-------------------------------------------------------------------------------
(* Which rows go, and by which calls.                                      *)
LEMMA WhatGoes ==
    ASSUME Basics, NEW t \in Threads, Step(t), NEW x \in DOMAIN rows, x \notin DOMAIN rows'
    PROVE  \/ At(t, "delete_category", "delete") /\ x = call[t].g /\ Sees(x, "category")
           \/ /\ At(t, "erase_contact", "delete") /\ call[t].todo = {}
              /\ x = call[t].c /\ Sees(x, "contact")
           \/ At(t, "erase_contact", "delete") /\ x \in call[t].todo /\ Sees(x, "contact_event")
           \/ At(t, "retention", "delete") /\ x \in call[t].todo /\ Sees(x, "contact_event")
           \/ At(t, "erase", "delete") /\ x \in call[t].todo
<1>1. Writes(t)
    BY StepIs DEF Basics
<1>2. ~(\E row : Added(row)) /\ ~(\E y : Rewritten(y)) /\ ~(\E y : Restored(t, y)) /\ rows' # rows
    BY DEF Added, Rewritten, Restored
<1>3. \A y : Deleted(y) => x = y
    BY DEF Deleted
<1>4. \A e : CallSees(call[t], x, e) => Sees(x, e)
    BY DEF Sees
<1> QED BY <1>1, <1>2, <1>3, <1>4 DEF Writes, Moved, Rectified, Renamed, At, CallSees

(* Which calls change rows that were there, but for the names of           *)
(* categories.                                                             *)
Changers == {"delete_category", "erase_contact", "update_contact", "rectify", "retention", "erase"}
Changes(t) == call[t].op \in Changers \/ call'[t].op = "rectify"

LEMMA OthersChangeNothing ==
    ASSUME Types, NEW t \in Threads, Step(t), ~Changes(t)
    PROVE  \/ rows' = rows \/ \E row : Added(row)
           \/ \E g \in List("category") : Renamed(g)
BY StepIs DEF Writes, Changes, Changers, At

LEMMA UnlessChanged ==
    ASSUME Basics, NEW t \in Threads, Step(t), ~Changes(t), NEW x, x # Fresh
    PROVE  /\ x \in DOMAIN rows' <=> x \in DOMAIN rows
           /\ x \in DOMAIN rows => \/ rows'[x] = rows[x]
                                   \/ rows[x].entity = "category" /\ rows'[x].entity = "category"
<1>1. CASE \E row : Added(row)
    BY <1>1 DEF Added
<1>2. CASE \E g \in List("category") : Renamed(g)
    BY <1>2, RowsAre DEF Renamed, Rewritten, Basics
<1> QED BY <1>1, <1>2, OthersChangeNothing DEF Basics

-------------------------------------------------------------------------------
(* A retention run has still to remove events that were too old when it    *)
(* began, and none else.                                                   *)
Old(c) == {x \in DOMAIN c.before : c.before[x].entity = "contact_event" /\ c.before[x].at < c.cutoff}
Recent(c) == {x \in DOMAIN c.before : c.before[x].entity = "contact_event" /\ ~(c.before[x].at < c.cutoff)}

RetentionFine(c) ==
    c.op = "retention" =>
        /\ c.todo \subseteq Old(c)
        /\ Old(c) \cap DOMAIN rows \subseteq c.todo \/ Met({"retention"}, {"erase"})
        /\ Recent(c) \subseteq DOMAIN rows \/ Met({"retention"}, {"erase", "erase_contact", "retention"})
RetentionInv == \A t \in Threads : RetentionFine(call[t])

LEMMA OthersRetention ==
    ASSUME Basics, RetentionInv, [Next]_vars, NEW t \in Threads, Step(t), NEW u \in Threads \ {t},
           call[u].op = "retention"
    PROVE  RetentionFine(call[u])'
<1>1. call'[u] = call[u] /\ RetentionFine(call[u]) /\ HoldsBefore(u)
    BY StepIs DEF Basics, RetentionInv, HoldsBefore
<1>2. PICK c : c = call[u] /\ c = call'[u]
    BY <1>1
<1>3. (Old(c) \cap DOMAIN rows)' \subseteq c.todo \/ Met({"retention"}, {"erase"})'
  <2>1. CASE At(t, "erase", "add_back") \/ Met({"retention"}, {"erase"})
      BY <2>1, MeetsNext, MetStays DEF At
  <2>2. CASE ~At(t, "erase", "add_back") /\ ~Met({"retention"}, {"erase"})
    <3>1. Old(c) \cap DOMAIN rows' \subseteq Old(c) \cap DOMAIN rows
        BY <1>1, <1>2, <2>2, NothingComesBack DEF Old
    <3> QED BY <1>1, <1>2, <2>2, <3>1 DEF RetentionFine
  <2> QED BY <2>1, <2>2
<1>4. (Recent(c) \subseteq DOMAIN rows)' \/ Met({"retention"}, {"erase", "erase_contact", "retention"})'
  <2>1. CASE Met({"retention"}, {"erase", "erase_contact", "retention"})
      BY <2>1, MetStays
  <2>2. CASE call[t].op \in {"erase", "erase_contact", "retention"}
      BY <2>2, MeetsNext
  <2>3. CASE /\ ~Met({"retention"}, {"erase", "erase_contact", "retention"})
             /\ call[t].op \notin {"erase", "erase_contact", "retention"}
    <3> SUFFICES ASSUME NEW x \in Recent(c) PROVE x \in DOMAIN rows'
        OBVIOUS
    <3>1. x \in DOMAIN rows /\ x \in DOMAIN call[u].before /\ call[u].before[x].entity = "contact_event"
        BY <1>1, <1>2, <2>3 DEF RetentionFine, Recent
    <3>2. Sees(x, "contact_event")
        BY <1>1, <3>1, BeforeIsKnown
    <3>3. ~Sees(x, "category")
        BY <3>2 DEF Basics, SeenInv
    <3> QED BY <2>3, <3>1, <3>3, WhatGoes DEF At
  <2> QED BY <2>1, <2>2, <2>3
<1> QED BY <1>1, <1>2, <1>3, <1>4 DEF RetentionFine

LEMMA OwnRetention ==
    ASSUME Basics, RetentionInv, [Next]_vars, NEW t \in Threads, StartRetention(t) \/ \E x : DeleteAged(t, x)
    PROVE  RetentionFine(call[t])'
<1>1. CASE StartRetention(t)
  <2>1. PICK d \in RetentionCalls : d = call'[t] /\ d.before = rows /\ d.todo = Aged(d.cutoff)
      BY <1>1, StartRetentionDoes DEF Basics
  <2>2. rows' = rows
      BY <1>1 DEF StartRetention
  <2>3. d.todo = Old(d) /\ Recent(d) \subseteq DOMAIN rows
      BY <2>1 DEF Aged, List, Old, Recent
  <2> QED BY <2>1, <2>2, <2>3 DEF RetentionFine
<1>2. ASSUME NEW x, DeleteAged(t, x) PROVE RetentionFine(call[t])'
  <2>1. PICK c \in RetentionCalls : c = call[t] /\ x \in c.todo /\ RetentionFine(c)
      BY <1>2, DeleteAgedDoes DEF Basics, RetentionInv
  <2>2. PICK d \in RetentionCalls : /\ d = call'[t] /\ d.todo = c.todo \ {x} /\ d.cutoff = c.cutoff
                                    /\ d.before = c.before
      BY <1>2, <2>1, DeleteAgedDoes DEF Basics
  <2>3. DOMAIN rows' = DOMAIN rows \ {x}
      BY <1>2, DeleteAgedDoes, DeleteRowDoes DEF Basics
  <2>4. Old(d) = Old(c) /\ Recent(d) = Recent(c) /\ x \notin Recent(c) /\ c.op = "retention"
      BY <2>1, <2>2 DEF Old, Recent, RetentionFine, RetentionCalls
  <2>5. Met({"retention"}, {"erase"}) => Met({"retention"}, {"erase"})'
      BY MetStays
  <2>6. Met({"retention"}, {"erase", "erase_contact", "retention"})
        => Met({"retention"}, {"erase", "erase_contact", "retention"})'
      BY MetStays
  <2> QED BY <2>1, <2>2, <2>3, <2>4, <2>5, <2>6 DEF RetentionFine
<1> QED BY <1>1, <1>2

LEMMA RetentionKept ==
    /\ Init => RetentionInv
    /\ Basics /\ RetentionInv /\ [Next]_vars => RetentionInv'
<1>1. Init => RetentionInv
    BY DEF Init, RetentionInv, RetentionFine, NoCall
<1>2. ASSUME Basics, RetentionInv, [Next]_vars PROVE RetentionInv'
  <2>1. CASE Stays
      <3> SUFFICES ASSUME NEW t \in Threads PROVE RetentionFine(call[t])'
          BY DEF RetentionInv
      <3>1. call'[t] = call[t] /\ rows' = rows /\ RetentionFine(call[t])
          BY <1>2, <2>1 DEF RetentionInv, Stays
      <3>2. \A these, those : Met(these, those) => Met(these, those)'
          BY <1>2, MetGrows DEF Met
      <3> QED BY <3>1, <3>2 DEF RetentionFine
  <2>2. ASSUME NEW t \in Threads, Step(t), NEW u \in Threads PROVE RetentionFine(call[u])'
    <3>1. CASE call'[u].op # "retention"
        BY <3>1 DEF RetentionFine
    <3>2. CASE u = t /\ call'[u].op = "retention"
        BY <1>2, <2>2, <3>2, RetentionSteps, OwnRetention DEF Basics
    <3>3. CASE u # t /\ call'[u].op = "retention"
      <4>1. call[u].op = "retention"
          BY <1>2, <2>2, <3>3, StepIs DEF Basics
      <4> QED BY <1>2, <2>2, <3>3, <4>1, OthersRetention
    <3> QED BY <3>1, <3>2, <3>3
  <2> QED BY <1>2, <2>1, <2>2, EveryStep DEF RetentionInv
<1> QED BY <1>1, <1>2

-------------------------------------------------------------------------------
(* An erasure that fails leaves the rows as they were when it began, for   *)
(* those it removes are in its copy.                                       *)
Same(row, was) == row.entity = was.entity /\ (was.entity = "category" \/ row = was)
AsItWas(c, x) ==
    /\ x \in DOMAIN rows => Same(rows[x], c.before[x])
    /\ x \in DOMAIN c.copy => Same(c.copy[x], c.before[x])
    /\ x \in DOMAIN c.copy \/ (c.step = "list" /\ \E i \in c.next .. 3 : Kind(i) = c.before[x].entity)
    /\ c.step \in {"list", "revoke"} => x \in DOMAIN rows
    /\ c.step \in Restoring => x \in DOMAIN rows \/ x \in c.todo
ErasureFine(c) ==
    c.op = "erase" => (\A x \in DOMAIN c.before : AsItWas(c, x)) \/ Met({"erase"}, Changers)
ErasureInv == \A t \in Threads : ErasureFine(call[t])

LEMMA OthersErasure ==
    ASSUME Basics, ErasureInv, [Next]_vars, NEW t \in Threads, Step(t), NEW u \in Threads \ {t},
           call[u].op = "erase"
    PROVE  ErasureFine(call[u])'
<1>1. call'[u] = call[u] /\ ErasureFine(call[u]) /\ HoldsBefore(u)
    BY StepIs DEF Basics, ErasureInv, HoldsBefore
<1>2. PICK c : c = call[u] /\ c = call'[u]
    BY <1>1
<1>3. "none" \notin Changers
    BY DEF Changers
<1>4. CASE Met({"erase"}, Changers)
  <2>1. Met({"erase"}, Changers)'
      BY <1>4, MetGrows DEF Met, Changers
  <2> QED BY <2>1 DEF ErasureFine
<1>5. CASE Changes(t)
  <2>1. call'[u].op = "erase" /\ "rectify" \in Changers
      BY <1>1 DEF Changers
  <2>2. \A those : those = Changers => Met({"erase"}, those)'
      BY <1>3, <1>5, <2>1, MeetsNext DEF Changes
  <2>3. Met({"erase"}, Changers)'
      BY <2>2 DEF Changers
  <2> QED BY <2>3 DEF ErasureFine
<1>6. CASE ~Changes(t) /\ ~Met({"erase"}, Changers)
  <2> SUFFICES ASSUME NEW x \in DOMAIN c.before PROVE AsItWas(c, x)'
      BY <1>2 DEF ErasureFine
  <2>1. AsItWas(c, x)
      BY <1>1, <1>2, <1>6 DEF ErasureFine
  <2>2. x # Fresh
      BY <1>1, <1>2, BeforeIsKnown
  <2>3. /\ x \in DOMAIN rows' <=> x \in DOMAIN rows
        /\ x \in DOMAIN rows => \/ rows'[x] = rows[x]
                                \/ rows[x].entity = "category" /\ rows'[x].entity = "category"
      BY <1>6, <2>2, UnlessChanged
  <2> QED BY <2>1, <2>3 DEF AsItWas, Same
<1> QED BY <1>4, <1>5, <1>6

LEMMA StartErasure ==
    ASSUME Basics, NEW t \in Threads, NEW op \in {"export", "erase"}, StartListing(t, op)
    PROVE  ErasureFine(call[t])'
<1>1. PICK d \in ListingCalls : /\ d = call'[t] /\ d.step = "list" /\ d.next = 1 /\ d.before = rows
                                /\ DOMAIN d.copy = {}
    BY StartListingDoes DEF Basics
<1>2. rows' = rows
    BY DEF StartListing
<1>3. ASSUME NEW x \in DOMAIN rows PROVE \E i \in 1 .. 3 : Kind(i) = rows[x].entity
  <2>1. rows[x].entity \in Kinds
      BY RowsAre DEF Basics, Row
  <2>2. 1 \in 1 .. 3 /\ 2 \in 1 .. 3 /\ 3 \in 1 .. 3
      OBVIOUS
  <2> QED BY <2>1, <2>2, KindsAre DEF Kinds
<1>4. ASSUME NEW x \in DOMAIN rows PROVE AsItWas(d, x)'
    BY <1>1, <1>2, <1>3 DEF AsItWas, Same
<1> QED BY <1>1, <1>4 DEF ErasureFine

LEMMA ListErasure ==
    ASSUME Basics, ErasureInv, [Next]_vars, NEW t \in Threads, ListEntity(t), call[t].op = "erase"
    PROVE  ErasureFine(call[t])'
<1>1. PICK c \in ListingCalls : /\ c = call[t] /\ c.step = "list" /\ c.next \in 1 .. 3 /\ ErasureFine(c)
                                /\ c.op = "erase"
    BY ListEntityDoes DEF Basics, Lists, ErasureInv
<1>2. PICK listed : listed = List(Kind(c.next))
    OBVIOUS
<1>3. PICK d \in ListingCalls : d = call'[t] /\ d.op = c.op /\ d.before = c.before
    BY <1>1, ListEntityDoes DEF Basics, StillLists
<1>4. /\ d.next = c.next + 1 /\ DOMAIN d.copy = DOMAIN c.copy \cup listed
      /\ \A x \in listed : d.copy[x] = rows[x]
      /\ \A x \in DOMAIN c.copy \ listed : d.copy[x] = c.copy[x]
      /\ d.step = IF c.next < 3 THEN "list" ELSE "revoke"
    BY <1>1, <1>2, <1>3, ListEntityDoes DEF Basics
<1>5. rows' = rows /\ listed \subseteq DOMAIN rows
    BY <1>2 DEF ListEntity, List
<1>6. ASSUME NEW x \in DOMAIN c.before, AsItWas(c, x) PROVE AsItWas(d, x)'
  <2>1. /\ x \in DOMAIN rows /\ Same(rows[x], c.before[x])
        /\ x \in DOMAIN c.copy => Same(c.copy[x], c.before[x])
        /\ x \in DOMAIN c.copy \/ \E i \in c.next .. 3 : Kind(i) = c.before[x].entity
      BY <1>1, <1>6 DEF AsItWas
  <2>2. x \in DOMAIN d.copy => Same(d.copy[x], c.before[x])
      BY <1>4, <2>1
  <2>3. x \in DOMAIN d.copy \/ (d.step = "list" /\ \E i \in d.next .. 3 : Kind(i) = c.before[x].entity)
    <3>1. CASE x \in DOMAIN c.copy
        BY <1>4, <3>1
    <3>2. ASSUME NEW i \in c.next .. 3, Kind(i) = c.before[x].entity
          PROVE  \/ x \in DOMAIN d.copy
                 \/ d.step = "list" /\ \E j \in d.next .. 3 : Kind(j) = c.before[x].entity
      <4>1. CASE i = c.next
          BY <1>2, <1>4, <2>1, <3>2, <4>1, ItsRows DEF Same
      <4>2. CASE i # c.next
          BY <1>1, <1>4, <3>2, <4>2
      <4> QED BY <4>1, <4>2
    <3> QED BY <2>1, <3>1, <3>2
  <2>4. d.step \notin Restoring
      BY <1>4 DEF Restoring
  <2> QED BY <1>3, <1>5, <2>1, <2>2, <2>3, <2>4 DEF AsItWas
<1>7. Met({"erase"}, Changers) => Met({"erase"}, Changers)'
    BY MetGrows DEF Met, Changers
<1> QED BY <1>1, <1>3, <1>6, <1>7 DEF ErasureFine

LEMMA WorkOffErasure ==
    ASSUME Basics, ErasureInv, [Next]_vars, NEW t \in Threads,
           RevokeTokens(t) \/ FinishErasure(t) \/ \E x : DeleteListed(t, x) \/ Restores(t, x),
           call'[t] # NoCall
    PROVE  ErasureFine(call[t])'
<1>1. PICK c \in ListingCalls : c = call[t] /\ c.op = "erase" /\ ErasureFine(c)
    BY RevokeTokensDoes, FinishErasureDoes, WorksOff, RestoresDoes DEF Basics, Lists, ErasureInv
<1>2. Goes4(t)
    BY RevokeTokensDoes, FinishErasureDoes, WorksOff, RestoresDoes DEF Basics
<1>3. PICK d \in ListingCalls : /\ d = call'[t] /\ d.op = c.op /\ d.before = c.before /\ d.copy = c.copy
                                /\ d.next = c.next
    BY <1>1, <1>2 DEF Goes4, StillLists
<1>4. Met({"erase"}, Changers) => Met({"erase"}, Changers)'
    BY MetGrows DEF Met, Changers
<1>5. ASSUME NEW x \in DOMAIN c.before, AsItWas(c, x) PROVE AsItWas(d, x)'
  <2>1. CASE RevokeTokens(t) \/ FinishErasure(t)
    <3>1. rows' = rows /\ c.step # "list"
        BY <1>1, <2>1, RevokeTokensDoes, FinishErasureDoes DEF RevokeTokens, FinishErasure, Basics, Lists
    <3>2. d.step = "delete" \/ (d.step = "restore" /\ d.todo = DOMAIN c.copy)
        BY <1>1, <1>3, <2>1, RevokeTokensDoes, FinishErasureDoes DEF Basics
    <3> QED BY <1>3, <1>5, <3>1, <3>2 DEF AsItWas, Restoring
  <2>2. ASSUME NEW y, DeleteListed(t, y) PROVE AsItWas(d, x)'
    <3>1. c.step = "delete" /\ d.step = "delete"
        BY <1>1, <1>3, <2>2, WorksOff, DeleteListedDoes DEF Basics, Lists
    <3>2. DOMAIN rows' = DOMAIN rows \ {y} /\ \A z \in DOMAIN rows' : rows'[z] = rows[z]
        BY <2>2, DeleteListedDoes, DeleteRowDoes DEF Basics
    <3> QED BY <1>3, <1>5, <3>1, <3>2 DEF AsItWas, Restoring
  <2>3. ASSUME NEW y, Restores(t, y) PROVE AsItWas(d, x)'
    <3>1. c.step \in Restoring /\ d.step \in Restoring
        BY <1>1, <1>3, <2>3, RestoresDoes DEF Basics
    <3>2. CASE LookForListed(t, y)
      <4>1. d.todo = c.todo \/ (y \in DOMAIN rows /\ d.todo = c.todo \ {y})
          BY <1>1, <1>3, <3>2, LookForListedDoes DEF Basics
      <4>2. rows' = rows
          BY <3>2 DEF LookForListed
      <4> QED BY <1>3, <1>5, <3>1, <4>1, <4>2 DEF AsItWas, Restoring
    <3>3. CASE AddBack(t) /\ y = call[t].missing
      <4>1. d.todo = c.todo \ {y}
          BY <1>1, <1>3, <3>3, AddBackDoes DEF Basics
      <4>2. /\ DOMAIN rows' = DOMAIN rows \cup {y} /\ \A z \in DOMAIN rows : z # y => rows'[z] = rows[z]
            /\ y \in DOMAIN c.copy /\ rows'[y] = c.copy[y]
          BY <1>1, <3>3, AddBackWrites DEF Basics
      <4> QED BY <1>3, <1>5, <3>1, <4>1, <4>2 DEF AsItWas, Restoring
    <3> QED BY <2>3, <3>2, <3>3 DEF Restores
  <2> QED BY <2>1, <2>2, <2>3
<1> QED BY <1>1, <1>3, <1>4, <1>5 DEF ErasureFine

LEMMA ErasureKept ==
    /\ Init => ErasureInv
    /\ Basics /\ ErasureInv /\ [Next]_vars => ErasureInv'
<1>1. Init => ErasureInv
    BY DEF Init, ErasureInv, ErasureFine, NoCall
<1>2. ASSUME Basics, ErasureInv, [Next]_vars PROVE ErasureInv'
  <2>1. CASE Stays
      <3> SUFFICES ASSUME NEW t \in Threads PROVE ErasureFine(call[t])'
          BY DEF ErasureInv
      <3>1. call'[t] = call[t] /\ rows' = rows /\ ErasureFine(call[t])
          BY <1>2, <2>1 DEF ErasureInv, Stays
      <3>2. Met({"erase"}, Changers) => Met({"erase"}, Changers)'
          BY <1>2, MetGrows DEF Met, Changers
      <3> QED BY <3>1, <3>2 DEF ErasureFine, AsItWas
  <2>2. ASSUME NEW t \in Threads, Step(t), NEW u \in Threads PROVE ErasureFine(call[u])'
    <3>1. CASE call'[u].op # "erase"
        BY <3>1 DEF ErasureFine
    <3>2. CASE u = t /\ call'[u].op = "erase"
      <4>1. call'[t] # NoCall
          BY <3>2 DEF NoCall
      <4>2. ListEntity(t) => call[t].op = "erase"
          BY <1>2, <3>2, ListEntityDoes DEF Basics, StillLists
      <4> QED BY <1>2, <2>2, <3>2, <4>1, <4>2, ListingSteps, StartErasure, ListErasure, WorkOffErasure DEF Basics
    <3>3. CASE u # t /\ call'[u].op = "erase"
      <4>1. call[u].op = "erase"
          BY <1>2, <2>2, <3>3, StepIs DEF Basics
      <4> QED BY <1>2, <2>2, <3>3, <4>1, OthersErasure
    <3> QED BY <3>1, <3>2, <3>3
  <2> QED BY <1>2, <2>1, <2>2, EveryStep DEF ErasureInv
<1> QED BY <1>1, <1>2

-------------------------------------------------------------------------------
(* The invariant of the data-subject rights, and what it says when a call  *)
(* ends.                                                                   *)
RightsInv ==
    /\ Basics /\ ListingInv /\ RetentionInv /\ ErasureInv
    /\ ExportIsComplete /\ RetentionIsExact /\ ErasureIsAllOrNothing

LEMMA NoOutcomeIsFine ==
    outcome = NoOutcome => ExportIsComplete /\ RetentionIsExact /\ ErasureIsAllOrNothing
BY DEF NoOutcome, NoCall, ExportIsComplete, RetentionIsExact, ErasureIsAllOrNothing

LEMMA OutcomesAreFine ==
    ASSUME Basics, ListingInv, RetentionInv, ErasureInv, ExportIsComplete, RetentionIsExact,
           ErasureIsAllOrNothing, [Next]_vars
    PROVE  ExportIsComplete' /\ RetentionIsExact' /\ ErasureIsAllOrNothing'
<1>m. \A these, those : Met(these, those) => Met(these, those)'
    BY MetGrows DEF Met
<1>1. CASE outcome' = NoOutcome
    BY <1>1, NoOutcomeIsFine DEF NoOutcome, NoCall, ExportIsComplete, RetentionIsExact, ErasureIsAllOrNothing
<1>2. CASE Stays /\ outcome' = outcome
    BY <1>2, <1>m DEF Stays, ExportIsComplete, RetentionIsExact, ErasureIsAllOrNothing, List
<1>3. ASSUME NEW t \in Threads, rows' = rows, tokensLive' = tokensLive,
             At(t, "retention", "delete"), call[t].todo = {}, Ends(t, "done")
      PROVE  ExportIsComplete' /\ RetentionIsExact' /\ ErasureIsAllOrNothing'
  <2>1. PICK o : o = outcome' /\ o.op = "retention" /\ o.before = call[t].before /\ o.cutoff = call[t].cutoff
      BY <1>3, EndsDoes DEF At, HoldsBefore, Basics
  <2>2. RetentionFine(call[t]) /\ call[t].op = "retention"
      BY <1>3 DEF RetentionInv, At
  <2>3. ASSUME NEW x \in DOMAIN o.before, o.before[x].entity = "contact_event"
        PROVE  IF o.before[x].at < o.cutoff
               THEN x \notin DOMAIN rows \/ Met({"retention"}, {"erase"})
               ELSE x \in DOMAIN rows \/ Met({"retention"}, {"erase", "erase_contact", "retention"})
      BY <1>3, <2>1, <2>2, <2>3 DEF RetentionFine, Old, Recent
  <2>4. RetentionIsExact'
      BY <1>3, <1>m, <2>1, <2>3 DEF RetentionIsExact
  <2> QED BY <2>1, <2>4 DEF ExportIsComplete, ErasureIsAllOrNothing
<1>4. ASSUME NEW t \in Threads, rows' = rows, tokensLive' = tokensLive,
             At(t, "export", "audit"), Ends(t, "done")
      PROVE  ExportIsComplete' /\ RetentionIsExact' /\ ErasureIsAllOrNothing'
  <2>1. PICK o : o = outcome' /\ o.op = "export" /\ o.before = call[t].before /\ o.copy = call[t].copy
      BY <1>4, EndsDoes DEF At, HoldsBefore, Basics
  <2>2. ListingFine(call[t]) /\ call[t].op = "export" /\ call[t].step = "audit"
      BY <1>4 DEF ListingInv, At
  <2>3. DOMAIN o.before \cap DOMAIN rows \subseteq DOMAIN o.copy \/ Met({"export"}, {"erase"})
      BY <2>1, <2>2 DEF ListingFine, Listed
  <2>4. ExportIsComplete'
      BY <1>4, <1>m, <2>1, <2>3 DEF ExportIsComplete
  <2> QED BY <2>1, <2>4 DEF RetentionIsExact, ErasureIsAllOrNothing
<1>5. ASSUME NEW t \in Threads, rows' = rows, tokensLive' = tokensLive,
             At(t, "erase", "delete"), call[t].todo = {}, Ends(t, "done")
      PROVE  ExportIsComplete' /\ RetentionIsExact' /\ ErasureIsAllOrNothing'
  <2>1. PICK o : o = outcome' /\ o.op = "erase" /\ o.step = "done" /\ o.before = call[t].before
      BY <1>5, EndsDoes DEF At, HoldsBefore, Basics
  <2>2. ListingFine(call[t]) /\ call[t].op = "erase" /\ call[t].step = "delete"
      BY <1>5 DEF ListingInv, At
  <2>3. ~tokensLive /\ (DOMAIN o.before \cap DOMAIN rows = {} \/ Met({"erase"}, {"erase"}))
      BY <1>5, <2>1, <2>2 DEF ListingFine, Unremoved
  <2>4. ErasureIsAllOrNothing'
      BY <1>5, <1>m, <2>1, <2>3 DEF ErasureIsAllOrNothing
  <2> QED BY <2>1, <2>4 DEF RetentionIsExact, ExportIsComplete
<1>6. ASSUME NEW t \in Threads, rows' = rows, tokensLive' = tokensLive,
             At(t, "erase", "restore"), call[t].todo = {}, Ends(t, "aborted")
      PROVE  ExportIsComplete' /\ RetentionIsExact' /\ ErasureIsAllOrNothing'
  <2>1. PICK o : o = outcome' /\ o.op = "erase" /\ o.step = "aborted" /\ o.before = call[t].before
      BY <1>6, EndsDoes DEF At, HoldsBefore, Basics
  <2>2. ErasureFine(call[t]) /\ call[t].op = "erase" /\ call[t].step = "restore"
      BY <1>6 DEF ErasureInv, At
  <2>3. \/ \A x \in DOMAIN o.before :
               x \in DOMAIN rows /\ (rows[x] = o.before[x] \/ x \in List("category"))
        \/ Met({"erase"}, Changers)
      BY <1>6, <2>1, <2>2 DEF ErasureFine, AsItWas, Restoring, Same, List
  <2>4. Changers = {"delete_category", "erase_contact", "update_contact", "rectify", "retention", "erase"}
      BY DEF Changers
  <2>5. ErasureIsAllOrNothing'
      BY <1>6, <1>m, <2>1, <2>3, <2>4 DEF ErasureIsAllOrNothing, List
  <2> QED BY <2>1, <2>5 DEF RetentionIsExact, ExportIsComplete
<1> QED BY <1>1, <1>2, <1>3, <1>4, <1>5, <1>6, Endings DEF Basics

LEMMA RightsKept == (Init => RightsInv) /\ (RightsInv /\ [Next]_vars => RightsInv')
<1>1. Init => outcome = NoOutcome
    BY DEF Init
<1> QED BY <1>1, BasicsHold, ListingKept, RetentionKept, ErasureKept, NoOutcomeIsFine, OutcomesAreFine
        DEF RightsInv

LEMMA RightsHold == Spec => []RightsInv
BY RightsKept, PTL DEF Spec

(* An export that is handed out holds every row that was there all along,  *)
(* whatever other threads add, move or remove while it lists one entity    *)
(* after the other (build_export in privacy/export.py).                       *)
THEOREM AnExportIsComplete == Spec => []ExportIsComplete
BY RightsHold, PTL DEF RightsInv

(* A retention run removes the events whose time was up when it began, and *)
(* no other (RetentionJob.run in privacy/retention.py).                    *)
THEOREM ARetentionRunIsExact == Spec => []RetentionIsExact
BY RightsHold, PTL DEF RightsInv

(* An erasure removes all that was there when it began and the tokens, or  *)
(* reports failure and leaves the rows as they were (erase_subject in      *)
(* privacy/erasure.py).                                                    *)
THEOREM AnErasureIsAllOrNothing == Spec => []ErasureIsAllOrNothing
BY RightsHold, PTL DEF RightsInv

-------------------------------------------------------------------------------
(* Where the contacts of the next state come from.                         *)
LEMMA ContactsComeFrom ==
    ASSUME Basics, NEW t \in Threads, Step(t), NEW x \in DOMAIN rows', rows'[x].entity = "contact"
    PROVE  \/ x \in List("contact") /\ rows'[x].key = rows[x].key
           \/ At(t, "create_contact", "write") /\ x = Fresh /\ rows'[x] = Contact(None, call[t].g)
           \/ /\ At(t, "import", "person") /\ x = Fresh
              /\ \E p \in People \ call[t].seen : rows'[x] = Contact(p, ImportCategory)
           \/ At(t, "erase", "add_back") /\ x \in DOMAIN call[t].copy /\ rows'[x] = call[t].copy[x]
<1>1. Writes(t)
    BY StepIs DEF Basics
<1>2. ASSUME NEW row, Added(row) PROVE x \in DOMAIN rows => x \in List("contact") /\ rows'[x].key = rows[x].key
    BY <1>2 DEF Added, List
<1>3. ASSUME NEW row, Added(row), x \notin DOMAIN rows PROVE x = Fresh /\ rows'[x] = row
    BY <1>3 DEF Added
<1>4. ASSUME NEW y, Deleted(y) PROVE x \in List("contact") /\ rows'[x].key = rows[x].key
    BY <1>4 DEF Deleted, List
<1>5. ASSUME NEW c, NEW g, Moved(c, g) PROVE x \in List("contact") /\ rows'[x].key = rows[x].key
    BY <1>5 DEF Moved, Rewritten, SameButOf, List
<1>6. ASSUME NEW c, Rectified(c) PROVE x \in List("contact") /\ rows'[x].key = rows[x].key
    BY <1>6 DEF Rectified, Rewritten, List
<1>7. ASSUME NEW g \in List("category"), Renamed(g) PROVE x \in List("contact") /\ rows'[x].key = rows[x].key
    BY <1>7 DEF Renamed, Rewritten, List
<1>8. ASSUME NEW y, Restored(t, y)
      PROVE  \/ x \in List("contact") /\ rows'[x].key = rows[x].key
             \/ x \in DOMAIN call[t].copy /\ rows'[x] = call[t].copy[x]
    BY <1>8 DEF Restored, List
<1>9. rows' = rows => x \in List("contact") /\ rows'[x].key = rows[x].key
    BY DEF List
<1>10. /\ \A name : Category(name).entity # "contact"
       /\ \A c, at : ContactEvent(c, at).entity # "contact"
    BY DEF Category, ContactEvent
<1> QED BY <1>1, <1>2, <1>3, <1>4, <1>5, <1>6, <1>7, <1>8, <1>9, <1>10 DEF Writes

LEMMA CopiesComeFrom ==
    ASSUME Basics, NEW t \in Threads, Step(t), call'[t].op = "erase", NEW x \in DOMAIN call'[t].copy
    PROVE  \/ x \in DOMAIN rows /\ call'[t].copy[x] = rows[x]
           \/ call[t].op = "erase" /\ x \in DOMAIN call[t].copy /\ call'[t].copy[x] = call[t].copy[x]
<1>1. ASSUME NEW op \in {"export", "erase"}, StartListing(t, op) PROVE FALSE
    BY <1>1, StartListingDoes DEF Basics
<1>2. CASE ListEntity(t)
  <2>1. PICK listed : listed = List(Kind(call[t].next)) /\ listed \subseteq DOMAIN rows
      BY DEF List
  <2>2. call[t].op = "erase"
      BY <1>2, ListEntityDoes DEF Basics, StillLists
  <2> QED BY <1>2, <2>1, <2>2, ListEntityDoes DEF Basics
<1>3. CASE RevokeTokens(t) \/ FinishErasure(t) \/ \E y : DeleteListed(t, y) \/ Restores(t, y)
  <2>1. call'[t] # NoCall
      BY DEF NoCall
  <2>2. Goes4(t)
      BY <1>3, <2>1, RevokeTokensDoes, FinishErasureDoes, WorksOff, RestoresDoes DEF Basics
  <2> QED BY <2>2 DEF Goes4, StillLists
<1> QED BY <1>1, <1>2, <1>3, ListingSteps DEF Basics

-------------------------------------------------------------------------------
(* No two contacts carry the same person's id, those an erasure may add    *)
(* back included, and an import knows the ids of all there are.            *)
ImportsMeet == Met({"import"}, {"import", "erase"})
Carries(x, key) ==
    \/ x \in List("contact") /\ rows[x].key = key
    \/ \E u \in Threads : /\ call[u].op = "erase" /\ x \in DOMAIN call[u].copy
                          /\ call[u].copy[x].entity = "contact" /\ call[u].copy[x].key = key
OneEach == \A x, y, key : key # None /\ Carries(x, key) /\ Carries(y, key) => x = y
Knows(c) == \A x \in List("contact") : rows[x].key # None => rows[x].key \in c.seen
PersonInv ==
    ImportsMeet \/ (OneEach /\ \A t \in Threads : call[t].op = "import" => Knows(call[t]))

LEMMA CarriesNext ==
    ASSUME Basics, NEW t \in Threads, Step(t), NEW x, NEW key, key # None, Carries(x, key)'
    PROVE  \/ Carries(x, key)
           \/ At(t, "import", "person") /\ x = Fresh /\ key \in People \ call[t].seen
<1>1. CASE x \in List("contact")' /\ rows'[x].key = key
  <2>1. x \in DOMAIN rows' /\ rows'[x].entity = "contact"
      BY <1>1 DEF List
  <2>2. /\ \A p, g : Contact(p, g).key = p
        /\ At(t, "erase", "add_back") => call[t].op = "erase"
      BY DEF Contact, At
  <2> QED BY <1>1, <2>1, <2>2, ContactsComeFrom DEF Carries
<1>2. ASSUME NEW u \in Threads, call'[u].op = "erase", x \in DOMAIN call'[u].copy,
             call'[u].copy[x].entity = "contact", call'[u].copy[x].key = key
      PROVE  Carries(x, key)
  <2>1. CASE u = t
      BY <1>2, <2>1, CopiesComeFrom DEF Carries, List
  <2>2. CASE u # t
      BY <1>2, <2>2, StepIs DEF Carries, Basics
  <2> QED BY <2>1, <2>2
<1> QED BY <1>1, <1>2 DEF Carries

LEMMA OneEachKept ==
    ASSUME Basics, PersonInv, [Next]_vars, NEW t \in Threads, Step(t), ~ImportsMeet'
    PROVE  OneEach'
<1>1. ~ImportsMeet /\ OneEach /\ \A u \in Threads : call[u].op = "import" => Knows(call[u])
    BY MetStays DEF PersonInv, ImportsMeet
<1>2. ASSUME At(t, "import", "person"), NEW y, NEW key \in People \ call[t].seen PROVE ~Carries(y, key)
  <2>1. key # None /\ call[t].op = "import"
      BY <1>2, RecordsAssumption DEF At
  <2>2. \A u \in Threads : call[u].op # "erase"
      BY <2>1, MeetsNext DEF ImportsMeet
  <2> QED BY <1>1, <1>2, <2>1, <2>2 DEF Carries, Knows
<1>3. ASSUME NEW x, NEW y, NEW key, key # None, Carries(x, key)', Carries(y, key)' PROVE x = y
    BY <1>1, <1>2, <1>3, CarriesNext DEF OneEach
<1> QED BY <1>3 DEF OneEach

LEMMA ImportSteps ==
    ASSUME Types, NEW t \in Threads, Step(t), call'[t].op = "import"
    PROVE  StartImport(t) \/ \E p \in People : ImportPerson(t, p)
<1>1. call'[t] # NoCall
    BY DEF NoCall
<1>2. CASE CategoryStep(t)
    BY <1>1, <1>2, CategoryOps
<1>3. CASE ImportStep(t)
    BY <1>1, <1>3, ImportOps
<1>4. CASE PrivacyStep(t)
    BY <1>1, <1>4, PrivacyOps
<1> QED BY <1>2, <1>3, <1>4 DEF Step

LEMMA KnowsKept ==
    ASSUME Basics, PersonInv, [Next]_vars, NEW t \in Threads, Step(t), ~ImportsMeet',
           NEW u \in Threads, call'[u].op = "import"
    PROVE  Knows(call[u])'
<1>1. ~ImportsMeet /\ \A v \in Threads : call[v].op = "import" => Knows(call[v])
    BY MetStays DEF PersonInv, ImportsMeet
<1>2. CASE u # t
  <2>1. call'[u] = call[u] /\ Knows(call[u])
      BY <1>1, <1>2, StepIs DEF Basics
  <2>2. call[t].op \notin {"import", "erase"}
      BY <1>2, <2>1, MeetsNext DEF ImportsMeet
  <2>3. ASSUME NEW x \in DOMAIN rows', rows'[x].entity = "contact", rows'[x].key # None
        PROVE  rows'[x].key \in call[u].seen
    <3>1. x \in List("contact") /\ rows'[x].key = rows[x].key
        BY <2>2, <2>3, ContactsComeFrom DEF At, Contact
    <3> QED BY <2>1, <2>3, <3>1 DEF Knows
  <2> QED BY <2>1, <2>3 DEF Knows, List
<1>3. CASE u = t /\ StartImport(t)
  <2>1. rows' = rows /\ call'[t].seen = {rows[c].key : c \in List("contact")} \ {None}
      BY <1>3, StartImportDoes DEF Basics
  <2> QED BY <1>3, <2>1 DEF Knows, List
<1>4. ASSUME u = t, NEW p \in People, ImportPerson(t, p) PROVE Knows(call[t])'
  <2>1. call[t].op = "import" /\ Knows(call[t])
      BY <1>1, <1>4 DEF ImportPerson, At
  <2>2. call'[t].seen = call[t].seen \cup {p} /\ AddRow(Contact(p, ImportCategory))
      BY <1>4, ImportPersonDoes DEF Basics, NoCall
  <2>3. Contact(p, ImportCategory) \in Row /\ Contact(p, ImportCategory).key = p
      BY RowsOf, RecordsAssumption DEF Contact
  <2>4. Added(Contact(p, ImportCategory))
      BY <2>2, <2>3, Adding DEF Basics
  <2>5. ASSUME NEW x \in DOMAIN rows', rows'[x].entity = "contact", rows'[x].key # None
        PROVE  rows'[x].key \in call'[t].seen
      BY <2>1, <2>2, <2>3, <2>4, <2>5 DEF Added, Knows, List
  <2> QED BY <2>5 DEF Knows, List
<1> QED BY <1>2, <1>3, <1>4, ImportSteps DEF Basics

LEMMA PersonKept ==
    /\ Init => PersonInv
    /\ Basics /\ PersonInv /\ [Next]_vars => PersonInv'
<1>1. ASSUME Init PROVE PersonInv
  <2>1. \A t \in Threads : call[t].op = "none"
      BY <1>1 DEF Init, NoCall
  <2>2. ASSUME NEW x \in List("contact") PROVE x = Len(Defaults) + 1
    <3>1. PICK p \in People \cup {None} :
              rows = Insert(Insert(Provisioned, Len(Defaults) + 1, Contact(p, ImportCategory)),
                            Len(Defaults) + 2, ContactEvent(Len(Defaults) + 1, now))
        BY <1>1 DEF Init
    <3>2. \A i \in DOMAIN Provisioned : Provisioned[i].entity = "category"
        BY DEF Provisioned, Category
    <3>3. \A c, at : ContactEvent(c, at).entity = "contact_event"
        BY DEF ContactEvent
    <3> QED BY <3>1, <3>2, <3>3 DEF Insert, List
  <2> QED BY <2>1, <2>2 DEF PersonInv, OneEach, Carries
<1>2. ASSUME Basics, PersonInv, [Next]_vars PROVE PersonInv'
  <2>1. CASE Stays
    <3>1. rows' = rows /\ call' = call
        BY <2>1 DEF Stays
    <3>2. ImportsMeet => ImportsMeet'
        BY <1>2, MetStays DEF ImportsMeet
    <3>3. OneEach => OneEach'
      <4>1. ASSUME NEW x, NEW key, Carries(x, key)' PROVE Carries(x, key)
          BY <3>1, <4>1 DEF Carries, List
      <4> QED BY <4>1 DEF OneEach
    <3>4. ASSUME \A t \in Threads : call[t].op = "import" => Knows(call[t]),
                 NEW t \in Threads, call'[t].op = "import"
          PROVE  Knows(call[t])'
        BY <3>1, <3>4 DEF Knows, List
    <3> QED BY <1>2, <3>2, <3>3, <3>4 DEF PersonInv
  <2>2. ASSUME NEW t \in Threads, Step(t) PROVE PersonInv'
      BY <1>2, <2>2, OneEachKept, KnowsKept DEF PersonInv
  <2> QED BY <1>2, <2>1, <2>2, EveryStep
<1> QED BY <1>1, <1>2

(* No two contacts are imported from the same person, whatever else is     *)
(* created, moved, erased or renamed meanwhile, unless two imports, or an  *)
(* import and an erasure, overlap (GooglePeopleImporter.import_from).  *)
THEOREM APersonIsImportedOnce == Spec => []NoPersonTwice
<1> DEFINE Inv == Basics /\ PersonInv
<1>1. Init => Inv
    BY BasicsHold, PersonKept
<1>2. Inv /\ [Next]_vars => Inv'
    BY BasicsHold, PersonKept
<1>3. Inv => NoPersonTwice
    BY DEF PersonInv, OneEach, Carries, NoPersonTwice, ImportsMeet
<1> QED BY <1>1, <1>2, <1>3, PTL DEF Spec

-------------------------------------------------------------------------------
(* Where the events of the next state come from, and where contacts and    *)
(* categories go.                                                          *)
LEMMA EntityStays ==
    ASSUME Basics, NEW t \in Threads, Step(t), NEW x \in DOMAIN rows, x \in DOMAIN rows'
    PROVE  rows'[x].entity = rows[x].entity
<1>1. (\E row : Added(row)) => rows'[x] = rows[x]
    BY DEF Added
<1>2. (\E y : Deleted(y)) => rows'[x] = rows[x]
    BY DEF Deleted
<1>3. ASSUME At(t, "erase", "add_back"), NEW y, Restored(t, y) PROVE rows'[x].entity = rows[x].entity
  <2>1. CallSees(call[t], y, call[t].copy[y].entity)
      BY <1>3 DEF CallSees, At, Restored
  <2>2. Sees(y, call[t].copy[y].entity) /\ Sees(x, rows[x].entity)
      BY <2>1, ItsRows DEF Sees
  <2>3. y = x => call[t].copy[y].entity = rows[x].entity
      BY <2>2 DEF Basics, SeenInv
  <2> QED BY <1>3, <2>3 DEF Restored
<1>4. (\E y : Rewritten(y)) => rows'[x].entity = rows[x].entity
    BY DEF Rewritten
<1> QED BY <1>1, <1>2, <1>3, <1>4, StepIs DEF Writes, Moved, Rectified, Renamed, Basics

LEMMA SeenOnce ==
    ASSUME Basics, NEW x, NEW d, NEW e, Sees(x, d), Sees(x, e) PROVE d = e
BY DEF Basics, SeenInv

LEMMA EventsComeFrom ==
    ASSUME Basics, NEW t \in Threads, Step(t), NEW x \in DOMAIN rows', rows'[x].entity = "contact_event"
    PROVE  \/ x \in List("contact_event") /\ rows'[x].of = rows[x].of
           \/ At(t, "log_event", "add") /\ x = Fresh /\ rows'[x].of = call[t].c
           \/ At(t, "erase", "add_back") /\ x \in DOMAIN call[t].copy /\ rows'[x] = call[t].copy[x]
<1>1. Writes(t)
    BY StepIs DEF Basics
<1>2. ASSUME NEW row, Added(row), x \in DOMAIN rows
      PROVE  x \in List("contact_event") /\ rows'[x].of = rows[x].of
    BY <1>2 DEF Added, List
<1>3. ASSUME NEW row, Added(row), x \notin DOMAIN rows PROVE x = Fresh /\ rows'[x] = row
    BY <1>3 DEF Added
<1>4. ASSUME NEW y, Deleted(y) PROVE x \in List("contact_event") /\ rows'[x].of = rows[x].of
    BY <1>4 DEF Deleted, List
<1>5. ASSUME NEW c, NEW g, Moved(c, g), Sees(c, "contact")
      PROVE  x \in List("contact_event") /\ rows'[x].of = rows[x].of
  <2>1. x \in List("contact_event") /\ (x # c => rows'[x] = rows[x])
      BY <1>5, EntityStays DEF Moved, Rewritten, List
  <2>2. Sees(x, "contact_event")
      BY <2>1, ItsRows
  <2>3. x # c
      BY <1>5, <2>2, SeenOnce
  <2> QED BY <2>1, <2>3
<1>6. ASSUME NEW c, Rectified(c) PROVE x \in List("contact_event") /\ rows'[x].of = rows[x].of
    BY <1>6 DEF Rectified, Rewritten, List
<1>7. ASSUME NEW g \in List("category"), Renamed(g)
      PROVE  x \in List("contact_event") /\ rows'[x].of = rows[x].of
    BY <1>7 DEF Renamed, Rewritten, List
<1>8. ASSUME NEW y, Restored(t, y)
      PROVE  \/ x \in List("contact_event") /\ rows'[x].of = rows[x].of
             \/ x \in DOMAIN call[t].copy /\ rows'[x] = call[t].copy[x]
    BY <1>8 DEF Restored, List
<1>9. rows' = rows => x \in List("contact_event") /\ rows'[x].of = rows[x].of
    BY DEF List
<1>10. /\ \A name : Category(name).entity # "contact_event"
       /\ \A p, g : Contact(p, g).entity # "contact_event"
       /\ \A c, at : ContactEvent(c, at).of = c
    BY DEF Category, Contact, ContactEvent
<1>11. /\ call[t].op = "delete_category" => \A c \in call[t].todo : Sees(c, "contact")
       /\ call[t].op = "update_contact" => Sees(call[t].c, "contact")
    BY DEF CallSees, Sees
<1>12. /\ At(t, "delete_category", "reassign") => call[t].op = "delete_category"
       /\ At(t, "update_contact", "write") => call[t].op = "update_contact"
    BY DEF At
<1> QED BY <1>1, <1>2, <1>3, <1>4, <1>5, <1>6, <1>7, <1>8, <1>9, <1>10, <1>11, <1>12 DEF Writes

LEMMA ContactsGo ==
    ASSUME Basics, NEW t \in Threads, Step(t), NEW x \in List("contact"), ~(x \in List("contact"))'
    PROVE  \/ At(t, "erase_contact", "delete") /\ call[t].todo = {} /\ x = call[t].c
           \/ At(t, "erase", "delete") /\ x \in call[t].todo
<1>1. x \in DOMAIN rows /\ x \notin DOMAIN rows'
    BY EntityStays DEF List
<1>2. Sees(x, "contact")
    BY ItsRows
<1>3. ~Sees(x, "category") /\ ~Sees(x, "contact_event")
    BY <1>2, SeenOnce
<1> QED BY <1>1, <1>3, WhatGoes

LEMMA CategoriesGo ==
    ASSUME Basics, NEW t \in Threads, Step(t), NEW x \in List("category"), ~(x \in List("category"))'
    PROVE  \/ At(t, "delete_category", "delete") /\ x = call[t].g
           \/ At(t, "erase", "delete") /\ x \in call[t].todo
<1>1. x \in DOMAIN rows /\ x \notin DOMAIN rows'
    BY EntityStays DEF List
<1>2. Sees(x, "category")
    BY ItsRows
<1>3. ~Sees(x, "contact") /\ ~Sees(x, "contact_event")
    BY <1>2, SeenOnce
<1> QED BY <1>1, <1>3, WhatGoes

LEMMA EraseContactSteps ==
    ASSUME Types, NEW t \in Threads, Step(t), call'[t].op = "erase_contact"
    PROVE  ListDependents(t) \/ EraseContact(t) \/ \E c \in List("contact") : StartEraseContact(t, c)
<1>1. call'[t] # NoCall
    BY DEF NoCall
<1>2. CASE CategoryStep(t)
    BY <1>1, <1>2, CategoryOps
<1>3. CASE ImportStep(t)
    BY <1>1, <1>3, ImportOps
<1>4. CASE PrivacyStep(t)
    BY <1>1, <1>4, PrivacyOps
<1> QED BY <1>2, <1>3, <1>4 DEF Step

LEMMA LogSteps ==
    ASSUME Types, NEW t \in Threads, Step(t), call'[t].op = "log_event"
    PROVE  AuditEvent(t) \/ \E c \in List("contact") : StartLogEvent(t, c)
<1>1. call'[t] # NoCall
    BY DEF NoCall
<1>2. CASE CategoryStep(t)
    BY <1>1, <1>2, CategoryOps
<1>3. CASE ImportStep(t)
    BY <1>1, <1>3, ImportOps
<1>4. CASE PrivacyStep(t)
    BY <1>1, <1>4, PrivacyOps
<1> QED BY <1>2, <1>3, <1>4 DEF Step

-------------------------------------------------------------------------------
(* Events have their contacts, and keep them through erasures that no log, *)
(* erasure of a contact or other erasure overlaps.                         *)
EventsMeet == Met({"erase_contact", "erase"}, {"log_event", "erase", "erase_contact"})
Empties(u) == call[u].op = "erase" /\ call[u].step \in {"delete", "restore", "add_back"}
Attached == \A x \in List("contact_event") : rows[x].of \in List("contact")
Contacts(c) == {y \in DOMAIN c.copy : c.copy[y].entity = "contact"}

LogFine(c) == c.op = "log_event" => c.c \in List("contact")
DependentsFine(c) ==
    c.op = "erase_contact" /\ c.step = "delete" =>
        \A x \in List("contact_event") : rows[x].of = c.c => x \in c.todo
CopyFine(c) ==
    c.op = "erase" =>
        /\ \A x \in DOMAIN c.copy : c.copy[x].entity = "contact_event" => c.copy[x].of \in Contacts(c)
        /\ c.next > 1 => \A x \in List("contact_event") : rows[x].of \in Contacts(c)
        /\ c.step \in {"revoke", "delete"} => List("contact_event") \subseteq c.todo
        /\ c.step = "list" \/ c.next > 1
        /\ c.step \in Restoring => Contacts(c) \subseteq List("contact") \cup c.todo
EventsFine(c) == LogFine(c) /\ DependentsFine(c) /\ CopyFine(c)
EventInv ==
    EventsMeet \/ ((Attached \/ \E u \in Threads : Empties(u)) /\ \A u \in Threads : EventsFine(call[u]))

(* Nothing that could disturb another thread's erasure takes place.        *)
LEMMA NoRaceForEvents ==
    ASSUME Basics, [Next]_vars, ~EventsMeet', NEW t \in Threads, NEW u \in Threads, t # u
    PROVE  /\ call[u].op \in {"erase_contact", "erase"} =>
                  call[t].op \notin {"log_event", "erase", "erase_contact"}
           /\ call[u].op = "log_event" => call[t].op \notin {"erase", "erase_contact"}
BY MeetsNext DEF EventsMeet

LEMMA OthersEvents ==
    ASSUME Basics, EventInv, ~EventsMeet, ~EventsMeet', [Next]_vars, NEW t \in Threads, Step(t),
           NEW u \in Threads \ {t}
    PROVE  EventsFine(call[u])'
<1>1. call'[u] = call[u] /\ EventsFine(call[u])
    BY StepIs DEF Basics, EventInv
<1>2. PICK c : c = call[u] /\ c = call'[u]
    BY <1>1
<1>3. ASSUME call[t].op \notin {"erase", "erase_contact"}, NEW y \in List("contact") PROVE (y \in List("contact"))'
    BY <1>3, ContactsGo DEF At
<1>4. ASSUME call[t].op \notin {"log_event", "erase"}, NEW x \in DOMAIN rows', rows'[x].entity = "contact_event"
      PROVE  x \in List("contact_event") /\ rows'[x].of = rows[x].of
    BY <1>4, EventsComeFrom DEF At
<1>5. LogFine(call[u])'
  <2>1. CASE c.op = "log_event"
    <3>1. call[t].op \notin {"erase", "erase_contact"}
        BY <1>2, <2>1, NoRaceForEvents
    <3>2. c.c \in List("contact")
        BY <1>1, <1>2, <2>1 DEF EventsFine, LogFine
    <3>3. (c.c \in List("contact"))'
        BY <1>3, <3>1, <3>2
    <3> QED BY <1>2, <3>3 DEF LogFine
  <2> QED BY <1>2, <2>1 DEF LogFine
<1>6. DependentsFine(call[u])'
  <2>1. CASE c.op = "erase_contact"
    <3>1. call[t].op \notin {"log_event", "erase"}
        BY <1>2, <2>1, NoRaceForEvents
    <3> QED BY <1>1, <1>2, <1>4, <3>1 DEF EventsFine, DependentsFine, List
  <2> QED BY <1>2, <2>1 DEF DependentsFine
<1>7. CopyFine(call[u])'
  <2>1. CASE c.op = "erase"
    <3>1. call[t].op \notin {"log_event", "erase", "erase_contact"}
        BY <1>2, <2>1, NoRaceForEvents
    <3>2. CopyFine(c)
        BY <1>1, <1>2 DEF EventsFine
    <3>3. ASSUME NEW y, y \in List("contact") PROVE (y \in List("contact"))'
        BY <1>3, <3>1, <3>3
    <3>4. ASSUME NEW x, (x \in List("contact_event"))'
          PROVE  x \in List("contact_event") /\ rows'[x].of = rows[x].of
        BY <1>4, <3>1, <3>4 DEF List
    <3>5. CopyFine(c)'
        BY <2>1, <3>2, <3>3, <3>4 DEF CopyFine, Contacts
    <3> QED BY <1>2, <3>5 DEF CopyFine, Contacts
  <2> QED BY <1>2, <2>1 DEF CopyFine
<1> QED BY <1>5, <1>6, <1>7 DEF EventsFine

LEMMA OwnLog ==
    ASSUME Basics, EventInv, ~EventsMeet, NEW t \in Threads, Step(t), call'[t].op = "log_event"
    PROVE  LogFine(call[t])'
<1>1. ASSUME NEW c \in List("contact"), StartLogEvent(t, c) PROVE LogFine(call[t])'
  <2>1. call'[t].c = c /\ rows' = rows
      BY <1>1, Goes DEF StartLogEvent, Basics
  <2> QED BY <2>1 DEF LogFine, List
<1>2. CASE AuditEvent(t)
  <2>1. rows' = rows
      BY <1>2 DEF AuditEvent
  <2>2. call'[t] # NoCall
      BY DEF NoCall
  <2>3. call[t] \in LogCalls /\ call'[t].c = call[t].c
      BY <1>2, <2>2, AuditEventDoes DEF Basics
  <2>4. call[t].op = "log_event"
      BY <2>3 DEF LogCalls
  <2>5. call[t].c \in List("contact")
      BY <2>4 DEF EventInv, EventsFine, LogFine
  <2> QED BY <2>1, <2>3, <2>5 DEF LogFine, List
<1> QED BY <1>1, <1>2, LogSteps DEF Basics

LEMMA OwnDependents ==
    ASSUME Basics, EventInv, ~EventsMeet, NEW t \in Threads, Step(t), call'[t].op = "erase_contact"
    PROVE  DependentsFine(call[t])'
<1>1. CASE ListDependents(t)
  <2>1. rows' = rows
      BY <1>1 DEF ListDependents
  <2>2. /\ call'[t].c = call[t].c
        /\ call'[t].todo = {x \in List("contact_event") : rows[x].of = call[t].c}
      BY <1>1, ListDependentsDoes DEF Basics
  <2> QED BY <2>1, <2>2 DEF DependentsFine, List
<1>2. CASE EraseContact(t)
  <2>1. call'[t] # NoCall
      BY DEF NoCall
  <2>2. PICK x \in call[t].todo : DeleteRow(x) /\ call'[t].c = call[t].c /\ call'[t].todo = call[t].todo \ {x}
      BY <1>2, <2>1, EraseContactDoes DEF Basics
  <2>3. DependentsFine(call[t]) /\ call[t].op = "erase_contact" /\ call[t].step = "delete"
      BY <1>2 DEF EventInv, EventsFine, EraseContact, At
  <2>4. DOMAIN rows' = DOMAIN rows \ {x} /\ \A y \in DOMAIN rows' : rows'[y] = rows[y]
      BY <2>2, DeleteRowDoes DEF Basics
  <2> QED BY <2>2, <2>3, <2>4 DEF DependentsFine, List
<1>3. ASSUME NEW c \in List("contact"), StartEraseContact(t, c) PROVE DependentsFine(call[t])'
  <2>1. call'[t].step = "list"
      BY <1>3, Goes DEF StartEraseContact, Basics
  <2> QED BY <2>1 DEF DependentsFine
<1> QED BY <1>1, <1>2, <1>3, EraseContactSteps DEF Basics

(* The listing copies contacts before events, so that the contacts of the  *)
(* events it copies are in the copy.                                       *)
LEMMA OwnListing ==
    ASSUME Basics, EventInv, ~EventsMeet, ~EventsMeet', [Next]_vars, NEW t \in Threads, Step(t), ListEntity(t),
           call[t].op = "erase"
    PROVE  CopyFine(call[t])'
<1>1. PICK c \in ListingCalls : /\ c = call[t] /\ c.step = "list" /\ c.next \in 1 .. 3 /\ c.op = "erase"
                                /\ CopyFine(c)
    BY ListEntityDoes DEF Basics, Lists, EventInv, EventsFine
<1>2. PICK listed : listed = List(Kind(c.next))
    OBVIOUS
<1>3. PICK d \in ListingCalls : d = call'[t] /\ d.op = "erase"
    BY <1>1, ListEntityDoes DEF Basics, StillLists
<1>4. /\ d.next = c.next + 1 /\ DOMAIN d.copy = DOMAIN c.copy \cup listed /\ d.todo = DOMAIN d.copy
      /\ \A x \in listed : d.copy[x] = rows[x]
      /\ \A x \in DOMAIN c.copy \ listed : d.copy[x] = c.copy[x]
      /\ d.step = IF c.next < 3 THEN "list" ELSE "revoke"
    BY <1>1, <1>2, <1>3, ListEntityDoes DEF Basics
<1>5. rows' = rows /\ listed \subseteq DOMAIN rows /\ \A x \in listed : rows[x].entity = Kind(c.next)
    BY <1>2 DEF ListEntity, List
<1>6. \A u \in Threads : ~Empties(u)
    BY <1>1, NoRaceForEvents DEF Empties
<1>7. Attached
    BY <1>6 DEF EventInv
<1>8. Contacts(c) \subseteq Contacts(d)
  <2> SUFFICES ASSUME NEW y \in Contacts(c) PROVE y \in Contacts(d)
      OBVIOUS
  <2>1. Sees(y, "contact")
      BY <1>1 DEF Contacts, Sees, CallSees
  <2>2. y \in listed => rows[y].entity = "contact"
      BY <1>5, <2>1, SeenOnce, ItsRows
  <2> QED BY <1>4, <2>2 DEF Contacts
<1>9. c.next = 1 => List("contact") \subseteq Contacts(d)
    BY <1>2, <1>4, <1>5, KindsAre DEF Contacts
<1>10. ASSUME NEW x \in List("contact_event") PROVE rows[x].of \in Contacts(d)
    BY <1>1, <1>7, <1>8, <1>9, <1>10 DEF Attached, CopyFine
<1>11. ASSUME NEW x \in DOMAIN d.copy, d.copy[x].entity = "contact_event" PROVE d.copy[x].of \in Contacts(d)
  <2>1. CASE x \in listed
    <3>1. x \in List("contact_event") /\ d.copy[x] = rows[x]
        BY <1>4, <1>5, <1>11, <2>1 DEF List
    <3> QED BY <1>10, <3>1
  <2>2. CASE x \notin listed
      BY <1>1, <1>4, <1>8, <1>11, <2>2 DEF CopyFine
  <2> QED BY <2>1, <2>2
<1>12. c.next = 3 => List("contact_event") \subseteq d.todo
    BY <1>2, <1>4, KindsAre
<1>13. d.next > 1 /\ d.step \notin Restoring /\ (d.step \in {"revoke", "delete"} => c.next = 3)
    BY <1>1, <1>4 DEF Restoring
<1>14. \A x : (x \in List("contact_event"))' => x \in List("contact_event")
    BY <1>5 DEF List
<1>15. CopyFine(d)'
    BY <1>5, <1>10, <1>11, <1>12, <1>13, <1>14 DEF CopyFine, Contacts
<1> QED BY <1>3, <1>15 DEF CopyFine, Contacts

LEMMA OwnWorkingOff ==
    ASSUME Basics, EventInv, ~EventsMeet, [Next]_vars, NEW t \in Threads, Step(t), call'[t] # NoCall,
           RevokeTokens(t) \/ FinishErasure(t) \/ \E x : DeleteListed(t, x) \/ Restores(t, x)
    PROVE  CopyFine(call[t])'
<1>1. PICK c \in ListingCalls : c = call[t] /\ c.op = "erase" /\ CopyFine(c)
    BY RevokeTokensDoes, FinishErasureDoes, WorksOff, RestoresDoes DEF Basics, Lists, EventInv, EventsFine
<1>2. Goes4(t)
    BY RevokeTokensDoes, FinishErasureDoes, WorksOff, RestoresDoes DEF Basics
<1>3. PICK d \in ListingCalls : d = call'[t] /\ d.op = "erase" /\ d.copy = c.copy /\ d.next = c.next
    BY <1>1, <1>2 DEF Goes4, StillLists
<1>4. Contacts(d) = Contacts(c)
    BY <1>3 DEF Contacts
<1>5. CASE RevokeTokens(t) \/ FinishErasure(t)
  <2>1. rows' = rows /\ c.step \in {"revoke", "delete"}
      BY <1>1, <1>5, RevokeTokensDoes, FinishErasureDoes DEF RevokeTokens, FinishErasure, Basics, Lists
  <2>2. \/ d.step = "delete" /\ d.todo = c.todo
        \/ d.step = "restore" /\ d.todo = DOMAIN c.copy
      BY <1>1, <1>3, <1>5, RevokeTokensDoes, FinishErasureDoes DEF Basics
  <2>3. List("contact_event")' = List("contact_event")
      BY <2>1 DEF List
  <2>4. CopyFine(d)'
      BY <1>1, <1>3, <1>4, <2>1, <2>2, <2>3 DEF CopyFine, Contacts, Restoring
  <2> QED BY <1>3, <2>4 DEF CopyFine, Contacts
<1>6. ASSUME NEW y, DeleteListed(t, y) PROVE CopyFine(call[t])'
  <2>1. c.step = "delete" /\ d.step = "delete" /\ d.todo = c.todo \ {y}
      BY <1>1, <1>3, <1>6, WorksOff, DeleteListedDoes DEF Basics, Lists
  <2>2. DOMAIN rows' = DOMAIN rows \ {y} /\ \A z \in DOMAIN rows' : rows'[z] = rows[z]
      BY <1>6, DeleteListedDoes, DeleteRowDoes DEF Basics
  <2>3. \A x : (x \in List("contact_event"))' =>
               x \in List("contact_event") /\ x # y /\ rows'[x].of = rows[x].of
      BY <2>2 DEF List
  <2>4. CopyFine(d)'
      BY <1>1, <1>3, <1>4, <2>1, <2>3 DEF CopyFine, Contacts, Restoring
  <2> QED BY <1>3, <2>4 DEF CopyFine, Contacts
<1>7. ASSUME NEW y, Restores(t, y) PROVE CopyFine(call[t])'
  <2>1. c.step \in Restoring /\ d.step \in Restoring
      BY <1>1, <1>3, <1>7, RestoresDoes DEF Basics
  <2>2. ASSUME \A x : (x \in List("contact_event"))' => rows'[x].of \in Contacts(c),
               \A x \in Contacts(c) : (x \in List("contact"))' \/ x \in d.todo
        PROVE  CopyFine(call[t])'
    <3>1. CopyFine(d)'
        BY <1>1, <1>3, <1>4, <2>1, <2>2 DEF CopyFine, Contacts, Restoring
    <3> QED BY <1>3, <3>1 DEF CopyFine, Contacts
  <2>3. /\ \A x \in List("contact_event") : rows[x].of \in Contacts(c)
        /\ Contacts(c) \subseteq List("contact") \cup c.todo
      BY <1>1, <2>1 DEF CopyFine, Restoring
  <2>4. CASE LookForListed(t, y)
    <3>1. d.todo = c.todo \/ (y \in DOMAIN rows /\ d.todo = c.todo \ {y})
        BY <1>1, <1>3, <2>4, LookForListedDoes DEF Basics
    <3>2. rows' = rows
        BY <2>4 DEF LookForListed
    <3>3. y \in Contacts(c) /\ y \in DOMAIN rows => y \in List("contact")
      <4>1. y \in Contacts(c) => Sees(y, "contact")
          BY <1>1 DEF Contacts, Sees, CallSees
      <4> QED BY <4>1, SeenOnce, ItsRows
    <3>4. \A x \in Contacts(c) : x \in List("contact") \/ x \in d.todo
        BY <2>3, <3>1, <3>3
    <3>5. List("contact")' = List("contact") /\ List("contact_event")' = List("contact_event")
        BY <3>2 DEF List
    <3> QED BY <2>2, <2>3, <3>2, <3>4, <3>5
  <2>5. CASE AddBack(t) /\ y = call[t].missing
    <3>1. d.todo = c.todo \ {y}
        BY <1>1, <1>3, <2>5, AddBackDoes DEF Basics
    <3>2. /\ DOMAIN rows' = DOMAIN rows \cup {y} /\ \A z \in DOMAIN rows : z # y => rows'[z] = rows[z]
          /\ y \in DOMAIN c.copy /\ rows'[y] = c.copy[y]
        BY <1>1, <2>5, AddBackWrites DEF Basics
    <3>3. ASSUME NEW x, (x \in List("contact_event"))' PROVE rows'[x].of \in Contacts(c)
      <4>1. CASE x = y
          BY <1>1, <3>2, <3>3, <4>1 DEF CopyFine, List
      <4>2. CASE x # y
          BY <2>3, <3>2, <3>3, <4>2 DEF List
      <4> QED BY <4>1, <4>2
    <3>4. ASSUME NEW x \in Contacts(c) PROVE (x \in List("contact"))' \/ x \in d.todo
      <4>1. CASE x = y
          BY <3>2, <4>1 DEF Contacts, List
      <4>2. CASE x # y
          BY <2>3, <3>1, <3>2, <4>2 DEF List
      <4> QED BY <4>1, <4>2
    <3> QED BY <2>2, <3>3, <3>4
  <2> QED BY <1>7, <2>4, <2>5 DEF Restores
<1> QED BY <1>5, <1>6, <1>7

LEMMA StartCopy ==
    ASSUME Basics, NEW t \in Threads, NEW op \in {"export", "erase"}, StartListing(t, op)
    PROVE  CopyFine(call[t])'
<1>1. PICK d \in ListingCalls : /\ d = call'[t] /\ d.step = "list" /\ d.next = 1 /\ DOMAIN d.copy = {}
    BY StartListingDoes DEF Basics
<1>2. CopyFine(d)'
    BY <1>1 DEF CopyFine, Restoring
<1> QED BY <1>1, <1>2 DEF CopyFine, Contacts

LEMMA OwnCopy ==
    ASSUME Basics, EventInv, ~EventsMeet, ~EventsMeet', [Next]_vars, NEW t \in Threads, Step(t),
           call'[t].op = "erase"
    PROVE  CopyFine(call[t])'
<1>1. call'[t] # NoCall
    BY DEF NoCall
<1>2. ListEntity(t) => call[t].op = "erase"
    BY ListEntityDoes DEF Basics, StillLists
<1> QED BY <1>1, <1>2, ListingSteps, StartCopy, OwnListing, OwnWorkingOff DEF Basics

(* An erasure ends with nothing left to work off.                          *)
LEMMA ErasureEnds ==
    ASSUME Types, NEW t \in Threads, Step(t), call[t].op = "erase", call'[t].op # "erase"
    PROVE  rows' = rows /\ call[t].todo = {} /\ call[t].step \in {"delete", "restore"}
<1>1. call[t] # NoCall
    BY DEF NoCall
<1>2. ~CategoryStep(t)
    BY <1>1
    DEF CategoryStep, AddCategory, ListContacts, FindTarget, Reassign, DeleteCategory, FindCategory,
        WriteContact, StartCreateCategory, Rename, StartCreateContact, StartDeleteCategory, StartMoveContact,
        At, Begin, OneStep
<1>3. ~ImportStep(t)
    BY <1>1 DEF ImportStep, StartImport, RejectPerson, EndImport, ImportPerson, At, Begin
<1>4. PrivacyStep(t)
    BY <1>2, <1>3 DEF Step
<1>5. ~ListEntity(t) /\ ~RevokeTokens(t) /\ \A x : ~DeleteListed(t, x) /\ ~Restores(t, x)
    BY ListEntityDoes, RevokeTokensDoes, WorksOff, RestoresDoes DEF StillLists, Goes4
<1>6. FinishErasure(t) \/ AbortErasure(t)
    BY <1>1, <1>4, <1>5
    DEF PrivacyStep, AuditEvent, AddEvent, AuditRectification, ListDependents, EraseContact, StartListing,
        StartRetention, FinishRetention, FinishExport, DeleteAged, Restores, StartLogEvent, Rectify,
        StartEraseContact, At, Begin
<1> QED BY <1>6 DEF FinishErasure, AbortErasure, At

LEMMA EmptiesOn ==
    ASSUME Basics, NEW t \in Threads, Step(t), Empties(t), call'[t].op = "erase" PROVE Empties(t)'
<1>1. call'[t] # NoCall /\ call[t] # NoCall
    BY DEF NoCall, Empties
<1>2. ~ListEntity(t) /\ ~RevokeTokens(t) /\ \A op \in {"export", "erase"} : ~StartListing(t, op)
    BY <1>1, ListEntityDoes, RevokeTokensDoes, StartListingDoes DEF Basics, Lists, Empties
<1>3. FinishErasure(t) => call'[t].step = "restore"
    BY <1>1, FinishErasureDoes DEF Basics
<1>4. /\ \A x : DeleteListed(t, x) => call'[t].step = call[t].step
      /\ \A x : Restores(t, x) => call'[t].step \in Restoring
    BY WorksOff, RestoresDoes DEF Basics
<1> QED BY <1>2, <1>3, <1>4, ListingSteps DEF Basics, Empties, Restoring

LEMMA AttachedKept ==
    ASSUME Basics, EventInv, ~EventsMeet, ~EventsMeet', [Next]_vars, NEW t \in Threads, Step(t)
    PROVE  Attached' \/ \E u \in Threads : Empties(u)'
<1>1. CASE \E u \in Threads \ {t} : Empties(u)
    BY <1>1, StepIs DEF Basics, Empties
<1>2. CASE Empties(t) /\ call'[t].op = "erase"
    BY <1>2, EmptiesOn
<1>3. CASE Empties(t) /\ call'[t].op # "erase"
  <2>1. PICK c \in ListingCalls : c = call[t] /\ c.op = "erase" /\ CopyFine(c)
      BY <1>3, CallIs, CallsAre DEF Empties, Basics, EventInv, EventsFine
  <2>2. rows' = rows /\ c.todo = {} /\ c.step \in {"delete", "restore"}
      BY <1>3, <2>1, ErasureEnds DEF Basics
  <2>3. c.next > 1
      BY <2>1, <2>2 DEF CopyFine
  <2>4. CASE c.step = "delete"
      BY <2>1, <2>2, <2>4 DEF CopyFine, Attached, List
  <2>5. CASE c.step = "restore"
      BY <2>1, <2>2, <2>3, <2>5 DEF CopyFine, Attached, Restoring, List
  <2> QED BY <2>2, <2>4, <2>5
<1>4. CASE \A u \in Threads : ~Empties(u)
  <2>1. Attached /\ EventsFine(call[t]) /\ ~Empties(t)
      BY <1>4 DEF EventInv
  <2> SUFFICES ASSUME NEW x, (x \in List("contact_event"))' PROVE (rows[x].of \in List("contact"))'
      BY DEF Attached
  <2>2. x \in DOMAIN rows' /\ rows'[x].entity = "contact_event"
      BY DEF List
  <2>3. PICK y : y = rows'[x].of
      OBVIOUS
  <2>4. CASE x \in List("contact_event") /\ rows'[x].of = rows[x].of
    <3>1. y \in List("contact")
        BY <2>1, <2>3, <2>4 DEF Attached
    <3>2. ~(At(t, "erase_contact", "delete") /\ call[t].todo = {} /\ y = call[t].c)
        BY <2>1, <2>3, <2>4 DEF EventsFine, DependentsFine, At
    <3>3. ~At(t, "erase", "delete")
        BY <2>1 DEF Empties, At
    <3>4. (y \in List("contact"))'
        BY <3>1, <3>2, <3>3, ContactsGo
    <3> QED BY <2>3, <3>4
  <2>5. CASE At(t, "log_event", "add") /\ rows'[x].of = call[t].c
    <3>1. y \in List("contact")
        BY <2>1, <2>3, <2>5 DEF EventsFine, LogFine, At
    <3>2. (y \in List("contact"))'
        BY <2>5, <3>1, ContactsGo DEF At
    <3> QED BY <2>3, <3>2
  <2>6. ~At(t, "erase", "add_back")
      BY <2>1 DEF Empties, At
  <2> QED BY <2>2, <2>4, <2>5, <2>6, EventsComeFrom
<1> QED BY <1>1, <1>2, <1>3, <1>4

LEMMA EventsKept ==
    /\ Init => EventInv
    /\ Basics /\ EventInv /\ [Next]_vars => EventInv'
<1>1. ASSUME Init PROVE EventInv
  <2>1. \A u \in Threads : call[u].op = "none"
      BY <1>1 DEF Init, NoCall
  <2>2. PICK n \in Nat : n = Len(Defaults)
      BY RecordsAssumption
  <2>3. PICK p \in People \cup {None} :
            rows = Insert(Insert(Provisioned, n + 1, Contact(p, ImportCategory)), n + 2, ContactEvent(n + 1, now))
      BY <1>1, <2>2 DEF Init
  <2>4. DOMAIN Provisioned = 1 .. n
      BY <2>2, RecordsAssumption DEF Provisioned
  <2>5. \A i \in DOMAIN Provisioned : Provisioned[i].entity = "category"
      BY DEF Provisioned, Category
  <2>6. /\ ContactEvent(n + 1, now).entity = "contact_event" /\ ContactEvent(n + 1, now).of = n + 1
        /\ Contact(p, ImportCategory).entity = "contact"
      BY DEF ContactEvent, Contact
  <2>7. PICK one : one = Insert(Provisioned, n + 1, Contact(p, ImportCategory))
      OBVIOUS
  <2>8. /\ DOMAIN one = DOMAIN Provisioned \cup {n + 1} /\ one[n + 1].entity = "contact"
        /\ \A i \in DOMAIN Provisioned : i # n + 1 => one[i].entity = "category"
      BY <2>5, <2>6, <2>7 DEF Insert
  <2>9. rows = Insert(one, n + 2, ContactEvent(n + 1, now)) /\ n + 1 # n + 2
      BY <2>3, <2>7
  <2>10. /\ DOMAIN rows = DOMAIN one \cup {n + 2} /\ rows[n + 2].of = n + 1
         /\ \A i \in DOMAIN one : i # n + 2 => rows[i] = one[i]
      BY <2>6, <2>9 DEF Insert
  <2>11. n + 1 \in List("contact")
      BY <2>8, <2>9, <2>10 DEF List
  <2>12. ASSUME NEW x \in List("contact_event") PROVE rows[x].of = n + 1
      BY <2>4, <2>8, <2>9, <2>10, <2>12 DEF List
  <2>13. Attached
      BY <2>11, <2>12 DEF Attached
  <2> QED BY <2>1, <2>13 DEF EventInv, EventsFine, LogFine, DependentsFine, CopyFine
<1>2. ASSUME Basics, EventInv, [Next]_vars PROVE EventInv'
  <2>1. CASE Stays
    <3>1. rows' = rows /\ call' = call
        BY <2>1 DEF Stays
    <3>2. EventsMeet => EventsMeet'
        BY <1>2, MetStays DEF EventsMeet
    <3>3. Attached => Attached'
        BY <3>1 DEF Attached, List
    <3>4. ASSUME NEW u \in Threads PROVE /\ Empties(u) => Empties(u)'
                                         /\ EventsFine(call[u]) => EventsFine(call[u])'
        BY <3>1 DEF Empties, EventsFine, LogFine, DependentsFine, CopyFine, Contacts, List
    <3> QED BY <1>2, <3>2, <3>3, <3>4 DEF EventInv
  <2>2. ASSUME NEW t \in Threads, Step(t) PROVE EventInv'
    <3>1. CASE EventsMeet'
        BY <3>1 DEF EventInv
    <3>2. CASE ~EventsMeet'
      <4>1. ~EventsMeet
          BY <1>2, <3>2, MetStays DEF EventsMeet
      <4>2. Attached' \/ \E u \in Threads : Empties(u)'
          BY <1>2, <2>2, <3>2, <4>1, AttachedKept
      <4>3. LogFine(call[t])'
          BY <1>2, <2>2, <4>1, OwnLog DEF LogFine
      <4>4. DependentsFine(call[t])'
          BY <1>2, <2>2, <4>1, OwnDependents DEF DependentsFine
      <4>5. CopyFine(call[t])'
          BY <1>2, <2>2, <3>2, <4>1, OwnCopy DEF CopyFine
      <4>6. \A u \in Threads : EventsFine(call[u])'
          BY <1>2, <2>2, <3>2, <4>1, <4>3, <4>4, <4>5, OthersEvents DEF EventsFine
      <4> QED BY <4>2, <4>6 DEF EventInv
    <3> QED BY <3>1, <3>2
  <2> QED BY <1>2, <2>1, <2>2, EveryStep
<1> QED BY <1>1, <1>2

(* Erasing a contact takes its events along, and an erasure of the account *)
(* that fails puts back none without its contact, unless one is being      *)
(* added, or another erasure runs, at the same time (erase_contact in      *)
(* privacy/dsr.py, erase_subject in privacy/erasure.py).                   *)
THEOREM EventsKeepTheirContact == Spec => []NoEventWithoutContact
<1> DEFINE Inv == Basics /\ EventInv
<1>1. Init => Inv
    BY BasicsHold, EventsKept
<1>2. Inv /\ [Next]_vars => Inv'
    BY BasicsHold, EventsKept
<1>3. Inv => NoEventWithoutContact
    BY DEF EventInv, EventsMeet, Attached, Empties, NoEventWithoutContact, Erasing, Under
<1> QED BY <1>1, <1>2, <1>3, PTL DEF Spec

-------------------------------------------------------------------------------
(* How contacts come by their categories.                                  *)
LEMMA ContactsMove ==
    ASSUME Basics, NEW t \in Threads, Step(t), NEW x \in DOMAIN rows', rows'[x].entity = "contact"
    PROVE  \/ /\ x \in List("contact") /\ rows'[x].key = rows[x].key
              /\ \/ rows'[x].of = rows[x].of
                 \/ At(t, "delete_category", "reassign") /\ rows'[x].of = call[t].to
                 \/ At(t, "update_contact", "write") /\ rows'[x].of = call[t].g
           \/ At(t, "create_contact", "write") /\ rows'[x].of = call[t].g
           \/ At(t, "import", "person") /\ rows'[x].key # None /\ rows'[x].of = ImportCategory
           \/ At(t, "erase", "add_back") /\ x \in DOMAIN call[t].copy /\ rows'[x] = call[t].copy[x]
<1>1. \A p, g : Contact(p, g).key = p /\ Contact(p, g).of = g
    BY DEF Contact
<1>2. None \notin People
    BY RecordsAssumption
<1>3. CASE x \in List("contact") /\ rows'[x].key = rows[x].key
  <2>1. x \in DOMAIN rows
      BY <1>3 DEF List
  <2>2. \A row : Added(row) => rows'[x] = rows[x]
      BY <2>1 DEF Added
  <2>3. \A y : Deleted(y) => rows'[x] = rows[x]
      BY DEF Deleted
  <2>4. \A y : Restored(t, y) => \/ rows'[x] = rows[x]
                                 \/ x \in DOMAIN call[t].copy /\ rows'[x] = call[t].copy[x]
      BY <2>1 DEF Restored
  <2>5. \A c : Rectified(c) => rows'[x].of = rows[x].of
      BY <2>1 DEF Rectified, Rewritten
  <2>6. ASSUME NEW g \in List("category"), Renamed(g) PROVE rows'[x].of = rows[x].of
      BY <1>3, <2>1, <2>6 DEF Renamed, Rewritten, List
  <2>7. \A c, g : Moved(c, g) => rows'[x].of = rows[x].of \/ rows'[x].of = g
      BY <2>1 DEF Moved, Rewritten
  <2> QED BY <1>3, <2>2, <2>3, <2>4, <2>5, <2>6, <2>7, StepIs DEF Writes, Basics
<1> QED BY <1>1, <1>2, <1>3, ContactsComeFrom

LEMMA MisdirectedGrows == ASSUME [Next]_vars PROVE misdirected \subseteq misdirected'
<1>1. ASSUME NEW t \in Threads, CategoryStep(t) PROVE misdirected \subseteq misdirected'
    BY <1>1
    DEF CategoryStep, AddCategory, ListContacts, FindTarget, Reassign, DeleteCategory, FindCategory,
        WriteContact, StartCreateCategory, Rename, StartCreateContact, StartDeleteCategory, StartMoveContact
<1> QED BY <1>1, EveryStep DEF Stays

LEMMA DeleteCategorySteps ==
    ASSUME Types, NEW t \in Threads, Step(t), call'[t].op = "delete_category"
    PROVE  \/ ListContacts(t) \/ FindTarget(t) \/ Reassign(t)
           \/ \E g \in List("category") : \E to \in List("category") \cup {None} : StartDeleteCategory(t, g, to)
<1>1. call'[t] # NoCall
    BY DEF NoCall
<1>2. CASE CategoryStep(t)
    BY <1>1, <1>2, CategoryOps
<1>3. CASE ImportStep(t)
    BY <1>1, <1>3, ImportOps
<1>4. CASE PrivacyStep(t)
    BY <1>1, <1>4, PrivacyOps
<1> QED BY <1>2, <1>3, <1>4 DEF Step

LEMMA ContactSteps ==
    ASSUME Types, NEW t \in Threads, Step(t), call'[t].op \in {"create_contact", "update_contact"}
    PROVE  \/ FindCategory(t)
           \/ \E g \in List("category") : StartCreateContact(t, g) /\ call'[t].op = "create_contact"
           \/ \E g \in List("category"), c \in List("contact") : StartMoveContact(t, c, g)
<1>1. call'[t] # NoCall
    BY DEF NoCall
<1>2. CASE CategoryStep(t)
    BY <1>1, <1>2, CategoryOps
<1>3. CASE ImportStep(t)
    BY <1>1, <1>3, ImportOps
<1>4. CASE PrivacyStep(t)
    BY <1>1, <1>4, PrivacyOps
<1> QED BY <1>2, <1>3, <1>4 DEF Step

-------------------------------------------------------------------------------
(* Contacts have their categories, and keep them through the deletion of a *)
(* category and through erasures that none of them overlaps.               *)
HomesMeet ==
    Met({"delete_category", "erase"}, {"create_contact", "update_contact", "delete_category", "erase"})
Imported(row) == row.key # None /\ row.of = ImportCategory
Housed(row, homes) == row.of \in homes \cup misdirected \/ Imported(row)
AllHoused == \A x \in List("contact") : Housed(rows[x], List("category"))
Categories(c) == {y \in DOMAIN c.copy : c.copy[y].entity = "category"}

WriteFine(c) == c.op \in {"create_contact", "update_contact"} /\ c.step = "write" => c.g \in List("category")
DeleteFine(c) ==
    c.op = "delete_category" =>
        /\ c.step = "reassign" => c.to \in List("category") /\ (c.to = c.g => c.g \in misdirected)
        /\ c.step = "delete" => c.todo = {}
        /\ c.step # "list" => \A x \in List("contact") :
               rows[x].of = c.g => x \in c.todo \/ Imported(rows[x]) \/ c.g \in misdirected
HomesFine(c) ==
    c.op = "erase" =>
        /\ c.step = "list" \/ c.next > 2
        /\ \A x \in DOMAIN c.copy : c.copy[x].entity = "contact" =>
               IF c.next > 2 THEN Housed(c.copy[x], Categories(c)) ELSE Housed(c.copy[x], List("category"))
        /\ c.next > 2 => \A x \in List("contact") : Housed(rows[x], Categories(c))
        /\ c.next > 1 => \A x \in List("contact") : x \in DOMAIN c.copy \/ Imported(rows[x])
        /\ c.step \in {"revoke", "delete"} => \A x \in List("contact") : x \in c.todo \/ Imported(rows[x])
        /\ c.step \in Restoring => Categories(c) \subseteq List("category") \cup c.todo
CallHoused(c) == WriteFine(c) /\ DeleteFine(c) /\ HomesFine(c)
HomeInv ==
    HomesMeet \/ ((AllHoused \/ \E u \in Threads : Empties(u)) /\ \A u \in Threads : CallHoused(call[u]))

LEMMA NoRaceForHomes ==
    ASSUME Basics, [Next]_vars, ~HomesMeet', NEW t \in Threads, NEW u \in Threads, t # u
    PROVE  /\ call[u].op \in {"delete_category", "erase"} =>
                  call[t].op \notin {"create_contact", "update_contact", "delete_category", "erase"}
           /\ call[u].op \in {"create_contact", "update_contact"} => call[t].op \notin {"delete_category", "erase"}
BY MeetsNext DEF HomesMeet

LEMMA OthersHomes ==
    ASSUME Basics, HomeInv, ~HomesMeet, ~HomesMeet', [Next]_vars, NEW t \in Threads, Step(t),
           NEW u \in Threads \ {t}
    PROVE  CallHoused(call[u])'
<1>1. call'[u] = call[u] /\ CallHoused(call[u]) /\ misdirected \subseteq misdirected'
    BY StepIs, MisdirectedGrows DEF Basics, HomeInv
<1>2. PICK c : c = call[u] /\ c = call'[u]
    BY <1>1
<1>3. ASSUME call[t].op \notin {"delete_category", "erase"}, NEW y \in List("category")
      PROVE  (y \in List("category"))'
    BY <1>3, CategoriesGo DEF At
<1>4. ASSUME call[t].op \notin {"create_contact", "update_contact", "delete_category", "erase"},
             NEW x, (x \in List("contact"))'
      PROVE  \/ x \in List("contact") /\ rows'[x].key = rows[x].key /\ rows'[x].of = rows[x].of
             \/ rows'[x].key # None /\ rows'[x].of = ImportCategory
    BY <1>4, ContactsMove DEF At, List
<1>5. WriteFine(call[u])'
  <2>1. CASE c.op \in {"create_contact", "update_contact"} /\ c.step = "write"
    <3>1. call[t].op \notin {"delete_category", "erase"} /\ c.g \in List("category")
        BY <1>1, <1>2, <2>1, NoRaceForHomes DEF CallHoused, WriteFine
    <3>2. (c.g \in List("category"))'
        BY <1>3, <3>1
    <3> QED BY <1>2, <3>2 DEF WriteFine
  <2> QED BY <1>2, <2>1 DEF WriteFine
<1>6. DeleteFine(call[u])'
  <2>1. CASE c.op = "delete_category"
    <3>1. call[t].op \notin {"create_contact", "update_contact", "delete_category", "erase"} /\ DeleteFine(c)
        BY <1>1, <1>2, <2>1, NoRaceForHomes DEF CallHoused
    <3>2. c.to \in List("category") => (c.to \in List("category"))'
        BY <1>3, <3>1
    <3>3. ASSUME c.step # "list", NEW x, (x \in List("contact"))', rows'[x].of = c.g
          PROVE  x \in c.todo \/ Imported(rows[x])' \/ c.g \in misdirected'
        BY <1>1, <1>4, <2>1, <3>1, <3>3 DEF DeleteFine, Imported
    <3>4. DeleteFine(c)'
        BY <1>1, <2>1, <3>1, <3>2, <3>3 DEF DeleteFine
    <3> QED BY <1>2, <3>4 DEF DeleteFine
  <2> QED BY <1>2, <2>1 DEF DeleteFine
<1>7. HomesFine(call[u])'
  <2>1. CASE c.op = "erase"
    <3>1. call[t].op \notin {"create_contact", "update_contact", "delete_category", "erase"} /\ HomesFine(c)
        BY <1>1, <1>2, <2>1, NoRaceForHomes DEF CallHoused
    <3>2. ASSUME NEW y, y \in List("category") PROVE (y \in List("category"))'
        BY <1>3, <3>1, <3>2
    <3>3. ASSUME NEW x, (x \in List("contact"))'
          PROVE  \/ x \in List("contact") /\ rows'[x].key = rows[x].key /\ rows'[x].of = rows[x].of
                 \/ rows'[x].key # None /\ rows'[x].of = ImportCategory
        BY <1>4, <3>1, <3>3
    <3>4. HomesFine(c)'
        BY <1>1, <2>1, <3>1, <3>2, <3>3 DEF HomesFine, Housed, Imported, Categories
    <3> QED BY <1>2, <3>4 DEF HomesFine, Housed, Imported, Categories
  <2> QED BY <1>2, <2>1 DEF HomesFine
<1> QED BY <1>5, <1>6, <1>7 DEF CallHoused

LEMMA OwnWrite ==
    ASSUME Basics, NEW t \in Threads, Step(t), call'[t].op \in {"create_contact", "update_contact"}
    PROVE  WriteFine(call[t])'
<1>1. call'[t] # NoCall
    BY DEF NoCall
<1>2. CASE FindCategory(t)
  <2>1. rows' = rows /\ call'[t].g \in List("category")
      BY <1>1, <1>2, FindCategoryDoes DEF FindCategory, Basics
  <2> QED BY <2>1 DEF WriteFine, List
<1>3. ASSUME NEW g, StartCreateContact(t, g), call'[t].op = "create_contact" PROVE call'[t].step = "category"
    BY <1>1, <1>3, Goes DEF StartCreateContact, Basics
<1>4. ASSUME NEW g, NEW c, StartMoveContact(t, c, g) PROVE call'[t].step = "category"
    BY <1>4, Goes DEF StartMoveContact, Basics
<1> QED BY <1>2, <1>3, <1>4, ContactSteps DEF Basics, WriteFine

LEMMA OwnDelete ==
    ASSUME Basics, HomeInv, ~HomesMeet, [Next]_vars, NEW t \in Threads, Step(t), call'[t].op = "delete_category"
    PROVE  DeleteFine(call[t])'
<1>1. call'[t] # NoCall
    BY DEF NoCall
<1>2. CASE ListContacts(t)
  <2>1. /\ rows' = rows /\ call'[t].g = call[t].g
        /\ call'[t].todo = {x \in List("contact") : rows[x].of = call[t].g}
        /\ call'[t].step = IF call'[t].todo = {} THEN "delete" ELSE "target"
      BY <1>2, ListContactsDoes DEF ListContacts, Basics, StillDeletes
  <2> QED BY <2>1 DEF DeleteFine, List
<1>3. CASE FindTarget(t)
  <2>1. PICK c \in DeleteCategoryCalls : c = call[t] /\ c.step = "target" /\ DeleteFine(c)
      BY <1>3, FindTargetDoes DEF Basics, DeletesCategory, HomeInv, CallHoused
  <2>2. PICK d \in DeleteCategoryCalls :
            /\ d = call'[t] /\ d.g = c.g /\ d.to = c.to /\ d.todo = c.todo /\ d.step = "reassign"
            /\ c.to \in List("category") /\ misdirected' = misdirected \cup ({c.g} \cap {c.to})
      BY <1>1, <1>3, <2>1, FindTargetDoes DEF Basics, StillDeletes
  <2>3. rows' = rows /\ c.op = "delete_category"
      BY <1>3 DEF FindTarget, DeleteCategoryCalls
  <2>4. DeleteFine(d)'
      BY <2>1, <2>2, <2>3 DEF DeleteFine, Imported, List
  <2> QED BY <2>2, <2>4 DEF DeleteFine
<1>4. CASE Reassign(t)
  <2>1. PICK c \in DeleteCategoryCalls : c = call[t] /\ c.step = "reassign" /\ DeleteFine(c)
      BY <1>4, ReassignDoes DEF Basics, DeletesCategory, HomeInv, CallHoused
  <2>2. PICK d \in DeleteCategoryCalls : d = call'[t] /\ d.g = c.g /\ d.to = c.to
      BY <1>4, <2>1, ReassignDoes DEF Basics, StillDeletes
  <2>3. PICK x \in c.todo : /\ Recategorize(x, c.to) /\ d.todo = c.todo \ {x}
                            /\ d.step = IF d.todo = {} THEN "delete" ELSE "reassign"
      BY <1>4, <2>1, <2>2, ReassignDoes DEF Basics
  <2>4. /\ DOMAIN rows' = DOMAIN rows
        /\ \A y \in DOMAIN rows : y # x => rows'[y] = rows[y]
        /\ x \in DOMAIN rows => SameButOf(x) /\ rows'[x].of = c.to
    <3>1. c.to \in Nat
        BY DEF DeleteCategoryCalls
    <3> QED BY <2>3, <3>1, RecategorizeDoes DEF Basics
  <2>5. c.op = "delete_category" /\ misdirected' = misdirected
      BY <1>4 DEF Reassign, DeleteCategoryCalls
  <2>6. (c.to \in List("category"))' /\ (c.to = c.g => c.g \in misdirected)
      BY <2>1, <2>4, <2>5 DEF DeleteFine, List, SameButOf
  <2>7. ASSUME NEW y, (y \in List("contact"))', rows'[y].of = c.g
        PROVE  y \in d.todo \/ Imported(rows[y])' \/ c.g \in misdirected'
    <3>1. CASE y = x
        BY <2>4, <2>5, <2>6, <2>7, <3>1 DEF List
    <3>2. CASE y # x
        BY <2>1, <2>3, <2>4, <2>5, <2>7, <3>2 DEF List, DeleteFine, Imported
    <3> QED BY <3>1, <3>2
  <2>8. DeleteFine(d)'
      BY <2>2, <2>3, <2>5, <2>6, <2>7 DEF DeleteFine
  <2> QED BY <2>2, <2>8 DEF DeleteFine
<1>5. ASSUME NEW g, NEW to, StartDeleteCategory(t, g, to) PROVE DeleteFine(call[t])'
  <2>1. call'[t].step = "list"
      BY <1>5, Goes DEF StartDeleteCategory, Basics
  <2> QED BY <2>1 DEF DeleteFine
<1> QED BY <1>2, <1>3, <1>4, <1>5, DeleteCategorySteps DEF Basics

(* The listing copies contacts, then categories: with none moved or        *)
(* deleted in between, the contacts it copies have theirs in the copy.     *)
LEMMA OwnHomesListing ==
    ASSUME Basics, HomeInv, ~HomesMeet, ~HomesMeet', [Next]_vars, NEW t \in Threads, Step(t), ListEntity(t),
           call[t].op = "erase"
    PROVE  HomesFine(call[t])'
<1>1. PICK c \in ListingCalls : /\ c = call[t] /\ c.step = "list" /\ c.next \in 1 .. 3 /\ c.op = "erase"
                                /\ HomesFine(c)
    BY ListEntityDoes DEF Basics, Lists, HomeInv, CallHoused
<1>2. PICK listed : listed = List(Kind(c.next))
    OBVIOUS
<1>3. PICK d \in ListingCalls : d = call'[t] /\ d.op = "erase"
    BY <1>1, ListEntityDoes DEF Basics, StillLists
<1>4. /\ d.next = c.next + 1 /\ DOMAIN d.copy = DOMAIN c.copy \cup listed /\ d.todo = DOMAIN d.copy
      /\ \A x \in listed : d.copy[x] = rows[x]
      /\ \A x \in DOMAIN c.copy \ listed : d.copy[x] = c.copy[x]
      /\ d.step = IF c.next < 3 THEN "list" ELSE "revoke"
    BY <1>1, <1>2, <1>3, ListEntityDoes DEF Basics
<1>5. rows' = rows /\ listed \subseteq DOMAIN rows /\ \A x \in listed : rows[x].entity = Kind(c.next)
    BY <1>2 DEF ListEntity, List
<1>6. \A u \in Threads : ~Empties(u)
    BY <1>1, NoRaceForHomes DEF Empties
<1>7. AllHoused
    BY <1>6 DEF HomeInv
<1>8. Categories(c) \subseteq Categories(d)
  <2> SUFFICES ASSUME NEW y \in Categories(c) PROVE y \in Categories(d)
      OBVIOUS
  <2>1. Sees(y, "category")
      BY <1>1 DEF Categories, Sees, CallSees
  <2>2. y \in listed => rows[y].entity = "category"
      BY <1>5, <2>1, SeenOnce, ItsRows
  <2> QED BY <1>4, <2>2 DEF Categories
<1>9. c.next = 2 => List("category") \subseteq Categories(d)
    BY <1>2, <1>4, <1>5, KindsAre DEF Categories
<1>10. misdirected \subseteq misdirected'
    BY MisdirectedGrows
<1>11. List("contact")' = List("contact") /\ List("category")' = List("category")
    BY <1>5 DEF List
<1>12. ASSUME NEW x \in DOMAIN d.copy, d.copy[x].entity = "contact"
       PROVE  IF d.next > 2 THEN Housed(d.copy[x], Categories(d)) ELSE Housed(d.copy[x], List("category"))
  <2>1. CASE x \in listed
    <3>1. x \in List("contact") /\ d.copy[x] = rows[x]
        BY <1>4, <1>5, <1>12, <2>1 DEF List
    <3>2. Housed(d.copy[x], List("category"))
        BY <1>7, <3>1 DEF AllHoused
    <3>3. c.next = 1
        BY <1>1, <1>4, <1>5, <1>12, <2>1, KindsAre
    <3> QED BY <1>4, <3>2, <3>3
  <2>2. CASE x \notin listed
    <3>1. IF c.next > 2 THEN Housed(d.copy[x], Categories(c)) ELSE Housed(d.copy[x], List("category"))
        BY <1>1, <1>4, <1>12, <2>2 DEF HomesFine
    <3> QED BY <1>1, <1>4, <1>8, <1>9, <3>1 DEF Housed
  <2> QED BY <2>1, <2>2
<1>13. ASSUME d.next > 2, NEW x \in List("contact") PROVE Housed(rows[x], Categories(d))
  <2>1. CASE c.next = 2
      BY <1>7, <1>9, <2>1 DEF AllHoused, Housed
  <2>2. CASE c.next > 2
      BY <1>1, <1>8, <2>2 DEF HomesFine, Housed
  <2> QED BY <1>1, <1>4, <1>13, <2>1, <2>2
<1>14. ASSUME NEW x \in List("contact") PROVE x \in DOMAIN d.copy \/ Imported(rows[x])
  <2>1. CASE c.next = 1
      BY <1>2, <1>4, <2>1, KindsAre
  <2>2. CASE c.next > 1
      BY <1>1, <1>4, <2>2 DEF HomesFine
  <2> QED BY <1>1, <2>1, <2>2
<1>15. d.step \notin Restoring /\ d.next > 1 /\ (d.step = "list" \/ d.next > 2)
    BY <1>1, <1>4 DEF Restoring
<1>16. \A row, homes : Housed(row, homes) => row.of \in homes \cup misdirected' \/ Imported(row)
    BY <1>10 DEF Housed
<1>17. HomesFine(d)'
    BY <1>3, <1>4, <1>5, <1>11, <1>12, <1>13, <1>14, <1>15, <1>16 DEF HomesFine, Housed, Imported, Categories
<1> QED BY <1>3, <1>17 DEF HomesFine, Housed, Imported, Categories

LEMMA StartHomes ==
    ASSUME Basics, NEW t \in Threads, NEW op \in {"export", "erase"}, StartListing(t, op)
    PROVE  HomesFine(call[t])'
<1>1. PICK d \in ListingCalls : /\ d = call'[t] /\ d.step = "list" /\ d.next = 1 /\ DOMAIN d.copy = {}
    BY StartListingDoes DEF Basics
<1>2. HomesFine(d)'
    BY <1>1 DEF HomesFine, Restoring
<1> QED BY <1>1, <1>2 DEF HomesFine, Housed, Imported, Categories

LEMMA OwnHomesWorkingOff ==
    ASSUME Basics, HomeInv, ~HomesMeet, [Next]_vars, NEW t \in Threads, Step(t), call'[t] # NoCall,
           RevokeTokens(t) \/ FinishErasure(t) \/ \E x : DeleteListed(t, x) \/ Restores(t, x)
    PROVE  HomesFine(call[t])'
<1>1. PICK c \in ListingCalls : c = call[t] /\ c.op = "erase" /\ HomesFine(c)
    BY RevokeTokensDoes, FinishErasureDoes, WorksOff, RestoresDoes DEF Basics, Lists, HomeInv, CallHoused
<1>2. Goes4(t)
    BY RevokeTokensDoes, FinishErasureDoes, WorksOff, RestoresDoes DEF Basics
<1>3. PICK d \in ListingCalls : d = call'[t] /\ d.op = "erase" /\ d.copy = c.copy /\ d.next = c.next
    BY <1>1, <1>2 DEF Goes4, StillLists
<1>4. Categories(d) = Categories(c) /\ misdirected \subseteq misdirected'
    BY <1>3, MisdirectedGrows DEF Categories
<1>5. c.step # "list" /\ c.next > 2
    BY <1>1, RevokeTokensDoes, FinishErasureDoes, DeleteListedDoes, RestoresDoes
       DEF Basics, Lists, HomesFine, Restoring
<1>6. \A x \in DOMAIN c.copy : c.copy[x].entity = "contact" => Housed(c.copy[x], Categories(c))
    BY <1>1, <1>5 DEF HomesFine
<1>7. \A x \in List("contact") :
          Housed(rows[x], Categories(c)) /\ (x \in DOMAIN c.copy \/ Imported(rows[x]))
  <2>1. c.next > 1
      BY <1>5 DEF ListingCalls
  <2>2. \A x \in List("contact") : Housed(rows[x], Categories(c))
      BY <1>1, <1>5 DEF HomesFine
  <2>3. \A x \in List("contact") : x \in DOMAIN c.copy \/ Imported(rows[x])
      BY <1>1, <2>1 DEF HomesFine
  <2> QED BY <2>2, <2>3
<1>8. ASSUME \A x : (x \in List("contact"))' =>
                  Housed(rows'[x], Categories(c)) /\ (x \in DOMAIN c.copy \/ Imported(rows'[x])),
             d.step \in {"revoke", "delete"} =>
                  \A x : (x \in List("contact"))' => x \in d.todo \/ Imported(rows'[x]),
             d.step \in Restoring => \A y \in Categories(c) : (y \in List("category"))' \/ y \in d.todo,
             d.step # "list"
      PROVE  HomesFine(call[t])'
  <2>1. \A row, homes : Housed(row, homes) => row.of \in homes \cup misdirected' \/ Imported(row)
      BY <1>4 DEF Housed
  <2>2. HomesFine(d)'
      BY <1>3, <1>5, <1>6, <1>8, <2>1 DEF HomesFine, Housed, Imported, Categories
  <2> QED BY <1>3, <2>2 DEF HomesFine, Housed, Imported, Categories
<1>9. CASE RevokeTokens(t) \/ FinishErasure(t)
  <2>1. rows' = rows /\ c.step \in {"revoke", "delete"}
      BY <1>1, <1>9, RevokeTokensDoes, FinishErasureDoes DEF RevokeTokens, FinishErasure, Basics, Lists
  <2>2. \/ d.step = "delete" /\ d.todo = c.todo
        \/ d.step = "restore" /\ d.todo = DOMAIN c.copy
      BY <1>1, <1>3, <1>9, RevokeTokensDoes, FinishErasureDoes DEF Basics
  <2>3. \A x : (x \in List("contact"))' => x \in List("contact")
      BY <2>1 DEF List
  <2>4. d.step = "delete" => \A x \in List("contact") : x \in d.todo \/ Imported(rows[x])
      BY <1>1, <2>1, <2>2 DEF HomesFine
  <2>5. d.step \in Restoring => Categories(c) \subseteq d.todo
      BY <2>2 DEF Categories, Restoring
  <2> QED BY <1>7, <1>8, <2>1, <2>2, <2>3, <2>4, <2>5
<1>10. ASSUME NEW y, DeleteListed(t, y) PROVE HomesFine(call[t])'
  <2>1. c.step = "delete" /\ d.step = "delete" /\ d.todo = c.todo \ {y}
      BY <1>1, <1>3, <1>10, WorksOff, DeleteListedDoes DEF Basics, Lists
  <2>2. DOMAIN rows' = DOMAIN rows \ {y} /\ \A z \in DOMAIN rows' : rows'[z] = rows[z]
      BY <1>10, DeleteListedDoes, DeleteRowDoes DEF Basics
  <2>3. \A x : (x \in List("contact"))' => x \in List("contact") /\ x # y /\ rows'[x] = rows[x]
      BY <2>2 DEF List
  <2>4. \A x \in List("contact") : x \in c.todo \/ Imported(rows[x])
      BY <1>1, <2>1 DEF HomesFine
  <2> QED BY <1>7, <1>8, <2>1, <2>3, <2>4 DEF Restoring
<1>11. ASSUME NEW y, Restores(t, y) PROVE HomesFine(call[t])'
  <2>1. c.step \in Restoring /\ d.step \in Restoring
      BY <1>1, <1>3, <1>11, RestoresDoes DEF Basics
  <2>2. Categories(c) \subseteq List("category") \cup c.todo
      BY <1>1, <2>1 DEF HomesFine
  <2>3. CASE LookForListed(t, y)
    <3>1. d.todo = c.todo \/ (y \in DOMAIN rows /\ d.todo = c.todo \ {y})
        BY <1>1, <1>3, <2>3, LookForListedDoes DEF Basics
    <3>2. rows' = rows /\ List("contact")' = List("contact") /\ List("category")' = List("category")
        BY <2>3 DEF LookForListed, List
    <3>3. y \in Categories(c) /\ y \in DOMAIN rows => y \in List("category")
      <4>1. y \in Categories(c) => Sees(y, "category")
          BY <1>1 DEF Categories, Sees, CallSees
      <4> QED BY <4>1, SeenOnce, ItsRows
    <3>4. \A x \in Categories(c) : x \in List("category") \/ x \in d.todo
        BY <2>2, <3>1, <3>3
    <3> QED BY <1>7, <1>8, <2>1, <3>2, <3>4 DEF Restoring
  <2>4. CASE AddBack(t) /\ y = call[t].missing
    <3>1. d.todo = c.todo \ {y}
        BY <1>1, <1>3, <2>4, AddBackDoes DEF Basics
    <3>2. /\ DOMAIN rows' = DOMAIN rows \cup {y} /\ \A z \in DOMAIN rows : z # y => rows'[z] = rows[z]
          /\ y \in DOMAIN c.copy /\ rows'[y] = c.copy[y]
        BY <1>1, <2>4, AddBackWrites DEF Basics
    <3>3. ASSUME NEW x, (x \in List("contact"))'
          PROVE  Housed(rows'[x], Categories(c)) /\ (x \in DOMAIN c.copy \/ Imported(rows'[x]))
      <4>1. CASE x = y
          BY <1>6, <3>2, <3>3, <4>1 DEF List
      <4>2. CASE x # y
        <5>1. x \in List("contact") /\ rows'[x] = rows[x]
            BY <3>2, <3>3, <4>2 DEF List
        <5> QED BY <1>7, <5>1
      <4> QED BY <4>1, <4>2
    <3>4. ASSUME NEW x \in Categories(c) PROVE (x \in List("category"))' \/ x \in d.todo
      <4>1. CASE x = y
          BY <3>2, <4>1 DEF Categories, List
      <4>2. CASE x # y
          BY <2>2, <3>1, <3>2, <4>2 DEF List
      <4> QED BY <4>1, <4>2
    <3> QED BY <1>8, <2>1, <3>3, <3>4 DEF Restoring
  <2> QED BY <1>11, <2>3, <2>4 DEF Restores
<1> QED BY <1>9, <1>10, <1>11

LEMMA OwnHomes ==
    ASSUME Basics, HomeInv, ~HomesMeet, ~HomesMeet', [Next]_vars, NEW t \in Threads, Step(t),
           call'[t].op = "erase"
    PROVE  HomesFine(call[t])'
<1>1. call'[t] # NoCall
    BY DEF NoCall
<1>2. ListEntity(t) => call[t].op = "erase"
    BY ListEntityDoes DEF Basics, StillLists
<1> QED BY <1>1, <1>2, ListingSteps, StartHomes, OwnHomesListing, OwnHomesWorkingOff DEF Basics

LEMMA HousedKept ==
    ASSUME Basics, HomeInv, ~HomesMeet, ~HomesMeet', [Next]_vars, NEW t \in Threads, Step(t)
    PROVE  AllHoused' \/ \E u \in Threads : Empties(u)'
<1>0. misdirected \subseteq misdirected'
    BY MisdirectedGrows
<1>1. CASE \E u \in Threads \ {t} : Empties(u)
    BY <1>1, StepIs DEF Basics, Empties
<1>2. CASE Empties(t) /\ call'[t].op = "erase"
    BY <1>2, EmptiesOn
<1>3. CASE Empties(t) /\ call'[t].op # "erase"
  <2>1. PICK c \in ListingCalls : c = call[t] /\ c.op = "erase" /\ HomesFine(c)
      BY <1>3, CallIs, CallsAre DEF Empties, Basics, HomeInv, CallHoused
  <2>2. rows' = rows /\ c.todo = {} /\ c.step \in {"delete", "restore"}
      BY <1>3, <2>1, ErasureEnds DEF Basics
  <2>3. c.next > 2
      BY <2>1, <2>2 DEF HomesFine
  <2>4. \A x \in List("contact") : Housed(rows[x], List("category"))
    <3>1. CASE c.step = "delete"
        BY <2>1, <2>2, <3>1 DEF HomesFine, Housed
    <3>2. CASE c.step = "restore"
        BY <2>1, <2>2, <2>3, <3>2 DEF HomesFine, Housed, Restoring
    <3> QED BY <2>2, <3>1, <3>2
  <2> QED BY <1>0, <2>2, <2>4 DEF AllHoused, Housed, Imported, List
<1>4. CASE \A u \in Threads : ~Empties(u)
  <2>1. AllHoused /\ CallHoused(call[t]) /\ ~Empties(t)
      BY <1>4 DEF HomeInv
  <2>2. ~At(t, "erase", "add_back") /\ ~At(t, "erase", "delete")
      BY <2>1 DEF Empties, At
  <2> SUFFICES ASSUME NEW x, (x \in List("contact"))' PROVE Housed(rows[x], List("category"))'
      BY DEF AllHoused
  <2>3. x \in DOMAIN rows' /\ rows'[x].entity = "contact"
      BY DEF List
  <2>4. ASSUME NEW g \in List("category"), rows'[x].of = g, ~At(t, "delete_category", "delete")
        PROVE  Housed(rows[x], List("category"))'
    <3>1. (g \in List("category"))'
        BY <2>2, <2>4, CategoriesGo
    <3> QED BY <2>4, <3>1 DEF Housed
  <2>5. CASE x \in List("contact") /\ rows'[x].key = rows[x].key /\ rows'[x].of = rows[x].of
    <3>1. Housed(rows[x], List("category"))
        BY <2>1, <2>5 DEF AllHoused
    <3>2. CASE rows[x].of \in misdirected \/ Imported(rows[x])
        BY <1>0, <2>5, <3>2 DEF Housed, Imported
    <3>3. CASE rows[x].of \in List("category") /\ ~At(t, "delete_category", "delete")
        BY <2>4, <2>5, <3>3
    <3>4. CASE rows[x].of \in List("category") /\ At(t, "delete_category", "delete") /\ rows[x].of # call[t].g
      <4>1. PICK g \in List("category") : g = rows[x].of
          BY <3>4
      <4>2. (g \in List("category"))'
          BY <2>2, <3>4, <4>1, CategoriesGo
      <4> QED BY <2>5, <4>1, <4>2 DEF Housed
    <3>5. CASE At(t, "delete_category", "delete") /\ rows[x].of = call[t].g
        BY <2>1, <2>5, <3>2, <3>5 DEF CallHoused, DeleteFine, At
    <3> QED BY <3>1, <3>2, <3>3, <3>4, <3>5 DEF Housed
  <2>6. CASE At(t, "delete_category", "reassign") /\ rows'[x].of = call[t].to
    <3>1. call[t].to \in List("category")
        BY <2>1, <2>6 DEF CallHoused, DeleteFine, At
    <3> QED BY <2>4, <2>6, <3>1 DEF At
  <2>7. CASE /\ At(t, "update_contact", "write") \/ At(t, "create_contact", "write")
             /\ rows'[x].of = call[t].g
    <3>1. call[t].g \in List("category")
        BY <2>1, <2>7 DEF CallHoused, WriteFine, At
    <3> QED BY <2>4, <2>7, <3>1 DEF At
  <2>8. CASE rows'[x].key # None /\ rows'[x].of = ImportCategory
      BY <2>8 DEF Housed, Imported
  <2> QED BY <2>2, <2>3, <2>5, <2>6, <2>7, <2>8, ContactsMove
<1> QED BY <1>1, <1>2, <1>3, <1>4

LEMMA HomeKept ==
    /\ Init => HomeInv
    /\ Basics /\ HomeInv /\ [Next]_vars => HomeInv'
<1>1. ASSUME Init PROVE HomeInv
  <2>1. \A u \in Threads : call[u].op = "none"
      BY <1>1 DEF Init, NoCall
  <2>2. PICK n \in Nat : n = Len(Defaults) /\ ImportCategory \in 1 .. n
      BY RecordsAssumption
  <2>3. PICK p \in People \cup {None} :
            rows = Insert(Insert(Provisioned, n + 1, Contact(p, ImportCategory)), n + 2, ContactEvent(n + 1, now))
      BY <1>1, <2>2 DEF Init
  <2>4. DOMAIN Provisioned = 1 .. n
      BY <2>2, RecordsAssumption DEF Provisioned
  <2>5. \A i \in DOMAIN Provisioned : Provisioned[i].entity = "category"
      BY DEF Provisioned, Category
  <2>6. /\ ContactEvent(n + 1, now).entity = "contact_event"
        /\ Contact(p, ImportCategory).entity = "contact" /\ Contact(p, ImportCategory).of = ImportCategory
      BY DEF ContactEvent, Contact
  <2>7. PICK one : one = Insert(Provisioned, n + 1, Contact(p, ImportCategory))
      OBVIOUS
  <2>8. /\ DOMAIN one = DOMAIN Provisioned \cup {n + 1}
        /\ one[n + 1].entity = "contact" /\ one[n + 1].of = ImportCategory
        /\ \A i \in DOMAIN Provisioned : i # n + 1 => one[i].entity = "category"
      BY <2>5, <2>6, <2>7 DEF Insert
  <2>9. rows = Insert(one, n + 2, ContactEvent(n + 1, now)) /\ n + 1 # n + 2
      BY <2>3, <2>7
  <2>10. /\ DOMAIN rows = DOMAIN one \cup {n + 2} /\ rows[n + 2].entity = "contact_event"
         /\ \A i \in DOMAIN one : i # n + 2 => rows[i] = one[i]
      BY <2>6, <2>9 DEF Insert
  <2>11. ImportCategory \in List("category")
      BY <2>2, <2>4, <2>8, <2>10 DEF List
  <2>12. ASSUME NEW x \in List("contact") PROVE rows[x].of = ImportCategory
      BY <2>4, <2>8, <2>10, <2>12 DEF List
  <2>13. AllHoused
      BY <2>11, <2>12 DEF AllHoused, Housed
  <2> QED BY <2>1, <2>13 DEF HomeInv, CallHoused, WriteFine, DeleteFine, HomesFine
<1>2. ASSUME Basics, HomeInv, [Next]_vars PROVE HomeInv'
  <2>1. CASE Stays
    <3>1. rows' = rows /\ call' = call /\ misdirected \subseteq misdirected'
        BY <1>2, <2>1, MisdirectedGrows DEF Stays
    <3>2. HomesMeet => HomesMeet'
        BY <1>2, MetStays DEF HomesMeet
    <3>3. AllHoused => AllHoused'
        BY <3>1 DEF AllHoused, Housed, Imported, List
    <3>4. ASSUME NEW u \in Threads PROVE /\ Empties(u) => Empties(u)'
                                         /\ CallHoused(call[u]) => CallHoused(call[u])'
      <4>1. PICK c : c = call[u] /\ c = call'[u]
          BY <3>1
      <4>2. CallHoused(c) => CallHoused(c)'
          BY <3>1 DEF CallHoused, WriteFine, DeleteFine, HomesFine, Housed, Imported, Categories, List
      <4> QED BY <3>1, <4>1, <4>2
              DEF Empties, CallHoused, WriteFine, DeleteFine, HomesFine, Housed, Imported, Categories
    <3> QED BY <1>2, <3>2, <3>3, <3>4 DEF HomeInv
  <2>2. ASSUME NEW t \in Threads, Step(t) PROVE HomeInv'
    <3>1. CASE HomesMeet'
        BY <3>1 DEF HomeInv
    <3>2. CASE ~HomesMeet'
      <4>1. ~HomesMeet
          BY <1>2, <3>2, MetStays DEF HomesMeet
      <4>2. AllHoused' \/ \E u \in Threads : Empties(u)'
          BY <1>2, <2>2, <3>2, <4>1, HousedKept
      <4>3. WriteFine(call[t])'
          BY <1>2, <2>2, OwnWrite DEF WriteFine
      <4>4. DeleteFine(call[t])'
          BY <1>2, <2>2, <4>1, OwnDelete DEF DeleteFine
      <4>5. HomesFine(call[t])'
          BY <1>2, <2>2, <3>2, <4>1, OwnHomes DEF HomesFine
      <4>6. \A u \in Threads : CallHoused(call[u])'
          BY <1>2, <2>2, <3>2, <4>1, <4>3, <4>4, <4>5, OthersHomes DEF CallHoused
      <4> QED BY <4>2, <4>6 DEF HomeInv
    <3> QED BY <3>1, <3>2
  <2> QED BY <1>2, <2>1, <2>2, EveryStep
<1> QED BY <1>1, <1>2

(* Deleting a category leaves no contact without one: each is reassigned   *)
(* first, but those that overlapping writes put into it, and those that it *)
(* was asked to reassign to itself (delete_category in categories.py,      *)
(* create_contact and update_contact, erase_subject in privacy/erasure.py).*)
THEOREM ContactsKeepTheirCategory == Spec => []StrandedOnlyByRace
<1> DEFINE Inv == Basics /\ HomeInv
<1>1. Init => Inv
    BY BasicsHold, HomeKept
<1>2. Inv /\ [Next]_vars => Inv'
    BY BasicsHold, HomeKept
<1>3. Inv => StrandedOnlyByRace
    BY DEF HomeInv, HomesMeet, AllHoused, Housed, Imported, Empties, StrandedOnlyByRace, Erasing, Under
<1> QED BY <1>1, <1>2, <1>3, PTL DEF Spec

-------------------------------------------------------------------------------
(* The rows there are, those an erasure may add back, and those about to   *)
(* be created are together within the quota, up to what races add.         *)
Holds(x, e) ==
    \/ x \in List(e)
    \/ \E u \in Threads : call[u].op = "erase" /\ x \in DOMAIN call[u].copy /\ call[u].copy[x].entity = e
Held(e) == {x \in 1 .. minted : Holds(x, e)}
Makes(t, e) ==
    \/ e = "category" /\ At(t, "create_category", "add")
    \/ e = "contact" /\ (At(t, "create_contact", "write") \/ At(t, "import", "person"))
Slack(op) == IF Met({op}, {op}) THEN Cardinality(Threads) - 1 ELSE 0
Within(e, op, max) == Cardinality(Held(e)) + Cardinality(Under(op)) <= max + Slack(op)

LEMMA Intervals == ASSUME NEW n \in Nat PROVE IsFiniteSet(1 .. n) /\ Cardinality(1 .. n) = n
<1>1. 1 \in Int /\ n \in Int /\ (IF 1 > n THEN 0 ELSE n - 1 + 1) = n
    OBVIOUS
<1> QED BY <1>1, FS_Interval, Zenon

LEMMA Counts ==
    ASSUME Basics, NEW e
    PROVE  /\ List(e) \subseteq Held(e) /\ IsFiniteSet(Held(e)) /\ IsFiniteSet(List(e))
           /\ Cardinality(Held(e)) \in Nat /\ Cardinality(List(e)) \in Nat
           /\ Cardinality(List(e)) <= Cardinality(Held(e))
<1>1. PICK H, L, n : H = Held(e) /\ L = List(e) /\ n = minted
    OBVIOUS
<1>2. n \in Nat /\ H \subseteq 1 .. n /\ L \subseteq H
    BY <1>1 DEF Held, Holds, List, Basics, Types
<1>3. IsFiniteSet(1 .. n)
    BY <1>2, Intervals
<1>4. IsFiniteSet(H) /\ Cardinality(H) \in Nat
    BY <1>2, <1>3, FS_Subset, FS_CardinalityType
<1>5. IsFiniteSet(L) /\ Cardinality(L) \in Nat /\ Cardinality(L) <= Cardinality(H)
    BY <1>2, <1>4, FS_Subset, FS_CardinalityType
<1> QED BY <1>1, <1>2, <1>4, <1>5

LEMMA CategoriesComeFrom ==
    ASSUME Basics, NEW t \in Threads, Step(t), NEW x \in DOMAIN rows', rows'[x].entity = "category"
    PROVE  \/ x \in List("category")
           \/ At(t, "create_category", "add") /\ x = Fresh
           \/ /\ At(t, "erase", "add_back") /\ x \in DOMAIN call[t].copy
              /\ rows'[x] = call[t].copy[x]
<1>1. Writes(t)
    BY StepIs DEF Basics
<1>2. ASSUME NEW row, Added(row), x \in DOMAIN rows PROVE x \in List("category")
    BY <1>2 DEF Added, List
<1>3. ASSUME NEW row, Added(row), x \notin DOMAIN rows PROVE x = Fresh /\ row.entity = "category"
    BY <1>3 DEF Added
<1>4. ASSUME NEW y, Deleted(y) PROVE x \in List("category")
    BY <1>4 DEF Deleted, List
<1>5. ASSUME NEW y, Rewritten(y) PROVE x \in List("category")
    BY <1>5 DEF Rewritten, List
<1>6. ASSUME NEW y, Restored(t, y)
      PROVE  \/ x \in List("category")
             \/ x \in DOMAIN call[t].copy /\ rows'[x] = call[t].copy[x]
    BY <1>6 DEF Restored, List
<1>7. rows' = rows => x \in List("category")
    BY DEF List
<1>8. /\ \A p, g : Contact(p, g).entity # "category"
      /\ \A c, at : ContactEvent(c, at).entity # "category"
    BY DEF Contact, ContactEvent
<1>9. /\ \A c, g : Moved(c, g) => Rewritten(c)
      /\ \A c : (Rectified(c) => Rewritten(c)) /\ (Renamed(c) => Rewritten(c))
    BY DEF Moved, Rectified, Renamed
<1> QED BY <1>1, <1>2, <1>3, <1>4, <1>5, <1>6, <1>7, <1>8, <1>9 DEF Writes

LEMMA HoldsNext ==
    ASSUME Basics, NEW t \in Threads, Step(t), NEW e \in {"category", "contact"}, NEW x, Holds(x, e)'
    PROVE  Holds(x, e) \/ (x = Fresh /\ x \in DOMAIN rows' /\ Makes(t, e))
<1>1. CASE x \in DOMAIN rows' /\ rows'[x].entity = e
  <2>1. CASE At(t, "erase", "add_back") /\ x \in DOMAIN call[t].copy /\ rows'[x] = call[t].copy[x]
      BY <1>1, <2>1 DEF Holds, At
  <2>2. CASE e = "category"
      BY <1>1, <2>1, <2>2, CategoriesComeFrom DEF Holds, Makes
  <2>3. CASE e = "contact"
      BY <1>1, <2>1, <2>3, ContactsComeFrom DEF Holds, Makes
  <2> QED BY <2>2, <2>3
<1>2. ASSUME NEW u \in Threads, call'[u].op = "erase", x \in DOMAIN call'[u].copy, call'[u].copy[x].entity = e
      PROVE  Holds(x, e)
  <2>1. CASE u = t
      BY <1>2, <2>1, CopiesComeFrom DEF Holds, List
  <2>2. CASE u # t
      BY <1>2, <2>2, StepIs DEF Holds, Basics
  <2> QED BY <2>1, <2>2
<1> QED BY <1>1, <1>2 DEF Holds, List

LEMMA HeldNext ==
    ASSUME Basics, [Next]_vars, NEW t \in Threads, Step(t), NEW e \in {"category", "contact"}
    PROVE  /\ Cardinality(Held(e))' \in Nat /\ Cardinality(Held(e))' <= Cardinality(Held(e)) + 1
           /\ ~(Makes(t, e) /\ Fresh \in DOMAIN rows') =>
                  Held(e)' \subseteq Held(e) /\ Cardinality(Held(e))' <= Cardinality(Held(e))
<1>1. PICK H, n, f : H = Held(e) /\ n = minted /\ f = Fresh
    OBVIOUS
<1>2. PICK G, m : G = Held(e)' /\ m = minted'
    OBVIOUS
<1>3. IsFiniteSet(H) /\ Cardinality(H) \in Nat
    BY <1>1, Counts
<1>4. n \in Nat /\ m \in {n, n + 1} /\ f = n + 1
    BY <1>1, <1>2, StepIs, RowsStayKnown DEF Basics, Types, Fresh
<1>5. \A x \in H : x \in 1 .. n
    BY <1>1 DEF Held
<1>6. \A x : Holds(x, e) => x \in H
  <2> SUFFICES ASSUME NEW x, Holds(x, e) PROVE x \in 1 .. n
      BY <1>1 DEF Held
  <2>1. x \in List(e) => x \in 1 .. n
      BY <1>1 DEF List, Basics, Types
  <2>2. ASSUME NEW u \in Threads, call[u].op = "erase", x \in DOMAIN call[u].copy PROVE x \in 1 .. n
      BY <1>1, <2>2 DEF Basics, Types, CopyOf
  <2> QED BY <2>1, <2>2 DEF Holds
<1>7. \A x \in G : Holds(x, e)'
    BY <1>2 DEF Held
<1>8. G \subseteq H \cup {f}
    BY <1>1, <1>6, <1>7, HoldsNext
<1>9. ~(Makes(t, e) /\ Fresh \in DOMAIN rows') => G \subseteq H
    BY <1>6, <1>7, HoldsNext
<1>10. IsFiniteSet(H \cup {f}) /\ Cardinality(H \cup {f}) <= Cardinality(H) + 1 /\ Cardinality(H \cup {f}) \in Nat
  <2>1. /\ IsFiniteSet(H \cup {f})
        /\ Cardinality(H \cup {f}) = IF f \in H THEN Cardinality(H) ELSE Cardinality(H) + 1
      BY <1>3, FS_AddElement
  <2> QED BY <1>3, <2>1
<1>11. Cardinality(G) \in Nat /\ Cardinality(G) <= Cardinality(H) + 1
    BY <1>3, <1>8, <1>10, FS_Subset, FS_CardinalityType
<1>12. G \subseteq H => Cardinality(G) <= Cardinality(H)
    BY <1>3, FS_Subset
<1> QED BY <1>1, <1>2, <1>9, <1>11, <1>12

LEMMA UnderNext ==
    ASSUME Basics, NEW t \in Threads, Step(t), NEW op
    PROVE  /\ Cardinality(Under(op)) \in Nat /\ Cardinality(Under(op))' \in Nat
           /\ Cardinality(Under(op))' <= Cardinality(Threads) /\ Cardinality(Threads) \in Nat \ {0}
           /\ call[t].op = op /\ call'[t].op # op => Cardinality(Under(op))' = Cardinality(Under(op)) - 1
           /\ (call'[t].op = op => call[t].op = op) => Cardinality(Under(op))' <= Cardinality(Under(op))
           /\ (\A u \in Threads \ {t} : call[u].op # op) => Cardinality(Under(op))' <= 1
<1>1. PICK U : U = Under(op)
    OBVIOUS
<1>2. PICK V : V = Under(op)'
    OBVIOUS
<1>3. IsFiniteSet(Threads) /\ Threads # {} /\ U \subseteq Threads /\ V \subseteq Threads
    BY <1>1, <1>2, CallsAssumption DEF Under
<1>4. /\ IsFiniteSet(U) /\ IsFiniteSet(V) /\ Cardinality(U) \in Nat /\ Cardinality(V) \in Nat
      /\ Cardinality(V) <= Cardinality(Threads) /\ Cardinality(Threads) \in Nat \ {0}
    BY <1>3, FS_Subset, FS_CardinalityType, FS_EmptySet
<1>5. \A u \in Threads \ {t} : u \in U <=> u \in V
    BY <1>1, <1>2, StepIs DEF Under, Basics
<1>6. (t \in U <=> call[t].op = op) /\ (t \in V <=> call'[t].op = op)
    BY <1>1, <1>2 DEF Under
<1>7. ASSUME t \in U, t \notin V PROVE Cardinality(V) = Cardinality(U) - 1
  <2>1. V = U \ {t}
      BY <1>3, <1>5, <1>7
  <2> QED BY <1>4, <1>7, <2>1, FS_RemoveElement
<1>8. ASSUME t \in V => t \in U PROVE Cardinality(V) <= Cardinality(U)
  <2>1. V \subseteq U
      BY <1>3, <1>5, <1>8
  <2> QED BY <1>4, <2>1, FS_Subset
<1>9. ASSUME \A u \in Threads \ {t} : call[u].op # op PROVE Cardinality(V) <= 1
  <2>1. V \subseteq {t}
      BY <1>1, <1>3, <1>5, <1>9 DEF Under
  <2>2. IsFiniteSet({t}) /\ Cardinality({t}) = 1
      BY FS_Singleton
  <2> QED BY <2>1, <2>2, FS_Subset
<1> QED BY <1>1, <1>2, <1>4, <1>6, <1>7, <1>8, <1>9

LEMMA SlackNext ==
    ASSUME [Next]_vars, NEW op
    PROVE  Slack(op) \in Nat /\ Slack(op)' \in Nat /\ Slack(op)' >= Slack(op)
<1>1. Cardinality(Threads) \in Nat \ {0}
    BY CallsAssumption, FS_CardinalityType, FS_EmptySet
<1>2. Met({op}, {op}) => Met({op}, {op})'
    BY MetStays
<1> QED BY <1>1, <1>2 DEF Slack

(* A step that begins no such call.                                        *)
LEMMA WithinKept ==
    ASSUME Basics, [Next]_vars, NEW t \in Threads, Step(t), NEW e \in {"category", "contact"}, NEW op,
           NEW max \in Nat, Within(e, op, max),
           \/ call[t].op = op /\ call'[t].op # op
           \/ ~(Makes(t, e) /\ Fresh \in DOMAIN rows') /\ (call'[t].op = op => call[t].op = op)
    PROVE  Within(e, op, max)'
<1>1. PICK h, u, s : h = Cardinality(Held(e)) /\ u = Cardinality(Under(op)) /\ s = Slack(op)
    OBVIOUS
<1>2. PICK h1, u1, s1 : h1 = Cardinality(Held(e))' /\ u1 = Cardinality(Under(op))' /\ s1 = Slack(op)'
    OBVIOUS
<1>3. h \in Nat /\ u \in Nat /\ s \in Nat /\ h1 \in Nat /\ u1 \in Nat /\ s1 \in Nat /\ s1 >= s
    BY <1>1, <1>2, Counts, HeldNext, UnderNext, SlackNext
<1>4. h + u <= max + s
    BY <1>1 DEF Within
<1>5. h1 + u1 <= h + u
  <2>1. CASE call[t].op = op /\ call'[t].op # op
    <3>1. h1 <= h + 1 /\ u1 = u - 1
        BY <1>1, <1>2, <2>1, HeldNext, UnderNext
    <3> QED BY <1>3, <3>1
  <2>2. CASE ~(Makes(t, e) /\ Fresh \in DOMAIN rows') /\ (call'[t].op = op => call[t].op = op)
    <3>1. h1 <= h
        BY <1>1, <1>2, <2>2, HeldNext
    <3>2. u1 <= u
        BY <1>1, <1>2, <2>2, UnderNext
    <3> QED BY <1>3, <3>1, <3>2
  <2> QED BY <2>1, <2>2
<1>6. h1 + u1 <= max + s1
    BY <1>3, <1>4, <1>5
<1> QED BY <1>2, <1>6 DEF Within

(* A call that begins found the quota not used up; only if another was     *)
(* under way can it be exceeded.                                           *)
LEMMA WithinBegun ==
    ASSUME Basics, [Next]_vars, NEW t \in Threads, Step(t), NEW e \in {"category", "contact"}, NEW op,
           op # "none", NEW max \in Nat, call[t] = NoCall, call'[t].op = op, Cardinality(List(e)) < max,
           \A u \in Threads : call[u].op # "erase"
    PROVE  Within(e, op, max)'
<1>1. PICK l : l = Cardinality(List(e)) /\ l \in Nat /\ l < max
    BY Counts
<1>2. Held(e) = List(e)
    BY Counts DEF Held, Holds
<1>3. PICK h1, u1, s1 : h1 = Cardinality(Held(e))' /\ u1 = Cardinality(Under(op))' /\ s1 = Slack(op)'
    OBVIOUS
<1>4. h1 \in Nat /\ u1 \in Nat /\ s1 \in Nat
    BY <1>3, HeldNext, UnderNext, SlackNext
<1>5. h1 <= l
  <2>1. ~Makes(t, e)
      BY DEF Makes, At, NoCall
  <2> QED BY <1>1, <1>2, <1>3, <2>1, HeldNext
<1>6. CASE \A u \in Threads \ {t} : call[u].op # op
  <2>1. u1 <= 1
      BY <1>3, <1>6, UnderNext
  <2>2. h1 + u1 <= max + s1
      BY <1>1, <1>4, <1>5, <2>1
  <2> QED BY <1>3, <2>2 DEF Within
<1>7. CASE \E u \in Threads \ {t} : call[u].op = op
  <2>1. PICK u \in Threads \ {t} : call'[u].op = op
      BY <1>7, StepIs DEF Basics
  <2>2. Met({op}, {op})'
      BY <2>1, MeetsNext
  <2>3. PICK k \in Nat \ {0} : k = Cardinality(Threads) /\ u1 <= k
      BY <1>3, UnderNext
  <2>4. s1 = k - 1
      BY <1>3, <2>2, <2>3 DEF Slack
  <2>5. h1 + u1 <= max + s1
      BY <1>1, <1>4, <1>5, <2>3, <2>4
  <2> QED BY <1>3, <2>5 DEF Within
<1> QED BY <1>6, <1>7

-------------------------------------------------------------------------------
(* Categories within their quota.                                          *)
CategoryRaces == Met({"create_category"}, {"erase"})
CategoryQuota == CategoryRaces \/ Within("category", "create_category", MaxCategories)

LEMMA CreateCategorySteps ==
    ASSUME Types, NEW t \in Threads, Step(t), call'[t].op = "create_category"
    PROVE  \/ call[t].op = "create_category"
           \/ call[t] = NoCall /\ Cardinality(List("category")) < MaxCategories
<1>1. call'[t] # NoCall
    BY DEF NoCall
<1>2. CASE CategoryStep(t)
  <2>1. PICK name \in Names : StartCreateCategory(t, name)
      BY <1>1, <1>2, CategoryOps
  <2>2. call[t] = NoCall /\ ~CategoriesFull
      BY <1>1, <2>1, Goes DEF StartCreateCategory
  <2>3. Cardinality(List("category")) \in Nat
      BY ListIsFinite
  <2> QED BY <2>2, <2>3, OwnedRowsAssumption DEF CategoriesFull
<1>3. CASE ImportStep(t)
    BY <1>1, <1>3, ImportOps
<1>4. CASE PrivacyStep(t)
    BY <1>1, <1>4, PrivacyOps
<1> QED BY <1>2, <1>3, <1>4 DEF Step

LEMMA StaysWithin ==
    ASSUME [Next]_vars, Basics, Stays, NEW e, NEW op, NEW max \in Nat, Within(e, op, max)
    PROVE  Within(e, op, max)'
<1>1. Held(e)' = Held(e) /\ Under(op)' = Under(op)
    BY DEF Stays, Held, Holds, List, Under
<1>2. PICK h, u, s, s1 : /\ h = Cardinality(Held(e)) /\ u = Cardinality(Under(op))
                         /\ s = Slack(op) /\ s1 = Slack(op)'
    OBVIOUS
<1>3. h \in Nat /\ u \in Nat /\ s \in Nat /\ s1 \in Nat /\ s1 >= s
  <2>1. IsFiniteSet(Threads) /\ \A S \in SUBSET Threads : Cardinality(S) \in Nat
      BY CallsAssumption, FS_Subset, FS_CardinalityType
  <2>2. Under(op) \in SUBSET Threads
      BY DEF Under
  <2> QED BY <1>2, <2>1, <2>2, Counts, SlackNext
<1>4. h + u <= max + s1
    BY <1>2, <1>3 DEF Within
<1> QED BY <1>1, <1>2, <1>4 DEF Within

LEMMA CategoryQuotaKept == Basics /\ CategoryQuota /\ [Next]_vars => CategoryQuota'
<1> SUFFICES ASSUME Basics, CategoryQuota, [Next]_vars, ~CategoryRaces'
             PROVE  Within("category", "create_category", MaxCategories)'
    BY DEF CategoryQuota
<1>1. Within("category", "create_category", MaxCategories) /\ MaxCategories \in Nat
    BY MetStays, OwnedRowsAssumption DEF CategoryQuota, CategoryRaces
<1>2. CASE Stays
    BY <1>1, <1>2, StaysWithin
<1>3. ASSUME NEW t \in Threads, Step(t) PROVE Within("category", "create_category", MaxCategories)'
  <2>1. CASE call'[t].op # "create_category"
    <3>1. Makes(t, "category") => call[t].op = "create_category"
        BY DEF Makes, At
    <3> QED BY <1>1, <1>3, <2>1, <3>1, WithinKept
  <2>2. CASE call'[t].op = "create_category" /\ call[t].op = "create_category"
    <3>1. ~(Makes(t, "category") /\ Fresh \in DOMAIN rows')
      <4>1. call'[t] # NoCall
          BY <2>2 DEF NoCall
      <4>2. ~AddCategory(t)
          BY <4>1, Goes DEF AddCategory, Basics
      <4>3. \A name : ~StartCreateCategory(t, name)
          BY <2>2 DEF StartCreateCategory, Begin, OneStep, NoCall
      <4> QED BY <1>3, <2>2, <4>1, <4>3, CategoryOps, ImportOps, PrivacyOps DEF Step, Basics
    <3> QED BY <1>1, <1>3, <2>2, <3>1, WithinKept
  <2>3. CASE call'[t].op = "create_category" /\ call[t].op # "create_category"
    <3>1. call[t] = NoCall /\ Cardinality(List("category")) < MaxCategories
        BY <1>3, <2>3, CreateCategorySteps DEF Basics
    <3>2. ASSUME NEW u \in Threads, call[u].op = "erase" PROVE FALSE
      <4>1. u # t /\ call'[u].op = "erase"
          BY <1>3, <3>1, <3>2, StepIs DEF Basics, NoCall
      <4> QED BY <2>3, <4>1, MeetsNext DEF CategoryRaces
    <3> QED BY <1>1, <1>3, <2>3, <3>1, <3>2, WithinBegun
  <2> QED BY <2>1, <2>2, <2>3
<1> QED BY <1>2, <1>3, EveryStep

(* What there is at first.                                                 *)
LEMMA InitHeld ==
    ASSUME Init
    PROVE  /\ Cardinality(Held("category")) <= Len(Defaults) /\ Cardinality(Held("contact")) <= 1
           /\ \A op : op # "none" => Cardinality(Under(op)) = 0
<1>1. \A u \in Threads : call[u].op = "none"
    BY DEF Init, NoCall
<1>2. PICK n \in Nat : n = Len(Defaults)
    BY RecordsAssumption
<1>3. PICK p \in People \cup {None} :
          rows = Insert(Insert(Provisioned, n + 1, Contact(p, ImportCategory)), n + 2, ContactEvent(n + 1, now))
    BY <1>2 DEF Init
<1>4. DOMAIN Provisioned = 1 .. n /\ \A i \in DOMAIN Provisioned : Provisioned[i].entity = "category"
    BY <1>2, RecordsAssumption DEF Provisioned, Category
<1>5. /\ ContactEvent(n + 1, now).entity = "contact_event"
      /\ Contact(p, ImportCategory).entity = "contact"
    BY DEF ContactEvent, Contact
<1>6. PICK C, O : C = Held("category") /\ O = Held("contact")
    OBVIOUS
<1>7. C = List("category") \cap 1 .. minted /\ O = List("contact") \cap 1 .. minted
    BY <1>1, <1>6 DEF Held, Holds
<1>8. C \subseteq 1 .. n /\ O \subseteq {n + 1}
    BY <1>3, <1>4, <1>5, <1>7 DEF List, Insert
<1>9. Cardinality(C) <= n /\ Cardinality(O) <= 1
  <2>1. /\ IsFiniteSet(1 .. n) /\ Cardinality(1 .. n) = n
        /\ IsFiniteSet({n + 1}) /\ Cardinality({n + 1}) = 1
      BY <1>2, Intervals, FS_Singleton
  <2> QED BY <1>8, <2>1, FS_Subset
<1>10. ASSUME NEW op, op # "none" PROVE Cardinality(Under(op)) = 0
  <2>1. Under(op) = {}
      BY <1>1, <1>10 DEF Under
  <2> QED BY <2>1, FS_EmptySet
<1> QED BY <1>2, <1>6, <1>9, <1>10

(* With default categories that fit, the quota is exceeded by at most the  *)
(* calls that were under way together: each adds what it looked for room   *)
(* for, since room once found is only used up by creations.  An erasure    *)
(* can make room and take it back (CategoryService.create in               *)
(* contacts/categories.py, check_categories in contacts/quotas.py).        *)
THEOREM CategoriesStayWithinQuota ==
    ASSUME Len(Defaults) <= MaxCategories
    PROVE  Spec => []CategoriesWithinQuota
<1> DEFINE Inv == Basics /\ CategoryQuota
<1>1. Init => Inv
  <2> SUFFICES ASSUME Init PROVE Within("category", "create_category", MaxCategories)
      BY BasicsHold DEF CategoryQuota
  <2>1. PICK h, u, s : /\ h = Cardinality(Held("category")) /\ u = Cardinality(Under("create_category"))
                       /\ s = Slack("create_category")
      OBVIOUS
  <2>2. h \in Nat /\ h <= MaxCategories /\ u = 0 /\ s \in Nat /\ MaxCategories \in Nat
    <3>1. Basics /\ Len(Defaults) \in Nat /\ MaxCategories \in Nat
        BY BasicsHold, RecordsAssumption, OwnedRowsAssumption
    <3>2. s \in Nat
        BY <2>1, CallsAssumption, FS_CardinalityType, FS_EmptySet DEF Slack
    <3> QED BY <2>1, <3>1, <3>2, InitHeld, Counts
  <2> QED BY <2>1, <2>2 DEF Within
<1>2. Inv /\ [Next]_vars => Inv'
    BY BasicsHold, CategoryQuotaKept
<1>3. Inv => CategoriesWithinQuota
  <2> SUFFICES ASSUME Basics, Within("category", "create_category", MaxCategories)
               PROVE  CategoriesWithinQuota
      BY DEF CategoryQuota, CategoryRaces, CategoriesWithinQuota
  <2>1. PICK l, h, u, k : /\ l = Cardinality(List("category")) /\ h = Cardinality(Held("category"))
                          /\ u = Cardinality(Under("create_category")) /\ k = Cardinality(Threads)
      OBVIOUS
  <2>2. l \in Nat /\ h \in Nat /\ l <= h /\ u \in Nat /\ k \in Nat \ {0} /\ MaxCategories \in Nat
    <3>1. \A S \in SUBSET Threads : Cardinality(S) \in Nat
        BY CallsAssumption, FS_Subset, FS_CardinalityType
    <3>2. Under("create_category") \in SUBSET Threads
        BY DEF Under
    <3> QED BY <2>1, <3>1, <3>2, Counts, CallsAssumption, FS_EmptySet, OwnedRowsAssumption
  <2>3. CASE Met({"create_category"}, {"create_category"})
    <3>1. h + u <= MaxCategories + (k - 1)
        BY <2>1, <2>3 DEF Within, Slack
    <3> QED BY <2>1, <2>2, <2>3, <3>1 DEF CategoriesWithinQuota
  <2>4. CASE ~Met({"create_category"}, {"create_category"})
    <3>1. h + u <= MaxCategories + 0
        BY <2>1, <2>4 DEF Within, Slack
    <3> QED BY <2>1, <2>2, <3>1 DEF CategoriesWithinQuota
  <2> QED BY <2>3, <2>4
<1> QED BY <1>1, <1>2, <1>3, PTL DEF Spec

-------------------------------------------------------------------------------
(* Contacts within their quota: an import goes by its own count, which is  *)
(* right as long as nobody else adds contacts.                             *)
ContactRaces == Met({"import"}, {"create_contact", "import"}) \/ Met({"create_contact", "import"}, {"erase"})
Counted(c) == c.op = "import" => Cardinality(List("contact")) <= c.count
ContactQuota ==
    \/ ContactRaces
    \/ Within("contact", "create_contact", MaxContacts) /\ \A u \in Threads : Counted(call[u])

LEMMA CreateContactSteps ==
    ASSUME Basics, NEW t \in Threads, Step(t), call'[t].op = "create_contact"
    PROVE  \/ call[t].op = "create_contact" /\ FindCategory(t)
           \/ call[t] = NoCall /\ Cardinality(List("contact")) < MaxContacts
<1>1. call'[t] # NoCall
    BY DEF NoCall
<1>2. CASE FindCategory(t)
    BY <1>1, <1>2, FindCategoryDoes DEF Basics
<1>3. ASSUME NEW g, StartCreateContact(t, g) PROVE call[t] = NoCall /\ Cardinality(List("contact")) < MaxContacts
  <2>1. call[t] = NoCall /\ ~ContactsFull(Cardinality(List("contact")))
      BY <1>1, <1>3, Goes DEF StartCreateContact, Basics
  <2> QED BY <2>1, Counts, OwnedRowsAssumption DEF ContactsFull
<1>4. ASSUME NEW g, NEW c, StartMoveContact(t, c, g) PROVE FALSE
    BY <1>4, Goes DEF StartMoveContact, Basics
<1> QED BY <1>2, <1>3, <1>4, ContactSteps DEF Basics

LEMMA ListNext ==
    ASSUME Basics, NEW t \in Threads, Step(t), call[t].op # "erase"
    PROVE  /\ Cardinality(List("contact"))' \in Nat
           /\ Cardinality(List("contact"))' <= Cardinality(List("contact")) + 1
           /\ call[t].op \notin {"create_contact", "import"} =>
                  Cardinality(List("contact"))' <= Cardinality(List("contact"))
<1>1. PICK L, f : L = List("contact") /\ f = Fresh
    OBVIOUS
<1>2. PICK M : M = List("contact")'
    OBVIOUS
<1>3. IsFiniteSet(L) /\ Cardinality(L) \in Nat
    BY <1>1, Counts
<1>4. ASSUME NEW x \in M PROVE x \in L \/ (x = f /\ call[t].op \in {"create_contact", "import"})
  <2>1. x \in DOMAIN rows' /\ rows'[x].entity = "contact"
      BY <1>2, <1>4 DEF List
  <2> QED BY <1>1, <2>1, ContactsComeFrom DEF At
<1>5. IsFiniteSet(L \cup {f}) /\ Cardinality(L \cup {f}) <= Cardinality(L) + 1 /\ Cardinality(L \cup {f}) \in Nat
  <2>1. /\ IsFiniteSet(L \cup {f})
        /\ Cardinality(L \cup {f}) = IF f \in L THEN Cardinality(L) ELSE Cardinality(L) + 1
      BY <1>3, FS_AddElement
  <2> QED BY <1>3, <2>1
<1>6. M \subseteq L \cup {f} /\ (call[t].op \notin {"create_contact", "import"} => M \subseteq L)
    BY <1>4
<1>7. Cardinality(M) \in Nat /\ Cardinality(M) <= Cardinality(L) + 1
    BY <1>3, <1>5, <1>6, FS_Subset, FS_CardinalityType
<1>8. M \subseteq L => Cardinality(M) <= Cardinality(L)
    BY <1>3, FS_Subset
<1> QED BY <1>1, <1>2, <1>6, <1>7, <1>8

(* Nothing that could add contacts, or add them back, overlaps with an     *)
(* import, and no erasure with a creation.                                 *)
LEMMA NoRaceForContacts ==
    ASSUME Basics, [Next]_vars, ~ContactRaces', NEW t \in Threads, NEW u \in Threads, t # u, call'[u] = call[u]
    PROVE  /\ "import" \in {call[t].op, call'[t].op} => call[u].op \notin {"create_contact", "import", "erase"}
           /\ call[u].op = "import" => call[t].op \notin {"create_contact", "import", "erase"}
           /\ call'[t].op = "create_contact" => call[u].op # "erase"
<1>1. ASSUME "import" \in {call[t].op, call'[t].op}, call[u].op \in {"create_contact", "import", "erase"}
      PROVE  FALSE
    BY <1>1, MeetsNext DEF ContactRaces
<1>2. ASSUME call[u].op = "import", call[t].op \in {"create_contact", "import", "erase"} PROVE FALSE
    BY <1>2, MeetsNext DEF ContactRaces
<1>3. ASSUME call'[t].op = "create_contact", call[u].op = "erase" PROVE FALSE
    BY <1>3, MeetsNext DEF ContactRaces
<1> QED BY <1>1, <1>2, <1>3

LEMMA ImportedWithin ==
    ASSUME Basics, ContactQuota, [Next]_vars, ~ContactRaces', NEW t \in Threads, Step(t),
           At(t, "import", "person"), Fresh \in DOMAIN rows'
    PROVE  /\ Within("contact", "create_contact", MaxContacts)'
           /\ call'[t].op = "import" => Counted(call[t])'
<1>1. call[t].op = "import" /\ Counted(call[t]) /\ MaxContacts \in Nat
    BY MetStays, OwnedRowsAssumption DEF At, ContactQuota, ContactRaces
<1>2. \A u \in Threads \ {t} : call'[u] = call[u] /\ call[u].op \notin {"create_contact", "import", "erase"}
    BY <1>1, NoRaceForContacts, StepIs DEF Basics
<1>3. call[t] \in ImportCalls
    BY <1>1, CallIs, CallsAre DEF Basics
<1>4. Fresh \notin DOMAIN rows
    BY DEF Basics, Types, Fresh
<1>5. ~ContactsFull(call[t].count)
  <2>1. Writes(t) /\ rows' # rows
      BY <1>4, StepIs DEF Basics
  <2>2. \A x : ~Deleted(x)
      BY <1>4 DEF Deleted
  <2>3. \A x : ~Rewritten(x)
      BY <1>4 DEF Rewritten
  <2> QED BY <1>1, <2>1, <2>2, <2>3 DEF Writes, At, Moved, Rectified, Renamed, NoCall
<1>6. PICK n : n = call[t].count /\ n \in Nat /\ n < MaxContacts /\ Cardinality(List("contact")) <= n
    BY <1>1, <1>3, <1>5 DEF ContactsFull, Counted, ImportCalls
<1>7. PICK l, h1, l1 : /\ l = Cardinality(List("contact")) /\ h1 = Cardinality(Held("contact"))'
                       /\ l1 = Cardinality(List("contact"))'
    OBVIOUS
<1>8. Held("contact") = List("contact")
    BY <1>1, <1>2, Counts DEF Held, Holds
<1>9. l \in Nat /\ h1 \in Nat /\ l1 \in Nat /\ h1 <= l + 1 /\ l1 <= l + 1
    BY <1>1, <1>7, <1>8, Counts, HeldNext, ListNext
<1>10. call'[t].op # "create_contact"
    BY <1>1, CreateContactSteps DEF NoCall
<1>11. Under("create_contact")' = {}
    BY <1>2, <1>10 DEF Under
<1>12. Within("contact", "create_contact", MaxContacts)'
  <2>1. PICK s1 \in Nat : s1 = Slack("create_contact")'
      BY SlackNext
  <2>2. h1 + 0 <= MaxContacts + s1
      BY <1>1, <1>6, <1>7, <1>9, <2>1
  <2> QED BY <1>7, <1>11, <2>1, <2>2, FS_EmptySet DEF Within
<1>13. ASSUME call'[t].op = "import" PROVE Counted(call[t])'
  <2>1. PICK p \in People : ImportPerson(t, p)
    <3>1. ~StartImport(t)
        BY <1>1, StartImportDoes DEF Basics, NoCall
    <3> QED BY <1>13, <3>1, ImportSteps DEF Basics
  <2>2. call'[t].count = n + 1
      BY <1>6, <1>13, <2>1, ImportPersonDoes DEF Basics, NoCall
  <2> QED BY <1>6, <1>7, <1>9, <2>2 DEF Counted
<1> QED BY <1>12, <1>13

LEMMA ContactsWithin ==
    ASSUME Basics, ContactQuota, [Next]_vars, ~ContactRaces', NEW t \in Threads, Step(t)
    PROVE  Within("contact", "create_contact", MaxContacts)'
<1>1. Within("contact", "create_contact", MaxContacts) /\ MaxContacts \in Nat
    BY MetStays, OwnedRowsAssumption DEF ContactQuota, ContactRaces
<1>2. CASE At(t, "import", "person") /\ Fresh \in DOMAIN rows'
    BY <1>2, ImportedWithin
<1>3. CASE ~(At(t, "import", "person") /\ Fresh \in DOMAIN rows') /\ call'[t].op # "create_contact"
  <2>1. Makes(t, "contact") /\ Fresh \in DOMAIN rows' => call[t].op = "create_contact"
      BY <1>3 DEF Makes, At
  <2> QED BY <1>1, <1>3, <2>1, WithinKept
<1>4. CASE call'[t].op = "create_contact" /\ FindCategory(t)
  <2>1. rows' = rows /\ Fresh \notin DOMAIN rows
      BY <1>4 DEF FindCategory, Basics, Types, Fresh
  <2>2. call[t].op = "create_contact"
      BY <1>4, CreateContactSteps DEF FindCategory, NoCall
  <2> QED BY <1>1, <1>4, <2>1, <2>2, WithinKept
<1>5. CASE call'[t].op = "create_contact" /\ call[t] = NoCall /\ Cardinality(List("contact")) < MaxContacts
  <2>1. \A u \in Threads : call[u].op # "erase"
      BY <1>5, NoRaceForContacts, StepIs DEF Basics, NoCall
  <2> QED BY <1>1, <1>5, <2>1, WithinBegun
<1> QED BY <1>2, <1>3, <1>4, <1>5, CreateContactSteps

LEMMA CountedKept ==
    ASSUME Basics, ContactQuota, [Next]_vars, ~ContactRaces', NEW t \in Threads, Step(t), NEW u \in Threads
    PROVE  Counted(call[u])'
<1> SUFFICES ASSUME call'[u].op = "import" PROVE Cardinality(List("contact"))' <= call'[u].count
    BY DEF Counted
<1>1. CASE u # t
  <2>1. call'[u] = call[u] /\ call[t].op \notin {"create_contact", "import", "erase"}
      BY <1>1, NoRaceForContacts, StepIs DEF Basics
  <2>2. Counted(call[u]) /\ call[u] \in ImportCalls
      BY <2>1, MetStays, CallIs, CallsAre DEF ContactQuota, ContactRaces, Basics
  <2>3. PICK l, l1, n : l = Cardinality(List("contact")) /\ l1 = Cardinality(List("contact"))' /\ n = call[u].count
      OBVIOUS
  <2>4. l \in Nat /\ l1 \in Nat /\ n \in Nat /\ l <= n /\ l1 <= l
      BY <2>1, <2>2, <2>3, Counts, ListNext DEF Counted, ImportCalls
  <2> QED BY <2>1, <2>3, <2>4
<1>2. CASE u = t /\ StartImport(t)
  <2>1. List("contact")' = List("contact") /\ call'[t].count = Cardinality(List("contact"))
      BY <1>2, StartImportDoes DEF Basics, List
  <2>2. PICK l : l = Cardinality(List("contact")) /\ l \in Nat
      BY Counts
  <2> QED BY <1>2, <2>1, <2>2
<1>3. ASSUME u = t, NEW p \in People, ImportPerson(t, p) PROVE Cardinality(List("contact"))' <= call'[t].count
  <2>1. At(t, "import", "person") /\ call'[t] # NoCall
      BY <1>3 DEF ImportPerson, NoCall
  <2>2. AddRow(Contact(p, ImportCategory))
      BY <1>3, <2>1, ImportPersonDoes DEF Basics
  <2>3. Fresh \in DOMAIN rows'
      BY <2>2 DEF AddRow, Insert
  <2> QED BY <1>3, <2>1, <2>3, ImportedWithin DEF Counted
<1> QED BY <1>1, <1>2, <1>3, ImportSteps DEF Basics

LEMMA ContactQuotaKept == Basics /\ ContactQuota /\ [Next]_vars => ContactQuota'
<1> SUFFICES ASSUME Basics, ContactQuota, [Next]_vars, ~ContactRaces'
             PROVE  /\ Within("contact", "create_contact", MaxContacts)'
                    /\ \A u \in Threads : Counted(call[u])'
    BY DEF ContactQuota
<1>1. CASE Stays
  <2>1. /\ Within("contact", "create_contact", MaxContacts) /\ MaxContacts \in Nat
        /\ \A u \in Threads : Counted(call[u])
      BY MetStays, OwnedRowsAssumption DEF ContactQuota, ContactRaces
  <2>2. List("contact")' = List("contact") /\ call' = call
      BY <1>1 DEF Stays, List
  <2> QED BY <1>1, <2>1, <2>2, StaysWithin DEF Counted
<1>2. ASSUME NEW t \in Threads, Step(t)
      PROVE  /\ Within("contact", "create_contact", MaxContacts)'
             /\ \A u \in Threads : Counted(call[u])'
    BY <1>2, ContactsWithin, CountedKept
<1> QED BY <1>1, <1>2, EveryStep

(* With a quota that admits any contact at all, creations under way        *)
(* together exceed it by one less than there are threads at most, and      *)
(* an import not at all, unless contacts are created or another import     *)
(* runs around it, or an erasure makes room and takes it back              *)
(* (ContactService.create, GooglePeopleImporter.import_from,               *)
(* check_contacts in contacts/quotas.py).                                  *)
THEOREM ContactsStayWithinQuota ==
    ASSUME MaxContacts > 0
    PROVE  Spec => []ContactsWithinQuota
<1> DEFINE Inv == Basics /\ ContactQuota
<1>1. Init => Inv
  <2> SUFFICES ASSUME Init
               PROVE  Within("contact", "create_contact", MaxContacts) /\ \A u \in Threads : Counted(call[u])
      BY BasicsHold DEF ContactQuota
  <2>1. PICK h, u, s : /\ h = Cardinality(Held("contact")) /\ u = Cardinality(Under("create_contact"))
                       /\ s = Slack("create_contact")
      OBVIOUS
  <2>2. h \in Nat /\ h <= 1 /\ u = 0 /\ s \in Nat /\ MaxContacts \in Nat
    <3>1. Basics /\ MaxContacts \in Nat
        BY BasicsHold, OwnedRowsAssumption
    <3>2. s \in Nat
        BY <2>1, CallsAssumption, FS_CardinalityType, FS_EmptySet DEF Slack
    <3> QED BY <2>1, <3>1, <3>2, InitHeld, Counts
  <2>3. \A v \in Threads : call[v].op # "import"
      BY DEF Init, NoCall
  <2> QED BY <2>1, <2>2, <2>3 DEF Within, Counted
<1>2. Inv /\ [Next]_vars => Inv'
    BY BasicsHold, ContactQuotaKept
<1>3. Inv => ContactsWithinQuota
  <2> SUFFICES ASSUME Basics, Within("contact", "create_contact", MaxContacts)
               PROVE  ContactsWithinQuota
      BY DEF ContactQuota, ContactRaces, ContactsWithinQuota
  <2>1. PICK l, h, u, k : /\ l = Cardinality(List("contact")) /\ h = Cardinality(Held("contact"))
                          /\ u = Cardinality(Under("create_contact")) /\ k = Cardinality(Threads)
      OBVIOUS
  <2>2. l \in Nat /\ h \in Nat /\ l <= h /\ u \in Nat /\ k \in Nat \ {0} /\ MaxContacts \in Nat
    <3>1. \A S \in SUBSET Threads : Cardinality(S) \in Nat
        BY CallsAssumption, FS_Subset, FS_CardinalityType
    <3>2. Under("create_contact") \in SUBSET Threads
        BY DEF Under
    <3> QED BY <2>1, <3>1, <3>2, Counts, CallsAssumption, FS_EmptySet, OwnedRowsAssumption
  <2>3. CASE Met({"create_contact"}, {"create_contact"})
    <3>1. h + u <= MaxContacts + (k - 1)
        BY <2>1, <2>3 DEF Within, Slack
    <3> QED BY <2>1, <2>2, <2>3, <3>1 DEF ContactsWithinQuota
  <2>4. CASE ~Met({"create_contact"}, {"create_contact"})
    <3>1. h + u <= MaxContacts + 0
        BY <2>1, <2>4 DEF Within, Slack
    <3> QED BY <2>1, <2>2, <3>1 DEF ContactsWithinQuota
  <2> QED BY <2>3, <2>4
<1> QED BY <1>1, <1>2, <1>3, PTL DEF Spec
===============================================================================
