------------------------------- MODULE Records -------------------------------
(***************************************************************************)
(* The services that change an owner's rows, called by threads that know   *)
(* nothing of each other: categories and contacts, the import of contacts, *)
(* and the rights of the data subject.                                     *)
(***************************************************************************)
EXTENDS Categories, PeopleImport, Privacy

CONSTANTS
    Defaults,   \* DEFAULT_CATEGORIES: the names, a sequence
    Mixes       \* bound: services a behaviour may use together, with its calls and time

ASSUME RecordsAssumption ==
    /\ Defaults \in Seq(Names) /\ ImportCategory \in DOMAIN Defaults /\ None \notin People
    /\ Mixes \subseteq [services : SUBSET {"categories", "import", "privacy"},
                        calls : Nat, time : 1 .. MaxTime]

VARIABLES
    mix,    \* the services it uses
    met     \* history: the pairs of operations that were under way at the same time

vars == <<now, minted, threads, rows, misdirected, privacyVars, mix, met>>

(* provision_defaults adds the default categories, checking nothing.       *)
Provisioned == [i \in DOMAIN Defaults |-> Category(Defaults[i])]

(* There is a contact with an event; one imported earlier makes no         *)
(* difference where nothing is imported.                                   *)
Init ==
    /\ mix \in Mixes /\ left = mix.calls
    /\ now = 1 /\ call = [t \in Threads |-> NoCall]
    /\ minted = Len(Defaults) + 2
    /\ \E p \in People \cup {None} :
           LET c == Len(Defaults) + 1 IN
           /\ p # None => "import" \in mix.services
           /\ rows = Insert(Insert(Provisioned, c, Contact(p, ImportCategory)), c + 1, ContactEvent(c, now))
    /\ misdirected = {} /\ tokensLive = TRUE /\ outcome = NoOutcome /\ met = {}

Tick ==
    /\ now < mix.time /\ now' = now + 1
    /\ Quietly /\ UNCHANGED <<minted, threads, rows, misdirected, tokensLive>>

Next ==
    /\ \/ Tick
       \/ \E t \in Threads :
           \/ /\ "categories" \in mix.services /\ CategoryStep(t)
              /\ Quietly /\ UNCHANGED tokensLive
           \/ /\ "import" \in mix.services /\ ImportStep(t)
              /\ Quietly /\ UNCHANGED <<misdirected, tokensLive>>
           \/ "privacy" \in mix.services /\ PrivacyStep(t) /\ UNCHANGED misdirected
    /\ met' = met \cup {{call'[p[1]].op, call'[p[2]].op} : p \in
                        {q \in Threads \X Threads : /\ q[1] # q[2]
                                                    /\ \A i \in 1 .. 2 : call'[q[i]] # NoCall}}
    /\ UNCHANGED mix

Spec == Init /\ [][Next]_vars

(* Did an operation of one and one of the other ever overlap?              *)
Met(these, those) == \E a \in these, b \in those : {a, b} \in met
Erasing == Under("erase") # {}
-------------------------------------------------------------------------------
(* Deleting a category leaves no contact without one, unless it was asked  *)
(* to reassign them to itself, or a call that writes a contact into it     *)
(* overlapped with its deletion; only imported contacts may be put into a  *)
(* category that is gone, which the import never looks for.                *)
StrandedOnlyByRace ==
    \A c \in List("contact") :
        \/ rows[c].of \in List("category") \cup misdirected
        \/ rows[c].key # None /\ rows[c].of = ImportCategory
        \/ Erasing
        \/ Met({"delete_category", "erase"},
               {"create_contact", "update_contact", "delete_category", "erase"})

(* Categories stay within their quota, but for one more for each other     *)
(* thread that was creating one at the same time, or those that a failed   *)
(* erasure put back.                                                       *)
CategoriesWithinQuota ==
    LET count == Cardinality(List("category")) IN
    \/ count <= MaxCategories
    \/ Met({"create_category"}, {"create_category"}) /\ count < MaxCategories + Cardinality(Threads)
    \/ Met({"create_category"}, {"erase"})

(* No two contacts are imported from the same person, unless an import     *)
(* overlapped another or an erasure (whose rows may be put back).          *)
NoPersonTwice ==
    \/ Met({"import"}, {"import", "erase"})
    \/ \A c, d \in List("contact") : rows[c].key = rows[d].key /\ c # d => rows[c].key = None

(* Contacts stay within their quota, but for one more for each other       *)
(* thread that was creating one at the same time, those that a failed      *)
(* erasure put back, and those of an import: it goes by the number it      *)
(* started with, while other calls add more.                               *)
ContactsWithinQuota ==
    LET count == Cardinality(List("contact")) IN
    \/ count <= MaxContacts
    \/ Met({"create_contact"}, {"create_contact"}) /\ count < MaxContacts + Cardinality(Threads)
    \/ Met({"import"}, {"create_contact", "import"}) \/ Met({"create_contact", "import"}, {"erase"})

(* An event's contact is there, once erasures are over, unless the event   *)
(* was being added while its contact was erased: erasing a contact takes   *)
(* its events along.                                                       *)
NoEventWithoutContact ==
    \A x \in List("contact_event") :
        \/ rows[x].of \in List("contact")
        \/ Erasing
        \/ Met({"erase_contact", "erase"}, {"log_event", "erase", "erase_contact"})

(* An export holds every row that was there all along, whatever is added,  *)
(* moved or removed while it lists one entity after the other; only an     *)
(* erasure that removes rows and puts them back can hide some from it.     *)
ExportIsComplete ==
    LET o == outcome IN
    o.op = "export" /\ o.step = "done" => \/ DOMAIN o.before \cap DOMAIN rows \subseteq DOMAIN o.copy
                       \/ Met({"export"}, {"erase"})

(* An erasure removes all that was there when it began and has the tokens  *)
(* revoked, or reports failure and leaves the rows as they were (but for   *)
(* the name of a category), unless overlapping calls removed or changed    *)
(* some; what is added meanwhile it may miss.                              *)
ErasureIsAllOrNothing ==
    LET o == outcome
        Kept(x) == /\ x \in DOMAIN rows
                   /\ rows[x] = o.before[x] \/ x \in List("category")
    IN  o.op = "erase" =>
            IF o.step = "done"
            THEN ~tokensLive /\ (DOMAIN o.before \cap DOMAIN rows = {} \/ Met({"erase"}, {"erase"}))
            ELSE \/ \A x \in DOMAIN o.before : Kept(x)
                 \/ Met({"erase"}, {"delete_category", "erase_contact", "update_contact", "rectify",
                                    "retention", "erase"})

(* A retention run removes the events whose time is up and no others,      *)
(* while calls around it add, erase and restore events.                    *)
RetentionIsExact ==
    LET o == outcome IN
    o.op = "retention" => \A x \in DOMAIN o.before :
        o.before[x].entity = "contact_event" =>
            IF o.before[x].at < o.cutoff
            THEN x \notin DOMAIN rows \/ Met({"retention"}, {"erase"})
            ELSE x \in DOMAIN rows \/ Met({"retention"}, {"erase", "erase_contact", "retention"})

(* categories.py:4-5: deleting a category "FAILS CLOSED if any contact     *)
(* would be left without a category".  (Not so: it may be reassigned to.)  *)
NoContactWithoutCategory ==
    \A c \in List("contact") : rows[c].of \in List("category")
==============================================================================
