----------------------------- MODULE PeopleImport -----------------------------
(***************************************************************************)
(* GooglePeopleImporter: contacts added one by one as the pages of people  *)
(* come in, told apart by provider id from those there at the start and    *)
(* those the import added.  A page or a person that is not acceptable ends *)
(* the import; what was added before stays.                                *)
(***************************************************************************)
EXTENDS OwnedRows

CONSTANTS
    People,         \* provider ids
    ImportCategory  \* the category imported contacts are put in

StartImport(t) ==
    LET existing == List("contact") IN
    /\ Begin(t, [op |-> "import", step |-> "person", count |-> Cardinality(existing),
                 seen |-> {rows[c].key : c \in existing} \ {None}])
    /\ UNCHANGED <<now, minted, rows>>
(* Mutant: what the import itself added is not remembered.                 *)
ImportAndForget(t, p) ==
    /\ At(t, "import", "person") /\ p \notin call[t].seen
    /\ IF ContactsFull(call[t].count)
       THEN Return(t) /\ UNCHANGED <<rows, minted>>
       ELSE /\ AddRow(Contact(p, ImportCategory))
            /\ GoOn(t, [call[t] EXCEPT !.count = @ + 1])
    /\ UNCHANGED now
(* Mutant: the contacts added are not counted.                             *)
ImportUncounted(t, p) ==
    /\ At(t, "import", "person") /\ p \notin call[t].seen
    /\ IF ContactsFull(call[t].count)
       THEN Return(t) /\ UNCHANGED <<rows, minted>>
       ELSE /\ AddRow(Contact(p, ImportCategory))
            /\ GoOn(t, [call[t] EXCEPT !.seen = @ \cup {p}])
    /\ UNCHANGED now
(* The next person not seen before; one seen before changes nothing.       *)
ImportPerson(t, p) ==
    /\ At(t, "import", "person") /\ p \notin call[t].seen
    /\ IF ContactsFull(call[t].count)
       THEN Return(t) /\ UNCHANGED <<rows, minted>>
       ELSE /\ AddRow(Contact(p, ImportCategory))
            /\ GoOn(t, [call[t] EXCEPT !.seen = @ \cup {p}, !.count = @ + 1])
    /\ UNCHANGED now
(* A page is too large, or a person malformed: the import raises.          *)
RejectPerson(t) ==
    /\ At(t, "import", "person") /\ Return(t)
    /\ UNCHANGED <<now, minted, rows>>
(* The pages are exhausted.                                                *)
EndImport(t) ==
    /\ At(t, "import", "person") /\ Return(t)
    /\ UNCHANGED <<now, minted, rows>>

ImportStep(t) ==
    \/ StartImport(t) \/ RejectPerson(t) \/ EndImport(t)
    \/ \E p \in People : ImportPerson(t, p)
=============================================================================
