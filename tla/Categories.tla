------------------------------ MODULE Categories ------------------------------
(***************************************************************************)
(* CategoryService, and the creation and moving of contacts that rely on   *)
(* the categories being there.                                             *)
(***************************************************************************)
EXTENDS OwnedRows

VARIABLE misdirected    \* history: categories deleted with themselves to reassign to

(* create: quota and name are checked on one listing, then the row added.  *)
(* Mutant: the quota check is off by one.                                  *)
StartCreateCategoryOverQuota(t, name) ==
    /\ IF Cardinality(List("category")) <= MaxCategories
          /\ \A g \in List("category") : rows[g].key # name
       THEN Begin(t, [op |-> "create_category", step |-> "add", name |-> name])
       ELSE OneStep(t)
    /\ UNCHANGED <<now, minted, rows, misdirected>>
StartCreateCategory(t, name) ==
    /\ IF ~CategoriesFull
          /\ \A g \in List("category") : rows[g].key # name
       THEN Begin(t, [op |-> "create_category", step |-> "add", name |-> name])
       ELSE OneStep(t)
    /\ UNCHANGED <<now, minted, rows, misdirected>>
AddCategory(t) ==
    /\ At(t, "create_category", "add")
    /\ AddRow(Category(call[t].name)) /\ Return(t)
    /\ UNCHANGED <<now, misdirected>>

Rename(t, g, name) ==
    /\ g \in List("category")
    /\ OneStep(t) /\ rows' = [rows EXCEPT ![g].key = name]
    /\ UNCHANGED <<now, minted, misdirected>>

(* delete: find the category, list its contacts, find the category they    *)
(* are reassigned to, reassign them one by one, delete the row.            *)
StartDeleteCategory(t, g, to) ==
    /\ g \in List("category")
    /\ Begin(t, [op |-> "delete_category", step |-> "list", g |-> g, to |-> to, todo |-> {}])
    /\ UNCHANGED <<now, minted, rows, misdirected>>
ListContacts(t) ==
    LET found == {c \in List("contact") : rows[c].of = call[t].g} IN
    /\ At(t, "delete_category", "list")
    /\ GoOn(t, [call[t] EXCEPT !.todo = found, !.step = IF found = {} THEN "delete" ELSE "target"])
    /\ UNCHANGED <<now, minted, rows, misdirected>>
(* Mutant: it is not checked that there is a category to reassign to.      *)
FindAnyTarget(t) ==
    /\ At(t, "delete_category", "target") /\ GoTo(t, "reassign")
    /\ misdirected' = misdirected \cup ({call[t].g} \cap {call[t].to})
    /\ UNCHANGED <<now, minted, rows>>
FindTarget(t) ==
    /\ At(t, "delete_category", "target")
    /\ IF call[t].to \in List("category")
       THEN GoTo(t, "reassign") /\ misdirected' = misdirected \cup ({call[t].g} \cap {call[t].to})
       ELSE Return(t) /\ UNCHANGED misdirected
    /\ UNCHANGED <<now, minted, rows>>
Reassign(t) ==
    /\ At(t, "delete_category", "reassign")
    /\ \E c \in call[t].todo :
        /\ Recategorize(c, call[t].to)
        /\ GoOn(t, [call[t] EXCEPT !.todo = @ \ {c},
                                   !.step = IF call[t].todo = {c} THEN "delete" ELSE @])
    /\ UNCHANGED <<now, minted, misdirected>>
DeleteCategory(t) ==
    /\ At(t, "delete_category", "delete")
    /\ DeleteRow(call[t].g) /\ Return(t)
    /\ UNCHANGED <<now, minted, misdirected>>

(* ContactService.create and update: the quota, the category, the write.   *)
StartCreateContact(t, g) ==
    /\ IF ~ContactsFull(Cardinality(List("contact")))
       THEN Begin(t, [op |-> "create_contact", step |-> "category", c |-> None, g |-> g])
       ELSE OneStep(t)
    /\ UNCHANGED <<now, minted, rows, misdirected>>
StartMoveContact(t, c, g) ==
    /\ Begin(t, [op |-> "update_contact", step |-> "category", c |-> c, g |-> g])
    /\ UNCHANGED <<now, minted, rows, misdirected>>
FindCategory(t) ==
    /\ call[t].op \in {"create_contact", "update_contact"} /\ call[t].step = "category"
    /\ IF call[t].g \in List("category") THEN GoTo(t, "write") ELSE Return(t)
    /\ UNCHANGED <<now, minted, rows, misdirected>>
WriteContact(t) ==
    /\ \/ At(t, "create_contact", "write") /\ AddRow(Contact(None, call[t].g))
       \/ /\ At(t, "update_contact", "write") /\ UNCHANGED minted
          /\ Recategorize(call[t].c, call[t].g)
    /\ Return(t) /\ UNCHANGED <<now, misdirected>>

CategoryStep(t) ==
    \/ AddCategory(t) \/ ListContacts(t) \/ FindTarget(t) \/ Reassign(t) \/ DeleteCategory(t)
    \/ FindCategory(t) \/ WriteContact(t)
    \/ \E name \in Names : \/ StartCreateCategory(t, name)
                           \/ \E g \in List("category") : Rename(t, g, name)
    \/ \E g \in List("category") :
        \/ StartCreateContact(t, g)
        \/ \E to \in List("category") \cup {None} : StartDeleteCategory(t, g, to)
        \/ \E c \in List("contact") : StartMoveContact(t, c, g)
=============================================================================
