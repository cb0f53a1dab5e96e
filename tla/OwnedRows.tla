------------------------------ MODULE OwnedRows ------------------------------
(***************************************************************************)
(* One owner's categories, contacts and contact events in the repository,  *)
(* by row id.  Each repository call is one step; a service method makes    *)
(* several, and another thread's calls come between them.                  *)
(*                                                                         *)
(* A row has an entity, a key (a category's name, an imported contact's    *)
(* provider id), what it belongs to (a contact's category, an event's      *)
(* contact) and a time (of a contact's last rectification, of an event).   *)
(***************************************************************************)
EXTENDS Calls

CONSTANTS
    Names,          \* category names
    MaxContacts, MaxCategories  \* QuotaConfig

ASSUME OwnedRowsAssumption == MaxContacts \in Nat /\ MaxCategories \in Nat /\ None \notin Names

VARIABLE rows

Category(name) == [entity |-> "category", key |-> name, of |-> None, at |-> None]
Contact(provider_id, g) == [entity |-> "contact", key |-> provider_id, of |-> g, at |-> None]
ContactEvent(c, at) == [entity |-> "contact_event", key |-> None, of |-> c, at |-> at]

Entities == <<"contact", "category", "contact_event">>
List(entity) == {x \in DOMAIN rows : rows[x].entity = entity}
AddRow(row) == Mint /\ rows' = Insert(rows, Fresh, row)
Recategorize(c, g) == rows' = IF c \in DOMAIN rows THEN [rows EXCEPT ![c].of = g] ELSE rows
DeleteRow(x) == rows' = Remove(rows, {x})

(* QuotaConfig.check_contacts and check_categories raise.                  *)
ContactsFull(count) == count >= MaxContacts
CategoriesFull == Cardinality(List("category")) >= MaxCategories
=============================================================================
