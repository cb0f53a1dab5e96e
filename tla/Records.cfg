SPECIFICATION Spec
CONSTANTS
    t1 = t1  t2 = t2  n1 = n1  n2 = n2  n3 = n3  n4 = n4  p1 = p1  p2 = p2
    Threads = {t1, t2}
    MaxTime = 3  MaxIds = 7
    Names = {n1, n2, n3, n4}  Defaults <- MCDefaults
    People = {p1, p2}  ImportCategory = 1
    Retention = 1  MaxContacts = 2  MaxCategories = 3
    Mixes <- MCMixes
SYMMETRY MCSymmetry
INVARIANTS
    StrandedOnlyByRace
    CategoriesWithinQuota
    NoPersonTwice
    ContactsWithinQuota
    NoEventWithoutContact
    ExportIsComplete
    ErasureIsAllOrNothing
    RetentionIsExact
CHECK_DEADLOCK FALSE
