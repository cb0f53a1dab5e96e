SPECIFICATION Spec
CONSTANTS
    t1 = t1  t2 = t2  n1 = n1  n2 = n2  n3 = n3  n4 = n4  p1 = p1  p2 = p2
    Threads = {t1}
    MaxTime = 1  MaxIds = 5
    Names = {n1, n2, n3, n4}  Defaults <- MCDefaults
    People = {p1}  ImportCategory = 1
    Retention = 1  MaxContacts = 2  MaxCategories = 3
    Mixes <- MCOneCall
INVARIANT NoContactWithoutCategory
CHECK_DEADLOCK FALSE
