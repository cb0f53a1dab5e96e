------------------------------ MODULE MCRecords ------------------------------
(* A small instance of Records for TLC.                                     *)
EXTENDS Records, TLC

CONSTANTS t1, t2, n1, n2, n3, n4, p1, p2

MCDefaults == <<n1, n2>>
MCOneCall == {[services |-> {"categories"}, calls |-> 1, time |-> 1]}
MCMixes == {
    [services |-> {"categories", "import", "privacy"}, calls |-> 2, time |-> 3],
    [services |-> {"categories", "import"}, calls |-> 3, time |-> 1],
    [services |-> {"privacy"}, calls |-> 3, time |-> 1] }
MCSymmetry == Permutations({t1, t2}) \cup Permutations({n3, n4}) \cup Permutations({p1, p2})
==============================================================================
