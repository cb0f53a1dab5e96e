--------------------------- MODULE MCReminderEngine ---------------------------
(* A small instance of the reminder engine for TLC.                         *)
EXTENDS ReminderEngine, TLC

CONSTANTS c1, c2, g1, g2, c3, w1, w2, t1, t2, e1, e2

MCCadence == [g \in CategoryIds |-> IF g = g1 THEN 1 ELSE 2]
(* The second tick is past midnight, inside the first window's quiet hours. *)
MCMinuteAt == [t \in 1 .. MaxTime |-> IF t = 1 THEN 2 ELSE 0]
MCSettings == [w \in WindowIds |-> [timezone |-> TRUE,
                                    quiet_hours |-> IF w = w1 THEN <<3, 1>> ELSE <<0, 0>>]]
MCWindowsAt == [t \in 1 .. MaxTime |-> IF t = 1 THEN {w1} ELSE WindowIds]
MCSymmetry == Permutations(ContactIds \ InitialContacts) \cup Permutations(InitialContacts)
              \cup Permutations(Threads) \cup Permutations(Evaluators)
=============================================================================
