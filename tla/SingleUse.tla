------------------------------ MODULE SingleUse ------------------------------
(***************************************************************************)
(* What the stores of pending ceremonies promise, in the abstract: a       *)
(* ticket (a state, a challenge) is issued to a holder, and is spent at    *)
(* most once, by that holder, unless it became void first (it expired, was *)
(* replaced, or was used up by an attempt that failed).                    *)
(***************************************************************************)
CONSTANTS Tickets, Holders,
    Nobody      \* the holder of a ticket not issued

VARIABLES
    status,     \* "unissued", "live", "spent" or "void"
    holder,     \* whom each issued ticket was issued to
    spender     \* who spent each spent ticket

Init ==
    /\ status = [x \in Tickets |-> "unissued"]
    /\ holder = [x \in Tickets |-> Nobody] /\ spender = [x \in Tickets |-> Nobody]

Become(x, from, to) == status[x] = from /\ status' = [status EXCEPT ![x] = to]

(* Issuing a ticket may void the one it replaces.                          *)
Issue(x, h) ==
    /\ status[x] = "unissued"
    /\ \E old \in SUBSET {y \in Tickets : status[y] = "live"} :
           status' = [y \in Tickets |-> IF y = x THEN "live" ELSE
                                        IF y \in old THEN "void" ELSE status[y]]
    /\ holder' = [holder EXCEPT ![x] = h]
    /\ UNCHANGED spender
Spend(x) ==
    /\ Become(x, "live", "spent")
    /\ spender' = [spender EXCEPT ![x] = holder[x]]
    /\ UNCHANGED holder
Void ==
    /\ \E old \in SUBSET {y \in Tickets : status[y] = "live"} :
           status' = [y \in Tickets |-> IF y \in old THEN "void" ELSE status[y]]
    /\ UNCHANGED <<holder, spender>>

Next ==
    \/ Void
    \/ \E x \in Tickets : Spend(x) \/ \E h \in Holders : Issue(x, h)

Spec == Init /\ [][Next]_<<status, holder, spender>>
=============================================================================
