-------------------------------- MODULE Calls --------------------------------
(***************************************************************************)
(* Threads calling methods of in-memory objects they share.  A method is a *)
(* sequence of accesses to the objects' dictionaries; each access is one   *)
(* step, and between two of them other threads run.  What a thread keeps   *)
(* in local variables is its record in call.                               *)
(***************************************************************************)
EXTENDS Integers, FiniteSets

CONSTANTS
    Threads,    \* threads of the process
    MaxTime,    \* bound: the clock stops here
    MaxIds      \* bound: ids minted in a behaviour

ASSUME CallsAssumption ==
    /\ IsFiniteSet(Threads) /\ Threads # {}
    /\ MaxTime \in Nat \ {0} /\ MaxIds \in Nat

VARIABLES
    now,        \* the clock, in ticks
    minted,     \* ids (of secrets.token_urlsafe) handed out: 1 .. minted
    call,       \* the call each thread is executing
    left        \* bound: calls that may still begin

threads == <<call, left>>

None == 0
Ids == 1 .. MaxIds
Fresh == minted + 1
Mint == Fresh \in Ids /\ minted' = Fresh

NoCall == [op |-> "none", step |-> "none"]
At(t, op, step) == call[t].op = op /\ call[t].step = step
Under(op) == {t \in Threads : call[t].op = op}

(* A call with locals c begins; a call that is one step begins and ends.   *)
Begin(t, c) ==
    /\ call[t] = NoCall /\ left > 0
    /\ left' = left - 1 /\ call' = [call EXCEPT ![t] = c]
OneStep(t) == call[t] = NoCall /\ left > 0 /\ left' = left - 1 /\ UNCHANGED call
GoOn(t, c) == call' = [call EXCEPT ![t] = c] /\ UNCHANGED left
GoTo(t, step) == GoOn(t, [call[t] EXCEPT !.step = step])
Return(t) == GoOn(t, NoCall)

(* A dictionary is a function; inserting and removing an entry are atomic. *)
Empty == [x \in {} |-> None]
Insert(dict, key, entry) == [x \in DOMAIN dict \cup {key} |-> IF x = key THEN entry ELSE dict[x]]
Remove(dict, keys) == [x \in DOMAIN dict \ keys |-> dict[x]]
=============================================================================
