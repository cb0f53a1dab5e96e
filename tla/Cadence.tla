------------------------------- MODULE Cadence -------------------------------
(***************************************************************************)
(* contacts/cadence.py: the quiet hours of a user, in local minutes of the *)
(* day, inside which nothing is delivered.  (A contact's own cadence would *)
(* override its category's, but nothing in the code ever sets one.)        *)
(***************************************************************************)
EXTENDS Integers

CONSTANT Day    \* minutes in a day

ASSUME CadenceAssumption == Day \in Nat \ {0}

Minutes == 0 .. Day - 1

(* Is the time zone one that ZoneInfo knows?  Quiet hours that are not set *)
(* count as empty: they start when they end.                               *)
UserSettings == [timezone : BOOLEAN, quiet_hours : Minutes \X Minutes]

InQuietHours(start, end, minute) ==
    \/ start < end /\ start <= minute /\ minute < end
    \/ start > end /\ (start <= minute \/ minute < end)     \* they wrap midnight

IsDeliveryAllowed(settings, minute) ==
    /\ settings.timezone
    /\ ~InQuietHours(settings.quiet_hours[1], settings.quiet_hours[2], minute)
-------------------------------------------------------------------------------
(* The minutes from one time of day to the next time it is another.        *)
MinutesUntil(from, to) == IF from <= to THEN to - from ELSE to - from + Day
=============================================================================
