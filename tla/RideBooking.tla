----------------------------- MODULE RideBooking -----------------------------
(***************************************************************************)
(* What the ride service promises, with no workers, no mutex and no map: a *)
(* driver is booked only while idle, every booking is charged exactly one  *)
(* fare in the same step, and nothing else moves the money or the number   *)
(* of rides.  RideServer implements it.                                    *)
(***************************************************************************)
EXTENDS Integers

CONSTANTS
    Slots,   \* the records of the driver table
    Fares    \* what a ride may cost

VARIABLES
    status,  \* [Slots -> {"absent", "idle", "riding", "pump"}]
    rides,   \* rides booked so far, per driver
    cash     \* fares taken so far

vars == <<status, rides, cash>>

Init ==
    /\ status \in [Slots -> {"absent", "idle"}]
    /\ rides = [i \in Slots |-> 0]
    /\ cash = 0

Book(i) ==
    /\ status[i] = "idle"
    /\ status' = [status EXCEPT ![i] = "riding"]
    /\ rides' = [rides EXCEPT ![i] = @ + 1]
    /\ \E f \in Fares : cash' = cash + f

\* A driver changes what it does without taking a passenger.
Turn(i, from, to) ==
    /\ status[i] = from
    /\ status' = [status EXCEPT ![i] = to]
    /\ UNCHANGED <<rides, cash>>

Enlist(i) == Turn(i, "absent", "idle")
Finish(i) == Turn(i, "riding", "idle") \/ Turn(i, "riding", "pump")
GoToPump(i) == Turn(i, "idle", "pump")
LeavePump(i) == Turn(i, "pump", "idle")

Next ==
    \E i \in Slots :
        Book(i) \/ Enlist(i) \/ Finish(i) \/ GoToPump(i) \/ LeavePump(i)

Spec == Init /\ [][Next]_vars

=============================================================================
