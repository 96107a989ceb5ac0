--------------------------- MODULE MCDriverSearch ----------------------------
(***************************************************************************)
(* DriverSearch over every table of three drivers who are idle, at the     *)
(* pump or on a ride, with fuel or without, at base, near it or far away.  *)
(***************************************************************************)
EXTENDS DriverSearch

MCPlace == {0, 1, 3, 9}
MCBlocked == {9}
MCDistance(p, q) == IF p < q THEN q - p ELSE p - q

MCDriver ==
    {d \in [is_available : Flag, is_refueling : Flag, has_target : Flag,
            fuel : 0..1, rides_count : {0}, place : {0, 1, 3}, target : {0},
            top : Flag] : OneStatus(d) /\ (d.is_refueling = 1 => d.fuel = 0)}

MCTable == [Slot -> MCDriver]

=============================================================================
