------------------------------ MODULE MCRestart -------------------------------
(***************************************************************************)
(* A small instance of Restart.  Of the line of places of MCRideServer it  *)
(* has 0, base, 2, a wall two steps away, and 9, the zero position.        *)
(***************************************************************************)
EXTENDS Restart

MCPlace == {0, 2, 9}
MCBlocked == {2, 9}
MCDistance(p, q) == IF p < q THEN q - p ELSE p - q

=============================================================================
