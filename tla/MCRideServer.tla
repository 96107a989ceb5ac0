---------------------------- MODULE MCRideServer -----------------------------
(***************************************************************************)
(* Small instances of RideServer.  Places are numbers on a line, distance  *)
(* is how far apart they are, 0 is base, 2 is a wall and 9 is the zero     *)
(* position of a record nobody has placed.                                 *)
(***************************************************************************)
EXTENDS RideServer, TLC

CONSTANTS w1, w2

MCPlace == {0, 1, 2, 9}
MCBlocked == {2, 9}
MCDistance(p, q) == IF p < q THEN q - p ELSE p - q
MCWorker == {w1, w2}
WorkerSymmetry == Permutations(MCWorker)

=============================================================================
