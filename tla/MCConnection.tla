---------------------------- MODULE MCConnection -----------------------------
(***************************************************************************)
(* Riders differ only in name, and so do workers.  Crypto comes with it so *)
(* that its assumptions are evaluated: they are why Shared is symmetric    *)
(* and why Readable asks for the very same key.                            *)
(***************************************************************************)
EXTENDS Connection, Crypto, TLC

MCSymmetry == Permutations(Worker) \cup Permutations(Rider)

=============================================================================
