---------------------------- MODULE MCRateLimiter ----------------------------
(***************************************************************************)
(* Small instances of RateLimiter.                                         *)
(***************************************************************************)
EXTENDS RateLimiter, TLC

CONSTANTS w1, w2

MCWorker == {w1, w2}
WorkerSymmetry == Permutations(MCWorker)

=============================================================================
