---------------------------- MODULE DriverSearch -----------------------------
(***************************************************************************)
(* The loops of find_driver_basic and find_driver_smart                    *)
(* (dispatch_algorithms.c:14-55), run over any driver table: one step per  *)
(* driver looked at.  Fleet!Find says in one expression what they answer;  *)
(* RideServer uses it, and this module shows the loops compute it.         *)
(***************************************************************************)
EXTENDS Fleet

CONSTANTS
    Table,       \* the driver tables a search may meet
    Infinity     \* 1000000.0, what min_dist starts from

ASSUME SearchAssumption ==
    /\ Table \subseteq [Slot -> Driver]
    /\ Infinity \in Nat
    /\ \A p \in Place : Distance(Base, p) < Infinity

VARIABLES
    drivers, driver_count, dispatch_mode, is_vip,  \* the input
    pass,        \* "vip", "basic", or "done"
    i,           \* the loop index
    best_index,  \* 0 for the -1 of the code
    min_dist

input == <<drivers, driver_count, dispatch_mode, is_vip>>
vars == <<input, pass, i, best_index, min_dist>>

\* ride_service.c:23 picks the algorithm; the smart one begins with its VIP pass.
Init ==
    /\ drivers \in Table
    /\ driver_count \in 0..MaxDrivers
    /\ dispatch_mode \in 0..1
    /\ is_vip \in BOOLEAN
    /\ pass = IF dispatch_mode # 0 /\ is_vip THEN "vip" ELSE "basic"
    /\ i = 1
    /\ best_index = 0
    /\ min_dist = Infinity

Candidate(d) == Eligible(d) /\ (pass = "vip" => d.top = 1)

\* Variant: a tie goes to the later driver.
BetterOrEqual(d) == Candidate(d) /\ FromBase(d) <= min_dist

\* The test in the middle of the loop.
Better(d) == Candidate(d) /\ FromBase(d) < min_dist

\* Variant: the loop runs one record past the last driver.
LookPastEnd ==
    /\ pass # "done"
    /\ i <= driver_count + 1
    /\ i' = i + 1
    /\ UNCHANGED <<input, pass, best_index, min_dist>>

Look ==
    /\ pass # "done"
    /\ i <= driver_count
    /\ \/ /\ Better(drivers[i])
          /\ best_index' = i
          /\ min_dist' = FromBase(drivers[i])
       \/ /\ ~Better(drivers[i])
          /\ UNCHANGED <<best_index, min_dist>>
    /\ i' = i + 1
    /\ UNCHANGED <<input, pass>>

\* A VIP pass that found nobody falls back on the basic search.
FallBack ==
    /\ pass = "vip"
    /\ i > driver_count
    /\ best_index = 0
    /\ pass' = "basic"
    /\ i' = 1
    /\ min_dist' = Infinity
    /\ UNCHANGED <<input, best_index>>

Return ==
    /\ pass # "done"
    /\ i > driver_count
    /\ pass = "basic" \/ best_index # 0
    /\ pass' = "done"
    /\ UNCHANGED <<input, i, best_index, min_dist>>

Next == Look \/ FallBack \/ Return

Spec == Init /\ [][Next]_vars

-----------------------------------------------------------------------------
\* The loop variables stay within the table that is searched.
TypeOK ==
    /\ drivers \in [Slot -> Driver]
    /\ driver_count \in 0..MaxDrivers
    /\ dispatch_mode \in 0..1
    /\ is_vip \in BOOLEAN
    /\ pass \in {"vip", "basic", "done"}
    /\ i \in 1..(driver_count + 1)
    /\ best_index \in 0..driver_count
    /\ min_dist \in Nat

\* The answer of the loops is the nearest free driver, the lowest index among
\* equals, of those at or above the VIP threshold when a VIP asks in smart mode
\* and one of them is free; and nobody only when nobody is free
\* (dispatch_algorithms.c:14-55).
AnswerIsNearest ==
    pass = "done" =>
        LET found == Find(dispatch_mode, drivers, driver_count, is_vip)
        IN  IF best_index = 0 THEN found = {} ELSE best_index \in found

=============================================================================
