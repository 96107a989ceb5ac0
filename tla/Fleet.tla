-------------------------------- MODULE Fleet --------------------------------
(***************************************************************************)
(* The driver table of the shared memory segment (shared_data.h) and the   *)
(* code that reads and rewrites one of its records while it holds the      *)
(* process-shared mutex: the dispatch algorithms that choose a driver, the *)
(* booking of a ride, and the five steps the map monitor applies to every  *)
(* driver in every tick.  The module has no state of its own; RideServer   *)
(* schedules these operators among the workers and the monitor.            *)
(*                                                                         *)
(* A Place is a (lat, lon) pair.  Blocked is the set of places whose cell  *)
(* is_obstacle() rejects: the river, the two buildings and everything off  *)
(* the 40 x 20 map.  Rounding inside a cell is left to the choice of the   *)
(* next place, which may therefore be any place on the map.                *)
(***************************************************************************)
EXTENDS Integers, FiniteSets

CONSTANTS
    MaxDrivers,      \* MAX_DRIVERS, the length of SharedState.drivers
    TankFull,        \* 10 in the code
    Place,           \* positions a driver may have
    Blocked,         \* positions in an obstacle or outside the map
    Base,            \* (BASE_LAT, BASE_LON)
    Origin,          \* (0.0, 0.0), what memset leaves in a record
    Distance(_, _),  \* calculate_distance, scaled to a natural number
    ArrivalRadius    \* dist < 0.01 counts as arrived

ASSUME SizesAssumption ==
    /\ MaxDrivers \in Nat
    /\ TankFull \in Nat \ {0} /\ TankFull % 2 = 0
    /\ ArrivalRadius \in Nat

ASSUME PlaceAssumption ==
    /\ Blocked \subseteq Place
    /\ Origin \in Blocked
    /\ Base \in Place \ Blocked
    /\ \A p, q \in Place : Distance(p, q) \in Nat

(***************************************************************************)
(* A driver record.  The C flags are 0 or 1.  top abstracts rating: 1 when *)
(* it reaches the VIP threshold of 4.8.                                    *)
(***************************************************************************)
Flag == 0..1

Driver == [is_available : Flag, is_refueling : Flag, has_target : Flag,
           fuel : Int, rides_count : Nat, place : Place, target : Place,
           top : Flag]

\* A record of the segment nobody has joined into: all zero bytes.
Zeroed == [is_available |-> 0, is_refueling |-> 0, has_target |-> 0,
           fuel |-> 0, rides_count |-> 0, place |-> Origin, target |-> Origin,
           top |-> 0]

\* The master's own drivers: full tank, anywhere in the square beside base.
Fresh(p, t) == [Zeroed EXCEPT !.is_available = 1, !.fuel = TankFull,
                              !.place = p, !.top = t]

\* What process_driver_join leaves in a zeroed slot: position and rating unset.
Joined(d) == [d EXCEPT !.is_available = 1, !.fuel = TankFull]

Slot == 1..MaxDrivers

-----------------------------------------------------------------------------
(***************************************************************************)
(* The dispatch algorithms.  Both loops keep a driver only when it is      *)
(* strictly nearer to base than the one they hold, so the answer is the    *)
(* nearest, and among equals the lowest index.  A search answers with the  *)
(* empty set where the code answers with -1.                               *)
(***************************************************************************)
\* Variant: the busy flag is not looked at.
EligibleEvenIfBusy(d) == d.is_refueling = 0 /\ d.fuel > 0

Eligible(d) == d.is_available = 1 /\ d.is_refueling = 0 /\ d.fuel > 0

FromBase(d) == Distance(Base, d.place)

Nearest(dr, S) ==
    {i \in S : \A j \in S :
        \/ FromBase(dr[i]) < FromBase(dr[j])
        \/ FromBase(dr[i]) = FromBase(dr[j]) /\ i <= j}

EligibleSlots(dr, n) == {i \in 1..n : Eligible(dr[i])}

FindBasic(dr, n) == Nearest(dr, EligibleSlots(dr, n))

FindSmart(dr, n, vip) ==
    LET best == {i \in EligibleSlots(dr, n) : dr[i].top = 1}
    IN  IF vip /\ best # {} THEN Nearest(dr, best) ELSE FindBasic(dr, n)

\* dispatch_mode 0 is basic, anything else smart.
Find(mode, dr, n, vip) ==
    IF mode = 0 THEN FindBasic(dr, n) ELSE FindSmart(dr, n, vip)

\* The driver's part of a confirmed ride.
Booked(d, destination) ==
    [d EXCEPT !.is_available = 0, !.rides_count = @ + 1, !.fuel = @ - 1,
              !.has_target = 1, !.target = destination]

-----------------------------------------------------------------------------
(***************************************************************************)
(* One driver's share of a monitor tick, in the order of the code.         *)
(***************************************************************************)

\* Variant: the respawned driver keeps its target.
RespawnOnRide(d) ==
    IF d.place \in Blocked
    THEN [d EXCEPT !.place = Base, !.is_available = 1, !.is_refueling = 0]
    ELSE d

\* 1. A driver in a wall or off the map starts again at base.
Respawn(d) ==
    IF d.place \in Blocked
    THEN [d EXCEPT !.place = Base, !.has_target = 0, !.is_available = 1,
                   !.is_refueling = 0]
    ELSE d

\* 2. A ride ends near its target, or anywhere with luck; either way the tick
\*    may burn a unit of fuel (burn), even as the ride ends.
\* Variant: no ride ends early.
ArrivesOnlyThere(d, luck) == Distance(d.place, d.target) < ArrivalRadius

Arrives(d, luck) == luck \/ Distance(d.place, d.target) < ArrivalRadius

Navigate(d, luck, burn) ==
    LET left == IF burn /\ d.fuel > 0 THEN d.fuel - 1 ELSE d.fuel
    IN  IF d.has_target = 0 THEN d
        ELSE IF Arrives(d, luck)
        THEN [d EXCEPT !.has_target = 0, !.is_available = 1, !.is_refueling = 0,
                       !.place = d.target, !.fuel = left]
        ELSE [d EXCEPT !.fuel = left]

\* 3. An idle driver with a dry tank goes to refuel, and whoever is refuelling
\*    takes two units, or leaves the pump once the tank is full.
GoRefuel(d) ==
    IF d.is_available = 1 /\ d.fuel <= 0 /\ d.is_refueling = 0
    THEN [d EXCEPT !.is_refueling = 1, !.is_available = 0, !.has_target = 0]
    ELSE d

\* Variants: the test for full is off by one, or full leads nowhere.
PumpPastFull(d) ==
    IF d.is_refueling = 0 THEN d
    ELSE IF d.fuel <= TankFull THEN [d EXCEPT !.fuel = @ + 2]
    ELSE [d EXCEPT !.is_refueling = 0, !.is_available = 1]

PumpForever(d) ==
    IF d.is_refueling = 1 /\ d.fuel < TankFull THEN [d EXCEPT !.fuel = @ + 2] ELSE d

Pump(d) ==
    IF d.is_refueling = 0 THEN d
    ELSE IF d.fuel < TankFull THEN [d EXCEPT !.fuel = @ + 2]
    ELSE [d EXCEPT !.is_refueling = 0, !.is_available = 1]

\* 4. The failsafe against a busy driver with nowhere to go.
Zombie(d) == d.is_available = 0 /\ d.is_refueling = 0 /\ d.has_target = 0

ClearZombie(d) == IF Zombie(d) THEN [d EXCEPT !.is_available = 1] ELSE d

\* 5. A driver on a ride follows the path finder, and one the path finder leaves
\*    in its cell (stuck) ends the ride; everyone else takes a random step that
\*    is undone when it runs into a blocked cell.
Move(d, stuck, next) ==
    IF d.has_target = 1 /\ d.is_refueling = 0
    THEN IF stuck THEN [d EXCEPT !.has_target = 0, !.is_available = 1]
         ELSE [d EXCEPT !.place = next]
    ELSE IF (d.is_available = 1 \/ d.is_refueling = 1) /\ next \notin Blocked
    THEN [d EXCEPT !.place = next]
    ELSE d

\* The record as step 5 finds it, and as the tick leaves it.
BeforeMove(d, luck, burn) ==
    ClearZombie(Pump(GoRefuel(Navigate(Respawn(d), luck, burn))))

Tick(d, luck, burn, stuck, next) == Move(BeforeMove(d, luck, burn), stuck, next)

-----------------------------------------------------------------------------
(***************************************************************************)
(* What every record of a driver in the table must satisfy whenever the    *)
(* mutex is free.                                                          *)
(***************************************************************************)

\* Exactly one of: waiting for a ride, at the pump, on a ride.
OneStatus(d) == d.is_available + d.is_refueling + d.has_target = 1

\* The tank neither overflows nor runs below empty.  The pump tests for a full
\* tank before it adds two units, so it relies on starting from an even level.
TankSound(d) ==
    /\ d.fuel \in 0..TankFull
    /\ d.is_refueling = 1 => d.fuel % 2 = 0

=============================================================================
