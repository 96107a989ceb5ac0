----------------------------- MODULE Navigation ------------------------------
(***************************************************************************)
(* Where a driver is and where the monitor takes it (map_monitor.c,        *)
(* pathfinding.c).  Positions are kept as coordinates and read back as     *)
(* cells of a 40 x 20 map at every use, by a conversion that truncates.    *)
(*                                                                         *)
(* Coordinates are offsets from base in units of 0.0001 degree, a fifth    *)
(* of a cell: starts and destinations are multiples of the unit, a walk    *)
(* adds five of them, the path finder writes whole cells.  On a whole cell *)
(* the double may be a rounding error off, and truncation then gives the   *)
(* cell nearer to zero.  For a coordinate written in one addition to base  *)
(* this is known (Short); after walks, whose errors pile up, either        *)
(* reading is possible.  So a driver has a coordinate and a cell.  Off the *)
(* map nothing is asked of a cell but that it is off.                      *)
(*                                                                         *)
(* Only has_target of the driver's status matters here: Fleet has the rest *)
(* of the tick, with this module's outcome as its parameters next, stuck.  *)
(***************************************************************************)
EXTENDS Integers, FiniteSetsExt

CONSTANTS
    Start,        \* where drivers are before their first tick
    Destination   \* where bookings send them

Axis == {"x", "y"}
Size == [x |-> 40, y |-> 20]   \* MAP_WIDTH, MAP_HEIGHT
Unit == 5                      \* units to a cell
Close == 100                   \* units to the arrival radius of 0.01 degree

\* main places drivers in the square beside base; ipc_init lines up as many as there
\* are slots, the eleventh and all after it off the map; a driver that joins has
\* latitude and longitude zero, far off the map.
Square == [x : 0..99, y : 0..99]
Line == {[a \in Axis |-> 10 * i] : i \in 0..255}
Unset == [x |-> -1215654, y |-> -250330]

ASSUME NavigationAssumption ==
    /\ Start \subseteq Square \cup Line \cup {Unset}
    /\ Destination \subseteq [x : 0..179, y : 0..89]

VARIABLE driver

-----------------------------------------------------------------------------
(***************************************************************************)
(* The map.                                                                *)
(***************************************************************************)

\* The river and the two buildings.
Wall == ({20} \X (5..14)) \cup ((5..9) \X (3..6)) \cup ((30..34) \X (12..15))

\* Variant: the lower bounds are not tested.
IsObstacleUpperOnly(c) == c.x >= Size.x \/ c.y >= Size.y \/ <<c.x, c.y>> \in Wall

IsObstacle(c) == (\E a \in Axis : c[a] \notin 0..(Size[a] - 1)) \/ <<c.x, c.y>> \in Wall

Base == [a \in Axis |-> 0]

\* (int) of a tenth of a unit, toward zero.
Truncate(v) == IF v >= 0 THEN v \div (10 * Unit) ELSE -((-v) \div (10 * Unit))

\* The cells c of the map for which BASE + c / 2000.0, read back, is less than c.
Short ==
    [x |-> {3, 4, 5, 9, 10, 11, 15, 16, 17, 21, 22, 23, 27, 28, 29, 33, 34, 35, 39},
     y |-> {1, 4, 7, 10, 13, 16, 19}]

\* The cell of a coordinate that was written in one addition to base.
CellOf(p) ==
    [a \in Axis |-> LET c == Truncate(10 * p[a])
                    IN  IF p[a] % Unit = 0 /\ c \in Short[a] THEN c - 1 ELSE c]

Gap(i, j) == IF i < j THEN j - i ELSE i - j
CalculateH(c, t) == Gap(c.x, t.x) + Gap(c.y, t.y)

SquaredDistance(p, q) == (p.x - q.x) * (p.x - q.x) + (p.y - q.y) * (p.y - q.y)

\* Up, down, left, right.
Neighbours(c) == <<[c EXCEPT !.y = @ - 1], [c EXCEPT !.y = @ + 1],
                   [c EXCEPT !.x = @ - 1], [c EXCEPT !.x = @ + 1]>>

\* Variant: obstacles are not tested.
GetNextStepThrough(start, target) ==
    LET way == Neighbours(start)
        best == {i \in 1..4 : \A j \in 1..4 : CalculateH(way[i], target) <= CalculateH(way[j], target)}
    IN  way[Min(best)]

\* Variant: only a neighbour nearer to the target than the start is taken.
GetNextStepUphill(start, target) ==
    LET way == Neighbours(start)
        open == {i \in 1..4 : ~IsObstacle(way[i]) /\ CalculateH(way[i], target) < CalculateH(start, target)}
        best == {i \in open : \A j \in open : CalculateH(way[i], target) <= CalculateH(way[j], target)}
    IN  IF best = {} THEN start ELSE way[Min(best)]

(***************************************************************************)
(* What get_next_step_astar returns: the first of the free neighbours      *)
(* nearest to the target, also when that is farther than the start.  The   *)
(* A* search before it changes nothing but its own arrays and its result   *)
(* is not used; the clamping of both ends has no effect on cells that are  *)
(* on the map, as a destination's are and a driver's after its respawn.    *)
(***************************************************************************)
GetNextStep(start, target) ==
    LET way == Neighbours(start)
        open == {i \in 1..4 : ~IsObstacle(way[i])}
        best == {i \in open : \A j \in open : CalculateH(way[i], target) <= CalculateH(way[j], target)}
    IN  IF start = target \/ best = {} THEN start ELSE way[Min(best)]

-----------------------------------------------------------------------------
(***************************************************************************)
(* The driver.                                                             *)
(***************************************************************************)
Written(d, p) == [d EXCEPT !.at = p, !.cell = CellOf(p)]

\* The target of a record that was never booked is not read.
Init == \E p \in Start :
    driver = [at |-> p, cell |-> CellOf(p), has_target |-> FALSE, target |-> Base]

\* Variant: latitude and longitude are drawn from each other's range.
BookSwapped ==
    /\ ~driver.has_target
    /\ \E t \in Destination :
          driver' = [driver EXCEPT !.has_target = TRUE, !.target = [x |-> t.y, y |-> t.x]]

\* The ride service gives a driver a ride, wherever it is, off the map too.
Book ==
    /\ ~driver.has_target
    /\ \E t \in Destination : driver' = [driver EXCEPT !.has_target = TRUE, !.target = t]

\* Step 1 of a tick: out of walls and off the map, back to base, the ride dropped.
Respawn(d) == IF IsObstacle(d.cell) THEN [Written(d, Base) EXCEPT !.has_target = FALSE] ELSE d

\* Variant: the walls are not tested after the walk.
WalkThrough(d, step, error) ==
    LET at == [a \in Axis |-> d.at[a] + Unit * step[a]]
        cell == [a \in Axis |-> IF step[a] = 0 THEN d.cell[a] ELSE Truncate(10 * at[a] + error[a])]
    IN  [d EXCEPT !.at = at, !.cell = cell]

\* Step 5 for whoever has no target: a step in each axis, taken back if it ends
\* in a wall or off the map.
Walk(d, step, error) ==
    LET at == [a \in Axis |-> d.at[a] + Unit * step[a]]
        cell == [a \in Axis |-> IF step[a] = 0 THEN d.cell[a] ELSE Truncate(10 * at[a] + error[a])]
    IN  IF IsObstacle(cell) THEN d ELSE [d EXCEPT !.at = at, !.cell = cell]

Wandering(d) ==
    \E step \in [Axis -> -1..1], error \in [Axis -> {-1, 1}] : driver' = Walk(d, step, error)

\* A tick of a driver without a ride, or one that loses it in a wall.
Wander == LET d == Respawn(driver) IN ~d.has_target /\ Wandering(d)

\* A tick in which a ride ends: near enough, or by luck anywhere (20 % of the
\* ticks).  The driver is put at its destination and walks on from there.
Arrive ==
    LET d == Respawn(driver)
    IN  d.has_target /\ Wandering([Written(d, d.target) EXCEPT !.has_target = FALSE])

\* Variant: the longitude is not written.
SteerLatitude ==
    LET d == Respawn(driver)
        next == GetNextStep(d.cell, CellOf(d.target))
        to == [x |-> d.at.x, y |-> Unit * next.y]
    IN  /\ d.has_target /\ SquaredDistance(d.at, d.target) >= Close * Close
        /\ driver' = IF next = d.cell THEN [d EXCEPT !.has_target = FALSE]
                     ELSE [d EXCEPT !.at = to, !.cell = [CellOf(to) EXCEPT !.x = d.cell.x]]

\* A tick in which the ride goes on: one cell as the path finder says; a driver
\* the path finder leaves where it is counts as stuck and is set free.
Steer ==
    LET d == Respawn(driver)
        next == GetNextStep(d.cell, CellOf(d.target))
    IN  /\ d.has_target /\ SquaredDistance(d.at, d.target) >= Close * Close
        /\ driver' = IF next = d.cell THEN [d EXCEPT !.has_target = FALSE]
                     ELSE Written(d, [a \in Axis |-> Unit * next[a]])

Next == Book \/ Wander \/ Arrive \/ Steer

Spec == Init /\ [][Next]_driver

-----------------------------------------------------------------------------
\* The shape of the state.
TypeOK ==
    driver \in [at : [Axis -> Int], cell : [Axis -> Int], has_target : BOOLEAN,
                target : Destination \cup {Base}]

\* A driver that reads as on the map, at most a whole cell beyond its edge: truncation
\* hides a cell below zero, and a rounding error one at the top.
OnTheMap(d) ==
    \A a \in Axis : /\ d.cell[a] \in 0..(Size[a] - 1)
                    /\ d.at[a] \in -Unit..(Unit * Size[a])

\* A driver is off the map only where it started, if ipc_init lined it up there or it
\* joined without a position (coordinator.c:96-97, 204-209), with a ride or without:
\* whatever moves it first brings it back (map_monitor.c:43-46), and no walk, arrival
\* or step of the path finder ever takes one off the map again.
OnMap ==
    [][/\ OnTheMap(driver) => OnTheMap(driver')
       /\ driver'.at # driver.at => OnTheMap(driver')]_driver

\* A driver is in a wall, or off the map, for one of two reasons only: it was put there,
\* at the start or at a destination (server_main.c:132 and ride_service.c:45 draw
\* without looking), or the path finder sent it to a free cell beside the wall and
\* the coordinate reads back as the wall (map_monitor.c:105-106).
WallOnlyBy ==
    IsObstacle(driver.cell) =>
        \/ driver.at \in Start \cup Destination
        \/ /\ \A a \in Axis : driver.at[a] % Unit = 0
           /\ ~IsObstacle([a \in Axis |-> driver.at[a] \div Unit])

\* A tick that finds a driver in a wall or off the map gets it out (map_monitor.c:43-46):
\* neither the walk that follows the respawn nor an arrival puts it into one again.
LeavesWall ==
    [][IsObstacle(driver.cell) /\ driver'.at # driver.at => ~IsObstacle(driver'.cell)]_driver

\* No ride ends on the road: when it is over the driver is within one walk of its
\* destination, or of base if it was found in a wall or off the map, as a joined driver
\* is that is booked before its first tick.  The path finder's dead ends are none, so
\* "stuck" (map_monitor.c:102) is never taken.
NoRideEndsOnTheRoad ==
    [][driver.has_target /\ ~driver'.has_target =>
        LET end == IF IsObstacle(driver.cell) THEN Base ELSE driver.target
        IN  \A a \in Axis : Gap(driver'.at[a], end[a]) <= Unit]_driver

\* Reading back is the one reason for a driver on a ride to stay in its cell: a tick
\* that leaves it there has sent it to another (map_monitor.c:104-107).  Going to and
\* fro between cells is not standing.
StandsOnlyByReading ==
    [][driver.has_target /\ driver'.has_target /\ driver'.cell = driver.cell =>
        \E a \in Axis : driver'.at[a] \div Unit # driver'.cell[a]]_driver

\* The comment at map_monitor.c:101, "standing still is detected (stuck): counts as
\* arrived": a tick that leaves a driver in the cell it was in ends the ride.
StandingStillEnds ==
    [][driver.has_target /\ driver'.has_target => driver'.cell # driver.cell]_driver

=============================================================================
