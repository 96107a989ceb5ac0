----------------------------- MODULE RideServer ------------------------------
(***************************************************************************)
(* The running server around the driver table: the dispatcher processes    *)
(* (Worker) that answer one connection at a time, the map monitor thread   *)
(* of the master, and the process-shared mutex they take turns with.       *)
(*                                                                         *)
(* A critical section of the ride service is three steps here: Choose      *)
(* takes the mutex and searches, Assign rewrites the chosen driver, Commit *)
(* adds up the totals and lets go.  A monitor tick holds the mutex over    *)
(* one step per driver.  The mutex alone keeps the sections apart, and     *)
(* hides the statements inside a step from everybody but the SIGTERM of a  *)
(* shutdown; Restart takes them apart for it.                              *)
(***************************************************************************)
EXTENDS Fleet

CONSTANTS
    Worker,          \* the forked dispatcher processes
    Client,          \* client ids that ask for a ride
    Free, Monitor,   \* values of mutex that are not a worker
    DispatchMode,    \* 0 basic, 1 smart; set once from the command line
    InitialDrivers,  \* driver_count given on the command line
    MaxRequests      \* bound: connections served in one behaviour

ASSUME ServerAssumption ==
    /\ Client \subseteq Nat
    /\ Free \notin Worker /\ Monitor \notin Worker /\ Free # Monitor
    /\ DispatchMode \in 0..1
    /\ InitialDrivers \in 0..MaxDrivers
    /\ MaxRequests \in Nat

VARIABLES
    drivers, driver_count,
    total_requests_handled, total_success_requests, total_revenue,
    mutex,       \* Free, Monitor or the worker inside its critical section
    scan,        \* the monitor's loop index while it holds the mutex, else 0
    pc,          \* where each worker is
    client_id,   \* whom it serves, 0 when nobody
    best,        \* best_driver_index + 1, 0 for none
    ride_no,     \* history: the driver's rides_count the confirmation is for
    requests     \* history: connections accepted, held below MaxRequests

totals == <<total_requests_handled, total_success_requests, total_revenue>>
table == <<drivers, driver_count>>
workers == <<pc, client_id, best, ride_no>>
vars == <<drivers, driver_count, totals, mutex, scan, workers, requests>>

IsVip(c) == c <= 10
Fare(c) == 100 + (IF IsVip(c) THEN 50 ELSE 0)

Init ==
    /\ driver_count = InitialDrivers
    /\ \E p \in [1..InitialDrivers -> Place \ {Origin}], t \in [1..InitialDrivers -> Flag] :
          /\ \A i \in 1..InitialDrivers : i <= 2 => t[i] = 1
          /\ drivers = [i \in Slot |-> IF i <= InitialDrivers THEN Fresh(p[i], t[i]) ELSE Zeroed]
    /\ total_requests_handled = 0
    /\ total_success_requests = 0
    /\ total_revenue = 0
    /\ mutex = Free
    /\ scan = 0
    /\ pc = [w \in Worker |-> "accept"]
    /\ client_id = [w \in Worker |-> 0]
    /\ best = [w \in Worker |-> 0]
    /\ ride_no = [w \in Worker |-> 0]
    /\ requests = 0

-----------------------------------------------------------------------------
(***************************************************************************)
(* A worker.                                                               *)
(***************************************************************************)

\* A connection has been accepted and its request has passed every check.
Accept(w) ==
    /\ pc[w] = "accept"
    /\ requests < MaxRequests
    /\ requests' = requests + 1
    /\ \/ /\ \E c \in Client : client_id' = [client_id EXCEPT ![w] = c]
          /\ pc' = [pc EXCEPT ![w] = "ask"]
       \/ /\ client_id' = client_id
          /\ pc' = [pc EXCEPT ![w] = "join"]
    /\ UNCHANGED <<table, totals, mutex, scan, best, ride_no>>

\* Variant: the search is made without the mutex.
ChooseUnlocked(w) ==
    /\ pc[w] = "ask"
    /\ \E i \in Find(DispatchMode, drivers, driver_count, IsVip(client_id[w])) :
          /\ pc' = [pc EXCEPT ![w] = "chosen"]
          /\ best' = [best EXCEPT ![w] = i]
    /\ UNCHANGED <<table, totals, mutex, scan, client_id, ride_no, requests>>

\* Lock, and search the table.
Choose(w) ==
    /\ pc[w] = "ask"
    /\ mutex = Free
    /\ mutex' = w
    /\ LET found == Find(DispatchMode, drivers, driver_count, IsVip(client_id[w]))
       IN  \/ /\ found = {}
              /\ pc' = [pc EXCEPT ![w] = "nodriver"]
              /\ best' = best
           \/ \E i \in found :
              /\ pc' = [pc EXCEPT ![w] = "chosen"]
              /\ best' = [best EXCEPT ![w] = i]
    /\ UNCHANGED <<table, totals, scan, client_id, ride_no, requests>>

\* Variant: the early return keeps the mutex.
NoDriverLocked(w) ==
    /\ pc[w] = "nodriver"
    /\ pc' = [pc EXCEPT ![w] = "reply"]
    /\ UNCHANGED <<table, totals, mutex, scan, client_id, best, ride_no, requests>>

\* Nobody to send: unlock, no total moves.
NoDriver(w) ==
    /\ pc[w] = "nodriver"
    /\ mutex' = Free
    /\ pc' = [pc EXCEPT ![w] = "reply"]
    /\ UNCHANGED <<table, totals, scan, client_id, best, ride_no, requests>>

\* The chosen driver gets the ride and a random destination: six statements, none of
\* them seen by anybody else before the mutex is free.
Assign(w) ==
    /\ pc[w] = "chosen"
    /\ \E t \in Place \ {Origin} :
          drivers' = [drivers EXCEPT ![best[w]] = Booked(@, t)]
    /\ pc' = [pc EXCEPT ![w] = "booked"]
    /\ UNCHANGED <<driver_count, totals, mutex, scan, client_id, best, ride_no, requests>>

\* Variant: the update of the success count is forgotten.
CommitLosesSuccess(w) ==
    /\ pc[w] = "booked"
    /\ total_requests_handled' = total_requests_handled + 1
    /\ total_revenue' = total_revenue + Fare(client_id[w])
    /\ ride_no' = [ride_no EXCEPT ![w] = drivers[best[w]].rides_count]
    /\ mutex' = Free
    /\ pc' = [pc EXCEPT ![w] = "reply"]
    /\ UNCHANGED <<table, total_success_requests, scan, client_id, best, requests>>

\* The three totals in turn, then unlock; nobody sees one without the others.
Commit(w) ==
    /\ pc[w] = "booked"
    /\ total_requests_handled' = total_requests_handled + 1
    /\ total_success_requests' = total_success_requests + 1
    /\ total_revenue' = total_revenue + Fare(client_id[w])
    /\ ride_no' = [ride_no EXCEPT ![w] = drivers[best[w]].rides_count]
    /\ mutex' = Free
    /\ pc' = [pc EXCEPT ![w] = "reply"]
    /\ UNCHANGED <<table, scan, client_id, best, requests>>

\* Variant: the table is not checked for room.
DriverJoinUnchecked(w) ==
    /\ pc[w] = "join"
    /\ mutex = Free
    /\ driver_count' = driver_count + 1
    /\ drivers' = [drivers EXCEPT ![driver_count + 1] = Joined(@)]
    /\ pc' = [pc EXCEPT ![w] = "reply"]
    /\ UNCHANGED <<totals, mutex, scan, client_id, best, ride_no, requests>>

\* A driver joins: under the mutex, the next slot if one is left; the mutex is held
\* and released within the step.
DriverJoin(w) ==
    /\ pc[w] = "join"
    /\ mutex = Free
    /\ \/ /\ driver_count < MaxDrivers
          /\ driver_count' = driver_count + 1
          /\ drivers' = [drivers EXCEPT ![driver_count + 1] = Joined(@)]
       \/ /\ driver_count >= MaxDrivers
          /\ UNCHANGED table
    /\ pc' = [pc EXCEPT ![w] = "reply"]
    /\ UNCHANGED <<totals, mutex, scan, client_id, best, ride_no, requests>>

\* The answer is written and the connection closed.
Reply(w) ==
    /\ pc[w] = "reply"
    /\ pc' = [pc EXCEPT ![w] = "accept"]
    /\ client_id' = [client_id EXCEPT ![w] = 0]
    /\ best' = [best EXCEPT ![w] = 0]
    /\ ride_no' = [ride_no EXCEPT ![w] = 0]
    /\ UNCHANGED <<table, totals, mutex, scan, requests>>

-----------------------------------------------------------------------------
(***************************************************************************)
(* The map monitor: one tick is TickBegin, a TickDriver per driver, and    *)
(* TickEnd, all with the mutex held.  luck, burn, stuck and next stand for *)
(* rand() and for the answer of the path finder.                           *)
(***************************************************************************)
TickBegin ==
    /\ mutex = Free
    /\ mutex' = Monitor
    /\ scan' = 1
    /\ UNCHANGED <<table, totals, workers, requests>>

TickDriverWith(luck) ==
    /\ mutex = Monitor
    /\ scan <= driver_count
    /\ \E burn, stuck \in BOOLEAN, next \in Place \ {Origin} :
          drivers' = [drivers EXCEPT ![scan] = Tick(@, luck, burn, stuck, next)]
    /\ scan' = scan + 1
    /\ UNCHANGED <<driver_count, totals, mutex, workers, requests>>

TickDriver == \E luck \in BOOLEAN : TickDriverWith(luck)

TickEnd ==
    /\ mutex = Monitor
    /\ scan > driver_count
    /\ mutex' = Free
    /\ scan' = 0
    /\ UNCHANGED <<table, totals, workers, requests>>

-----------------------------------------------------------------------------
WorkerStep(w) ==
    \/ Accept(w) \/ Choose(w) \/ NoDriver(w) \/ Assign(w) \/ Commit(w)
    \/ DriverJoin(w) \/ Reply(w)

MonitorStep == TickBegin \/ TickDriver \/ TickEnd

Next == MonitorStep \/ \E w \in Worker : WorkerStep(w)

Spec == Init /\ [][Next]_vars

(***************************************************************************)
(* Fairness.  A worker blocked in accept() may wait for ever, but one that *)
(* has a request goes on: its own steps are weakly fair.  Taking the mutex *)
(* is strongly fair: the monitor sleeps 200 ms between ticks and a worker  *)
(* between requests, so a waiter is never shut out for good.  A tick that  *)
(* ends the ride by the 20 % draw comes up again and again.                *)
(***************************************************************************)
Fairness ==
    /\ \A w \in Worker :
          /\ SF_vars(Choose(w) \/ DriverJoin(w))
          /\ WF_vars(NoDriver(w) \/ Assign(w) \/ Commit(w) \/ Reply(w))
    /\ SF_vars(TickBegin)
    /\ WF_vars(TickDriver \/ TickEnd)
    /\ \A i \in Slot : SF_vars(scan = i /\ TickDriverWith(TRUE))

FairSpec == Spec /\ Fairness

-----------------------------------------------------------------------------
\* The state has the shape the C declarations give it, and the monitor's index
\* is set exactly while the monitor holds the mutex (map_monitor.c:34-122).
TypeOK ==
    /\ drivers \in [Slot -> Driver]
    /\ driver_count \in 0..MaxDrivers
    /\ total_requests_handled \in Nat
    /\ total_success_requests \in Nat
    /\ total_revenue \in Nat
    /\ mutex \in Worker \cup {Free, Monitor}
    /\ scan \in 0..(MaxDrivers + 1)
    /\ mutex = Monitor <=> scan # 0
    /\ pc \in [Worker -> {"accept", "ask", "join", "chosen", "nodriver", "booked", "reply"}]
    /\ client_id \in [Worker -> Client \cup {0}]
    /\ best \in [Worker -> 0..MaxDrivers]
    /\ ride_no \in [Worker -> Nat]
    /\ requests \in 0..MaxRequests

\* Every driver in the table is in exactly one of the three states the flags
\* encode, after every step of a worker and of the monitor: a booking, a walled-in
\* driver's rebirth, an arrival and the pump never leave two flags up, nor none, so
\* the failsafe of map_monitor.c:93 has nothing to do.
FleetOneStatus == \A i \in 1..driver_count : OneStatus(drivers[i])

\* No tank overflows at the pump, which adds two units after testing for full
\* (map_monitor.c:84), and none is charged below empty by a booking
\* (ride_service.c:36) or by the burn of a ride that is just ending.
FleetTank == \A i \in 1..driver_count : TankSound(drivers[i])

\* The driver a worker has chosen is still the answer to its search when it is
\* assigned (ride_service.c:24-40): no other worker, joining driver or monitor
\* tick gets between the search and the update.
PickStillBest ==
    \A w \in Worker :
        pc[w] = "chosen" =>
            best[w] \in Find(DispatchMode, drivers, driver_count, IsVip(client_id[w]))

\* The rides in the drivers' own counters: driver i has had numbers 1 to rides_count.
RidesTaken(dr) == UNION {{i} \X (1..dr[i].rides_count) : i \in Slot}

\* Whenever no booking is half done, the totals agree with the drivers' own
\* counters (ride_service.c:35, 49-55): every ride was counted once as handled
\* and once as a success, and paid one of the two fares.
Books ==
    (\A w \in Worker : pc[w] # "booked") =>
        LET rides == Cardinality(RidesTaken(drivers))
        IN  /\ total_success_requests = rides
            /\ total_requests_handled = rides
            /\ \E vip \in 0..rides : total_revenue = 100 * rides + 50 * vip

\* Two clients who hold a confirmation for the same driver hold it for two
\* different rides (ride_service.c:35-57): the driver is never promised twice.
UniqueReceipts ==
    \A v, w \in Worker :
        /\ v # w
        /\ pc[v] = "reply" /\ pc[w] = "reply"
        /\ ride_no[v] # 0 /\ best[v] = best[w]
        => ride_no[v] # ride_no[w]

\* The server as RideBooking sees it: a booking and its fare happen at once, so
\* the fare of the ride whose totals are still to be added counts as taken.
Status ==
    [i \in Slot |->
        IF i > driver_count THEN "absent"
        ELSE IF drivers[i].is_available = 1 THEN "idle"
        ELSE IF drivers[i].is_refueling = 1 THEN "pump" ELSE "riding"]

Rides == [i \in Slot |-> drivers[i].rides_count]

Cash ==
    total_revenue + IF mutex \in Worker /\ pc[mutex] = "booked"
                    THEN Fare(client_id[mutex]) ELSE 0

Booking == INSTANCE RideBooking WITH
    Slots <- Slot, Fares <- {Fare(c) : c \in Client},
    status <- Status, rides <- Rides, cash <- Cash

\* Every step of workers and monitor is a step RideBooking allows, or no step at
\* all: only an idle driver is booked, each booking is paid exactly once, and
\* nothing the monitor does to a driver touches rides or money.
ImplementsBooking == Booking!Spec

-----------------------------------------------------------------------------
\* Liveness, under FairSpec.

\* Whoever waits for the mutex gets it and is answered (ride_service.c:17-73),
\* although monitor and workers keep taking it.
Answered == \A w \in Worker : pc[w] \in {"ask", "join"} ~> pc[w] = "accept"

\* A ride ends (map_monitor.c:57), even if the path finder never gets there.
RideEnds == \A i \in Slot : drivers[i].has_target = 1 ~> drivers[i].has_target = 0

\* A driver at the pump comes back to work (map_monitor.c:83-89).
PumpEnds == \A i \in Slot : drivers[i].is_refueling = 1 ~> drivers[i].is_available = 1

=============================================================================
