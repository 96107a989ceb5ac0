------------------------------- MODULE Restart --------------------------------
(***************************************************************************)
(* The server of RideServer shut down by SIGINT and started again from the *)
(* file it saved (coordinator.c).  handle_sigint terminates the workers    *)
(* wherever they are, between any two statements of the critical section   *)
(* too, and then writes the segment to server.dat without taking the       *)
(* mutex, while the monitor thread may be in the middle of a tick.         *)
(* ipc_init of the insecure server reads the file back, makes every driver *)
(* available and the mutex new.  That server sets no dispatch mode of its  *)
(* own, so the mode is basic.                                              *)
(*                                                                         *)
(* RideServer takes the statements between two of its places in one step,  *)
(* because the mutex hides them from whoever is alive.  They are apart     *)
(* here, in the Cut actions: a worker that dies has done the first of      *)
(* them, keeps the mutex, and what it has done is saved.                   *)
(***************************************************************************)
EXTENDS RideServer

CONSTANTS
    NoFile,       \* no server.dat, or one of the wrong length
    MaxRestarts   \* bound: shutdowns in one behaviour

ASSUME RestartAssumption == DispatchMode = 0 /\ MaxRestarts \in Nat

VARIABLES
    phase,      \* "running", "stopping" (workers dying), "saving" or "down"
    alive,      \* the workers that have not died
    image,      \* the driver records write() has copied
    copied,     \* how many of them
    saved,      \* server.dat
    restarts    \* history, held below MaxRestarts

life == <<phase, alive, image, copied, saved, restarts>>
server == vars
allvars == <<server, life>>

RInit ==
    /\ Init
    /\ phase = "running" /\ alive = Worker
    /\ image = drivers /\ copied = 0
    /\ saved = NoFile
    /\ restarts = 0

-----------------------------------------------------------------------------
\* Workers and monitor go on until they are killed, the monitor until the master
\* itself exits.
Up(A) == phase # "down" /\ A /\ UNCHANGED life

Work == \E w \in alive : Up(WorkerStep(w))
Watch == Up(MonitorStep)

\* The handler begins: from now on SIGTERM is on its way to every worker.
Sigint ==
    /\ phase = "running" /\ restarts < MaxRestarts
    /\ phase' = "stopping"
    /\ UNCHANGED <<server, alive, image, copied, saved, restarts>>

(***************************************************************************)
(* SIGTERM in the middle of a critical section.  What the statements so    *)
(* far have written stays, and so does the mutex.                          *)
(***************************************************************************)
\* A driver after the first statements of its booking; the two halves of the target
\* are two statements more.
PartlyBooked(d) ==
    LET a == [d EXCEPT !.is_available = 0]
        b == [a EXCEPT !.rides_count = @ + 1]
        c == [b EXCEPT !.fuel = @ - 1]
        e == [c EXCEPT !.has_target = 1]
    IN  {a, b, c} \cup {[e EXCEPT !.target = t] : t \in Place}

CutAssign(w) ==
    /\ pc[w] = "chosen"
    /\ \E d \in PartlyBooked(drivers[best[w]]) : drivers' = [drivers EXCEPT ![best[w]] = d]
    /\ UNCHANGED <<driver_count, totals, mutex, scan, workers, requests>>

\* Handled, then a success, then paid.
CutCommit(w) ==
    /\ pc[w] = "booked"
    /\ total_requests_handled' = total_requests_handled + 1
    /\ \/ UNCHANGED <<total_success_requests, total_revenue>>
       \/ /\ total_success_requests' = total_success_requests + 1
          /\ total_revenue' \in {total_revenue, total_revenue + Fare(client_id[w])}
    /\ UNCHANGED <<table, mutex, scan, workers, requests>>

\* The table is one longer before the new record has anything in it.
CutJoin(w) ==
    /\ pc[w] = "join" /\ mutex = Free /\ mutex' = w
    /\ \/ UNCHANGED table
       \/ /\ driver_count < MaxDrivers /\ driver_count' = driver_count + 1
          /\ LET new == drivers[driver_count + 1]
             IN  \E d \in {new, [new EXCEPT !.is_available = 1], Joined(new)} :
                    drivers' = [drivers EXCEPT ![driver_count + 1] = d]
    /\ UNCHANGED <<totals, scan, workers, requests>>

Terminate(w) ==
    /\ phase = "stopping" /\ w \in alive
    /\ alive' = alive \ {w}
    /\ UNCHANGED server \/ CutAssign(w) \/ CutCommit(w) \/ CutJoin(w)
    /\ UNCHANGED <<phase, image, copied, saved, restarts>>

\* The only way a worker of the insecure server dies by itself: SIGPIPE, when its
\* client has gone before the answer.
Crash(w) ==
    /\ phase = "running" /\ w \in alive /\ pc[w] = "reply"
    /\ alive' = alive \ {w}
    /\ UNCHANGED <<server, phase, image, copied, saved, restarts>>

\* With the last worker the master leaves its wait loop, and does not save.
PoolGone ==
    /\ phase = "running" /\ alive = {} /\ restarts < MaxRestarts
    /\ phase' = "down"
    /\ UNCHANGED <<server, alive, image, copied, saved, restarts>>

\* Variant: the file is written without waiting for the workers.
BeginSaveEarly ==
    /\ phase = "stopping"
    /\ copied' = 0
    /\ phase' \in {"saving", "down"}
    /\ UNCHANGED <<server, alive, image, saved, restarts>>

\* wait() has collected every worker: the file is opened and written, or cannot
\* be opened and stays what it was.
BeginSave ==
    /\ phase = "stopping" /\ alive = {}
    /\ copied' = 0
    /\ phase' \in {"saving", "down"}
    /\ UNCHANGED <<server, alive, image, saved, restarts>>

(***************************************************************************)
(* write() copies the records in turn and without the mutex.  If the       *)
(* monitor is at this very record, any field may be copied before or after *)
(* any of the assignments the tick makes to it.                            *)
(***************************************************************************)
Stages(d, luck, burn, stuck, next) ==
    LET a == Respawn(d)
        b == Navigate(a, luck, burn)
        c == GoRefuel(b)
        e == Pump(c)
        f == ClearZombie(e)
    IN  {d, a, b, c, e, f, Move(f, stuck, next)}

Torn(S) ==
    [is_available : {d.is_available : d \in S}, is_refueling : {d.is_refueling : d \in S},
     has_target : {d.has_target : d \in S}, fuel : {d.fuel : d \in S},
     rides_count : {d.rides_count : d \in S}, place : {d.place : d \in S},
     target : {d.target : d \in S}, top : {d.top : d \in S}]

SaveDriver ==
    /\ phase = "saving" /\ copied < driver_count
    /\ copied' = copied + 1
    /\ LET d == drivers[copied + 1]
       IN  \/ image' = [image EXCEPT ![copied + 1] = d]
           \/ /\ mutex = Monitor /\ scan = copied + 1
              /\ \E luck, burn, stuck \in BOOLEAN, next \in Place \ {Origin} :
                 \E r \in Torn(Stages(d, luck, burn, stuck, next)) :
                    image' = [image EXCEPT ![copied + 1] = r]
    /\ UNCHANGED <<server, phase, alive, saved, restarts>>

\* The totals follow the records in the segment; nobody is left to change them.
\* A short write leaves a file that will not be taken.
EndSave ==
    /\ phase = "saving" /\ copied = driver_count
    /\ saved' \in {NoFile,
            [drivers |-> image, driver_count |-> driver_count,
             handled |-> total_requests_handled, success |-> total_success_requests,
             revenue |-> total_revenue]}
    /\ phase' = "down"
    /\ UNCHANGED <<server, alive, image, copied, restarts>>

\* Variant: the totals start anew although the drivers' counters do not.
LoadDropsTotals ==
    /\ saved # NoFile
    /\ driver_count' = saved.driver_count
    /\ drivers' = [i \in Slot |->
            IF i <= saved.driver_count THEN [saved.drivers[i] EXCEPT !.is_available = 1]
            ELSE saved.drivers[i]]
    /\ total_requests_handled' = 0
    /\ total_success_requests' = 0
    /\ total_revenue' = 0

\* Only is_available is reset; targets and pump flags stay as saved.
Load ==
    /\ saved # NoFile
    /\ driver_count' = saved.driver_count
    /\ drivers' = [i \in Slot |->
            IF i <= saved.driver_count THEN [saved.drivers[i] EXCEPT !.is_available = 1]
            ELSE saved.drivers[i]]
    /\ total_requests_handled' = saved.handled
    /\ total_success_requests' = saved.success
    /\ total_revenue' = saved.revenue

\* ipc_init without a file: the drivers line up from base, with no rating.
Blank ==
    /\ saved = NoFile
    /\ driver_count' = InitialDrivers
    /\ \E p \in [1..InitialDrivers -> Place \ {Origin}] :
          drivers' = [i \in Slot |-> IF i <= InitialDrivers THEN Fresh(p[i], 0) ELSE Zeroed]
    /\ total_requests_handled' = 0
    /\ total_success_requests' = 0
    /\ total_revenue' = 0

\* The new process: a new mutex, new workers, a new monitor.
StartAgain ==
    /\ phase = "down"
    /\ Load \/ Blank
    /\ mutex' = Free /\ scan' = 0
    /\ pc' = [w \in Worker |-> "accept"]
    /\ client_id' = [w \in Worker |-> 0]
    /\ best' = [w \in Worker |-> 0]
    /\ ride_no' = [w \in Worker |-> 0]
    /\ phase' = "running" /\ alive' = Worker
    /\ restarts' = restarts + 1
    /\ copied' = 0 /\ image' = drivers'
    /\ UNCHANGED <<saved, requests>>

RNext ==
    \/ Work \/ Watch
    \/ Sigint \/ BeginSave \/ SaveDriver \/ EndSave \/ PoolGone \/ StartAgain
    \/ \E w \in Worker : Terminate(w) \/ Crash(w)

RSpec == RInit /\ [][RNext]_allvars

(***************************************************************************)
(* Fairness as in RideServer, for whoever is alive.  Nothing makes anybody *)
(* press Ctrl-C, and whether a shutdown ends is not asked here.            *)
(***************************************************************************)
RFairness ==
    /\ \A w \in Worker :
          WF_allvars(w \in alive /\ Up(NoDriver(w) \/ Assign(w) \/ Commit(w) \/ Reply(w)))
    /\ SF_allvars(Up(TickBegin))
    /\ WF_allvars(Up(TickDriver \/ TickEnd))
    /\ \A i \in Slot : SF_allvars(Up(scan = i /\ TickDriverWith(TRUE)))

RFairSpec == RSpec /\ RFairness

-----------------------------------------------------------------------------
\* The life cycle around the server's own types: only a shutdown kills a worker that
\* holds the mutex, and it kills them all before anything is written
\* (coordinator.c:129-133).
RTypeOK ==
    /\ TypeOK
    /\ phase \in {"running", "stopping", "saving", "down"}
    /\ alive \subseteq Worker
    /\ mutex \in Worker \ alive => phase # "running"
    /\ phase \in {"saving", "down"} => alive = {}
    /\ image \in [Slot -> Driver]
    /\ copied \in 0..MaxDrivers
    /\ saved # NoFile => saved.drivers \in [Slot -> Driver] /\ saved.driver_count \in 0..MaxDrivers
    /\ restarts \in 0..MaxRestarts

\* A shutdown can cut one booking in half, and only one, however many workers it
\* kills (coordinator.c:129-133 against ride_service.c:33-55).  Between two of its
\* statements the books part by that ride and no further: each ride paid for is in
\* the successes, each success was handled, each ride handled was counted by its
\* driver, and the drivers are ahead of the revenue by at most one ride per restart.
BooksAcrossRestart ==
    (\A w \in alive : pc[w] # "booked") =>
        LET rides == Cardinality(RidesTaken(drivers))
            cut == Cardinality({w \in Worker \ alive : pc[w] \in {"chosen", "booked"}})
        IN  /\ cut <= 1
            /\ \E paid \in 0..total_success_requests :
                  /\ \E vip \in 0..paid : total_revenue = 100 * paid + 50 * vip
                  /\ total_success_requests <= total_requests_handled
                  /\ total_requests_handled <= rides
                  /\ rides <= paid + restarts + cut

\* ipc_init makes every restored driver available and clears nothing else
\* (coordinator.c:101-104), so one can be available and on its ride or at the pump.
\* A driver in two states at once comes back to one (map_monitor.c:48-89):
\* its old ride ends, or the pump lets it go, whatever the torn copy said.
StatusHeals ==
    \A i \in Slot :
        phase = "running" /\ i <= driver_count /\ ~OneStatus(drivers[i])
            ~> phase # "running" \/ OneStatus(drivers[i])

=============================================================================
