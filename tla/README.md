# A TLA+ model of the ride-hailing server

The program is a pre-forking TCP server in C. A master forks 100 dispatcher
processes that share one memory segment (driver table, totals, rate-limit
counters, one process-shared mutex) with a monitor thread of the master, which
moves the drivers every 200 ms. Clients open a connection per request, agree on
an RC4 key by Diffie-Hellman, and ask for a ride.

Two kinds of evidence are kept here. TLC runs (`*.cfg`) explore every behaviour
of small instances. TLAPS theorems (`*Proofs.tla`) hold for every value of the
constants.

    tlc -config FleetSafety.cfg MCRideServer        # a run
    tlapm RideServerProofs.tla                      # a proof

## 1. The system

| Component (source) | State | Operations | Talks to | What makes it correct |
|---|---|---|---|---|
| Driver table and ride service (`shared_data.h`, `ride_service.c`) | 256 driver records, `driver_count`, three totals, mutex | `handle_ride_request_logic`: lock, search, book, totals, unlock, reply | called by every dispatcher | no driver promised twice, totals agree with the drivers' counters, the chosen driver is still the best when it is booked |
| Dispatch algorithms (`dispatch_algorithms.c`) | loop index and best so far | `find_driver_basic`, `find_driver_smart` | read the table under the ride service's lock | the answer is the nearest eligible driver, VIP tier first |
| Map monitor (`map_monitor.c`) | loop index | per tick and driver: respawn, navigate, refuel, failsafe, move; then draw | the table, under the mutex; drawing without it | a driver is in one state at a time, the tank keeps its limits, rides and refuelling end |
| Driver join (`coordinator.c:199`) | – | append to the table | the table | never past the end of the table |
| Rate limiter (`resource_service.c`) | last second and count per client id | `check_and_update_rate_limit` | called before the ride service | blocks only above three a second; lets through no more |
| Connection handling (`dispatcher.c`) | session key per connection | handshake, request, reply, close | client, limiter, ride service | both ends have the same key, the answer is what happened, each connection ends |
| Client request path and stress client (`client_core.c`, `stress_client.c`) | per thread: counter, key; a report under a mutex | connect, handshake, ask, give up after 2 s, retry, report | server | the report matches the server's bookings |
| Life cycle (`coordinator.c`, `server_main.c`, `insecure_server.c`) | worker pids, `g_running`, the mapping, `server.dat` | start, fork, SIGINT, save, restart, end | all processes | nobody is left behind, what the log calls saved is saved, a restart loses at most what was in the middle |
| Path finder (`pathfinding.c`) | local arrays only | `is_obstacle`, `get_next_step_astar` | monitor | a free neighbour, so a ride ends at its destination and not on the road |
| Socket helpers (`net_wrapper.c`) | the loop counters of `send_n`, `recv_n` | move n bytes in any portions | both ends | packets are taken whole, header and body in step |
| Crypto and checksum (`dh_crypto.c`, `net_wrapper.c`, `protocol.c`) | – | `power_mod`, RC4, checksum | both ends | commutative exchange, RC4 undoes itself |
| Insecure server (`insecure_dispatcher.c`, `insecure_server.c`) | as the server, without key | one plain packet, its answer, close | the same services and coordinator | as the server |
| Malicious client, pricing, logging, `dump_dat.c` | – | demonstrations, dead code, output | – | – |

Hard behaviours: 100 processes and a thread compete for one mutex; a clock is read
outside it; a client gives up while its ride is being booked; a worker dies and is
not replaced; SIGINT kills workers in the critical section and saves without the
lock, and a second one does so in the monitor thread at the same time; a restart
loads that file; a position is a floating-point coordinate that
is read back as a grid cell by truncation.

## 2. Modules

| Module | Models | Reads |
|---|---|---|
| `Fleet` | the driver record and everything done to one record under the mutex; no variables | `ride_service.c:22-46`, `map_monitor.c:36-120`, `dispatch_algorithms.c` |
| `RideBooking` | abstract: atomic bookings of idle drivers, each paid once | – |
| `RideServer` (EXTENDS `Fleet`) | workers × monitor × mutex; implements `RideBooking` | `ride_service.c`, `map_monitor.c`, `coordinator.c:199` |
| `DriverSearch` (EXTENDS `Fleet`) | the two search loops, record by record; implements `Fleet!Find` | `dispatch_algorithms.c` |
| `RateLimiter` | the limiter, with the clock read as its own step | `resource_service.c:59-86` |
| `Connection` | stress-client threads, TCP queues, workers that live and die | `dispatcher.c`, `client_core.c`, `stress_client.c`, `coordinator.c:164` |
| `Wire` | one connection piece by piece: `send_n`, `recv_n`, both handlers, the client's exchange | `net_wrapper.c:105-147`, `dispatcher.c`, `insecure_dispatcher.c`, `client_core.c` |
| `Restart` (EXTENDS `RideServer`) | SIGINT, the save, the restart, around all actions of `RideServer` | `coordinator.c:45-136`, `199-210`, `ride_service.c:33-55` |
| `Coordinator` | the processes: fork loop, SIGINT at any point in either thread of the master, wait loop, the save, end of `main` | `coordinator.c:39-180`, `server_main.c`, `insecure_server.c` |
| `Navigation` | one driver's coordinate and cell on the real map, and the path finder's answer | `map_monitor.c:36-120`, `pathfinding.c` |
| `Crypto` | `power_mod`, RC4 and the checksum as functions | `dh_crypto.c`, `net_wrapper.c:157-194`, `protocol.c` |
| `MC*` | values of the constants for TLC | – |
| `*Proofs` | theorems | – |

Definitions whose comment begins with "Variant" are plausible mistakes in the
definition below them (a forgotten unlock, an off-by-one, a missing close). They are
used by no specification; putting one in place of its original breaks the property
it was written for, which shows that the property says something about the code.

### How state and actions correspond to the code

*Fleet.* A driver record keeps the three flags, `fuel`, `rides_count`, place, target
and `top` (rating at least 4.8). A place is a member of an arbitrary set with an
arbitrary distance to a natural number; `Blocked` is what `is_obstacle` rejects.
`Respawn`, `Navigate`, `GoRefuel`, `Pump`, `ClearZombie` and `Move` are the monitor's
steps 1-5 in the order of the code, and `Tick` is their composition. `rand()` and the
path finder's answer are parameters (`luck`, `burn`, `stuck`, `next`).

*RideServer.* A worker goes `accept` → `ask` → (`Choose`: lock and search) → `chosen` → (`Assign`:
the driver's fields) → `booked` → (`Commit`: totals, unlock) → `reply`. A search that finds nobody
goes through `nodriver`. The steps inside the critical section are separate on purpose: only
`mutex` keeps others out. Each stands for several statements (`Commit` for the three totals,
`Assign` for the driver's fields): nobody who is alive can look between them without the mutex,
and where one who dies leaves them half done, `Restart` takes them apart. The monitor holds the
mutex over `TickBegin`, one `TickDriver` per driver, and `TickEnd`.

*Connection.* One connection is a pair of rider and attempt. `up` and `down` are the
two directions of the TCP stream; `gone` and `hung` are the ends that have closed. A
message is a record with the key that enciphered it, and it is readable with that key
only. A worker that writes to a closed connection may survive or die: its answer is
two `write` calls, and the second can meet the reset that the first provoked. `Deny`
is the refusal of a blocked request: `send_response_packet` enciphers the message in
place, the message is a string literal, and gcc puts it in read-only memory. A dead
worker's connection is closed by the kernel. The rate limiter's and the ride service's
verdicts are free choices.

*Wire.* Each end has a `send_n` with what is left of it (`todo`) and a `recv_n` with `need`, `buf`
and its result `ret`. A packet is seven pieces: the first byte of the length, the rest of it,
type, opcode, checksum, and two halves of the body; a `Write` or `Read` moves any number of them.
`Headers` is every header a buffer of which only the beginning was read can be: the rest is what
was there before. `place` is the point of the program at either end, one action per stretch from
one `recv_n` or `send_n` to the next. The two handlers share `ReadHeader` and `ReadBody`, whose
code is the same in both, and differ in what they look at next. Besides the project's own client
(`rider`) three clients of outside speak to them, for branches that no program of the repository
uses: a request without handshake, a driver's join, and a location update. That they give up on
silence, as `single_client.c` does, is an assumption about them: `TimeOut` is every client's.
`Kill` takes either process at any point; `broken` is the reset that follows a close with unread
data or a write to an end that has closed.

*Restart.* `Terminate` may take any worker between any two statements. Between two steps of
`RideServer` it leaves the server as it is; inside one it does a beginning of it: `CutAssign` some
of the driver's fields, `CutCommit` the request handled, or handled and a success, without the
fare, `CutJoin` a table one longer with a record that is still empty. A mutex the worker held
stays held. `Crash` is the SIGPIPE of an answer nobody reads, `PoolGone` the end of the master
when the last worker is dead, which saves nothing. `SaveDriver` copies one record at a time, and
if the monitor is at that record each field may come from any stage of the tick (`Torn`).
`StartAgain` is `ipc_init` with the file (`Load`) or without (`Blank`).

*Coordinator.* The master is two threads; `at` says where each is. The main thread goes
`main` → `fork` ⇄ `record` → `announce` → `started` → `wait` → `cleanup` → `release` →
`leave` → an end, the monitor `starting` → `ticking` → `finished`. `Record` is the assignment to
`workers[i]`, a step after `fork()` has returned, so SIGINT can come between the two.
`Interrupt` reaches the master alone or the whole group. A thread blocks SIGINT only while it
is in the handler, and Linux gives a signal to the main thread unless that one blocks it: so
the first SIGINT takes the main thread into `handle_sigint` and the next takes the monitor
there too (`InterruptMaster`). From then on two threads go `handler` (`KillWorkers`) → `reap` →
`open` (`OpenFile`, which empties the file, or fails) → `write` (`WriteFile`, whole or short) →
`unmap` → `forget` → `shutdown` side by side, on one file and one mapping; the exit of one is
the exit of both. What one finds unmapped by the other is a failed `write()`, or a fault in
`pthread_mutex_destroy` or in a tick (`faulted`). For a child it depends on
whether it has executed `signal(SIGINT, SIG_DFL)` yet: a `fresh` one runs the
handler it inherited, kills its elder siblings (`ChildKills`) and writes the save file
itself (`ChildSaves`). `announce`, `started`, `cleanup` and `leave` are the places where the
main thread is in a log line; `log_base` takes the lock of `localtime()`, and the handler logs
too, so it can wait for itself (`deadlocked`), and so can the monitor's handler once it does.

*Navigation.* The map is the source's: 40 × 20 cells, the river and the two buildings. A driver
begins where `main` draws (`Square`), where `ipc_init` lines it up (`Line`: from its eleventh
driver on off the map) or, after a join, with no position at all (`Unset`: latitude and longitude
zero). Coordinates are offsets from base in units of 0.0001 degree, a fifth of a cell, which is
the grain of all starts and of the bookings' destinations; a walk of 0.0005 is five of them. The
code keeps the coordinate only and converts it to a cell with `(int)((x - BASE) * 2000.0)` at
every use. Where the exact product is a whole number, the rounding of the doubles decides. For
`BASE + c / 2000.0`, which is what the path finder's answer is written as, it is always the same:
the set `Short` lists the cells that read back as the one before (IEEE double, and the same with
the repository's compiler flags). After walks, whose errors add up, both readings are allowed
(`error` in `Walk`). `CellOf` was compared with the doubles for all starts and destinations: it is
exact for those on the map, and says of the others that they are off it, which is all that is
asked there. `Wander`, `Arrive` and `Steer` are one tick each, with the respawn in front. The A*
search fills arrays of its own and its result is not used; `GetNextStep` is the greedy choice
after it. `Fleet!Tick` has this module's outcome as its parameters `next` and `stuck`.

*Crypto.* No state: the loops are recursive functions and folds, and the assumptions at
the end compare them with what they should compute. `Connection` has the exchange itself,
with a key that two ends share or not.

## 3. Runs

| Run | Question | Bounds |
|---|---|---|
| `FleetSafety` | Do two workers, a joining driver and the monitor keep table, totals and confirmations consistent, and does it look like `RideBooking`? | 2 workers, 1 driver + 1 joining, 3 requests, tank of 4, VIP and ordinary client, smart mode |
| `FleetLive` | Is every request answered; does every ride and every stay at the pump end? | 2 workers, 1 driver that has to join first, 3 requests, tank of 2, basic mode |
| `DriverSearch` | Do the loops return the nearest, first on ties, VIP tier first? | every table of up to 3 drivers over the chosen records |
| `RateLimiter` | Is anyone blocked wrongly; how many pass? | 2 workers, 3 seconds, 12 requests, ids 1999 and 2000 |
| `RateLimiterStale` | *violated:* more than three of one second pass | as above |
| `Connection` | Same key, true answers, true report, with timeouts and dying workers; does the stress test end, is every worker back? | 2 workers, 2 riders, 2 attempts each |
| `ConnectionBlocked` | *violated:* a blocked rider gets -2 | 2 workers, 2 riders, 1 attempt |
| `Wire` | With packets in pieces and either process killed between any two: does the server act on whole packets only, is a success true, does the exchange end? | both servers, every client, all portions |
| `Restart` | How far apart can totals and counters be after a restart, and does a driver restored in two states recover? | 2 workers, 1 driver that has to join first, 3 requests, 1 restart |
| `Coordinator` | SIGINT at any point, in one thread or two: who is left behind, is the file whole when the log says so, does the shutdown end? | 4 dispatchers, 3 SIGINTs |
| `Navigation` | Can a driver leave the map, enter a wall, leave it, lose its ride on the road, stand still? | 8 starts, 12 destinations, the whole map |
| `NavigationStuck` | *violated:* a driver that stands still is detected | as above |

`MCConnection` extends `Crypto` too, so the `Connection` runs also evaluate its assumptions:
`power_mod` against repeated multiplication (four primes, all bases to 20 and exponents to
33), both ends' secrets for 19 × 19 private keys out of the code's range, RC4 against the
published vectors and against itself, the fold of the carries against a sum modulo 65535
over the boundary values of the sums of 1024 bytes. The code's prime, 2^31 - 1, is outside
TLC's integers; the products of two residues stay below 2^62 and fit `long long`.

Why the bounds are enough to be interesting. Two workers and the monitor are all pairs of actors
that can meet at the mutex, and a third request lets one worker serve twice while the other holds
a confirmation. `MaxDrivers` 2 with one initial driver makes a join meet both a free slot and a
full table. A tank of 4 is the smallest in which the pump runs twice and a driver leaves it after
a full one. One place is base, one a neighbour, one a wall, one the zero position of a joined
record: respawn, arrival, blocked steps and free steps all happen. Ids 1999 and 2000 are the two
sides of the limiter's array bound. `Restart` has two workers so that one can be cut in the
critical section while the other queues for it, and three requests so that a join and a booking
can precede the shutdown and another booking follow the restart; the table begins empty, so a join
can be cut too. Four dispatchers give a fresh child elder and younger siblings, some recorded and
some not; of three SIGINTs the first can be the one `server_app` only notes, and the others start
the handler in one thread and in the other. `Navigation`'s driver starts at base, at the far
corner of `main`'s square, between the lines, inside a building, as the last of `ipc_init`'s line
on the map, the first off it and the last of all, and without a position; it is sent to the far
corners, into each wall, to cells that read short in one axis or both, and between the lines; from
these it comes to 169 000 states. In `Connection` two attempts of each rider let an abandoned
connection be served while its rider is already on the next, and two workers let one die while the
other lives and both die, which ends the server. Each run's bounded counters (`MaxRequests`,
`MaxAttempts`, `MaxClock`, `Attempts`, `MaxRestarts`, `MaxSignals`) only cut off behaviours.
Symmetry is used in safety runs only, over actors no formula tells apart; `Connection` and
`Restart` have a liveness property and none.

Deadlock is checked in the server runs and in `Navigation`. It is not in `DriverSearch`,
`RateLimiter`, `Connection`, `Wire`, `Restart` and `Coordinator`: a search returns, the clock and
the request counter are bounded, the stress test ends, a bounded number of restarts is
used up, an exchange and a server end.

### What the runs found

* `ThreePerSecond` (`resource_service.c:79` says more than three a second is an attack):
  the clock is read before the lock, so a worker held up over the end of a second writes
  the old second back and the count starts again. `PassBound` gives what does hold: with
  W workers at most 3W + (W - 1) requests of a second pass. The run checks it for W = 2,
  `PassesBounded` proves it for every W.
* `BlockedIsTold` (`client_core.c:101` says -2 means blocked): the worker dies in
  `rc4_crypt` before it has written anything and the client sees a closed connection.
  As workers are not replaced, every refusal also costs one of them; after the last
  the master ends (`MasterEnds`).
* `StandingStillEnds` (`map_monitor.c:101` says standing still is detected and counts as an
  arrival): the code compares the cell the path finder returns with the cell the driver
  is in, not with the one it will read back. From base, a ride to the north writes row 1,
  which reads back as row 0, for ever. The 20 % draw of every tick ends such a ride all
  the same, which is why `RideEnds` holds. `StandsOnlyByReading` says there is no other
  reason to stand still.

Further facts that follow from the models:

* While nobody shuts the server down, a booking stays unknown to a rider only because it gave
  up first (`AnswerTrue`). A shutdown's SIGTERM between the booking and the answer is the other
  way; it is not in `Connection` but in `Restart` and `Wire`, whose `ToldWhole` has it.
* A shutdown can cut one booking between any two of its statements, and only one
  (`BooksAcrossRestart`). The saved file can so have a driver's ride that is in no total, a
  request handled that is no success, or a success that is not paid; the
  three totals part from one another and from the drivers' counters by that ride and no more. A
  restored driver can be in two states at once, since
  `ipc_init` only sets `is_available` (`coordinator.c:101`); `StatusHeals` shows that passes.
* `recv_n` returns what it has when the stream ends in the middle of a packet, also between 0
  and n, which its comment (`net_wrapper.c:128`) and the callers that test for `<= 0` do not
  expect: they go on with a header or a public key that is cut. `ActsOnWhole` holds all the
  same: the first byte of every length that is sent to a server is not zero, so a body is
  asked for, and its length is compared. A packet without body would not have that
  protection; none is sent to the server. `CutKeyIdle` shows that the client's cut key is
  never used for a ride.
* The project's own clients begin with a handshake, which `handle_client_insecure` answers by
  closing: they get no ride from the insecure server.
* Starts and destinations are drawn without looking at the walls. A driver that arrives in
  one can be booked again before the next tick, and that tick takes it to base and drops
  the new ride, which its client has been confirmed (`NoRideEndsOnTheRoad`).
* A SIGINT before `start_coordinator_process` only clears `g_running`: the dispatchers are
  forked, the wait loop is skipped, and the master leaves them behind. So does a `fork()`
  that fails half-way. `NoOrphans` says these are the only cases.
* A SIGINT sent to the master alone between `fork()` and `workers[i] = pid` makes it wait
  for ever for a child it has not told to end; one in a log line can make it wait for
  itself; one after `main` has unmapped the segment truncates the save file. The
  hypotheses of `ShutdownEnds` and `PoolGoneEnds` are these cases and no more.
* A second SIGINT during a shutdown runs the handler again, in the monitor thread. One thread
  can then empty the file the other has just written and logged as saved, and fail to fill it
  again because the segment is unmapped or the other exits first: an empty file behind a log
  that says saved. `SavedWhole` is what is left: the log is true of the thread that opened the
  file last. A failed `open()` or a short `write()` is logged as an error and the server exits
  all the same.
* A driver that has joined is available before it has a position, and `ipc_init`'s line leads off
  the map. Booked before its first tick, such a driver is found off the map by that tick, which
  takes it to base and drops the ride, as for one in a wall (`OnMap`, `NoRideEndsOnTheRoad`). Once
  a tick has moved it, it is never off the map again.

## 4. Fairness

*RideServer.* A worker with a request takes its own steps (weak fairness); waiting in
`accept()` is not fair. Acquiring the mutex is strongly fair for workers and monitor:
the monitor sleeps 200 ms between ticks and workers do I/O between requests, so the
mutex is free again and again, and a futex waiter is woken at each release. Arrival by
luck (a 20 % draw each tick) is strongly fair per driver; without it the greedy path
finder could circle for ever. No other draw is fair.

*Connection.* While anyone can go on, somebody does (weak fairness of `Next`): every step uses
up something that is not renewed, so nothing stronger is needed. The receive timeout of two
seconds is set on every client socket, so silence ends. Which of several
possible steps is taken (blocked or not, ride or none, die or survive) is not fair.

*Restart.* As in RideServer, for whoever is alive; Ctrl-C is never required, and nothing
forces a shutdown to end.

*Coordinator.* The main thread, the monitor's handler and each child that can go on do (weak
fairness). Nobody has to send SIGINT, no dispatcher has to crash, and nothing is asked of the
monitor's loop.

*Wire.* Each process that can go on does; the client's receive timeout is among its steps, and of
the clients of outside it is assumed.

`Navigation` states no fairness: its properties are about steps.

## 5. Proofs

| Theorem | Says |
|---|---|
| `RideServerProofs!TypeCorrect` | `Spec => []TypeOK` |
| `RideServerProofs!OneStatusAlways` | every driver is idle, riding or at the pump, one of them only; the failsafe never has work |
| `RideServerProofs!TankAlways` | fuel stays in `0..TankFull` |
| `RideServerProofs!PickStillBestAlways` | the choice is still the search's answer when it is booked |
| `RideServerProofs!UniqueReceiptsAlways` | no two confirmations for the same ride |
| `RideServerProofs!BooksBalance` | the totals are the drivers' counters, and each ride paid one of the two fares |
| `RideServerProofs!Refinement` | `Spec => Booking!Spec` |
| `DriverSearchProofs!SearchCorrect` | the loops compute the reference search |
| `DriverSearchProofs!TypeCorrect` | the index and the answer stay inside the table |
| `RateLimiterProofs!NeverFalselyBlocked` | `Spec => []NoFalseBlock` |
| `RateLimiterProofs!TypeCorrect` | stamps are never ahead of the clock, ids stay inside the arrays |
| `RateLimiterProofs!PassesBounded` | with W workers at most 3W + (W - 1) requests of a second pass |
| `RestartProofs!LifeTyped` | only a shutdown kills the owner of the mutex, and nothing is saved while a worker lives; every life has the shape of the server's state |
| `RestartProofs!BooksSurvive` | paid, successful, handled and counted rides are ordered, and the counters exceed the paid ones by at most one per restart |
| `ConnectionProofs!TypeCorrect` | no two workers serve the same connection |
| `ConnectionProofs!SameKeyAlways` | both ends of every exchange have one key |
| `ConnectionProofs!AnswerTrueAlways` | a rider is told what its attempt did, or gave up first (no shutdown) |
| `ConnectionProofs!ReportTrueAlways` | the stress test's report agrees with what was booked and told |
| `CoordinatorProofs!TypeCorrect` | only the child forked last can be missing in `workers[]` |
| `CoordinatorProofs!NoOrphansAlways` | the two ways in which dispatchers outlive the master |
| `CoordinatorProofs!SavedWholeAlways` | the thread that opened the save file last logs "saved" only of a whole file nobody else can write to |
| `NavigationProofs!TypeCorrect` | the shape of coordinates, cells and targets |
| `NavigationProofs!OnMapAlways` | what starts off the map comes on it with its first move, and nothing leaves it |
| `NavigationProofs!WallOnlyByAlways` | how a driver can come to be in a wall or off the map |
| `NavigationProofs!LeavesWallAlways` | a tick takes it out again |
| `NavigationProofs!NoRideEndsOnTheRoadAlways` | a ride ends within a walk of its destination, or of base if its driver was in a wall or off the map |
| `NavigationProofs!StandsOnlyByReadingAlways` | a driver stays in its cell only where a cell reads back as another |
| `WireProofs!TypeCorrect` | no read and no end of string goes past a buffer |
| `WireProofs!ActsOnWholeAlways` | the server acts on whole packets only |
| `WireProofs!AlignedAlways` | header and body stay in step |
| `WireProofs!ToldWholeAlways` | success is true, and what else a client can say of a confirmed ride |
| `WireProofs!CutKeyIdleAlways` | a key made of a cut public key is never used |

These are all the invariants and action properties of the passing runs, and the refinement;
what is left to TLC alone is the liveness.

*Assumptions.* Any set of workers and of client ids (`RateLimiter`'s bound counts workers: a
finite set, not empty), any number of drivers, any even
positive tank size, any set of places with any distance into the naturals,
`InitialDrivers <= MaxDrivers` (see limits), any request bound. `Connection`: any riders,
workers and number of attempts, and a `NoConn` that is none of the connections.
`Coordinator`: any number of dispatchers above zero and of SIGINTs. `Navigation`: any starts in
`main`'s square, on `ipc_init`'s line or without a position, and any destinations in the ranges
the ride service draws from; the map is the code's. `Restart`: those of `RideServer`, basic
mode, which is the insecure server's, and any number of restarts. `Wire`: any of the two servers and
four clients, and any buffer of more than two pieces.

*RideServer's argument.* None of the invariants is inductive. Who is in a critical
section must be tied to who holds the mutex (`LockInv`), a worker past its search must
know a slot inside the table (`WorkerKnows`), slots nobody joined are zero
(`SlotsZeroed`; `Joined` only sets two fields), and the records must be sound
(`TableSound`: one status, tank in range, an even level at the pump; without the even
level the pump's "add two if not full" overflows). Their conjunction with `TypeOK` and
`PickStillBest` is the inductive `IInv`; what of it needs no sound records, and so survives a
restart too, is `Orderly`. The first lemmas show once that every operator on
a record preserves the record's type and soundness, in particular the five stages of a tick
one after the other; then there is one step per action. Unique receipts
need `ReceiptInv` on top: a receipt number is never above its driver's counter, and a
booking raises the counter. The refinement maps `Assign` to the atomic booking (the fare
still to be added counts as taken), monitor steps to changes of status, and everything
else to stuttering.

`Books` speaks of the rides in the drivers' counters. As a sum over the table it would be a
recursive fold, which the provers cannot do an induction on; so it is the cardinality of
`RidesTaken`, the set of pairs of a driver and one of its ride numbers, which is the same
number. `BooksInv` then needs one more idea, `HalfDone`: the totals lag behind by the booking
the owner of the mutex has in hand, and by nothing else.

*DriverSearch.* The loop invariant says that the driver held is the nearest eligible
one among the records already seen, with the lowest index on ties.

*RateLimiter.* The counter of a client never exceeds the attempts made with the stamp
it is paired with. `PassBound` is a budget (`Budget`): while second t lasts, a run of three
passes is cut short only by a worker that comes with an older stamp (`Late`), and each can do
that once, since afterwards it reads the clock; what has passed, three for every late worker
and what is left of the present run (`Room`) together stay below 3W. When the second is over,
every worker that still has the stamp (`Due`) brings it once, and the one who ends a full run
is blocked, which is why it is W - 1 and not W. Both sets are finite with the workers
(`WorkerAssumption`): this is the only proof that counts them.

*Restart.* A torn copy ends the soundness of the records: a driver may come back in two
states, with any tank. What goes on holding is their type, who is in the critical section, and
their ride counters, of which a tick changes nothing: this is `Orderly`, and
`RideServerProofs` proves it separately for that reason. The converse, that the owner of the
mutex is in the critical section, holds of the living only (`LiveLock`): a worker cut in
`CutJoin` dies with it in another place. `RInv` adds the life cycle (`Life`),
what the copy has counted so far (`Copied`: nobody beyond `driver_count` has a ride, and the
records copied have the counters of the table, which stand still, all workers being dead) and
the `Ledger`: what the books are like in the segment and in the file. `Kept` is the chain
paid ≤ success ≤ handled ≤ counted ≤ paid + lost, with one more counted while a booking is in
hand; `Stuck` says that a worker died with the mutex, and `Cut` whether it was at a booking. The
argument is that the mutex is never free again after that, so nobody else can be cut, and the next
life begins with one more ride lost. The `KeptMonotone` family moves `Kept` from one state to the
next; `TerminateKeeps` puts the three cuts together. `HandlerKeeps`
shows that the handler's steps change no record, `StepCounts` and `StepBeyond` what the
server's own steps do to the counters.

*Connection.* `TypeOK`, `SameKey` and `AnswerTrue` are about different parts of one
connection's life, and none is inductive. `ConnInv` says what a connection is like when it
is untouched, in the backlog, served by a worker (before the hello, after it, with the
request under way, from the request to the answer) or over: what is in each queue, which
key each end has, what the two histories can be. `IInv` is `TypeOK`, `ConnInv` of every
connection, a backlog without repetition, and for each rider that only its present attempt
can be open (`RiderInv`). An action touches one connection; `FrameConn` shows that the
others keep what held of them, and `RiderFrame` and `WorkerFrame` that this applies to each
rider's and each worker's actions. `ReportInv` is the counting on top of it: the two shared
totals are the numbers of attempts that have been counted (`Reported`) and won (`Won`), the won
ones are among the booked ones because `AnswerTrue` holds, and a thread's own count is positive
exactly when one of its attempts was won.

*Coordinator.* `LoopInv` ties the fork loop's counters to the master's place, `StopInv` says
that outside a handler `g_running` is false only through server_app's early handler, and
`MonitorInv` that the monitor is in the handler only while the main thread is in it too or the
process has ended. `ReapInv` says that a thread past its `wait()` has left no child that could
write (`Reaped`), and `FileInv` is the heart of `SavedWhole`: from then on only a thread's own
`open` makes the file torn, and that makes it the opener, so a "saved" said by the opener was said
after the file was last emptied. Signals neither make nor revive a process (`SignalKeeps`), and
children only go towards their end (`ChildrenFade`).

*Navigation.* `WallOnlyBy` is stated of a driver in the middle of a tick (`Excused`); each stage
(respawn, arrival, step, walk) keeps it. `OnMap` is about steps and needs no invariant of its own:
a driver that reads as free is on the map (`FreeOnMap`), the respawn leaves none that does not,
and the stages after it keep it there. The arithmetic is in `ReadsOnMap` (a coordinate inside the
map reads as a cell of it) and in the lemmas on the truncation of a walk. `Near` says that a cell
read back is at most one off (`ReadsNear`, off the map too), so whoever reads as being where its
target reads as is near enough to have arrived (`FarReadsElsewhere`); and `WayOut` is the fact
about the map, that every free cell has a free one to its left or right, by which the path finder
always takes a step (`StepTaken`) and "stuck" is never the end of a ride.

*Wire.* The two ends take turns. At any time at most one packet is under way to an end, and
`Span(e, k, i, j)` says how far it has come: the reader has packet k up to its i-th piece, the
stream those up to the j-th, and the writer the rest, unless it died at j. `ToServer` and
`ToClient` list, for an end that is still open, where in the conversation it is: a packet comes
(`Comes`, `Replied`), it has been taken (`Serves`), nothing is under way and nothing will be
until the end itself has spoken (`Rests`, `Answers`, `Silent`), or the header was cut by the
death of its writer and the body will never come (`Cut`); each with the places the other end
can be in meanwhile. `RecvN` is what `recv_n` promises, `Knows` what each end can know and
say. `RunTaken` and `RunJoined` are the lemmas on sequences: a write or a read takes a
beginning of a run of pieces, and what it is put behind becomes a longer run. `CutOff` is the
key to the cut packets: one whose end does not come was cut by the death of its writer.
`CloseKeeps`, `ExpectKeeps` and `SendKeeps` are what the three things do that every action of a
program ends with. `Sizes` is a second, small invariant for the buffers.

*Model-checked only.* Everything under fairness: `Answered`, `RideEnds`, `PumpEnds`,
`EverybodyReturns`, `StatusHeals`, `ShutdownEnds`, `PoolGoneEnds` and `ExchangeEnds` are
liveness, which is out of the provers' reach. `Crypto`'s assumptions are evaluated over bounded
inputs: they are recursive definitions, and what one computes for every input takes an
induction the provers cannot do.

## 6. Not modelled, and limits

* Drawing the map reads the table without the mutex and changes nothing.
* `check_if_driver_available`, `complete_ride_and_update_resources` and
  `calculate_surge_price` are never called.
* `main` does not hold the command line's driver count to `MAX_DRIVERS`, which
  `ipc_init` does; `InitialDrivers <= MaxDrivers` is assumed.
* `RideServer` lets a move end anywhere and lets any driver be "stuck": more than the
  path finder can do, so what is shown of it holds for any path finder. `Navigation` shows
  which moves there are. The two are not composed: one driver on the whole map is 169 000
  states already.
* In `Navigation` any driver may be booked at any time, and luck may end a ride in any
  tick; fuel is `Fleet`'s. The A* search has no effect beyond its local arrays, whether it
  finds the target or gives up after 3000 nodes, and the clamping of its arguments has
  none on cells that are on the map, as a destination's are, and a driver's after the respawn.
* `Navigation` is one life of the server. The save copies without the mutex, so it can take the
  latitude from before a tick and the longitude from after it; a driver restored from that can
  begin in a wall, or off the map, and on a ride. Such starts are not in `Navigation`.
* `Connection` has no shutdown: SIGTERM between a booking and its answer is in `Restart` and
  `Wire`.
* That Linux gives SIGINT to the main thread while it does not block it is assumed in
  `Coordinator`; POSIX would allow the monitor thread to be the first.
* The reuse of a dead dispatcher's pid by another process, which the handler would then
  signal, is not in `Coordinator`.
* In `Wire` the rate limiter and the driver table are left to their modules; a mismatch of
  keys or a cut body never passes the checksum.
* `create_server_socket` is over before any model's first state.
* Private keys are never drawn twice in `Connection`, and deciphering with another key
  never passes the checksum (in the code 16 bits could agree by chance).
* `handle_client`'s branches for a request without handshake or with a wrong checksum
  are in `TakeRequest` and in `Wire`'s `Reject`; `SameKey` shows that the project's own
  clients never take them.
* The malicious client, logging, `dump_dat.c` and the reply's wording are left out.
* `Restart` starts every behaviour in basic mode, and claims nothing of the tank after a
  torn copy.

## 7. Plan

Done: all modules of section 2, with the runs of section 3 and the proofs of section 5. Left:

1. An abstract exchange of whole messages, in which a packet is there or not, and `Wire` shown
   to implement it: a message is delivered at the step in which `recv_n` has its last piece.
   `ActsOnWhole`, `Aligned` and `WireProofs`' `ToServer` are the safety half of it; `Connection`
   takes its messages as wholes on the strength of these.
2. The same for the life cycle: an abstract server whose books lose at most one ride at each
   restart, with `Restart` as its implementation (`Ledger` is most of the invariant).
