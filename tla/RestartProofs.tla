---------------------------- MODULE RestartProofs ----------------------------
(***************************************************************************)
(* The books across restarts, for any number of workers, drivers, clients  *)
(* and shutdowns.  A shutdown cuts at most the one ride whose worker holds *)
(* the mutex when it dies; nobody gets the mutex after that, so what the   *)
(* cut left is what the file gets, and the next server.  The monitor may   *)
(* tick while the records are copied, if no worker died with the mutex: it *)
(* tears every field of a record but the ride counter.                     *)
(***************************************************************************)
EXTENDS Restart, RideServerProofs

\* Nobody has a ride beyond the first n slots.
NoRidesBeyond(dr, n) == \A i \in Slot : i > n => dr[i].rides_count = 0

SavedTyped ==
    saved # NoFile =>
        /\ saved.drivers \in [Slot -> Driver] /\ saved.driver_count \in 0..MaxDrivers
        /\ saved.handled \in Nat /\ saved.success \in Nat /\ saved.revenue \in Nat

\* The worker that died with the mutex, if one did.
Stuck == mutex \in Worker \ alive

Life ==
    /\ phase \in {"running", "stopping", "saving", "down"}
    /\ alive \subseteq Worker
    /\ Stuck => phase # "running"
    /\ phase \in {"saving", "down"} => alive = {}
    /\ image \in [Slot -> Driver]
    /\ copied \in 0..driver_count
    /\ restarts \in 0..MaxRestarts
    /\ phase # "running" => restarts < MaxRestarts

\* A living worker has the mutex only in its critical section.
LiveLock == \A w \in alive : mutex = w => InSection(w)

\* The copy counts the rides the table counts, as far as it has got.
Copied ==
    /\ NoRidesBeyond(drivers, driver_count)
    /\ NoRidesBeyond(image, driver_count)
    /\ saved # NoFile => NoRidesBeyond(saved.drivers, saved.driver_count)
    /\ phase = "saving" =>
          \A i \in Slot : i <= copied => image[i].rides_count = drivers[i].rides_count

\* The books of a table: a revenue of some number of rides paid, each of them a
\* success, each success handled, and each ride handled in a driver's counter,
\* the ride in hand besides; the counters hold at most lost more than was paid.
Kept(dr, handled, success, revenue, inHand, lost) ==
    /\ IsFiniteSet(RidesTaken(dr))
    /\ \E paid \in 0..success :
          /\ Paid(paid, revenue)
          /\ success <= handled
          /\ handled + inHand <= Cardinality(RidesTaken(dr))
          /\ Cardinality(RidesTaken(dr)) <= paid + inHand + lost

\* Whether the worker that died with the mutex was at a booking.
Cut == IF Stuck /\ pc[mutex] \in {"chosen", "booked"} THEN 1 ELSE 0

Ledger ==
    /\ Stuck =>
          Kept(drivers, total_requests_handled, total_success_requests, total_revenue,
               0, restarts + Cut)
    /\ ~Stuck =>
          Kept(drivers, total_requests_handled, total_success_requests, total_revenue,
               HalfDone, restarts)
    /\ saved # NoFile =>
          Kept(saved.drivers, saved.handled, saved.success, saved.revenue, 0, restarts + 1)

RInv == Orderly /\ Life /\ LiveLock /\ SavedTyped /\ Copied /\ Ledger

-----------------------------------------------------------------------------
\* More may have been lost than was.
LEMMA KeptMonotone ==
    ASSUME NEW dr, NEW handled \in Nat, NEW success \in Nat, NEW revenue \in Nat,
           NEW inHand \in Nat, NEW lost \in Nat, NEW more \in Nat, lost <= more,
           Kept(dr, handled, success, revenue, inHand, lost)
    PROVE  Kept(dr, handled, success, revenue, inHand, more)
<1>1. IsFiniteSet(RidesTaken(dr))
  BY DEF Kept
<1>2. PICK rides \in Nat : rides = Cardinality(RidesTaken(dr))
  BY <1>1, FS_CardinalityType
<1>3. PICK paid \in 0..success :
          /\ Paid(paid, revenue) /\ success <= handled
          /\ handled + inHand <= rides /\ rides <= paid + inHand + lost
  BY <1>2 DEF Kept
<1>4. rides <= paid + inHand + more
  BY <1>2, <1>3
<1> QED
  BY <1>1, <1>2, <1>3, <1>4 DEF Kept

\* The same books for a table with the same counters.
LEMMA KeptSame ==
    ASSUME NEW dr, NEW er, \A i \in Slot : er[i].rides_count = dr[i].rides_count,
           NEW handled, NEW success, NEW revenue, NEW inHand, NEW lost,
           Kept(dr, handled, success, revenue, inHand, lost)
    PROVE  Kept(er, handled, success, revenue, inHand, lost)
<1>1. RidesTaken(er) = RidesTaken(dr)
  BY RidesSame
<1> QED
  BY <1>1 DEF Kept

\* A ride in hand that is cut before anything is paid for is a ride lost.
LEMMA KeptCut ==
    ASSUME NEW dr, NEW handled \in Nat, NEW success \in Nat, NEW revenue \in Nat,
           NEW lost \in Nat, NEW inHand \in 0..1,
           Kept(dr, handled, success, revenue, inHand, lost)
    PROVE  Kept(dr, handled, success, revenue, 0, lost + inHand)
<1>1. IsFiniteSet(RidesTaken(dr))
  BY DEF Kept
<1>2. PICK rides \in Nat : rides = Cardinality(RidesTaken(dr))
  BY <1>1, FS_CardinalityType
<1>3. PICK paid \in 0..success :
          /\ Paid(paid, revenue) /\ success <= handled
          /\ handled + inHand <= rides /\ rides <= paid + inHand + lost
  BY <1>2 DEF Kept
<1>4. handled + 0 <= rides /\ rides <= paid + 0 + (lost + inHand)
  BY <1>2, <1>3
<1> QED
  BY <1>1, <1>2, <1>3, <1>4 DEF Kept

\* A table nobody has ridden in, before any ride was paid.
LEMMA KeptNone ==
    ASSUME NEW dr, \A i \in Slot : dr[i].rides_count = 0, NEW lost \in Nat
    PROVE  Kept(dr, 0, 0, 0, 0, lost)
<1>1. IsFiniteSet(RidesTaken(dr)) /\ Cardinality(RidesTaken(dr)) = 0
  BY RidesNone
<1>2. 0 \in 0..0 /\ Paid(0, 0)
  BY DEF Paid
<1> QED
  BY <1>1, <1>2 DEF Kept

LEMMA BooksTyped ==
    ASSUME RInv
    PROVE  /\ total_requests_handled \in Nat /\ total_success_requests \in Nat
           /\ total_revenue \in Nat /\ restarts \in Nat
           /\ HalfDone \in 0..1 /\ Cut \in 0..1
BY RestartAssumption DEF RInv, Orderly, TypeOK, Life, HalfDone, Cut

LEMMA InitRInv == RInit => RInv
<1> SUFFICES ASSUME RInit PROVE RInv
  OBVIOUS
<1>1. Orderly
  BY InitIInv DEF RInit, IInv
<1>2. \A i \in Slot : drivers[i].rides_count = 0
  BY InitCounters DEF RInit
<1>3. /\ phase = "running" /\ alive = Worker /\ image = drivers /\ copied = 0
      /\ saved = NoFile /\ restarts = 0 /\ MaxRestarts \in Nat
  BY RestartAssumption DEF RInit
<1>4. /\ mutex = Free /\ mutex \notin Worker
      /\ total_requests_handled = 0 /\ total_success_requests = 0 /\ total_revenue = 0
  BY ServerAssumption DEF RInit, Init
<1>5. Life /\ LiveLock
  BY <1>1, <1>3, <1>4, TableSlots DEF Life, Stuck, LiveLock, Orderly, TypeOK
<1>6. SavedTyped /\ Copied
  BY <1>2, <1>3 DEF SavedTyped, Copied, NoRidesBeyond
<1>7. Ledger
  <2>1. Kept(drivers, 0, 0, 0, 0, 0)
    BY <1>2, KeptNone
  <2>2. HalfDone = 0 /\ ~Stuck
    BY <1>4 DEF HalfDone, Stuck
  <2> QED
    BY <1>3, <1>4, <2>1, <2>2 DEF Ledger
<1> QED
  BY <1>1, <1>5, <1>6, <1>7 DEF RInv

-----------------------------------------------------------------------------
(***************************************************************************)
(* The handler and the end of the pool.                                    *)
(***************************************************************************)

\* coordinator.c:124-142, dispatcher.c:99: nothing of the handler moves a total or
\* a record of the segment, and a worker that SIGPIPE takes has let go of the mutex.
LEMMA HandlerKeeps ==
    ASSUME RInv, Sigint \/ BeginSave \/ PoolGone \/ \E w \in Worker : Crash(w)
    PROVE  RInv'
<1>1. UNCHANGED vars /\ UNCHANGED <<image, saved, restarts>>
  BY DEF Sigint, BeginSave, PoolGone, Crash, server
<1>2. UNCHANGED <<drivers, driver_count, total_requests_handled, total_success_requests,
                  total_revenue, mutex, pc>>
  BY <1>1 DEF vars, totals, workers
<1>3. Orderly'
  BY <1>1, NextOrderly DEF RInv
<1>4. /\ copied' = copied \/ copied' = 0
      /\ phase' = "saving" => copied' = 0
      /\ \/ phase = "running" /\ restarts < MaxRestarts /\ phase' = "stopping" /\ alive' = alive
         \/ phase = "running" /\ restarts < MaxRestarts /\ phase' = "down" /\ alive = {}
            /\ alive' = alive
         \/ phase = "running" /\ phase' = "running" /\ alive' \subseteq alive
            /\ \A w \in alive \ alive' : pc[w] = "reply"
         \/ phase = "stopping" /\ phase' \in {"saving", "down"} /\ alive = {} /\ alive' = alive
  BY DEF Sigint, BeginSave, PoolGone, Crash
<1>5. Stuck' <=> Stuck
  BY <1>2, <1>4 DEF RInv, Life, LiveLock, InSection, Stuck
<1>6. Life'
  BY <1>1, <1>2, <1>4, <1>5, TableSlots DEF RInv, Life
<1>7. LiveLock'
  BY <1>2, <1>4 DEF RInv, LiveLock, InSection
<1>8. SavedTyped'
  BY <1>1 DEF RInv, SavedTyped
<1>9. Copied'
  BY <1>1, <1>2, <1>4 DEF RInv, Copied, NoRidesBeyond, Slot
<1>10. Ledger'
  BY <1>1, <1>2, <1>5 DEF RInv, Ledger, HalfDone, Cut
<1> QED
  BY <1>3, <1>6, <1>7, <1>8, <1>9, <1>10 DEF RInv

-----------------------------------------------------------------------------
(***************************************************************************)
(* SIGTERM, and what it cuts.                                              *)
(***************************************************************************)

\* ride_service.c:34-46, cut anywhere: the ride is counted or not.
LEMMA PartlyBookedTyped ==
    ASSUME NEW d \in Driver, NEW r \in PartlyBooked(d)
    PROVE  r \in Driver /\ r.rides_count \in {d.rides_count, d.rides_count + 1}
<1> DEFINE a == [d EXCEPT !.is_available = 0]
           b == [a EXCEPT !.rides_count = @ + 1]
           c == [b EXCEPT !.fuel = @ - 1]
           e == [c EXCEPT !.has_target = 1]
<1>1. a \in Driver /\ a.rides_count = d.rides_count
  BY FlagsTyped DEF Driver
<1> HIDE DEF a
<1>2. b \in Driver /\ b.rides_count = d.rides_count + 1
  BY <1>1 DEF Driver
<1> HIDE DEF b
<1>3. c \in Driver /\ c.rides_count = d.rides_count + 1
  <2>1. b.fuel - 1 \in Int
    BY <1>2 DEF Driver
  <2> QED
    BY <1>2, <2>1 DEF Driver
<1> HIDE DEF c
<1>4. e \in Driver /\ e.rides_count = d.rides_count + 1
  BY <1>3, FlagsTyped DEF Driver
<1> HIDE DEF e
<1>5. \A t \in Place : /\ [e EXCEPT !.target = t] \in Driver
                       /\ [e EXCEPT !.target = t].rides_count = d.rides_count + 1
  BY <1>4 DEF Driver
<1>6. r \in {a, b, c} \cup {[e EXCEPT !.target = t] : t \in Place}
  BY DEF PartlyBooked, a, b, c, e
<1> QED
  BY <1>1, <1>2, <1>3, <1>5, <1>6

\* A cut that leaves the lock and the table in order, and the books short of no more
\* than the ride that was cut, is all the invariant asks of a worker's death.
LEMMA TerminateRest ==
    ASSUME RInv, NEW w \in Worker, Terminate(w), Orderly',
           UNCHANGED pc,
           \/ mutex' = mutex
           \/ mutex = Free /\ mutex' = w,
           driver_count <= driver_count', NoRidesBeyond(drivers', driver_count'),
           Stuck' => Kept(drivers', total_requests_handled', total_success_requests',
                          total_revenue', 0, restarts + Cut'),
           ~Stuck' => Kept(drivers', total_requests_handled', total_success_requests',
                           total_revenue', HalfDone', restarts)
    PROVE  RInv'
<1>1. /\ phase = "stopping" /\ w \in alive /\ alive' = alive \ {w}
      /\ UNCHANGED <<phase, image, copied, saved, restarts>>
  BY DEF Terminate
<1>2. driver_count \in Nat /\ driver_count' \in Nat
  BY SizesAssumption DEF RInv, Orderly, TypeOK
<1>3. Life'
  BY <1>1, <1>2 DEF RInv, Life, Stuck
<1>4. LiveLock'
  BY <1>1, ServerAssumption DEF RInv, LiveLock, Life, InSection
<1>5. SavedTyped'
  BY <1>1 DEF RInv, SavedTyped
<1>6. Copied'
  <2>1. NoRidesBeyond(image, driver_count')
    BY <1>2 DEF RInv, Copied, NoRidesBeyond, Slot
  <2> QED
    BY <1>1, <2>1 DEF RInv, Copied
<1>7. Ledger'
  BY <1>1 DEF RInv, Ledger
<1> QED
  BY <1>3, <1>4, <1>5, <1>6, <1>7 DEF RInv

\* Between two statements of the model: a ride that was in hand is cut.
LEMMA TerminatePlain ==
    ASSUME RInv, NEW w \in Worker, Terminate(w), UNCHANGED server
    PROVE  RInv'
<1>1. /\ w \in alive /\ alive' = alive \ {w} /\ UNCHANGED vars
  BY DEF Terminate, server
<1>2. UNCHANGED <<drivers, driver_count, total_requests_handled, total_success_requests,
                  total_revenue, mutex, pc>>
  BY <1>1 DEF vars, totals, workers
<1>3. Orderly'
  BY <1>1, NextOrderly DEF RInv
<1>4. driver_count \in Nat
  BY TableSlots DEF RInv
<1>5. CASE Stuck
  <2>1. Stuck' /\ Cut' = Cut
    BY <1>1, <1>2, <1>5 DEF Stuck, Cut
  <2> QED
    BY <1>2, <1>3, <1>4, <1>5, <2>1, TerminateRest DEF RInv, Ledger, Copied
<1>6. CASE ~Stuck /\ mutex = w
  <2>1. Kept(drivers, total_requests_handled, total_success_requests, total_revenue,
             0, restarts + HalfDone)
    BY <1>6, KeptCut, BooksTyped DEF RInv, Ledger
  <2>2. HalfDone <= Cut' /\ Cut' \in 0..1 /\ Stuck'
    BY <1>1, <1>2, <1>6 DEF HalfDone, Cut, Stuck
  <2>3. PICK half \in 0..1, short \in 0..1 : half = HalfDone /\ short = Cut' /\ half <= short
    BY <2>2, BooksTyped
  <2>4. /\ restarts + HalfDone \in Nat /\ restarts + Cut' \in Nat
        /\ restarts + HalfDone <= restarts + Cut'
    BY <2>3, BooksTyped
  <2>5. Kept(drivers, total_requests_handled, total_success_requests, total_revenue,
             0, restarts + Cut')
    BY <2>1, <2>4, KeptMonotone, BooksTyped
  <2> QED
    BY <1>2, <1>3, <1>4, <2>2, <2>5, TerminateRest DEF RInv, Copied
<1>7. CASE ~Stuck /\ mutex # w
  <2>1. ~Stuck' /\ HalfDone' = HalfDone
    BY <1>1, <1>2, <1>7 DEF Stuck, HalfDone
  <2> QED
    BY <1>2, <1>3, <1>4, <1>7, <2>1, TerminateRest DEF RInv, Ledger, Copied
<1> QED
  BY <1>5, <1>6, <1>7

\* ride_service.c:34-46: the driver's counter may be ahead of everything by the ride.
LEMMA CutAssignKeeps ==
    ASSUME RInv, NEW w \in Worker, Terminate(w), CutAssign(w)
    PROVE  RInv'
<1> DEFINE b == best[w]
<1>1. /\ w \in alive /\ alive' = alive \ {w} /\ pc[w] = "chosen" /\ mutex = w
      /\ UNCHANGED <<driver_count, totals, mutex, scan, workers, requests>>
  BY DEF Terminate, CutAssign, RInv, Orderly, LockInv, InSection
<1>2. UNCHANGED <<total_requests_handled, total_success_requests, total_revenue, pc, best,
                  client_id, ride_no>>
  BY <1>1 DEF totals, workers
<1>3. /\ b \in 1..driver_count /\ b \in Slot /\ drivers \in [Slot -> Driver]
      /\ driver_count \in Nat
  BY <1>1, TableSlots DEF RInv, Orderly, WorkerKnows, TypeOK
<1>4. PICK r \in PartlyBooked(drivers[b]) : drivers' = [drivers EXCEPT ![b] = r]
  BY DEF CutAssign
<1>5. r \in Driver /\ r.rides_count \in {drivers[b].rides_count, drivers[b].rides_count + 1}
  BY <1>3, PartlyBookedTyped
<1> HIDE DEF b
<1>6. /\ drivers' \in [Slot -> Driver]
      /\ drivers'[b].rides_count = r.rides_count
      /\ \A i \in Slot : i # b => drivers'[i].rides_count = drivers[i].rides_count
  BY <1>3, <1>4, <1>5
<1>7. Orderly'
  <2>1. TypeOK'
    BY <1>1, <1>2, <1>6 DEF RInv, Orderly, TypeOK
  <2> QED
    BY <1>1, <1>2, <2>1 DEF RInv, Orderly, LockInv, InSection, WorkerKnows
<1>8. NoRidesBeyond(drivers', driver_count')
  <2>1. \A i \in Slot : i > driver_count => i # b
    BY <1>3 DEF Slot
  <2> QED
    BY <1>1, <1>6, <2>1 DEF RInv, Copied, NoRidesBeyond
<1>9. Stuck' /\ Cut' = 1 /\ ~Stuck /\ HalfDone = 0
  BY <1>1, <1>2 DEF Stuck, Cut, HalfDone
<1>10. Kept(drivers', total_requests_handled', total_success_requests', total_revenue',
            0, restarts + 1)
  <2>1. Kept(drivers, total_requests_handled, total_success_requests, total_revenue, 0, restarts)
    BY <1>9 DEF RInv, Ledger
  <2>2. CASE r.rides_count = drivers[b].rides_count
    <3>1. \A i \in Slot : drivers'[i].rides_count = drivers[i].rides_count
      BY <1>6, <2>2
    <3>2. Kept(drivers', total_requests_handled, total_success_requests, total_revenue, 0, restarts)
      BY <2>1, <3>1, KeptSame
    <3>3. restarts \in Nat /\ restarts + 1 \in Nat /\ restarts <= restarts + 1
      BY BooksTyped
    <3> QED
      BY <1>2, <3>2, <3>3, KeptMonotone, BooksTyped
  <2>3. CASE r.rides_count = drivers[b].rides_count + 1
    <3>1. IsFiniteSet(RidesTaken(drivers))
      BY <2>1 DEF Kept
    <3>2. \A i \in Slot : /\ drivers[i].rides_count \in Nat
                          /\ drivers'[i].rides_count = IF i = b THEN drivers[i].rides_count + 1
                                                        ELSE drivers[i].rides_count
      BY <1>3, <1>6, <2>3 DEF Driver
    <3>3. /\ IsFiniteSet(RidesTaken(drivers'))
          /\ Cardinality(RidesTaken(drivers')) = Cardinality(RidesTaken(drivers)) + 1
      BY <1>3, <3>1, <3>2, RidesGrow
    <3>4. PICK rides \in Nat : rides = Cardinality(RidesTaken(drivers))
      BY <3>1, FS_CardinalityType
    <3>5. PICK paid \in 0..total_success_requests :
             /\ Paid(paid, total_revenue)
             /\ total_success_requests <= total_requests_handled
             /\ total_requests_handled + 0 <= rides /\ rides <= paid + 0 + restarts
      BY <2>1, <3>4 DEF Kept
    <3>6. total_requests_handled + 0 <= rides + 1 /\ rides + 1 <= paid + 0 + (restarts + 1)
      BY <3>4, <3>5, BooksTyped
    <3> QED
      BY <1>2, <3>3, <3>4, <3>5, <3>6 DEF Kept
  <2> QED
    BY <1>5, <2>2, <2>3
<1> QED
  BY <1>1, <1>2, <1>3, <1>7, <1>8, <1>9, <1>10, TerminateRest

\* ride_service.c:49-55: handled before it is a success, a success before it is paid.
LEMMA CutCommitKeeps ==
    ASSUME RInv, NEW w \in Worker, Terminate(w), CutCommit(w)
    PROVE  RInv'
<1>1. /\ w \in alive /\ alive' = alive \ {w} /\ pc[w] = "booked" /\ mutex = w
      /\ UNCHANGED <<table, mutex, scan, workers, requests>>
      /\ total_requests_handled' = total_requests_handled + 1
  BY DEF Terminate, CutCommit, RInv, Orderly, LockInv, InSection
<1>2. UNCHANGED <<drivers, driver_count, pc, best, client_id, ride_no>>
  BY <1>1 DEF table, workers
<1>3. driver_count \in Nat /\ client_id[w] \in Nat
  BY TableSlots, ClientTyped DEF RInv, Orderly
<1>4. Fare(client_id[w]) \in Nat
  BY <1>3 DEF Fare
<1>5. /\ total_success_requests' \in {total_success_requests, total_success_requests + 1}
      /\ total_revenue' \in {total_revenue, total_revenue + Fare(client_id[w])}
      /\ total_revenue' # total_revenue => total_success_requests' = total_success_requests + 1
  BY DEF CutCommit
<1>6. Orderly'
  <2>1. TypeOK'
    BY <1>1, <1>2, <1>4, <1>5, BooksTyped DEF RInv, Orderly, TypeOK
  <2> QED
    BY <1>1, <1>2, <2>1 DEF RInv, Orderly, LockInv, InSection, WorkerKnows
<1>7. Stuck' /\ Cut' = 1 /\ ~Stuck /\ HalfDone = 1
  BY <1>1, <1>2 DEF Stuck, Cut, HalfDone, RInv, Life
<1>8. Kept(drivers', total_requests_handled', total_success_requests', total_revenue',
           0, restarts + 1)
  <2>1. Kept(drivers, total_requests_handled, total_success_requests, total_revenue, 1, restarts)
    BY <1>7 DEF RInv, Ledger
  <2>2. IsFiniteSet(RidesTaken(drivers))
    BY <2>1 DEF Kept
  <2>3. PICK rides \in Nat : rides = Cardinality(RidesTaken(drivers))
    BY <2>2, FS_CardinalityType
  <2>4. PICK paid \in 0..total_success_requests :
           /\ Paid(paid, total_revenue)
           /\ total_success_requests <= total_requests_handled
           /\ total_requests_handled + 1 <= rides /\ rides <= paid + 1 + restarts
    BY <2>1, <2>3 DEF Kept
  <2>5. \E now \in 0..total_success_requests' : paid <= now /\ Paid(now, total_revenue')
    <3>1. CASE total_revenue' = total_revenue
      <4>1. paid \in 0..total_success_requests'
        BY <1>5, <2>4, BooksTyped
      <4> QED
        BY <2>4, <3>1, <4>1
    <3>2. CASE total_revenue' # total_revenue
      <4>1. Paid(paid + 1, total_revenue + Fare(client_id[w]))
        BY <1>3, <2>4, PaidOnce, BooksTyped
      <4>2. paid + 1 \in 0..total_success_requests' /\ paid <= paid + 1
        BY <1>5, <2>4, <3>2, BooksTyped
      <4> QED
        BY <1>5, <3>2, <4>1, <4>2
    <3> QED
      BY <3>1, <3>2
  <2>6. PICK now \in 0..total_success_requests' : paid <= now /\ Paid(now, total_revenue')
    BY <2>5
  <2>7. /\ total_success_requests' <= total_requests_handled'
        /\ total_requests_handled' + 0 <= rides
        /\ rides <= now + 0 + (restarts + 1)
    BY <1>1, <1>5, <2>3, <2>4, <2>6, BooksTyped
  <2> QED
    BY <1>2, <2>2, <2>3, <2>6, <2>7 DEF Kept
<1> QED
  BY <1>1, <1>2, <1>3, <1>6, <1>7, <1>8, TerminateRest DEF RInv, Copied

\* coordinator.c:203-209: a join that is cut has no ride to lose.
LEMMA CutJoinKeeps ==
    ASSUME RInv, NEW w \in Worker, Terminate(w), CutJoin(w)
    PROVE  RInv'
<1>1. /\ w \in alive /\ alive' = alive \ {w} /\ pc[w] = "join"
      /\ mutex = Free /\ mutex' = w
      /\ UNCHANGED <<totals, scan, workers, requests>>
  BY DEF Terminate, CutJoin
<1>2. UNCHANGED <<total_requests_handled, total_success_requests, total_revenue, pc, best,
                  client_id, ride_no>>
  BY <1>1 DEF totals, workers
<1>3. /\ driver_count \in Nat /\ driver_count \in 0..MaxDrivers /\ MaxDrivers \in Nat
      /\ drivers \in [Slot -> Driver]
  BY TableSlots, SizesAssumption DEF RInv, Orderly, TypeOK
<1>4. /\ drivers' \in [Slot -> Driver] /\ driver_count' \in 0..MaxDrivers
      /\ driver_count <= driver_count' /\ SameCounters
  <2>1. CASE UNCHANGED table
    BY <1>3, <2>1 DEF table, SameCounters
  <2>2. CASE /\ driver_count < MaxDrivers /\ driver_count' = driver_count + 1
             /\ \E d \in {drivers[driver_count + 1],
                         [drivers[driver_count + 1] EXCEPT !.is_available = 1],
                         Joined(drivers[driver_count + 1])} :
                   drivers' = [drivers EXCEPT ![driver_count + 1] = d]
    <3> DEFINE n == driver_count + 1
    <3>1. n \in Slot
      BY <1>3, <2>2 DEF Slot
    <3>2. drivers[n] \in Driver
      BY <1>3, <3>1
    <3>3. /\ Joined(drivers[n]) \in Driver
          /\ Joined(drivers[n]).rides_count = drivers[n].rides_count
      BY <3>2, JoinedTyped
    <3>4. /\ [drivers[n] EXCEPT !.is_available = 1] \in Driver
          /\ [drivers[n] EXCEPT !.is_available = 1].rides_count = drivers[n].rides_count
      BY <3>2, FlagsTyped DEF Driver
    <3>5. PICK d \in {drivers[n], [drivers[n] EXCEPT !.is_available = 1], Joined(drivers[n])} :
             drivers' = [drivers EXCEPT ![n] = d]
      BY <2>2
    <3>6. d \in Driver /\ d.rides_count = drivers[n].rides_count
      BY <3>2, <3>3, <3>4
    <3>7. driver_count' = n
      BY <2>2
    <3> HIDE DEF n
    <3>8. drivers' \in [Slot -> Driver] /\ SameCounters
      BY <1>3, <3>1, <3>5, <3>6 DEF SameCounters
    <3> QED
      BY <1>3, <2>2, <3>8
  <2> QED
    BY <2>1, <2>2 DEF CutJoin
<1>5. Orderly'
  <2>1. scan = 0
    BY <1>1, ServerAssumption DEF RInv, Orderly, TypeOK
  <2>2. TypeOK'
    BY <1>1, <1>2, <1>4, <2>1, ServerAssumption DEF RInv, Orderly, TypeOK
  <2>3. LockInv'
    BY <1>1, <1>2, ServerAssumption DEF RInv, Orderly, LockInv, InSection
  <2>4. WorkerKnows'
    <3>1. 1..driver_count \subseteq 1..driver_count'
      BY <1>3, <1>4
    <3> QED
      BY <1>2, <3>1 DEF RInv, Orderly, WorkerKnows
  <2> QED
    BY <2>2, <2>3, <2>4 DEF Orderly
<1>6. NoRidesBeyond(drivers', driver_count')
  BY <1>3, <1>4 DEF RInv, Copied, NoRidesBeyond, SameCounters, Slot
<1>7. Stuck' /\ Cut' = 0 /\ ~Stuck /\ HalfDone = 0
  BY <1>1, <1>2, ServerAssumption DEF Stuck, Cut, HalfDone
<1>8. Kept(drivers', total_requests_handled', total_success_requests', total_revenue',
           0, restarts + 0)
  <2>1. Kept(drivers, total_requests_handled, total_success_requests, total_revenue, 0, restarts)
    BY <1>7 DEF RInv, Ledger
  <2>2. restarts + 0 = restarts
    BY BooksTyped
  <2> QED
    BY <1>2, <1>4, <2>1, <2>2, KeptSame DEF SameCounters
<1> QED
  BY <1>1, <1>2, <1>4, <1>5, <1>6, <1>7, <1>8, TerminateRest

LEMMA TerminateKeeps ==
    ASSUME RInv, NEW w \in Worker, Terminate(w)
    PROVE  RInv'
BY TerminatePlain, CutAssignKeeps, CutCommitKeeps, CutJoinKeeps DEF Terminate

-----------------------------------------------------------------------------
(***************************************************************************)
(* Workers and monitor.                                                    *)
(***************************************************************************)

\* What a step of the server does to its books, whoever takes it.
LEMMA StepCounts ==
    ASSUME Orderly, [Next]_vars, NEW lost \in Nat,
           Kept(drivers, total_requests_handled, total_success_requests, total_revenue,
                HalfDone, lost)
    PROVE  Kept(drivers', total_requests_handled', total_success_requests', total_revenue',
                HalfDone', lost)
<1>1. /\ total_requests_handled \in Nat /\ total_success_requests \in Nat
      /\ total_revenue \in Nat
      /\ \A i \in Slot : drivers[i].rides_count \in Nat
      /\ \A w \in Worker : client_id[w] \in Nat
  BY ClientTyped DEF Orderly, TypeOK, Driver
<1>2. IsFiniteSet(RidesTaken(drivers))
  BY DEF Kept
<1>3. PICK rides \in Nat : rides = Cardinality(RidesTaken(drivers))
  BY <1>2, FS_CardinalityType
<1>4. PICK paid \in 0..total_success_requests :
         /\ Paid(paid, total_revenue)
         /\ total_success_requests <= total_requests_handled
         /\ total_requests_handled + HalfDone <= rides
         /\ rides <= paid + HalfDone + lost
  BY <1>3 DEF Kept
<1>5. CASE SameCounters /\ HalfDone' = HalfDone /\ UNCHANGED totals
  BY <1>5, KeptSame DEF SameCounters, totals
<1>6. ASSUME NEW w \in Worker, Assign(w), HalfDone = 0, HalfDone' = 1, UNCHANGED totals
      PROVE  Kept(drivers', total_requests_handled', total_success_requests', total_revenue',
                  HalfDone', lost)
  <2>1. /\ IsFiniteSet(RidesTaken(drivers'))
        /\ Cardinality(RidesTaken(drivers')) = rides + 1
    BY <1>1, <1>2, <1>3, <1>6, AssignOrderly, RidesGrow
  <2>2. total_requests_handled + 1 <= rides + 1 /\ rides + 1 <= paid + 1 + lost
    BY <1>1, <1>3, <1>4, <1>6
  <2> QED
    BY <1>4, <1>6, <2>1, <2>2 DEF Kept, totals
<1>7. ASSUME NEW w \in Worker, Commit(w), HalfDone = 1, HalfDone' = 0, SameCounters
      PROVE  Kept(drivers', total_requests_handled', total_success_requests', total_revenue',
                  HalfDone', lost)
  <2>1. RidesTaken(drivers') = RidesTaken(drivers)
    BY <1>7, RidesSame DEF SameCounters
  <2>2. /\ total_requests_handled' = total_requests_handled + 1
        /\ total_success_requests' = total_success_requests + 1
        /\ total_revenue' = total_revenue + Fare(client_id[w])
    BY <1>7 DEF Commit
  <2>3. Paid(paid + 1, total_revenue')
    BY <1>1, <1>4, <2>2, PaidOnce
  <2>4. /\ paid + 1 \in 0..total_success_requests'
        /\ total_success_requests' <= total_requests_handled'
        /\ total_requests_handled' + 0 <= rides /\ rides <= (paid + 1) + 0 + lost
    BY <1>1, <1>3, <1>4, <1>7, <2>2
  <2> QED
    BY <1>2, <1>3, <1>7, <2>1, <2>3, <2>4 DEF Kept
<1> QED
  BY <1>5, <1>6, <1>7, HalfDoneSteps

\* The slots in use and the rides in them: a slot without rides gets one only by
\* being in the table.
LEMMA StepBeyond ==
    ASSUME Orderly, [Next]_vars, NoRidesBeyond(drivers, driver_count)
    PROVE  /\ NoRidesBeyond(drivers', driver_count')
           /\ driver_count <= driver_count' /\ driver_count \in Nat /\ driver_count' \in Nat
<1>1. driver_count \in Nat /\ driver_count' \in Nat
  BY NextOrderly, SizesAssumption DEF Orderly, TypeOK
<1>2. ASSUME NEW w \in Worker, Assign(w)
      PROVE  NoRidesBeyond(drivers', driver_count') /\ driver_count' = driver_count
  <2>1. /\ best[w] \in 1..driver_count /\ driver_count' = driver_count
        /\ \A i \in Slot : drivers'[i].rides_count =
              IF i = best[w] THEN drivers[i].rides_count + 1 ELSE drivers[i].rides_count
    BY <1>2, AssignOrderly DEF Assign
  <2>2. \A i \in Slot : i > driver_count => i # best[w]
    BY <1>1, <2>1 DEF Slot
  <2> QED
    BY <2>1, <2>2 DEF NoRidesBeyond
<1>3. ASSUME NEW w \in Worker, DriverJoin(w)
      PROVE  SameCounters /\ driver_count <= driver_count'
  BY <1>3, DriverJoinOrderly
<1>4. CASE TickDriver
  <2>1. SameCounters /\ driver_count' = driver_count
    BY <1>4, TickDriverOrderly DEF TickDriver, TickDriverWith
  <2> QED
    BY <1>1, <2>1 DEF NoRidesBeyond, SameCounters
<1>5. \/ UNCHANGED table \/ TickDriver
      \/ \E w \in Worker : DriverJoin(w) \/ Assign(w)
  BY DEF Next, MonitorStep, WorkerStep, vars, table, TickBegin, TickEnd, Accept,
         Choose, NoDriver, Commit, Reply
<1>6. CASE UNCHANGED table
  BY <1>1, <1>6 DEF table, NoRidesBeyond
<1>7. CASE \E w \in Worker : DriverJoin(w)
  <2>1. SameCounters /\ driver_count <= driver_count'
    BY <1>3, <1>7
  <2> QED
    BY <1>1, <2>1 DEF NoRidesBeyond, SameCounters, Slot
<1> QED
  BY <1>1, <1>2, <1>4, <1>5, <1>6, <1>7

\* A living worker takes the mutex only from nobody, and has it in its critical
\* section and nowhere else.
LEMMA LockHolders ==
    ASSUME RInv, Work \/ Watch
    PROVE  /\ mutex' \in {mutex, Free, Monitor} \cup alive
           /\ \A w \in alive : mutex' = w => pc'[w] \in {"chosen", "nodriver", "booked"}
<1>1. /\ pc \in [Worker -> {"accept", "ask", "join", "chosen", "nodriver", "booked", "reply"}]
      /\ alive \subseteq Worker /\ Free \notin Worker /\ Monitor \notin Worker
      /\ \A w \in alive : mutex = w => pc[w] \in {"chosen", "nodriver", "booked"}
      /\ \A w \in Worker : pc[w] \in {"chosen", "nodriver", "booked"} => mutex = w
  BY ServerAssumption DEF RInv, Orderly, TypeOK, Life, LiveLock, InSection, LockInv
<1>2. CASE Watch
  <2>1. MonitorStep
    BY <1>2 DEF Watch, Up
  <2>2. pc' = pc /\ mutex' \in {mutex, Free, Monitor}
    BY <2>1 DEF MonitorStep, TickBegin, TickDriver, TickDriverWith, TickEnd, workers
  <2> QED
    BY <1>1, <2>2
<1>3. ASSUME NEW w \in alive, WorkerStep(w)
      PROVE  /\ mutex' \in {mutex, Free, Monitor} \cup alive
             /\ \A v \in alive : mutex' = v => pc'[v] \in {"chosen", "nodriver", "booked"}
  <2>1. CASE Accept(w) \/ Reply(w) \/ DriverJoin(w)
    <3>1. mutex' = mutex /\ pc[w] \notin {"chosen", "nodriver", "booked"}
          /\ \A v \in alive : v # w => pc'[v] = pc[v]
      BY <1>1, <2>1 DEF Accept, Reply, DriverJoin
    <3> QED
      BY <1>1, <3>1
  <2>2. CASE Choose(w)
    BY <1>1, <2>2 DEF Choose
  <2>3. CASE NoDriver(w) \/ Commit(w)
    BY <1>1, <2>3 DEF NoDriver, Commit
  <2>4. CASE Assign(w)
    BY <1>1, <2>4 DEF Assign
  <2> QED
    BY <1>3, <2>1, <2>2, <2>3, <2>4 DEF WorkerStep
<1> QED
  BY <1>2, <1>3 DEF Work, Up

\* A mutex whose owner died is never given again (ipc_manager has no robust mutex):
\* whoever is alive only takes connections and answers.
LEMMA StuckStays ==
    ASSUME RInv, Work \/ Watch, Stuck
    PROVE  /\ UNCHANGED <<drivers, driver_count, total_requests_handled,
                          total_success_requests, total_revenue, mutex>>
           /\ pc'[mutex] = pc[mutex]
<1>1. /\ pc \in [Worker -> {"accept", "ask", "join", "chosen", "nodriver", "booked", "reply"}]
      /\ alive \subseteq Worker /\ mutex \in Worker /\ mutex \notin alive
      /\ mutex # Free /\ mutex # Monitor
      /\ \A w \in Worker : pc[w] \in {"chosen", "nodriver", "booked"} => mutex = w
  BY ServerAssumption DEF RInv, Orderly, TypeOK, Life, Stuck, InSection, LockInv
<1>2. ~Watch
  BY <1>1 DEF Watch, Up, MonitorStep, TickBegin, TickDriver, TickDriverWith, TickEnd
<1>3. PICK w \in alive : WorkerStep(w)
  BY <1>2 DEF Work, Up
<1>4. Accept(w) \/ Reply(w)
  BY <1>1, <1>3 DEF WorkerStep, Choose, NoDriver, Assign, Commit, DriverJoin
<1> QED
  BY <1>1, <1>4 DEF Accept, Reply, table, totals

\* Workers and monitor; while the file is written only the monitor is left.
LEMMA RunningKeeps ==
    ASSUME RInv, Work \/ Watch
    PROVE  RInv'
<1>1. /\ [Next]_vars /\ UNCHANGED <<phase, alive, image, copied, saved, restarts>>
      /\ phase # "down"
  BY DEF Work, Watch, Up, Next, life, RInv, Life
<1>2. Orderly'
  BY <1>1, NextOrderly DEF RInv
<1>3. /\ NoRidesBeyond(drivers', driver_count')
      /\ driver_count <= driver_count' /\ driver_count \in Nat /\ driver_count' \in Nat
  BY <1>1, StepBeyond DEF RInv, Copied
<1>4. /\ Stuck' <=> Stuck
      /\ LiveLock'
  <2>1. alive \subseteq Worker /\ Free \notin Worker /\ Monitor \notin Worker
    BY ServerAssumption DEF RInv, Life
  <2>2. Stuck => Stuck'
    BY <1>1, StuckStays DEF Stuck
  <2>3. ~Stuck => ~Stuck'
    BY <1>1, <2>1, LockHolders DEF Stuck
  <2>4. LiveLock'
    BY <1>1, LockHolders DEF LiveLock, InSection
  <2> QED
    BY <2>2, <2>3, <2>4
<1>5. Life'
  BY <1>1, <1>3, <1>4 DEF RInv, Life
<1>6. SavedTyped'
  BY <1>1 DEF RInv, SavedTyped
<1>7. phase = "saving" => SameCounters
  <2>1. SUFFICES ASSUME phase = "saving", Watch PROVE SameCounters
    BY DEF RInv, Life, Work
  <2>2. MonitorStep
    BY <2>1 DEF Watch, Up
  <2> QED
    BY <2>2, TickDriverOrderly DEF MonitorStep, TickBegin, TickEnd, table, SameCounters, RInv
<1>8. NoRidesBeyond(image, driver_count)'
  BY <1>1, <1>3 DEF RInv, Copied, NoRidesBeyond, Slot
<1>9. Copied'
  BY <1>1, <1>3, <1>7, <1>8 DEF RInv, Copied, SameCounters
<1>10. Ledger'
  <2>1. CASE Stuck
    <3>1. Cut' = Cut
      BY <1>4, <2>1, StuckStays DEF Cut
    <3> QED
      BY <1>1, <1>4, <2>1, <3>1, StuckStays DEF RInv, Ledger
  <2>2. CASE ~Stuck
    <3>1. Kept(drivers', total_requests_handled', total_success_requests', total_revenue',
               HalfDone', restarts)
      BY <1>1, <2>2, StepCounts, BooksTyped DEF RInv, Ledger
    <3> QED
      BY <1>1, <1>4, <2>2, <3>1 DEF RInv, Ledger
  <2> QED
    BY <2>1, <2>2
<1> QED
  BY <1>2, <1>4, <1>5, <1>6, <1>9, <1>10 DEF RInv

-----------------------------------------------------------------------------
(***************************************************************************)
(* The file, and the server started from it.                               *)
(***************************************************************************)

\* Every field of a torn record comes from some moment of the tick; the ride
\* counter is the same at all of them.
LEMMA TornTyped ==
    ASSUME NEW d \in Driver, NEW luck \in BOOLEAN, NEW burn \in BOOLEAN,
           NEW stuck \in BOOLEAN, NEW next \in Place,
           NEW r \in Torn(Stages(d, luck, burn, stuck, next))
    PROVE  r \in Driver /\ r.rides_count = d.rides_count
<1> DEFINE S == Stages(d, luck, burn, stuck, next)
<1>1. \A e \in S : e \in Driver /\ e.rides_count = d.rides_count
  <2>1. Follows(d, d)
    BY DEF Follows
  <2>2. \A e \in S : Follows(d, e)
    BY <2>1, TickFollows DEF Stages
  <2> QED
    BY <2>2 DEF Follows
<1> HIDE DEF S
<1>2. r \in Torn(S)
  BY DEF S
<1>3. /\ {e.is_available : e \in S} \subseteq Flag /\ {e.is_refueling : e \in S} \subseteq Flag
      /\ {e.has_target : e \in S} \subseteq Flag /\ {e.top : e \in S} \subseteq Flag
      /\ {e.fuel : e \in S} \subseteq Int
      /\ {e.place : e \in S} \subseteq Place /\ {e.target : e \in S} \subseteq Place
      /\ {e.rides_count : e \in S} \subseteq {d.rides_count}
      /\ d.rides_count \in Nat
  BY <1>1 DEF Driver
<1>4. r \in [is_available : Flag, is_refueling : Flag, has_target : Flag, fuel : Int,
             rides_count : {d.rides_count}, place : Place, target : Place, top : Flag]
  BY <1>2, <1>3 DEF Torn
<1> QED
  BY <1>3, <1>4 DEF Driver

\* coordinator.c:135-137, one record of it.
LEMMA SaveDriverKeeps ==
    ASSUME RInv, SaveDriver
    PROVE  RInv'
<1> DEFINE k == copied + 1
<1>1. /\ phase = "saving" /\ copied < driver_count /\ copied' = copied + 1
      /\ UNCHANGED vars /\ UNCHANGED <<phase, alive, saved, restarts>>
  BY DEF SaveDriver, server
<1>2. UNCHANGED <<drivers, driver_count, total_requests_handled, total_success_requests,
                  total_revenue, mutex, pc>>
  BY <1>1 DEF vars, totals, workers
<1>3. /\ driver_count \in Nat /\ copied \in 0..driver_count /\ k \in Slot /\ k <= driver_count
      /\ drivers \in [Slot -> Driver] /\ image \in [Slot -> Driver] /\ drivers[k] \in Driver
  BY <1>1, TableSlots DEF RInv, Life, Orderly, TypeOK
<1>4. \E r \in Driver : r.rides_count = drivers[k].rides_count /\ image' = [image EXCEPT ![k] = r]
  <2>1. CASE image' = [image EXCEPT ![k] = drivers[k]]
    BY <1>3, <2>1
  <2>2. CASE \E luck, burn, stuck \in BOOLEAN, next \in Place \ {Origin} :
             \E r \in Torn(Stages(drivers[k], luck, burn, stuck, next)) :
                image' = [image EXCEPT ![k] = r]
    <3>1. PICK luck, burn, stuck \in BOOLEAN, next \in Place \ {Origin} :
             \E r \in Torn(Stages(drivers[k], luck, burn, stuck, next)) :
                image' = [image EXCEPT ![k] = r]
      BY <2>2
    <3>2. PICK r \in Torn(Stages(drivers[k], luck, burn, stuck, next)) :
             image' = [image EXCEPT ![k] = r]
      BY <3>1
    <3>3. r \in Driver /\ r.rides_count = drivers[k].rides_count
      BY <1>3, TornTyped
    <3> QED
      BY <3>2, <3>3
  <2> QED
    BY <2>1, <2>2 DEF SaveDriver
<1> HIDE DEF k
<1>5. PICK r \in Driver : r.rides_count = drivers[k].rides_count /\ image' = [image EXCEPT ![k] = r]
  BY <1>4
<1>6. /\ image' \in [Slot -> Driver]
      /\ image'[k].rides_count = drivers[k].rides_count
      /\ \A i \in Slot : i # k => image'[i] = image[i]
  BY <1>3, <1>5
<1>7. Orderly'
  BY <1>1, NextOrderly DEF RInv
<1>8. Life' /\ LiveLock'
  BY <1>1, <1>2, <1>3, <1>6 DEF RInv, Life, LiveLock, Stuck, InSection
<1>9. SavedTyped' /\ Ledger'
  BY <1>1, <1>2 DEF RInv, SavedTyped, Ledger, HalfDone, Stuck, Cut
<1>10. Copied'
  <2>1. ASSUME NEW i \in Slot, i <= copied'
        PROVE  image'[i].rides_count = drivers[i].rides_count
    <3>1. CASE i = k
      BY <1>6, <3>1
    <3>2. CASE i # k
      <4>1. i <= copied
        BY <1>1, <1>3, <2>1, <3>2 DEF Slot, k
      <4> QED
        BY <1>1, <1>6, <3>2, <4>1 DEF RInv, Copied
    <3> QED
      BY <3>1, <3>2
  <2>2. NoRidesBeyond(image', driver_count)
    <3>1. \A i \in Slot : i > driver_count => i # k
      BY <1>3 DEF Slot
    <3> QED
      BY <1>6, <3>1 DEF RInv, Copied, NoRidesBeyond
  <2> QED
    BY <1>1, <1>2, <2>1, <2>2 DEF RInv, Copied
<1> QED
  BY <1>7, <1>8, <1>9, <1>10 DEF RInv

\* coordinator.c:137-142: the file has the rides the drivers have, and the totals
\* the cut has left.
LEMMA EndSaveKeeps ==
    ASSUME RInv, EndSave
    PROVE  RInv'
<1> DEFINE file == [drivers |-> image, driver_count |-> driver_count,
                    handled |-> total_requests_handled, success |-> total_success_requests,
                    revenue |-> total_revenue]
<1>1. /\ phase = "saving" /\ copied = driver_count /\ phase' = "down"
      /\ UNCHANGED vars /\ UNCHANGED <<alive, image, copied, restarts>>
      /\ saved' \in {NoFile, file}
  BY DEF EndSave, server
<1>2. UNCHANGED <<drivers, driver_count, total_requests_handled, total_success_requests,
                  total_revenue, mutex, pc>>
  BY <1>1 DEF vars, totals, workers
<1>3. Orderly'
  BY <1>1, NextOrderly DEF RInv
<1>4. Life' /\ LiveLock'
  BY <1>1, <1>2 DEF RInv, Life, LiveLock, Stuck, InSection
<1>5. /\ file.drivers = image /\ file.driver_count = driver_count
      /\ file.handled = total_requests_handled /\ file.success = total_success_requests
      /\ file.revenue = total_revenue
  OBVIOUS
<1> HIDE DEF file
<1>6. SavedTyped'
  BY <1>1, <1>5 DEF RInv, SavedTyped, Life, Orderly, TypeOK
<1>7. Copied'
  BY <1>1, <1>2, <1>5 DEF RInv, Copied
<1>8. \A i \in Slot : image[i].rides_count = drivers[i].rides_count
  <2> TAKE i \in Slot
  <2>1. i <= driver_count \/ i > driver_count
    BY TableSlots DEF RInv, Slot
  <2> QED
    BY <1>1, <2>1 DEF RInv, Copied, NoRidesBeyond
<1>9. Kept(image, total_requests_handled, total_success_requests, total_revenue, 0, restarts + 1)
  <2>1. /\ restarts \in Nat /\ restarts + 1 \in Nat /\ restarts + Cut \in Nat
        /\ restarts <= restarts + 1 /\ restarts + Cut <= restarts + 1
    BY BooksTyped
  <2>2. Kept(drivers, total_requests_handled, total_success_requests, total_revenue,
             0, restarts + 1)
    <3>1. CASE Stuck
      BY <2>1, <3>1, KeptMonotone, BooksTyped DEF RInv, Ledger
    <3>2. CASE ~Stuck
      <4>1. HalfDone = 0
        BY <1>1, <3>2 DEF HalfDone, Stuck, RInv, Life
      <4> QED
        BY <2>1, <3>2, <4>1, KeptMonotone, BooksTyped DEF RInv, Ledger
    <3> QED
      BY <3>1, <3>2
  <2> QED
    BY <1>8, <2>2, KeptSame
<1>10. Ledger'
  BY <1>1, <1>2, <1>5, <1>9 DEF RInv, Ledger, HalfDone, Stuck, Cut
<1> QED
  BY <1>3, <1>4, <1>6, <1>7, <1>10 DEF RInv

\* coordinator.c:72-112, what the new server finds in its table.
LEMMA StartTable ==
    ASSUME RInv, Load \/ Blank
    PROVE  /\ drivers' \in [Slot -> Driver] /\ driver_count' \in 0..MaxDrivers
           /\ total_requests_handled' \in Nat /\ total_success_requests' \in Nat
           /\ total_revenue' \in Nat
           /\ NoRidesBeyond(drivers', driver_count')
           /\ Kept(drivers', total_requests_handled', total_success_requests',
                   total_revenue', 0, restarts + 1)
<1>1. restarts \in Nat
  BY RestartAssumption DEF RInv, Life
<1>2. ASSUME Load
      PROVE  /\ drivers' \in [Slot -> Driver] /\ driver_count' \in 0..MaxDrivers
             /\ total_requests_handled' \in Nat /\ total_success_requests' \in Nat
             /\ total_revenue' \in Nat
             /\ \A i \in Slot : drivers'[i].rides_count = saved.drivers[i].rides_count
             /\ saved # NoFile /\ driver_count' = saved.driver_count
             /\ total_requests_handled' = saved.handled
             /\ total_success_requests' = saved.success
             /\ total_revenue' = saved.revenue
  <2>1. /\ saved # NoFile /\ driver_count' = saved.driver_count
        /\ total_requests_handled' = saved.handled
        /\ total_success_requests' = saved.success
        /\ total_revenue' = saved.revenue
        /\ drivers' = [i \in Slot |->
              IF i <= saved.driver_count THEN [saved.drivers[i] EXCEPT !.is_available = 1]
              ELSE saved.drivers[i]]
    BY <1>2 DEF Load
  <2>2. /\ saved.drivers \in [Slot -> Driver] /\ saved.driver_count \in 0..MaxDrivers
        /\ saved.handled \in Nat /\ saved.success \in Nat /\ saved.revenue \in Nat
    BY <2>1 DEF RInv, SavedTyped
  <2>3. ASSUME NEW d \in Driver
        PROVE  /\ [d EXCEPT !.is_available = 1] \in Driver
               /\ [d EXCEPT !.is_available = 1].rides_count = d.rides_count
    BY FlagsTyped DEF Driver
  <2>4. ASSUME NEW i \in Slot
        PROVE  drivers'[i] \in Driver /\ drivers'[i].rides_count = saved.drivers[i].rides_count
    BY <2>1, <2>2, <2>3
  <2>5. drivers' \in [Slot -> Driver]
    BY <2>1, <2>4
  <2> QED
    BY <2>1, <2>2, <2>4, <2>5
<1>3. CASE Load
  <2>1. NoRidesBeyond(drivers', driver_count')
    BY <1>2, <1>3 DEF RInv, Copied, NoRidesBeyond
  <2>2. Kept(saved.drivers, saved.handled, saved.success, saved.revenue, 0, restarts + 1)
    BY <1>2, <1>3 DEF RInv, Ledger
  <2>3. Kept(drivers', saved.handled, saved.success, saved.revenue, 0, restarts + 1)
    BY <1>2, <1>3, <2>2, KeptSame
  <2> QED
    BY <1>2, <1>3, <2>1, <2>3
<1>4. CASE Blank
  <2>1. PICK p \in [1..InitialDrivers -> Place \ {Origin}] :
            drivers' = [i \in Slot |-> IF i <= InitialDrivers THEN Fresh(p[i], 0) ELSE Zeroed]
    BY <1>4 DEF Blank
  <2>2. /\ driver_count' = InitialDrivers /\ total_requests_handled' = 0
        /\ total_success_requests' = 0 /\ total_revenue' = 0
    BY <1>4 DEF Blank
  <2>3. InitialDrivers \in 0..MaxDrivers /\ MaxDrivers \in Nat
    BY ServerAssumption, SizesAssumption
  <2>4. ASSUME NEW i \in Slot
        PROVE  drivers'[i] \in Driver /\ drivers'[i].rides_count = 0
    <3>1. CASE i <= InitialDrivers
      <4>1. p[i] \in Place
        BY <2>3, <3>1 DEF Slot
      <4> QED
        BY <2>1, <3>1, <4>1, FlagsTyped, FreshSound
    <3>2. CASE ~(i <= InitialDrivers)
      BY <2>1, <3>2, FreshSound DEF Zeroed
    <3> QED
      BY <3>1, <3>2
  <2>5. drivers' \in [Slot -> Driver]
    BY <2>1, <2>4
  <2>6. Kept(drivers', 0, 0, 0, 0, restarts + 1)
    BY <1>1, <2>4, KeptNone
  <2> QED
    BY <2>2, <2>3, <2>4, <2>5, <2>6 DEF NoRidesBeyond
<1> QED
  BY <1>3, <1>4

LEMMA StartAgainKeeps ==
    ASSUME RInv, StartAgain
    PROVE  RInv'
<1>1. /\ drivers' \in [Slot -> Driver] /\ driver_count' \in 0..MaxDrivers
      /\ total_requests_handled' \in Nat /\ total_success_requests' \in Nat
      /\ total_revenue' \in Nat
      /\ NoRidesBeyond(drivers', driver_count')
      /\ Kept(drivers', total_requests_handled', total_success_requests', total_revenue',
              0, restarts + 1)
  BY StartTable DEF StartAgain
<1>2. /\ phase = "down" /\ mutex' = Free /\ scan' = 0
      /\ pc' = [w \in Worker |-> "accept"] /\ client_id' = [w \in Worker |-> 0]
      /\ best' = [w \in Worker |-> 0] /\ ride_no' = [w \in Worker |-> 0]
      /\ phase' = "running" /\ alive' = Worker /\ restarts' = restarts + 1
      /\ copied' = 0 /\ image' = drivers' /\ saved' = saved /\ requests' = requests
  BY DEF StartAgain
<1>3. MaxDrivers \in Nat /\ MaxRestarts \in Nat /\ restarts \in Nat /\ restarts < MaxRestarts
  BY <1>2, SizesAssumption, RestartAssumption DEF RInv, Life
<1>4. TypeOK'
  BY <1>1, <1>2, <1>3, ServerAssumption DEF RInv, Orderly, TypeOK
<1>5. LockInv' /\ WorkerKnows'
  BY <1>2, ServerAssumption DEF LockInv, InSection, WorkerKnows
<1>6. Life' /\ LiveLock' /\ ~Stuck'
  BY <1>1, <1>2, <1>3, ServerAssumption DEF Life, LiveLock, Stuck
<1>7. SavedTyped'
  BY <1>2 DEF RInv, SavedTyped
<1>8. Copied'
  BY <1>1, <1>2 DEF RInv, Copied
<1>9. Ledger'
  <2>1. HalfDone' = 0
    BY <1>2, ServerAssumption DEF HalfDone
  <2>2. saved # NoFile =>
           Kept(saved.drivers, saved.handled, saved.success, saved.revenue, 0, restarts + 1 + 1)
    <3>1. SUFFICES ASSUME saved # NoFile
                   PROVE  Kept(saved.drivers, saved.handled, saved.success, saved.revenue,
                               0, restarts + 1 + 1)
      OBVIOUS
    <3>2. /\ saved.handled \in Nat /\ saved.success \in Nat /\ saved.revenue \in Nat
          /\ Kept(saved.drivers, saved.handled, saved.success, saved.revenue, 0, restarts + 1)
      BY <3>1 DEF RInv, SavedTyped, Ledger
    <3>3. restarts + 1 \in Nat /\ restarts + 1 + 1 \in Nat /\ restarts + 1 <= restarts + 1 + 1
      BY <1>3
    <3> QED
      BY <3>2, <3>3, KeptMonotone
  <2> QED
    BY <1>1, <1>2, <1>6, <2>1, <2>2 DEF Ledger
<1> QED
  BY <1>4, <1>5, <1>6, <1>7, <1>8, <1>9 DEF RInv, Orderly

LEMMA NextRInv == RInv /\ [RNext]_allvars => RInv'
<1> SUFFICES ASSUME RInv, [RNext]_allvars PROVE RInv'
  OBVIOUS
<1>1. CASE UNCHANGED allvars
  <2>1. UNCHANGED vars /\ UNCHANGED <<phase, alive, image, copied, saved, restarts>>
    BY <1>1 DEF allvars, server, life
  <2>2. UNCHANGED <<drivers, driver_count, total_requests_handled, total_success_requests,
                    total_revenue, mutex, pc>>
    BY <2>1 DEF vars, totals, workers
  <2>3. Orderly'
    BY <2>1, NextOrderly DEF RInv
  <2>4. Life' /\ LiveLock' /\ SavedTyped' /\ Copied'
    BY <2>1, <2>2 DEF RInv, Life, LiveLock, Stuck, InSection, SavedTyped, Copied
  <2>5. Ledger'
    BY <2>1, <2>2 DEF RInv, Ledger, HalfDone, Stuck, Cut
  <2> QED
    BY <2>3, <2>4, <2>5 DEF RInv
<1> QED
  BY <1>1, RunningKeeps, HandlerKeeps, TerminateKeeps, SaveDriverKeeps, EndSaveKeeps,
     StartAgainKeeps DEF RNext

LEMMA SpecRInv == RSpec => []RInv
BY InitRInv, NextRInv, PTL DEF RSpec

\* Only a shutdown kills a worker that holds the mutex, it kills them all before
\* anything is written, and what is written, torn or not, and read back is a table
\* of drivers (coordinator.c:60-112, 124-136).
THEOREM LifeTyped == RSpec => []RTypeOK
<1>1. RInv => RTypeOK
  <2> SUFFICES ASSUME RInv PROVE RTypeOK
    OBVIOUS
  <2>1. copied \in 0..MaxDrivers
    BY SizesAssumption DEF RInv, Life, Orderly, TypeOK
  <2> QED
    BY <2>1 DEF RInv, Orderly, Life, Stuck, SavedTyped, RTypeOK
<1> QED
  BY <1>1, SpecRInv, PTL

\* However many workers a shutdown kills, between whichever statements, the books
\* part by the one ride it cuts: paid implies a success, a success implies handled,
\* handled implies counted by a driver, and the counters are ahead of the revenue by
\* at most a ride per shutdown (coordinator.c:129-133, ride_service.c:33-55).
THEOREM BooksSurvive == RSpec => []BooksAcrossRestart
<1>1. RInv => BooksAcrossRestart
  <2> DEFINE dead == {w \in Worker \ alive : pc[w] \in {"chosen", "booked"}}
             rides == Cardinality(RidesTaken(drivers))
  <2>1. SUFFICES ASSUME RInv, \A w \in alive : pc[w] # "booked"
                 PROVE  /\ Cardinality(dead) <= 1
                        /\ \E paid \in 0..total_success_requests :
                              /\ \E vip \in 0..paid : total_revenue = 100 * paid + 50 * vip
                              /\ total_success_requests <= total_requests_handled
                              /\ total_requests_handled <= rides
                              /\ rides <= paid + restarts + Cardinality(dead)
    BY DEF BooksAcrossRestart
  <2>2. dead = IF Stuck /\ pc[mutex] \in {"chosen", "booked"} THEN {mutex} ELSE {}
    BY <2>1 DEF RInv, Orderly, LockInv, InSection, Stuck
  <2>3. Cardinality(dead) = Cut
    BY <2>2, FS_EmptySet, FS_Singleton DEF Cut
  <2>4. Cut \in 0..1 /\ restarts \in Nat
    BY <2>1, BooksTyped
  <2>5. Kept(drivers, total_requests_handled, total_success_requests, total_revenue,
             0, restarts + Cut)
    <3>1. CASE Stuck
      BY <2>1, <3>1 DEF RInv, Ledger
    <3>2. CASE ~Stuck
      <4>1. HalfDone = 0
        BY <2>1, <3>2 DEF HalfDone, Stuck, RInv, Life
      <4>2. Cut = 0 /\ restarts + 0 = restarts
        BY <2>4, <3>2 DEF Cut
      <4> QED
        BY <2>1, <3>2, <4>1, <4>2 DEF RInv, Ledger
    <3> QED
      BY <3>1, <3>2
  <2>6. rides \in Nat /\ total_requests_handled \in Nat /\ total_success_requests \in Nat
    BY <2>1, <2>5, FS_CardinalityType, BooksTyped DEF Kept
  <2>7. PICK paid \in 0..total_success_requests :
           /\ Paid(paid, total_revenue)
           /\ total_success_requests <= total_requests_handled
           /\ total_requests_handled + 0 <= rides /\ rides <= paid + 0 + (restarts + Cut)
    BY <2>5 DEF Kept
  <2> HIDE DEF dead, rides
  <2>8. total_requests_handled <= rides /\ rides <= paid + restarts + Cut /\ Cut <= 1
    BY <2>4, <2>6, <2>7
  <2> QED
    BY <2>3, <2>7, <2>8 DEF Paid
<1> QED
  BY <1>1, SpecRInv, PTL

=============================================================================
