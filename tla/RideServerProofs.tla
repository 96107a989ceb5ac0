-------------------------- MODULE RideServerProofs ---------------------------
(***************************************************************************)
(* Theorems about RideServer for any number of workers, drivers, places,   *)
(* clients and requests.  The invariants are proved in the order in which  *)
(* they lean on one another: the types, the mutex, the driver table, the   *)
(* pick of a worker, the rides that have been confirmed, and the books.    *)
(***************************************************************************)
EXTENDS RideServer, FiniteSetTheorems, TLAPS

-----------------------------------------------------------------------------
(***************************************************************************)
(* A single driver record.  Each step of a monitor tick, and their         *)
(* composition, keeps it well typed, keeps its ride counter and never      *)
(* starts a ride, whatever state the record is in; and it keeps a sound    *)
(* record sound.                                                           *)
(***************************************************************************)
Sound(d) == OneStatus(d) /\ TankSound(d)

\* What all five steps have in common: a record with the same number of rides,
\* on a ride only if it was on one before.
Follows(d, e) ==
    /\ e \in Driver
    /\ e.rides_count = d.rides_count
    /\ e.has_target = 1 => d.has_target = 1

\* And a sound one, if they start from a sound one.
Keeps(d, e) == Follows(d, e) /\ Sound(e)

\* The values the code assigns to flags, and the two places it names.
LEMMA FlagsTyped == 0 \in Flag /\ 1 \in Flag
BY DEF Flag

LEMMA PlacesTyped == Base \in Place /\ Origin \in Place
BY PlaceAssumption

\* Step 1, map_monitor.c:43-46.
LEMMA RespawnFollows ==
    ASSUME NEW d \in Driver
    PROVE  Follows(d, Respawn(d))
<1>1. Respawn(d) \in Driver
  <2>1. [d EXCEPT !.place = Base, !.has_target = 0, !.is_available = 1,
                  !.is_refueling = 0] \in Driver
    BY FlagsTyped, PlacesTyped DEF Driver
  <2> QED
    BY <2>1 DEF Respawn
<1>2. Respawn(d).rides_count = d.rides_count
  BY DEF Respawn, Driver, Flag
<1>3. Respawn(d).has_target = 1 => d.has_target = 1
  BY DEF Respawn, Driver, Flag
<1> QED
  BY <1>1, <1>2, <1>3 DEF Follows

LEMMA RespawnKeeps ==
    ASSUME NEW d \in Driver, Sound(d)
    PROVE  Keeps(d, Respawn(d))
<1>1. Follows(d, Respawn(d))
  BY RespawnFollows
<1>2. OneStatus(Respawn(d))
  BY DEF Respawn, Driver, Flag, OneStatus, Sound
<1>3. TankSound(Respawn(d))
  BY SizesAssumption DEF Respawn, Driver, Flag, OneStatus, Sound, TankSound
<1> QED
  BY <1>1, <1>2, <1>3 DEF Keeps, Sound

\* Step 2, map_monitor.c:49-73.
LEMMA NavigateFollows ==
    ASSUME NEW d \in Driver, NEW luck \in BOOLEAN, NEW burn \in BOOLEAN
    PROVE  Follows(d, Navigate(d, luck, burn))
<1> DEFINE left == IF burn /\ d.fuel > 0 THEN d.fuel - 1 ELSE d.fuel
<1>1. Navigate(d, luck, burn) \in Driver
  <2>1. left \in Int
    BY DEF Driver
  <2>2. [d EXCEPT !.fuel = left] \in Driver
    BY <2>1 DEF Driver
  <2>3. [d EXCEPT !.has_target = 0, !.is_available = 1, !.is_refueling = 0,
                  !.place = d.target, !.fuel = left] \in Driver
    <3>1. d.target \in Place
      BY DEF Driver
    <3> QED
      BY <2>1, <3>1, FlagsTyped DEF Driver
  <2> QED
    BY <2>2, <2>3 DEF Navigate
<1>2. Navigate(d, luck, burn).rides_count = d.rides_count
  BY DEF Navigate, Driver, Flag
<1>3. Navigate(d, luck, burn).has_target = 1 => d.has_target = 1
  BY DEF Navigate, Driver, Flag
<1> QED
  BY <1>1, <1>2, <1>3 DEF Follows

LEMMA NavigateKeeps ==
    ASSUME NEW d \in Driver, Sound(d), NEW luck \in BOOLEAN, NEW burn \in BOOLEAN
    PROVE  Keeps(d, Navigate(d, luck, burn))
<1>1. Follows(d, Navigate(d, luck, burn))
  BY NavigateFollows
<1>2. OneStatus(Navigate(d, luck, burn))
  BY DEF Navigate, Driver, Flag, OneStatus, Sound
<1>3. TankSound(Navigate(d, luck, burn))
  BY SizesAssumption DEF Navigate, Driver, Flag, OneStatus, Sound, TankSound
<1> QED
  BY <1>1, <1>2, <1>3 DEF Keeps, Sound

\* Step 3, first half, map_monitor.c:77-81.
LEMMA GoRefuelFollows ==
    ASSUME NEW d \in Driver
    PROVE  Follows(d, GoRefuel(d))
<1>1. GoRefuel(d) \in Driver
  BY DEF GoRefuel, Driver, Flag
<1>2. GoRefuel(d).rides_count = d.rides_count
  BY DEF GoRefuel, Driver, Flag
<1>3. GoRefuel(d).has_target = 1 => d.has_target = 1
  BY DEF GoRefuel, Driver, Flag
<1> QED
  BY <1>1, <1>2, <1>3 DEF Follows

LEMMA GoRefuelKeeps ==
    ASSUME NEW d \in Driver, Sound(d)
    PROVE  Keeps(d, GoRefuel(d))
<1>1. Follows(d, GoRefuel(d))
  BY GoRefuelFollows
<1>2. OneStatus(GoRefuel(d))
  BY DEF GoRefuel, Driver, Flag, OneStatus, Sound
<1>3. TankSound(GoRefuel(d))
  BY SizesAssumption DEF GoRefuel, Driver, Flag, OneStatus, Sound, TankSound
<1> QED
  BY <1>1, <1>2, <1>3 DEF Keeps, Sound

\* Step 3, second half, map_monitor.c:83-89.  Here the even tank matters.
LEMMA PumpFollows ==
    ASSUME NEW d \in Driver
    PROVE  Follows(d, Pump(d))
<1>1. Pump(d) \in Driver
  <2>1. d.fuel + 2 \in Int
    BY DEF Driver
  <2>2. [d EXCEPT !.fuel = @ + 2] \in Driver
    BY <2>1 DEF Driver
  <2>3. [d EXCEPT !.is_refueling = 0, !.is_available = 1] \in Driver
    BY FlagsTyped DEF Driver
  <2> QED
    BY <2>2, <2>3 DEF Pump
<1>2. Pump(d).rides_count = d.rides_count
  BY DEF Pump, Driver, Flag
<1>3. Pump(d).has_target = 1 => d.has_target = 1
  BY DEF Pump, Driver, Flag
<1> QED
  BY <1>1, <1>2, <1>3 DEF Follows

LEMMA PumpKeeps ==
    ASSUME NEW d \in Driver, Sound(d)
    PROVE  Keeps(d, Pump(d))
<1>1. Follows(d, Pump(d))
  BY PumpFollows
<1>2. OneStatus(Pump(d))
  BY DEF Pump, Driver, Flag, OneStatus, Sound
<1>3. TankSound(Pump(d))
  BY SizesAssumption DEF Pump, Driver, Flag, OneStatus, Sound, TankSound
<1> QED
  BY <1>1, <1>2, <1>3 DEF Keeps, Sound

\* Step 4, map_monitor.c:93-95.
LEMMA ClearZombieFollows == ASSUME NEW d \in Driver PROVE Follows(d, ClearZombie(d))
<1>1. [d EXCEPT !.is_available = 1] \in Driver
  BY FlagsTyped DEF Driver
<1> QED
  BY <1>1 DEF Follows, ClearZombie, Driver

\* A sound record is never a zombie to clear.
LEMMA NoZombie ==
    ASSUME NEW d \in Driver, Sound(d)
    PROVE  ClearZombie(d) = d
BY DEF ClearZombie, Zombie, Sound, OneStatus, Driver, Flag

\* Step 5, map_monitor.c:98-120.
LEMMA MoveFollows ==
    ASSUME NEW d \in Driver, NEW stuck \in BOOLEAN, NEW next \in Place
    PROVE  Follows(d, Move(d, stuck, next))
<1>1. Move(d, stuck, next) \in Driver
  BY DEF Move, Driver, Flag
<1>2. Move(d, stuck, next).rides_count = d.rides_count
  BY DEF Move, Driver, Flag
<1>3. Move(d, stuck, next).has_target = 1 => d.has_target = 1
  BY DEF Move, Driver, Flag
<1> QED
  BY <1>1, <1>2, <1>3 DEF Follows

LEMMA MoveKeeps ==
    ASSUME NEW d \in Driver, Sound(d), NEW stuck \in BOOLEAN, NEW next \in Place
    PROVE  Keeps(d, Move(d, stuck, next))
<1>1. Follows(d, Move(d, stuck, next))
  BY MoveFollows
<1>2. OneStatus(Move(d, stuck, next))
  BY DEF Move, Driver, Flag, OneStatus, Sound
<1>3. TankSound(Move(d, stuck, next))
  BY SizesAssumption DEF Move, Driver, Flag, OneStatus, Sound, TankSound
<1> QED
  BY <1>1, <1>2, <1>3 DEF Keeps, Sound

\* A whole tick, and what the record may be in the middle of it.
LEMMA TickFollows ==
    ASSUME NEW d \in Driver, NEW luck \in BOOLEAN, NEW burn \in BOOLEAN,
           NEW stuck \in BOOLEAN, NEW next \in Place
    PROVE  LET a == Respawn(d)
               b == Navigate(a, luck, burn)
               c == GoRefuel(b)
               e == Pump(c)
               f == ClearZombie(e)
           IN  /\ Follows(d, a) /\ Follows(d, b) /\ Follows(d, c)
               /\ Follows(d, e) /\ Follows(d, f)
               /\ Follows(d, Move(f, stuck, next))
               /\ Tick(d, luck, burn, stuck, next) = Move(f, stuck, next)
<1> DEFINE a == Respawn(d)
           b == Navigate(a, luck, burn)
           c == GoRefuel(b)
           e == Pump(c)
           f == ClearZombie(e)
<1>1. Follows(d, a)
  BY RespawnFollows
<1>2. Follows(a, b)
  BY <1>1, NavigateFollows DEF Follows
<1>3. Follows(b, c)
  BY <1>2, GoRefuelFollows DEF Follows
<1>4. Follows(c, e)
  BY <1>3, PumpFollows DEF Follows
<1>5. Follows(e, f)
  BY <1>4, ClearZombieFollows DEF Follows
<1>6. Follows(f, Move(f, stuck, next))
  BY <1>5, MoveFollows DEF Follows
<1>7. Tick(d, luck, burn, stuck, next) = Move(f, stuck, next)
  BY DEF Tick, BeforeMove
<1> HIDE DEF a, b, c, e, f
<1>8. /\ Follows(d, a) /\ Follows(d, b) /\ Follows(d, c) /\ Follows(d, e) /\ Follows(d, f)
      /\ Follows(d, Move(f, stuck, next))
  BY <1>1, <1>2, <1>3, <1>4, <1>5, <1>6 DEF Follows
<1> QED
  BY <1>7, <1>8 DEF a, b, c, e, f

LEMMA TickKeeps ==
    ASSUME NEW d \in Driver, Sound(d), NEW luck \in BOOLEAN, NEW burn \in BOOLEAN,
           NEW stuck \in BOOLEAN, NEW next \in Place
    PROVE  Keeps(d, Tick(d, luck, burn, stuck, next))
<1> DEFINE d1 == Respawn(d)
           d2 == Navigate(d1, luck, burn)
           d3 == GoRefuel(d2)
           d4 == Pump(d3)
           d5 == ClearZombie(d4)
<1> USE DEF Follows
<1>1. Keeps(d, d1)
  BY RespawnKeeps
<1>2. Keeps(d1, d2)
  BY <1>1, NavigateKeeps DEF Keeps
<1>3. Keeps(d2, d3)
  BY <1>2, GoRefuelKeeps DEF Keeps
<1>4. Keeps(d3, d4)
  BY <1>3, PumpKeeps DEF Keeps
<1>5. d5 = d4
  BY <1>4, NoZombie DEF Keeps
<1>6. Keeps(d5, Move(d5, stuck, next))
  BY <1>4, <1>5, MoveKeeps DEF Keeps
<1>7. Keeps(d, d4)
  BY <1>1, <1>2, <1>3, <1>4 DEF Keeps
<1>8. Keeps(d, Move(d5, stuck, next))
  BY <1>5, <1>6, <1>7 DEF Keeps
<1> QED
  BY <1>8 DEF Tick, BeforeMove

\* Booking a driver, ride_service.c:34-46, and joining a slot, coordinator.c:205-208,
\* whatever the record was.
LEMMA BookedTyped ==
    ASSUME NEW d \in Driver, NEW t \in Place
    PROVE  /\ Booked(d, t) \in Driver
           /\ Booked(d, t).rides_count = d.rides_count + 1
<1>1. d.fuel - 1 \in Int /\ d.rides_count + 1 \in Nat
  BY DEF Driver
<1>2. [d EXCEPT !.is_available = 0, !.rides_count = @ + 1, !.fuel = @ - 1,
                !.has_target = 1, !.target = t] \in Driver
  BY <1>1, FlagsTyped DEF Driver
<1> QED
  BY <1>2 DEF Booked, Driver

LEMMA JoinedTyped ==
    ASSUME NEW d \in Driver
    PROVE  Joined(d) \in Driver /\ Joined(d).rides_count = d.rides_count
<1>1. TankFull \in Int
  BY SizesAssumption
<1>2. [d EXCEPT !.is_available = 1, !.fuel = TankFull] \in Driver
  BY <1>1, FlagsTyped DEF Driver
<1> QED
  BY <1>2 DEF Joined, Driver

\* An eligible one, soundly.
LEMMA BookedSound ==
    ASSUME NEW d \in Driver, Sound(d), Eligible(d), NEW t \in Place
    PROVE  /\ Booked(d, t) \in Driver
           /\ Sound(Booked(d, t))
           /\ Booked(d, t).rides_count = d.rides_count + 1
           /\ Booked(d, t).is_available = 0
           /\ Booked(d, t).is_refueling = 0
<1>1. Booked(d, t) \in Driver
  BY BookedTyped
<1>2. OneStatus(Booked(d, t))
  BY DEF Booked, Eligible, Driver, Flag, OneStatus
<1>3. TankSound(Booked(d, t))
  BY SizesAssumption DEF Booked, Eligible, Driver, Flag, Sound, OneStatus, TankSound
<1>4. /\ Booked(d, t).rides_count = d.rides_count + 1
      /\ Booked(d, t).is_available = 0
      /\ Booked(d, t).is_refueling = 0
  BY DEF Booked, Eligible, Driver
<1> QED
  BY <1>1, <1>2, <1>3, <1>4 DEF Sound

\* The records the table starts from, server_main.c and coordinator.c:205-208.
LEMMA FreshSound ==
    /\ Zeroed \in Driver
    /\ \A p \in Place, t \in Flag : Fresh(p, t) \in Driver /\ Sound(Fresh(p, t))
    /\ \A p \in Place, t \in Flag : Fresh(p, t).rides_count = 0
    /\ Joined(Zeroed) \in Driver /\ Sound(Joined(Zeroed))
    /\ Joined(Zeroed).rides_count = 0 /\ Joined(Zeroed).is_available = 1
<1>1. Zeroed \in Driver
  BY PlacesTyped DEF Zeroed, Driver, Flag
<1>2. TankFull \in Int /\ TankFull \in 0..TankFull
  BY SizesAssumption
<1>3. ASSUME NEW p \in Place, NEW t \in Flag
      PROVE  /\ Fresh(p, t) \in Driver /\ Sound(Fresh(p, t))
             /\ Fresh(p, t).rides_count = 0
  <2>1. Fresh(p, t) = [Zeroed EXCEPT !.is_available = 1, !.fuel = TankFull,
                                     !.place = p, !.top = t]
    BY DEF Fresh
  <2>2. Fresh(p, t) \in Driver
    BY <1>1, <1>2, <2>1, FlagsTyped DEF Driver
  <2>3. OneStatus(Fresh(p, t)) /\ Fresh(p, t).rides_count = 0
    BY <2>1 DEF Zeroed, OneStatus
  <2>4. TankSound(Fresh(p, t))
    BY <2>1, <1>2 DEF Zeroed, TankSound
  <2> QED
    BY <2>1, <2>2, <2>3, <2>4 DEF Sound
<1>4. /\ Joined(Zeroed) \in Driver /\ Sound(Joined(Zeroed))
      /\ Joined(Zeroed).rides_count = 0 /\ Joined(Zeroed).is_available = 1
  <2>1. Joined(Zeroed) = [Zeroed EXCEPT !.is_available = 1, !.fuel = TankFull]
    BY DEF Joined
  <2>2. Joined(Zeroed) \in Driver
    BY <1>1, <1>2, <2>1, FlagsTyped DEF Driver
  <2>3. /\ OneStatus(Joined(Zeroed))
        /\ Joined(Zeroed).rides_count = 0 /\ Joined(Zeroed).is_available = 1
    BY DEF Joined, Zeroed, OneStatus
  <2>4. TankSound(Joined(Zeroed))
    BY <1>2 DEF Joined, Zeroed, TankSound
  <2> QED
    BY <2>1, <2>2, <2>3, <2>4 DEF Sound
<1> QED
  BY <1>1, <1>3, <1>4

\* A search answers with one of the eligible drivers, dispatch_algorithms.c:14-55.
LEMMA FindEligible ==
    ASSUME NEW mode, NEW dr, NEW n \in Nat, NEW vip \in BOOLEAN,
           NEW i \in Find(mode, dr, n, vip)
    PROVE  i \in 1..n /\ Eligible(dr[i])
BY DEF Find, FindBasic, FindSmart, Nearest, EligibleSlots

-----------------------------------------------------------------------------
(***************************************************************************)
(* The mutex.                                                              *)
(***************************************************************************)
InSection(w) == pc[w] \in {"chosen", "nodriver", "booked"}

\* A worker inside its critical section holds the mutex.  The converse holds of the
\* server alone, but not of a worker killed while a driver joins (RestartProofs).
LockInv == \A w \in Worker : InSection(w) => mutex = w

\* A worker that searches or books knows for whom, and one that has found a
\* driver remembers a driver of the table.
WorkerKnows ==
    \A w \in Worker :
        /\ pc[w] \in {"ask", "chosen", "nodriver", "booked"} => client_id[w] \in Client
        /\ pc[w] \in {"chosen", "booked"} => best[w] \in 1..driver_count

\* What holds whatever the driver records look like.
Orderly == TypeOK /\ LockInv /\ WorkerKnows

(***************************************************************************)
(* The driver table.                                                       *)
(***************************************************************************)
SlotsZeroed == \A i \in Slot : i > driver_count => drivers[i] = Zeroed

TableSound == \A i \in 1..driver_count : Sound(drivers[i])

IInv == Orderly /\ SlotsZeroed /\ TableSound /\ PickStillBest

\* Whatever a search returns is a slot of the table, and that driver is eligible.
LEMMA FoundEligible ==
    ASSUME TypeOK, NEW w \in Worker,
           NEW i \in Find(DispatchMode, drivers, driver_count, IsVip(client_id[w]))
    PROVE  i \in 1..driver_count /\ Eligible(drivers[i])
<1>1. driver_count \in Nat /\ IsVip(client_id[w]) \in BOOLEAN
  BY SizesAssumption DEF TypeOK, IsVip
<1> QED
  BY <1>1, FindEligible

\* Fares are computed from numbers.
LEMMA ClientTyped == TypeOK => \A w \in Worker : client_id[w] \in Nat
<1>1. \A c \in Client \cup {0} : c \in Nat
  BY ServerAssumption
<1>2. TypeOK => \A w \in Worker : client_id[w] \in Client \cup {0}
  BY DEF TypeOK
<1> QED
  BY <1>1, <1>2

LEMMA InitIInv == Init => IInv
<1> SUFFICES ASSUME Init PROVE IInv
  OBVIOUS
<1> USE DEF Init
<1>1. InitialDrivers \in 0..MaxDrivers /\ MaxDrivers \in Nat /\ MaxRequests \in Nat
  BY SizesAssumption, ServerAssumption
<1>2. PICK p \in [1..InitialDrivers -> Place \ {Origin}], t \in [1..InitialDrivers -> Flag] :
          drivers = [i \in Slot |-> IF i <= InitialDrivers THEN Fresh(p[i], t[i]) ELSE Zeroed]
  OBVIOUS
<1>3. ASSUME NEW i \in Slot
      PROVE  /\ drivers[i] \in Driver
             /\ i <= driver_count => Sound(drivers[i])
             /\ i > driver_count => drivers[i] = Zeroed
  <2>1. CASE i <= InitialDrivers
    <3>1. p[i] \in Place /\ t[i] \in Flag
      BY <2>1, <1>1 DEF Slot
    <3>2. drivers[i] = Fresh(p[i], t[i])
      BY <1>2, <2>1
    <3> QED
      BY <2>1, <3>1, <3>2, <1>1, FreshSound DEF Slot
  <2>2. CASE ~(i <= InitialDrivers)
    BY <1>2, <2>2, FreshSound
  <2> QED
    BY <2>1, <2>2
<1>4. drivers \in [Slot -> Driver]
  BY <1>2, <1>3
<1>5. TypeOK
  BY <1>1, <1>4, ServerAssumption DEF TypeOK
<1>6. SlotsZeroed /\ TableSound
  BY <1>1, <1>3 DEF SlotsZeroed, TableSound, Slot
<1>7. LockInv /\ WorkerKnows /\ PickStillBest
  BY ServerAssumption DEF LockInv, InSection, WorkerKnows, PickStillBest
<1> QED
  BY <1>5, <1>6, <1>7 DEF IInv, Orderly

\* Nobody starts with a ride, server_main.c:120-142.
LEMMA InitCounters == Init => \A i \in Slot : drivers[i].rides_count = 0
<1> SUFFICES ASSUME Init, NEW i \in Slot PROVE drivers[i].rides_count = 0
  OBVIOUS
<1>1. PICK p \in [1..InitialDrivers -> Place \ {Origin}], t \in [1..InitialDrivers -> Flag] :
          drivers = [j \in Slot |-> IF j <= InitialDrivers THEN Fresh(p[j], t[j]) ELSE Zeroed]
  BY DEF Init
<1> QED
  BY <1>1 DEF Fresh, Zeroed

-----------------------------------------------------------------------------
(***************************************************************************)
(* One lemma per action: it keeps the types, the mutex and what a worker   *)
(* knows, and at most an assignment moves a ride counter.  None of this    *)
(* needs sound records.                                                    *)
(***************************************************************************)
SameCounters == \A i \in Slot : drivers'[i].rides_count = drivers[i].rides_count

LEMMA TableSlots == ASSUME Orderly PROVE driver_count \in Nat /\ 1..driver_count \subseteq Slot
BY SizesAssumption DEF Orderly, TypeOK, Slot

\* dispatcher.c:65-70.
LEMMA AcceptOrderly ==
    ASSUME Orderly, NEW w \in Worker, Accept(w)
    PROVE  Orderly'
<1> USE DEF Orderly, Accept, table, totals
<1>1. TypeOK'
  BY ServerAssumption DEF TypeOK
<1>2. LockInv'
  BY DEF LockInv, InSection, TypeOK
<1>3. WorkerKnows'
  BY DEF WorkerKnows, TypeOK
<1> QED
  BY <1>1, <1>2, <1>3

\* ride_service.c:17-30.
LEMMA ChooseOrderly ==
    ASSUME Orderly, NEW w \in Worker, Choose(w)
    PROVE  Orderly'
<1> USE DEF Orderly, Choose, table, totals
<1>1. \/ /\ pc' = [pc EXCEPT ![w] = "nodriver"]
         /\ best' = best
      \/ \E i \in 1..driver_count :
            /\ pc' = [pc EXCEPT ![w] = "chosen"]
            /\ best' = [best EXCEPT ![w] = i]
  BY FoundEligible
<1>2. TypeOK'
  BY <1>1, ServerAssumption, SizesAssumption DEF TypeOK
<1>3. LockInv'
  BY <1>1, ServerAssumption DEF LockInv, InSection, TypeOK
<1>4. WorkerKnows'
  BY <1>1 DEF WorkerKnows, TypeOK
<1> QED
  BY <1>2, <1>3, <1>4

\* ride_service.c:70.
LEMMA NoDriverOrderly ==
    ASSUME Orderly, NEW w \in Worker, NoDriver(w)
    PROVE  Orderly'
<1> USE DEF Orderly, NoDriver, table, totals
<1>1. TypeOK'
  BY ServerAssumption DEF TypeOK, LockInv, InSection
<1>2. LockInv'
  BY ServerAssumption DEF LockInv, InSection, TypeOK
<1>3. WorkerKnows'
  BY DEF WorkerKnows, TypeOK
<1> QED
  BY <1>1, <1>2, <1>3

\* ride_service.c:31-46.  An assignment adds one ride to the driver assigned, and
\* to no other.
LEMMA AssignOrderly ==
    ASSUME Orderly, NEW w \in Worker, Assign(w)
    PROVE  /\ Orderly'
           /\ best[w] \in 1..driver_count /\ best[w] \in Slot
           /\ \A i \in Slot : drivers'[i].rides_count =
                  IF i = best[w] THEN drivers[i].rides_count + 1
                                 ELSE drivers[i].rides_count
<1> DEFINE b == best[w]
<1>1. b \in 1..driver_count /\ b \in Slot /\ drivers \in [Slot -> Driver]
  BY TableSlots DEF Orderly, WorkerKnows, Assign, TypeOK
<1>2. PICK t \in Place : drivers' = [drivers EXCEPT ![b] = Booked(drivers[b], t)]
  BY DEF Assign
<1>3. /\ Booked(drivers[b], t) \in Driver
      /\ Booked(drivers[b], t).rides_count = drivers[b].rides_count + 1
  BY <1>1, BookedTyped
<1> HIDE DEF b
<1>4. TypeOK'
  BY <1>2, <1>3 DEF Orderly, Assign, totals, TypeOK
<1>5. LockInv'
  BY DEF Orderly, Assign, LockInv, InSection, TypeOK
<1>6. WorkerKnows'
  BY DEF Orderly, Assign, WorkerKnows, TypeOK
<1>7. \A i \in Slot : drivers'[i].rides_count =
          IF i = b THEN drivers[i].rides_count + 1 ELSE drivers[i].rides_count
  BY <1>1, <1>2, <1>3
<1> QED
  BY <1>1, <1>4, <1>5, <1>6, <1>7 DEF b, Orderly

\* ride_service.c:49-57.
LEMMA CommitOrderly ==
    ASSUME Orderly, NEW w \in Worker, Commit(w)
    PROVE  Orderly'
<1> USE DEF Orderly, Commit, table
<1>1. best[w] \in Slot
  BY TableSlots DEF WorkerKnows
<1>2. drivers[best[w]].rides_count \in Nat
  BY <1>1 DEF TypeOK, Driver
<1>3. client_id[w] \in Nat
  BY ClientTyped
<1>4. Fare(client_id[w]) \in Nat
  BY <1>3 DEF Fare
<1>5. TypeOK'
  <2>1. /\ total_requests_handled' \in Nat
        /\ total_success_requests' \in Nat
        /\ total_revenue' \in Nat
    BY <1>4 DEF TypeOK
  <2>2. ride_no' \in [Worker -> Nat]
    BY <1>2 DEF TypeOK
  <2>3. pc' \in [Worker -> {"accept", "ask", "join", "chosen", "nodriver", "booked", "reply"}]
    BY DEF TypeOK
  <2> QED
    BY <2>1, <2>2, <2>3, ServerAssumption DEF TypeOK, LockInv, InSection
<1>6. LockInv'
  BY ServerAssumption DEF LockInv, InSection, TypeOK
<1>7. WorkerKnows'
  BY DEF WorkerKnows, TypeOK
<1> QED
  BY <1>5, <1>6, <1>7

\* coordinator.c:203-210.  A driver joins with the rides of its slot.
LEMMA DriverJoinOrderly ==
    ASSUME Orderly, NEW w \in Worker, DriverJoin(w)
    PROVE  Orderly' /\ SameCounters /\ driver_count <= driver_count'
<1>1. /\ driver_count \in Nat /\ drivers \in [Slot -> Driver]
      /\ driver_count \in 0..MaxDrivers /\ MaxDrivers \in Nat
  BY TableSlots, SizesAssumption DEF Orderly, TypeOK
<1>2. /\ drivers' \in [Slot -> Driver] /\ driver_count' \in 0..MaxDrivers
      /\ SameCounters /\ driver_count <= driver_count'
  <2>1. CASE UNCHANGED table
    BY <1>1, <2>1 DEF table, SameCounters
  <2>2. CASE /\ driver_count < MaxDrivers
             /\ driver_count' = driver_count + 1
             /\ drivers' = [drivers EXCEPT ![driver_count + 1] = Joined(@)]
    <3>1. driver_count + 1 \in Slot
      BY <1>1, <2>2 DEF Slot
    <3>2. /\ Joined(drivers[driver_count + 1]) \in Driver
          /\ Joined(drivers[driver_count + 1]).rides_count = drivers[driver_count + 1].rides_count
      BY <1>1, <3>1, JoinedTyped
    <3> QED
      BY <1>1, <2>2, <3>1, <3>2 DEF SameCounters
  <2> QED
    BY <2>1, <2>2 DEF DriverJoin
<1>3. TypeOK'
  BY <1>2 DEF Orderly, DriverJoin, totals, TypeOK
<1>4. LockInv'
  BY ServerAssumption DEF Orderly, DriverJoin, LockInv, InSection, TypeOK
<1>5. WorkerKnows'
  <2>1. 1..driver_count \subseteq 1..driver_count'
    BY <1>1, <1>2
  <2> QED
    BY <2>1 DEF Orderly, DriverJoin, WorkerKnows, TypeOK
<1> QED
  BY <1>2, <1>3, <1>4, <1>5 DEF Orderly

\* dispatcher.c:99-100, 71.
LEMMA ReplyOrderly ==
    ASSUME Orderly, NEW w \in Worker, Reply(w)
    PROVE  Orderly'
<1> USE DEF Orderly, Reply, table, totals
<1>1. TypeOK'
  BY ServerAssumption, SizesAssumption DEF TypeOK
<1>2. LockInv'
  BY DEF LockInv, InSection, TypeOK
<1>3. WorkerKnows'
  BY DEF WorkerKnows, TypeOK
<1> QED
  BY <1>1, <1>2, <1>3

\* map_monitor.c:34 and 122.
LEMMA TickEdgeOrderly ==
    ASSUME Orderly, TickBegin \/ TickEnd
    PROVE  Orderly'
<1> USE DEF Orderly, TickBegin, TickEnd, table, totals, workers
<1>1. TypeOK'
  BY ServerAssumption, SizesAssumption DEF TypeOK
<1>2. LockInv'
  BY ServerAssumption DEF LockInv, InSection, TypeOK
<1>3. WorkerKnows'
  BY DEF WorkerKnows, TypeOK
<1> QED
  BY <1>1, <1>2, <1>3

\* map_monitor.c:36-121.  The index points at a driver of the table; its share of
\* the tick counts no rides.
LEMMA TickDriverOrderly ==
    ASSUME Orderly, TickDriver
    PROVE  /\ Orderly' /\ SameCounters
           /\ scan \in 1..driver_count /\ scan \in Slot
           /\ \E luck, burn, stuck \in BOOLEAN, next \in Place :
                 drivers' = [drivers EXCEPT ![scan] = Tick(drivers[scan], luck, burn, stuck, next)]
<1>1. scan \in 1..driver_count /\ scan \in Slot
  BY SizesAssumption, ServerAssumption DEF Orderly, TypeOK, TickDriver, TickDriverWith, Slot
<1>2. PICK luck, burn, stuck \in BOOLEAN, next \in Place :
          drivers' = [drivers EXCEPT ![scan] = Tick(drivers[scan], luck, burn, stuck, next)]
  BY DEF TickDriver, TickDriverWith
<1>3. drivers \in [Slot -> Driver]
  BY DEF Orderly, TypeOK
<1> DEFINE d == Tick(drivers[scan], luck, burn, stuck, next)
<1>4. Follows(drivers[scan], d)
  BY <1>1, <1>3, TickFollows
<1> HIDE DEF d
<1>5. drivers' \in [Slot -> Driver] /\ SameCounters
  BY <1>1, <1>2, <1>3, <1>4 DEF Follows, SameCounters, d
<1>6. TypeOK'
  BY <1>1, <1>5, SizesAssumption
  DEF Orderly, TypeOK, TickDriver, TickDriverWith, totals, workers
<1>7. LockInv' /\ WorkerKnows'
  BY DEF Orderly, TickDriver, TickDriverWith, workers, LockInv, InSection, WorkerKnows
<1> QED
  BY <1>1, <1>2, <1>5, <1>6, <1>7 DEF Orderly

LEMMA StutterOrderly == ASSUME Orderly, UNCHANGED vars PROVE Orderly' /\ SameCounters
BY DEF Orderly, vars, totals, workers, TypeOK, LockInv, InSection, WorkerKnows, SameCounters

LEMMA NextOrderly == Orderly /\ [Next]_vars => Orderly'
<1> SUFFICES ASSUME Orderly, [Next]_vars PROVE Orderly'
  OBVIOUS
<1>1. CASE MonitorStep
  BY <1>1, TickEdgeOrderly, TickDriverOrderly DEF MonitorStep
<1>2. CASE \E w \in Worker : WorkerStep(w)
  BY <1>2, AcceptOrderly, ChooseOrderly, NoDriverOrderly, AssignOrderly, CommitOrderly,
     DriverJoinOrderly, ReplyOrderly DEF WorkerStep
<1> QED
  BY <1>1, <1>2, StutterOrderly DEF Next

-----------------------------------------------------------------------------
(***************************************************************************)
(* One lemma per action: it keeps IInv.                                    *)
(***************************************************************************)
LEMMA OrderlyKeeps == IInv /\ [Next]_vars => Orderly'
BY NextOrderly DEF IInv

\* Steps that leave the table alone: only the worker that chooses has a pick to
\* answer for.
LEMMA SameTableKeeps ==
    ASSUME IInv, Orderly', UNCHANGED table,
           \A w \in Worker : pc'[w] = "chosen" =>
               best'[w] \in Find(DispatchMode, drivers, driver_count, IsVip(client_id'[w]))
    PROVE  IInv'
BY DEF IInv, table, SlotsZeroed, TableSound, PickStillBest

\* dispatcher.c:65-71, ride_service.c:17-30 and 49-70, map_monitor.c:34 and 122.
LEMMA QuietKeeps ==
    ASSUME IInv, Orderly',
           \/ \E w \in Worker : Accept(w) \/ Choose(w) \/ NoDriver(w) \/ Commit(w) \/ Reply(w)
           \/ TickBegin \/ TickEnd
    PROVE  IInv'
<1>1. /\ pc \in [Worker -> {"accept", "ask", "join", "chosen", "nodriver", "booked", "reply"}]
      /\ client_id \in [Worker -> Client \cup {0}] /\ best \in [Worker -> 0..MaxDrivers]
  BY DEF IInv, Orderly, TypeOK
<1>2. \A v \in Worker : pc[v] = "chosen" =>
          best[v] \in Find(DispatchMode, drivers, driver_count, IsVip(client_id[v]))
  BY DEF IInv, PickStillBest
<1>3. UNCHANGED table
  BY DEF Accept, Choose, NoDriver, Commit, Reply, TickBegin, TickEnd
<1>4. ASSUME NEW w \in Worker, NEW v \in Worker, pc'[v] = "chosen",
             Accept(w) \/ Choose(w) \/ NoDriver(w) \/ Commit(w) \/ Reply(w)
      PROVE  best'[v] \in Find(DispatchMode, drivers, driver_count, IsVip(client_id'[v]))
  <2>1. CASE v = w
    <3>1. Choose(w)
      BY <1>1, <1>4, <2>1 DEF Accept, NoDriver, Commit, Reply
    <3> QED
      BY <1>1, <1>4, <2>1, <3>1 DEF Choose
  <2>2. CASE v # w
    <3>1. pc'[v] = pc[v] /\ best'[v] = best[v] /\ client_id'[v] = client_id[v]
      BY <1>1, <1>4, <2>2 DEF Accept, Choose, NoDriver, Commit, Reply
    <3> QED
      BY <1>2, <1>4, <3>1
  <2> QED
    BY <2>1, <2>2
<1>5. CASE TickBegin \/ TickEnd
  <2>1. UNCHANGED workers
    BY <1>5 DEF TickBegin, TickEnd
  <2> QED
    BY <1>2, <1>3, <2>1, SameTableKeeps DEF workers
<1> QED
  BY <1>3, <1>4, <1>5, SameTableKeeps

\* The driver a worker is about to assign, and what the assignment makes of it.
LEMMA PickSound ==
    ASSUME IInv, NEW w \in Worker, pc[w] = "chosen"
    PROVE  /\ best[w] \in 1..driver_count
           /\ best[w] \in Slot
           /\ drivers[best[w]] \in Driver
           /\ Sound(drivers[best[w]])
           /\ Eligible(drivers[best[w]])
<1>1. best[w] \in Find(DispatchMode, drivers, driver_count, IsVip(client_id[w]))
  BY DEF IInv, PickStillBest
<1>2. best[w] \in 1..driver_count /\ Eligible(drivers[best[w]])
  BY <1>1, FoundEligible DEF IInv, Orderly
<1>3. best[w] \in Slot
  BY <1>2, TableSlots DEF IInv
<1> QED
  BY <1>2, <1>3 DEF IInv, Orderly, TypeOK, TableSound

\* ride_service.c:31-46.
LEMMA AssignKeeps ==
    ASSUME IInv, NEW w \in Worker, Assign(w)
    PROVE  IInv'
<1> DEFINE b == best[w]
<1>1. /\ b \in 1..driver_count /\ b \in Slot
      /\ drivers[b] \in Driver /\ Sound(drivers[b]) /\ Eligible(drivers[b])
  BY PickSound DEF Assign
<1>2. PICK t \in Place : drivers' = [drivers EXCEPT ![b] = Booked(drivers[b], t)]
  BY DEF Assign
<1>3. Sound(Booked(drivers[b], t))
  BY <1>1, BookedSound
<1> HIDE DEF b
<1>4. Orderly'
  BY AssignOrderly DEF IInv
<1>5. driver_count' = driver_count /\ driver_count \in Nat /\ drivers \in [Slot -> Driver]
  BY TableSlots DEF IInv, Orderly, TypeOK, Assign
<1>6. SlotsZeroed' /\ TableSound'
  BY <1>1, <1>2, <1>3, <1>5, TableSlots DEF IInv, SlotsZeroed, TableSound
<1>7. PickStillBest'
  <2>1. \A v \in Worker : pc'[v] # "chosen"
    BY DEF IInv, Orderly, LockInv, InSection, TypeOK, Assign
  <2> QED
    BY <2>1 DEF PickStillBest
<1> QED
  BY <1>4, <1>6, <1>7 DEF IInv

\* coordinator.c:203-210.
LEMMA DriverJoinKeeps ==
    ASSUME IInv, NEW w \in Worker, DriverJoin(w)
    PROVE  IInv'
<1>1. Orderly'
  BY DriverJoinOrderly DEF IInv
<1>2. /\ driver_count \in Nat /\ drivers \in [Slot -> Driver]
  BY TableSlots DEF IInv, Orderly, TypeOK
<1>3. ASSUME UNCHANGED table PROVE SlotsZeroed' /\ TableSound'
  BY <1>3 DEF IInv, table, SlotsZeroed, TableSound
<1>4. ASSUME driver_count < MaxDrivers, driver_count' = driver_count + 1,
             drivers' = [drivers EXCEPT ![driver_count + 1] = Joined(@)]
      PROVE  SlotsZeroed' /\ TableSound'
  <2>1. driver_count + 1 \in Slot
    BY <1>2, <1>4, SizesAssumption DEF Slot
  <2>2. drivers' = [drivers EXCEPT ![driver_count + 1] = Joined(Zeroed)]
    <3>1. drivers[driver_count + 1] = Zeroed
      BY <1>2, <2>1 DEF IInv, SlotsZeroed
    <3> QED
      BY <1>4, <3>1
  <2>3. SlotsZeroed'
    BY <1>2, <1>4, <2>2 DEF IInv, SlotsZeroed, Slot
  <2>4. TableSound'
    <3>1. drivers'[driver_count + 1] = Joined(Zeroed) /\ Sound(Joined(Zeroed))
      BY <1>2, <2>1, <2>2, FreshSound
    <3>2. ASSUME NEW i \in 1..driver_count PROVE drivers'[i] = drivers[i]
      BY <1>2, <2>2, TableSlots DEF IInv
    <3> QED
      BY <1>2, <1>4, <3>1, <3>2 DEF IInv, TableSound
  <2> QED
    BY <2>3, <2>4
<1>5. SlotsZeroed' /\ TableSound'
  BY <1>3, <1>4 DEF DriverJoin
<1>6. PickStillBest'
  <2>1. \A v \in Worker : pc'[v] # "chosen"
    BY ServerAssumption DEF IInv, Orderly, LockInv, InSection, TypeOK, DriverJoin
  <2> QED
    BY <2>1 DEF PickStillBest
<1> QED
  BY <1>1, <1>5, <1>6 DEF IInv

\* While the monitor ticks, its index points at a driver it finds sound, and
\* leaves sound.
LEMMA TickDriverStep ==
    ASSUME IInv, TickDriver
    PROVE  /\ scan \in 1..driver_count
           /\ scan \in Slot
           /\ \E d \in Driver :
                 /\ drivers' = [drivers EXCEPT ![scan] = d]
                 /\ Keeps(drivers[scan], d)
<1>1. PICK luck, burn, stuck \in BOOLEAN, next \in Place :
          drivers' = [drivers EXCEPT ![scan] = Tick(drivers[scan], luck, burn, stuck, next)]
  BY TickDriverOrderly DEF IInv
<1>2. scan \in 1..driver_count /\ scan \in Slot
  BY TickDriverOrderly DEF IInv
<1>3. drivers[scan] \in Driver /\ Sound(drivers[scan])
  BY <1>2 DEF IInv, Orderly, TypeOK, TableSound
<1>4. Keeps(drivers[scan], Tick(drivers[scan], luck, burn, stuck, next))
  BY <1>3, TickKeeps
<1> QED
  BY <1>1, <1>2, <1>4 DEF Keeps, Follows

\* map_monitor.c:36-121.
LEMMA TickDriverKeeps ==
    ASSUME IInv, TickDriver
    PROVE  IInv'
<1>1. scan \in 1..driver_count /\ scan \in Slot
  BY TickDriverStep
<1>2. PICK d \in Driver : /\ drivers' = [drivers EXCEPT ![scan] = d]
                          /\ Keeps(drivers[scan], d)
  BY TickDriverStep
<1>3. /\ driver_count' = driver_count /\ driver_count \in Nat /\ drivers \in [Slot -> Driver]
      /\ 1..driver_count \subseteq Slot
  BY TableSlots DEF IInv, Orderly, TypeOK, TickDriver, TickDriverWith
<1>4. Orderly'
  BY TickDriverOrderly DEF IInv
<1>5. SlotsZeroed'
  BY <1>1, <1>2, <1>3 DEF IInv, SlotsZeroed
<1>6. TableSound'
  BY <1>1, <1>2, <1>3 DEF IInv, TableSound, Keeps
<1>7. PickStillBest'
  <2>1. \A v \in Worker : pc'[v] # "chosen"
    BY ServerAssumption DEF IInv, Orderly, LockInv, InSection, TickDriver, TickDriverWith, workers
  <2> QED
    BY <2>1 DEF PickStillBest
<1> QED
  BY <1>4, <1>5, <1>6, <1>7 DEF IInv

LEMMA NextIInv == IInv /\ [Next]_vars => IInv'
<1> SUFFICES ASSUME IInv, [Next]_vars PROVE IInv'
  OBVIOUS
<1>1. Orderly'
  BY OrderlyKeeps
<1>2. CASE UNCHANGED vars
  BY <1>1, <1>2, SameTableKeeps DEF vars, workers, table, IInv, PickStillBest
<1>3. CASE MonitorStep
  BY <1>1, <1>3, QuietKeeps, TickDriverKeeps DEF MonitorStep
<1>4. CASE \E w \in Worker : WorkerStep(w)
  BY <1>1, <1>4, QuietKeeps, AssignKeeps, DriverJoinKeeps DEF WorkerStep
<1> QED
  BY <1>2, <1>3, <1>4 DEF Next

LEMMA SpecIInv == Spec => []IInv
BY InitIInv, NextIInv, PTL DEF Spec

-----------------------------------------------------------------------------
(***************************************************************************)
(* What the invariant says of the properties the runs check.               *)
(***************************************************************************)

\* The state keeps its declared shape, and scan tells whether the monitor holds
\* the mutex (map_monitor.c:34-122).
THEOREM TypeCorrect == Spec => []TypeOK
<1>1. IInv => TypeOK
  BY DEF IInv, Orderly
<1> QED
  BY <1>1, SpecIInv, PTL

\* Every driver of the table is idle, at the pump or on a ride, and only one of
\* them, whatever the workers and the monitor do and in whatever order.
THEOREM OneStatusAlways == Spec => []FleetOneStatus
<1>1. IInv => FleetOneStatus
  BY DEF IInv, TableSound, Sound, FleetOneStatus
<1> QED
  BY <1>1, SpecIInv, PTL

\* No tank overflows or is charged below empty, for any even tank size.
THEOREM TankAlways == Spec => []FleetTank
<1>1. IInv => FleetTank
  BY DEF IInv, TableSound, Sound, FleetTank
<1> QED
  BY <1>1, SpecIInv, PTL

\* Between the search and the assignment of a driver nothing makes the answer of
\* the search stale: the mutex covers both (ride_service.c:17-57).
THEOREM PickStillBestAlways == Spec => []PickStillBest
<1>1. IInv => PickStillBest
  BY DEF IInv
<1> QED
  BY <1>1, SpecIInv, PTL

-----------------------------------------------------------------------------
(***************************************************************************)
(* The rides that have been confirmed.  A confirmation carries the ride    *)
(* number the driver had when its totals were committed; counters never    *)
(* fall, and a booking that is still to be committed has a number above    *)
(* every confirmation out for its driver.                                  *)
(***************************************************************************)
ReceiptHeld ==
    \A w \in Worker : ride_no[w] # 0 =>
        /\ pc[w] = "reply"
        /\ best[w] \in 1..driver_count
        /\ ride_no[w] <= drivers[best[w]].rides_count

BookingAbove ==
    \A v, w \in Worker :
        pc[v] = "booked" /\ ride_no[w] # 0 /\ best[v] = best[w] =>
            ride_no[w] < drivers[best[v]].rides_count

ReceiptInv == ReceiptHeld /\ BookingAbove /\ UniqueReceipts

\* A step that moves no counter, no pick and no confirmation, and takes no worker
\* that holds a confirmation anywhere.
LEMMA QuietReceipts ==
    ASSUME IInv, ReceiptInv, SameCounters,
           driver_count \in Nat, driver_count' \in Nat, driver_count <= driver_count',
           UNCHANGED <<best, ride_no>>,
           \A w \in Worker : /\ ride_no[w] # 0 => pc'[w] = pc[w]
                             /\ pc'[w] = "booked" => pc[w] = "booked"
    PROVE  ReceiptInv'
<1>1. 1..driver_count \subseteq Slot
  BY SizesAssumption DEF IInv, Orderly, TypeOK, Slot
<1>2. ReceiptHeld'
  BY <1>1 DEF ReceiptInv, ReceiptHeld, SameCounters
<1>3. BookingAbove'
  BY <1>1 DEF ReceiptInv, ReceiptHeld, BookingAbove, SameCounters
<1>4. UniqueReceipts'
  BY DEF ReceiptInv, ReceiptHeld, UniqueReceipts
<1> QED
  BY <1>2, <1>3, <1>4 DEF ReceiptInv

LEMMA NextReceipts == IInv /\ ReceiptInv /\ [Next]_vars => ReceiptInv'
<1> SUFFICES ASSUME IInv, ReceiptInv, [Next]_vars PROVE ReceiptInv'
  OBVIOUS
<1>1. /\ driver_count \in Nat /\ driver_count' \in Nat
      /\ 1..driver_count \subseteq Slot
      /\ pc \in [Worker -> {"accept", "ask", "join", "chosen", "nodriver", "booked", "reply"}]
      /\ best \in [Worker -> 0..MaxDrivers]
      /\ ride_no \in [Worker -> Nat]
  BY NextIInv, SizesAssumption DEF IInv, Orderly, TypeOK, Slot
<1>2. \A w \in Worker : pc[w] # "reply" => ride_no[w] = 0
  BY DEF ReceiptInv, ReceiptHeld
<1>3. CASE UNCHANGED vars
  BY <1>1, <1>3, QuietReceipts DEF vars, SameCounters, workers
<1>4. CASE TickBegin \/ TickEnd
  BY <1>1, <1>4, QuietReceipts DEF TickBegin, TickEnd, SameCounters, workers, table
<1>5. CASE TickDriver
  <2>1. UNCHANGED <<driver_count, workers>>
    BY <1>5 DEF TickDriver, TickDriverWith
  <2> QED
    BY <1>1, <1>5, <2>1, TickDriverOrderly, QuietReceipts DEF workers, IInv
<1>6. ASSUME NEW w \in Worker, Accept(w)
      PROVE  ReceiptInv'
  BY <1>1, <1>2, <1>6, QuietReceipts DEF Accept, table, SameCounters
<1>7. ASSUME NEW w \in Worker, NoDriver(w)
      PROVE  ReceiptInv'
  BY <1>1, <1>2, <1>7, QuietReceipts DEF NoDriver, table, SameCounters
<1>8. ASSUME NEW w \in Worker, DriverJoin(w)
      PROVE  ReceiptInv'
  <2>1. /\ pc[w] = "join" /\ pc' = [pc EXCEPT ![w] = "reply"]
        /\ UNCHANGED <<best, ride_no>>
    BY <1>8 DEF DriverJoin
  <2> QED
    BY <1>1, <1>2, <1>8, <2>1, DriverJoinOrderly, QuietReceipts DEF IInv
<1>9. ASSUME NEW w \in Worker, Choose(w)
      PROVE  ReceiptInv'
  <2>1. /\ UNCHANGED <<drivers, driver_count, ride_no>>
        /\ ride_no[w] = 0
        /\ \A v \in Worker : v # w => pc'[v] = pc[v] /\ best'[v] = best[v]
        /\ pc'[w] # "booked"
    BY <1>1, <1>2, <1>9 DEF Choose, table
  <2> QED
    BY <1>1, <2>1 DEF ReceiptInv, ReceiptHeld, BookingAbove, UniqueReceipts
<1>10. ASSUME NEW w \in Worker, Reply(w)
       PROVE  ReceiptInv'
  <2>1. /\ UNCHANGED <<drivers, driver_count>>
        /\ ride_no'[w] = 0
        /\ \A v \in Worker : v # w =>
              pc'[v] = pc[v] /\ best'[v] = best[v] /\ ride_no'[v] = ride_no[v]
        /\ pc'[w] # "booked"
    BY <1>1, <1>10 DEF Reply, table
  <2> QED
    BY <1>1, <2>1 DEF ReceiptInv, ReceiptHeld, BookingAbove, UniqueReceipts
<1>11. ASSUME NEW w \in Worker, Assign(w)
       PROVE  ReceiptInv'
  <2>1. /\ UNCHANGED <<driver_count, best, ride_no>>
        /\ ride_no[w] = 0
        /\ pc'[w] = "booked"
        /\ \A v \in Worker : v # w => pc'[v] = pc[v]
    BY <1>1, <1>2, <1>11 DEF Assign
  <2>2. \A i \in Slot : /\ drivers[i].rides_count \in Nat
                        /\ drivers'[i].rides_count =
                              IF i = best[w] THEN drivers[i].rides_count + 1
                                             ELSE drivers[i].rides_count
    BY <1>11, AssignOrderly DEF IInv, Orderly, TypeOK, Driver
  <2>3. ReceiptHeld'
    BY <1>1, <2>1, <2>2 DEF ReceiptInv, ReceiptHeld
  <2>4. BookingAbove'
    BY <1>1, <2>1, <2>2 DEF ReceiptInv, ReceiptHeld, BookingAbove
  <2>5. UniqueReceipts'
    BY <1>1, <2>1 DEF ReceiptInv, ReceiptHeld, UniqueReceipts
  <2> QED
    BY <2>3, <2>4, <2>5 DEF ReceiptInv
<1>12. ASSUME NEW w \in Worker, Commit(w)
       PROVE  ReceiptInv'
  <2>1. /\ UNCHANGED <<drivers, driver_count, best>>
        /\ pc[w] = "booked"
        /\ pc'[w] = "reply"
        /\ ride_no'[w] = drivers[best[w]].rides_count
        /\ \A v \in Worker : v # w => pc'[v] = pc[v] /\ ride_no'[v] = ride_no[v]
    BY <1>1, <1>12 DEF Commit, table
  <2>2. best[w] \in 1..driver_count
    BY <2>1 DEF IInv, Orderly, WorkerKnows
  <2>3. \A v \in Worker : v # w => pc[v] # "booked"
    BY <2>1 DEF IInv, Orderly, LockInv, InSection
  <2>4. drivers[best[w]].rides_count \in Nat
    BY <1>1, <2>2 DEF IInv, Orderly, TypeOK, Driver
  <2>5. ReceiptHeld'
    BY <1>1, <2>1, <2>2, <2>4 DEF ReceiptInv, ReceiptHeld
  <2>6. BookingAbove'
    BY <1>1, <2>1, <2>3 DEF ReceiptInv, BookingAbove
  <2>7. UniqueReceipts'
    BY <1>1, <2>1, <2>4 DEF ReceiptInv, BookingAbove, UniqueReceipts
  <2> QED
    BY <2>5, <2>6, <2>7 DEF ReceiptInv
<1> QED
  BY <1>3, <1>4, <1>5, <1>6, <1>7, <1>8, <1>9, <1>10, <1>11, <1>12
  DEF Next, MonitorStep, WorkerStep

\* Two clients never hold the confirmation of one and the same ride.
THEOREM UniqueReceiptsAlways == Spec => []UniqueReceipts
<1>1. Init => ReceiptInv
  BY DEF Init, ReceiptInv, ReceiptHeld, BookingAbove, UniqueReceipts
<1>2. ReceiptInv => UniqueReceipts
  BY DEF ReceiptInv
<1> QED
  BY <1>1, <1>2, InitIInv, NextIInv, NextReceipts, PTL DEF Spec

-----------------------------------------------------------------------------
(***************************************************************************)
(* The books.  The totals lag behind the drivers' counters by the booking  *)
(* the owner of the mutex has in hand, and by nothing else.                *)
(***************************************************************************)
HalfDone == IF mutex \in Worker /\ pc[mutex] = "booked" THEN 1 ELSE 0

\* How the money adds up.
Paid(rides, revenue) == \E vip \in 0..rides : revenue = 100 * rides + 50 * vip

BooksInv ==
    /\ IsFiniteSet(RidesTaken(drivers))
    /\ total_requests_handled = total_success_requests
    /\ Cardinality(RidesTaken(drivers)) = total_success_requests + HalfDone
    /\ Paid(total_success_requests, total_revenue)

LEMMA RidesSame ==
    ASSUME NEW dr, NEW er, \A i \in Slot : er[i].rides_count = dr[i].rides_count
    PROVE  RidesTaken(er) = RidesTaken(dr)
BY DEF RidesTaken

LEMMA RidesNone ==
    ASSUME NEW dr, \A i \in Slot : dr[i].rides_count = 0
    PROVE  IsFiniteSet(RidesTaken(dr)) /\ Cardinality(RidesTaken(dr)) = 0
<1>1. RidesTaken(dr) = {}
  BY DEF RidesTaken
<1> QED
  BY <1>1, FS_EmptySet

LEMMA RidesGrow ==
    ASSUME NEW dr, NEW er, NEW b \in Slot, IsFiniteSet(RidesTaken(dr)),
           \A i \in Slot : /\ dr[i].rides_count \in Nat
                           /\ er[i].rides_count = IF i = b THEN dr[i].rides_count + 1
                                                           ELSE dr[i].rides_count
    PROVE  /\ IsFiniteSet(RidesTaken(er))
           /\ Cardinality(RidesTaken(er)) = Cardinality(RidesTaken(dr)) + 1
<1> DEFINE new == <<b, dr[b].rides_count + 1>>
<1>1. new \notin RidesTaken(dr)
  BY DEF RidesTaken
<1>2. ASSUME NEW i \in Slot
      PROVE  {i} \X (1..er[i].rides_count) =
                 IF i = b THEN ({i} \X (1..dr[i].rides_count)) \cup {new}
                 ELSE {i} \X (1..dr[i].rides_count)
  <2>1. CASE i = b
    <3>1. 1..er[b].rides_count = (1..dr[b].rides_count) \cup {dr[b].rides_count + 1}
      OBVIOUS
    <3> QED
      BY <2>1, <3>1
  <2>2. CASE i # b
    BY <2>2
  <2> QED
    BY <2>1, <2>2
<1> HIDE DEF new
<1>3. RidesTaken(er) = RidesTaken(dr) \cup {new}
  BY <1>2 DEF RidesTaken
<1> QED
  BY <1>1, <1>3, FS_AddElement

\* One more ride in the books, of a VIP or not.
LEMMA PaidOnce ==
    ASSUME NEW rides \in Nat, NEW revenue \in Nat, Paid(rides, revenue), NEW c \in Nat
    PROVE  Paid(rides + 1, revenue + Fare(c))
<1>1. PICK vip \in 0..rides : revenue = 100 * rides + 50 * vip
  BY DEF Paid
<1>2. CASE IsVip(c)
  <2>1. /\ vip + 1 \in 0..(rides + 1)
        /\ revenue + Fare(c) = 100 * (rides + 1) + 50 * (vip + 1)
    BY <1>1, <1>2 DEF Fare
  <2> QED
    BY <2>1 DEF Paid
<1>3. CASE ~IsVip(c)
  <2>1. vip \in 0..(rides + 1) /\ revenue + Fare(c) = 100 * (rides + 1) + 50 * vip
    BY <1>1, <1>3 DEF Fare
  <2> QED
    BY <2>1 DEF Paid
<1> QED
  BY <1>2, <1>3

\* Which steps turn the books' pages: an assignment opens a booking, its commit
\* closes it, and between them nobody else can.
LEMMA HalfDoneSteps ==
    ASSUME Orderly, [Next]_vars
    PROVE  \/ /\ SameCounters /\ HalfDone' = HalfDone /\ UNCHANGED totals
           \/ \E w \in Worker : Assign(w) /\ HalfDone = 0 /\ HalfDone' = 1 /\ UNCHANGED totals
           \/ \E w \in Worker : Commit(w) /\ HalfDone = 1 /\ HalfDone' = 0 /\ SameCounters
<1>1. \A w \in Worker : InSection(w) => mutex = w
  BY DEF Orderly, LockInv
<1>2. /\ pc \in [Worker -> {"accept", "ask", "join", "chosen", "nodriver", "booked", "reply"}]
      /\ Free \notin Worker /\ Monitor \notin Worker
  BY ServerAssumption DEF Orderly, TypeOK
<1>3. CASE UNCHANGED vars
  BY <1>3 DEF vars, HalfDone, SameCounters, workers
<1>4. CASE TickBegin \/ TickEnd
  BY <1>2, <1>4 DEF TickBegin, TickEnd, HalfDone, SameCounters, table, workers
<1>5. CASE TickDriver
  <2>1. UNCHANGED <<mutex, pc, totals>>
    BY <1>5 DEF TickDriver, TickDriverWith, workers
  <2> QED
    BY <1>5, <2>1, TickDriverOrderly DEF HalfDone
<1>6. ASSUME NEW w \in Worker, Accept(w) \/ Choose(w) \/ NoDriver(w) \/ Reply(w)
      PROVE  SameCounters /\ HalfDone' = HalfDone /\ UNCHANGED totals
  <2>1. UNCHANGED totals /\ SameCounters
    BY <1>6 DEF Accept, Choose, NoDriver, Reply, table, SameCounters
  <2>2. HalfDone' = HalfDone
    <3>1. CASE Accept(w) \/ Reply(w)
      BY <1>2, <3>1 DEF Accept, Reply, HalfDone
    <3>2. CASE Choose(w)
      BY <1>2, <3>2 DEF Choose, HalfDone
    <3>3. CASE NoDriver(w)
      BY <1>1, <1>2, <3>3 DEF NoDriver, HalfDone, InSection
    <3> QED
      BY <1>6, <3>1, <3>2, <3>3
  <2> QED
    BY <2>1, <2>2
<1>7. ASSUME NEW w \in Worker, DriverJoin(w)
      PROVE  SameCounters /\ HalfDone' = HalfDone /\ UNCHANGED totals
  <2>1. SameCounters
    BY <1>7, DriverJoinOrderly
  <2> QED
    BY <1>2, <1>7, <2>1 DEF DriverJoin, HalfDone
<1>8. ASSUME NEW w \in Worker, Assign(w)
      PROVE  HalfDone = 0 /\ HalfDone' = 1 /\ UNCHANGED totals
  BY <1>1, <1>2, <1>8 DEF Assign, HalfDone, InSection
<1>9. ASSUME NEW w \in Worker, Commit(w)
      PROVE  HalfDone = 1 /\ HalfDone' = 0 /\ SameCounters
  BY <1>1, <1>2, <1>9 DEF Commit, HalfDone, InSection, SameCounters, table
<1> QED
  BY <1>3, <1>4, <1>5, <1>6, <1>7, <1>8, <1>9 DEF Next, MonitorStep, WorkerStep

LEMMA NextBooks == Orderly /\ BooksInv /\ [Next]_vars => BooksInv'
<1> SUFFICES ASSUME Orderly, BooksInv, [Next]_vars PROVE BooksInv'
  OBVIOUS
<1>1. /\ total_success_requests \in Nat /\ total_revenue \in Nat
      /\ \A i \in Slot : drivers[i].rides_count \in Nat
      /\ \A w \in Worker : client_id[w] \in Nat
  BY ClientTyped DEF Orderly, TypeOK, Driver
<1>2. CASE SameCounters /\ HalfDone' = HalfDone /\ UNCHANGED totals
  <2>1. RidesTaken(drivers)' = RidesTaken(drivers)
    BY <1>2, RidesSame DEF SameCounters
  <2> QED
    BY <1>2, <2>1 DEF BooksInv, totals
<1>3. ASSUME NEW w \in Worker, Assign(w), HalfDone = 0, HalfDone' = 1, UNCHANGED totals
      PROVE  BooksInv'
  <2>1. /\ IsFiniteSet(RidesTaken(drivers'))
        /\ Cardinality(RidesTaken(drivers')) = Cardinality(RidesTaken(drivers)) + 1
    BY <1>1, <1>3, AssignOrderly, RidesGrow DEF BooksInv
  <2> QED
    BY <1>1, <1>3, <2>1 DEF BooksInv, totals
<1>4. ASSUME NEW w \in Worker, Commit(w), HalfDone = 1, HalfDone' = 0, SameCounters
      PROVE  BooksInv'
  <2>1. RidesTaken(drivers)' = RidesTaken(drivers)
    BY <1>4, RidesSame DEF SameCounters
  <2>2. /\ total_requests_handled' = total_requests_handled + 1
        /\ total_success_requests' = total_success_requests + 1
        /\ total_revenue' = total_revenue + Fare(client_id[w])
    BY <1>4 DEF Commit
  <2>3. Paid(total_success_requests, total_revenue)'
    BY <1>1, <2>2, PaidOnce DEF BooksInv
  <2> QED
    BY <1>1, <1>4, <2>1, <2>2, <2>3 DEF BooksInv
<1> QED
  BY <1>2, <1>3, <1>4, HalfDoneSteps

LEMMA InitBooks == Init => BooksInv
<1> SUFFICES ASSUME Init PROVE BooksInv
  OBVIOUS
<1>1. \A i \in Slot : drivers[i].rides_count = 0
  BY InitCounters
<1>2. total_success_requests = 0 /\ total_requests_handled = 0 /\ total_revenue = 0
  BY DEF Init
<1>3. HalfDone = 0
  BY ServerAssumption DEF Init, HalfDone
<1> QED
  BY <1>1, <1>2, <1>3, RidesNone DEF BooksInv, Paid

\* Every ride in the drivers' counters is in the totals once the booking in hand
\* is committed: handled once, a success once, and paid one of the two fares
\* (ride_service.c:35, 49-55).
THEOREM BooksBalance == Spec => []Books
<1>1. Init => Orderly /\ BooksInv
  BY InitIInv, InitBooks DEF IInv
<1>2. Orderly /\ BooksInv /\ [Next]_vars => (Orderly /\ BooksInv)'
  BY NextOrderly, NextBooks
<1>3. Orderly /\ BooksInv => Books
  <2> SUFFICES ASSUME Orderly, BooksInv, \A w \in Worker : pc[w] # "booked"
               PROVE  LET rides == Cardinality(RidesTaken(drivers))
                      IN  /\ total_success_requests = rides
                          /\ total_requests_handled = rides
                          /\ \E vip \in 0..rides : total_revenue = 100 * rides + 50 * vip
    BY DEF Books
  <2>1. HalfDone = 0 /\ total_success_requests \in Nat
    BY DEF HalfDone, Orderly, TypeOK
  <2> QED
    BY <2>1 DEF BooksInv, Paid
<1> QED
  BY <1>1, <1>2, <1>3, PTL DEF Spec

-----------------------------------------------------------------------------
(***************************************************************************)
(* The refinement.  Assign is the only step RideBooking sees as a booking; *)
(* a join and a driver's share of a tick are its Turns; all the rest       *)
(* leaves Status, Rides and Cash alone.                                    *)
(***************************************************************************)

\* One driver's status, and how a change of one record shows in Status.
StatusOf(d) == IF d.is_available = 1 THEN "idle"
               ELSE IF d.is_refueling = 1 THEN "pump" ELSE "riding"

LEMMA StatusInTable ==
    ASSUME TypeOK, NEW i \in 1..driver_count
    PROVE  i \in Slot /\ Status[i] = StatusOf(drivers[i])
BY SizesAssumption DEF TypeOK, Status, StatusOf, Slot

LEMMA StatusChanges ==
    ASSUME TypeOK, NEW i \in 1..driver_count, NEW d \in Driver,
           drivers' = [drivers EXCEPT ![i] = d], driver_count' = driver_count
    PROVE  Status' = [Status EXCEPT ![i] = StatusOf(d)]
<1>1. i \in Slot
  BY StatusInTable
<1>2. ASSUME NEW j \in Slot
      PROVE  Status'[j] = [Status EXCEPT ![i] = StatusOf(d)][j]
  <2>1. CASE j = i
    BY <1>1, <2>1, SizesAssumption DEF TypeOK, Status, StatusOf, Slot
  <2>2. CASE j # i
    BY <1>1, <2>2 DEF TypeOK, Status
  <2> QED
    BY <2>1, <2>2
<1> QED
  BY <1>2 DEF Status

LEMMA SameRides == SameCounters => Rides' = Rides
BY DEF SameCounters, Rides

\* Nobody but Assign moves the money taken.
LEMMA SameCash ==
    ASSUME IInv, [Next]_vars, \A w \in Worker : ~Assign(w)
    PROVE  Cash' = Cash
<1> USE DEF Cash
<1>1. \A w \in Worker : InSection(w) => mutex = w
  BY DEF IInv, Orderly, LockInv
<1>2. /\ pc \in [Worker -> {"accept", "ask", "join", "chosen", "nodriver", "booked", "reply"}]
      /\ client_id \in [Worker -> Client \cup {0}] /\ total_revenue \in Nat
      /\ \A w \in Worker : Fare(client_id[w]) \in Nat
  BY ClientTyped DEF IInv, Orderly, TypeOK, Fare
<1>3. CASE UNCHANGED vars
  BY <1>3 DEF vars, totals, workers
<1>4. CASE TickBegin \/ TickDriver \/ TickEnd
  BY <1>2, <1>4, ServerAssumption
  DEF TickBegin, TickDriver, TickDriverWith, TickEnd, totals, workers
<1>5. ASSUME NEW w \in Worker, Accept(w) PROVE Cash' = Cash
  BY <1>2, <1>5 DEF Accept, totals
<1>6. ASSUME NEW w \in Worker, Choose(w) PROVE Cash' = Cash
  BY <1>2, <1>6, ServerAssumption DEF Choose, totals
<1>7. ASSUME NEW w \in Worker, NoDriver(w) PROVE Cash' = Cash
  BY <1>1, <1>2, <1>7, ServerAssumption DEF NoDriver, totals, InSection
<1>8. ASSUME NEW w \in Worker, Commit(w) PROVE Cash' = Cash
  BY <1>1, <1>2, <1>8, ServerAssumption DEF Commit, InSection
<1>9. ASSUME NEW w \in Worker, DriverJoin(w) PROVE Cash' = Cash
  BY <1>2, <1>9, ServerAssumption DEF DriverJoin, totals
<1>10. ASSUME NEW w \in Worker, Reply(w) PROVE Cash' = Cash
  BY <1>2, <1>10 DEF Reply, totals
<1> QED
  BY <1>3, <1>4, <1>5, <1>6, <1>7, <1>8, <1>9, <1>10 DEF Next, MonitorStep, WorkerStep

\* A booking.
LEMMA AssignBooks ==
    ASSUME IInv, NEW w \in Worker, Assign(w)
    PROVE  Booking!Book(best[w])
<1> DEFINE b == best[w]
<1>1. /\ b \in 1..driver_count /\ b \in Slot /\ drivers[b] \in Driver
      /\ Sound(drivers[b]) /\ Eligible(drivers[b])
  BY PickSound DEF Assign
<1>2. PICK t \in Place : drivers' = [drivers EXCEPT ![b] = Booked(drivers[b], t)]
  BY DEF Assign
<1>3. /\ Booked(drivers[b], t) \in Driver
      /\ Booked(drivers[b], t).is_available = 0
      /\ Booked(drivers[b], t).is_refueling = 0
  BY <1>1, BookedSound
<1> HIDE DEF b
<1>4. Status[b] = "idle"
  BY <1>1, StatusInTable DEF IInv, Orderly, StatusOf, Eligible
<1>5. Status' = [Status EXCEPT ![b] = "riding"]
  <2>1. driver_count' = driver_count
    BY DEF Assign
  <2>2. StatusOf(Booked(drivers[b], t)) = "riding"
    BY <1>3 DEF StatusOf
  <2> QED
    BY <1>1, <1>2, <1>3, <2>1, <2>2, StatusChanges DEF IInv, Orderly
<1>6. Rides' = [Rides EXCEPT ![b] = @ + 1]
  BY <1>1, AssignOrderly DEF Rides, b, IInv
<1>7. client_id[w] \in Client
  BY DEF IInv, Orderly, WorkerKnows, Assign
<1>8. Cash' = Cash + Fare(client_id[w])
  <2>1. /\ mutex = w /\ mutex' = w
        /\ pc[w] = "chosen" /\ pc'[w] = "booked"
        /\ total_revenue' = total_revenue /\ client_id' = client_id
    BY DEF IInv, Orderly, LockInv, InSection, TypeOK, Assign, totals
  <2>2. total_revenue \in Nat /\ Fare(client_id[w]) \in Nat
    BY ClientTyped DEF IInv, Orderly, TypeOK, Fare
  <2>3. Cash = total_revenue + 0
    BY <2>1 DEF Cash
  <2>4. Cash' = total_revenue + Fare(client_id[w])
    BY <2>1 DEF Cash
  <2> QED
    BY <2>2, <2>3, <2>4
<1> QED
  BY <1>4, <1>5, <1>6, <1>7, <1>8 DEF Booking!Book, b

\* A driver's share of a tick.
LEMMA TickTurns ==
    ASSUME IInv, TickDriver
    PROVE  \/ \E i \in Slot : \/ Booking!Finish(i) \/ Booking!GoToPump(i)
                              \/ Booking!LeavePump(i)
           \/ UNCHANGED <<Status, Rides, Cash>>
<1>1. /\ scan \in 1..driver_count /\ scan \in Slot
      /\ driver_count' = driver_count
  BY TickDriverStep DEF TickDriver, TickDriverWith
<1>2. PICK d \in Driver : drivers' = [drivers EXCEPT ![scan] = d] /\ Keeps(drivers[scan], d)
  BY TickDriverStep
<1>3. Status[scan] = StatusOf(drivers[scan])
  BY <1>1, StatusInTable DEF IInv, Orderly
<1>4. Status' = [Status EXCEPT ![scan] = StatusOf(d)]
  BY <1>1, <1>2, StatusChanges DEF IInv, Orderly
<1>5. StatusOf(d) = "riding" => StatusOf(drivers[scan]) = "riding"
  <2>1. drivers[scan] \in Driver /\ Sound(drivers[scan])
    BY <1>1 DEF IInv, Orderly, TypeOK, TableSound
  <2> QED
    BY <1>2, <2>1 DEF StatusOf, Keeps, Follows, Sound, OneStatus, Driver, Flag
<1>6. StatusOf(d) \in {"idle", "pump", "riding"} /\ StatusOf(drivers[scan]) \in {"idle", "pump", "riding"}
  BY DEF StatusOf
<1>7. Rides' = Rides
  BY TickDriverOrderly, SameRides DEF IInv
<1>8. Cash' = Cash
  <2>1. \A w \in Worker : ~Assign(w)
    BY ServerAssumption DEF IInv, Orderly, LockInv, InSection, Assign, TickDriver, TickDriverWith
  <2> QED
    BY <2>1, SameCash DEF Next, MonitorStep
<1>9. Status = [Status EXCEPT ![scan] = Status[scan]]
  BY DEF Status
<1> QED
  BY <1>1, <1>3, <1>4, <1>5, <1>6, <1>7, <1>8, <1>9
  DEF Booking!Finish, Booking!GoToPump, Booking!LeavePump, Booking!Turn

\* A driver joins, or finds the table full.
LEMMA JoinEnlists ==
    ASSUME IInv, NEW w \in Worker, DriverJoin(w)
    PROVE  \/ \E i \in Slot : Booking!Enlist(i)
           \/ UNCHANGED <<Status, Rides, Cash>>
<1>1. Rides' = Rides
  BY DriverJoinOrderly, SameRides DEF IInv
<1>2. Cash' = Cash
  <2>1. \A v \in Worker : ~Assign(v)
    BY ServerAssumption DEF IInv, Orderly, LockInv, InSection, Assign, DriverJoin
  <2> QED
    BY <2>1, SameCash DEF Next, WorkerStep
<1>3. CASE UNCHANGED table
  BY <1>1, <1>2, <1>3 DEF table, Status
<1>4. CASE /\ driver_count < MaxDrivers
           /\ driver_count' = driver_count + 1
           /\ drivers' = [drivers EXCEPT ![driver_count + 1] = Joined(@)]
  <2> DEFINE n == driver_count + 1
  <2>1. driver_count \in Nat /\ n \in Slot
    BY <1>4, SizesAssumption DEF IInv, Orderly, TypeOK, Slot
  <2>2. drivers[n] = Zeroed
    BY <2>1 DEF IInv, Orderly, SlotsZeroed
  <2>3. drivers' = [drivers EXCEPT ![n] = Joined(Zeroed)]
    BY <1>4, <2>2
  <2>4. Status[n] = "absent"
    BY <2>1 DEF Status
  <2>5. ASSUME NEW j \in Slot
        PROVE  Status'[j] = [Status EXCEPT ![n] = "idle"][j]
    <3>1. CASE j = n
      BY <1>4, <2>1, <2>3, <3>1, FreshSound DEF Status, IInv, Orderly, TypeOK
    <3>2. CASE j # n
      <4>1. drivers'[j] = drivers[j]
        BY <2>3, <3>2 DEF IInv, Orderly, TypeOK
      <4>2. (j > driver_count') <=> (j > driver_count)
        BY <1>4, <2>1, <3>2 DEF Slot
      <4> QED
        BY <3>2, <4>1, <4>2 DEF Status
    <3> QED
      BY <3>1, <3>2
  <2>6. Status' = [Status EXCEPT ![n] = "idle"]
    BY <2>5 DEF Status
  <2> QED
    BY <1>1, <1>2, <2>1, <2>4, <2>6 DEF Booking!Enlist, Booking!Turn
<1> QED
  BY <1>3, <1>4 DEF DriverJoin

LEMMA InitBooking == Init => Booking!Init
<1> SUFFICES ASSUME Init PROVE Booking!Init
  OBVIOUS
<1>1. IInv
  BY InitIInv
<1>2. ASSUME NEW i \in Slot
      PROVE  Status[i] \in {"absent", "idle"} /\ drivers[i].rides_count = 0
  <2>1. PICK p \in [1..InitialDrivers -> Place \ {Origin}], t \in [1..InitialDrivers -> Flag] :
            drivers = [j \in Slot |-> IF j <= InitialDrivers THEN Fresh(p[j], t[j]) ELSE Zeroed]
    BY DEF Init
  <2>2. InitialDrivers \in Nat /\ driver_count = InitialDrivers
    BY SizesAssumption, ServerAssumption DEF Init
  <2>3. CASE i <= InitialDrivers
    <3>1. p[i] \in Place /\ t[i] \in Flag
      BY <2>2, <2>3 DEF Slot
    <3>2. drivers[i] = Fresh(p[i], t[i])
      BY <2>1, <2>3
    <3>3. drivers[i].is_available = 1
      BY <3>2 DEF Fresh, Zeroed
    <3> QED
      BY <3>1, <3>2, <3>3, <2>2, <2>3, FreshSound DEF Status
  <2>4. CASE ~(i <= InitialDrivers)
    <3>1. drivers[i].rides_count = 0
      BY <2>1, <2>4 DEF Zeroed
    <3>2. i > driver_count
      BY <2>2, <2>4 DEF Slot
    <3> QED
      BY <3>1, <3>2 DEF Status
  <2> QED
    BY <2>3, <2>4
<1>3. Status \in [Slot -> {"absent", "idle"}]
  <2>1. Status = [i \in Slot |-> Status[i]]
    BY DEF Status
  <2> QED
    BY <1>2, <2>1
<1>4. Rides = [i \in Slot |-> 0]
  BY <1>2 DEF Rides
<1>5. Cash = 0
  BY DEF Init, Cash
<1> QED
  BY <1>3, <1>4, <1>5 DEF Booking!Init

LEMMA NextBooking == IInv /\ [Next]_vars => [Booking!Next]_(Booking!vars)
<1> SUFFICES ASSUME IInv, [Next]_vars
             PROVE  Booking!Next \/ UNCHANGED <<Status, Rides, Cash>>
  BY DEF Booking!vars
<1>1. ASSUME NEW w \in Worker, Assign(w) PROVE Booking!Next
  <2>1. best[w] \in Slot
    BY <1>1, PickSound DEF Assign
  <2> QED
    BY <1>1, <2>1, AssignBooks DEF Booking!Next
<1>2. CASE TickDriver
  BY <1>2, TickTurns DEF Booking!Next
<1>3. ASSUME NEW w \in Worker, DriverJoin(w)
      PROVE  Booking!Next \/ UNCHANGED <<Status, Rides, Cash>>
  BY <1>3, JoinEnlists DEF Booking!Next
<1>4. CASE UNCHANGED table /\ \A w \in Worker : ~Assign(w)
  <2>1. Status' = Status /\ Rides' = Rides
    BY <1>4 DEF table, Status, Rides
  <2> QED
    BY <1>4, <2>1, SameCash
<1>5. \/ UNCHANGED table
      \/ TickDriver
      \/ \E w \in Worker : DriverJoin(w) \/ Assign(w)
  BY DEF Next, MonitorStep, WorkerStep, vars, table, TickBegin, TickEnd, Accept,
         Choose, NoDriver, Commit, Reply
<1> QED
  BY <1>1, <1>2, <1>3, <1>4, <1>5

\* The server implements RideBooking: only idle drivers are booked, every booking
\* takes one fare, and no other step moves money or ride counters.
THEOREM Refinement == Spec => ImplementsBooking
BY InitIInv, NextIInv, InitBooking, NextBooking, PTL
DEF Spec, ImplementsBooking, Booking!Spec

=============================================================================
