---------------------------- MODULE RateLimiter ------------------------------
(***************************************************************************)
(* check_and_update_rate_limit (resource_service.c:59): a counter per      *)
(* client of the requests seen in the second of the last one, kept in the  *)
(* shared segment and updated by every dispatcher process.  The clock is   *)
(* read before the mutex is taken, so a worker may arrive with the stamp   *)
(* of a second that is already over.  The update itself is one step: it is *)
(* a single critical section.                                              *)
(***************************************************************************)
EXTENDS Integers, FiniteSets

CONSTANTS
    Worker,       \* the dispatcher processes
    Client,       \* client ids that send requests
    MaxClock,     \* bound: last second of a behaviour
    MaxAttempts   \* bound: requests served in a behaviour

ASSUME RateAssumption ==
    /\ Client \subseteq Int
    /\ MaxClock \in Nat \ {0}
    /\ MaxAttempts \in Nat

\* start_coordinator_process forks a fixed number of dispatchers.
ASSUME WorkerAssumption == IsFiniteSet(Worker) /\ Worker # {}

Threshold == 3

VARIABLES
    clock,                        \* time(NULL)
    client_last_seen,
    client_req_count,
    pc,                           \* where each worker is
    client_id,                    \* whom each worker serves
    now,                          \* the stamp each worker has read
    attempts,                     \* history: updates made, per client and stamp
    passed,                       \* history: those let through
    served                        \* history: requests begun, held below MaxAttempts

Second == 1..MaxClock

segment == <<client_last_seen, client_req_count>>
history == <<attempts, passed>>
vars == <<clock, segment, pc, client_id, now, history, served>>

\* Ids outside 1..1999 have no counter and always pass.
\* Variant: the upper end is taken as a valid index.
CountedTo2000(c) == c > 0 /\ c <= 2000

Counted(c) == c > 0 /\ c < 2000

Init ==
    /\ clock = 1
    /\ client_last_seen = [c \in Client |-> 0]
    /\ client_req_count = [c \in Client |-> 0]
    /\ pc = [w \in Worker |-> "idle"]
    /\ client_id \in [Worker -> Client]
    /\ now = [w \in Worker |-> 0]
    /\ attempts = [c \in Client |-> [t \in Second |-> 0]]
    /\ passed = [c \in Client |-> [t \in Second |-> 0]]
    /\ served = 0

Advance ==
    /\ clock < MaxClock
    /\ clock' = clock + 1
    /\ UNCHANGED <<segment, pc, client_id, now, history, served>>

\* A request comes in; an uncounted id is let through at once.
Request(w) ==
    /\ pc[w] = "idle"
    /\ served < MaxAttempts
    /\ served' = served + 1
    /\ \E c \in Client :
          /\ client_id' = [client_id EXCEPT ![w] = c]
          /\ pc' = [pc EXCEPT ![w] = IF Counted(c) THEN "stamp" ELSE "pass"]
    /\ UNCHANGED <<clock, segment, now, history>>

\* now = time(NULL), before the lock.
ReadClock(w) ==
    /\ pc[w] = "stamp"
    /\ now' = [now EXCEPT ![w] = clock]
    /\ pc' = [pc EXCEPT ![w] = "update"]
    /\ UNCHANGED <<clock, segment, client_id, history, served>>

\* What the counter becomes when a request stamped t is added to it.
\* Variants: a new second keeps the old count, or starts from zero.
CountKept(c, t) == client_req_count[c] + 1
CountFromZero(c, t) == IF client_last_seen[c] = t THEN client_req_count[c] + 1 ELSE 0

Count(c, t) == IF client_last_seen[c] = t THEN client_req_count[c] + 1 ELSE 1

\* The critical section.
Update(w) ==
    LET c == client_id[w]
        t == now[w]
        n == Count(c, t)
    IN  /\ pc[w] = "update"
        /\ client_last_seen' = [client_last_seen EXCEPT ![c] = t]
        /\ client_req_count' = [client_req_count EXCEPT ![c] = n]
        /\ attempts' = [attempts EXCEPT ![c][t] = @ + 1]
        /\ \/ /\ n > Threshold
              /\ pc' = [pc EXCEPT ![w] = "blocked"]
              /\ passed' = passed
           \/ /\ n <= Threshold
              /\ pc' = [pc EXCEPT ![w] = "pass"]
              /\ passed' = [passed EXCEPT ![c][t] = @ + 1]
        /\ UNCHANGED <<clock, client_id, now, served>>

Done(w) ==
    /\ pc[w] \in {"pass", "blocked"}
    /\ pc' = [pc EXCEPT ![w] = "idle"]
    /\ UNCHANGED <<clock, segment, client_id, now, history, served>>

Next ==
    \/ Advance
    \/ \E w \in Worker : Request(w) \/ ReadClock(w) \/ Update(w) \/ Done(w)

Spec == Init /\ [][Next]_vars

-----------------------------------------------------------------------------
\* The shape of the state; a worker that goes to the update brings a stamp that
\* is not in the future and an id within the two arrays of 2000 counters
\* (resource_service.c:60-65, shared_data.h:63).
TypeOK ==
    /\ clock \in Second
    /\ client_last_seen \in [Client -> 0..clock]
    /\ client_req_count \in [Client -> Nat]
    /\ pc \in [Worker -> {"idle", "stamp", "update", "pass", "blocked"}]
    /\ client_id \in [Worker -> Client]
    /\ now \in [Worker -> 0..clock]
    /\ attempts \in [Client -> [Second -> Nat]]
    /\ passed \in [Client -> [Second -> Nat]]
    /\ served \in 0..MaxAttempts
    /\ \A w \in Worker :
          /\ pc[w] \in {"update", "blocked"} => now[w] # 0
          /\ pc[w] \in {"stamp", "update", "blocked"} => client_id[w] \in 0..1999

\* A request is only blocked when its client really sent more than three in the
\* second the request is stamped with: workers that come late with an old stamp
\* can make the counter forget requests, never invent them
\* (resource_service.c:70-82).
NoFalseBlock ==
    \A w \in Worker :
        pc[w] = "blocked" => attempts[client_id[w]][now[w]] > Threshold

\* How much late stamps can let through: while a second lasts every other
\* worker can reset the counter once, and once the second is over every other
\* worker can still bring one of its stamps (resource_service.c:65-77).
PassBound ==
    \A c \in Client, t \in Second :
        passed[c][t] <= Threshold * Cardinality(Worker) + (Cardinality(Worker) - 1)

\* What the threshold is for: "more than 3 times a second is treated as a DoS
\* attack" (resource_service.c:79), so no second lets more than three through.
ThreePerSecond == \A c \in Client, t \in Second : passed[c][t] <= Threshold

=============================================================================
