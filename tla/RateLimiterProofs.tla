-------------------------- MODULE RateLimiterProofs --------------------------
(***************************************************************************)
(* The rate limiter never blocks a client that kept within the limit, and  *)
(* lets at most Threshold * W + (W - 1) requests of a client through in a  *)
(* second, for any number W of workers, any clients and any seconds.       *)
(***************************************************************************)
EXTENDS RateLimiter, FiniteSetTheorems, TLAPS

\* The counter never exceeds the updates really made with the stamp it is for.
CountBacked ==
    \A c \in Client :
        IF client_last_seen[c] = 0 THEN client_req_count[c] = 0
        ELSE client_req_count[c] <= attempts[c][client_last_seen[c]]

IInv == TypeOK /\ CountBacked /\ NoFalseBlock

-----------------------------------------------------------------------------
(***************************************************************************)
(* Functions that change in one place.                                     *)
(***************************************************************************)
LEMMA Bumped ==
    ASSUME NEW f \in [Client -> [Second -> Nat]], NEW c \in Client, NEW t \in Second,
           NEW g, g = [f EXCEPT ![c][t] = @ + 1]
    PROVE  /\ g \in [Client -> [Second -> Nat]]
           /\ g[c][t] = f[c][t] + 1
           /\ \A d \in Client, u \in Second : d # c \/ u # t => g[d][u] = f[d][u]
<1>1. f[c] \in [Second -> Nat] /\ f[c][t] + 1 \in Nat
  OBVIOUS
<1>2. [f[c] EXCEPT ![t] = @ + 1] \in [Second -> Nat]
  BY <1>1
<1>3. g = [f EXCEPT ![c] = [f[c] EXCEPT ![t] = @ + 1]]
  OBVIOUS
<1>4. g \in [Client -> [Second -> Nat]] /\ g[c] = [f[c] EXCEPT ![t] = @ + 1]
  BY <1>2, <1>3
<1>5. \A d \in Client : d # c => g[d] = f[d]
  BY <1>3
<1> QED
  BY <1>1, <1>4, <1>5

LEMMA CountersNat ==
    ASSUME TypeOK, NEW c \in Client, NEW t \in Second
    PROVE  /\ attempts[c][t] \in Nat /\ passed[c][t] \in Nat
           /\ client_req_count[c] \in Nat /\ client_last_seen[c] \in 0..clock
BY DEF TypeOK

LEMMA ClockTyped == ASSUME TypeOK PROVE clock \in Second /\ clock \in Nat \ {0}
BY RateAssumption DEF TypeOK, Second

-----------------------------------------------------------------------------
LEMMA InitInv == Init => IInv
<1> SUFFICES ASSUME Init PROVE IInv
  OBVIOUS
<1>1. 1 \in Second /\ 0 \in 0..MaxAttempts /\ 0 \in 0..1
  BY RateAssumption DEF Second
<1>2. /\ clock = 1 /\ served = 0
      /\ client_last_seen = [c \in Client |-> 0] /\ client_req_count = [c \in Client |-> 0]
      /\ pc = [w \in Worker |-> "idle"] /\ client_id \in [Worker -> Client]
      /\ now = [w \in Worker |-> 0]
      /\ attempts = [c \in Client |-> [t \in Second |-> 0]]
      /\ passed = [c \in Client |-> [t \in Second |-> 0]]
  BY DEF Init
<1>3. [c \in Client |-> [t \in Second |-> 0]] \in [Client -> [Second -> Nat]]
  OBVIOUS
<1>4. TypeOK
  BY <1>1, <1>2, <1>3 DEF TypeOK
<1>5. CountBacked /\ NoFalseBlock
  BY <1>2 DEF CountBacked, NoFalseBlock
<1> QED
  BY <1>4, <1>5 DEF IInv

\* A worker about to update has a client and a stamp with a history.
LEMMA UpdateArgs ==
    ASSUME TypeOK, NEW w \in Worker, pc[w] = "update"
    PROVE  /\ client_id[w] \in Client /\ client_id[w] \in 0..1999
           /\ now[w] \in Second /\ now[w] \in 1..clock
           /\ Count(client_id[w], now[w]) \in Nat \ {0}
<1>1. client_id[w] \in Client /\ now[w] \in 0..clock /\ now[w] # 0 /\ client_id[w] \in 0..1999
  BY DEF TypeOK
<1>2. clock \in 1..MaxClock /\ MaxClock \in Nat
  BY RateAssumption DEF TypeOK, Second
<1>3. now[w] \in 1..clock /\ now[w] \in Second
  BY <1>1, <1>2 DEF Second
<1>4. client_req_count[client_id[w]] \in Nat
  BY <1>1 DEF TypeOK
<1> QED
  BY <1>1, <1>3, <1>4 DEF Count

\* What the critical section does, in terms of its client, stamp and count
\* (resource_service.c:70-82).
Counts(w, c, t, n) ==
    /\ c = client_id[w] /\ t = now[w] /\ t \in 1..clock /\ c \in 0..1999
    /\ pc[w] = "update"
    /\ n = IF client_last_seen[c] = t THEN client_req_count[c] + 1 ELSE 1
    /\ client_last_seen' = [client_last_seen EXCEPT ![c] = t]
    /\ client_req_count' = [client_req_count EXCEPT ![c] = n]
    /\ attempts' = [attempts EXCEPT ![c][t] = @ + 1]
    /\ UNCHANGED <<clock, client_id, now, served>>
    /\ \/ /\ n > 3
          /\ pc' = [pc EXCEPT ![w] = "blocked"]
          /\ passed' = passed
       \/ /\ n <= 3
          /\ pc' = [pc EXCEPT ![w] = "pass"]
          /\ passed' = [passed EXCEPT ![c][t] = @ + 1]

LEMMA UpdateCounts ==
    ASSUME TypeOK, NEW w \in Worker, Update(w)
    PROVE  \E c \in Client, t \in Second, n \in Nat \ {0} : Counts(w, c, t, n)
<1> DEFINE c == client_id[w]
           t == now[w]
           n == Count(c, t)
<1>1. pc[w] = "update"
  BY DEF Update
<1>2. c \in Client /\ t \in Second /\ n \in Nat \ {0} /\ t \in 1..clock /\ c \in 0..1999
  BY <1>1, UpdateArgs
<1>3. n = IF client_last_seen[c] = t THEN client_req_count[c] + 1 ELSE 1
  BY DEF Count
<1>4. /\ client_last_seen' = [client_last_seen EXCEPT ![c] = t]
      /\ client_req_count' = [client_req_count EXCEPT ![c] = n]
      /\ attempts' = [attempts EXCEPT ![c][t] = @ + 1]
      /\ UNCHANGED <<clock, client_id, now, served>>
      /\ \/ /\ n > 3
            /\ pc' = [pc EXCEPT ![w] = "blocked"]
            /\ passed' = passed
         \/ /\ n <= 3
            /\ pc' = [pc EXCEPT ![w] = "pass"]
            /\ passed' = [passed EXCEPT ![c][t] = @ + 1]
  BY DEF Update, Threshold
<1>5. Counts(w, c, t, n)
  BY <1>1, <1>2, <1>3, <1>4 DEF Counts
<1> HIDE DEF n, c, t
<1> QED
  BY <1>2, <1>5

\* What stays typed when an update counts a request.
LEMMA CountsTyped ==
    ASSUME TypeOK, NEW w \in Worker, NEW c \in Client, NEW t \in Second,
           NEW n \in Nat \ {0}, Counts(w, c, t, n)
    PROVE  TypeOK'
<1>1. clock' = clock /\ client_id' = client_id /\ now' = now /\ served' = served
  BY DEF Counts
<1>2. client_last_seen' \in [Client -> 0..clock]
  <2>1. client_last_seen \in [Client -> 0..clock] /\ clock \in Nat
    BY ClockTyped DEF TypeOK
  <2>2. t \in 1..clock /\ client_last_seen' = [client_last_seen EXCEPT ![c] = t]
    BY DEF Counts
  <2>3. t \in 0..clock
    BY <2>1, <2>2
  <2> QED
    BY <2>1, <2>2, <2>3
<1>3. client_req_count' \in [Client -> Nat]
  <2>1. client_req_count \in [Client -> Nat]
    BY DEF TypeOK
  <2> QED
    BY <2>1 DEF Counts
<1>4. attempts' \in [Client -> [Second -> Nat]]
  <2>1. attempts \in [Client -> [Second -> Nat]] /\ attempts' = [attempts EXCEPT ![c][t] = @ + 1]
    BY DEF Counts, TypeOK
  <2> QED
    BY <2>1, Bumped
<1>5. passed' \in [Client -> [Second -> Nat]]
  <2>1. passed \in [Client -> [Second -> Nat]]
    BY DEF TypeOK
  <2>2. passed' = passed \/ passed' = [passed EXCEPT ![c][t] = @ + 1]
    BY DEF Counts
  <2> QED
    BY <2>1, <2>2, Bumped
<1>6. pc' = [pc EXCEPT ![w] = "blocked"] \/ pc' = [pc EXCEPT ![w] = "pass"]
  BY DEF Counts
<1>7. pc \in [Worker -> {"idle", "stamp", "update", "pass", "blocked"}] /\ pc[w] = "update"
  BY DEF TypeOK, Counts
<1>8. pc' \in [Worker -> {"idle", "stamp", "update", "pass", "blocked"}]
  BY <1>6, <1>7
<1>9. \A v \in Worker :
        /\ pc'[v] \in {"update", "blocked"} => pc[v] \in {"update", "blocked"}
        /\ pc'[v] \in {"stamp", "update", "blocked"} => pc[v] \in {"stamp", "update", "blocked"}
  BY <1>6, <1>7
<1>10. ASSUME NEW v \in Worker
       PROVE  /\ pc'[v] \in {"update", "blocked"} => now'[v] # 0
              /\ pc'[v] \in {"stamp", "update", "blocked"} => client_id'[v] \in 0..1999
  <2>1. /\ pc[v] \in {"update", "blocked"} => now[v] # 0
        /\ pc[v] \in {"stamp", "update", "blocked"} => client_id[v] \in 0..1999
    BY DEF TypeOK
  <2>2. now'[v] = now[v] /\ client_id'[v] = client_id[v]
    BY <1>1
  <2> QED
    BY <1>9, <2>1, <2>2
<1>11. /\ clock \in Second /\ client_id \in [Worker -> Client]
       /\ now \in [Worker -> 0..clock] /\ served \in 0..MaxAttempts
  BY DEF TypeOK
<1>12. /\ clock' \in Second /\ client_id' \in [Worker -> Client]
       /\ now' \in [Worker -> 0..clock'] /\ served' \in 0..MaxAttempts
       /\ client_last_seen' \in [Client -> 0..clock']
  BY <1>1, <1>2, <1>11
<1> QED
  BY <1>3, <1>4, <1>5, <1>8, <1>10, <1>12 DEF TypeOK

\* The counter after an update is at most the number of updates with its stamp.
LEMMA CountsBacked ==
    ASSUME IInv, NEW w \in Worker, NEW c \in Client, NEW t \in Second,
           NEW n \in Nat \ {0}, Counts(w, c, t, n)
    PROVE  /\ n <= attempts'[c][t]
           /\ \A d \in Client, u \in Second :
                 attempts[d][u] \in Nat /\ attempts'[d][u] \in Nat
                 /\ attempts[d][u] <= attempts'[d][u]
<1>1. attempts \in [Client -> [Second -> Nat]] /\ attempts' = [attempts EXCEPT ![c][t] = @ + 1]
  BY DEF Counts, IInv, TypeOK
<1>2. /\ attempts' \in [Client -> [Second -> Nat]]
      /\ attempts'[c][t] = attempts[c][t] + 1
      /\ \A d \in Client, u \in Second : d # c \/ u # t => attempts'[d][u] = attempts[d][u]
  BY <1>1, Bumped
<1>3. \A d \in Client, u \in Second : attempts[d][u] \in Nat /\ attempts'[d][u] \in Nat
  BY <1>1, <1>2
<1>4. n <= attempts[c][t] + 1
  <2>1. t # 0 /\ n = IF client_last_seen[c] = t THEN client_req_count[c] + 1 ELSE 1
    BY DEF Counts
  <2>2. client_req_count[c] \in Nat /\ attempts[c][t] \in Nat
    BY CountersNat DEF IInv
  <2>3. client_last_seen[c] = t => client_req_count[c] <= attempts[c][t]
    BY <2>1 DEF IInv, CountBacked
  <2> QED
    BY <2>1, <2>2, <2>3
<1>5. \A d \in Client, u \in Second : attempts[d][u] <= attempts'[d][u]
  <2> TAKE d \in Client, u \in Second
  <2>1. attempts'[d][u] = attempts[d][u] \/ attempts'[d][u] = attempts[d][u] + 1
    BY <1>2
  <2> QED
    BY <2>1, <1>3
<1> QED
  BY <1>2, <1>3, <1>4, <1>5

\* resource_service.c:68-84.
LEMMA UpdateKeeps ==
    ASSUME IInv, NEW w \in Worker, Update(w)
    PROVE  IInv'
<1>1. PICK c \in Client, t \in Second, n \in Nat \ {0} : Counts(w, c, t, n)
  BY UpdateCounts DEF IInv
<1>2. TypeOK'
  BY <1>1, CountsTyped DEF IInv
<1>3. /\ n <= attempts'[c][t]
      /\ \A d \in Client, u \in Second :
            attempts[d][u] \in Nat /\ attempts'[d][u] \in Nat /\ attempts[d][u] <= attempts'[d][u]
  BY <1>1, CountsBacked
<1>4. CountBacked'
  <2> SUFFICES ASSUME NEW d \in Client
               PROVE  IF client_last_seen'[d] = 0 THEN client_req_count'[d] = 0
                      ELSE client_req_count'[d] <= attempts'[d][client_last_seen'[d]]
    BY DEF CountBacked
  <2>1. CASE d = c
    <3>1. client_last_seen'[c] = t /\ client_req_count'[c] = n /\ t # 0
      <4>1. client_last_seen \in [Client -> 0..clock] /\ client_req_count \in [Client -> Nat]
        BY DEF IInv, TypeOK
      <4>2. /\ client_last_seen' = [client_last_seen EXCEPT ![c] = t]
            /\ client_req_count' = [client_req_count EXCEPT ![c] = n]
            /\ t \in 1..clock
        BY <1>1 DEF Counts
      <4>3. t # 0
        BY <4>2, RateAssumption
      <4> QED
        BY <4>1, <4>2, <4>3
    <3> QED
      BY <1>3, <2>1, <3>1
  <2>2. CASE d # c
    <3>1. client_last_seen'[d] = client_last_seen[d] /\ client_req_count'[d] = client_req_count[d]
      BY <1>1, <2>2 DEF Counts
    <3>2. attempts'[d] = attempts[d]
      BY <1>1, <2>2 DEF Counts
    <3> QED
      BY <3>1, <3>2 DEF IInv, CountBacked
  <2> QED
    BY <2>1, <2>2
<1>5. NoFalseBlock'
  <2> SUFFICES ASSUME NEW v \in Worker, pc'[v] = "blocked"
               PROVE  attempts'[client_id[v]][now[v]] > 3
    BY <1>1 DEF NoFalseBlock, Counts, Threshold
  <2>1. client_id[v] \in Client /\ now[v] \in Second
    <3>1. client_id'[v] \in Client /\ now'[v] \in 0..clock' /\ now'[v] # 0 /\ clock' \in Second
      BY <1>2 DEF TypeOK
    <3>2. client_id' = client_id /\ now' = now
      BY <1>1 DEF Counts
    <3> QED
      BY <3>1, <3>2, RateAssumption DEF Second
  <2>2. CASE v = w
    <3>1. n > 3 /\ c = client_id[w] /\ t = now[w]
      <4>1. pc \in [Worker -> {"idle", "stamp", "update", "pass", "blocked"}]
        BY DEF IInv, TypeOK
      <4>2. \/ n > 3 /\ pc' = [pc EXCEPT ![w] = "blocked"]
            \/ pc' = [pc EXCEPT ![w] = "pass"]
        BY <1>1 DEF Counts
      <4>3. c = client_id[w] /\ t = now[w]
        BY <1>1 DEF Counts
      <4> QED
        BY <2>2, <4>1, <4>2, <4>3
    <3>2. attempts'[c][t] \in Nat
      BY <1>3
    <3> QED
      BY <1>3, <2>2, <3>1, <3>2
  <2>3. CASE v # w
    <3>1. pc[v] = "blocked"
      <4>1. pc \in [Worker -> {"idle", "stamp", "update", "pass", "blocked"}]
        BY DEF IInv, TypeOK
      <4>2. pc' = [pc EXCEPT ![w] = "blocked"] \/ pc' = [pc EXCEPT ![w] = "pass"]
        BY <1>1 DEF Counts
      <4> QED
        BY <2>3, <4>1, <4>2
    <3>2. attempts[client_id[v]][now[v]] > 3
      BY <3>1 DEF IInv, NoFalseBlock, Threshold
    <3>3. /\ attempts[client_id[v]][now[v]] \in Nat /\ attempts'[client_id[v]][now[v]] \in Nat
          /\ attempts[client_id[v]][now[v]] <= attempts'[client_id[v]][now[v]]
      BY <1>3, <2>1
    <3> QED
      BY <3>2, <3>3
  <2> QED
    BY <2>2, <2>3
<1> QED
  BY <1>2, <1>4, <1>5 DEF IInv

\* resource_service.c:60-65: a request begins, a stamp is read, an answer is given.
LEMMA OthersTyped ==
    ASSUME TypeOK, NEW w \in Worker, Request(w) \/ ReadClock(w) \/ Done(w)
    PROVE  /\ TypeOK'
           /\ UNCHANGED <<clock, client_last_seen, client_req_count, attempts, passed>>
<1>1. UNCHANGED <<clock, client_last_seen, client_req_count, attempts, passed>>
  BY DEF Request, ReadClock, Done, segment, history
<1>2. /\ clock \in Second /\ client_last_seen \in [Client -> 0..clock]
      /\ client_req_count \in [Client -> Nat]
      /\ attempts \in [Client -> [Second -> Nat]] /\ passed \in [Client -> [Second -> Nat]]
  BY DEF TypeOK
<1> DEFINE
      Place == {"idle", "stamp", "update", "pass", "blocked"}
      Ready(v) == /\ pc[v] \in {"update", "blocked"} => now[v] # 0
                  /\ pc[v] \in {"stamp", "update", "blocked"} => client_id[v] \in 0..1999
<1>3. /\ pc \in [Worker -> Place] /\ client_id \in [Worker -> Client]
      /\ now \in [Worker -> 0..clock] /\ served \in 0..MaxAttempts
      /\ \A v \in Worker : Ready(v)
  BY DEF TypeOK
<1>4. CASE Request(w)
  <2>1. PICK c \in Client :
            /\ client_id' = [client_id EXCEPT ![w] = c]
            /\ pc' = [pc EXCEPT ![w] = IF Counted(c) THEN "stamp" ELSE "pass"]
    BY <1>4 DEF Request
  <2>2. now' = now /\ served < MaxAttempts /\ served' = served + 1
    BY <1>4 DEF Request
  <2>3. Counted(c) => c \in 0..1999
    BY RateAssumption DEF Counted
  <2>4. served' \in 0..MaxAttempts
    BY <1>3, <2>2, RateAssumption
  <2>5. pc' \in [Worker -> Place] /\ client_id' \in [Worker -> Client]
    BY <1>3, <2>1
  <2>6. \A v \in Worker : Ready(v)'
    BY <1>3, <2>1, <2>2, <2>3
  <2> QED
    BY <1>1, <1>2, <1>3, <2>2, <2>4, <2>5, <2>6 DEF TypeOK
<1>5. CASE ReadClock(w)
  <2>1. /\ pc[w] = "stamp" /\ now' = [now EXCEPT ![w] = clock]
        /\ pc' = [pc EXCEPT ![w] = "update"]
        /\ client_id' = client_id /\ served' = served
    BY <1>5 DEF ReadClock
  <2>2. clock \in 0..clock /\ clock # 0
    BY ClockTyped
  <2>3. pc' \in [Worker -> Place] /\ now' \in [Worker -> 0..clock]
    BY <1>3, <2>1, <2>2
  <2>4. ASSUME NEW v \in Worker PROVE Ready(v)'
    <3>1. CASE v = w
      <4>1. now'[v] # 0
        BY <1>3, <2>1, <2>2, <3>1
      <4>2. client_id'[v] \in 0..1999
        BY <1>3, <2>1, <3>1
      <4> QED
        BY <4>1, <4>2
    <3>2. CASE v # w
      <4>1. pc'[v] = pc[v] /\ now'[v] = now[v] /\ client_id'[v] = client_id[v]
        BY <1>3, <2>1, <3>2
      <4> QED
        BY <1>3, <4>1
    <3> QED
      BY <3>1, <3>2
  <2>5. client_id' \in [Worker -> Client] /\ served' \in 0..MaxAttempts
    BY <1>3, <2>1
  <2> QED
    BY <1>1, <1>2, <2>3, <2>4, <2>5 DEF TypeOK
<1>6. CASE Done(w)
  <2>1. /\ pc' = [pc EXCEPT ![w] = "idle"]
        /\ UNCHANGED <<client_id, now, served>>
    BY <1>6 DEF Done
  <2>2. pc' \in [Worker -> Place] /\ \A v \in Worker : Ready(v)'
    BY <1>3, <2>1
  <2> QED
    BY <1>1, <1>2, <1>3, <2>1, <2>2 DEF TypeOK
<1> QED
  BY <1>1, <1>4, <1>5, <1>6

LEMMA OthersKeep ==
    ASSUME IInv, NEW w \in Worker, Request(w) \/ ReadClock(w) \/ Done(w)
    PROVE  IInv'
<1>1. TypeOK' /\ UNCHANGED <<clock, client_last_seen, client_req_count, attempts, passed>>
  BY OthersTyped DEF IInv
<1>2. CountBacked'
  BY <1>1 DEF IInv, CountBacked
<1>3. NoFalseBlock'
  <2> SUFFICES ASSUME NEW v \in Worker, pc'[v] = "blocked"
               PROVE  attempts'[client_id'[v]][now'[v]] > Threshold
    BY DEF NoFalseBlock
  <2>1. pc \in [Worker -> {"idle", "stamp", "update", "pass", "blocked"}]
        /\ client_id \in [Worker -> Client] /\ now \in [Worker -> 0..clock]
    BY DEF IInv, TypeOK
  <2>2. \/ /\ \E c \in Client : client_id' = [client_id EXCEPT ![w] = c]
           /\ \E p \in {"stamp", "pass"} : pc' = [pc EXCEPT ![w] = p]
           /\ now' = now
        \/ /\ now' = [now EXCEPT ![w] = clock] /\ pc' = [pc EXCEPT ![w] = "update"]
           /\ client_id' = client_id
        \/ pc' = [pc EXCEPT ![w] = "idle"] /\ UNCHANGED <<client_id, now>>
    BY DEF Request, ReadClock, Done
  <2>3. v # w
    BY <2>1, <2>2
  <2>4. pc[v] = "blocked" /\ client_id'[v] = client_id[v] /\ now'[v] = now[v]
    BY <2>1, <2>2, <2>3
  <2> QED
    BY <1>1, <2>4 DEF IInv, NoFalseBlock
<1> QED
  BY <1>1, <1>2, <1>3 DEF IInv

\* The system clock.
LEMMA AdvanceKeeps == ASSUME IInv, Advance PROVE IInv'
<1>1. /\ clock \in Nat /\ clock' = clock + 1 /\ clock' \in Second
      /\ UNCHANGED <<client_last_seen, client_req_count, pc, client_id, now, attempts, passed, served>>
  BY RateAssumption DEF IInv, TypeOK, Advance, Second, segment, history
<1>2. 0..clock \subseteq 0..clock'
  BY <1>1
<1>3. TypeOK'
  BY <1>1, <1>2 DEF IInv, TypeOK
<1>4. CountBacked' /\ NoFalseBlock'
  BY <1>1 DEF IInv, CountBacked, NoFalseBlock
<1> QED
  BY <1>3, <1>4 DEF IInv

LEMMA NextInv == IInv /\ [Next]_vars => IInv'
<1> SUFFICES ASSUME IInv, [Next]_vars PROVE IInv'
  OBVIOUS
<1>1. CASE UNCHANGED vars
  BY <1>1 DEF vars, segment, history, IInv, TypeOK, CountBacked, NoFalseBlock
<1> QED
  BY <1>1, UpdateKeeps, OthersKeep, AdvanceKeeps DEF Next

LEMMA InvAlways == Spec => []IInv
BY InitInv, NextInv, PTL DEF Spec

\* Stamps are never ahead of the clock, and only ids inside the arrays reach them
\* (resource_service.c:60-65).
THEOREM TypeCorrect == Spec => []TypeOK
<1>1. IInv => TypeOK
  BY DEF IInv
<1> QED
  BY <1>1, InvAlways, PTL

\* A client is blocked only for a second in which it really sent more than three
\* requests, however late the workers that count them arrive.
THEOREM NeverFalselyBlocked == Spec => []NoFalseBlock
<1>1. IInv => NoFalseBlock
  BY DEF IInv
<1> QED
  BY <1>1, InvAlways, PTL

-----------------------------------------------------------------------------
(***************************************************************************)
(* How many requests of client c are let through with stamp t.  While      *)
(* second t lasts, a run of at most Threshold of them is cut short only by *)
(* a worker that comes with an older stamp, and each worker can do that    *)
(* once: after it, it reads the clock.  When the second is over, each      *)
(* worker that still has the stamp brings it once.  Nobody is both, and    *)
(* the one who ends a full run is blocked.                                 *)
(***************************************************************************)
W == Cardinality(Worker)

Late(c, t) == {w \in Worker : pc[w] = "update" /\ client_id[w] = c /\ now[w] < t}
Due(c, t) == {w \in Worker : pc[w] = "update" /\ client_id[w] = c /\ now[w] = t}

\* What is left of the run the counter is in.
Room(c) == IF client_req_count[c] >= 3 THEN 0 ELSE 3 - client_req_count[c]

\* While the second lasts.
Lasting(c, t) ==
    IF client_last_seen[c] = t
    THEN passed[c][t] + 3 * Cardinality(Late(c, t)) + Room(c) <= 3 * W
    ELSE passed[c][t] = 0 \/ passed[c][t] + 3 * Cardinality(Late(c, t)) + 3 <= 3 * W

\* When it is over: everybody may still be on the way to a counter that is full.
Over(c, t) ==
    \/ passed[c][t] + Cardinality(Due(c, t)) <= 3 * W + (W - 1)
    \/ /\ Due(c, t) = Worker /\ client_last_seen[c] = t
       /\ Room(c) = 0 /\ passed[c][t] <= 3 * W

Budget(c, t) ==
    /\ clock < t => passed[c][t] = 0
    /\ clock = t => Lasting(c, t)
    /\ clock > t => Over(c, t)

LEMMA WorkersCounted ==
    /\ W \in Nat \ {0} /\ IsFiniteSet(Worker)
    /\ \A S : S \subseteq Worker => IsFiniteSet(S) /\ Cardinality(S) \in 0..W
    /\ \A S, w : S \subseteq Worker /\ w \in Worker \ S => Cardinality(S) <= W - 1
    /\ \A S : S \subseteq Worker /\ S # Worker => Cardinality(S) <= W - 1
    /\ \A S, w : S \subseteq Worker /\ w \in S =>
          Cardinality(S \ {w}) = Cardinality(S) - 1 /\ Cardinality(S) \in Nat
<1>1. IsFiniteSet(Worker) /\ W \in Nat /\ W # 0
  BY WorkerAssumption, FS_CardinalityType, FS_EmptySet DEF W
<1>2. ASSUME NEW S, S \subseteq Worker
      PROVE  IsFiniteSet(S) /\ Cardinality(S) \in Nat /\ Cardinality(S) <= W
  BY <1>1, <1>2, FS_Subset, FS_CardinalityType DEF W
<1>3. ASSUME NEW S, S \subseteq Worker, NEW w \in Worker, w \notin S
      PROVE  Cardinality(S) <= W - 1
  <2>1. IsFiniteSet(S) /\ Cardinality(S) \in Nat
    BY <1>2, <1>3
  <2>2. Cardinality(S \cup {w}) = Cardinality(S) + 1
    BY <1>3, <2>1, FS_AddElement
  <2>3. Cardinality(S \cup {w}) <= W
    BY <1>2, <1>3
  <2> QED
    BY <1>1, <2>1, <2>2, <2>3
<1>4. ASSUME NEW S, S \subseteq Worker, NEW w \in S
      PROVE  Cardinality(S \ {w}) = Cardinality(S) - 1 /\ Cardinality(S) \in Nat
  <2>1. IsFiniteSet(S) /\ Cardinality(S) \in Nat
    BY <1>2, <1>4
  <2> QED
    BY <1>4, <2>1, FS_RemoveElement
<1>5. ASSUME NEW S, S \subseteq Worker, S # Worker
      PROVE  Cardinality(S) <= W - 1
  <2>1. PICK w \in Worker : w \notin S
    BY <1>5
  <2> QED
    BY <1>3, <1>5, <2>1
<1>6. \A S : S \subseteq Worker => IsFiniteSet(S) /\ Cardinality(S) \in 0..W
  BY <1>1, <1>2
<1> HIDE DEF W
<1> QED
  BY <1>1, <1>3, <1>4, <1>5, <1>6

LEMMA SetsTyped ==
    \A c, t : Late(c, t) \subseteq Worker /\ Due(c, t) \subseteq Worker
BY DEF Late, Due

LEMMA RoomTyped == ASSUME TypeOK, NEW c \in Client PROVE Room(c) \in 0..3
<1>1. client_req_count[c] \in Nat
  BY DEF TypeOK
<1> QED
  BY <1>1 DEF Room

\* Only the worker that updates leaves the sets.
LEMMA SetsCounts ==
    ASSUME TypeOK, NEW w \in Worker, NEW c \in Client, NEW t \in Second,
           NEW n \in Nat \ {0}, Counts(w, c, t, n), NEW d \in Client, NEW u \in Second
    PROVE  /\ Late(d, u)' = Late(d, u) \ {w} /\ Due(d, u)' = Due(d, u) \ {w}
           /\ w \in Late(d, u) <=> c = d /\ t < u
           /\ w \in Due(d, u) <=> c = d /\ t = u
<1>1. /\ pc[w] = "update" /\ client_id' = client_id /\ now' = now
      /\ c = client_id[w] /\ t = now[w]
      /\ pc' = [pc EXCEPT ![w] = "blocked"] \/ pc' = [pc EXCEPT ![w] = "pass"]
  BY DEF Counts
<1>2. pc \in [Worker -> {"idle", "stamp", "update", "pass", "blocked"}]
  BY DEF TypeOK
<1>3. \A v \in Worker : pc'[v] = "update" <=> pc[v] = "update" /\ v # w
  BY <1>1, <1>2
<1> QED
  BY <1>1, <1>3 DEF Late, Due

\* A worker that reads the clock brings nothing old.
LEMMA SetsOthers ==
    ASSUME TypeOK, NEW w \in Worker, Request(w) \/ ReadClock(w) \/ Done(w),
           NEW d \in Client, NEW u \in Second
    PROVE  /\ clock >= u => Late(d, u)' = Late(d, u)
           /\ clock > u => Due(d, u)' = Due(d, u)
<1>1. /\ pc \in [Worker -> {"idle", "stamp", "update", "pass", "blocked"}]
      /\ client_id \in [Worker -> Client] /\ now \in [Worker -> 0..clock]
  BY DEF TypeOK
<1>2. \/ /\ pc[w] = "idle" /\ now' = now
         /\ \E c \in Client : client_id' = [client_id EXCEPT ![w] = c]
         /\ \E p \in {"stamp", "pass"} : pc' = [pc EXCEPT ![w] = p]
      \/ /\ pc[w] = "stamp" /\ now' = [now EXCEPT ![w] = clock]
         /\ pc' = [pc EXCEPT ![w] = "update"] /\ client_id' = client_id
      \/ /\ pc[w] \in {"pass", "blocked"} /\ pc' = [pc EXCEPT ![w] = "idle"]
         /\ UNCHANGED <<client_id, now>>
  BY DEF Request, ReadClock, Done
<1>3. \A v \in Worker : v # w =>
          pc'[v] = pc[v] /\ client_id'[v] = client_id[v] /\ now'[v] = now[v]
  BY <1>1, <1>2
<1>4. pc[w] # "update" /\ (pc'[w] = "update" => now'[w] = clock)
  BY <1>1, <1>2
<1>5. clock \in Nat /\ u \in Nat
  BY ClockTyped, RateAssumption DEF Second
<1>6. ASSUME clock >= u PROVE Late(d, u)' = Late(d, u)
  BY <1>3, <1>4, <1>5, <1>6 DEF Late
<1>7. ASSUME clock > u PROVE Due(d, u)' = Due(d, u)
  BY <1>3, <1>4, <1>5, <1>7 DEF Due
<1> QED
  BY <1>6, <1>7

LEMMA BudgetOthers ==
    ASSUME TypeOK, NEW w \in Worker, Request(w) \/ ReadClock(w) \/ Done(w),
           NEW d \in Client, NEW u \in Second, Budget(d, u)
    PROVE  Budget(d, u)'
<1>1. UNCHANGED <<clock, client_last_seen, client_req_count, passed>>
  BY OthersTyped
<1>2. Room(d)' = Room(d)
  BY <1>1 DEF Room
<1>3. /\ clock >= u => Late(d, u)' = Late(d, u)
      /\ clock > u => Due(d, u)' = Due(d, u)
  BY SetsOthers
<1>4. clock \in Nat /\ u \in Nat
  BY ClockTyped, RateAssumption DEF Second
<1>5. clock = u => Lasting(d, u)'
  BY <1>1, <1>2, <1>3, <1>4 DEF Budget, Lasting
<1>6. clock > u => Over(d, u)'
  BY <1>1, <1>2, <1>3, <1>4 DEF Budget, Over
<1> QED
  BY <1>1, <1>5, <1>6 DEF Budget

\* The second ends: whoever has its stamp may still bring it, and only a counter
\* that is full can have all of them against it.
LEMMA BudgetAdvance ==
    ASSUME TypeOK, Advance, NEW d \in Client, NEW u \in Second, Budget(d, u)
    PROVE  Budget(d, u)'
<1>1. /\ clock' = clock + 1
      /\ UNCHANGED <<client_last_seen, client_req_count, passed, pc, client_id, now>>
  BY DEF Advance, segment, history
<1>2. Room(d)' = Room(d) /\ Late(d, u)' = Late(d, u) /\ Due(d, u)' = Due(d, u)
  BY <1>1 DEF Room, Late, Due
<1>3. clock \in Nat /\ u \in Nat
  BY ClockTyped, RateAssumption DEF Second
<1>4. Room(d) \in 0..3 /\ passed[d][u] \in Nat /\ client_last_seen[d] \in 0..clock
  BY RoomTyped, CountersNat
<1>5. /\ W \in Nat \ {0}
      /\ Cardinality(Late(d, u)) \in 0..W /\ Cardinality(Due(d, u)) \in 0..W
      /\ Due(d, u) # Worker => Cardinality(Due(d, u)) <= W - 1
  BY WorkersCounted, SetsTyped
<1>6. CASE clock < u
  <2>1. passed[d][u] = 0 /\ client_last_seen[d] # u
    BY <1>3, <1>4, <1>6 DEF Budget
  <2>2. Lasting(d, u)'
    BY <1>1, <2>1 DEF Lasting
  <2> QED
    BY <1>1, <1>3, <1>6, <2>1, <2>2 DEF Budget
<1>7. CASE clock = u
  <2>1. Lasting(d, u)
    BY <1>7 DEF Budget
  <2>2. passed[d][u] <= 3 * W
    BY <1>4, <1>5, <2>1 DEF Lasting
  <2>3. \/ passed[d][u] + W <= 3 * W + (W - 1)
        \/ client_last_seen[d] = u /\ Room(d) = 0
    BY <1>4, <1>5, <2>1 DEF Lasting
  <2>4. Over(d, u)
    BY <1>4, <1>5, <2>2, <2>3 DEF Over
  <2>5. Over(d, u)'
    BY <1>1, <1>2, <2>4 DEF Over
  <2> QED
    BY <1>1, <1>3, <1>7, <2>5 DEF Budget
<1>8. CASE clock > u
  <2>1. Over(d, u)'
    BY <1>1, <1>2, <1>8 DEF Budget, Over
  <2> QED
    BY <1>1, <1>3, <1>8, <2>1 DEF Budget
<1> QED
  BY <1>3, <1>6, <1>7, <1>8

\* What one update does to the account of client d in second u.
LEMMA CountsLedger ==
    ASSUME TypeOK, NEW w \in Worker, NEW c \in Client, NEW t \in Second,
           NEW n \in Nat \ {0}, Counts(w, c, t, n), NEW d \in Client, NEW u \in Second
    PROVE  /\ clock' = clock /\ t <= clock
           /\ c # d => client_last_seen'[d] = client_last_seen[d] /\ Room(d)' = Room(d)
           /\ c = d => client_last_seen'[d] = t
           /\ c # d \/ t # u => passed'[d][u] = passed[d][u]
           /\ c = d /\ t = u =>
                \/ passed'[d][u] = passed[d][u] /\ n > 3 /\ Room(d)' = 0
                \/ passed'[d][u] = passed[d][u] + 1 /\ n <= 3 /\ Room(d)' = 3 - n
           /\ c = d => n = IF client_last_seen[d] = t THEN client_req_count[d] + 1 ELSE 1
<1>1. /\ clock' = clock /\ t \in 1..clock
      /\ n = IF client_last_seen[c] = t THEN client_req_count[c] + 1 ELSE 1
      /\ client_last_seen' = [client_last_seen EXCEPT ![c] = t]
      /\ client_req_count' = [client_req_count EXCEPT ![c] = n]
      /\ \/ n > 3 /\ passed' = passed
         \/ n <= 3 /\ passed' = [passed EXCEPT ![c][t] = @ + 1]
  BY DEF Counts
<1>2. /\ client_last_seen \in [Client -> 0..clock] /\ client_req_count \in [Client -> Nat]
      /\ passed \in [Client -> [Second -> Nat]]
  BY DEF TypeOK
<1>3. /\ c # d => client_last_seen'[d] = client_last_seen[d] /\ client_req_count'[d] = client_req_count[d]
      /\ c = d => client_last_seen'[d] = t /\ client_req_count'[d] = n
  BY <1>1, <1>2
<1>4. \/ n > 3 /\ passed' = passed
      \/ /\ n <= 3 /\ passed'[c][t] = passed[c][t] + 1
         /\ c # d \/ t # u => passed'[d][u] = passed[d][u]
  BY <1>1, <1>2, Bumped
<1>5. /\ c # d => Room(d)' = Room(d)
      /\ c = d => Room(d)' = IF n >= 3 THEN 0 ELSE 3 - n
  BY <1>3 DEF Room
<1>6. t <= clock
  BY <1>1, ClockTyped
<1> QED
  BY <1>1, <1>3, <1>4, <1>5, <1>6

\* resource_service.c:68-82: an old stamp cuts a run short, a stamp of the second
\* uses one place of it.
LEMMA BudgetUpdate ==
    ASSUME TypeOK, NEW w \in Worker, Update(w),
           NEW d \in Client, NEW u \in Second, Budget(d, u)
    PROVE  Budget(d, u)'
<1>1. PICK c \in Client, t \in Second, n \in Nat \ {0} : Counts(w, c, t, n)
  BY UpdateCounts
<1>2. /\ clock' = clock /\ t <= clock
      /\ c # d => client_last_seen'[d] = client_last_seen[d] /\ Room(d)' = Room(d)
      /\ c = d => client_last_seen'[d] = t
      /\ c # d \/ t # u => passed'[d][u] = passed[d][u]
      /\ c = d /\ t = u =>
           \/ passed'[d][u] = passed[d][u] /\ n > 3 /\ Room(d)' = 0
           \/ passed'[d][u] = passed[d][u] + 1 /\ n <= 3 /\ Room(d)' = 3 - n
      /\ c = d => n = IF client_last_seen[d] = t THEN client_req_count[d] + 1 ELSE 1
  BY <1>1, CountsLedger
<1>3. /\ Late(d, u)' = Late(d, u) \ {w} /\ Due(d, u)' = Due(d, u) \ {w}
      /\ w \in Late(d, u) <=> c = d /\ t < u
      /\ w \in Due(d, u) <=> c = d /\ t = u
  BY <1>1, SetsCounts
<1>4. clock \in Nat /\ u \in Nat /\ t \in Nat /\ n \in Nat \ {0} /\ passed[d][u] \in Nat
  BY ClockTyped, CountersNat, RateAssumption DEF Second
<1>5. Room(d) \in 0..3 /\ client_req_count[d] \in Nat
  BY RoomTyped, CountersNat
<1>6. W \in Nat \ {0}
  BY WorkersCounted
<1>7. CASE w \notin Late(d, u) /\ w \notin Due(d, u)
  <2>1. Late(d, u)' = Late(d, u) /\ Due(d, u)' = Due(d, u)
    BY <1>3, <1>7
  <2>2. Due(d, u) # Worker
    BY <1>7
  <2>3. passed'[d][u] = passed[d][u]
    BY <1>2, <1>3, <1>7
  <2>4. CASE clock = u
    <3>1. c # d
      BY <1>2, <1>3, <1>4, <1>7, <2>4
    <3>2. client_last_seen'[d] = client_last_seen[d] /\ Room(d)' = Room(d)
      BY <1>2, <3>1
    <3>3. Lasting(d, u)'
      BY <2>1, <2>3, <2>4, <3>2 DEF Budget, Lasting
    <3> QED
      BY <1>2, <1>4, <2>4, <3>3 DEF Budget
  <2>5. CASE clock > u
    <3>1. passed[d][u] + Cardinality(Due(d, u)) <= 3 * W + (W - 1)
      BY <2>2, <2>5 DEF Budget, Over
    <3>2. Over(d, u)'
      BY <2>1, <2>3, <3>1 DEF Over
    <3> QED
      BY <1>2, <1>4, <2>5, <3>2 DEF Budget
  <2> QED
    BY <1>2, <1>4, <2>3, <2>4, <2>5 DEF Budget
<1>8. CASE w \in Late(d, u)
  <2>1. c = d /\ t < u /\ client_last_seen'[d] = t /\ passed'[d][u] = passed[d][u]
    BY <1>2, <1>3, <1>4, <1>8
  <2>2. /\ Cardinality(Late(d, u)') = Cardinality(Late(d, u)) - 1
        /\ Cardinality(Late(d, u)) \in Nat
    BY <1>3, <1>8, WorkersCounted, SetsTyped
  <2>3. w \notin Due(d, u)
    BY <1>3, <1>4, <2>1
  <2>4. CASE clock = u
    <3>1. Lasting(d, u)
      BY <2>4 DEF Budget
    <3>2. Lasting(d, u)'
      BY <1>4, <1>5, <1>6, <2>1, <2>2, <3>1 DEF Lasting
    <3> QED
      BY <1>2, <1>4, <2>4, <3>2 DEF Budget
  <2>5. CASE clock > u
    <3>1. Due(d, u)' = Due(d, u) /\ Due(d, u) # Worker
      BY <1>3, <2>3
    <3>2. passed[d][u] + Cardinality(Due(d, u)) <= 3 * W + (W - 1)
      BY <2>5, <3>1 DEF Budget, Over
    <3>3. Over(d, u)'
      BY <2>1, <3>1, <3>2 DEF Over
    <3> QED
      BY <1>2, <1>4, <2>5, <3>3 DEF Budget
  <2> QED
    BY <1>2, <1>4, <2>1, <2>4, <2>5 DEF Budget
<1>9. CASE w \in Due(d, u)
  <2>1. c = d /\ t = u /\ client_last_seen'[d] = u
    BY <1>2, <1>3, <1>9
  <2>2. \/ passed'[d][u] = passed[d][u] /\ n > 3 /\ Room(d)' = 0
        \/ passed'[d][u] = passed[d][u] + 1 /\ n <= 3 /\ Room(d)' = 3 - n
    BY <1>2, <2>1
  <2>3. n = IF client_last_seen[d] = u THEN client_req_count[d] + 1 ELSE 1
    BY <1>2, <2>1
  <2>4. CASE clock = u
    <3>1. w \notin Late(d, u)
      BY <1>3, <1>4, <2>1
    <3>2. Late(d, u)' = Late(d, u)
      BY <1>3, <3>1
    <3>3. Cardinality(Late(d, u)) \in Nat /\ Cardinality(Late(d, u)) <= W - 1
      BY <1>6, <3>1, WorkersCounted, SetsTyped
    <3>4. Lasting(d, u)
      BY <2>4 DEF Budget
    <3>5. passed'[d][u] + 3 * Cardinality(Late(d, u)') + Room(d)' <= 3 * W
      <4> DEFINE L == Cardinality(Late(d, u))
      <4>1. CASE client_last_seen[d] = u
        <5>1. passed[d][u] + 3 * L + Room(d) <= 3 * W
          BY <3>4, <4>1 DEF Lasting
        <5>2. Room(d) = IF n >= 4 THEN 0 ELSE 4 - n
          BY <1>4, <1>5, <2>3, <4>1 DEF Room
        <5> HIDE DEF L
        <5> QED
          BY <1>4, <1>6, <2>2, <3>2, <3>3, <5>1, <5>2 DEF L
      <4>2. CASE client_last_seen[d] # u
        <5>1. passed[d][u] = 0 \/ passed[d][u] + 3 * L + 3 <= 3 * W
          BY <3>4, <4>2 DEF Lasting
        <5>2. n = 1
          BY <2>3, <4>2
        <5> HIDE DEF L
        <5> QED
          BY <1>4, <1>6, <2>2, <3>2, <3>3, <5>1, <5>2 DEF L
      <4> QED
        BY <4>1, <4>2
    <3>6. Lasting(d, u)'
      BY <2>1, <3>5 DEF Lasting
    <3> QED
      BY <1>2, <1>4, <2>4, <3>6 DEF Budget
  <2>5. CASE clock > u
    <3>1. /\ Cardinality(Due(d, u)') = Cardinality(Due(d, u)) - 1
          /\ Cardinality(Due(d, u)) \in Nat /\ Cardinality(Due(d, u)) <= W
      BY <1>3, <1>6, <1>9, WorkersCounted, SetsTyped
    <3>2. Over(d, u)
      BY <2>5 DEF Budget
    <3>3. ASSUME passed[d][u] + Cardinality(Due(d, u)) <= 3 * W + (W - 1)
          PROVE  Over(d, u)'
      BY <1>4, <1>6, <2>2, <3>1, <3>3 DEF Over
    <3>4. ASSUME client_last_seen[d] = u, Room(d) = 0, passed[d][u] <= 3 * W
          PROVE  Over(d, u)'
      <4>1. n > 3
        BY <1>5, <2>3, <3>4 DEF Room
      <4>2. passed'[d][u] = passed[d][u]
        BY <1>4, <2>2, <4>1
      <4> QED
        BY <1>4, <1>6, <3>1, <3>4, <4>2 DEF Over
    <3>5. Over(d, u)'
      BY <3>2, <3>3, <3>4 DEF Over
    <3> QED
      BY <1>2, <1>4, <2>5, <3>5 DEF Budget
  <2>6. clock >= u
    BY <1>2, <1>4, <2>1
  <2> QED
    BY <1>2, <1>4, <2>4, <2>5, <2>6 DEF Budget
<1> QED
  BY <1>7, <1>8, <1>9

Budgets == \A c \in Client, t \in Second : Budget(c, t)

LEMMA BudgetsInit == Init => Budgets
<1> SUFFICES ASSUME Init, NEW c \in Client, NEW t \in Second PROVE Budget(c, t)
  BY DEF Budgets
<1>1. passed[c][t] = 0 /\ client_last_seen[c] = 0 /\ clock = 1 /\ t \in Nat /\ t >= 1
  BY RateAssumption DEF Init, Second
<1> QED
  BY <1>1 DEF Budget, Lasting

LEMMA BudgetsNext == TypeOK /\ Budgets /\ [Next]_vars => Budgets'
<1> SUFFICES ASSUME TypeOK, Budgets, [Next]_vars, NEW d \in Client, NEW u \in Second
             PROVE  Budget(d, u)'
  BY DEF Budgets, Second
<1>1. Budget(d, u)
  BY DEF Budgets
<1>2. CASE UNCHANGED vars
  <2>1. /\ UNCHANGED <<clock, client_last_seen, passed>>
        /\ Room(d)' = Room(d) /\ Late(d, u)' = Late(d, u) /\ Due(d, u)' = Due(d, u)
    BY <1>2 DEF vars, segment, history, Room, Late, Due
  <2> QED
    BY <1>1, <2>1 DEF Budget, Lasting, Over
<1> QED
  BY <1>1, <1>2, BudgetUpdate, BudgetOthers, BudgetAdvance DEF Next

LEMMA BudgetsBound == TypeOK /\ Budgets => PassBound
<1> SUFFICES ASSUME TypeOK, Budgets, NEW c \in Client, NEW t \in Second
             PROVE  passed[c][t] <= 3 * W + (W - 1)
  BY DEF PassBound, Threshold, W
<1>1. clock \in Nat /\ t \in Nat /\ passed[c][t] \in Nat /\ Room(c) \in 0..3
  BY ClockTyped, CountersNat, RoomTyped, RateAssumption DEF Second
<1>2. /\ W \in Nat \ {0}
      /\ Cardinality(Late(c, t)) \in 0..W /\ Cardinality(Due(c, t)) \in 0..W
  BY WorkersCounted, SetsTyped
<1>3. /\ clock < t => passed[c][t] = 0
      /\ clock = t => Lasting(c, t)
      /\ clock > t => Over(c, t)
  BY DEF Budgets, Budget
<1>4. CASE clock = t
  <2>1. passed[c][t] <= 3 * W
    BY <1>1, <1>2, <1>3, <1>4 DEF Lasting
  <2> QED
    BY <1>1, <1>2, <2>1
<1>5. CASE clock > t
  BY <1>1, <1>2, <1>3, <1>5 DEF Over
<1> QED
  BY <1>1, <1>2, <1>3, <1>4, <1>5

\* However the workers interleave and however late their stamps are, a second
\* lets through at most Threshold * W + (W - 1) requests of a client
\* (resource_service.c:65-77).
THEOREM PassesBounded == Spec => []PassBound
<1>1. Init => IInv /\ Budgets
  BY InitInv, BudgetsInit
<1>2. IInv /\ Budgets /\ [Next]_vars => (IInv /\ Budgets)'
  BY NextInv, BudgetsNext DEF IInv
<1>3. IInv /\ Budgets => PassBound
  BY BudgetsBound DEF IInv
<1> QED
  BY <1>1, <1>2, <1>3, PTL DEF Spec

=============================================================================
