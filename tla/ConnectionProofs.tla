-------------------------- MODULE ConnectionProofs ---------------------------
(***************************************************************************)
(* Both ends of every connection agree on the key and on what was booked,  *)
(* for any number of riders, attempts and workers.                         *)
(*                                                                         *)
(* A connection is untouched until its rider has connected; then it is in  *)
(* the backlog, served by one worker, or over.  Each of these says what    *)
(* can be under way on it and what its two ends know.  An action concerns  *)
(* one connection, and every other keeps what holds of it (FrameConn).     *)
(***************************************************************************)
EXTENDS Connection, FiniteSetTheorems, TLAPS

Active(c) == attempt[c[1]] = c[2] /\ cpc[c[1]] \in {"hello", "asked"}
Started(c) == Active(c) \/ c \in gone
InBacklog(c) == \E i \in 1..Len(backlog) : backlog[i] = c
Idle(c) == \A w \in Worker : serving[w] # c

Untouched(c) ==
    /\ up[c] = <<>> /\ down[c] = <<>> /\ outcome[c] = "none"
    /\ c \notin hung /\ ~InBacklog(c) /\ Idle(c)

\* The rider of a connection nobody has answered yet waits, or has given up.
Unanswered(c) ==
    /\ Started(c) /\ c \notin hung
    /\ result[c] \in {"none", "silence"}

Queued(c) ==
    /\ Unanswered(c) /\ Idle(c)
    /\ up[c] = <<Hello(c)>> /\ down[c] = <<>> /\ outcome[c] = "none"
    /\ c \notin gone => cpc[c[1]] = "hello"

\* Before the hello is read; when it has been; when the request is under way.
Greeting(c) ==
    /\ up[c] = <<Hello(c)>> /\ down[c] = <<>>
    /\ c \notin gone => cpc[c[1]] = "hello"
Greeted(w, c) ==
    /\ up[c] = <<>> /\ wkey[w] = Shared(c, w)
    /\ c \notin gone => cpc[c[1]] = "hello" /\ down[c] = <<Ack(w)>>
Asking(w, c) ==
    /\ up[c] = <<Request(Shared(c, w))>> /\ down[c] = <<>> /\ wkey[w] = Shared(c, w)
    /\ c \notin gone => cpc[c[1]] = "asked" /\ rkey[c[1]] = Shared(c, w)

\* From reading the request to answering it.
Handled(w, c) ==
    /\ up[c] = <<>> /\ down[c] = <<>> /\ wkey[w] = Shared(c, w)
    /\ c \notin gone => cpc[c[1]] = "asked" /\ rkey[c[1]] = Shared(c, w)

ServedBy(w, c) ==
    /\ Unanswered(c) /\ ~InBacklog(c)
    /\ \A v \in Worker : serving[v] = c => v = w
    /\ wpc[w] = "recv" =>
          outcome[c] = "none" /\ (Greeting(c) \/ Greeted(w, c) \/ Asking(w, c))
    /\ wpc[w] \in {"check", "deny", "ride", "answer"} => Handled(w, c)
    /\ wpc[w] \in {"check", "ride"} => outcome[c] = "none"
    /\ wpc[w] = "deny" => outcome[c] = "blocked"
    /\ wpc[w] = "answer" => outcome[c] \in {"booked", "nodriver"}

Text(out) == IF out = "booked" THEN "Ride Confirmed!" ELSE "Error: No drivers available."

\* Closed by the server: an answer that fits the outcome is there, or was never due.
Over(c) ==
    /\ Started(c) /\ Idle(c) /\ ~InBacklog(c)
    /\ c \notin gone =>
          \/ down[c] = <<>> /\ outcome[c] \in {"none", "blocked"}
          \/ /\ down[c] = <<Answer(rkey[c[1]], Text(outcome[c]))>>
             /\ outcome[c] \in {"booked", "nodriver"} /\ cpc[c[1]] = "asked"
    /\ result[c] = "success" => outcome[c] = "booked"
    /\ outcome[c] = "booked" => result[c] \in {"none", "success", "silence"}

ConnInv(c) ==
    /\ ~Started(c) => Untouched(c)
    /\ InBacklog(c) => Queued(c)
    /\ \A w \in Worker : serving[w] = c => ServedBy(w, c)
    /\ c \in hung => Over(c)
    /\ Started(c) => InBacklog(c) \/ c \in hung \/ ~Idle(c)
    /\ c \notin gone => result[c] = "none"
    /\ c \in gone => down[c] = <<>>

\* A rider has closed the connections of its earlier attempts at most, and the present
\* one once it counts; it has not succeeded more often than it tried.
RiderInv(r) ==
    /\ cpc[r] \in {"hello", "asked", "count"} => attempt[r] <= Attempts
    /\ success_local_count[r] < attempt[r]
    /\ \A a \in 1..Attempts :
          <<r, a>> \in gone => a < attempt[r] \/ (a = attempt[r] /\ cpc[r] = "count")

Shape ==
    /\ up = [c \in Conn |-> up[c]] /\ down = [c \in Conn |-> down[c]]
    /\ serving = [w \in Worker |-> serving[w]]
    /\ backlog \in Seq(Conn)
    /\ \A i, j \in 1..Len(backlog) : backlog[i] = backlog[j] => i = j

IInv ==
    /\ TypeOK /\ Shape
    /\ \A r \in Rider : RiderInv(r)
    /\ \A c \in Conn : ConnInv(c)

-----------------------------------------------------------------------------
LEMMA Attempted == Attempts \in Nat /\ Attempts >= 1 /\ NoConn \notin Conn
  BY ConnectionAssumption, NoConnAssumption

LEMMA ConnParts ==
    /\ \A r \in Rider, a \in 1..Attempts : <<r, a>> \in Conn
    /\ \A c \in Conn : c[1] \in Rider /\ c[2] \in 1..Attempts /\ c = <<c[1], c[2]>>
  BY DEF Conn

\* Queues hold one message at most.
LEMMA OneMessage ==
    ASSUME NEW m
    PROVE  /\ <<m>> # <<>> /\ Head(<<m>>) = m /\ Tail(<<m>>) = <<>> /\ Append(<<>>, m) = <<m>>
  OBVIOUS

\* The four kinds of packet are told apart.
LEMMA Kinds ==
    ASSUME NEW c, NEW w, NEW k, NEW t
    PROVE  /\ Hello(c).kind = "handshake" /\ Hello(c).public = c
           /\ Ack(w).kind = "ack" /\ Ack(w).public = w
           /\ Request(k).kind = "request" /\ Request(k).key = k
           /\ Answer(k, t).kind = "answer" /\ Answer(k, t).key = k /\ Answer(k, t).text = t
  BY DEF Hello, Ack, Request, Answer

LEMMA SharedKey ==
    ASSUME NEW c, NEW w
    PROVE  Shared(c, w) = Shared(w, c) /\ Shared(c, w) # NoKey
  BY DEF Shared, NoKey

LEMMA RangeBacklog ==
    ASSUME backlog \in Seq(Conn), NEW c
    PROVE  c \in Range(backlog) <=> InBacklog(c)
  BY DEF Range, InBacklog

-----------------------------------------------------------------------------
\* What ConnInv says of a connection depends on this much of the state.
Same(d) ==
    /\ up'[d] = up[d] /\ down'[d] = down[d]
    /\ result'[d] = result[d] /\ outcome'[d] = outcome[d]
    /\ d \in gone' <=> d \in gone
    /\ d \in hung' <=> d \in hung
    /\ InBacklog(d)' <=> InBacklog(d)
    /\ Active(d)' <=> Active(d)
    /\ Active(d) => cpc'[d[1]] = cpc[d[1]] /\ rkey'[d[1]] = rkey[d[1]]
    /\ \A w \in Worker : /\ serving'[w] = d <=> serving[w] = d
                         /\ serving[w] = d => wpc'[w] = wpc[w] /\ wkey'[w] = wkey[w]

LEMMA FrameConn ==
    ASSUME NEW d \in Conn, ConnInv(d), Same(d)
    PROVE  ConnInv(d)'
<1>1. (Started(d)' <=> Started(d)) /\ (Idle(d)' <=> Idle(d))
  BY DEF Same, Started, Idle
<1>2. Unanswered(d) => Unanswered(d)'
  BY <1>1 DEF Same, Unanswered
<1>3. Untouched(d) => Untouched(d)'
  BY <1>1 DEF Same, Untouched
<1>4. Queued(d) => Queued(d)'
  BY <1>1, <1>2 DEF Same, Queued, Unanswered, Started
<1>5. ASSUME NEW w \in Worker, serving[w] = d, ServedBy(w, d) PROVE ServedBy(w, d)'
  <2>1. Unanswered(d)' /\ ~InBacklog(d)' /\ \A v \in Worker : serving'[v] = d => v = w
    BY <1>2, <1>5 DEF Same, ServedBy
  <2>2. d \notin gone => Active(d)
    BY <1>5 DEF ServedBy, Unanswered, Started
  <2>3. Greeting(d) => Greeting(d)'
    BY <2>2 DEF Same, Greeting
  <2>4. Greeted(w, d) => Greeted(w, d)'
    BY <1>5, <2>2 DEF Same, Greeted
  <2>5. Asking(w, d) => Asking(w, d)'
    BY <1>5, <2>2 DEF Same, Asking
  <2>6. Handled(w, d) => Handled(w, d)'
    BY <1>5, <2>2 DEF Same, Handled
  <2> QED
    BY <1>5, <2>1, <2>3, <2>4, <2>5, <2>6 DEF Same, ServedBy
<1>6. Over(d) => Over(d)'
  BY <1>1 DEF Same, Over, Started
<1> QED
  BY <1>1, <1>3, <1>4, <1>5, <1>6 DEF Same, ConnInv

\* A rider's step concerns its present connection only.
LEMMA RiderFrame ==
    ASSUME IInv, NEW r \in Rider, NEW d \in Conn, d # Current(r),
           UNCHANGED <<outcome, wpc, wkey, serving>>,
           up'[d] = up[d], down'[d] = down[d], result'[d] = result[d],
           d \in gone' <=> d \in gone, d \in hung' <=> d \in hung,
           InBacklog(d)' <=> InBacklog(d),
           \/ attempt' = attempt
           \/ cpc'[r] = "connect" /\ attempt' = [attempt EXCEPT ![r] = @ + 1],
           \A s \in Rider \ {r} : cpc'[s] = cpc[s] /\ rkey'[s] = rkey[s]
    PROVE  ConnInv(d)'
<1>1. ConnInv(d) /\ d[1] \in Rider /\ d = <<d[1], d[2]>>
  BY ConnParts DEF IInv
<1>2. attempt \in [Rider -> 1..(Attempts + 1)]
  BY DEF IInv, TypeOK
<1>3. d[1] = r => d[2] # attempt[r]
  BY <1>1 DEF Current
<1>4. d[1] = r => ~Active(d) /\ ~Active(d)'
  BY <1>2, <1>3 DEF Active
<1>5. d[1] # r => attempt'[d[1]] = attempt[d[1]]
  BY <1>1, <1>2
<1>6. Same(d)
  BY <1>1, <1>4, <1>5 DEF Same, Active
<1> QED
  BY <1>1, <1>6, FrameConn

\* A worker's step concerns the connection it serves before or after it.
LEMMA WorkerFrame ==
    ASSUME IInv, NEW w \in Worker, NEW d \in Conn, serving[w] # d, serving'[w] # d,
           UNCHANGED <<attempt, cpc, rkey, result>>,
           up'[d] = up[d], down'[d] = down[d], outcome'[d] = outcome[d],
           d \in gone' <=> d \in gone, d \in hung' <=> d \in hung,
           InBacklog(d)' <=> InBacklog(d),
           \A v \in Worker \ {w} :
              serving'[v] = serving[v] /\ wpc'[v] = wpc[v] /\ wkey'[v] = wkey[v]
    PROVE  ConnInv(d)'
<1>1. ConnInv(d)
  BY DEF IInv
<1>2. Same(d)
  BY DEF Same, Active
<1> QED
  BY <1>1, <1>2, FrameConn


-----------------------------------------------------------------------------
(***************************************************************************)
(* The rider.                                                              *)
(***************************************************************************)
LEMMA RiderSees ==
    ASSUME IInv, NEW r \in Rider, cpc[r] \in {"hello", "asked"}
    PROVE  LET c == Current(r)
           IN  /\ c \in Conn /\ c[1] = r /\ Active(c) /\ c \notin gone /\ result[c] = "none"
               /\ ConnInv(c)
               /\ attempt[r] \in 1..Attempts
<1>1. attempt[r] \in 1..Attempts /\ attempt[r] \in 1..(Attempts + 1)
  BY Attempted DEF IInv, TypeOK, RiderInv
<1>2. Current(r) \in Conn /\ Current(r)[1] = r /\ Current(r)[2] = attempt[r]
  BY <1>1, ConnParts DEF Current
<1>3. Active(Current(r))
  BY <1>2 DEF Active
<1>4. Current(r) \notin gone
  BY <1>1 DEF IInv, RiderInv, Current
<1>5. ConnInv(Current(r))
  BY <1>2 DEF IInv
<1> QED
  BY <1>1, <1>2, <1>3, <1>4, <1>5 DEF ConnInv

\* Before it has asked, a rider can only hear the worker's key; afterwards, only an
\* answer enciphered with its own key that says what was done, on a closed connection.
LEMMA RiderHears ==
    ASSUME IInv, NEW r \in Rider, cpc[r] \in {"hello", "asked"}, down[Current(r)] # <<>>
    PROVE  LET c == Current(r)
           IN  \/ /\ cpc[r] = "hello" /\ outcome[c] = "none"
                  /\ \E w \in Worker : /\ serving[w] = c /\ wpc[w] = "recv"
                                       /\ Greeted(w, c) /\ down[c] = <<Ack(w)>>
               \/ /\ cpc[r] = "asked" /\ c \in hung
                  /\ outcome[c] \in {"booked", "nodriver"}
                  /\ down[c] = <<Answer(rkey[r], Text(outcome[c]))>>
<1> DEFINE c == Current(r)
<1>1. c \in Conn /\ c[1] = r /\ Active(c) /\ c \notin gone /\ ConnInv(c)
  BY RiderSees
<1>2. down[c] # <<>>
  OBVIOUS
<1> HIDE DEF c
<1>3. ~InBacklog(c)
  BY <1>1, <1>2 DEF ConnInv, Queued
<1>4. CASE c \in hung
  <2>1. Over(c)
    BY <1>1, <1>4 DEF ConnInv
  <2> QED
    BY <1>1, <1>2, <1>4, <2>1 DEF Over, c
<1>5. CASE c \notin hung
  <2>1. PICK w \in Worker : serving[w] = c
    BY <1>1, <1>3, <1>5 DEF ConnInv, Started, Idle
  <2>2. ServedBy(w, c)
    BY <1>1, <2>1 DEF ConnInv
  <2>3. wpc[w] \in {"recv", "check", "deny", "ride", "answer"}
    <3>1. c # NoConn
      BY <1>1, Attempted
    <3>2. wpc[w] \in {"accept", "recv", "check", "deny", "ride", "answer", "dead"}
      BY DEF IInv, TypeOK
    <3> QED
      BY <2>1, <3>1, <3>2 DEF IInv, TypeOK
  <2>4. wpc[w] = "recv" /\ Greeted(w, c)
    BY <1>2, <2>2, <2>3 DEF ServedBy, Greeting, Asking, Handled
  <2> QED
    BY <1>1, <2>1, <2>2, <2>4 DEF ServedBy, Greeted, c
<1> QED
  BY <1>4, <1>5

LEMMA InitInv == Init => IInv
<1> SUFFICES ASSUME Init PROVE IInv
  OBVIOUS
<1>1. TypeOK
  <2>1. Range(backlog) = {}
    BY DEF Init, Range
  <2> QED
    BY <2>1, Attempted DEF Init, TypeOK, NoKey
<1>2. Shape
  BY DEF Init, Shape
<1>3. \A r \in Rider : RiderInv(r)
  BY DEF Init, RiderInv
<1>4. ASSUME NEW c \in Conn PROVE ConnInv(c)
  <2>1. ~Started(c) /\ ~InBacklog(c) /\ Idle(c)
    BY <1>4, ConnParts, Attempted DEF Init, Started, Active, InBacklog, Idle
  <2> QED
    BY <1>4, <2>1 DEF Init, ConnInv, Untouched, Idle
<1> QED
  BY <1>1, <1>2, <1>3, <1>4 DEF IInv

\* A refused connection leaves everything untouched; an accepted one is queued.
LEMMA ConnectInv ==
    ASSUME IInv, NEW r \in Rider, Connect(r)
    PROVE  IInv'
<1>1. /\ attempt[r] \in 1..Attempts /\ attempt \in [Rider -> 1..(Attempts + 1)]
      /\ cpc[r] = "connect" /\ cpc \in [Rider -> {"connect", "hello", "asked", "count", "done"}]
  BY Attempted DEF Connect, IInv, TypeOK
<1>2. PICK c \in Conn : c = Current(r) /\ c[1] = r /\ c[2] = attempt[r] /\ ConnInv(c)
  BY <1>1, ConnParts DEF Current, IInv
<1>3. ~Started(c) /\ c \notin gone
  BY <1>1, <1>2 DEF Started, Active, IInv, RiderInv, Current
<1>4. Untouched(c) /\ result[c] = "none"
  BY <1>2, <1>3 DEF ConnInv
<1>u. /\ UNCHANGED <<rkey, success_local_count, result, report, down, gone, hung, listening, workers>>
      /\ UNCHANGED <<outcome, wpc, wkey, serving>>
  BY DEF Connect, workers
<1>5. CASE /\ up' = [up EXCEPT ![c] = <<Hello(c)>>]
           /\ backlog' = Append(backlog, c)
           /\ cpc' = [cpc EXCEPT ![r] = "hello"]
           /\ UNCHANGED attempt
  <2>1. backlog' \in Seq(Conn) /\ Len(backlog') = Len(backlog) + 1 /\ Len(backlog) \in Nat
    BY <1>2, <1>5 DEF IInv, Shape
  <2>2. /\ \A i \in 1..Len(backlog) : backlog'[i] = backlog[i] /\ backlog[i] # c
        /\ backlog'[Len(backlog) + 1] = c
    BY <1>2, <1>4, <1>5, <2>1 DEF IInv, Shape, Untouched, InBacklog
  <2>3. \A d : InBacklog(d)' <=> InBacklog(d) \/ d = c
    BY <2>1, <2>2 DEF InBacklog
  <2>4. TypeOK'
    <3>1. Range(backlog') \subseteq Conn
      BY <2>1 DEF Range
    <3> QED
      BY <1>1, <1>5, <1>u, <3>1 DEF IInv, TypeOK, report
  <2>5. Shape'
    <3>1. \A i, j \in 1..Len(backlog') : backlog'[i] = backlog'[j] => i = j
      <4> TAKE i, j \in 1..Len(backlog')
      <4>1. (i \in 1..Len(backlog) \/ i = Len(backlog) + 1) /\ (j \in 1..Len(backlog) \/ j = Len(backlog) + 1)
        BY <2>1
      <4> QED
        BY <2>2, <4>1 DEF IInv, Shape
    <3>2. up' = [d \in Conn |-> up'[d]] /\ down' = [d \in Conn |-> down'[d]] /\ serving' = [w \in Worker |-> serving'[w]]
      BY <1>5, <1>u DEF IInv, Shape
    <3> QED
      BY <2>1, <3>1, <3>2 DEF Shape
  <2>6. \A q \in Rider : RiderInv(q)'
    BY <1>1, <1>5, <1>u DEF IInv, RiderInv
  <2>7. ASSUME NEW d \in Conn PROVE ConnInv(d)'
    <3>1. CASE d # c
      <4>1. up'[d] = up[d] /\ down'[d] = down[d] /\ result'[d] = result[d]
        BY <1>5, <1>u, <2>7, <3>1 DEF IInv, Shape
      <4>2. \A s \in Rider \ {r} : cpc'[s] = cpc[s] /\ rkey'[s] = rkey[s]
        BY <1>1, <1>5, <1>u
      <4> QED
        BY <1>2, <1>5, <1>u, <2>3, <2>7, <3>1, <4>1, <4>2, RiderFrame
    <3>2. CASE d = c
      <4>1. up'[c] = <<Hello(c)>> /\ down'[c] = <<>> /\ outcome'[c] = "none"
        BY <1>2, <1>4, <1>5, <1>u DEF IInv, Shape, Untouched
      <4>2. Active(c)' /\ c \notin gone' /\ c \notin hung' /\ Idle(c)' /\ result'[c] = "none"
        BY <1>1, <1>2, <1>3, <1>4, <1>5, <1>u DEF Active, Untouched, Idle
      <4>3. cpc'[c[1]] = "hello"
        BY <1>1, <1>2, <1>5
      <4> QED
        BY <2>3, <3>2, <4>1, <4>2, <4>3 DEF ConnInv, Queued, Unanswered, Started, Idle
    <3> QED
      BY <3>1, <3>2
  <2> QED
    BY <2>4, <2>5, <2>6, <2>7 DEF IInv
<1>6. CASE attempt' = [attempt EXCEPT ![r] = @ + 1] /\ UNCHANGED <<up, backlog, cpc>>
  <2>1. TypeOK'
    BY <1>1, <1>6, <1>u, Attempted DEF IInv, TypeOK, report
  <2>2. Shape'
    BY <1>6, <1>u DEF IInv, Shape
  <2>3. \A q \in Rider : RiderInv(q)'
    <3> TAKE q \in Rider
    <3>1. attempt'[q] = attempt[q] \/ (q = r /\ attempt'[q] = attempt[q] + 1)
      BY <1>1, <1>6
    <3>2. success_local_count[q] \in Nat /\ attempt[q] \in Nat
      BY <1>1, Attempted DEF IInv, TypeOK
    <3> QED
      BY <1>1, <1>6, <1>u, <3>1, <3>2 DEF IInv, RiderInv
  <2>4. ASSUME NEW d \in Conn PROVE ConnInv(d)'
    <3>1. InBacklog(d)' <=> InBacklog(d)
      BY <1>6 DEF InBacklog
    <3>2. CASE d # c
      BY <1>1, <1>2, <1>6, <1>u, <2>4, <3>1, <3>2, RiderFrame
    <3>3. CASE d = c
      <4>1. ~Started(c)'
        BY <1>1, <1>2, <1>3, <1>6, <1>u DEF Started, Active
      <4>2. Same(c)
        BY <1>3, <1>6, <1>u, <3>1, <3>3, <4>1 DEF Same, Started
      <4> QED
        BY <1>2, <3>3, <4>2, FrameConn
    <3> QED
      BY <3>2, <3>3
  <2> QED
    BY <2>1, <2>2, <2>3, <2>4 DEF IInv
<1> QED
  BY <1>2, <1>5, <1>6 DEF Connect

\* The key comes from the worker that serves the connection, and the request goes out
\* under the key both have now.
LEMMA HearAckInv ==
    ASSUME IInv, NEW r \in Rider, HearAck(r)
    PROVE  IInv'
<1>1. PICK c \in Conn : c = Current(r) /\ c[1] = r /\ Active(c) /\ c \notin gone /\ ConnInv(c)
  BY RiderSees DEF HearAck
<1>2. PICK w \in Worker : /\ serving[w] = c /\ wpc[w] = "recv" /\ outcome[c] = "none"
                          /\ Greeted(w, c) /\ down[c] = <<Ack(w)>>
  BY <1>1, RiderHears DEF HearAck
<1>3. Shared(Head(down[c]).public, c) = Shared(c, w)
  BY <1>2, OneMessage, Kinds, SharedKey
<1>4. ServedBy(w, c)
  BY <1>1, <1>2 DEF ConnInv
<1>5. /\ cpc \in [Rider -> {"connect", "hello", "asked", "count", "done"}]
      /\ rkey \in [Rider -> SUBSET (Conn \cup Worker)] /\ cpc[r] = "hello"
  BY DEF HearAck, IInv, TypeOK
<1>6. /\ rkey' = [rkey EXCEPT ![r] = Shared(c, w)]
      /\ rkey'[r] = Shared(c, w)
      /\ cpc' = [cpc EXCEPT ![r] = "asked"]
      /\ down' = [down EXCEPT ![c] = Tail(@)]
      /\ up' = [up EXCEPT ![c] = Append(@, Request(Shared(c, w)))]
  <2>1. rkey' = [rkey EXCEPT ![r] = Shared(c, w)]
    BY <1>1, <1>3 DEF HearAck
  <2>2. rkey'[r] = Shared(c, w)
    BY <1>5, <2>1
  <2> QED
    BY <1>1, <2>1, <2>2 DEF HearAck
<1>7. UNCHANGED <<attempt, success_local_count, result, report, gone, hung, backlog, listening,
                  wpc, serving, wkey, outcome>>
  BY DEF HearAck, listener, workers
<1>8. TypeOK'
  <2>1. Shared(c, w) \subseteq Conn \cup Worker
    BY DEF Shared
  <2> QED
    BY <1>5, <1>6, <1>7, <2>1 DEF IInv, TypeOK, report
<1>9. Shape'
  BY <1>6, <1>7 DEF IInv, Shape
<1>10. \A q \in Rider : RiderInv(q)'
  BY <1>5, <1>6, <1>7 DEF IInv, RiderInv
<1>11. ASSUME NEW d \in Conn PROVE ConnInv(d)'
  <2>1. InBacklog(d)' <=> InBacklog(d)
    BY <1>7 DEF InBacklog
  <2>2. CASE d # c
    <3>1. up'[d] = up[d] /\ down'[d] = down[d]
      BY <1>6, <1>11, <2>2 DEF IInv, Shape
    <3>2. \A s \in Rider \ {r} : cpc'[s] = cpc[s] /\ rkey'[s] = rkey[s]
      BY <1>5, <1>6
    <3> QED
      BY <1>1, <1>7, <1>11, <2>1, <2>2, <3>1, <3>2, RiderFrame
  <2>3. CASE d = c
    <3>1. up'[c] = <<Request(Shared(c, w))>> /\ down'[c] = <<>>
      <4>1. up[c] = <<>> /\ down[c] = <<Ack(w)>>
        BY <1>2 DEF Greeted
      <4> QED
        BY <1>6, <4>1, OneMessage DEF IInv, Shape
    <3>2. Asking(w, c)'
      BY <1>1, <1>2, <1>5, <1>6, <1>7, <3>1 DEF Asking, Greeted
    <3>3. Active(c)' /\ Started(c)'
      BY <1>1, <1>5, <1>6, <1>7 DEF Active, Started
    <3>4. ServedBy(w, c)'
      BY <1>2, <1>4, <1>7, <2>1, <2>3, <3>2, <3>3 DEF ServedBy, Unanswered
    <3> QED
      BY <1>1, <1>2, <1>4, <1>7, <2>1, <2>3, <3>1, <3>3, <3>4 DEF ConnInv, ServedBy, Unanswered, Idle
  <2> QED
    BY <2>2, <2>3
<1> QED
  BY <1>8, <1>9, <1>10, <1>11 DEF IInv

\* Whatever the rider leaves with has to fit what the server has done.
LEMMA LeaveInv ==
    ASSUME IInv, NEW r \in Rider, cpc[r] \in {"hello", "asked"},
           NEW res \in {"success", "blocked", "refused", "mismatch", "closed", "silence"},
           Leave(r, res),
           Current(r) \notin hung => res = "silence",
           res = "success" => outcome[Current(r)] = "booked",
           outcome[Current(r)] = "booked" => res \in {"success", "silence"}
    PROVE  IInv'
<1>1. PICK c \in Conn : c = Current(r) /\ c[1] = r /\ Active(c) /\ c \notin gone /\ ConnInv(c)
  BY RiderSees
<1>2. attempt[r] \in 1..Attempts /\ c = <<r, attempt[r]>>
  BY <1>1, RiderSees DEF Current
<1>3. /\ result' = [result EXCEPT ![c] = res] /\ gone' = gone \cup {c}
      /\ down' = [down EXCEPT ![c] = <<>>] /\ cpc' = [cpc EXCEPT ![r] = "count"]
      /\ UNCHANGED <<attempt, rkey, success_local_count, report, up, hung, backlog, listening,
                     wpc, serving, wkey, outcome>>
  BY <1>1 DEF Leave, listener, workers
<1>4. cpc \in [Rider -> {"connect", "hello", "asked", "count", "done"}]
  BY DEF IInv, TypeOK
<1>5. TypeOK'
  BY <1>3, <1>4 DEF IInv, TypeOK, report
<1>6. Shape'
  BY <1>3 DEF IInv, Shape
<1>7. \A q \in Rider : RiderInv(q)'
  BY <1>2, <1>3, <1>4 DEF IInv, RiderInv
<1>8. ASSUME NEW d \in Conn PROVE ConnInv(d)'
  <2>1. InBacklog(d)' <=> InBacklog(d)
    BY <1>3 DEF InBacklog
  <2>2. CASE d # c
    <3>1. down'[d] = down[d] /\ result'[d] = result[d]
      BY <1>3, <1>8, <2>2 DEF IInv, Shape, TypeOK
    <3>2. \A s \in Rider \ {r} : cpc'[s] = cpc[s] /\ rkey'[s] = rkey[s]
      BY <1>3, <1>4
    <3> QED
      BY <1>1, <1>3, <1>8, <2>1, <2>2, <3>1, <3>2, RiderFrame
  <2>3. CASE d = c
    <3>1. down'[c] = <<>> /\ result'[c] = res /\ c \in gone' /\ Started(c)' /\ Started(c)
      BY <1>1, <1>3 DEF IInv, Shape, TypeOK, Started
    <3>2. Unanswered(c) => Unanswered(c)'
      BY <1>1, <1>3, <3>1 DEF Unanswered
    <3>3. Queued(c) => Queued(c)'
      BY <1>3, <3>1, <3>2 DEF Queued, Idle
    <3>4. ASSUME NEW w \in Worker, ServedBy(w, c), serving[w] = c PROVE ServedBy(w, c)'
      <4>1. Greeting(c) => Greeting(c)'
        BY <1>3, <3>1 DEF Greeting
      <4>2. Greeted(w, c) => Greeted(w, c)'
        BY <1>3, <3>1 DEF Greeted
      <4>3. Asking(w, c) => Asking(w, c)'
        BY <1>3, <3>1 DEF Asking
      <4>4. Handled(w, c) => Handled(w, c)'
        BY <1>3, <3>1 DEF Handled
      <4> QED
        BY <1>3, <2>1, <2>3, <3>2, <3>4, <4>1, <4>2, <4>3, <4>4 DEF ServedBy
    <3>5. Over(c) => Over(c)'
      BY <1>1, <1>3, <2>1, <2>3, <3>1 DEF Over, Idle
    <3> QED
      BY <1>1, <1>3, <2>1, <2>3, <3>1, <3>3, <3>4, <3>5 DEF ConnInv, Idle
  <2> QED
    BY <2>2, <2>3
<1> QED
  BY <1>5, <1>6, <1>7, <1>8 DEF IInv

LEMMA HearAnswerInv ==
    ASSUME IInv, NEW r \in Rider, HearAnswer(r)
    PROVE  IInv'
<1> DEFINE c == Current(r)
           msg == Head(down[c])
           res == IF ~Readable(msg, rkey[r]) THEN "mismatch"
                  ELSE IF msg.text = "Ride Confirmed!" THEN "success"
                  ELSE IF msg.text = "Error: Blocked." THEN "blocked" ELSE "refused"
<1>1. cpc[r] = "asked" /\ down[c] # <<>> /\ Leave(r, res)
  BY DEF HearAnswer
<1>2. /\ c \in hung /\ outcome[c] \in {"booked", "nodriver"}
      /\ down[c] = <<Answer(rkey[r], Text(outcome[c]))>>
  BY <1>1, RiderHears
<1>3. msg.key = rkey[r] /\ msg.text = Text(outcome[c])
  BY <1>2, OneMessage, Kinds
<1>4. /\ res = IF outcome[c] = "booked" THEN "success" ELSE "refused"
  BY <1>2, <1>3 DEF Readable, Text
<1> HIDE DEF res
<1> QED
  BY <1>1, <1>2, <1>4, LeaveInv

\* A closed connection without an answer had no booking.
LEMMA HearEndInv ==
    ASSUME IInv, NEW r \in Rider, HearEnd(r)
    PROVE  IInv'
<1>1. /\ cpc[r] \in {"hello", "asked"} /\ Current(r) \in hung /\ down[Current(r)] = <<>>
      /\ Leave(r, "closed")
  BY DEF HearEnd, Waiting
<1>2. Current(r) \notin gone /\ Over(Current(r))
  BY <1>1, RiderSees DEF ConnInv
<1>3. outcome[Current(r)] # "booked"
  BY <1>1, <1>2 DEF Over
<1> QED
  BY <1>1, <1>3, LeaveInv

LEMMA TimeOutInv ==
    ASSUME IInv, NEW r \in Rider, TimeOut(r)
    PROVE  IInv'
<1>1. cpc[r] \in {"hello", "asked"} /\ Leave(r, "silence")
  BY DEF TimeOut, Waiting
<1> QED
  BY <1>1, LeaveInv

\* The loop goes on to an attempt that nothing has touched.
LEMMA CountInv ==
    ASSUME IInv, NEW r \in Rider, Count(r)
    PROVE  IInv'
<1>1. /\ attempt[r] \in 1..Attempts /\ attempt \in [Rider -> 1..(Attempts + 1)]
      /\ cpc[r] = "count" /\ cpc \in [Rider -> {"connect", "hello", "asked", "count", "done"}]
  BY Attempted DEF Count, IInv, TypeOK, RiderInv
<1>2. PICK c \in Conn : c = Current(r) /\ c[1] = r /\ c[2] = attempt[r] /\ ConnInv(c)
  BY <1>1, ConnParts DEF Current, IInv
<1>3. /\ attempt' = [attempt EXCEPT ![r] = @ + 1]
      /\ cpc' = [cpc EXCEPT ![r] = "connect"]
      /\ rkey' = [rkey EXCEPT ![r] = NoKey]
      /\ UNCHANGED <<result, up, down, gone, hung, backlog, listening, wpc, serving, wkey, outcome>>
  BY DEF Count, queues, listener, workers
<1>4. /\ total_requests' \in Nat /\ success_count' \in Nat /\ fail_count' \in Nat
      /\ final_status' \in [Rider -> {"INIT", "SUCCESS", "FAIL_DOS", "FAIL_NO_DRIVER"}]
  BY DEF Count, IInv, TypeOK
<1>5. \A q \in Rider : /\ success_local_count[q] \in 0..Attempts /\ attempt[q] \in Nat
                       /\ success_local_count[q] < attempt[q]
  BY <1>1 DEF IInv, TypeOK, RiderInv
<1>6. /\ success_local_count' \in [Rider -> 0..Attempts]
      /\ \A q \in Rider : success_local_count'[q] < attempt'[q]
  <2>1. CASE success_local_count' = success_local_count
    BY <1>1, <1>3, <1>5, <2>1 DEF IInv, TypeOK
  <2>2. CASE success_local_count' = [success_local_count EXCEPT ![r] = @ + 1]
    <3>1. success_local_count[r] + 1 \in 0..Attempts
      BY <1>1, <1>5, Attempted
    <3> QED
      BY <1>1, <1>3, <1>5, <2>2, <3>1 DEF IInv, TypeOK
  <2> QED
    BY <2>1, <2>2 DEF Count
<1>7. TypeOK'
  <2>1. attempt' \in [Rider -> 1..(Attempts + 1)]
    BY <1>1, <1>3, Attempted
  <2>2. rkey' \in [Rider -> SUBSET (Conn \cup Worker)]
    BY <1>3 DEF NoKey, IInv, TypeOK
  <2> QED
    BY <1>1, <1>3, <1>4, <1>6, <2>1, <2>2 DEF IInv, TypeOK
<1>8. Shape'
  BY <1>3 DEF IInv, Shape
<1>9. \A q \in Rider : RiderInv(q)'
  <2> TAKE q \in Rider
  <2>1. CASE q # r
    BY <1>1, <1>3, <1>6, <2>1 DEF IInv, RiderInv
  <2>2. CASE q = r
    <3>1. attempt'[r] = attempt[r] + 1 /\ cpc'[r] = "connect"
      BY <1>1, <1>3
    <3>2. ASSUME NEW a \in 1..Attempts, <<r, a>> \in gone' PROVE a < attempt'[r]
      BY <1>1, <1>3, <3>1, <3>2 DEF IInv, RiderInv
    <3> QED
      BY <1>6, <2>2, <3>1, <3>2 DEF RiderInv
  <2> QED
    BY <2>1, <2>2
<1>10. ASSUME NEW d \in Conn PROVE ConnInv(d)'
  <2>1. InBacklog(d)' <=> InBacklog(d)
    BY <1>3 DEF InBacklog
  <2>2. \A s \in Rider \ {r} : cpc'[s] = cpc[s] /\ rkey'[s] = rkey[s]
    BY <1>1, <1>3 DEF IInv, TypeOK
  <2>3. CASE d # c
    <3>1. cpc'[r] = "connect"
      BY <1>1, <1>3
    <3> QED
      BY <1>2, <1>3, <1>10, <2>1, <2>2, <2>3, <3>1, RiderFrame
  <2>4. CASE d = c
    <3>1. ~Active(c) /\ ~Active(c)'
      BY <1>1, <1>2, <1>3 DEF Active
    <3>2. Same(c)
      BY <1>3, <2>1, <2>4, <3>1 DEF Same
    <3> QED
      BY <1>2, <2>4, <3>2, FrameConn
  <2> QED
    BY <2>3, <2>4
<1> QED
  BY <1>7, <1>8, <1>9, <1>10 DEF IInv

LEMMA FinishInv ==
    ASSUME IInv, NEW r \in Rider, Finish(r)
    PROVE  IInv'
<1>1. /\ cpc \in [Rider -> {"connect", "hello", "asked", "count", "done"}]
      /\ cpc[r] = "connect" /\ cpc' = [cpc EXCEPT ![r] = "done"]
      /\ UNCHANGED <<attempt, rkey, success_local_count, result, total_requests, success_count,
                     fail_count, up, down, gone, hung, backlog, listening, wpc, serving, wkey, outcome>>
  BY DEF Finish, queues, listener, workers, IInv, TypeOK
<1>2. TypeOK'
  <2>1. final_status' \in [Rider -> {"INIT", "SUCCESS", "FAIL_DOS", "FAIL_NO_DRIVER"}]
    BY DEF Finish, IInv, TypeOK
  <2> QED
    BY <1>1, <2>1 DEF IInv, TypeOK
<1>3. Shape'
  BY <1>1 DEF IInv, Shape
<1>4. \A q \in Rider : RiderInv(q)'
  BY <1>1 DEF IInv, RiderInv
<1>5. ASSUME NEW d \in Conn PROVE ConnInv(d)'
  <2>1. InBacklog(d)' <=> InBacklog(d)
    BY <1>1 DEF InBacklog
  <2>2. /\ Active(d)' <=> Active(d)
        /\ Active(d) => cpc'[d[1]] = cpc[d[1]]
    BY <1>1, <1>5, ConnParts DEF Active
  <2>3. Same(d) /\ ConnInv(d)
    BY <1>1, <2>1, <2>2 DEF Same, IInv
  <2> QED
    BY <1>5, <2>3, FrameConn
<1> QED
  BY <1>2, <1>3, <1>4, <1>5 DEF IInv

-----------------------------------------------------------------------------
(***************************************************************************)
(* The worker.                                                             *)
(***************************************************************************)
LEMMA WorkerSees ==
    ASSUME IInv, NEW w \in Worker, wpc[w] \notin {"accept", "dead"}
    PROVE  LET c == serving[w]
           IN  c \in Conn /\ c # NoConn /\ ConnInv(c) /\ ServedBy(w, c)
<1>1. serving[w] \in Conn
  BY DEF IInv, TypeOK
<1> QED
  BY <1>1, Attempted DEF IInv, ConnInv

\* The packet a worker finds is the one it can expect.
LEMMA WorkerReads ==
    ASSUME IInv, NEW w \in Worker, wpc[w] = "recv", up[serving[w]] # <<>>
    PROVE  LET c == serving[w]
           IN  IF Head(up[c]).kind = "handshake"
               THEN Greeting(c) /\ Head(up[c]).public = c
               ELSE Asking(w, c) /\ Head(up[c]).kind = "request" /\ Head(up[c]).key = wkey[w]
<1> DEFINE c == serving[w]
<1>1. ServedBy(w, c)
  BY WorkerSees
<1>2. Greeting(c) \/ Asking(w, c)
  BY <1>1 DEF ServedBy, Greeted
<1>3. Greeting(c) => Head(up[c]).kind = "handshake" /\ Head(up[c]).public = c
  BY OneMessage, Kinds DEF Greeting
<1>4. Asking(w, c) => Head(up[c]).kind = "request" /\ Head(up[c]).key = wkey[w]
  BY OneMessage, Kinds DEF Asking
<1> QED
  BY <1>2, <1>3, <1>4

\* A connection is over when its worker lets go of it, if what is under way to its
\* rider fits the outcome.
LEMMA ReleaseInv ==
    ASSUME IInv, NEW w \in Worker, wpc[w] \notin {"accept", "dead"},
           NEW place \in {"accept", "dead"}, Release(w, place),
           UNCHANGED <<rider, report, gone, listener, outcome>>,
           up' = [up EXCEPT ![serving[w]] = up'[serving[w]]],
           down' = [down EXCEPT ![serving[w]] = down'[serving[w]]],
           LET c == serving[w]
           IN  IF c \in gone THEN down'[c] = <<>>
               ELSE \/ down'[c] = <<>> /\ outcome[c] \in {"none", "blocked"}
                    \/ /\ down'[c] = <<Answer(rkey[c[1]], Text(outcome[c]))>>
                       /\ outcome[c] \in {"booked", "nodriver"} /\ cpc[c[1]] = "asked"
    PROVE  IInv'
<1>1. PICK c \in Conn : c = serving[w] /\ c # NoConn /\ ConnInv(c) /\ ServedBy(w, c)
  BY WorkerSees
<1>2. /\ wpc' = [wpc EXCEPT ![w] = place]
      /\ hung' = hung \cup {c}
      /\ serving' = [serving EXCEPT ![w] = NoConn]
      /\ wkey' = [wkey EXCEPT ![w] = NoKey]
      /\ up' = [up EXCEPT ![c] = up'[c]] /\ down' = [down EXCEPT ![c] = down'[c]]
      /\ UNCHANGED <<attempt, cpc, rkey, success_local_count, result, report, gone, backlog,
                     listening, outcome>>
  BY <1>1 DEF Release, rider, listener
<1>3. /\ \A v \in Worker : serving'[v] = IF v = w THEN NoConn ELSE serving[v]
      /\ \A v \in Worker : wpc'[v] = IF v = w THEN place ELSE wpc[v]
      /\ \A v \in Worker : wkey'[v] = IF v = w THEN NoKey ELSE wkey[v]
  BY <1>2 DEF IInv, TypeOK, Shape
<1>4. TypeOK'
  <2>1. wpc' \in [Worker -> {"accept", "recv", "check", "deny", "ride", "answer", "dead"}]
    BY <1>2 DEF IInv, TypeOK
  <2>2. wkey' \in [Worker -> SUBSET (Conn \cup Worker)]
    BY <1>2 DEF IInv, TypeOK, NoKey
  <2>3. \A v \in Worker : serving'[v] \in IF wpc'[v] \in {"accept", "dead"} THEN {NoConn} ELSE Conn
    BY <1>3 DEF IInv, TypeOK
  <2>4. \A u, v \in Worker : u # v /\ serving'[u] = serving'[v] => serving'[u] = NoConn
    <3> TAKE u, v \in Worker
    <3>1. serving'[w] = NoConn
      BY <1>3
    <3>2. CASE u = w \/ v = w
      BY <3>1, <3>2
    <3>3. CASE u # w /\ v # w
      <4>1. serving'[u] = serving[u] /\ serving'[v] = serving[v]
        BY <1>3, <3>3
      <4>2. u # v /\ serving[u] = serving[v] => serving[u] = NoConn
        BY DEF IInv, TypeOK
      <4> QED
        BY <4>1, <4>2
    <3> QED
      BY <3>2, <3>3
  <2>5. hung' \subseteq Conn
    BY <1>2 DEF IInv, TypeOK
  <2> QED
    BY <1>2, <2>1, <2>2, <2>3, <2>4, <2>5 DEF IInv, TypeOK, report
<1>5. Shape'
  BY <1>2 DEF IInv, Shape
<1>6. \A q \in Rider : RiderInv(q)'
  BY <1>2 DEF IInv, RiderInv
<1>7. ASSUME NEW d \in Conn PROVE ConnInv(d)'
  <2>1. InBacklog(d)' <=> InBacklog(d)
    BY <1>2 DEF InBacklog
  <2>2. CASE d # c
    <3>1. up'[d] = up[d] /\ down'[d] = down[d]
      BY <1>2, <1>7, <2>2 DEF IInv, Shape
    <3>2. serving[w] # d /\ serving'[w] # d
      BY <1>1, <1>3, <1>7, <2>2, Attempted
    <3> QED
      BY <1>2, <1>3, <1>7, <2>1, <2>2, <3>1, <3>2, WorkerFrame
  <2>3. CASE d = c
    <3>1. Started(c)' /\ Started(c) /\ c \notin hung /\ ~InBacklog(c)' /\ c \in hung'
      BY <1>1, <1>2, <2>1, <2>3 DEF ServedBy, Unanswered, Started, Active
    <3>2. Idle(c)'
      BY <1>1, <1>3 DEF Idle, ServedBy
    <3>3. /\ IF c \in gone THEN down'[c] = <<>>
             ELSE \/ down'[c] = <<>> /\ outcome[c] \in {"none", "blocked"}
                  \/ /\ down'[c] = <<Answer(rkey[c[1]], Text(outcome[c]))>>
                     /\ outcome[c] \in {"booked", "nodriver"} /\ cpc[c[1]] = "asked"
          /\ result[c] \in {"none", "silence"}
      BY <1>1 DEF ServedBy, Unanswered
    <3>4. Over(c)'
      BY <1>2, <3>1, <3>2, <3>3 DEF Over, Idle
    <3> QED
      BY <1>1, <1>2, <2>3, <3>1, <3>2, <3>3, <3>4 DEF ConnInv, Idle
  <2> QED
    BY <2>2, <2>3
<1> QED
  BY <1>4, <1>5, <1>6, <1>7 DEF IInv

\* A step of a worker that keeps its connection.
LEMMA KeepInv ==
    ASSUME IInv, NEW w \in Worker, wpc[w] \notin {"accept", "dead"},
           NEW place \in {"recv", "check", "deny", "ride", "answer"},
           NEW k \in SUBSET (Conn \cup Worker),
           wpc' = [wpc EXCEPT ![w] = place], wkey' = [wkey EXCEPT ![w] = k],
           UNCHANGED <<rider, report, gone, hung, listener, serving>>,
           up' = [up EXCEPT ![serving[w]] = up'[serving[w]]],
           down' = [down EXCEPT ![serving[w]] = down'[serving[w]]],
           NEW out \in {"none", "blocked", "booked", "nodriver"},
           outcome' = [outcome EXCEPT ![serving[w]] = out],
           LET c == serving[w]
           IN  /\ c \in gone => down'[c] = <<>>
               /\ place = "recv" => out = "none" /\ Greeted(w, c)'
               /\ place # "recv" => Handled(w, c)'
               /\ place \in {"check", "ride"} => out = "none"
               /\ place = "deny" => out = "blocked"
               /\ place = "answer" => out \in {"booked", "nodriver"}
    PROVE  IInv'
<1>1. PICK c \in Conn : c = serving[w] /\ c # NoConn /\ ConnInv(c) /\ ServedBy(w, c)
  BY WorkerSees
<1>2. /\ up' = [up EXCEPT ![c] = up'[c]] /\ down' = [down EXCEPT ![c] = down'[c]]
      /\ outcome' = [outcome EXCEPT ![c] = out]
      /\ UNCHANGED <<attempt, cpc, rkey, success_local_count, result, report, gone, hung, backlog,
                     listening, serving>>
  BY <1>1 DEF rider, listener
<1>3. /\ \A v \in Worker : wpc'[v] = IF v = w THEN place ELSE wpc[v]
      /\ \A v \in Worker : wkey'[v] = IF v = w THEN k ELSE wkey[v]
      /\ outcome'[c] = out
  BY <1>2 DEF IInv, TypeOK
<1>4. TypeOK'
  <2>1. wpc' \in [Worker -> {"accept", "recv", "check", "deny", "ride", "answer", "dead"}]
    BY DEF IInv, TypeOK
  <2>2. wkey' \in [Worker -> SUBSET (Conn \cup Worker)]
    BY DEF IInv, TypeOK
  <2>3. \A v \in Worker : serving'[v] \in IF wpc'[v] \in {"accept", "dead"} THEN {NoConn} ELSE Conn
    BY <1>1, <1>2, <1>3 DEF IInv, TypeOK
  <2>4. outcome' \in [Conn -> {"none", "blocked", "booked", "nodriver"}]
    BY <1>2 DEF IInv, TypeOK
  <2> QED
    BY <1>2, <2>1, <2>2, <2>3, <2>4 DEF IInv, TypeOK, report
<1>5. Shape'
  BY <1>2 DEF IInv, Shape
<1>6. \A q \in Rider : RiderInv(q)'
  BY <1>2 DEF IInv, RiderInv
<1>7. ASSUME NEW d \in Conn PROVE ConnInv(d)'
  <2>1. InBacklog(d)' <=> InBacklog(d)
    BY <1>2 DEF InBacklog
  <2>2. CASE d # c
    <3>1. up'[d] = up[d] /\ down'[d] = down[d] /\ outcome'[d] = outcome[d]
      BY <1>2, <1>7, <2>2 DEF IInv, Shape, TypeOK
    <3> QED
      BY <1>1, <1>2, <1>3, <1>7, <2>1, <2>2, <3>1, WorkerFrame
  <2>3. CASE d = c
    <3>1. (Started(c)' <=> Started(c)) /\ (Unanswered(c) => Unanswered(c)')
      BY <1>2 DEF Started, Active, Unanswered
    <3>2. /\ c \in gone => down'[c] = <<>>
          /\ place = "recv" => out = "none" /\ Greeted(w, c)'
          /\ place # "recv" => Handled(w, c)'
          /\ place \in {"check", "ride"} => out = "none"
          /\ place = "deny" => out = "blocked"
          /\ place = "answer" => out \in {"booked", "nodriver"}
      <4>1. serving[w]' = c
        BY <1>1, <1>2
      <4> QED
        BY <1>1, <1>2, <4>1
    <3>3. ServedBy(w, c)'
      BY <1>1, <1>2, <1>3, <2>1, <2>3, <3>1, <3>2 DEF ServedBy
    <3>4. Started(c) /\ c \notin hung /\ ~InBacklog(c)' /\ \A v \in Worker : serving'[v] = c => v = w
      BY <1>1, <1>2, <2>1, <2>3 DEF ServedBy, Unanswered
    <3> QED
      BY <1>1, <1>2, <2>3, <3>1, <3>2, <3>3, <3>4 DEF ConnInv, Idle
  <2> QED
    BY <2>2, <2>3
<1> QED
  BY <1>4, <1>5, <1>6, <1>7 DEF IInv

\* The head of the backlog is served by this worker, and by it only.
LEMMA AcceptInv ==
    ASSUME IInv, NEW w \in Worker, Accept(w)
    PROVE  IInv'
<1>1. /\ wpc[w] = "accept" /\ backlog # <<>> /\ backlog \in Seq(Conn)
      /\ wpc' = [wpc EXCEPT ![w] = "recv"]
      /\ serving' = [serving EXCEPT ![w] = Head(backlog)]
      /\ backlog' = Tail(backlog)
      /\ UNCHANGED <<attempt, cpc, rkey, success_local_count, result, report, up, down, gone, hung,
                     listening, wkey, outcome>>
  BY DEF Accept, IInv, Shape, rider, queues
<1>2. PICK c \in Conn : c = Head(backlog) /\ c = backlog[1] /\ c # NoConn
  BY <1>1, Attempted
<1>3. /\ Len(backlog) \in Nat /\ Len(backlog) >= 1 /\ Len(backlog') = Len(backlog) - 1
      /\ backlog' \in Seq(Conn)
      /\ \A i \in 1..Len(backlog') : backlog'[i] = backlog[i + 1]
  BY <1>1
<1>4. InBacklog(c) /\ Queued(c) /\ ConnInv(c)
  BY <1>2, <1>3 DEF InBacklog, IInv, ConnInv
<1>5. \A d : InBacklog(d)' <=> InBacklog(d) /\ d # c
  <2> TAKE d
  <2>1. ASSUME InBacklog(d)' PROVE InBacklog(d) /\ d # c
    <3>1. PICK i \in 1..Len(backlog') : backlog'[i] = d
      BY <2>1 DEF InBacklog
    <3>2. i + 1 \in 1..Len(backlog) /\ backlog[i + 1] = d /\ 1 \in 1..Len(backlog) /\ i + 1 # 1
      BY <1>3, <3>1
    <3> QED
      BY <1>2, <3>2 DEF InBacklog, IInv, Shape
  <2>2. ASSUME InBacklog(d), d # c PROVE InBacklog(d)'
    <3>1. PICK i \in 1..Len(backlog) : backlog[i] = d
      BY <2>2 DEF InBacklog
    <3>2. i - 1 \in 1..Len(backlog') /\ backlog'[i - 1] = d
      BY <1>2, <1>3, <2>2, <3>1
    <3> QED
      BY <3>2 DEF InBacklog
  <2> QED
    BY <2>1, <2>2
<1>6. /\ \A v \in Worker : serving'[v] = IF v = w THEN c ELSE serving[v]
      /\ \A v \in Worker : wpc'[v] = IF v = w THEN "recv" ELSE wpc[v]
      /\ serving[w] = NoConn
  BY <1>1, <1>2 DEF IInv, TypeOK, Shape
<1>7. TypeOK'
  <2>1. wpc' \in [Worker -> {"accept", "recv", "check", "deny", "ride", "answer", "dead"}]
    BY <1>1 DEF IInv, TypeOK
  <2>2. \A v \in Worker : serving'[v] \in IF wpc'[v] \in {"accept", "dead"} THEN {NoConn} ELSE Conn
    BY <1>6 DEF IInv, TypeOK
  <2>3. \A u, v \in Worker : u # v /\ serving'[u] = serving'[v] => serving'[u] = NoConn
    <3> TAKE u, v \in Worker
    <3>1. serving[u] # c /\ serving[v] # c
      BY <1>4 DEF Queued, Idle
    <3>2. CASE u = w \/ v = w
      BY <1>6, <3>1, <3>2
    <3>3. CASE u # w /\ v # w
      <4>1. serving'[u] = serving[u] /\ serving'[v] = serving[v]
        BY <1>6, <3>3
      <4> QED
        BY <4>1 DEF IInv, TypeOK
    <3> QED
      BY <3>2, <3>3
  <2>4. Range(backlog') \subseteq Conn
    BY <1>3 DEF Range
  <2> QED
    BY <1>1, <2>1, <2>2, <2>3, <2>4 DEF IInv, TypeOK, report
<1>8. Shape'
  <2>1. \A i, j \in 1..Len(backlog') : backlog'[i] = backlog'[j] => i = j
    <3> TAKE i, j \in 1..Len(backlog')
    <3>1. i + 1 \in 1..Len(backlog) /\ j + 1 \in 1..Len(backlog)
      BY <1>3
    <3>2. backlog[i + 1] = backlog[j + 1] => i + 1 = j + 1
      BY <3>1 DEF IInv, Shape
    <3> QED
      BY <1>3, <3>2
  <2> QED
    BY <1>1, <1>3, <2>1 DEF IInv, Shape
<1>9. \A q \in Rider : RiderInv(q)'
  BY <1>1 DEF IInv, RiderInv
<1>10. ASSUME NEW d \in Conn PROVE ConnInv(d)'
  <2>1. CASE d # c
    <3>1. serving[w] # d /\ serving'[w] # d
      BY <1>6, <1>10, <2>1, Attempted
    <3>2. \A v \in Worker \ {w} : serving'[v] = serving[v] /\ wpc'[v] = wpc[v] /\ wkey'[v] = wkey[v]
      BY <1>1, <1>6
    <3> QED
      BY <1>1, <1>5, <1>10, <2>1, <3>1, <3>2, WorkerFrame
  <2>2. CASE d = c
    <3>1. Unanswered(c)' /\ Started(c)' /\ ~InBacklog(c)' /\ c \notin hung'
      BY <1>1, <1>4, <1>5 DEF Queued, Unanswered, Started, Active
    <3>2. serving'[w] = c /\ wpc'[w] = "recv" /\ \A v \in Worker : serving'[v] = c => v = w
      BY <1>4, <1>6 DEF Queued, Idle
    <3>3. Greeting(c)' /\ outcome'[c] = "none"
      BY <1>1, <1>4 DEF Queued, Greeting
    <3>4. ServedBy(w, c)'
      BY <3>1, <3>2, <3>3 DEF ServedBy
    <3> QED
      BY <1>1, <1>4, <2>2, <3>1, <3>2, <3>4 DEF ConnInv, Queued, Idle
  <2> QED
    BY <2>1, <2>2
<1> QED
  BY <1>7, <1>8, <1>9, <1>10 DEF IInv

\* Reading takes the one message there is.
LEMMA Consumed ==
    ASSUME IInv, NEW w \in Worker, wpc[w] = "recv", up[serving[w]] # <<>>,
           up' = [up EXCEPT ![serving[w]] = Tail(@)]
    PROVE  up'[serving[w]] = <<>> /\ up' = [up EXCEPT ![serving[w]] = up'[serving[w]]]
<1> DEFINE c == serving[w]
<1>1. c \in Conn /\ (Greeting(c) \/ Asking(w, c))
  BY WorkerSees, WorkerReads
<1>2. Tail(up[c]) = <<>>
  BY <1>1, OneMessage DEF Greeting, Asking
<1> QED
  BY <1>1, <1>2 DEF IInv, Shape

LEMMA ServeHelloInv ==
    ASSUME IInv, NEW w \in Worker, ServeHello(w)
    PROVE  IInv'
<1>1. PICK c \in Conn : c = serving[w] /\ ServedBy(w, c) /\ ConnInv(c)
  BY WorkerSees DEF ServeHello, Incoming
<1>2. /\ wpc[w] = "recv" /\ up[c] # <<>> /\ Greeting(c) /\ Head(up[c]).public = c
      /\ up' = [up EXCEPT ![c] = Tail(@)]
      /\ UNCHANGED <<rider, report, gone, listener, outcome>>
  BY <1>1, WorkerReads DEF ServeHello, Incoming
<1>3. up'[c] = <<>> /\ up' = [up EXCEPT ![c] = up'[c]]
  BY <1>1, <1>2, Consumed
<1>4. CASE c \in gone /\ Release(w, "dead") /\ UNCHANGED down
  <2>1. down'[c] = <<>> /\ down' = [down EXCEPT ![c] = down'[c]]
    BY <1>2, <1>4 DEF Greeting, IInv, Shape
  <2> QED
    BY <1>1, <1>2, <1>3, <1>4, <2>1, ReleaseInv
<1>5. CASE /\ wkey' = [wkey EXCEPT ![w] = Shared(c, w)]
           /\ down' = [down EXCEPT ![c] = IF c \in gone THEN @ ELSE Append(@, Ack(w))]
           /\ UNCHANGED <<hung, wpc, serving>>
  <2>1. Shared(c, w) \in SUBSET (Conn \cup Worker)
    BY DEF Shared
  <2>2. /\ down'[c] = IF c \in gone THEN <<>> ELSE <<Ack(w)>>
        /\ down' = [down EXCEPT ![c] = down'[c]]
    BY <1>2, <1>5, OneMessage DEF Greeting, IInv, Shape
  <2>3. wkey'[w] = Shared(c, w)
    BY <1>5 DEF IInv, TypeOK
  <2>4. cpc' = cpc /\ gone' = gone /\ serving' = serving
    BY <1>2, <1>5 DEF rider
  <2>5. Greeted(w, c)'
    BY <1>2, <1>3, <2>2, <2>3, <2>4 DEF Greeted, Greeting
  <2>6. wpc' = [wpc EXCEPT ![w] = "recv"]
    BY <1>2, <1>5 DEF IInv, TypeOK
  <2>7. outcome' = [outcome EXCEPT ![c] = "none"]
    BY <1>1, <1>2 DEF ServedBy, IInv, TypeOK
  <2>8. /\ up' = [up EXCEPT ![serving[w]] = up'[serving[w]]]
        /\ down' = [down EXCEPT ![serving[w]] = down'[serving[w]]]
        /\ outcome' = [outcome EXCEPT ![serving[w]] = "none"]
    BY <1>1, <1>3, <2>2, <2>7
  <2>9. /\ serving[w] \in gone => down'[serving[w]] = <<>>
        /\ Greeted(w, serving[w])'
    BY <1>1, <2>2, <2>4, <2>5
  <2>10. UNCHANGED <<rider, report, gone, hung, listener, serving>>
    BY <1>2, <1>5 DEF listener
  <2>11. wpc[w] \notin {"accept", "dead"}
    BY <1>2
  <2> QED
    BY <1>5, <2>1, <2>6, <2>8, <2>9, <2>10, <2>11, KeepInv
<1> QED
  BY <1>1, <1>2, <1>4, <1>5 DEF ServeHello

\* No request of the project's own riders is ever dropped.
LEMMA TakeRequestInv ==
    ASSUME IInv, NEW w \in Worker, TakeRequest(w)
    PROVE  IInv'
<1>1. PICK c \in Conn : c = serving[w] /\ ServedBy(w, c) /\ ConnInv(c)
  BY WorkerSees DEF TakeRequest, Incoming
<1>2. /\ wpc[w] = "recv" /\ up[c] # <<>> /\ Asking(w, c) /\ Head(up[c]).key = wkey[w]
      /\ up' = [up EXCEPT ![c] = Tail(@)]
      /\ UNCHANGED <<rider, report, down, gone, listener, outcome>>
  BY <1>1, WorkerReads DEF TakeRequest, Incoming
<1>3. up'[c] = <<>> /\ up' = [up EXCEPT ![c] = up'[c]]
  BY <1>1, <1>2, Consumed
<1>4. wkey[w] # NoKey /\ Readable(Head(up[c]), wkey[w])
  BY <1>2, SharedKey DEF Asking, Readable
<1>5. wpc' = [wpc EXCEPT ![w] = "check"] /\ UNCHANGED <<hung, serving, wkey>>
  BY <1>1, <1>4 DEF TakeRequest
<1>6. Handled(w, c)'
  BY <1>2, <1>3, <1>5 DEF Asking, Handled, rider
<1>7. /\ wkey[w] \in SUBSET (Conn \cup Worker) /\ wkey' = [wkey EXCEPT ![w] = wkey[w]]
      /\ down'[c] = <<>> /\ down' = [down EXCEPT ![c] = down'[c]]
      /\ outcome' = [outcome EXCEPT ![c] = "none"]
  BY <1>1, <1>2, <1>5 DEF IInv, TypeOK, Shape, ServedBy, Asking
<1>8. UNCHANGED <<rider, report, gone, hung, listener, serving>>
  BY <1>2, <1>5
<1>9. wpc[w] \notin {"accept", "dead"} /\ wpc' = [wpc EXCEPT ![w] = "check"]
  BY <1>2, <1>5
<1> QED
  BY <1>1, <1>3, <1>6, <1>7, <1>8, <1>9, KeepInv

\* The limiter and the ride service touch the outcome only.
LEMMA DecideInv ==
    ASSUME IInv, NEW w \in Worker, wpc[w] \in {"check", "ride"},
           NEW place \in {"deny", "ride", "answer"},
           NEW out \in {"none", "blocked", "booked", "nodriver"},
           wpc' = [wpc EXCEPT ![w] = place],
           outcome' = [outcome EXCEPT ![serving[w]] = out],
           UNCHANGED <<rider, report, queues, listener, serving, wkey>>,
           CASE place = "deny" -> out = "blocked"
             [] place = "ride" -> out = "none"
             [] place = "answer" -> out \in {"booked", "nodriver"}
    PROVE  IInv'
<1>1. PICK c \in Conn : c = serving[w] /\ ServedBy(w, c) /\ ConnInv(c)
  BY WorkerSees
<1>2. Handled(w, c)
  BY <1>1 DEF ServedBy
<1>3. Handled(w, c)'
  BY <1>2 DEF Handled, rider, queues
<1>4. /\ wkey[w] \in SUBSET (Conn \cup Worker) /\ wkey' = [wkey EXCEPT ![w] = wkey[w]]
      /\ down'[c] = <<>> /\ down' = [down EXCEPT ![c] = down'[c]]
      /\ up' = [up EXCEPT ![c] = up'[c]]
      /\ UNCHANGED <<rider, report, gone, hung, listener, serving>>
  BY <1>1, <1>2 DEF IInv, TypeOK, Shape, Handled, queues
<1>5. /\ place = "deny" => out = "blocked"
      /\ place = "ride" => out = "none"
      /\ place = "answer" => out \in {"booked", "nodriver"}
  OBVIOUS
<1> QED
  BY <1>1, <1>3, <1>4, <1>5, KeepInv

LEMMA CheckInv ==
    ASSUME IInv, NEW w \in Worker, Check(w)
    PROVE  IInv'
<1>1. wpc[w] = "check" /\ UNCHANGED <<rider, report, queues, listener, serving, wkey>>
  BY DEF Check
<1>2. CASE wpc' = [wpc EXCEPT ![w] = "deny"] /\ outcome' = [outcome EXCEPT ![serving[w]] = "blocked"]
  BY <1>1, <1>2, DecideInv
<1>3. CASE wpc' = [wpc EXCEPT ![w] = "ride"] /\ UNCHANGED outcome
  <2>1. outcome[serving[w]] = "none" /\ outcome' = [outcome EXCEPT ![serving[w]] = "none"]
    BY <1>1, <1>3, WorkerSees DEF ServedBy, IInv, TypeOK
  <2> QED
    BY <1>1, <1>3, <2>1, DecideInv
<1> QED
  BY <1>2, <1>3 DEF Check

LEMMA RideInv ==
    ASSUME IInv, NEW w \in Worker, Ride(w)
    PROVE  IInv'
<1>1. /\ wpc[w] = "ride" /\ UNCHANGED <<rider, report, queues, listener, serving, wkey>>
      /\ wpc' = [wpc EXCEPT ![w] = "answer"]
  BY DEF Ride
<1>2. PICK out \in {"booked", "nodriver"} : outcome' = [outcome EXCEPT ![serving[w]] = out]
  BY DEF Ride
<1> QED
  BY <1>1, <1>2, DecideInv

LEMMA DenyInv ==
    ASSUME IInv, NEW w \in Worker, Deny(w)
    PROVE  IInv'
<1>1. PICK c \in Conn : c = serving[w] /\ ServedBy(w, c)
  BY WorkerSees DEF Deny
<1>2. wpc[w] = "deny" /\ down[c] = <<>> /\ outcome[c] = "blocked"
  BY <1>1 DEF Deny, ServedBy, Handled
<1>3. /\ UNCHANGED <<rider, report, gone, listener, outcome>>
      /\ up' = [up EXCEPT ![c] = up'[c]] /\ down' = [down EXCEPT ![c] = down'[c]] /\ down'[c] = <<>>
      /\ Release(w, "dead")
  BY <1>2 DEF Deny, IInv, Shape
<1> QED
  BY <1>1, <1>2, <1>3, ReleaseInv

LEMMA ReplyInv ==
    ASSUME IInv, NEW w \in Worker, Reply(w)
    PROVE  IInv'
<1>1. PICK c \in Conn : c = serving[w] /\ ServedBy(w, c) /\ ConnInv(c)
  BY WorkerSees DEF Reply
<1>2. /\ wpc[w] = "answer" /\ Handled(w, c) /\ outcome[c] \in {"booked", "nodriver"}
      /\ UNCHANGED <<rider, report, up, gone, listener, outcome>>
  BY <1>1 DEF Reply, ServedBy
<1>3. up' = [up EXCEPT ![c] = up'[c]]
  BY <1>2 DEF IInv, Shape
<1>4. CASE c \in gone /\ Release(w, "dead") /\ UNCHANGED down
  <2>1. down'[c] = <<>> /\ down' = [down EXCEPT ![c] = down'[c]]
    BY <1>2, <1>4 DEF Handled, IInv, Shape
  <2> QED
    BY <1>1, <1>2, <1>3, <1>4, <2>1, ReleaseInv
<1>5. CASE /\ down' = [down EXCEPT ![c] = IF c \in gone THEN @
                                          ELSE Append(@, Answer(wkey[w], Text(outcome[c])))]
           /\ Release(w, "accept")
  <2>1. /\ down'[c] = IF c \in gone THEN <<>> ELSE <<Answer(wkey[w], Text(outcome[c]))>>
        /\ down' = [down EXCEPT ![c] = down'[c]]
    BY <1>2, <1>5, OneMessage DEF Handled, IInv, Shape
  <2>2. c \notin gone => wkey[w] = rkey[c[1]] /\ cpc[c[1]] = "asked"
    BY <1>2 DEF Handled
  <2> QED
    BY <1>1, <1>2, <1>3, <1>5, <2>1, <2>2, ReleaseInv
<1> QED
  BY <1>1, <1>4, <1>5 DEF Reply, Text

LEMMA HangUpInv ==
    ASSUME IInv, NEW w \in Worker, HangUp(w)
    PROVE  IInv'
<1>1. PICK c \in Conn : c = serving[w] /\ ConnInv(c)
  BY WorkerSees DEF HangUp
<1>2. /\ wpc[w] = "recv" /\ c \in gone /\ down[c] = <<>>
      /\ UNCHANGED <<rider, report, up, down, gone, listener, outcome>>
  BY <1>1 DEF HangUp, ConnInv
<1>3. /\ up' = [up EXCEPT ![c] = up'[c]] /\ down' = [down EXCEPT ![c] = down'[c]] /\ down'[c] = <<>>
  BY <1>2 DEF IInv, Shape
<1> QED
  BY <1>1, <1>2, <1>3, ReleaseInv DEF HangUp

\* Whoever still queues sees the end of the stream; nothing was done for it.
LEMMA MasterEndsInv ==
    ASSUME IInv, MasterEnds
    PROVE  IInv'
<1>1. /\ listening' = FALSE /\ backlog' = <<>>
      /\ \A d \in Conn : d \in hung' <=> d \in hung \/ InBacklog(d)
      /\ UNCHANGED <<attempt, cpc, rkey, success_local_count, result, report, up, down, gone,
                     wpc, serving, wkey, outcome>>
  BY RangeBacklog DEF MasterEnds, rider, workers, IInv, Shape
<1>2. TypeOK'
  <2>1. hung' \subseteq Conn
    BY DEF MasterEnds, IInv, TypeOK
  <2>2. Range(backlog') \subseteq Conn
    BY <1>1 DEF Range
  <2> QED
    BY <1>1, <2>1, <2>2 DEF IInv, TypeOK, report
<1>3. Shape'
  BY <1>1 DEF IInv, Shape
<1>4. \A q \in Rider : RiderInv(q)'
  BY <1>1 DEF IInv, RiderInv
<1>5. ASSUME NEW d \in Conn PROVE ConnInv(d)'
  <2>1. ~InBacklog(d)' /\ ConnInv(d)
    BY <1>1 DEF InBacklog, IInv
  <2>2. (Started(d)' <=> Started(d)) /\ (Idle(d)' <=> Idle(d))
    BY <1>1 DEF Started, Active, Idle
  <2>3. CASE InBacklog(d)
    <3>1. Queued(d) /\ d \in hung'
      BY <1>1, <1>5, <2>1, <2>3 DEF ConnInv
    <3>2. Over(d)'
      BY <1>1, <2>1, <2>2, <3>1 DEF Over, Queued, Unanswered
    <3> QED
      BY <1>1, <2>1, <2>2, <3>1, <3>2 DEF ConnInv, Queued, Unanswered, Idle
  <2>4. CASE ~InBacklog(d)
    <3>1. Same(d)
      BY <1>1, <1>5, <2>1, <2>4 DEF Same, Active
    <3> QED
      BY <1>5, <2>1, <3>1, FrameConn
  <2> QED
    BY <2>3, <2>4
<1> QED
  BY <1>2, <1>3, <1>4, <1>5 DEF IInv

LEMMA StepInv == IInv /\ [Next]_vars => IInv'
<1> SUFFICES ASSUME IInv, [Next]_vars PROVE IInv'
  OBVIOUS
<1>1. CASE \E r \in Rider : RiderStep(r)
  BY <1>1, ConnectInv, HearAckInv, HearAnswerInv, HearEndInv, TimeOutInv, CountInv, FinishInv
     DEF RiderStep
<1>2. CASE \E w \in Worker : WorkerStep(w)
  BY <1>2, AcceptInv, ServeHelloInv, TakeRequestInv, CheckInv, RideInv, DenyInv, ReplyInv, HangUpInv
     DEF WorkerStep
<1>3. CASE MasterEnds
  BY <1>3, MasterEndsInv
<1>4. CASE UNCHANGED vars
  <2>1. UNCHANGED <<attempt, cpc, rkey, success_local_count, result, total_requests, success_count,
                    fail_count, final_status, up, down, gone, hung, backlog, listening, wpc, serving,
                    wkey, outcome>>
    BY <1>4 DEF vars, rider, report, queues, listener, workers
  <2>2. TypeOK' /\ Shape' /\ \A r \in Rider : RiderInv(r)'
    BY <2>1 DEF IInv, TypeOK, Shape, RiderInv
  <2>3. ASSUME NEW d \in Conn PROVE ConnInv(d)'
    <3>1. Same(d) /\ ConnInv(d)
      BY <2>1, <2>3 DEF Same, Active, InBacklog, IInv
    <3> QED
      BY <2>3, <3>1, FrameConn
  <2> QED
    BY <2>2, <2>3 DEF IInv
<1> QED
  BY <1>1, <1>2, <1>3, <1>4 DEF Next

-----------------------------------------------------------------------------
\* The inductive invariant holds in every state.
LEMMA InvAlways == Spec => []IInv
  BY InitInv, StepInv, PTL DEF Spec

\* A worker has a connection exactly while it is in handle_client, and no two have the
\* same one (dispatcher.c:24-41, 104-215).
THEOREM TypeCorrect == Spec => []TypeOK
<1>1. IInv => TypeOK
  BY DEF IInv
<1> QED
  BY <1>1, InvAlways, PTL

\* Both ends derive one key: every request reaches a worker that can read it and every
\* answer a rider that can (client_core.c:55-95, dispatcher.c:126-157).
THEOREM SameKeyAlways == Spec => []SameKey
<1>1. IInv => SameKey
  <2> SUFFICES ASSUME IInv PROVE SameKey
    OBVIOUS
  <2>1. ASSUME NEW w \in Worker, Incoming(w, "request")
        PROVE  wkey[w] # NoKey /\ Readable(Head(up[serving[w]]), wkey[w])
    BY <2>1, WorkerReads, SharedKey DEF Incoming, Asking, Readable
  <2>2. ASSUME NEW r \in Rider, cpc[r] = "asked", down[Current(r)] # <<>>
        PROVE  Readable(Head(down[Current(r)]), rkey[r])
    <3>1. down[Current(r)] = <<Answer(rkey[r], Text(outcome[Current(r)]))>>
      BY <2>2, RiderHears
    <3> QED
      BY <3>1, OneMessage, Kinds DEF Readable
  <2> QED
    BY <2>1, <2>2 DEF SameKey
<1> QED
  BY <1>1, InvAlways, PTL

\* A success was booked, and only a rider that gave up misses a booking.
LEMMA AnswersTrue == IInv => AnswerTrue
<1> SUFFICES ASSUME IInv, NEW c \in Conn
             PROVE  /\ result[c] = "success" => outcome[c] = "booked"
                    /\ outcome[c] = "booked" => result[c] \in {"none", "success", "silence"}
  BY DEF AnswerTrue
<1>1. ConnInv(c)
  BY DEF IInv
<1>2. CASE c \in hung
  BY <1>1, <1>2 DEF ConnInv, Over
<1>3. CASE c \notin hung /\ Started(c)
  BY <1>1, <1>3 DEF ConnInv, Queued, Idle, ServedBy, Unanswered
<1>4. CASE ~Started(c)
  BY <1>1, <1>4 DEF ConnInv, Untouched, Started
<1> QED
  BY <1>2, <1>3, <1>4

\* A rider is told of a ride only if its attempt booked one, and while nobody shuts the
\* server down it misses a booking only by giving up first (client_core.c:165-172,
\* dispatcher.c:96-100).
THEOREM AnswerTrueAlways == Spec => []AnswerTrue
  BY AnswersTrue, InvAlways, PTL

-----------------------------------------------------------------------------
(***************************************************************************)
(* The report.  An attempt that is over is reported except while its rider *)
(* is about to count it; the counters are the sizes of these sets.         *)
(***************************************************************************)
Reported == {c \in Conn : result[c] # "none" /\ ~(c = Current(c[1]) /\ cpc[c[1]] = "count")}
Won == {c \in Reported : result[c] = "success"}
Booked == {c \in Conn : outcome[c] = "booked"}

\* A rider's own count and the word it leaves in the table.
Verdict(r) ==
    IF cpc[r] = "done" THEN final_status[r] = "SUCCESS" <=> success_local_count[r] > 0
    ELSE final_status[r] # "SUCCESS"
Tally(r) ==
    /\ cpc[r] = "count" => result[Current(r)] # "none"
    /\ success_local_count[r] > 0 <=> \E c \in Won : c[1] = r

ReportInv ==
    /\ IsFiniteSet(Reported) /\ IsFiniteSet(Booked)
    /\ total_requests = Cardinality(Reported)
    /\ success_count = Cardinality(Won)
    /\ success_count + fail_count = total_requests
    /\ \A r \in Rider : Tally(r) /\ Verdict(r)

LEMMA InitReport == Init => ReportInv
<1> SUFFICES ASSUME Init PROVE ReportInv
  OBVIOUS
<1>1. Reported = {} /\ Won = {} /\ Booked = {}
  BY DEF Init, Reported, Won, Booked
<1>2. \A r \in Rider : Tally(r) /\ Verdict(r)
  BY <1>1 DEF Init, Tally, Verdict
<1> QED
  BY <1>1, <1>2, FS_EmptySet DEF Init, ReportInv

\* What a step that neither ends nor counts an attempt has to keep.
LEMMA SameReport ==
    ASSUME ReportInv,
           UNCHANGED <<result, success_local_count, total_requests, success_count, fail_count>>,
           \A q \in Rider : /\ cpc'[q] = "count" <=> cpc[q] = "count"
                            /\ cpc[q] = "count" => attempt'[q] = attempt[q]
                            /\ Verdict(q)',
           IsFiniteSet(Booked')
    PROVE  ReportInv'
<1>1. \A c \in Conn : c \in Reported' <=> c \in Reported
  BY ConnParts DEF Reported, Current
<1>2. Reported' = Reported
  BY <1>1 DEF Reported
<1>3. Won' = Won
  BY <1>2 DEF Won
<1>4. ASSUME NEW q \in Rider PROVE Tally(q)'
  BY <1>3 DEF Tally, ReportInv, Current
<1> QED
  BY <1>2, <1>3, <1>4 DEF ReportInv

LEMMA ConnectReport ==
    ASSUME IInv, ReportInv, NEW r \in Rider, Connect(r)
    PROVE  ReportInv'
<1>1. /\ attempt \in [Rider -> 1..(Attempts + 1)] /\ cpc[r] = "connect"
      /\ cpc \in [Rider -> {"connect", "hello", "asked", "count", "done"}]
      /\ UNCHANGED <<result, success_local_count, total_requests, success_count, fail_count,
                     final_status, outcome>>
  BY DEF Connect, IInv, TypeOK, report, workers
<1>2. ASSUME NEW q \in Rider
      PROVE  /\ cpc'[q] = "count" <=> cpc[q] = "count"
             /\ cpc[q] = "count" => attempt'[q] = attempt[q]
             /\ cpc'[q] = "done" <=> cpc[q] = "done"
  BY <1>1 DEF Connect
<1>3. Booked' = Booked /\ \A q \in Rider : Verdict(q)'
  BY <1>1, <1>2 DEF Booked, Verdict, ReportInv
<1> QED
  BY <1>1, <1>2, <1>3, SameReport DEF ReportInv

LEMMA HearAckReport ==
    ASSUME IInv, ReportInv, NEW r \in Rider, HearAck(r)
    PROVE  ReportInv'
<1>1. /\ cpc[r] = "hello" /\ cpc' = [cpc EXCEPT ![r] = "asked"]
      /\ cpc \in [Rider -> {"connect", "hello", "asked", "count", "done"}]
      /\ UNCHANGED <<attempt, result, success_local_count, total_requests, success_count, fail_count,
                     final_status, outcome>>
  BY DEF HearAck, IInv, TypeOK, report, workers
<1>2. Booked' = Booked /\ \A q \in Rider : Verdict(q)'
  BY <1>1 DEF Booked, Verdict, ReportInv
<1> QED
  BY <1>1, <1>2, SameReport DEF ReportInv

\* An attempt that ends waits to be counted.
LEMMA LeaveReport ==
    ASSUME IInv, ReportInv, NEW r \in Rider, cpc[r] \in {"hello", "asked"},
           NEW res, res # "none", Leave(r, res)
    PROVE  ReportInv'
<1>1. /\ Current(r) \in Conn /\ Current(r)[1] = r /\ result[Current(r)] = "none"
  BY RiderSees
<1>2. /\ cpc' = [cpc EXCEPT ![r] = "count"] /\ result' = [result EXCEPT ![Current(r)] = res]
      /\ cpc \in [Rider -> {"connect", "hello", "asked", "count", "done"}]
      /\ \A d \in Conn : result'[d] = IF d = Current(r) THEN res ELSE result[d]
      /\ UNCHANGED <<attempt, success_local_count, total_requests, success_count, fail_count,
                     final_status, outcome>>
  BY DEF Leave, IInv, TypeOK, report, workers
<1>3. \A q \in Rider : Current(q)' = Current(q) /\ (Current(q) = Current(r) => q = r)
  BY <1>2 DEF Current
<1>4. ASSUME NEW d \in Conn PROVE d \in Reported' <=> d \in Reported
  <2>1. CASE d = Current(r)
    BY <1>1, <1>2, <1>3, <2>1 DEF Reported
  <2>2. CASE d # Current(r) /\ d[1] # r
    BY <1>2, <1>3, <2>2, ConnParts DEF Reported
  <2>3. CASE d # Current(r) /\ d[1] = r
    BY <1>2, <1>3, <2>3 DEF Reported
  <2> QED
    BY <2>1, <2>2, <2>3
<1>5. Reported' = Reported
  BY <1>4 DEF Reported
<1>6. Won' = Won
  BY <1>1, <1>2, <1>5 DEF Won, Reported
<1>7. Booked' = Booked
  BY <1>2 DEF Booked
<1>8. ASSUME NEW q \in Rider PROVE Tally(q)' /\ Verdict(q)'
  <2>1. cpc'[q] = "count" => result'[Current(q)] # "none"
    BY <1>1, <1>2, <1>3 DEF ReportInv, Tally
  <2>2. Tally(q)'
    BY <1>2, <1>3, <1>6, <2>1 DEF ReportInv, Tally
  <2>3. Verdict(q)'
    BY <1>2 DEF ReportInv, Verdict
  <2> QED
    BY <2>2, <2>3
<1> QED
  BY <1>2, <1>5, <1>6, <1>7, <1>8 DEF ReportInv

\* One attempt more is reported, as what it was.
LEMMA CountReport ==
    ASSUME IInv, ReportInv, NEW r \in Rider, Count(r)
    PROVE  ReportInv'
<1>1. /\ attempt[r] \in 1..Attempts /\ attempt \in [Rider -> 1..(Attempts + 1)]
      /\ cpc[r] = "count" /\ cpc \in [Rider -> {"connect", "hello", "asked", "count", "done"}]
      /\ success_local_count \in [Rider -> 0..Attempts]
      /\ final_status \in [Rider -> {"INIT", "SUCCESS", "FAIL_DOS", "FAIL_NO_DRIVER"}]
      /\ success_count \in Nat /\ fail_count \in Nat
  BY Attempted DEF Count, IInv, TypeOK, RiderInv
<1>2. PICK c \in Conn : c = Current(r) /\ c[1] = r
  BY <1>1, ConnParts DEF Current
<1>3. /\ attempt' = [attempt EXCEPT ![r] = @ + 1] /\ cpc' = [cpc EXCEPT ![r] = "connect"]
      /\ total_requests' = total_requests + 1
      /\ UNCHANGED <<result, outcome>>
  BY DEF Count, workers
<1>4. result[c] # "none" /\ c \notin Reported
  BY <1>1, <1>2 DEF ReportInv, Tally, Reported
<1>5. ASSUME NEW d \in Conn PROVE d \in Reported' <=> d \in Reported \cup {c}
  <2>1. CASE d[1] = r
    <3>1. cpc'[r] = "connect"
      BY <1>1, <1>3
    <3> QED
      BY <1>2, <1>3, <1>4, <2>1, <3>1 DEF Reported
  <2>2. CASE d[1] # r
    <3>1. d[1] \in Rider /\ attempt'[d[1]] = attempt[d[1]] /\ cpc'[d[1]] = cpc[d[1]]
      BY <1>1, <1>3, <2>2, ConnParts
    <3> QED
      BY <1>2, <1>3, <2>2, <3>1 DEF Reported, Current
  <2> QED
    BY <2>1, <2>2
<1>6. Reported' = Reported \cup {c}
  BY <1>2, <1>5 DEF Reported
<1>7. Won' = IF result[c] = "success" THEN Won \cup {c} ELSE Won
  BY <1>3, <1>6 DEF Won
<1>8. /\ IsFiniteSet(Reported') /\ Cardinality(Reported') = Cardinality(Reported) + 1
  BY <1>4, <1>6, FS_AddElement DEF ReportInv
<1>9. IsFiniteSet(Won) /\ c \notin Won
  BY <1>4, FS_Subset DEF Won, ReportInv
<1>10. /\ IF result[c] = "success"
          THEN /\ success_count' = success_count + 1 /\ fail_count' = fail_count
               /\ success_local_count' = [success_local_count EXCEPT ![r] = @ + 1]
          ELSE /\ success_count' = success_count /\ fail_count' = fail_count + 1
               /\ success_local_count' = success_local_count
       /\ final_status'[r] \in {final_status[r], "FAIL_DOS", "FAIL_NO_DRIVER"}
       /\ \A q \in Rider \ {r} : final_status'[q] = final_status[q]
  BY <1>1, <1>2 DEF Count, ReturnCode
<1>11. success_count' = Cardinality(Won')
  BY <1>7, <1>9, <1>10, FS_AddElement DEF ReportInv
<1>12. success_count' + fail_count' = total_requests'
  BY <1>1, <1>3, <1>10 DEF ReportInv
<1>13. Booked' = Booked
  BY <1>3 DEF Booked
<1>14. ASSUME NEW q \in Rider PROVE Tally(q)' /\ Verdict(q)'
  <2>1. Tally(q) /\ Verdict(q) /\ success_local_count[q] \in Nat
    BY <1>1, Attempted DEF ReportInv
  <2>2. CASE q = r
    <3>1. cpc'[q] = "connect" /\ cpc[q] = "count"
      BY <1>1, <1>3, <2>2
    <3>2. Verdict(q)'
      BY <1>10, <2>1, <2>2, <3>1 DEF Verdict
    <3>3. success_local_count'[q] > 0 <=> \E d \in Won' : d[1] = q
      BY <1>1, <1>2, <1>7, <1>10, <2>1, <2>2 DEF Tally
    <3> QED
      BY <3>1, <3>2, <3>3 DEF Tally
  <2>3. CASE q # r
    <3>1. /\ cpc'[q] = cpc[q] /\ attempt'[q] = attempt[q] /\ final_status'[q] = final_status[q]
          /\ success_local_count'[q] = success_local_count[q]
      BY <1>1, <1>3, <1>10, <2>3
    <3>2. (\E d \in Won' : d[1] = q) <=> \E d \in Won : d[1] = q
      BY <1>2, <1>7, <2>3
    <3> QED
      BY <1>3, <2>1, <3>1, <3>2 DEF Tally, Verdict, Current
  <2> QED
    BY <2>2, <2>3
<1> QED
  BY <1>3, <1>8, <1>11, <1>12, <1>13, <1>14 DEF ReportInv

\* The last word follows from the rider's own count.
LEMMA FinishReport ==
    ASSUME IInv, ReportInv, NEW r \in Rider, Finish(r)
    PROVE  ReportInv'
<1>1. /\ cpc[r] = "connect" /\ cpc' = [cpc EXCEPT ![r] = "done"]
      /\ cpc \in [Rider -> {"connect", "hello", "asked", "count", "done"}]
      /\ final_status \in [Rider -> {"INIT", "SUCCESS", "FAIL_DOS", "FAIL_NO_DRIVER"}]
      /\ UNCHANGED <<attempt, result, success_local_count, total_requests, success_count, fail_count,
                     outcome>>
  BY DEF Finish, IInv, TypeOK, workers
<1>2. ASSUME NEW q \in Rider PROVE Verdict(q)'
  <2>1. CASE q # r
    BY <1>1, <2>1 DEF Verdict, ReportInv, Finish
  <2>2. CASE q = r
    <3>1. cpc'[r] = "done" /\ final_status[r] # "SUCCESS"
      BY <1>1 DEF Verdict, ReportInv
    <3>2. final_status'[r] = "SUCCESS" <=> success_local_count[r] > 0
      BY <1>1, <3>1 DEF Finish
    <3> QED
      BY <1>1, <2>2, <3>1, <3>2 DEF Verdict
  <2> QED
    BY <2>1, <2>2
<1>3. Booked' = Booked
  BY <1>1 DEF Booked
<1> QED
  BY <1>1, <1>2, <1>3, SameReport DEF ReportInv

\* The server does not touch the report, and books for one connection at a time.
LEMMA WorkerReport ==
    ASSUME IInv, ReportInv, UNCHANGED <<rider, report>>,
           \/ UNCHANGED outcome
           \/ \E c, out : outcome' = [outcome EXCEPT ![c] = out]
    PROVE  ReportInv'
<1>1. UNCHANGED <<attempt, cpc, result, success_local_count, total_requests, success_count, fail_count,
                  final_status>>
  BY DEF rider, report
<1>2. IsFiniteSet(Booked')
  <2>1. PICK c : Booked' \subseteq Booked \cup {c}
    <3>1. CASE UNCHANGED outcome
      BY <3>1 DEF Booked
    <3>2. ASSUME NEW c, NEW out, outcome' = [outcome EXCEPT ![c] = out]
          PROVE  Booked' \subseteq Booked \cup {c}
      BY <3>2 DEF Booked, IInv, TypeOK
    <3> QED
      BY <3>1, <3>2
  <2>2. IsFiniteSet(Booked \cup {c})
    BY FS_AddElement DEF ReportInv
  <2> QED
    BY <2>1, <2>2, FS_Subset
<1>3. \A q \in Rider : Verdict(q)'
  BY <1>1 DEF Verdict, ReportInv
<1> QED
  BY <1>1, <1>2, <1>3, SameReport

LEMMA StepReport == IInv /\ ReportInv /\ [Next]_vars => ReportInv'
<1> SUFFICES ASSUME IInv, ReportInv, [Next]_vars PROVE ReportInv'
  OBVIOUS
<1>1. ASSUME NEW r \in Rider, HearAnswer(r) PROVE ReportInv'
  <2>1. PICK res \in {"mismatch", "success", "blocked", "refused"} : cpc[r] = "asked" /\ Leave(r, res)
    BY <1>1 DEF HearAnswer
  <2> QED
    BY <2>1, LeaveReport
<1>2. ASSUME NEW r \in Rider, HearEnd(r) \/ TimeOut(r) PROVE ReportInv'
  BY <1>2, LeaveReport DEF HearEnd, TimeOut, Waiting
<1>3. CASE \E r \in Rider : RiderStep(r)
  BY <1>1, <1>2, <1>3, ConnectReport, HearAckReport, CountReport, FinishReport DEF RiderStep
<1>4. ASSUME NEW w \in Worker, WorkerStep(w) PROVE ReportInv'
  <2>1. UNCHANGED <<rider, report>>
    BY <1>4 DEF WorkerStep, Accept, ServeHello, TakeRequest, Check, Ride, Deny, Reply, HangUp
  <2>2. \/ UNCHANGED outcome
        \/ \E c, out : outcome' = [outcome EXCEPT ![c] = out]
    BY <1>4 DEF WorkerStep, Accept, ServeHello, TakeRequest, Check, Ride, Deny, Reply, HangUp
  <2> QED
    BY <2>1, <2>2, WorkerReport
<1>5. CASE MasterEnds \/ UNCHANGED vars
  BY <1>5, WorkerReport DEF MasterEnds, vars, workers
<1> QED
  BY <1>3, <1>4, <1>5 DEF Next

\* When all threads have joined, the report adds up: no more rides than the server booked,
\* every attempt that reached it in one of the two counts, and a rider marked successful
\* exactly when one of its attempts was (stress_client.c:124-172).
THEOREM ReportTrueAlways == Spec => []ReportTrue
<1>1. IInv /\ ReportInv => ReportTrue
  <2> SUFFICES ASSUME IInv, ReportInv, \A r \in Rider : cpc[r] = "done"
               PROVE  /\ success_count <= Cardinality(Booked)
                      /\ success_count + fail_count = total_requests
                      /\ total_requests = Cardinality({c \in Conn : result[c] # "none"})
                      /\ \A r \in Rider : final_status[r] = "SUCCESS" <=>
                            \E a \in 1..Attempts : result[<<r, a>>] = "success"
    BY DEF ReportTrue, Booked
  <2>1. Reported = {c \in Conn : result[c] # "none"}
    BY ConnParts DEF Reported
  <2>2. Won \subseteq Booked
    BY AnswersTrue DEF Won, Reported, Booked, AnswerTrue
  <2>3. success_count <= Cardinality(Booked)
    BY <2>2, FS_Subset DEF ReportInv
  <2>4. ASSUME NEW r \in Rider
        PROVE  final_status[r] = "SUCCESS" <=> \E a \in 1..Attempts : result[<<r, a>>] = "success"
    <3>1. final_status[r] = "SUCCESS" <=> \E c \in Won : c[1] = r
      BY DEF ReportInv, Tally, Verdict
    <3>2. \A c \in Conn : c \in Won <=> result[c] = "success"
      BY <2>1 DEF Won
    <3>3. (\E c \in Won : c[1] = r) => \E a \in 1..Attempts : result[<<r, a>>] = "success"
      BY <2>1, <3>2, ConnParts DEF Won
    <3>4. ASSUME NEW a \in 1..Attempts, result[<<r, a>>] = "success" PROVE \E c \in Won : c[1] = r
      <4>1. <<r, a>> \in Won /\ <<r, a>>[1] = r
        BY <3>2, <3>4, ConnParts
      <4> QED
        BY <4>1
    <3> QED
      BY <3>1, <3>3, <3>4
  <2> QED
    BY <2>1, <2>3, <2>4 DEF ReportInv
<1> QED
  BY <1>1, InitReport, StepReport, InitInv, StepInv, PTL DEF Spec

=============================================================================
