----------------------------- MODULE Connection ------------------------------
(***************************************************************************)
(* One connection from both ends: a thread of the stress client runs       *)
(* perform_ride_request Attempts times in a row, and a pool of dispatcher  *)
(* processes takes the connections from the listening socket and answers   *)
(* them with handle_client.                                                *)
(*                                                                         *)
(* TCP loses and reorders nothing, so each direction is a queue.  What is  *)
(* left to go wrong is time and death: the rider gives up after two        *)
(* seconds of silence and closes, also while its ride is being booked; a   *)
(* worker that writes to a closed connection may get SIGPIPE, which the    *)
(* server does not ignore; and a worker that encrypts the refusal in place *)
(* writes into a string literal.  A dead worker is not replaced.           *)
(*                                                                         *)
(* The rate limiter and the ride service answer either way here; what they *)
(* answer is the subject of RateLimiter and RideServer.                    *)
(***************************************************************************)
EXTENDS Integers, Sequences, FiniteSetsExt, SequencesExt

CONSTANTS
    Worker,    \* the forked dispatcher processes
    Rider,     \* the threads of the stress client
    Attempts,  \* requests_per_thread
    NoConn     \* what a worker between two connections serves

ASSUME ConnectionAssumption == Attempts \in Nat \ {0}

\* The connection of a rider's a-th attempt.
Conn == Rider \X (1..Attempts)

ASSUME NoConnAssumption == NoConn \notin Conn

VARIABLES
    attempt, cpc, rkey,   \* each rider: loop counter, place, session key
    success_local_count,  \* each rider: how many of its attempts succeeded
    total_requests, success_count, fail_count, final_status,   \* its report
    up, down,             \* messages under way to and from the server
    gone, hung,           \* connections closed by the rider, by the server
    backlog, listening,   \* the listening socket
    wpc, serving, wkey,   \* each worker: place, connection, session key
    result,   \* history: how an attempt ended for the rider
    outcome   \* history: what the server did for it

rider == <<attempt, cpc, rkey, success_local_count, result>>
report == <<total_requests, success_count, fail_count, final_status>>
queues == <<up, down, gone, hung>>
listener == <<backlog, listening>>
workers == <<wpc, serving, wkey, outcome>>
vars == <<rider, report, queues, listener, workers>>

\* A private key is named by who draws it; calculate_shared_secret gives both
\* ends the same value, whichever of the two public keys they start from.
Shared(other_public, my_private) == {other_public, my_private}
NoKey == {}

Hello(c) == [kind |-> "handshake", public |-> c]
Ack(w) == [kind |-> "ack", public |-> w]
Request(k) == [kind |-> "request", key |-> k]
Answer(k, text) == [kind |-> "answer", key |-> k, text |-> text]

\* A packet deciphered with another key does not match its checksum.
Readable(msg, k) == msg.key = k

\* perform_ride_request returns -1 for a refusal, a closed connection and two
\* seconds of silence alike; they are told apart here.
ReturnCode(res) == IF res = "success" THEN 0 ELSE IF res = "blocked" THEN -2 ELSE -1

Current(r) == <<r, attempt[r]>>

Init ==
    /\ attempt = [r \in Rider |-> 1]
    /\ cpc = [r \in Rider |-> "connect"]
    /\ rkey = [r \in Rider |-> NoKey]
    /\ success_local_count = [r \in Rider |-> 0]
    /\ total_requests = 0 /\ success_count = 0 /\ fail_count = 0
    /\ final_status = [r \in Rider |-> "INIT"]
    /\ up = [c \in Conn |-> <<>>] /\ down = [c \in Conn |-> <<>>]
    /\ gone = {} /\ hung = {}
    /\ backlog = <<>> /\ listening = TRUE
    /\ wpc = [w \in Worker |-> "accept"]
    /\ serving = [w \in Worker |-> NoConn]
    /\ wkey = [w \in Worker |-> NoKey]
    /\ result = [c \in Conn |-> "none"]
    /\ outcome = [c \in Conn |-> "none"]

-----------------------------------------------------------------------------
(***************************************************************************)
(* A rider.                                                                *)
(***************************************************************************)

\* Connect and send the public key.  A refused connection uses up an attempt
\* and is counted nowhere.
Connect(r) ==
    /\ cpc[r] = "connect" /\ attempt[r] <= Attempts
    /\ \/ /\ listening
          /\ up' = [up EXCEPT ![Current(r)] = <<Hello(Current(r))>>]
          /\ backlog' = Append(backlog, Current(r))
          /\ cpc' = [cpc EXCEPT ![r] = "hello"]
          /\ UNCHANGED attempt
       \/ /\ ~listening
          /\ attempt' = [attempt EXCEPT ![r] = @ + 1]
          /\ UNCHANGED <<up, backlog, cpc>>
    /\ UNCHANGED <<rkey, success_local_count, result, report, down, gone, hung, listening, workers>>

\* The server's public key has come: derive the key and send the request.
HearAck(r) ==
    LET c == Current(r) IN
    /\ cpc[r] = "hello" /\ down[c] # <<>>
    /\ rkey' = [rkey EXCEPT ![r] = Shared(Head(down[c]).public, c)]
    /\ down' = [down EXCEPT ![c] = Tail(@)]
    /\ up' = [up EXCEPT ![c] = Append(@, Request(rkey'[r]))]
    /\ cpc' = [cpc EXCEPT ![r] = "asked"]
    /\ UNCHANGED <<attempt, success_local_count, result, report, gone, hung, listener, workers>>

\* perform_ride_request returns res and the socket is closed.
Leave(r, res) ==
    /\ result' = [result EXCEPT ![Current(r)] = res]
    /\ gone' = gone \cup {Current(r)}
    /\ down' = [down EXCEPT ![Current(r)] = <<>>]
    /\ cpc' = [cpc EXCEPT ![r] = "count"]
    /\ UNCHANGED <<attempt, rkey, success_local_count, report, up, hung, listener, workers>>

HearAnswer(r) ==
    /\ cpc[r] = "asked" /\ down[Current(r)] # <<>>
    /\ LET msg == Head(down[Current(r)])
       IN  Leave(r, IF ~Readable(msg, rkey[r]) THEN "mismatch"
                    ELSE IF msg.text = "Ride Confirmed!" THEN "success"
                    ELSE IF msg.text = "Error: Blocked." THEN "blocked" ELSE "refused")

Waiting(r) == cpc[r] \in {"hello", "asked"} /\ down[Current(r)] = <<>>

HearEnd(r) == Waiting(r) /\ Current(r) \in hung /\ Leave(r, "closed")

\* Variant: the error path forgets to close the socket.
TimeOutOpen(r) ==
    /\ Waiting(r) /\ Current(r) \notin hung
    /\ result' = [result EXCEPT ![Current(r)] = "silence"]
    /\ cpc' = [cpc EXCEPT ![r] = "count"]
    /\ UNCHANGED <<attempt, rkey, success_local_count, report, queues, listener, workers>>

TimeOut(r) == Waiting(r) /\ Current(r) \notin hung /\ Leave(r, "silence")

\* Under stats->lock; only the first failure leaves its mark in the table.
Count(r) ==
    LET code == ReturnCode(result[Current(r)]) IN
    /\ cpc[r] = "count"
    /\ total_requests' = total_requests + 1
    /\ \/ /\ code = 0
          /\ success_count' = success_count + 1
          /\ success_local_count' = [success_local_count EXCEPT ![r] = @ + 1]
          /\ UNCHANGED <<fail_count, final_status>>
       \/ /\ code # 0
          /\ fail_count' = fail_count + 1
          /\ final_status' = [final_status EXCEPT ![r] =
                IF @ # "INIT" THEN @ ELSE IF code = -2 THEN "FAIL_DOS" ELSE "FAIL_NO_DRIVER"]
          /\ UNCHANGED <<success_count, success_local_count>>
    /\ attempt' = [attempt EXCEPT ![r] = @ + 1]
    /\ cpc' = [cpc EXCEPT ![r] = "connect"]
    /\ rkey' = [rkey EXCEPT ![r] = NoKey]
    /\ UNCHANGED <<result, queues, listener, workers>>

\* Variant: the last failure has the final word.
FinishAsFailed(r) ==
    /\ cpc[r] = "connect" /\ attempt[r] > Attempts
    /\ final_status' = [final_status EXCEPT ![r] =
            IF @ = "INIT" THEN IF success_local_count[r] > 0 THEN "SUCCESS" ELSE "FAIL_NO_DRIVER" ELSE @]
    /\ cpc' = [cpc EXCEPT ![r] = "done"]
    /\ UNCHANGED <<attempt, rkey, success_local_count, result, total_requests,
                   success_count, fail_count, queues, listener, workers>>

\* The thread's last word: one success outweighs any failure.
Finish(r) ==
    /\ cpc[r] = "connect" /\ attempt[r] > Attempts
    /\ final_status' = [final_status EXCEPT ![r] =
            IF success_local_count[r] > 0 THEN "SUCCESS" ELSE IF @ = "INIT" THEN "FAIL_NO_DRIVER" ELSE @]
    /\ cpc' = [cpc EXCEPT ![r] = "done"]
    /\ UNCHANGED <<attempt, rkey, success_local_count, result, total_requests,
                   success_count, fail_count, queues, listener, workers>>

-----------------------------------------------------------------------------
(***************************************************************************)
(* A worker.  Whenever it ends with a connection, by close() or by dying,  *)
(* the rider sees the end of the stream behind whatever was written.       *)
(***************************************************************************)
Release(w, place) ==
    /\ wpc' = [wpc EXCEPT ![w] = place]
    /\ hung' = hung \cup {serving[w]}
    /\ serving' = [serving EXCEPT ![w] = NoConn]
    /\ wkey' = [wkey EXCEPT ![w] = NoKey]

Incoming(w, kind) ==
    /\ wpc[w] = "recv"
    /\ up[serving[w]] # <<>> /\ Head(up[serving[w]]).kind = kind

Accept(w) ==
    /\ wpc[w] = "accept" /\ backlog # <<>>
    /\ wpc' = [wpc EXCEPT ![w] = "recv"]
    /\ serving' = [serving EXCEPT ![w] = Head(backlog)]
    /\ backlog' = Tail(backlog)
    /\ UNCHANGED <<rider, report, queues, listening, wkey, outcome>>

\* Variant: the client's public key is sent back to it.
ServeHelloEcho(w) ==
    LET c == serving[w] IN
    /\ Incoming(w, "handshake")
    /\ up' = [up EXCEPT ![c] = Tail(@)]
    /\ wkey' = [wkey EXCEPT ![w] = Shared(Head(up[c]).public, w)]
    /\ down' = [down EXCEPT ![c] = IF c \in gone THEN @ ELSE Append(@, Ack(Head(up[c]).public))]
    /\ UNCHANGED <<rider, report, gone, hung, listener, wpc, serving, outcome>>

\* Derive the key, answer with the own public key, wait for the next packet.
\* The answer goes out in two writes; if the rider has closed, the second may
\* be the worker's end.
ServeHello(w) ==
    LET c == serving[w] IN
    /\ Incoming(w, "handshake")
    /\ up' = [up EXCEPT ![c] = Tail(@)]
    /\ \/ /\ wkey' = [wkey EXCEPT ![w] = Shared(Head(up[c]).public, w)]
          /\ down' = [down EXCEPT ![c] = IF c \in gone THEN @ ELSE Append(@, Ack(w))]
          /\ UNCHANGED <<hung, wpc, serving>>
       \/ c \in gone /\ Release(w, "dead") /\ UNCHANGED down
    /\ UNCHANGED <<rider, report, gone, listener, outcome>>

\* A request before the handshake, or one that does not match its checksum, is
\* dropped with the connection.
TakeRequest(w) ==
    LET c == serving[w] IN
    /\ Incoming(w, "request")
    /\ up' = [up EXCEPT ![c] = Tail(@)]
    /\ IF wkey[w] # NoKey /\ Readable(Head(up[c]), wkey[w])
       THEN wpc' = [wpc EXCEPT ![w] = "check"] /\ UNCHANGED <<hung, serving, wkey>>
       ELSE Release(w, "accept")
    /\ UNCHANGED <<rider, report, down, gone, listener, outcome>>

\* check_and_update_rate_limit.
Check(w) ==
    /\ wpc[w] = "check"
    /\ \/ /\ wpc' = [wpc EXCEPT ![w] = "deny"]
          /\ outcome' = [outcome EXCEPT ![serving[w]] = "blocked"]
       \/ /\ wpc' = [wpc EXCEPT ![w] = "ride"]
          /\ UNCHANGED outcome
    /\ UNCHANGED <<rider, report, queues, listener, serving, wkey>>

\* handle_ride_request_logic, from lock to unlock.
Ride(w) ==
    /\ wpc[w] = "ride"
    /\ \E out \in {"booked", "nodriver"} : outcome' = [outcome EXCEPT ![serving[w]] = out]
    /\ wpc' = [wpc EXCEPT ![w] = "answer"]
    /\ UNCHANGED <<rider, report, queues, listener, serving, wkey>>

\* send_response_packet enciphers the message where it is, and the refusal is a
\* string literal in read-only memory: SIGSEGV before anything is written.
Deny(w) ==
    /\ wpc[w] = "deny"
    /\ Release(w, "dead")
    /\ UNCHANGED <<rider, report, up, down, gone, listener, outcome>>

\* Variant: the connection is closed before the answer is written.
ReplyClosed(w) ==
    /\ wpc[w] = "answer"
    /\ Release(w, "accept")
    /\ UNCHANGED <<rider, report, up, down, gone, listener, outcome>>

\* Variant: the worker goes back to accept() without closing.
ReplyUnclosed(w) ==
    LET c == serving[w] IN
    /\ wpc[w] = "answer"
    /\ down' = [down EXCEPT ![c] = IF c \in gone THEN @ ELSE Append(@, Answer(wkey[w], "Ride Confirmed!"))]
    /\ wpc' = [wpc EXCEPT ![w] = "accept"]
    /\ UNCHANGED <<rider, report, up, gone, hung, listener, serving, wkey, outcome>>

\* The answer, in two writes again, and close().
Reply(w) ==
    LET c == serving[w]
        text == IF outcome[c] = "booked" THEN "Ride Confirmed!" ELSE "Error: No drivers available."
    IN  /\ wpc[w] = "answer"
        /\ \/ /\ down' = [down EXCEPT ![c] = IF c \in gone THEN @ ELSE Append(@, Answer(wkey[w], text))]
              /\ Release(w, "accept")
           \/ c \in gone /\ Release(w, "dead") /\ UNCHANGED down
        /\ UNCHANGED <<rider, report, up, gone, listener, outcome>>

\* The rider has closed and everything it sent has been read.
HangUp(w) ==
    /\ wpc[w] = "recv" /\ up[serving[w]] = <<>> /\ serving[w] \in gone
    /\ Release(w, "accept")
    /\ UNCHANGED <<rider, report, up, down, gone, listener, outcome>>

\* With every child dead wait() fails with ECHILD and the master leaves its
\* loop, ends, and with it the listening socket and whoever queues there.
MasterEnds ==
    /\ listening /\ \A w \in Worker : wpc[w] = "dead"
    /\ listening' = FALSE
    /\ hung' = hung \cup Range(backlog)
    /\ backlog' = <<>>
    /\ UNCHANGED <<rider, report, up, down, gone, workers>>

-----------------------------------------------------------------------------
RiderStep(r) ==
    \/ Connect(r) \/ HearAck(r) \/ HearAnswer(r) \/ HearEnd(r) \/ TimeOut(r)
    \/ Count(r) \/ Finish(r)

WorkerStep(w) ==
    \/ Accept(w) \/ ServeHello(w) \/ TakeRequest(w) \/ Check(w) \/ Ride(w)
    \/ Deny(w) \/ Reply(w) \/ HangUp(w)

Next ==
    \/ \E r \in Rider : RiderStep(r)
    \/ \E w \in Worker : WorkerStep(w)
    \/ MasterEnds

Spec == Init /\ [][Next]_vars

\* Nobody waits for a lock here, and the receive timeout is armed on every socket of
\* a rider, so that silence ends too: as long as anyone can go on, somebody does.
\* Every step uses up something that is not renewed, so no more is needed.
Fairness == WF_vars(Next)

FairSpec == Spec /\ Fairness

-----------------------------------------------------------------------------
\* The state has the shape its declarations give it; a worker has a connection
\* exactly while it is in handle_client, and no two have the same one.
TypeOK ==
    /\ attempt \in [Rider -> 1..(Attempts + 1)]
    /\ cpc \in [Rider -> {"connect", "hello", "asked", "count", "done"}]
    /\ rkey \in [Rider -> SUBSET (Conn \cup Worker)]
    /\ success_local_count \in [Rider -> 0..Attempts]
    /\ total_requests \in Nat /\ success_count \in Nat /\ fail_count \in Nat
    /\ final_status \in [Rider -> {"INIT", "SUCCESS", "FAIL_DOS", "FAIL_NO_DRIVER"}]
    /\ gone \subseteq Conn /\ hung \subseteq Conn
    /\ listening \in BOOLEAN /\ Range(backlog) \subseteq Conn
    /\ wpc \in [Worker -> {"accept", "recv", "check", "deny", "ride", "answer", "dead"}]
    /\ \A w \in Worker : serving[w] \in IF wpc[w] \in {"accept", "dead"} THEN {NoConn} ELSE Conn
    /\ \A v, w \in Worker : v # w /\ serving[v] = serving[w] => serving[v] = NoConn
    /\ wkey \in [Worker -> SUBSET (Conn \cup Worker)]
    /\ result \in [Conn -> {"none", "success", "blocked", "refused", "mismatch", "closed", "silence"}]
    /\ outcome \in [Conn -> {"none", "blocked", "booked", "nodriver"}]

\* What both ends make of the handshake (client_core.c:55-95, dispatcher.c:126-157)
\* is one key: a request reaches a worker that can read it, an answer a rider that
\* can, on whichever worker and after however many abandoned attempts.
SameKey ==
    /\ \A w \in Worker : Incoming(w, "request") =>
          wkey[w] # NoKey /\ Readable(Head(up[serving[w]]), wkey[w])
    /\ \A r \in Rider : cpc[r] = "asked" /\ down[Current(r)] # <<>> =>
          Readable(Head(down[Current(r)]), rkey[r])

\* A rider is told of a ride only if this very attempt booked one, and while the
\* server is up a booking stays unknown to its rider only because the rider gave up
\* first (client_core.c:165-172, dispatcher.c:96-100): no worker dies by itself between
\* the booking and the answer of a rider who still waits.  The SIGTERM of a shutdown
\* (coordinator.c:130) can do that; it is in Restart and Wire.
AnswerTrue ==
    \A c \in Conn :
        /\ result[c] = "success" => outcome[c] = "booked"
        /\ outcome[c] = "booked" => result[c] \in {"none", "success", "silence"}

\* When all threads have joined, the report (stress_client.c:124-172) adds up: it
\* never claims more rides than the server booked, every attempt that reached the
\* server is in one of the two counts, and a rider is marked successful exactly
\* when one of its attempts was.
ReportTrue ==
    (\A r \in Rider : cpc[r] = "done") =>
        /\ success_count <= Cardinality({c \in Conn : outcome[c] = "booked"})
        /\ success_count + fail_count = total_requests
        /\ total_requests = Cardinality({c \in Conn : result[c] # "none"})
        /\ \A r \in Rider : final_status[r] = "SUCCESS" <=>
              \E a \in 1..Attempts : result[<<r, a>>] = "success"

\* The comment at client_core.c:101: a request that is blocked makes
\* perform_ride_request return -2, unless the rider had stopped waiting.
BlockedIsTold ==
    \A c \in Conn :
        outcome[c] = "blocked" => result[c] \in {"none", "blocked", "silence"}

\* The stress test comes to its end (stress_client.c:228-230), also when the whole
\* pool dies under it, and every worker still alive is back in accept, although
\* handle_client has no timeout of its own (dispatcher.c:113-123): the riders'
\* timeouts and closes end every wait.
EverybodyReturns ==
    <>[](/\ \A r \in Rider : cpc[r] = "done"
         /\ \A w \in Worker : wpc[w] \in {"accept", "dead"})

=============================================================================
