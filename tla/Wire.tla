-------------------------------- MODULE Wire ---------------------------------
(***************************************************************************)
(* One connection at the level of read() and write() (net_wrapper.c), with *)
(* the programs at its two ends: perform_ride_request on one, handle_client *)
(* or handle_client_insecure on the other.  Connection takes messages as   *)
(* wholes; here a message is a header and a body, either can be cut by the  *)
(* death of its sender, and the receiver has to notice.                    *)
(*                                                                         *)
(* A packet is seven pieces: the first byte of the length (little-endian), *)
(* the rest of it, type, opcode, checksum, and two halves of the body.  A  *)
(* write moves some of them and a read takes some.  EINTR is a retry of    *)
(* both loops and changes nothing.  What a short read left unread is       *)
(* whatever was in the buffer.                                             *)
(***************************************************************************)
EXTENDS Integers, Sequences, FiniteSetsExt

CONSTANTS
    Server,    \* handle_client is "secure", handle_client_insecure "insecure"
    Program,   \* what the other end runs
    MaxBody    \* pieces in a buffer of 1024 bytes

\* A "rider" is one of the project's own clients.  The others are outside it, as the
\* server expects them: a rider without handshake, a driver that joins, and one that
\* reports its location, an opcode (protocol.h) that no handler takes.
ASSUME WireAssumption ==
    /\ Server \subseteq {"secure", "insecure"}
    /\ Program \subseteq {"rider", "plain", "join", "update"}
    /\ MaxBody \in Nat /\ MaxBody > 2

VARIABLES
    server, program,
    place,     \* each end: where it is in its program
    todo,      \* each end: what is left of its send_n
    stream,    \* each end: pieces under way to it
    need, buf, ret,   \* each end: n, buffer and result of its recv_n
    header,    \* each end: the header it has made of a buffer
    closed,    \* each end: it has closed the connection
    broken,    \* each end: the other has sent it a reset
    key,       \* each end: its session key
    text,      \* the answer of the server
    acted,     \* history: the packets the server has acted on
    written,   \* history: the packets somebody has written to the end
    result     \* how it ended for the client

End == {"client", "server"}
Peer(e) == IF e = "client" THEN "server" ELSE "client"

programs == <<server, program>>
reading == <<need, buf, ret, header>>
history == <<acted, written>>
vars == <<programs, place, todo, stream, reading, closed, broken, key, text, history, result>>

HeaderSize == 5
BodySize == 2
Over == {"done", "killed"}
Waiting == -2   \* recv_n has not returned

-----------------------------------------------------------------------------
(***************************************************************************)
(* Packets.                                                                *)
(***************************************************************************)
Header ==
    [length : 0..(MaxBody + 1), type : {"handshake", "ack", "ride", "resp", "other"},
     opcode : {"handshake", "ride", "join", "update", "response"}]

\* The type of an answer of the insecure server is left unset; nobody reads it.
H(length, type, opcode) == [length |-> length, type |-> type, opcode |-> opcode]

Sent ==
    [hello   |-> H(BodySize, "handshake", "handshake"),
     ack     |-> H(BodySize, "ack", "handshake"),
     request |-> H(BodySize, "ride", "ride"),
     join    |-> H(BodySize, "other", "join"),
     update  |-> H(BodySize, "other", "update"),
     answer  |-> H(BodySize, "resp", "response"),
     joined  |-> H(0, "resp", "response")]
Kind == DOMAIN Sent

Packet(k) == [i \in 1..(HeaderSize + Sent[k].length) |-> <<k, i>>]

At(b, i, k) == i <= Len(b) /\ b[i] = <<k, i>>

\* What the fields can hold after recv_n has filled b of the header.  The length is
\* known with its second piece; with the first only, it is not zero if that is not.
Headers(b) ==
    {h \in Header : \A k \in Kind :
        /\ At(b, 1, k) /\ Sent[k].length # 0 => h.length # 0
        /\ At(b, 1, k) /\ At(b, 2, k) => h.length = Sent[k].length
        /\ At(b, 3, k) => h.type = Sent[k].type
        /\ At(b, 4, k) => h.opcode = Sent[k].opcode}

\* A body is whole, and then its checksum is right; two cut ones never are.
Whole(b, k) == b = SubSeq(Packet(k), HeaderSize + 1, HeaderSize + BodySize)

\* A ciphertext is deciphered with the key it was made with.
SameKey == \A e \in End : key[e] = "agreed"

Init ==
    /\ server \in Server /\ program \in Program
    /\ place = [e \in End |-> IF e = "server" THEN "header"
                              ELSE IF program = "rider" THEN "hello" ELSE "request"]
    /\ todo = [e \in End |-> IF e = "server" THEN <<>>
                             ELSE Packet(CASE program = "rider" -> "hello"
                                           [] program = "plain" -> "request"
                                           [] OTHER -> program)]
    /\ stream = [e \in End |-> <<>>]
    /\ need = [e \in End |-> HeaderSize] /\ buf = [e \in End |-> <<>>]
    /\ ret = [e \in End |-> Waiting]
    /\ header \in [End -> {Sent["joined"]}]
    /\ closed = [e \in End |-> FALSE] /\ broken = [e \in End |-> FALSE]
    /\ key = [e \in End |-> "none"]
    /\ text = "none" /\ acted = {} /\ written = {} /\ result = "none"

-----------------------------------------------------------------------------
(***************************************************************************)
(* The two loops.                                                          *)
(***************************************************************************)

\* close(), or the kernel's for a process that dies.  What has not been read makes
\* it a reset; what the other end has not read stays for it to read.
Close(e, end) ==
    /\ place' = [place EXCEPT ![e] = end]
    /\ closed' = [closed EXCEPT ![e] = TRUE]
    /\ broken' = [broken EXCEPT ![Peer(e)] = @ \/ stream[e] # <<>>]
    /\ todo' = [todo EXCEPT ![e] = <<>>]
    /\ stream' = [stream EXCEPT ![e] = <<>>]

\* send_n: what is written to an end that has closed is lost and answered by a reset.
Write(e) ==
    /\ todo[e] # <<>>
    /\ \E n \in 1..Len(todo[e]) :
        /\ todo' = [todo EXCEPT ![e] = SubSeq(@, n + 1, Len(@))]
        /\ IF closed[Peer(e)]
           THEN broken' = [broken EXCEPT ![e] = TRUE] /\ UNCHANGED <<stream, written>>
           ELSE /\ stream' = [stream EXCEPT ![Peer(e)] = @ \o SubSeq(todo[e], 1, n)]
                /\ written' = IF n = Len(todo[e]) THEN written \cup {todo[e][n][1]} ELSE written
                /\ UNCHANGED broken
    /\ UNCHANGED <<programs, place, reading, closed, key, text, acted, result>>

\* After a reset write() fails.  The clients ignore SIGPIPE and send_n returns -1;
\* the server does not, and dies.
WriteFails(e) ==
    /\ todo[e] # <<>> /\ broken[e]
    /\ Close(e, IF e = "server" THEN "killed" ELSE "done")
    /\ result' = IF e = "client" THEN "failed" ELSE result
    /\ UNCHANGED <<programs, reading, key, text, history>>

Receiving(e) ==
    /\ place[e] \in {"header", "body", "ackHeader", "ackBody", "answerHeader", "answerBody"}
    /\ ret[e] = Waiting

\* Variant: one read(), whatever it returns.
ReadOnce(e) ==
    /\ Receiving(e) /\ stream[e] # <<>>
    /\ \E n \in 1..Min({need[e] - Len(buf[e]), Len(stream[e])}) :
        /\ buf' = [buf EXCEPT ![e] = @ \o SubSeq(stream[e], 1, n)]
        /\ stream' = [stream EXCEPT ![e] = SubSeq(@, n + 1, Len(@))]
        /\ ret' = [ret EXCEPT ![e] = Len(buf'[e])]
    /\ UNCHANGED <<programs, place, todo, need, header, closed, broken, key, text, history, result>>

\* recv_n goes on until it has n.
Read(e) ==
    /\ Receiving(e) /\ stream[e] # <<>>
    /\ \E n \in 1..Min({need[e] - Len(buf[e]), Len(stream[e])}) :
        /\ buf' = [buf EXCEPT ![e] = @ \o SubSeq(stream[e], 1, n)]
        /\ stream' = [stream EXCEPT ![e] = SubSeq(@, n + 1, Len(@))]
        /\ ret' = [ret EXCEPT ![e] = IF Len(buf'[e]) = need[e] THEN need[e] ELSE Waiting]
    /\ UNCHANGED <<programs, place, todo, need, header, closed, broken, key, text, history, result>>

\* Variant: the end of the stream is taken for an interrupted read.
ReadEndSpins(e) ==
    /\ Receiving(e) /\ stream[e] = <<>> /\ closed[Peer(e)] /\ broken[e]
    /\ ret' = [ret EXCEPT ![e] = -1]
    /\ UNCHANGED <<programs, place, todo, stream, need, buf, header, closed, broken, key, text, history, result>>

\* The end of the stream: the loop is left with what there is.  A reset is an error.
ReadEnd(e) ==
    /\ Receiving(e) /\ stream[e] = <<>> /\ closed[Peer(e)]
    /\ ret' \in {[ret EXCEPT ![e] = r] : r \in {Len(buf[e])} \cup (IF broken[e] THEN {-1} ELSE {})}
    /\ UNCHANGED <<programs, place, todo, stream, need, buf, header, closed, broken, key, text, history, result>>

\* Only clients set SO_RCVTIMEO; all their calls answer -1 by giving up.  Of the clients
\* of outside it is assumed that they set it as single_client.c does.
TimeOut ==
    /\ Receiving("client") /\ stream["client"] = <<>> /\ ~closed["server"]
    /\ Close("client", "done") /\ result' = "silence"
    /\ UNCHANGED <<programs, reading, key, text, history>>

\* The next recv_n of an end; of nothing, it returns at once.
Expect(e, where, n) ==
    /\ place' = [place EXCEPT ![e] = where]
    /\ need' = [need EXCEPT ![e] = n]
    /\ buf' = [buf EXCEPT ![e] = <<>>]
    /\ ret' = [ret EXCEPT ![e] = IF n = 0 THEN 0 ELSE Waiting]
    /\ UNCHANGED <<todo, stream, closed, broken>>

\* The next send_n, or two in a row: header and body.
Send(e, where, k) ==
    /\ place' = [place EXCEPT ![e] = where]
    /\ todo' = [todo EXCEPT ![e] = Packet(k)]
    /\ UNCHANGED <<need, buf, ret, stream, closed, broken>>

Received(e, where) == place[e] = where /\ ret[e] # Waiting
SentAll(e, where) == place[e] = where /\ todo[e] = <<>>

-----------------------------------------------------------------------------
(***************************************************************************)
(* The server.                                                             *)
(***************************************************************************)
HangUp == Close("server", "done") /\ UNCHANGED <<reading, key, text, acted>>

\* Variant: the length is not held against the buffer.
ReadHeaderUnchecked ==
    /\ Received("server", "header")
    /\ \/ ret["server"] <= 0 /\ HangUp
       \/ /\ ret["server"] > 0
          /\ \E h \in Headers(buf["server"]) :
                /\ header' = [header EXCEPT !["server"] = h]
                /\ Expect("server", "body", h.length)
          /\ UNCHANGED <<key, text, acted>>
    /\ UNCHANGED <<programs, written, result>>

\* The header: nothing but an empty read or an error ends the connection here, and
\* a length beyond the buffer.
ReadHeader ==
    /\ Received("server", "header")
    /\ \/ ret["server"] <= 0 /\ HangUp
       \/ /\ ret["server"] > 0
          /\ \E h \in Headers(buf["server"]) :
                /\ header' = [header EXCEPT !["server"] = h]
                /\ \/ h.length > MaxBody /\ Close("server", "done") /\ UNCHANGED <<need, buf, ret>>
                   \/ h.length <= MaxBody /\ Expect("server", "body", h.length)
          /\ UNCHANGED <<key, text, acted>>
    /\ UNCHANGED <<programs, written, result>>

\* Variant: a body is good enough if there is some of it.
ReadBodySome ==
    /\ Received("server", "body")
    /\ \/ ret["server"] <= 0 /\ HangUp
       \/ /\ ret["server"] > 0
          /\ place' = [place EXCEPT !["server"] = "serve"]
          /\ UNCHANGED <<todo, stream, reading, closed, broken, key, text, acted>>
    /\ UNCHANGED <<programs, written, result>>

\* The body has to have the length the header gives.
ReadBody ==
    /\ Received("server", "body")
    /\ \/ ret["server"] # header["server"].length /\ HangUp
       \/ /\ ret["server"] = header["server"].length
          /\ place' = [place EXCEPT !["server"] = "serve"]
          /\ UNCHANGED <<todo, stream, reading, closed, broken, key, text, acted>>
    /\ UNCHANGED <<programs, written, result>>

Type(t) == place["server"] = "serve" /\ header["server"].type = t
Opcode(o) == place["server"] = "serve" /\ header["server"].opcode = o
Act(k) == acted' = acted \cup {k}

\* Only handle_client looks at the type.  Its own key pair, the common key, the answer.
Handshake ==
    /\ server = "secure" /\ Type("handshake")
    /\ key' = [key EXCEPT !["server"] = IF Whole(buf["server"], "hello") THEN "agreed" ELSE "wrong"]
    /\ Act("hello") /\ Send("server", "ack", "ack")
    /\ UNCHANGED <<programs, header, text, written, result>>

HandshakeDone ==
    /\ SentAll("server", "ack") /\ Expect("server", "header", HeaderSize)
    /\ UNCHANGED <<programs, header, key, text, history, result>>

\* A request without a handshake, or one that does not match its checksum.
Rejected == server = "secure" /\ Type("ride") /\
    (key["server"] = "none" \/ ~SameKey \/ ~Whole(buf["server"], "request"))

Reject == Rejected /\ HangUp /\ UNCHANGED <<programs, written, result>>

\* The ride service's answer; whether the rate limiter lets it come to that is the
\* business of Connection.
Ride ==
    /\ Opcode("ride") /\ (server = "insecure" \/ (Type("ride") /\ ~Rejected))
    /\ Act("request") /\ text' \in {"confirmed", "nodriver"}
    /\ Send("server", "answer", "answer")
    /\ UNCHANGED <<programs, header, key, written, result>>

\* process_driver_join; the table is RideServer's.
Join ==
    /\ Opcode("join") /\ ~Rejected /\ (server = "insecure" \/ ~Type("handshake"))
    /\ Act("join") /\ Send("server", "answer", "joined")
    /\ UNCHANGED <<programs, header, key, text, written, result>>

\* What no handler takes: handle_client waits for the next packet, the other is done.
Ignore ==
    /\ place["server"] = "serve" /\ ~Rejected
    /\ header["server"].opcode \notin {"ride", "join"}
    /\ \/ server = "secure" /\ ~Type("handshake") /\ Expect("server", "header", HeaderSize)
             /\ UNCHANGED <<header, key, text, acted>>
       \/ server = "insecure" /\ HangUp
    /\ UNCHANGED <<programs, written, result>>

Answered == SentAll("server", "answer") /\ HangUp /\ UNCHANGED <<programs, written, result>>

-----------------------------------------------------------------------------
(***************************************************************************)
(* The client.                                                             *)
(***************************************************************************)
Leave(res) == Close("client", "done") /\ result' = res /\ UNCHANGED <<reading, key>>

Greeted ==
    /\ SentAll("client", "hello") /\ Expect("client", "ackHeader", HeaderSize)
    /\ UNCHANGED <<header, key, result>>

\* perform_dh_handshake looks at the type of the answer, and takes any body that is
\* not empty for a public key.
ReadAckHeader ==
    /\ Received("client", "ackHeader")
    /\ \/ ret["client"] <= 0 /\ Leave("failed")
       \/ ret["client"] > 0 /\ \E h \in Headers(buf["client"]) :
            IF h.type = "ack"
            THEN Expect("client", "ackBody", BodySize) /\ UNCHANGED <<header, key, result>>
            ELSE Leave("failed")

ReadAckBody ==
    /\ Received("client", "ackBody")
    /\ \/ ret["client"] <= 0 /\ Leave("failed")
       \/ /\ ret["client"] > 0
          /\ key' = [key EXCEPT !["client"] = IF Whole(buf["client"], "ack") THEN "agreed" ELSE "wrong"]
          /\ Send("client", "request", "request")
          /\ UNCHANGED <<header, result>>

Asked ==
    /\ SentAll("client", "request") /\ Expect("client", "answerHeader", HeaderSize)
    /\ UNCHANGED <<header, key, result>>

ReadAnswerHeader ==
    /\ Received("client", "answerHeader")
    /\ \/ ret["client"] <= 0 /\ Leave("failed")
       \/ ret["client"] > 0 /\ \E h \in Headers(buf["client"]) :
            IF h.length \in 1..(MaxBody - 1)
            THEN /\ Expect("client", "answerBody", h.length)
                 /\ header' = [header EXCEPT !["client"] = h] /\ UNCHANGED <<key, result>>
            ELSE Leave("failed")

\* Variant: the checksum is not looked at.
ReadAnswerBodyTrusting ==
    /\ Received("client", "answerBody")
    /\ Leave(IF ret["client"] > 0 /\ text = "confirmed" THEN "success" ELSE "failed")

\* The checksum is right when the body is whole and, for a rider, deciphered with the
\* key of the server; "Ride Confirmed!" is then looked for in it.
ReadAnswerBody ==
    /\ Received("client", "answerBody")
    /\ Leave(IF /\ ret["client"] > 0 /\ Whole(buf["client"], "answer")
                /\ program = "rider" => SameKey
                /\ text = "confirmed"
             THEN "success" ELSE "failed")

-----------------------------------------------------------------------------
Transport(e) == Write(e) \/ WriteFails(e) \/ Read(e) \/ ReadEnd(e)

ClientStep ==
    \/ TimeOut
    \/ /\ \/ Greeted \/ ReadAckHeader \/ ReadAckBody \/ Asked \/ ReadAnswerHeader \/ ReadAnswerBody
       /\ UNCHANGED <<programs, text, history>>

ServerStep ==
    \/ ReadHeader \/ ReadBody \/ Handshake \/ HandshakeDone \/ Reject \/ Ride \/ Join \/ Ignore
    \/ Answered

\* Ctrl-C, SIGTERM or a crash, at any point.
Kill(e) ==
    /\ place[e] \notin Over /\ Close(e, "killed")
    /\ UNCHANGED <<programs, reading, key, text, history, result>>

Next ==
    \/ \E e \in End : Transport(e) \/ Kill(e)
    \/ ClientStep \/ ServerStep

Spec == Init /\ [][Next]_vars

\* A process that can go on does; time passes for a client that waits.
Fairness ==
    /\ WF_vars(ClientStep \/ Transport("client"))
    /\ WF_vars(ServerStep \/ Transport("server"))

FairSpec == Spec /\ Fairness

-----------------------------------------------------------------------------
\* The shape of the state; in particular no read goes past a buffer, and neither does
\* the end of string behind an answer (dispatcher.c:117, client_core.c:150-152).
TypeOK ==
    /\ server \in Server /\ program \in Program
    /\ place["server"] \in {"header", "body", "serve", "ack", "answer"} \cup Over
    /\ place["client"] \in {"hello", "ackHeader", "ackBody", "request", "answerHeader", "answerBody"} \cup Over
    /\ \A e \in End :
        /\ need[e] \in 0..Max({HeaderSize, MaxBody})
        /\ place[e] = "body" => need[e] <= MaxBody
        /\ place[e] = "answerBody" => need[e] < MaxBody
        /\ Len(buf[e]) <= need[e]
        /\ ret[e] \in {Waiting, -1} \cup 0..need[e]
        /\ place[e] \in Over <=> closed[e]
    /\ header \in [End -> Header] /\ key \in [End -> {"none", "agreed", "wrong"}]
    /\ text \in {"none", "confirmed", "nodriver"}
    /\ acted \subseteq Kind /\ written \subseteq Kind
    /\ result \in {"none", "success", "failed", "silence"}

\* The server acts on whole packets only, although it reads on after a header that is
\* cut (dispatcher.c:115, insecure_dispatcher.c:95): what saves it is that the first
\* byte of every length it is sent is not zero, so a body is asked for, and that the
\* body's length is compared (dispatcher.c:122).
ActsOnWhole == acted \subseteq written

\* The length prefix keeps the stream in step (README.md, "TCP Sticky Packets"): an
\* end that begins to read a header finds the first byte of one, or nothing more.
Aligned ==
    \A e \in End :
        place[e] \in {"header", "ackHeader", "answerHeader"} /\ buf[e] = <<>> /\ stream[e] # <<>>
            => Head(stream[e])[2] = 1

\* A client says "success" only for a ride that was confirmed, in an answer that was
\* written whole; and if nobody was killed it says so unless it gave up waiting
\* (client_core.c:147-168).
ToldWhole ==
    /\ result = "success" => text = "confirmed" /\ "answer" \in written
    /\ text = "confirmed" /\ (\A e \in End : place[e] = "done") => result \in {"success", "silence"}

\* perform_dh_handshake takes a public key that is cut off (client_core.c:84) and the
\* two keys differ; but then the server process is gone, and no request is served.
CutKeyIdle ==
    key["client"] = "wrong" => place["server"] = "killed" /\ "request" \notin acted

\* An exchange ends, also with handle_client's reads that know no timeout
\* (dispatcher.c:113-123): end of stream, reset or the client's timeout end each wait.
ExchangeEnds == <>(\A e \in End : place[e] \in Over)

=============================================================================
