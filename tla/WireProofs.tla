----------------------------- MODULE WireProofs ------------------------------
(***************************************************************************)
(* What arrives, for buffers of any size, however writes and reads cut the *)
(* packets and whenever either process dies: the stream stays in step, the *)
(* server acts on whole packets only, and a success is true.               *)
(*                                                                         *)
(* The two ends take turns.  At any time at most one packet is under way   *)
(* to an end: its reader has the pieces up to i, the stream those from     *)
(* there to j, and its writer the rest, or it died at j.  The invariant    *)
(* says for each end that is still open which packet that is, and where    *)
(* the other end can be meanwhile.                                         *)
(***************************************************************************)
EXTENDS Wire, TLAPS

Size(k) == HeaderSize + Sent[k].length

\* The pieces of a packet after the i-th and up to the j-th.
Run(k, i, j) == [x \in 1..(j - i) |-> <<k, i + x>>]

Writes == {"hello", "request", "ack", "answer"}
Bodies == {"body", "ackBody", "answerBody"}
Reads == {"header", "ackHeader", "answerHeader"} \cup Bodies

\* What an end has of the packet it reads, and where in it its recv_n began.
Held(e) == IF place[e] \in Reads THEN buf[e] ELSE <<>>
Start(e) == IF place[e] \in Bodies THEN HeaderSize ELSE 0

\* The packet that comes next at the server, and at the client.
NextIn ==
    IF program = "rider" THEN IF key["server"] = "none" THEN "hello" ELSE "request"
    ELSE IF program = "plain" THEN "request" ELSE program
Greets == place["client"] \in {"hello", "ackHeader", "ackBody"}
NextOut == IF Greets THEN "ack" ELSE IF program = "join" THEN "joined" ELSE "answer"

Span(e, k, i, j) ==
    /\ i \in Start(e)..Size(k) /\ j \in Start(e)..Size(k) /\ i <= j
    /\ Held(e) = Run(k, Start(e), i) /\ stream[e] = Run(k, i, j)
    /\ j = Size(k) => k \in written
    /\ IF closed[Peer(e)] THEN place[Peer(e)] = "done" => j = Size(k)
       ELSE todo[Peer(e)] = Run(k, j, Size(k))

UnderWay(e, k) == \E i, j \in Int : Span(e, k, i, j)

Nothing(e) == Held(e) = <<>> /\ stream[e] = <<>> /\ todo[Peer(e)] = <<>>

\* A header was cut by the death of its writer, and its body will never come.
Cut(e) == Nothing(e) /\ place[e] \in Bodies /\ place[Peer(e)] \in Over /\ need[e] # 0

-----------------------------------------------------------------------------
(***************************************************************************)
(* The invariant.                                                          *)
(***************************************************************************)
Piece == Kind \X Nat

Typed ==
    /\ server \in Server /\ program \in Program
    /\ place \in [End -> {"hello", "request", "serve", "ack", "answer"} \cup Reads \cup Over]
    /\ place["server"] \in {"header", "body", "serve", "ack", "answer"} \cup Over
    /\ place["client"] \in
          {"hello", "ackHeader", "ackBody", "request", "answerHeader", "answerBody"} \cup Over
    /\ todo \in [End -> Seq(Piece)] /\ stream \in [End -> Seq(Piece)] /\ buf \in [End -> Seq(Piece)]
    /\ need \in [End -> Nat] /\ ret \in [End -> Int]
    /\ header \in [End -> Header]
    /\ closed \in [End -> BOOLEAN] /\ broken \in [End -> BOOLEAN]
    /\ key \in [End -> {"none", "agreed", "wrong"}]
    /\ text \in {"none", "confirmed", "nodriver"}
    /\ acted \subseteq Kind /\ written \subseteq Kind
    /\ result \in {"none", "success", "failed", "silence"}

\* What a recv_n of an end asks for.
Due(e) ==
    CASE place[e] = "body" -> header["server"].length
      [] place[e] = "ackBody" -> BodySize
      [] place[e] = "answerBody" -> header["client"].length
      [] OTHER -> HeaderSize

\* A recv_n has not returned, or it has with all it asked for, or with less at the
\* end of the stream.
RecvN(e) ==
    \/ ret[e] = Waiting /\ Len(buf[e]) < need[e]
    \/ ret[e] = need[e] /\ Len(buf[e]) = need[e]
    \/ /\ closed[Peer(e)] /\ stream[e] = <<>>
       /\ ret[e] \in {Len(buf[e]), -1} /\ Len(buf[e]) < need[e]

Ends(e) ==
    /\ closed[e] <=> place[e] \in Over
    /\ closed[e] => stream[e] = <<>> /\ todo[e] = <<>>
    /\ broken[e] => closed[Peer(e)]
    /\ todo[e] # <<>> => place[e] \in Writes
    /\ place[e] \in Reads => need[e] = Due(e) /\ RecvN(e)
    /\ place[e] = "body" => need[e] <= MaxBody
    /\ place[e] = "answerBody" => need[e] < MaxBody

\* Where a client can be whose packet the server reads or serves; whose hello has been
\* served; and whose request has been.
Sending ==
    place["client"] \in Over \cup IF NextIn = "hello" THEN {"hello", "ackHeader"}
                                  ELSE {"request", "answerHeader"}
Greeting == place["client"] \in Over \cup {"hello", "ackHeader", "ackBody"}
Asking == place["client"] \in Over \cup {"request", "answerHeader", "answerBody"}

\* To the server: its next packet is under way, perhaps already while it sends its key.
Comes(k) ==
    /\ UnderWay("server", k) /\ Sending
    /\ \/ place["server"] = "header"
       \/ place["server"] = "body" /\ header["server"] = Sent[k]
       \/ place["server"] = "ack" /\ todo["server"] = <<>>
\* It waits, for the request or for what will not come.
Rests ==
    /\ Nothing("server") /\ place["server"] = "header"
    /\ \/ key["server"] = "agreed" /\ Greeting
       \/ program = "update" /\ Sending
\* It has the packet.
Serves(k) ==
    /\ Nothing("server") /\ place["server"] = "serve" /\ Sending
    /\ buf["server"] = Run(k, HeaderSize, Size(k)) /\ header["server"] = Sent[k]
    /\ k \in written
\* It answers.
Answers ==
    /\ Nothing("server")
    /\ \/ place["server"] = "ack" /\ Greeting
       \/ place["server"] = "answer" /\ Asking

ToServer ==
    \E k \in Kind : k = NextIn /\ (Comes(k) \/ Cut("server") \/ Rests \/ Serves(k) \/ Answers)

\* To the client: an answer is under way, perhaps from a server that has gone on.
Replied(k) ==
    /\ UnderWay("client", k) /\ todo["client"] = <<>>
    /\ Greets => key["server"] = "agreed"
    /\ place["server"] \in Over \cup IF Greets THEN {"ack", "header"} ELSE {"answer"}
    /\ place["client"] = "answerBody" => header["client"] = Sent[k]
\* There is none yet, or there never will be.
Silent ==
    /\ Nothing("client") /\ place["client"] \in {"hello", "ackHeader", "request", "answerHeader"}
    /\ place["server"] \in {"header", "body", "serve"} \cup Over \cup IF Greets THEN {} ELSE {"ack"}
    /\ place["server"] = "done" => text # "confirmed"

ToClient ==
    \E k \in Kind : k = NextOut /\
        (Replied(k) \/ (Cut("client") /\ place["server"] = "killed") \/ Silent)

\* What each end knows, and how it ended for the client.
Knows ==
    /\ key["server"] \in {"none", "agreed"}
    /\ key["server"] = "agreed" => server = "secure" /\ program = "rider"
    /\ place["server"] = "ack" => key["server"] = "agreed"
    /\ place["server"] \in {"header", "body", "serve", "ack"} => text = "none"
    /\ place["server"] = "answer" =>
          IF text = "none" THEN program = "join" ELSE program \in {"rider", "plain"}
    /\ text # "none" => program \in {"rider", "plain"}
    /\ Greets => /\ program = "rider" /\ key["client"] = "none" /\ text = "none"
                 /\ "request" \notin acted
    /\ key["client"] = "agreed" => key["server"] = "agreed"
    /\ key["client"] = "wrong" => place["server"] = "killed" /\ "request" \notin acted
    /\ program = "rider" /\ text # "none" => SameKey
    /\ place["client"] \notin Over => result = "none"
    /\ place["client"] = "done" => result # "none"
    /\ result = "success" => text = "confirmed" /\ "answer" \in written
    /\ result = "failed" =>
          /\ closed["server"] \/ program = "join" \/ text = "nodriver"
          /\ text = "confirmed" => place["server"] = "killed"

IInv ==
    /\ Typed /\ \A e \in End : Ends(e)
    /\ ~closed["server"] => ToServer
    /\ ~closed["client"] => ToClient
    /\ Knows /\ ActsOnWhole

-----------------------------------------------------------------------------
(***************************************************************************)
(* Ends and packets.                                                       *)
(***************************************************************************)
LEMMA EndIs ==
    /\ End = {"client", "server"} /\ Peer("client") = "server" /\ Peer("server") = "client"
    /\ \A e \in End : Peer(e) \in End /\ Peer(e) # e /\ Peer(Peer(e)) = e
  BY DEF End, Peer

LEMMA Room == MaxBody \in Nat /\ MaxBody > 2
  BY WireAssumption

LEMMA SentIs ==
    /\ Kind = {"hello", "ack", "request", "join", "update", "answer", "joined"}
    /\ \A k \in Kind : /\ Sent[k] \in Header
                       /\ Sent[k].length = IF k = "joined" THEN 0 ELSE 2
                       /\ Size(k) = IF k = "joined" THEN 5 ELSE 7
    /\ \A k \in Kind : /\ (Sent[k].type = "handshake" <=> k = "hello")
                       /\ (Sent[k].type = "ack" <=> k = "ack")
                       /\ (Sent[k].type = "ride" <=> k = "request")
                       /\ (Sent[k].opcode = "ride" <=> k = "request")
                       /\ (Sent[k].opcode = "join" <=> k = "join")
<1>1. Kind = {"hello", "ack", "request", "join", "update", "answer", "joined"}
  BY DEF Kind, Sent
<1>2. /\ Sent["hello"] = H(2, "handshake", "handshake") /\ Sent["ack"] = H(2, "ack", "handshake")
      /\ Sent["request"] = H(2, "ride", "ride") /\ Sent["join"] = H(2, "other", "join")
      /\ Sent["update"] = H(2, "other", "update") /\ Sent["answer"] = H(2, "resp", "response")
      /\ Sent["joined"] = H(0, "resp", "response")
  BY DEF Sent, BodySize
<1>3. \A l, t, o : H(l, t, o).length = l /\ H(l, t, o).type = t /\ H(l, t, o).opcode = o
  BY DEF H
<1>4. \A k \in Kind : Sent[k] \in Header
  BY <1>1, <1>2, Room DEF H, Header
<1>5. \A k \in Kind : Sent[k].length = IF k = "joined" THEN 0 ELSE 2
  BY <1>1, <1>2, <1>3
<1>6. \A k \in Kind : Size(k) = IF k = "joined" THEN 5 ELSE 7
  BY <1>5 DEF Size, HeaderSize
<1>7. \A k \in Kind : /\ (Sent[k].type = "handshake" <=> k = "hello")
                     /\ (Sent[k].type = "ack" <=> k = "ack")
                     /\ (Sent[k].type = "ride" <=> k = "request")
                     /\ (Sent[k].opcode = "ride" <=> k = "request")
                     /\ (Sent[k].opcode = "join" <=> k = "join")
  BY <1>1, <1>2, <1>3
<1> QED
  BY <1>1, <1>4, <1>5, <1>6, <1>7

LEMMA RunIs ==
    ASSUME NEW k \in Kind, NEW i \in Nat, NEW j \in Nat, i <= j
    PROVE  /\ Run(k, i, j) \in Seq(Piece) /\ Len(Run(k, i, j)) = j - i
           /\ \A x \in 1..(j - i) : Run(k, i, j)[x] = <<k, i + x>>
           /\ i = j => Run(k, i, j) = <<>>
           /\ i < j => Run(k, i, j) # <<>>
<1>1. \A x \in 1..(j - i) : <<k, i + x>> \in Piece
  BY DEF Piece
<1>2. j - i \in Nat
  OBVIOUS
<1>3. Run(k, i, j) \in Seq(Piece) /\ Len(Run(k, i, j)) = j - i
  BY <1>1, <1>2 DEF Run
<1>4. \A x \in 1..(j - i) : Run(k, i, j)[x] = <<k, i + x>>
  BY DEF Run
<1>5. /\ i = j => Run(k, i, j) = <<>>
      /\ i < j => Run(k, i, j) # <<>>
  BY <1>2, <1>3
<1> QED
  BY <1>3, <1>4, <1>5

\* The same, for the places a packet is cut at.
LEMMA RunHas ==
    \A k, i, j : k \in Kind /\ i \in Nat /\ j \in Nat /\ i <= j =>
        /\ Run(k, i, j) \in Seq(Piece) /\ Len(Run(k, i, j)) = j - i
        /\ \A x \in 1..(j - i) : Run(k, i, j)[x] = <<k, i + x>>
  BY RunIs

\* Sequences of the same length with the same pieces are one.
LEMMA SameRun ==
    ASSUME NEW s \in Seq(Piece), NEW k \in Kind, NEW i \in Nat, NEW j \in Nat, i <= j,
           Len(s) = j - i, \A x \in 1..(j - i) : s[x] = <<k, i + x>>
    PROVE  s = Run(k, i, j)
<1>1. Run(k, i, j) \in Seq(Piece) /\ Len(Run(k, i, j)) = Len(s)
  BY RunIs
<1>2. \A x \in 1..Len(s) : s[x] = Run(k, i, j)[x]
  BY RunIs
<1> QED
  BY <1>1, <1>2

\* A write or a read takes the first n pieces, and what it moves them to grows by them.
LEMMA RunTaken ==
    ASSUME NEW k \in Kind, NEW i \in Nat, NEW j \in Nat, i <= j, NEW n \in 1..(j - i)
    PROVE  /\ SubSeq(Run(k, i, j), 1, n) = Run(k, i, i + n)
           /\ SubSeq(Run(k, i, j), n + 1, Len(Run(k, i, j))) = Run(k, i + n, j)
<1> DEFINE r == Run(k, i, j)
           a == SubSeq(r, 1, n)
           b == SubSeq(r, n + 1, Len(r))
<1>1. r \in Seq(Piece) /\ Len(r) = j - i /\ \A x \in 1..(j - i) : r[x] = <<k, i + x>>
  BY RunIs
<1> HIDE DEF r
<1>2. a \in Seq(Piece) /\ Len(a) = n /\ \A x \in 1..n : a[x] = r[x]
  BY <1>1
<1>3. b \in Seq(Piece) /\ Len(b) = (j - i) - n /\ \A x \in 1..((j - i) - n) : b[x] = r[n + x]
  <2>1. r \in Seq(Piece) /\ Len(r) = j - i /\ n \in Int /\ 1 <= n /\ n <= Len(r)
    BY <1>1
  <2>2. b \in Seq(Piece) /\ Len(b) = Len(r) - n
    BY <2>1
  <2>3. \A x \in 1..(Len(r) - n) : b[x] = r[n + x]
    BY <2>1
  <2> QED
    BY <2>1, <2>2, <2>3
<1> HIDE DEF a, b
<1>4. a = Run(k, i, i + n)
  <2>1. i + n \in Nat /\ i <= i + n /\ n \in Nat
    OBVIOUS
  <2>2. Len(a) = (i + n) - i
    BY <1>2, <2>1
  <2>3. \A x \in 1..((i + n) - i) : a[x] = <<k, i + x>>
    BY <1>1, <1>2
  <2> QED
    BY <1>2, <2>1, <2>2, <2>3, SameRun
<1>5. b = Run(k, i + n, j)
  <2>1. i + n \in Nat /\ i + n <= j
    OBVIOUS
  <2>2. Len(b) = j - (i + n)
    BY <1>3, <2>1
  <2>3. ASSUME NEW x \in 1..(j - (i + n))
        PROVE  b[x] = <<k, (i + n) + x>>
    <3>1. x \in 1..((j - i) - n) /\ n + x \in 1..(j - i) /\ i + (n + x) = (i + n) + x
      OBVIOUS
    <3>2. b[x] = r[n + x] /\ r[n + x] = <<k, i + (n + x)>>
      BY <1>1, <1>3, <3>1
    <3> QED
      BY <3>1, <3>2
  <2> QED
    BY <1>3, <2>1, <2>2, <2>3, SameRun
<1> QED
  BY <1>4, <1>5 DEF a, b, r

LEMMA RunJoined ==
    ASSUME NEW k \in Kind, NEW h \in Nat, NEW i \in Nat, NEW j \in Nat, h <= i, i <= j
    PROVE  Run(k, h, i) \o Run(k, i, j) = Run(k, h, j)
<1> DEFINE a == Run(k, h, i)
           b == Run(k, i, j)
           c == a \o b
<1>1. /\ a \in Seq(Piece) /\ Len(a) = i - h /\ \A x \in 1..(i - h) : a[x] = <<k, h + x>>
      /\ b \in Seq(Piece) /\ Len(b) = j - i /\ \A x \in 1..(j - i) : b[x] = <<k, i + x>>
  BY RunIs
<1> HIDE DEF a, b
<1>2. c \in Seq(Piece) /\ Len(c) = Len(a) + Len(b)
  <2>1. a \in Seq(Piece) /\ b \in Seq(Piece)
    BY <1>1
  <2> QED
    BY <2>1
<1>3. /\ \A x \in 1..Len(a) : c[x] = a[x]
      /\ \A x \in 1..Len(b) : c[Len(a) + x] = b[x]
  BY <1>1
<1> HIDE DEF c
<1>4. h <= j /\ Len(c) = j - h
  BY <1>1, <1>2
<1>5. ASSUME NEW x \in 1..(j - h)
      PROVE  c[x] = <<k, h + x>>
  <2>1. CASE x <= i - h
    <3>1. x \in 1..Len(a) /\ x \in 1..(i - h)
      BY <1>1, <2>1
    <3> QED
      BY <1>1, <1>3, <3>1
  <2>2. CASE ~(x <= i - h)
    <3> DEFINE y == x - (i - h)
    <3>1. y \in 1..Len(b) /\ y \in 1..(j - i) /\ i + y = h + x /\ Len(a) + y = x
      BY <1>1, <2>2
    <3> HIDE DEF y
    <3>2. c[Len(a) + y] = b[y] /\ b[y] = <<k, i + y>>
      BY <1>1, <1>3, <3>1
    <3> QED
      BY <3>1, <3>2
  <2> QED
    BY <2>1, <2>2
<1>6. c = Run(k, h, j)
  BY <1>2, <1>4, <1>5, SameRun
<1> QED
  BY <1>6 DEF a, b, c

LEMMA PacketIs ==
    \A k \in Kind :
        /\ Packet(k) = Run(k, 0, Size(k))
        /\ Size(k) = 7 => Whole(Run(k, 5, 7), k)
        /\ \A j : j \in 5..6 => ~Whole(Run(k, 5, j), k)
<1> SUFFICES ASSUME NEW k \in Kind
             PROVE  /\ Packet(k) = Run(k, 0, Size(k))
                    /\ Size(k) = 7 => Whole(Run(k, 5, 7), k)
                    /\ \A j : j \in 5..6 => ~Whole(Run(k, 5, j), k)
  OBVIOUS
<1>1. Size(k) \in Nat /\ Size(k) >= 5
  BY SentIs
<1>2. Packet(k) = Run(k, 0, Size(k))
  BY <1>1 DEF Packet, Run, Size
<1>3. ASSUME Size(k) = 7
      PROVE  Whole(Run(k, 5, 7), k)
  <2>1. SubSeq(Run(k, 0, 7), 6, 7) = Run(k, 5, 7)
    BY DEF Run
  <2> QED
    BY <1>2, <1>3, <2>1 DEF Whole, HeaderSize, BodySize
<1>4. ASSUME NEW j \in 5..6
      PROVE  ~Whole(Run(k, 5, j), k)
  <2>1. Len(Run(k, 5, j)) + 5 = j
    BY RunHas
  <2>2. Packet(k) \in Seq(Piece) /\ Len(Packet(k)) + 0 = Size(k)
    BY <1>1, <1>2, RunHas
  <2>3. Len(SubSeq(Packet(k), 6, 7)) >= 2
    BY <2>2
  <2> QED
    BY <2>1, <2>3 DEF Whole, HeaderSize, BodySize
<1> QED
  BY <1>2, <1>3, <1>4

\* A header that has come whole says what was sent; of one that was cut after its first
\* piece, at least that a body follows, if one does.
LEMMA HeaderIs ==
    ASSUME NEW k \in Kind, NEW i \in 1..5, NEW h \in Headers(Run(k, 0, i))
    PROVE  h \in Header /\ (Sent[k].length # 0 => h.length # 0) /\ (i = 5 => h = Sent[k])
<1> DEFINE r == Run(k, 0, i)
<1>1. i \in Nat /\ Len(r) + 0 = i /\ \A x \in 1..(i - 0) : r[x] = <<k, 0 + x>>
  BY RunHas
<1> HIDE DEF r
<1>2. \A x \in 1..i : At(r, x, k)
  BY <1>1 DEF At
<1>3. /\ h \in Header
      /\ At(r, 1, k) /\ Sent[k].length # 0 => h.length # 0
      /\ At(r, 1, k) /\ At(r, 2, k) => h.length = Sent[k].length
      /\ At(r, 3, k) => h.type = Sent[k].type
      /\ At(r, 4, k) => h.opcode = Sent[k].opcode
  BY DEF Headers, r
<1>4. i = 5 => h.length = Sent[k].length /\ h.type = Sent[k].type /\ h.opcode = Sent[k].opcode
  BY <1>2, <1>3
<1>5. i = 5 => h = Sent[k]
  BY <1>3, <1>4, SentIs DEF Header
<1> QED
  BY <1>2, <1>3, <1>5

-----------------------------------------------------------------------------
(***************************************************************************)
(* How pieces move.                                                        *)
(***************************************************************************)
LEMMA MinIs ==
    ASSUME NEW a \in Int, NEW b \in Int
    PROVE  Min({a, b}) \in Int /\ Min({a, b}) <= a /\ Min({a, b}) <= b
<1>1. \E m \in {a, b} : \A y \in {a, b} : m <= y
  OBVIOUS
<1> QED
  BY <1>1 DEF Min

LEMMA SpanIs ==
    ASSUME NEW e \in End, NEW k \in Kind, NEW i \in Int, NEW j \in Int, Span(e, k, i, j)
    PROVE  /\ i \in Nat /\ j \in Nat /\ i <= j /\ j <= Size(k) /\ Size(k) \in Nat
           /\ Start(e) \in Nat /\ Start(e) <= i /\ Start(e) <= j
<1>1. Size(k) \in Nat
  BY SentIs
<1>2. Start(e) \in Nat
  BY DEF Start, HeaderSize
<1> QED
  BY <1>1, <1>2 DEF Span

\* What does not touch the reader, its stream, and the writer leaves a packet where it is.
LEMMA Undisturbed ==
    ASSUME NEW e \in End, NEW k \in Kind,
           Held(e)' = Held(e), Start(e)' = Start(e), stream'[e] = stream[e],
           todo'[Peer(e)] = todo[Peer(e)], closed'[Peer(e)] = closed[Peer(e)],
           closed[Peer(e)] => place'[Peer(e)] = place[Peer(e)], written \subseteq written'
    PROVE  UnderWay(e, k) => UnderWay(e, k)'
<1> SUFFICES ASSUME UnderWay(e, k)
             PROVE  UnderWay(e, k)'
  OBVIOUS
<1>1. PICK i, j \in Int : Span(e, k, i, j)
  BY DEF UnderWay
<1>2. Span(e, k, i, j)'
  BY <1>1 DEF Span
<1> QED
  BY <1>2 DEF UnderWay

LEMMA WriteOn ==
    ASSUME NEW e \in End, NEW k \in Kind, Typed, Ends(Peer(e)), ~closed[e],
           Write(Peer(e)), UnderWay(e, k)
    PROVE  UnderWay(e, k)'
<1> DEFINE w == Peer(e)
<1>1. PICK i, j \in Int : Span(e, k, i, j)
  BY DEF UnderWay
<1>2. w \in End /\ w # e /\ Peer(w) = e
  BY EndIs
<1>3. /\ todo[w] # <<>> /\ ~closed[w]
      /\ Held(e)' = Held(e) /\ Start(e)' = Start(e) /\ closed' = closed
  BY <1>2 DEF Write, Ends, Held, Start, reading
<1>4. todo[w] = Run(k, j, Size(k))
  BY <1>1, <1>3 DEF Span
<1>5. PICK n \in 1..Len(todo[w]) :
         /\ todo' = [todo EXCEPT ![w] = SubSeq(@, n + 1, Len(@))]
         /\ stream' = [stream EXCEPT ![e] = @ \o SubSeq(todo[w], 1, n)]
         /\ written' = IF n = Len(todo[w]) THEN written \cup {todo[w][n][1]} ELSE written
  BY <1>2 DEF Write
<1> HIDE DEF w
<1>6. /\ i \in Nat /\ j \in Nat /\ i <= j /\ j <= Size(k) /\ Size(k) \in Nat
      /\ Start(e) \in Nat /\ Start(e) <= i /\ Start(e) <= j
  BY <1>1, SpanIs
<1>7. n \in 1..(Size(k) - j)
  BY <1>4, <1>6, RunIs
<1>8. PICK m \in Nat : m = j + n
  BY <1>6, <1>7
<1>9. /\ SubSeq(todo[w], 1, n) = Run(k, j, m)
      /\ SubSeq(todo[w], n + 1, Len(todo[w])) = Run(k, m, Size(k))
  <2>1. PICK z \in Nat : z = Size(k)
    BY <1>6
  <2>2. j <= z /\ n \in 1..(z - j)
    BY <1>6, <1>7, <2>1
  <2>3. /\ SubSeq(Run(k, j, z), 1, n) = Run(k, j, j + n)
        /\ SubSeq(Run(k, j, z), n + 1, Len(Run(k, j, z))) = Run(k, j + n, z)
    BY <1>6, <2>2, RunTaken
  <2> QED
    BY <1>4, <1>8, <2>1, <2>3
<1>10. todo'[w] = Run(k, m, Size(k)) /\ stream'[e] = stream[e] \o Run(k, j, m)
  BY <1>2, <1>5, <1>9 DEF Typed
<1>11. stream[e] = Run(k, i, j) /\ j <= m /\ m <= Size(k) /\ i <= m
  BY <1>1, <1>6, <1>7, <1>8 DEF Span
<1>12. stream'[e] = Run(k, i, m)
  <2>1. i \in Nat /\ j \in Nat /\ i <= j /\ j <= m
    BY <1>6, <1>11
  <2>2. Run(k, i, j) \o Run(k, j, m) = Run(k, i, m)
    BY <2>1, RunJoined
  <2> QED
    BY <1>10, <1>11, <2>2
<1>13. ASSUME m = Size(k) PROVE k \in written'
  <2>1. n = Size(k) - j /\ n \in 1..(Size(k) - j)
    BY <1>6, <1>7, <1>8, <1>13
  <2>2. Run(k, j, Size(k))[n] = <<k, j + n>> /\ Len(Run(k, j, Size(k))) = Size(k) - j
    BY <1>6, <2>1, RunIs
  <2>3. n = Len(todo[w]) /\ todo[w][n][1] = k
    BY <1>4, <2>1, <2>2
  <2> QED
    BY <1>5, <2>3
<1>14. Span(e, k, i, m)'
  BY <1>1, <1>2, <1>3, <1>6, <1>10, <1>11, <1>12, <1>13 DEF Span, w
<1> QED
  BY <1>6, <1>8, <1>14 DEF UnderWay

LEMMA ReadOn ==
    ASSUME NEW e \in End, NEW k \in Kind, Typed, Read(e), UnderWay(e, k)
    PROVE  UnderWay(e, k)'
<1>1. PICK i, j \in Int : Span(e, k, i, j)
  BY DEF UnderWay
<1>2. /\ place[e] \in Reads /\ stream[e] # <<>> /\ place' = place /\ Start(e)' = Start(e)
      /\ Held(e) = buf[e] /\ Held(e)' = buf'[e]
      /\ todo' = todo /\ closed' = closed /\ written' = written
  BY DEF Read, Receiving, Held, Start, Reads, Bodies, history
<1>3. PICK n \in 1..Min({need[e] - Len(buf[e]), Len(stream[e])}) :
         /\ buf' = [buf EXCEPT ![e] = @ \o SubSeq(stream[e], 1, n)]
         /\ stream' = [stream EXCEPT ![e] = SubSeq(@, n + 1, Len(@))]
  BY DEF Read
<1>4. n \in 1..Len(stream[e])
  <2>1. need[e] - Len(buf[e]) \in Int /\ Len(stream[e]) \in Int
    BY DEF Typed
  <2>2. PICK l \in Int : l = Min({need[e] - Len(buf[e]), Len(stream[e])})
    BY <2>1, MinIs
  <2>3. l <= Len(stream[e]) /\ n \in 1..l
    BY <1>3, <2>1, <2>2, MinIs
  <2> QED
    BY <2>1, <2>3
<1>5. /\ i \in Nat /\ j \in Nat /\ i <= j /\ j <= Size(k) /\ Size(k) \in Nat
      /\ Start(e) \in Nat /\ Start(e) <= i /\ Start(e) <= j
  BY <1>1, SpanIs
<1>6. buf[e] = Run(k, Start(e), i) /\ stream[e] = Run(k, i, j)
  BY <1>1, <1>2 DEF Span
<1>7. n \in 1..(j - i)
  <2>1. i \in Nat /\ j \in Nat /\ i <= j
    BY <1>5
  <2>2. Len(Run(k, i, j)) = j - i
    BY <2>1, RunIs
  <2> QED
    BY <1>4, <1>6, <2>2
<1>8. PICK m \in Nat : m = i + n
  BY <1>5, <1>7
<1>9. /\ SubSeq(stream[e], 1, n) = Run(k, i, m)
      /\ SubSeq(stream[e], n + 1, Len(stream[e])) = Run(k, m, j)
  <2>1. /\ SubSeq(Run(k, i, j), 1, n) = Run(k, i, i + n)
        /\ SubSeq(Run(k, i, j), n + 1, Len(Run(k, i, j))) = Run(k, i + n, j)
    BY <1>5, <1>7, RunTaken
  <2> QED
    BY <1>6, <1>8, <2>1
<1>10. buf'[e] = buf[e] \o Run(k, i, m) /\ stream'[e] = Run(k, m, j)
  BY <1>3, <1>9 DEF Typed
<1>11. i <= m /\ m <= j /\ Start(e) <= m
  BY <1>5, <1>7, <1>8
<1>12. PICK h \in Nat : h = Start(e)
  BY <1>5
<1>13. Run(k, h, i) \o Run(k, i, m) = Run(k, h, m)
  <2>1. i \in Nat /\ h <= i /\ i <= m
    BY <1>5, <1>11, <1>12
  <2> QED
    BY <2>1, RunJoined
<1>14. buf'[e] = Run(k, Start(e), m)
  BY <1>6, <1>10, <1>12, <1>13
<1>15. Span(e, k, m, j)'
  BY <1>1, <1>2, <1>5, <1>10, <1>11, <1>14 DEF Span
<1> QED
  BY <1>5, <1>8, <1>15 DEF UnderWay

-----------------------------------------------------------------------------
(***************************************************************************)
(* The steps of the two loops.                                             *)
(***************************************************************************)
LEMMA WriteStep ==
    ASSUME IInv, NEW w \in End, Write(w)
    PROVE  IInv'
<1> DEFINE e == Peer(w)
<1>1. e \in End /\ e # w /\ Peer(e) = w
  BY EndIs
<1> HIDE DEF e
<1>2. /\ Typed /\ Ends(w) /\ Ends(e) /\ Knows /\ ActsOnWhole
      /\ ~closed["server"] => ToServer
      /\ ~closed["client"] => ToClient
  BY <1>1 DEF IInv
<1>3. /\ todo[w] # <<>> /\ ~closed[w]
      /\ server' = server /\ program' = program /\ place' = place /\ need' = need /\ buf' = buf
      /\ ret' = ret /\ header' = header /\ closed' = closed /\ key' = key /\ text' = text
      /\ acted' = acted /\ result' = result
  BY <1>2 DEF Write, Ends, programs, reading
<1>4. PICK n \in 1..Len(todo[w]) :
        /\ todo' = [todo EXCEPT ![w] = SubSeq(@, n + 1, Len(@))]
        /\ IF closed[e]
           THEN broken' = [broken EXCEPT ![w] = TRUE] /\ stream' = stream /\ written' = written
           ELSE /\ stream' = [stream EXCEPT ![e] = @ \o SubSeq(todo[w], 1, n)]
                /\ written' = IF n = Len(todo[w]) THEN written \cup {todo[w][n][1]} ELSE written
                /\ broken' = broken
  BY DEF Write, e
<1>5. /\ todo[w] \in Seq(Piece) /\ SubSeq(todo[w], 1, n) \in Seq(Piece)
      /\ SubSeq(todo[w], n + 1, Len(todo[w])) \in Seq(Piece) /\ todo[w][n][1] \in Kind
  <2>1. todo[w] \in Seq(Piece)
    BY <1>2 DEF Typed
  <2>2. todo[w][n] \in Piece
    BY <2>1
  <2>3. SubSeq(todo[w], 1, n) \in Seq(Piece) /\ SubSeq(todo[w], n + 1, Len(todo[w])) \in Seq(Piece)
    BY <2>1
  <2> QED
    BY <2>1, <2>2, <2>3 DEF Piece
<1>6. /\ todo'[e] = todo[e] /\ stream'[w] = stream[w] /\ written \subseteq written'
      /\ broken'[e] = broken[e]
      /\ broken'[w] => broken[w] \/ closed[e]
      /\ closed[e] => stream'[e] = stream[e]
  BY <1>1, <1>2, <1>4 DEF Typed
<1>7. Typed'
  <2>1. todo' \in [End -> Seq(Piece)] /\ stream' \in [End -> Seq(Piece)]
    <3>1. todo' \in [End -> Seq(Piece)]
      BY <1>2, <1>4, <1>5 DEF Typed
    <3>2. stream[e] \o SubSeq(todo[w], 1, n) \in Seq(Piece)
      BY <1>1, <1>2, <1>5 DEF Typed
    <3>3. stream' \in [End -> Seq(Piece)]
      BY <1>2, <1>4, <3>2 DEF Typed
    <3> QED
      BY <3>1, <3>3
  <2>2. broken' \in [End -> BOOLEAN] /\ written' \subseteq Kind
    BY <1>2, <1>4, <1>5 DEF Typed
  <2> QED
    BY <1>2, <1>3, <2>1, <2>2 DEF Typed
<1>8. Ends(w)' /\ Ends(e)'
  <2>1. /\ Due(w)' = Due(w) /\ Due(e)' = Due(e) /\ Peer(w) = e
        /\ RecvN(w) => RecvN(w)'
    BY <1>1, <1>3, <1>6 DEF Due, RecvN, e
  <2>2. RecvN(e) => RecvN(e)'
    BY <1>1, <1>3, <1>6 DEF RecvN
  <2>3. Ends(w)'
    BY <1>2, <1>3, <1>6, <2>1 DEF Ends
  <2>4. Ends(e)'
    BY <1>1, <1>2, <1>3, <1>6, <2>1, <2>2 DEF Ends
  <2> QED
    BY <2>3, <2>4
<1>9. ASSUME NEW k \in Kind
      PROVE  /\ UnderWay(w, k) => UnderWay(w, k)'
             /\ ~closed[e] /\ UnderWay(e, k) => UnderWay(e, k)'
  <2>1. UnderWay(w, k) => UnderWay(w, k)'
    BY <1>1, <1>3, <1>6, Undisturbed DEF Held, Start, e
  <2>2. ~closed[e] /\ UnderWay(e, k) => UnderWay(e, k)'
    BY <1>1, <1>2, WriteOn
  <2> QED
    BY <2>1, <2>2
<1>10. ~Nothing(e) /\ (Nothing(w) => Nothing(w)')
  BY <1>1, <1>3, <1>6 DEF Nothing, Held, e
<1>11. /\ NextIn' = NextIn /\ NextOut' = NextOut /\ Greets' = Greets /\ Sending' = Sending
       /\ Greeting' = Greeting /\ Asking' = Asking /\ SameKey' = SameKey
  BY <1>3 DEF NextIn, NextOut, Greets, Sending, Greeting, Asking, SameKey
<1>12. CASE w = "client"
  <2>1. e = "server"
    BY <1>12, EndIs DEF e
  <2>2. ~closed'["server"] => ToServer'
    <3> SUFFICES ASSUME ~closed["server"] PROVE ToServer'
      BY <1>3
    <3>1. PICK k \in Kind : k = NextIn /\ Comes(k)
      BY <1>2, <1>10, <2>1 DEF ToServer, Cut, Rests, Serves, Answers
    <3>2. Comes(k)'
      BY <1>3, <1>6, <1>9, <1>11, <2>1, <3>1 DEF Comes
    <3> QED
      BY <1>11, <3>1, <3>2 DEF ToServer
  <2>3. ~closed'["client"] => ToClient'
    <3> SUFFICES ASSUME ~closed["client"] PROVE ToClient'
      BY <1>3
    <3>1. PICK k \in Kind : k = NextOut /\ (Replied(k) \/ (Cut("client") /\ place["server"] = "killed") \/ Silent)
      BY <1>2 DEF ToClient
    <3>2. ~Replied(k)
      BY <1>3, <1>12 DEF Replied
    <3>3. (Cut("client") => Cut("client")') /\ (Silent => Silent')
      BY <1>3, <1>10, <1>11, <1>12 DEF Cut, Silent
    <3> QED
      BY <1>3, <1>11, <3>1, <3>2, <3>3 DEF ToClient
  <2> QED
    BY <1>1, <1>2, <1>3, <1>6, <1>7, <1>8, <1>11, <1>12, <2>1, <2>2, <2>3, EndIs
    DEF IInv, Knows, ActsOnWhole
<1>13. CASE w = "server"
  <2>1. e = "client"
    BY <1>13, EndIs DEF e
  <2>2. ~closed'["server"] => ToServer'
    <3> SUFFICES ASSUME ~closed["server"] PROVE ToServer'
      BY <1>3
    <3>1. PICK k \in Kind : k = NextIn /\ (Comes(k) \/ Cut("server") \/ Rests \/ Serves(k) \/ Answers)
      BY <1>2 DEF ToServer
    <3>2. Comes(k) => Comes(k)'
      BY <1>3, <1>6, <1>9, <1>11, <1>13 DEF Comes
    <3>3. (Cut("server") => Cut("server")') /\ (Rests => Rests') /\ (Serves(k) => Serves(k)') /\ (Answers => Answers')
      BY <1>3, <1>6, <1>10, <1>11, <1>13 DEF Cut, Rests, Serves, Answers
    <3> QED
      BY <1>11, <3>1, <3>2, <3>3 DEF ToServer
  <2>3. ~closed'["client"] => ToClient'
    <3> SUFFICES ASSUME ~closed["client"] PROVE ToClient'
      BY <1>3
    <3>1. PICK k \in Kind : k = NextOut /\ Replied(k)
      BY <1>2, <1>10, <2>1 DEF ToClient, Cut, Silent
    <3>2. Replied(k)'
      BY <1>3, <1>6, <1>9, <1>11, <2>1, <3>1 DEF Replied
    <3> QED
      BY <1>11, <3>1, <3>2 DEF ToClient
  <2> QED
    BY <1>1, <1>2, <1>3, <1>6, <1>7, <1>8, <1>11, <1>13, <2>1, <2>2, <2>3, EndIs
    DEF IInv, Knows, ActsOnWhole
<1> QED
  BY <1>12, <1>13, EndIs

LEMMA ReadStep ==
    ASSUME IInv, NEW e \in End, Read(e)
    PROVE  IInv'
<1> DEFINE w == Peer(e)
<1>1. w \in End /\ e # w /\ Peer(w) = e /\ Peer(e) = w
  BY EndIs
<1> HIDE DEF w
<1>2. /\ Typed /\ Ends(w) /\ Ends(e) /\ Knows /\ ActsOnWhole
      /\ ~closed["server"] => ToServer
      /\ ~closed["client"] => ToClient
  BY <1>1 DEF IInv
<1>3. /\ server' = server /\ program' = program /\ place' = place /\ need' = need
      /\ todo' = todo /\ header' = header /\ closed' = closed /\ broken' = broken /\ key' = key
      /\ text' = text /\ acted' = acted /\ written' = written /\ result' = result
  BY DEF Read, programs, history
<1>4. place[e] \in Reads /\ stream[e] # <<>> /\ ret[e] = Waiting /\ ~closed[e]
  BY <1>2 DEF Read, Receiving, Reads, Bodies, Ends
<1>5. PICK n \in 1..Min({need[e] - Len(buf[e]), Len(stream[e])}) :
        /\ buf' = [buf EXCEPT ![e] = @ \o SubSeq(stream[e], 1, n)]
        /\ stream' = [stream EXCEPT ![e] = SubSeq(@, n + 1, Len(@))]
        /\ ret' = [ret EXCEPT ![e] = IF Len(buf'[e]) = need[e] THEN need[e] ELSE Waiting]
  BY DEF Read
<1>6. n \in 1..(need[e] - Len(buf[e])) /\ n \in 1..Len(stream[e])
  <2>1. need[e] - Len(buf[e]) \in Int /\ Len(stream[e]) \in Int
    BY <1>2 DEF Typed
  <2>2. PICK l \in Int : l = Min({need[e] - Len(buf[e]), Len(stream[e])})
    BY <2>1, MinIs
  <2>3. l <= Len(stream[e]) /\ l <= need[e] - Len(buf[e]) /\ n \in 1..l
    BY <1>5, <2>1, <2>2, MinIs
  <2> QED
    BY <2>1, <2>3
<1>7. /\ SubSeq(stream[e], 1, n) \in Seq(Piece)
      /\ SubSeq(stream[e], n + 1, Len(stream[e])) \in Seq(Piece)
      /\ Len(SubSeq(stream[e], 1, n)) = n
  <2>1. stream[e] \in Seq(Piece)
    BY <1>2 DEF Typed
  <2> QED
    BY <1>6, <2>1
<1>8. /\ buf'[e] \in Seq(Piece) /\ Len(buf'[e]) = Len(buf[e]) + n
      /\ buf[e] \in Seq(Piece) /\ need[e] \in Nat
  <2>1. buf[e] \in Seq(Piece) /\ need[e] \in Nat /\ buf'[e] = buf[e] \o SubSeq(stream[e], 1, n)
    BY <1>2, <1>5 DEF Typed
  <2> QED
    BY <1>6, <1>7, <2>1
<1>9. /\ buf'[w] = buf[w] /\ stream'[w] = stream[w] /\ ret'[w] = ret[w]
      /\ ret'[e] = IF Len(buf'[e]) = need[e] THEN need[e] ELSE Waiting
  BY <1>1, <1>2, <1>5 DEF Typed
<1>10. Typed'
  <2>1. buf' \in [End -> Seq(Piece)] /\ stream' \in [End -> Seq(Piece)]
    BY <1>2, <1>5, <1>7, <1>8 DEF Typed
  <2>2. ret' \in [End -> Int]
    BY <1>2, <1>5, <1>8 DEF Typed, Waiting
  <2> QED
    BY <1>2, <1>3, <2>1, <2>2 DEF Typed
<1>11. Ends(w)' /\ Ends(e)'
  <2>1. /\ Due(w)' = Due(w) /\ Due(e)' = Due(e)
        /\ RecvN(w) => RecvN(w)'
    BY <1>1, <1>3, <1>4, <1>9 DEF Due, RecvN
  <2>2. RecvN(e)'
    <3>1. CASE Len(buf'[e]) = need[e]
      BY <1>3, <1>9, <3>1 DEF RecvN
    <3>2. CASE Len(buf'[e]) # need[e]
      <4>1. Len(buf'[e]) < need[e]
        BY <1>6, <1>8, <3>2
      <4> QED
        BY <1>3, <1>9, <3>2, <4>1 DEF RecvN
    <3> QED
      BY <3>1, <3>2
  <2>3. Ends(w)'
    BY <1>1, <1>2, <1>3, <1>9, <2>1 DEF Ends
  <2>4. Ends(e)'
    BY <1>1, <1>2, <1>3, <1>4, <2>1, <2>2 DEF Ends
  <2> QED
    BY <2>3, <2>4
<1>12. ASSUME NEW k \in Kind
       PROVE  /\ UnderWay(w, k) => UnderWay(w, k)'
              /\ UnderWay(e, k) => UnderWay(e, k)'
  <2>1. UnderWay(w, k) => UnderWay(w, k)'
    BY <1>1, <1>3, <1>9, Undisturbed DEF Held, Start
  <2>2. UnderWay(e, k) => UnderWay(e, k)'
    BY <1>2, ReadOn
  <2> QED
    BY <2>1, <2>2
<1>13. ~Nothing(e) /\ (Nothing(w) => Nothing(w)')
  BY <1>1, <1>3, <1>4, <1>9 DEF Nothing, Held
<1>14. /\ NextIn' = NextIn /\ NextOut' = NextOut /\ Greets' = Greets /\ Sending' = Sending
       /\ Greeting' = Greeting /\ Asking' = Asking /\ SameKey' = SameKey
  BY <1>3 DEF NextIn, NextOut, Greets, Sending, Greeting, Asking, SameKey
<1>15. Knows' /\ ActsOnWhole'
  BY <1>2, <1>3, <1>14 DEF Knows, ActsOnWhole
<1>16. ~closed'["server"] => ToServer'
  <2> SUFFICES ASSUME ~closed["server"] PROVE ToServer'
    BY <1>3
  <2>1. PICK k \in Kind : k = NextIn /\ (Comes(k) \/ Cut("server") \/ Rests \/ Serves(k) \/ Answers)
    BY <1>2 DEF ToServer
  <2>2. Comes(k) => Comes(k)'
    BY <1>1, <1>3, <1>12, <1>14, EndIs DEF Comes
  <2>3. CASE e = "server"
    BY <1>13, <1>14, <2>1, <2>2, <2>3 DEF ToServer, Cut, Rests, Serves, Answers
  <2>4. CASE w = "server"
    <3>1. (Cut("server") => Cut("server")') /\ (Rests => Rests') /\ (Serves(k) => Serves(k)') /\ (Answers => Answers')
      BY <1>3, <1>9, <1>13, <1>14, <2>4 DEF Cut, Rests, Serves, Answers
    <3> QED
      BY <1>14, <2>1, <2>2, <3>1 DEF ToServer
  <2> QED
    BY <1>1, <2>3, <2>4, EndIs
<1>17. ~closed'["client"] => ToClient'
  <2> SUFFICES ASSUME ~closed["client"] PROVE ToClient'
    BY <1>3
  <2>1. PICK k \in Kind : k = NextOut /\ (Replied(k) \/ (Cut("client") /\ place["server"] = "killed") \/ Silent)
    BY <1>2 DEF ToClient
  <2>2. Replied(k) => Replied(k)'
    BY <1>1, <1>3, <1>12, <1>14, EndIs DEF Replied
  <2>3. CASE e = "client"
    BY <1>13, <1>14, <2>1, <2>2, <2>3 DEF ToClient, Cut, Silent
  <2>4. CASE w = "client"
    <3>1. (Cut("client") => Cut("client")') /\ (Silent => Silent')
      BY <1>3, <1>9, <1>13, <1>14, <2>4 DEF Cut, Silent
    <3> QED
      BY <1>3, <1>14, <2>1, <2>2, <3>1 DEF ToClient
  <2> QED
    BY <1>1, <2>3, <2>4, EndIs
<1> QED
  BY <1>1, <1>10, <1>11, <1>15, <1>16, <1>17, EndIs DEF IInv

LEMMA ReadEndStep ==
    ASSUME IInv, NEW e \in End, ReadEnd(e)
    PROVE  IInv'
<1> DEFINE w == Peer(e)
<1>1. w \in End /\ e # w /\ Peer(w) = e /\ Peer(e) = w
  BY EndIs
<1> HIDE DEF w
<1>2. /\ Typed /\ Ends(w) /\ Ends(e) /\ Knows /\ ActsOnWhole
      /\ ~closed["server"] => ToServer
      /\ ~closed["client"] => ToClient
  BY <1>1 DEF IInv
<1>3. /\ server' = server /\ program' = program /\ place' = place /\ need' = need /\ buf' = buf
      /\ stream' = stream
      /\ todo' = todo /\ header' = header /\ closed' = closed /\ broken' = broken /\ key' = key
      /\ text' = text /\ acted' = acted /\ written' = written /\ result' = result
  BY DEF ReadEnd, programs, history
<1>4. place[e] \in Reads /\ stream[e] = <<>> /\ ret[e] = Waiting /\ closed[w]
  BY <1>1 DEF ReadEnd, Receiving, Reads, Bodies
<1>5. PICK r \in {Len(buf[e]), -1} : ret' = [ret EXCEPT ![e] = r]
  BY DEF ReadEnd
<1>6. ret' \in [End -> Int] /\ ret'[e] = r /\ ret'[w] = ret[w]
  <2>1. r \in Int
    BY <1>2 DEF Typed
  <2> QED
    BY <1>1, <1>2, <1>5, <2>1 DEF Typed
<1>7. Typed'
  BY <1>2, <1>3, <1>6 DEF Typed
<1>8. Ends(w)' /\ Ends(e)'
  <2>1. /\ Due(w)' = Due(w) /\ Due(e)' = Due(e)
        /\ RecvN(w) => RecvN(w)'
    BY <1>1, <1>3, <1>6 DEF Due, RecvN
  <2>2. RecvN(e)'
    <3>1. RecvN(e) /\ need[e] \in Nat
      BY <1>2, <1>4 DEF Ends, Typed
    <3>2. Len(buf[e]) < need[e]
      BY <1>4, <3>1 DEF RecvN, Waiting
    <3> QED
      BY <1>1, <1>3, <1>4, <1>6, <3>2 DEF RecvN
  <2>3. Ends(w)'
    BY <1>1, <1>2, <1>3, <2>1 DEF Ends
  <2>4. Ends(e)'
    BY <1>1, <1>2, <1>3, <1>4, <2>1, <2>2 DEF Ends
  <2> QED
    BY <2>3, <2>4
<1>9. ToServer' = ToServer /\ ToClient' = ToClient
  BY <1>3
  DEF ToServer, ToClient, Comes, Rests, Serves, Answers, Cut, Replied, Silent, UnderWay, Span, Nothing,
      Held, Start, NextIn, NextOut, Greets, Sending, Greeting, Asking
<1>10. Knows' /\ ActsOnWhole'
  BY <1>2, <1>3 DEF Knows, ActsOnWhole, Greets, SameKey
<1> QED
  BY <1>1, <1>2, <1>3, <1>7, <1>8, <1>9, <1>10, EndIs DEF IInv

-----------------------------------------------------------------------------
(***************************************************************************)
(* An end closes, having sent all it had to unless it is killed.           *)
(***************************************************************************)
LEMMA CloseOn ==
    ASSUME NEW e \in End, NEW k \in Kind, NEW end \in Over,
           ~closed[Peer(e)], Typed, Close(Peer(e), end), UnderWay(e, k),
           buf' = buf, written' = written, end = "done" => todo[Peer(e)] = <<>>
    PROVE  UnderWay(e, k)'
<1>1. PICK i, j \in Int : Span(e, k, i, j)
  BY DEF UnderWay
<1>2. Peer(e) \in End /\ Peer(e) # e
  BY EndIs
<1>3. /\ place'[e] = place[e] /\ place'[Peer(e)] = end /\ closed'[Peer(e)] /\ stream'[e] = stream[e]
  BY <1>2 DEF Close, Typed
<1>4. Held(e)' = Held(e) /\ Start(e)' = Start(e)
  BY <1>3 DEF Held, Start
<1>5. j \in Nat /\ j <= Size(k) /\ Size(k) \in Nat
  BY <1>1, SpanIs
<1>6. ASSUME end = "done" PROVE j = Size(k)
  <2>1. Run(k, j, Size(k)) = <<>>
    BY <1>1, <1>6 DEF Span
  <2>2. ~(j < Size(k))
    BY <1>5, <2>1, RunIs
  <2> QED
    BY <1>5, <2>2
<1>7. Span(e, k, i, j)'
  BY <1>1, <1>3, <1>4, <1>6 DEF Span
<1> QED
  BY <1>7 DEF UnderWay

LEMMA CloseKeeps ==
    ASSUME IInv, NEW e \in End, NEW end \in Over, ~closed[e], Close(e, end),
           server' = server, program' = program, need' = need, buf' = buf, ret' = ret,
           key' = key, text' = text, acted' = acted, written' = written,
           header' \in [End -> Header], header'[Peer(e)] = header[Peer(e)],
           result' \in {"none", "success", "failed", "silence"},
           end = "done" => todo[e] = <<>> \/ closed[Peer(e)]
    PROVE  /\ Typed' /\ \A x \in End : Ends(x)'
           /\ ~closed'["server"] => ToServer'
           /\ ~closed'["client"] => ToClient'
<1> DEFINE p == Peer(e)
<1>1. p \in End /\ e # p /\ Peer(p) = e /\ Peer(e) = p
  BY EndIs
<1> HIDE DEF p
<1>2. /\ Typed /\ Ends(p) /\ Ends(e) /\ Knows
      /\ ~closed["server"] => ToServer
      /\ ~closed["client"] => ToClient
  BY <1>1 DEF IInv
<1>3. /\ place' = [place EXCEPT ![e] = end] /\ closed' = [closed EXCEPT ![e] = TRUE]
      /\ broken' = [broken EXCEPT ![p] = @ \/ stream[e] # <<>>]
      /\ todo' = [todo EXCEPT ![e] = <<>>] /\ stream' = [stream EXCEPT ![e] = <<>>]
  BY <1>1 DEF Close
<1>4. /\ place'[e] = end /\ place'[p] = place[p] /\ closed'[e] /\ closed'[p] = closed[p]
      /\ todo'[e] = <<>> /\ todo'[p] = todo[p] /\ stream'[e] = <<>> /\ stream'[p] = stream[p]
      /\ broken'[e] = broken[e]
  BY <1>1, <1>2, <1>3 DEF Typed
<1>5. place[e] \notin Over
  BY <1>2 DEF Ends
<1>6. Typed'
  <2>1. <<>> \in Seq(Piece)
    OBVIOUS
  <2>2. /\ todo' \in [End -> Seq(Piece)] /\ stream' \in [End -> Seq(Piece)]
        /\ closed' \in [End -> BOOLEAN] /\ broken' \in [End -> BOOLEAN]
    BY <1>2, <1>3, <2>1 DEF Typed
  <2>3. /\ place' \in [End -> {"hello", "request", "serve", "ack", "answer"} \cup Reads \cup Over]
        /\ place'["server"] \in {"header", "body", "serve", "ack", "answer"} \cup Over
        /\ place'["client"] \in
              {"hello", "ackHeader", "ackBody", "request", "answerHeader", "answerBody"} \cup Over
    BY <1>1, <1>2, <1>3, <1>4, EndIs DEF Typed
  <2> QED
    BY <1>2, <2>2, <2>3 DEF Typed
<1>7. Ends(e)'
  BY <1>1, <1>2, <1>4, <1>5 DEF Ends, Over, Reads, Bodies
<1>8. Ends(p)'
  <2>1. place[p] \in Reads => Due(p)' = Due(p)
    <3>1. CASE p = "server"
      BY <1>1, <1>2, <1>4, <3>1 DEF Due, Typed, Over
    <3>2. CASE p = "client"
      BY <1>1, <1>2, <1>4, <3>2 DEF Due, Typed, Over
    <3> QED
      BY <1>1, <3>1, <3>2, EndIs
  <2>2. RecvN(p) => RecvN(p)'
    BY <1>1, <1>4 DEF RecvN
  <2>3. broken'[p] => closed'[e]
    BY <1>4
  <2> QED
    BY <1>1, <1>2, <1>4, <2>1, <2>2, <2>3 DEF Ends
<1>9. ASSUME ~closed[p], NEW k \in Kind
      PROVE  UnderWay(p, k) => UnderWay(p, k)'
  BY <1>1, <1>2, <1>9, CloseOn
<1>10. Nothing(p) => Nothing(p)'
  BY <1>1, <1>4 DEF Nothing, Held
<1>11. NextIn' = NextIn
  BY DEF NextIn
<1>12. ~closed'["server"] => ToServer'
  <2> SUFFICES ASSUME ~closed'["server"] PROVE ToServer'
    OBVIOUS
  <2>1. p = "server" /\ e = "client" /\ ~closed["server"]
    BY <1>1, <1>4, EndIs
  <2>2. PICK k \in Kind : k = NextIn /\ (Comes(k) \/ Cut("server") \/ Rests \/ Serves(k) \/ Answers)
    BY <1>2, <2>1 DEF ToServer
  <2>3. ~Cut("server")
    BY <1>1, <1>5, <2>1 DEF Cut
  <2>4. Sending' /\ Greeting' /\ Asking'
    BY <1>4, <2>1 DEF Sending, Greeting, Asking
  <2>5. Comes(k) => Comes(k)'
    BY <1>1, <1>4, <1>9, <2>1, <2>4 DEF Comes
  <2>6. (Rests => Rests') /\ (Serves(k) => Serves(k)') /\ (Answers => Answers')
    BY <1>1, <1>4, <1>10, <2>1, <2>4 DEF Rests, Serves, Answers
  <2> QED
    BY <1>11, <2>2, <2>3, <2>5, <2>6 DEF ToServer
<1>13. ~closed'["client"] => ToClient'
  <2> SUFFICES ASSUME ~closed'["client"] PROVE ToClient'
    OBVIOUS
  <2>1. p = "client" /\ e = "server" /\ ~closed["client"]
    BY <1>1, <1>4, EndIs
  <2>2. PICK k \in Kind : k = NextOut /\ (Replied(k) \/ (Cut("client") /\ place["server"] = "killed") \/ Silent)
    BY <1>2, <2>1 DEF ToClient
  <2>3. ~Cut("client")
    BY <1>1, <1>5, <2>1 DEF Cut
  <2>4. Greets' = Greets /\ NextOut' = NextOut
    BY <1>4, <2>1 DEF Greets, NextOut
  <2>5. Replied(k) => Replied(k)'
    BY <1>1, <1>4, <1>9, <2>1, <2>4 DEF Replied
  <2>6. Silent => Silent'
    <3>1. ASSUME Silent PROVE text # "confirmed"
      BY <1>2, <1>5, <2>1, <3>1 DEF Silent, Knows
    <3> QED
      BY <1>4, <1>10, <2>1, <2>4, <3>1 DEF Silent
  <2> QED
    BY <2>2, <2>3, <2>4, <2>5, <2>6 DEF ToClient
<1> QED
  BY <1>1, <1>6, <1>7, <1>8, <1>12, <1>13, EndIs

LEMMA ServerCloses ==
    ASSUME IInv, NEW end \in Over, ~closed["server"], Close("server", end),
           programs' = programs, need' = need, buf' = buf, ret' = ret, key' = key, text' = text,
           history' = history, header' \in [End -> Header], header'["client"] = header["client"],
           result' = result, end = "done" => todo["server"] = <<>>
    PROVE  IInv'
<1>1. /\ Typed /\ Ends("server") /\ Knows /\ ActsOnWhole
      /\ server' = server /\ program' = program /\ acted' = acted /\ written' = written
  BY EndIs DEF IInv, programs, history
<1>2. /\ Typed' /\ \A x \in End : Ends(x)'
      /\ ~closed'["server"] => ToServer'
      /\ ~closed'["client"] => ToClient'
  BY <1>1, CloseKeeps, EndIs DEF Typed
<1>3. /\ place'["server"] = end /\ place'["client"] = place["client"]
      /\ closed'["server"] /\ place["server"] \notin Over
  BY <1>1, EndIs DEF Close, Typed, Ends
<1>4. Greets' = Greets /\ SameKey' = SameKey
  BY <1>3 DEF Greets, SameKey
<1>5. Knows'
  BY <1>1, <1>3, <1>4 DEF Knows, Over
<1> QED
  BY <1>1, <1>2, <1>5 DEF IInv, ActsOnWhole

LEMMA ClientCloses ==
    ASSUME IInv, NEW end \in Over, ~closed["client"], Close("client", end),
           programs' = programs, reading' = reading, key' = key, text' = text, history' = history,
           end = "done" => todo["client"] = <<>> \/ closed["server"],
           result' \in {"none", "success", "failed", "silence"}, end = "done" => result' # "none",
           result' = "success" => text = "confirmed" /\ "answer" \in written,
           result' = "failed" => /\ closed["server"] \/ program = "join" \/ text = "nodriver"
                                 /\ text = "confirmed" => place["server"] = "killed"
    PROVE  IInv'
<1>1. /\ Typed /\ Ends("client") /\ Knows /\ ActsOnWhole
      /\ server' = server /\ program' = program /\ acted' = acted /\ written' = written
      /\ need' = need /\ buf' = buf /\ ret' = ret /\ header' = header
  BY EndIs DEF IInv, programs, history, reading
<1>2. /\ Typed' /\ \A x \in End : Ends(x)'
      /\ ~closed'["server"] => ToServer'
      /\ ~closed'["client"] => ToClient'
  BY <1>1, CloseKeeps, EndIs DEF Typed
<1>3. /\ place'["client"] = end /\ place'["server"] = place["server"]
      /\ closed'["server"] = closed["server"] /\ place["client"] \notin Over
  BY <1>1, EndIs DEF Close, Typed, Ends
<1>4. ~Greets' /\ SameKey' = SameKey
  BY <1>1, <1>3 DEF Greets, SameKey, Over
<1>5. Knows'
  BY <1>1, <1>3, <1>4 DEF Knows, Over
<1> QED
  BY <1>1, <1>2, <1>5 DEF IInv, ActsOnWhole

LEMMA WriteFailsStep ==
    ASSUME IInv, NEW e \in End, WriteFails(e)
    PROVE  IInv'
<1>1. /\ Typed /\ Ends(e) /\ Knows /\ todo[e] # <<>> /\ broken[e] /\ closed[Peer(e)] /\ ~closed[e]
      /\ ~closed["client"] => ToClient
  BY DEF IInv, WriteFails, Ends
<1>2. CASE e = "server"
  BY <1>1, <1>2, ServerCloses DEF WriteFails, programs, reading, history, Typed, Over
<1>3. CASE e = "client"
  <2>1. Close("client", "done") /\ result' = "failed" /\ closed["server"] /\ ~closed["client"]
    BY <1>1, <1>3, EndIs DEF WriteFails
  <2>2. PICK k \in Kind : Replied(k) \/ Cut("client") \/ Silent
    BY <2>1, <1>1 DEF ToClient
  <2>3. place["client"] \in Writes /\ todo["client"] # <<>>
    BY <1>1, <1>3 DEF Ends
  <2>4. Silent
    BY <2>2, <2>3 DEF Replied, Cut, Writes, Bodies
  <2>5. place["server"] \in Over
    BY <2>1, EndIs DEF IInv, Ends
  <2>6. text = "confirmed" => place["server"] = "killed"
    BY <2>4, <2>5 DEF Silent, Over
  <2> QED
    BY <1>1, <2>1, <2>6, <1>3, ClientCloses DEF WriteFails, programs, reading, history, Over
<1> QED
  BY <1>2, <1>3, EndIs

LEMMA TimeOutStep ==
    ASSUME IInv, TimeOut
    PROVE  IInv'
<1>1. /\ Ends("client") /\ Close("client", "done") /\ result' = "silence"
      /\ place["client"] \in Reads
  BY EndIs DEF IInv, TimeOut, Receiving, Reads, Bodies
<1>2. ~closed["client"] /\ todo["client"] = <<>>
  BY <1>1 DEF Ends, Reads, Bodies, Writes, Over
<1> QED
  BY <1>1, <1>2, ClientCloses DEF TimeOut, programs, reading, history, Over

LEMMA KillStep ==
    ASSUME IInv, NEW e \in End, Kill(e)
    PROVE  IInv'
<1>1. Typed /\ Knows /\ Ends(e) /\ ~closed[e] /\ Close(e, "killed")
  BY DEF IInv, Ends, Kill
<1>2. CASE e = "server"
  BY <1>1, <1>2, ServerCloses DEF Kill, reading, Typed, Over
<1>3. CASE e = "client"
  <2>1. result' = "none"
    BY <1>1, <1>3 DEF Kill, Knows
  <2> QED
    BY <1>1, <1>3, <2>1, ClientCloses DEF Kill, Over
<1> QED
  BY <1>2, <1>3, EndIs

-----------------------------------------------------------------------------
(***************************************************************************)
(* An end goes on to its next recv_n or send_n.                            *)
(***************************************************************************)
LEMMA ExpectKeeps ==
    ASSUME IInv, NEW e \in End, NEW where \in Reads, NEW n \in Nat, ~closed[e], Expect(e, where, n),
           IF e = "server" THEN where \in {"header", "body"}
           ELSE where \in {"ackHeader", "ackBody", "answerHeader", "answerBody"},
           n = CASE where = "body" -> header'["server"].length
                 [] where = "ackBody" -> BodySize
                 [] where = "answerBody" -> header'["client"].length
                 [] OTHER -> HeaderSize,
           where = "body" => n <= MaxBody, where = "answerBody" => n < MaxBody,
           todo[e] = <<>>, programs' = programs, key' = key, text' = text, history' = history,
           header' \in [End -> Header], header'[Peer(e)] = header[Peer(e)], result' = result
    PROVE  /\ Typed' /\ \A x \in End : Ends(x)'
           /\ place'[e] = where /\ place'[Peer(e)] = place[Peer(e)] /\ need'[e] = n
           /\ Held(e)' = <<>> /\ (Nothing(Peer(e)) => Nothing(Peer(e))')
           /\ \A k \in Kind : UnderWay(Peer(e), k) => UnderWay(Peer(e), k)'
<1> DEFINE p == Peer(e)
<1>1. p \in End /\ e # p /\ Peer(p) = e /\ Peer(e) = p
  BY EndIs
<1> HIDE DEF p
<1>2. /\ Typed /\ Ends(p) /\ Ends(e)
      /\ server' = server /\ program' = program /\ acted' = acted /\ written' = written
  BY <1>1 DEF IInv, programs, history
<1>3. /\ place' = [place EXCEPT ![e] = where] /\ need' = [need EXCEPT ![e] = n]
      /\ buf' = [buf EXCEPT ![e] = <<>>]
      /\ ret' = [ret EXCEPT ![e] = IF n = 0 THEN 0 ELSE Waiting]
      /\ todo' = todo /\ stream' = stream /\ closed' = closed /\ broken' = broken
  BY DEF Expect
<1>4. /\ place'[e] = where /\ place'[p] = place[p] /\ need'[e] = n /\ need'[p] = need[p]
      /\ buf'[e] = <<>> /\ buf'[p] = buf[p]
      /\ ret'[e] = IF n = 0 THEN 0 ELSE Waiting
      /\ ret'[p] = ret[p]
  BY <1>1, <1>2, <1>3 DEF Typed
<1>5. Typed'
  <2>1. <<>> \in Seq(Piece)
    OBVIOUS
  <2>2. need' \in [End -> Nat] /\ buf' \in [End -> Seq(Piece)] /\ ret' \in [End -> Int]
    <3>1. PICK r \in Int : r = IF n = 0 THEN 0 ELSE Waiting
      BY DEF Waiting
    <3>2. ret' \in [End -> Int]
      BY <1>2, <1>3, <3>1 DEF Typed
    <3>3. need' \in [End -> Nat]
      BY <1>2, <1>3 DEF Typed
    <3>4. buf' \in [End -> Seq(Piece)]
      BY <1>2, <1>3, <2>1 DEF Typed
    <3> QED
      BY <3>2, <3>3, <3>4
  <2>3. /\ place' \in [End -> {"hello", "request", "serve", "ack", "answer"} \cup Reads \cup Over]
        /\ place'["server"] \in {"header", "body", "serve", "ack", "answer"} \cup Over
        /\ place'["client"] \in
              {"hello", "ackHeader", "ackBody", "request", "answerHeader", "answerBody"} \cup Over
    BY <1>1, <1>2, <1>3, <1>4, EndIs DEF Typed
  <2> QED
    BY <1>2, <1>3, <2>2, <2>3 DEF Typed
<1>6. Ends(e)'
  <2>1. Due(e)' = n
    BY <1>4 DEF Due
  <2>2. RecvN(e)'
    BY <1>4 DEF RecvN
  <2>3. where \notin Over
    BY DEF Reads, Bodies, Over
  <2> QED
    BY <1>1, <1>2, <1>3, <1>4, <2>1, <2>2, <2>3 DEF Ends
<1>7. Ends(p)'
  <2>1. place[p] \in Reads => Due(p)' = Due(p)
    <3>1. CASE p = "server"
      BY <1>1, <1>2, <1>4, <3>1 DEF Due, Typed, Over
    <3>2. CASE p = "client"
      BY <1>1, <1>2, <1>4, <3>2 DEF Due, Typed, Over
    <3> QED
      BY <1>1, <3>1, <3>2, EndIs
  <2>2. RecvN(p) => RecvN(p)'
    BY <1>1, <1>3, <1>4 DEF RecvN
  <2> QED
    BY <1>1, <1>2, <1>3, <1>4, <2>1, <2>2 DEF Ends
<1>8. Nothing(p) => Nothing(p)'
  BY <1>1, <1>3, <1>4 DEF Nothing, Held
<1>9. \A k \in Kind : UnderWay(p, k) => UnderWay(p, k)'
  BY <1>1, <1>2, <1>3, <1>4, Undisturbed DEF Held, Start
<1>10. Held(e)' = <<>>
  BY <1>4 DEF Held
<1> QED
  BY <1>1, <1>4, <1>5, <1>6, <1>7, <1>8, <1>9, <1>10, EndIs

LEMMA SendKeeps ==
    ASSUME IInv, NEW e \in End, NEW where \in Writes, NEW k \in Kind, ~closed[e], Send(e, where, k),
           IF e = "server" THEN where \in {"ack", "answer"} ELSE where \in {"hello", "request"},
           programs' = programs, header' = header, written' = written, result' = result,
           key' \in [End -> {"none", "agreed", "wrong"}],
           text' \in {"none", "confirmed", "nodriver"}, acted' \subseteq Kind
    PROVE  /\ Typed' /\ \A x \in End : Ends(x)'
           /\ place'[e] = where /\ place'[Peer(e)] = place[Peer(e)] /\ todo'[Peer(e)] = todo[Peer(e)]
           /\ stream[e] = <<>> /\ todo[Peer(e)] = <<>> => Nothing(e)'
           /\ Nothing(Peer(e)) /\ place[Peer(e)] \notin Bodies => UnderWay(Peer(e), k)'
<1> DEFINE p == Peer(e)
<1>1. p \in End /\ e # p /\ Peer(p) = e /\ Peer(e) = p
  BY EndIs
<1> HIDE DEF p
<1>2. /\ Typed /\ Ends(p) /\ Ends(e) /\ server' = server /\ program' = program
  BY <1>1 DEF IInv, programs
<1>3. /\ place' = [place EXCEPT ![e] = where] /\ todo' = [todo EXCEPT ![e] = Packet(k)]
      /\ need' = need /\ buf' = buf /\ ret' = ret
      /\ stream' = stream /\ closed' = closed /\ broken' = broken
  BY DEF Send
<1>4. /\ place'[e] = where /\ place'[p] = place[p] /\ todo'[e] = Packet(k) /\ todo'[p] = todo[p]
  BY <1>1, <1>2, <1>3 DEF Typed
<1>5. Packet(k) = Run(k, 0, Size(k)) /\ Packet(k) \in Seq(Piece) /\ Size(k) \in Nat /\ Size(k) >= 5
  <2>1. Size(k) \in Nat /\ Size(k) >= 5 /\ Packet(k) = Run(k, 0, Size(k))
    BY SentIs, PacketIs
  <2>2. PICK z \in Nat : z = Size(k)
    BY <2>1
  <2>3. Run(k, 0, z) \in Seq(Piece)
    BY RunHas
  <2> QED
    BY <2>1, <2>2, <2>3
<1>6. Typed'
  <2>1. todo' \in [End -> Seq(Piece)]
    BY <1>2, <1>3, <1>5 DEF Typed
  <2>2. /\ place' \in [End -> {"hello", "request", "serve", "ack", "answer"} \cup Reads \cup Over]
        /\ place'["server"] \in {"header", "body", "serve", "ack", "answer"} \cup Over
        /\ place'["client"] \in
              {"hello", "ackHeader", "ackBody", "request", "answerHeader", "answerBody"} \cup Over
    BY <1>1, <1>2, <1>3, <1>4, EndIs DEF Typed, Writes
  <2> QED
    BY <1>2, <1>3, <2>1, <2>2 DEF Typed
<1>7. where \notin Over /\ where \notin Reads /\ where \notin {"body", "answerBody"}
  BY DEF Writes, Over, Reads, Bodies
<1>8. Ends(e)'
  BY <1>1, <1>2, <1>3, <1>4, <1>7 DEF Ends
<1>9. Ends(p)'
  <2>1. place[p] \in Reads => Due(p)' = Due(p)
    BY <1>4 DEF Due
  <2>2. RecvN(p) => RecvN(p)'
    BY <1>1, <1>3, <1>4 DEF RecvN
  <2> QED
    BY <1>1, <1>2, <1>3, <1>4, <2>1, <2>2 DEF Ends
<1>10. stream[e] = <<>> /\ todo[p] = <<>> => Nothing(e)'
  BY <1>1, <1>3, <1>4, <1>7 DEF Nothing, Held
<1>11. ASSUME Nothing(p), place[p] \notin Bodies
       PROVE  UnderWay(p, k)'
  <2>1. Held(p)' = <<>> /\ Start(p)' = 0 /\ stream'[p] = <<>> /\ ~closed'[e]
    BY <1>1, <1>3, <1>4, <1>11 DEF Nothing, Held, Start
  <2>2. Run(k, 0, 0) = <<>>
    BY RunIs
  <2>3. 0 \in Start(p)'..Size(k) /\ 0 # Size(k)
    BY <1>5, <2>1
  <2>4. Span(p, k, 0, 0)'
    BY <1>1, <1>4, <1>5, <2>1, <2>2, <2>3 DEF Span
  <2> QED
    BY <2>4 DEF UnderWay
<1> QED
  BY <1>1, <1>4, <1>6, <1>8, <1>9, <1>10, <1>11, EndIs

LEMMA ServerExpects ==
    ASSUME IInv, NEW where \in {"header", "body"}, NEW n \in Nat, ~closed["server"],
           Expect("server", where, n), todo["server"] = <<>>,
           n = IF where = "body" THEN header'["server"].length ELSE HeaderSize,
           where = "body" => n <= MaxBody, programs' = programs, key' = key, text' = text,
           history' = history, header' \in [End -> Header], header'["client"] = header["client"],
           result' = result
    PROVE  /\ Typed' /\ \A x \in End : Ends(x)'
           /\ place'["server"] = where /\ place'["client"] = place["client"] /\ need'["server"] = n
           /\ Held("server")' = <<>> /\ (Nothing("client") => Nothing("client")')
           /\ \A k \in Kind : UnderWay("client", k) => UnderWay("client", k)'
<1>1. where \in Reads
  BY DEF Reads, Bodies
<1>2. n = CASE where = "body" -> header'["server"].length
            [] where = "ackBody" -> BodySize
            [] where = "answerBody" -> header'["client"].length
            [] OTHER -> HeaderSize
  OBVIOUS
<1>3. where # "answerBody"
  OBVIOUS
<1> QED
  BY <1>1, <1>2, <1>3, ExpectKeeps, EndIs

LEMMA ClientExpects ==
    ASSUME IInv, NEW where \in {"ackHeader", "ackBody", "answerHeader", "answerBody"}, NEW n \in Nat,
           ~closed["client"], Expect("client", where, n), todo["client"] = <<>>,
           n = IF where = "ackBody" THEN BodySize
               ELSE IF where = "answerBody" THEN header'["client"].length ELSE HeaderSize,
           where = "answerBody" => n < MaxBody, programs' = programs, key' = key, text' = text,
           history' = history, header' \in [End -> Header], header'["server"] = header["server"],
           result' = result
    PROVE  /\ Typed' /\ \A x \in End : Ends(x)'
           /\ place'["client"] = where /\ place'["server"] = place["server"] /\ need'["client"] = n
           /\ Held("client")' = <<>> /\ (Nothing("server") => Nothing("server")')
           /\ \A k \in Kind : UnderWay("server", k) => UnderWay("server", k)'
<1>1. where \in Reads /\ where # "body"
  BY DEF Reads, Bodies
<1>2. n = CASE where = "body" -> header'["server"].length
            [] where = "ackBody" -> BodySize
            [] where = "answerBody" -> header'["client"].length
            [] OTHER -> HeaderSize
  BY <1>1
<1> QED
  BY <1>1, <1>2, ExpectKeeps, EndIs

LEMMA ServerSends ==
    ASSUME IInv, NEW where \in {"ack", "answer"}, NEW k \in Kind, ~closed["server"],
           Send("server", where, k), programs' = programs, header' = header, written' = written,
           result' = result, key' \in [End -> {"none", "agreed", "wrong"}],
           text' \in {"none", "confirmed", "nodriver"}, acted' \subseteq Kind
    PROVE  /\ Typed' /\ \A x \in End : Ends(x)'
           /\ place'["server"] = where /\ place'["client"] = place["client"]
           /\ todo'["client"] = todo["client"]
           /\ stream["server"] = <<>> /\ todo["client"] = <<>> => Nothing("server")'
           /\ Nothing("client") /\ place["client"] \notin Bodies => UnderWay("client", k)'
<1>1. where \in Writes
  BY DEF Writes
<1> QED
  BY <1>1, SendKeeps, EndIs

LEMMA ClientSends ==
    ASSUME IInv, NEW where \in {"hello", "request"}, NEW k \in Kind, ~closed["client"],
           Send("client", where, k), programs' = programs, header' = header, written' = written,
           result' = result, key' \in [End -> {"none", "agreed", "wrong"}],
           text' \in {"none", "confirmed", "nodriver"}, acted' \subseteq Kind
    PROVE  /\ Typed' /\ \A x \in End : Ends(x)'
           /\ place'["client"] = where /\ place'["server"] = place["server"]
           /\ todo'["server"] = todo["server"]
           /\ stream["client"] = <<>> /\ todo["server"] = <<>> => Nothing("client")'
           /\ Nothing("server") /\ place["server"] \notin Bodies => UnderWay("server", k)'
<1>1. where \in Writes
  BY DEF Writes
<1> QED
  BY <1>1, SendKeeps, EndIs

-----------------------------------------------------------------------------
(***************************************************************************)
(* The steps of the server.                                                *)
(***************************************************************************)
LEMMA NextInIs ==
    ASSUME Typed
    PROVE  /\ NextIn \in {"hello", "request", "join", "update"}
           /\ program \in {"rider", "plain", "join", "update"}
           /\ NextIn = "hello" => program = "rider" /\ key["server"] = "none"
  BY WireAssumption DEF Typed, NextIn

LEMMA ServingIs ==
    ASSUME IInv, place["server"] = "serve"
    PROVE  /\ ~closed["server"] /\ todo["server"] = <<>> /\ Nothing("server") /\ Sending
           /\ NextIn \in Kind /\ NextIn \in written /\ header["server"] = Sent[NextIn]
           /\ Whole(buf["server"], NextIn)
           /\ ~closed["client"] => Silent
<1>1. Typed /\ Ends("server") /\ (~closed["server"] => ToServer) /\ (~closed["client"] => ToClient)
  BY EndIs DEF IInv
<1>2. ~closed["server"] /\ todo["server"] = <<>>
  BY <1>1 DEF Ends, Over, Writes
<1>3. PICK k \in Kind : k = NextIn /\ Serves(k)
  BY <1>1, <1>2 DEF ToServer, Comes, Cut, Rests, Answers, Bodies
<1>4. ~closed["client"] => Silent
  BY <1>1 DEF ToClient, Replied, Over
<1>5. k \in {"hello", "request", "join", "update"}
  BY <1>1, <1>3, NextInIs
<1>6. Size(k) = 7
  BY <1>5, SentIs
<1>7. Whole(buf["server"], k)
  BY <1>3, <1>6, PacketIs DEF Serves, HeaderSize
<1> QED
  BY <1>2, <1>3, <1>4, <1>7 DEF Serves

LEMMA HandshakeStep ==
    ASSUME IInv, Handshake
    PROVE  IInv'
<1>1. place["server"] = "serve" /\ header["server"].type = "handshake"
  BY DEF Handshake, Type
<1>2. /\ ~closed["server"] /\ todo["server"] = <<>> /\ Nothing("server") /\ Sending
      /\ NextIn \in Kind /\ NextIn \in written /\ header["server"] = Sent[NextIn]
      /\ Whole(buf["server"], NextIn)
      /\ ~closed["client"] => Silent
  BY <1>1, ServingIs
<1>3. Typed /\ Knows /\ ActsOnWhole
  BY DEF IInv
<1>4. NextIn = "hello" /\ program = "rider" /\ key["server"] = "none"
  <2>1. NextIn = "hello"
    BY <1>1, <1>2, SentIs
  <2> QED
    BY <1>3, <2>1, NextInIs
<1>5. /\ server = "secure" /\ key' = [key EXCEPT !["server"] = "agreed"] /\ acted' = acted \cup {"hello"}
      /\ Send("server", "ack", "ack") /\ text' = text /\ header' = header /\ written' = written
      /\ result' = result /\ programs' = programs /\ server' = server /\ program' = program
  BY <1>2, <1>4 DEF Handshake, Act, programs
<1>6. /\ Typed' /\ \A x \in End : Ends(x)'
      /\ place'["server"] = "ack" /\ place'["client"] = place["client"] /\ todo'["client"] = todo["client"]
      /\ stream["server"] = <<>> /\ todo["client"] = <<>> => Nothing("server")'
      /\ Nothing("client") /\ place["client"] \notin Bodies => UnderWay("client", "ack")'
  <2>1. key' \in [End -> {"none", "agreed", "wrong"}] /\ acted' \subseteq Kind
    BY <1>2, <1>3, <1>4, <1>5 DEF Typed
  <2> QED
    BY <1>2, <1>3, <1>5, <2>1, ServerSends, SentIs DEF Typed
<1>7. Nothing("server")' /\ todo["client"] = <<>> /\ key'["server"] = "agreed" /\ key'["client"] = key["client"]
  BY <1>2, <1>3, <1>5, <1>6, EndIs DEF Nothing, Typed
<1>8. /\ Greets' = Greets /\ closed' = closed
      /\ place["client"] \in Over \cup {"hello", "ackHeader"}
  BY <1>2, <1>4, <1>5, <1>6 DEF Greets, Sending, Send
<1>9. ToServer'
  <2>1. Answers'
    BY <1>6, <1>7, <1>8 DEF Answers, Greeting
  <2>2. NextIn' = "request" /\ "request" \in Kind
    BY <1>4, <1>5, <1>7, SentIs DEF NextIn
  <2> QED
    BY <2>1, <2>2 DEF ToServer
<1>10. ASSUME ~closed'["client"] PROVE ToClient'
  <2>1. Silent /\ place["client"] \in {"hello", "ackHeader"} /\ Greets'
    <3>1. Silent /\ Ends("client")
      BY <1>2, <1>8, <1>10, EndIs DEF IInv
    <3> QED
      BY <1>6, <1>8, <3>1 DEF Silent, Greets, Over
  <2>2. NextOut' = "ack" /\ "ack" \in Kind
    BY <2>1, SentIs DEF NextOut
  <2>3. UnderWay("client", "ack")'
    BY <1>6, <2>1 DEF Silent, Bodies
  <2>4. Replied("ack")'
    BY <1>6, <1>7, <2>1, <2>3 DEF Replied
  <2> QED
    BY <2>2, <2>4 DEF ToClient
<1>11. Knows' /\ ActsOnWhole'
  <2>1. text = "none"
    BY <1>1, <1>3 DEF Knows
  <2> QED
    BY <1>1, <1>2, <1>3, <1>4, <1>5, <1>6, <1>7, <1>8, <2>1 DEF Knows, ActsOnWhole
<1> QED
  BY <1>6, <1>9, <1>10, <1>11 DEF IInv

LEMMA HandshakeDoneStep ==
    ASSUME IInv, HandshakeDone
    PROVE  IInv'
<1>1. /\ place["server"] = "ack" /\ todo["server"] = <<>> /\ Expect("server", "header", HeaderSize)
      /\ server' = server /\ program' = program /\ header' = header /\ key' = key /\ text' = text
      /\ acted' = acted /\ written' = written /\ result' = result
      /\ programs' = programs /\ history' = history
  BY DEF HandshakeDone, SentAll, programs, history
<1>2. Typed /\ Knows /\ ActsOnWhole /\ Ends("server") /\ (~closed["client"] => ToClient)
  BY EndIs DEF IInv
<1>3. ~closed["server"] /\ closed' = closed /\ stream' = stream /\ todo' = todo
  BY <1>1, <1>2 DEF Ends, Over, Expect
<1>4. /\ Typed' /\ \A x \in End : Ends(x)'
      /\ place'["server"] = "header" /\ place'["client"] = place["client"]
      /\ Held("server")' = <<>> /\ (Nothing("client") => Nothing("client")')
      /\ \A k \in Kind : UnderWay("client", k) => UnderWay("client", k)'
  <2>1. HeaderSize \in Nat
    BY DEF HeaderSize
  <2> QED
    BY <1>1, <1>2, <1>3, <2>1, ServerExpects DEF Typed
<1>5. /\ NextIn' = NextIn /\ NextOut' = NextOut /\ Greets' = Greets /\ Sending' = Sending
      /\ Greeting' = Greeting /\ SameKey' = SameKey
  BY <1>1, <1>4 DEF NextIn, NextOut, Greets, Sending, Greeting, SameKey
<1>6. Held("server") = <<>> /\ Start("server")' = Start("server")
  BY <1>1, <1>4 DEF Held, Start, Reads, Bodies
<1>7. ToServer'
  <2>1. PICK k \in Kind : k = NextIn /\ (Comes(k) \/ Answers)
    BY <1>1, <1>3 DEF IInv, ToServer, Cut, Rests, Serves, Bodies
  <2>2. UnderWay("server", k) => UnderWay("server", k)'
    BY <1>1, <1>3, <1>4, <1>6, Undisturbed, EndIs
  <2>3. Comes(k) => Comes(k)'
    BY <1>4, <1>5, <2>2 DEF Comes
  <2>4. Answers => Rests'
    BY <1>1, <1>2, <1>3, <1>4, <1>5, EndIs DEF Answers, Rests, Nothing, Knows
  <2> QED
    BY <1>5, <2>1, <2>3, <2>4 DEF ToServer
<1>8. ASSUME ~closed'["client"] PROVE ToClient'
  <2>1. PICK k \in Kind : k = NextOut /\ (Replied(k) \/ Silent)
    BY <1>1, <1>2, <1>3, <1>8 DEF ToClient
  <2>2. Replied(k) => Replied(k)'
    BY <1>1, <1>3, <1>4, <1>5 DEF Replied, Over
  <2>3. Silent => Silent'
    BY <1>1, <1>4, <1>5 DEF Silent
  <2> QED
    BY <1>5, <2>1, <2>2, <2>3 DEF ToClient
<1>9. Knows' /\ ActsOnWhole'
  BY <1>1, <1>2, <1>3, <1>4, <1>5 DEF Knows, ActsOnWhole
<1> QED
  BY <1>4, <1>7, <1>8, <1>9 DEF IInv

LEMMA RideStep ==
    ASSUME IInv, Ride
    PROVE  IInv'
<1>1. /\ ~closed["server"] /\ todo["server"] = <<>> /\ Nothing("server") /\ Sending
      /\ NextIn \in Kind /\ NextIn \in written /\ header["server"] = Sent[NextIn]
      /\ ~closed["client"] => Silent
  BY ServingIs DEF Ride, Opcode
<1>2. Typed /\ Knows /\ ActsOnWhole /\ place["server"] = "serve"
  BY DEF IInv, Ride, Opcode
<1>3. NextIn = "request"
  BY <1>1, SentIs DEF Ride, Opcode
<1>4. program \in {"rider", "plain"} /\ (program = "rider" => SameKey)
  <2>1. program \in {"rider", "plain"} /\ (program = "rider" => key["server"] # "none")
    BY <1>2, <1>3, NextInIs DEF NextIn
  <2>2. program = "rider" => server = "secure"
    BY <1>2, <2>1 DEF Knows
  <2>3. server = "secure" => SameKey
    BY <1>2 DEF Ride, Rejected, Type
  <2> QED
    BY <2>1, <2>2, <2>3
<1>5. /\ key' = key /\ acted' = acted \cup {"request"} /\ text' \in {"confirmed", "nodriver"}
      /\ Send("server", "answer", "answer") /\ header' = header /\ written' = written
      /\ result' = result /\ programs' = programs /\ server' = server /\ program' = program
  BY DEF Ride, Act, programs
<1>6. /\ Typed' /\ \A x \in End : Ends(x)'
      /\ place'["server"] = "answer" /\ place'["client"] = place["client"] /\ todo'["client"] = todo["client"]
      /\ stream["server"] = <<>> /\ todo["client"] = <<>> => Nothing("server")'
      /\ Nothing("client") /\ place["client"] \notin Bodies => UnderWay("client", "answer")'
  <2>1. acted' \subseteq Kind /\ text' \in {"none", "confirmed", "nodriver"} /\ "answer" \in Kind
    BY <1>1, <1>2, <1>3, <1>5, SentIs DEF Typed
  <2> QED
    BY <1>1, <1>2, <1>5, <2>1, ServerSends DEF Typed
<1>7. /\ ~Greets' /\ closed' = closed /\ SameKey' = SameKey
      /\ place["client"] \in Over \cup {"request", "answerHeader"}
  BY <1>1, <1>3, <1>5, <1>6 DEF Greets, Sending, Send, Over, SameKey
<1>8. Nothing("server")' /\ todo["client"] = <<>>
  BY <1>1, <1>6, EndIs DEF Nothing
<1>9. ToServer'
  <2>1. Answers'
    BY <1>6, <1>7, <1>8 DEF Answers, Asking
  <2>2. NextIn' = "request" /\ "request" \in Kind
    BY <1>3, <1>5, SentIs DEF NextIn
  <2> QED
    BY <2>1, <2>2 DEF ToServer
<1>10. ASSUME ~closed'["client"] PROVE ToClient'
  <2>1. Silent
    BY <1>1, <1>7, <1>10
  <2>2. NextOut' = "answer" /\ "answer" \in Kind
    BY <1>4, <1>5, <1>7, SentIs DEF NextOut
  <2>3. UnderWay("client", "answer")'
    BY <1>6, <2>1 DEF Silent, Bodies
  <2>4. Replied("answer")'
    BY <1>6, <1>7, <1>8, <2>1, <2>3 DEF Replied, Silent
  <2> QED
    BY <2>2, <2>4 DEF ToClient
<1>11. Knows' /\ ActsOnWhole'
  <2>1. text = "none"
    BY <1>2 DEF Knows
  <2> QED
    BY <1>1, <1>2, <1>3, <1>4, <1>5, <1>6, <1>7, <2>1 DEF Knows, ActsOnWhole
<1> QED
  BY <1>6, <1>9, <1>10, <1>11 DEF IInv

LEMMA JoinStep ==
    ASSUME IInv, Join
    PROVE  IInv'
<1>1. place["server"] = "serve" /\ header["server"].opcode = "join"
  BY DEF Join, Opcode
<1>2. /\ ~closed["server"] /\ todo["server"] = <<>> /\ Nothing("server") /\ Sending
      /\ NextIn \in Kind /\ NextIn \in written /\ header["server"] = Sent[NextIn]
      /\ ~closed["client"] => Silent
  BY <1>1, ServingIs
<1>3. Typed /\ Knows /\ ActsOnWhole
  BY DEF IInv
<1>4. NextIn = "join" /\ program = "join"
  <2>1. NextIn = "join"
    BY <1>1, <1>2, SentIs
  <2> QED
    BY <1>3, <2>1, NextInIs DEF NextIn
<1>5. /\ key' = key /\ acted' = acted \cup {"join"} /\ text' = text
      /\ Send("server", "answer", "joined") /\ header' = header /\ written' = written
      /\ result' = result /\ programs' = programs /\ server' = server /\ program' = program
  BY DEF Join, Act, programs
<1>6. /\ Typed' /\ \A x \in End : Ends(x)'
      /\ place'["server"] = "answer" /\ place'["client"] = place["client"] /\ todo'["client"] = todo["client"]
      /\ stream["server"] = <<>> /\ todo["client"] = <<>> => Nothing("server")'
      /\ Nothing("client") /\ place["client"] \notin Bodies => UnderWay("client", "joined")'
  <2>1. acted' \subseteq Kind /\ "joined" \in Kind
    BY <1>2, <1>3, <1>4, <1>5, SentIs DEF Typed
  <2> QED
    BY <1>2, <1>3, <1>5, <2>1, ServerSends DEF Typed
<1>7. /\ ~Greets' /\ closed' = closed /\ SameKey' = SameKey
      /\ place["client"] \in Over \cup {"request", "answerHeader"}
  BY <1>2, <1>4, <1>5, <1>6 DEF Greets, Sending, Send, Over, SameKey
<1>8. Nothing("server")' /\ todo["client"] = <<>>
  BY <1>2, <1>6, EndIs DEF Nothing
<1>9. ToServer'
  <2>1. Answers'
    BY <1>6, <1>7, <1>8 DEF Answers, Asking
  <2>2. NextIn' = "join" /\ "join" \in Kind
    BY <1>4, <1>5, SentIs DEF NextIn
  <2> QED
    BY <2>1, <2>2 DEF ToServer
<1>10. ASSUME ~closed'["client"] PROVE ToClient'
  <2>1. Silent
    BY <1>2, <1>7, <1>10
  <2>2. NextOut' = "joined" /\ "joined" \in Kind
    BY <1>4, <1>5, <1>7, SentIs DEF NextOut
  <2>3. UnderWay("client", "joined")'
    BY <1>6, <2>1 DEF Silent, Bodies
  <2>4. Replied("joined")'
    BY <1>6, <1>7, <1>8, <2>1, <2>3 DEF Replied, Silent
  <2> QED
    BY <2>2, <2>4 DEF ToClient
<1>11. Knows' /\ ActsOnWhole'
  <2>1. text = "none"
    BY <1>1, <1>3 DEF Knows
  <2> QED
    BY <1>1, <1>2, <1>3, <1>4, <1>5, <1>6, <1>7, <2>1 DEF Knows, ActsOnWhole
<1> QED
  BY <1>6, <1>9, <1>10, <1>11 DEF IInv

LEMMA HangUpStep ==
    ASSUME IInv, Reject \/ Answered
    PROVE  IInv'
<1>1. HangUp /\ programs' = programs /\ written' = written /\ result' = result
  BY DEF Reject, Answered
<1>2. Typed /\ Ends("server") /\ todo["server"] = <<>> /\ ~closed["server"]
  <2>1. Typed /\ Ends("server") /\ (place["server"] = "serve" \/ SentAll("server", "answer"))
    BY EndIs DEF IInv, Reject, Answered, Rejected, Type
  <2> QED
    BY <2>1 DEF Ends, Over, Writes, SentAll
<1> QED
  BY <1>1, <1>2, ServerCloses DEF HangUp, reading, history, Typed, Over

LEMMA IgnoreStep ==
    ASSUME IInv, Ignore
    PROVE  IInv'
<1>1. /\ place["server"] = "serve" /\ header["server"].opcode \notin {"ride", "join"}
      /\ programs' = programs /\ written' = written /\ result' = result
      /\ server' = server /\ program' = program
  BY DEF Ignore, programs
<1>2. /\ ~closed["server"] /\ todo["server"] = <<>> /\ Nothing("server") /\ Sending
      /\ NextIn \in Kind /\ header["server"] = Sent[NextIn]
      /\ ~closed["client"] => Silent
  BY <1>1, ServingIs
<1>3. Typed /\ Knows /\ ActsOnWhole
  BY DEF IInv
<1>4. CASE HangUp
  BY <1>1, <1>2, <1>3, <1>4, ServerCloses DEF HangUp, reading, history, Typed, Over
<1>5. CASE /\ server = "secure" /\ ~Type("handshake") /\ Expect("server", "header", HeaderSize)
           /\ UNCHANGED <<header, key, text, acted>>
  <2>1. program = "update"
    <3>1. NextIn \in {"hello", "request", "join", "update"} /\ NextIn \notin {"hello", "request", "join"}
      BY <1>1, <1>2, <1>3, <1>5, NextInIs, SentIs DEF Type
    <3> QED
      BY <3>1 DEF NextIn
  <2>2. /\ Typed' /\ \A x \in End : Ends(x)'
        /\ place'["server"] = "header" /\ place'["client"] = place["client"]
        /\ Held("server")' = <<>> /\ (Nothing("client") => Nothing("client")')
    <3>1. HeaderSize \in Nat
      BY DEF HeaderSize
    <3> QED
      BY <1>1, <1>2, <1>3, <1>5, <3>1, ServerExpects DEF Typed, history
  <2>3. closed' = closed /\ stream' = stream /\ todo' = todo
    BY <1>5 DEF Expect
  <2>4. /\ NextIn' = NextIn /\ NextOut' = NextOut /\ Greets' = Greets /\ Sending' = Sending
        /\ SameKey' = SameKey
    BY <1>1, <1>5, <2>2 DEF NextIn, NextOut, Greets, Sending, SameKey
  <2>5. ToServer'
    <3>1. Nothing("server")'
      BY <1>2, <2>2, <2>3 DEF Nothing
    <3>2. Rests'
      BY <1>1, <1>2, <2>1, <2>2, <2>4, <3>1 DEF Rests
    <3> QED
      BY <1>2, <2>4, <3>2 DEF ToServer
  <2>6. ASSUME ~closed'["client"] PROVE ToClient'
    <3>1. Silent'
      BY <1>2, <1>5, <2>2, <2>3, <2>4, <2>6 DEF Silent
    <3>2. PICK k \in Kind : k = NextOut
      BY <1>2, <1>3, <2>3, <2>6 DEF IInv, ToClient
    <3> QED
      BY <2>4, <3>1, <3>2 DEF ToClient
  <2>7. Knows' /\ ActsOnWhole'
    BY <1>1, <1>3, <1>5, <2>2, <2>3, <2>4 DEF Knows, ActsOnWhole
  <2> QED
    BY <2>2, <2>5, <2>6, <2>7 DEF IInv
<1> QED
  BY <1>4, <1>5 DEF Ignore

\* recv_n returns all it was asked for, or at the end of the stream what there was.
LEMMA Returned ==
    ASSUME Typed, NEW e \in End, RecvN(e), ret[e] # Waiting
    PROVE  \E l \in Nat :
              /\ Len(buf[e]) <= l /\ Len(buf[e]) >= l
              /\ \/ ret[e] = need[e] /\ l = need[e]
                 \/ closed[Peer(e)] /\ stream[e] = <<>> /\ ret[e] \in {l, -1} /\ l < need[e]
<1>1. buf[e] \in Seq(Piece) /\ need[e] \in Nat
  BY DEF Typed
<1>2. PICK l \in Nat : l = Len(buf[e])
  BY <1>1
<1>3. \/ ret[e] = need[e] /\ l = need[e]
      \/ closed[Peer(e)] /\ stream[e] = <<>> /\ ret[e] \in {l, -1} /\ l < need[e]
  BY <1>2 DEF RecvN
<1>4. Len(buf[e]) <= l /\ Len(buf[e]) >= l
  BY <1>1, <1>2
<1> QED
  BY <1>3, <1>4

LEMMA ReadHeaderStep ==
    ASSUME IInv, ReadHeader
    PROVE  IInv'
<1>1. /\ place["server"] = "header" /\ ret["server"] # Waiting
      /\ programs' = programs /\ written' = written /\ result' = result
      /\ server' = server /\ program' = program
  BY DEF ReadHeader, Received, programs
<1>2. Typed /\ Knows /\ ActsOnWhole /\ Ends("server") /\ Ends("client") /\ (~closed["client"] => ToClient)
  BY EndIs DEF IInv
<1>3. /\ ~closed["server"] /\ todo["server"] = <<>> /\ need["server"] = 5 /\ RecvN("server")
  BY <1>1, <1>2 DEF Ends, Over, Writes, Reads, Due, HeaderSize
<1>4. CASE ret["server"] <= 0 /\ HangUp
  BY <1>1, <1>2, <1>3, <1>4, ServerCloses DEF HangUp, reading, history, Typed, Over
<1>5. ASSUME ret["server"] > 0, NEW h \in Headers(buf["server"]),
             header' = [header EXCEPT !["server"] = h],
             \/ h.length > MaxBody /\ Close("server", "done") /\ UNCHANGED <<need, buf, ret>>
             \/ h.length <= MaxBody /\ Expect("server", "body", h.length),
             UNCHANGED <<key, text, acted>>
      PROVE  IInv'
  <2>1. buf["server"] \in Seq(Piece) /\ ret["server"] \in Int /\ Held("server") = buf["server"] /\ Start("server") = 0
    BY <1>1, <1>2, EndIs DEF Typed, Held, Start, Reads, Bodies
  <2>0. PICK l \in Nat :
           /\ Len(buf["server"]) <= l /\ Len(buf["server"]) >= l
           /\ \/ ret["server"] = 5 /\ l = 5
              \/ closed["client"] /\ stream["server"] = <<>> /\ ret["server"] \in {l, -1} /\ l < 5
    BY <1>1, <1>2, <1>3, Returned, EndIs
  <2>2. buf["server"] # <<>>
    <3>1. ASSUME buf["server"] = <<>> PROVE FALSE
      <4>1. Len(buf["server"]) <= 0
        BY <3>1
      <4> QED
        BY <1>5, <2>1, <2>0, <4>1
    <3> QED
      BY <3>1
  <2>3. PICK k \in Kind : k = NextIn /\ Comes(k)
    BY <1>1, <1>3, <2>1, <2>2 DEF IInv, ToServer, Cut, Rests, Serves, Answers, Nothing, Bodies
  <2>4. PICK i, j \in Int : Span("server", k, i, j)
    BY <2>3 DEF Comes, UnderWay
  <2>5. /\ i \in Nat /\ j \in Nat /\ i <= j /\ j <= Size(k)
        /\ buf["server"] = Run(k, 0, i) /\ stream["server"] = Run(k, i, j)
    BY <2>1, <2>4, SpanIs, EndIs DEF Span
  <2>6. Len(buf["server"]) <= i /\ Len(buf["server"]) >= i
    BY <2>5, RunHas
  <2>7. i \in 1..5
    <3>1. i # 0
      <4>1. Run(k, 0, 0) = <<>>
        BY RunIs
      <4> QED
        BY <2>2, <2>5, <4>1
    <3>2. i = l
      BY <2>1, <2>5, <2>6, <2>0
    <3> QED
      BY <2>5, <2>0, <3>1, <3>2
  <2>8. /\ k \in {"hello", "request", "join", "update"} /\ Size(k) = 7 /\ Sent[k].length = 2
        /\ h \in Header /\ h.length # 0 /\ (i = 5 => h = Sent[k])
    <3>1. k \in {"hello", "request", "join", "update"}
      BY <1>2, <2>3, NextInIs
    <3>2. h \in Headers(Run(k, 0, i))
      BY <1>5, <2>5
    <3> QED
      BY <2>7, <3>1, <3>2, HeaderIs, SentIs
  <2>9. h.length \in Nat
    BY <2>8, Room DEF Header
  <2>10. header' \in [End -> Header] /\ header'["client"] = header["client"] /\ header'["server"] = h
    BY <1>2, <1>5, <2>8, EndIs DEF Typed
  <2>11. CASE h.length > MaxBody
    BY <1>1, <1>2, <1>3, <1>5, <2>9, <2>10, <2>11, Room, ServerCloses DEF history, Over
  <2>12. CASE h.length <= MaxBody
    <3>1. Expect("server", "body", h.length)
      BY <1>5, <2>9, <2>12, Room
    <3>2. closed' = closed /\ stream' = stream /\ todo' = todo
      BY <3>1 DEF Expect
    <3>3. /\ Typed' /\ \A x \in End : Ends(x)'
          /\ place'["server"] = "body" /\ place'["client"] = place["client"] /\ need'["server"] = h.length
          /\ Held("server")' = <<>> /\ (Nothing("client") => Nothing("client")')
      BY <1>1, <1>2, <1>3, <1>5, <2>9, <2>10, <2>12, <3>1, ServerExpects DEF history
    <3>4. /\ NextIn' = NextIn /\ NextOut' = NextOut /\ Greets' = Greets /\ Sending' = Sending
          /\ SameKey' = SameKey
      BY <1>1, <1>5, <3>3 DEF NextIn, NextOut, Greets, Sending, SameKey
    <3>5. ToServer'
      <4>1. CASE i = 5
        <5>1. Start("server")' = 5 /\ Run(k, 5, 5) = <<>>
          <6>1. Start("server")' = 5
            BY <3>3 DEF Start, Bodies, HeaderSize
          <6>2. Run(k, 5, 5) = <<>>
            BY RunIs
          <6> QED
            BY <6>1, <6>2
        <5>2. Span("server", k, 5, j)'
          BY <1>1, <2>4, <2>5, <2>8, <3>2, <3>3, <4>1, <5>1, EndIs DEF Span
        <5>3. UnderWay("server", k)'
          BY <2>5, <5>2 DEF UnderWay
        <5>4. Comes(k)'
          BY <2>3, <2>8, <2>10, <3>3, <3>4, <4>1, <5>3 DEF Comes
        <5> QED
          BY <2>3, <3>4, <5>4 DEF ToServer
      <4>2. CASE i # 5
        <5>1. closed["client"] /\ stream["server"] = <<>>
          BY <2>1, <2>5, <2>6, <2>7, <2>0, <4>2
        <5>2. todo["client"] = <<>> /\ place["client"] \in Over
          BY <1>2, <5>1 DEF Ends
        <5>3. Cut("server")'
          BY <2>8, <3>2, <3>3, <5>1, <5>2, EndIs DEF Cut, Nothing, Bodies
        <5> QED
          BY <2>3, <3>4, <5>3 DEF ToServer
      <4> QED
        BY <4>1, <4>2
    <3>6. ASSUME ~closed'["client"] PROVE ToClient'
      <4>1. PICK o \in Kind : o = NextOut /\ (Replied(o) \/ Silent)
        BY <1>1, <1>2, <3>2, <3>6 DEF ToClient
      <4>2. ~Replied(o)
        <5>1. ASSUME Replied(o) PROVE FALSE
          <6>1. Greets /\ key["server"] = "agreed"
            BY <1>1, <5>1 DEF Replied, Over
          <6>2. NextIn = "request"
            BY <1>2, <6>1 DEF Knows, NextIn
          <6> QED
            BY <2>3, <6>1, <6>2 DEF Comes, Sending, Greets, Over
        <5> QED
          BY <5>1
      <4>3. Silent'
        BY <1>5, <3>3, <3>4, <4>1, <4>2 DEF Silent
      <4> QED
        BY <3>4, <4>1, <4>3 DEF ToClient
    <3>7. Knows' /\ ActsOnWhole'
      BY <1>1, <1>2, <1>5, <3>2, <3>3, <3>4 DEF Knows, ActsOnWhole
    <3> QED
      BY <3>3, <3>5, <3>6, <3>7 DEF IInv
  <2> QED
    BY <2>9, <2>11, <2>12, Room
<1> QED
  BY <1>4, <1>5 DEF ReadHeader

LEMMA ReadBodyStep ==
    ASSUME IInv, ReadBody
    PROVE  IInv'
<1>1. /\ place["server"] = "body" /\ ret["server"] # Waiting
      /\ programs' = programs /\ written' = written /\ result' = result
      /\ server' = server /\ program' = program
  BY DEF ReadBody, Received, programs
<1>2. Typed /\ Knows /\ ActsOnWhole /\ Ends("server") /\ Ends("client") /\ (~closed["client"] => ToClient)
  BY EndIs DEF IInv
<1>3. /\ ~closed["server"] /\ todo["server"] = <<>> /\ RecvN("server")
      /\ need["server"] = header["server"].length /\ need["server"] \in Nat
  BY <1>1, <1>2, EndIs DEF Typed, Ends, Over, Writes, Reads, Bodies, Due
<1>4. CASE HangUp
  BY <1>1, <1>2, <1>3, <1>4, ServerCloses DEF HangUp, reading, history, Typed, Over
<1>5. CASE /\ ret["server"] = header["server"].length
           /\ place' = [place EXCEPT !["server"] = "serve"]
           /\ UNCHANGED <<todo, stream, reading, closed, broken, key, text, acted>>
  <2>1. buf["server"] \in Seq(Piece) /\ Held("server") = buf["server"] /\ Start("server") = 5
    BY <1>1, <1>2, EndIs DEF Typed, Held, Start, Reads, Bodies, HeaderSize
  <2>2. Len(buf["server"]) = need["server"]
    BY <1>1, <1>3, <1>5, <2>1 DEF RecvN
  <2>3. PICK k \in Kind : k = NextIn /\ Comes(k)
    <3>1. ~Cut("server")
      BY <2>1, <2>2, <1>3 DEF Cut, Nothing
    <3> QED
      BY <1>1, <1>3, <3>1 DEF IInv, ToServer, Rests, Serves, Answers
  <2>4. /\ k \in {"hello", "request", "join", "update"} /\ Size(k) = 7 /\ Sent[k].length = 2
        /\ header["server"] = Sent[k]
    <3>1. k \in {"hello", "request", "join", "update"}
      BY <1>2, <2>3, NextInIs
    <3> QED
      BY <1>1, <2>3, <3>1, SentIs DEF Comes
  <2>5. PICK i, j \in Int : Span("server", k, i, j)
    BY <2>3 DEF Comes, UnderWay
  <2>6. /\ i \in Nat /\ j \in Nat /\ 5 <= i /\ i <= j /\ j <= 7
        /\ buf["server"] = Run(k, 5, i) /\ stream["server"] = Run(k, i, j)
    BY <2>1, <2>4, <2>5, SpanIs, EndIs DEF Span
  <2>7. i = 7 /\ j = 7
    <3>1. Len(buf["server"]) + 5 = i
      BY <2>6, RunHas
    <3>2. Len(buf["server"]) <= 2 /\ Len(buf["server"]) >= 2
      BY <1>3, <2>2, <2>4
    <3> QED
      BY <2>6, <3>1, <3>2
  <2>8. stream["server"] = <<>> /\ todo["client"] = <<>> /\ k \in written
    <3>1. stream["server"] = <<>> /\ Run(k, 7, 7) = <<>>
      BY <2>6, <2>7, RunIs
    <3> QED
      BY <1>2, <2>4, <2>5, <2>7, <3>1, EndIs DEF Span, Ends
  <2>9. /\ place'["server"] = "serve" /\ place'["client"] = place["client"]
        /\ need' = need /\ buf' = buf /\ ret' = ret /\ header' = header
    BY <1>2, <1>5, EndIs DEF Typed, reading
  <2>10. /\ NextIn' = NextIn /\ NextOut' = NextOut /\ Greets' = Greets /\ Sending' = Sending
         /\ SameKey' = SameKey
    BY <1>1, <1>5, <2>9 DEF NextIn, NextOut, Greets, Sending, SameKey
  <2>11. Typed'
    BY <1>1, <1>2, <1>5, <2>9 DEF Typed
  <2>12. Ends("server")' /\ Ends("client")'
    <3>1. Ends("server")'
      BY <1>1, <1>2, <1>3, <1>5, <2>9 DEF Ends, Over, Reads, Bodies
    <3>2. Due("client")' = Due("client") /\ RecvN("client")' = RecvN("client")
      BY <1>5, <2>9 DEF Due, RecvN
    <3>3. Ends("client")'
      BY <1>2, <1>5, <2>9, <3>2 DEF Ends
    <3> QED
      BY <3>1, <3>3
  <2>13. ToServer'
    <3>1. Nothing("server")'
      BY <1>5, <2>8, <2>9, EndIs DEF Nothing, Held, Reads, Bodies
    <3>2. Serves(k)'
      BY <1>1, <2>3, <2>4, <2>6, <2>7, <2>8, <2>9, <2>10, <3>1 DEF Serves, Comes, HeaderSize
    <3> QED
      BY <2>3, <2>10, <3>2 DEF ToServer
  <2>14. ASSUME ~closed'["client"] PROVE ToClient'
    <3>1. PICK o \in Kind : o = NextOut /\ Silent
      BY <1>1, <1>2, <1>5, <2>14 DEF ToClient, Replied, Over
    <3>2. Nothing("client")'
      BY <1>5, <2>9, <3>1 DEF Silent, Nothing, Held
    <3>3. Silent'
      BY <1>5, <2>9, <2>10, <3>1, <3>2 DEF Silent
    <3> QED
      BY <2>10, <3>1, <3>3 DEF ToClient
  <2>15. Knows' /\ ActsOnWhole'
    BY <1>1, <1>2, <1>5, <2>9, <2>10 DEF Knows, ActsOnWhole
  <2> QED
    BY <2>11, <2>12, <2>13, <2>14, <2>15, EndIs DEF IInv
<1> QED
  BY <1>4, <1>5 DEF ReadBody

-----------------------------------------------------------------------------
(***************************************************************************)
(* The steps of the client.                                                *)
(***************************************************************************)
\* A packet whose end does not come was cut by the death of its writer.
LEMMA CutOff ==
    ASSUME NEW e \in End, NEW k \in Kind, NEW i \in Int, NEW j \in Int, Span(e, k, i, j),
           closed[Peer(e)], Ends(Peer(e)), stream[e] = <<>>, i < Size(k)
    PROVE  place[Peer(e)] = "killed"
<1>1. i \in Nat /\ j \in Nat /\ i <= j /\ j <= Size(k) /\ Size(k) \in Nat /\ Run(k, i, j) = <<>>
  BY SpanIs DEF Span
<1>2. ~(i < j)
  BY <1>1, RunIs
<1>3. j # Size(k)
  BY <1>1, <1>2
<1> QED
  BY <1>3 DEF Span, Ends, Over

\* Of a packet that has come whole nothing is under way.
LEMMA AllCame ==
    ASSUME NEW e \in End, NEW k \in Kind, NEW i \in Int, NEW j \in Int, Span(e, k, i, j),
           Ends(Peer(e)), i = Size(k)
    PROVE  stream[e] = <<>> /\ todo[Peer(e)] = <<>> /\ k \in written
<1>1. i \in Nat /\ j \in Nat /\ i <= j /\ j <= Size(k) /\ Size(k) \in Nat
  BY SpanIs
<1>2. j = Size(k)
  BY <1>1
<1>3. Run(k, i, j) = <<>> /\ Run(k, j, Size(k)) = <<>>
  BY <1>1, <1>2, RunIs
<1> QED
  BY <1>2, <1>3 DEF Span, Ends

LEMMA NextOutIs ==
    ASSUME Typed
    PROVE  /\ NextOut \in {"ack", "answer", "joined"}
           /\ Greets <=> place["client"] \in {"hello", "ackHeader", "ackBody"}
           /\ NextOut = IF Greets THEN "ack" ELSE IF program = "join" THEN "joined" ELSE "answer"
  BY DEF NextOut, Greets

LEMMA AwaitStep ==
    ASSUME IInv, Greeted \/ Asked, UNCHANGED <<programs, text, history>>
    PROVE  IInv'
<1>1. PICK where \in {"ackHeader", "answerHeader"} :
         /\ IF where = "ackHeader" THEN place["client"] = "hello" ELSE place["client"] = "request"
         /\ todo["client"] = <<>> /\ Expect("client", where, HeaderSize)
  BY DEF Greeted, Asked, SentAll
<1>2. /\ server' = server /\ program' = program /\ header' = header /\ key' = key /\ text' = text
      /\ acted' = acted /\ written' = written /\ result' = result
      /\ programs' = programs /\ history' = history
  BY DEF Greeted, Asked, programs, history
<1>3. /\ Typed /\ Knows /\ ActsOnWhole /\ Ends("client")
      /\ ~closed["client"] => ToClient
      /\ ~closed["server"] => ToServer
  BY EndIs DEF IInv
<1>4. ~closed["client"] /\ closed' = closed /\ stream' = stream /\ todo' = todo
  BY <1>1, <1>3 DEF Ends, Over, Expect
<1>5. /\ Typed' /\ \A x \in End : Ends(x)'
      /\ place'["client"] = where /\ place'["server"] = place["server"]
      /\ Held("client")' = <<>> /\ (Nothing("server") => Nothing("server")')
      /\ \A k \in Kind : UnderWay("server", k) => UnderWay("server", k)'
  <2>1. HeaderSize \in Nat
    BY DEF HeaderSize
  <2> QED
    BY <1>1, <1>2, <1>3, <1>4, <2>1, ClientExpects DEF Typed
<1>6. /\ NextIn' = NextIn /\ NextOut' = NextOut /\ Greets' = Greets /\ SameKey' = SameKey
      /\ Sending => Sending'
      /\ Greeting => Greeting'
      /\ Asking => Asking'
  BY <1>1, <1>2, <1>5 DEF NextIn, NextOut, Greets, SameKey, Sending, Greeting, Asking, Over
<1>7. Held("client") = <<>> /\ Start("client")' = Start("client")
  BY <1>1, <1>5 DEF Held, Start, Reads, Bodies
<1>8. ToClient'
  <2>1. PICK k \in Kind : k = NextOut /\ (Replied(k) \/ Silent)
    BY <1>1, <1>3, <1>4 DEF ToClient, Cut, Bodies
  <2>2. UnderWay("client", k) => UnderWay("client", k)'
    BY <1>2, <1>4, <1>5, <1>7, Undisturbed, EndIs
  <2>3. Replied(k) => Replied(k)'
    BY <1>2, <1>4, <1>5, <1>6, <2>2 DEF Replied
  <2>4. Silent => Silent'
    BY <1>1, <1>2, <1>4, <1>5, <1>6 DEF Silent, Nothing
  <2> QED
    BY <1>6, <2>1, <2>3, <2>4 DEF ToClient
<1>9. ASSUME ~closed'["server"] PROVE ToServer'
  <2>1. PICK k \in Kind : k = NextIn /\ (Comes(k) \/ Cut("server") \/ Rests \/ Serves(k) \/ Answers)
    BY <1>3, <1>4, <1>9 DEF ToServer
  <2>2. ~Cut("server")
    BY <1>3, <1>4, EndIs DEF Cut, Ends
  <2>3. Comes(k) => Comes(k)'
    BY <1>2, <1>4, <1>5, <1>6 DEF Comes
  <2>4. (Rests => Rests') /\ (Answers => Answers')
    BY <1>2, <1>4, <1>5, <1>6 DEF Rests, Answers
  <2>5. Serves(k) => Serves(k)'
    <3>1. buf'["server"] = buf["server"]
      BY <1>1, <1>3, EndIs DEF Expect, Typed
    <3> QED
      BY <1>2, <1>4, <1>5, <1>6, <3>1 DEF Serves
  <2> QED
    BY <1>6, <2>1, <2>2, <2>3, <2>4, <2>5 DEF ToServer
<1>10. Knows' /\ ActsOnWhole'
  <2>1. place["client"] \notin Over /\ place'["client"] \notin Over
    BY <1>1, <1>5 DEF Over
  <2> QED
    BY <1>1, <1>2, <1>3, <1>4, <1>5, <1>6, <2>1 DEF Knows, ActsOnWhole, Over
<1> QED
  BY <1>5, <1>8, <1>9, <1>10 DEF IInv

LEMMA ReadAckHeaderStep ==
    ASSUME IInv, ReadAckHeader, UNCHANGED <<programs, text, history>>
    PROVE  IInv'
<1>1. /\ place["client"] = "ackHeader" /\ ret["client"] # Waiting
      /\ programs' = programs /\ text' = text /\ history' = history
      /\ server' = server /\ program' = program /\ acted' = acted /\ written' = written
  BY DEF ReadAckHeader, Received, programs, history
<1>2. /\ Typed /\ Knows /\ ActsOnWhole /\ Ends("client") /\ Ends("server")
      /\ ~closed["server"] => ToServer
      /\ ~closed["client"] => ToClient
  BY EndIs DEF IInv
<1>3. /\ ~closed["client"] /\ todo["client"] = <<>> /\ need["client"] = 5 /\ RecvN("client")
      /\ Greets /\ NextOut = "ack" /\ program = "rider" /\ text = "none"
  BY <1>1, <1>2 DEF Ends, Over, Writes, Reads, Due, HeaderSize, Greets, NextOut, Knows
<1>4. PICK l \in Nat :
         /\ Len(buf["client"]) <= l /\ Len(buf["client"]) >= l
         /\ \/ ret["client"] = 5 /\ l = 5
            \/ closed["server"] /\ stream["client"] = <<>> /\ ret["client"] \in {l, -1} /\ l < 5
  BY <1>1, <1>2, <1>3, Returned, EndIs
<1>5. CASE closed["server"] /\ Leave("failed")
  BY <1>1, <1>2, <1>3, <1>5, ClientCloses DEF Leave, Over, reading
<1>6. CASE ret["client"] <= 0 /\ Leave("failed")
  <2>1. closed["server"]
    BY <1>4, <1>6
  <2> QED
    BY <1>5, <1>6, <2>1
<1>7. ASSUME ret["client"] > 0, NEW h \in Headers(buf["client"]),
             IF h.type = "ack"
             THEN Expect("client", "ackBody", BodySize) /\ UNCHANGED <<header, key, result>>
             ELSE Leave("failed")
      PROVE  IInv'
  <2>1. buf["client"] \in Seq(Piece) /\ Held("client") = buf["client"] /\ Start("client") = 0
    BY <1>1, <1>2, EndIs DEF Typed, Held, Start, Reads, Bodies
  <2>2. buf["client"] # <<>>
    <3>1. ASSUME buf["client"] = <<>> PROVE FALSE
      <4>1. Len(buf["client"]) <= 0
        BY <3>1
      <4> QED
        BY <1>4, <1>7, <2>1, <4>1
    <3> QED
      BY <3>1
  <2>3. Replied("ack")
    BY <1>1, <1>2, <1>3, <2>1, <2>2 DEF ToClient, Cut, Silent, Nothing, Bodies
  <2>4. PICK i, j \in Int : Span("client", "ack", i, j)
    BY <2>3 DEF Replied, UnderWay
  <2>5. "ack" \in Kind /\ Size("ack") = 7
    BY SentIs
  <2>6. /\ i \in Nat /\ j \in Nat /\ i <= j /\ j <= 7
        /\ buf["client"] = Run("ack", 0, i) /\ stream["client"] = Run("ack", i, j)
    BY <2>1, <2>4, <2>5, SpanIs, EndIs DEF Span
  <2>7. i = l /\ i \in 1..5
    <3>1. Len(buf["client"]) <= i /\ Len(buf["client"]) >= i
      BY <2>5, <2>6, RunHas
    <3>2. Run("ack", 0, 0) = <<>>
      BY <2>5, RunIs
    <3> QED
      BY <1>4, <2>1, <2>2, <2>6, <3>1, <3>2
  <2>8. i # 5 => closed["server"] /\ stream["client"] = <<>> /\ place["server"] = "killed"
    BY <1>2, <1>4, <2>4, <2>5, <2>6, <2>7, CutOff, EndIs
  <2>9. h \in Headers(Run("ack", 0, i))
    BY <1>7, <2>6
  <2>10. i = 5 => h.type = "ack"
    BY <2>5, <2>7, <2>9, HeaderIs, SentIs
  <2>11. CASE h.type # "ack"
    BY <1>5, <1>7, <2>8, <2>10, <2>11
  <2>12. CASE h.type = "ack"
    <3>1. /\ Expect("client", "ackBody", BodySize) /\ header' = header /\ key' = key /\ result' = result
          /\ closed' = closed /\ stream' = stream /\ todo' = todo
      BY <1>7, <2>12 DEF Expect
    <3>2. /\ Typed' /\ \A x \in End : Ends(x)'
          /\ place'["client"] = "ackBody" /\ place'["server"] = place["server"] /\ need'["client"] = 2
          /\ Held("client")' = <<>> /\ (Nothing("server") => Nothing("server")')
      <4>1. BodySize \in Nat /\ BodySize = 2
        BY DEF BodySize
      <4> QED
        BY <1>1, <1>2, <1>3, <3>1, <4>1, ClientExpects DEF Typed
    <3>3. NextIn' = NextIn /\ NextOut' = NextOut /\ Greets' /\ Greeting' /\ SameKey' = SameKey
      BY <1>1, <1>3, <3>1, <3>2 DEF NextIn, NextOut, Greets, Greeting, SameKey
    <3>4. ToClient'
      <4>1. CASE i = 5
        <5>1. Start("client")' = 5
          BY <3>2 DEF Start, Bodies, HeaderSize
        <5>2. Run("ack", 5, 5) = <<>>
          BY <2>5, RunIs
        <5>3. Span("client", "ack", 5, j)'
          BY <1>1, <2>4, <2>5, <2>6, <3>1, <3>2, <4>1, <5>1, <5>2, EndIs DEF Span
        <5>4. UnderWay("client", "ack")'
          BY <2>6, <5>3 DEF UnderWay
        <5>5. Replied("ack")'
          BY <1>3, <2>3, <3>1, <3>2, <3>3, <5>4 DEF Replied
        <5> QED
          BY <1>3, <2>5, <3>3, <5>5 DEF ToClient
      <4>2. CASE i # 5
        <5>1. todo["server"] = <<>>
          BY <1>2, <2>8, <4>2 DEF Ends
        <5>2. Cut("client")'
          BY <2>8, <3>1, <3>2, <4>2, <5>1, EndIs DEF Cut, Nothing, Bodies, Over
        <5> QED
          BY <1>3, <2>5, <2>8, <3>2, <3>3, <4>2, <5>2 DEF ToClient
      <4> QED
        BY <4>1, <4>2
    <3>5. ASSUME ~closed'["server"] PROVE ToServer'
      <4>1. PICK k \in Kind : k = NextIn /\ (Comes(k) \/ Cut("server") \/ Rests \/ Serves(k) \/ Answers)
        BY <1>2, <3>1, <3>5 DEF ToServer
      <4>2. place["server"] \in {"ack", "header"} /\ key["server"] = "agreed"
        BY <1>2, <1>3, <2>3, <3>1, <3>5 DEF Replied, Ends
      <4>3. ~Comes(k)
        BY <1>1, <1>3, <4>2 DEF Comes, Sending, NextIn, Over
      <4>4. Nothing("server")
        BY <4>1, <4>2, <4>3 DEF Cut, Bodies, Rests, Serves, Answers
      <4>5. Rests' \/ Answers'
        BY <3>1, <3>2, <3>3, <4>2, <4>4 DEF Rests, Answers
      <4> QED
        BY <3>3, <4>1, <4>5 DEF ToServer
    <3>6. Knows' /\ ActsOnWhole'
      BY <1>1, <1>2, <1>3, <3>1, <3>2, <3>3 DEF Knows, ActsOnWhole, Over
    <3> QED
      BY <3>2, <3>4, <3>5, <3>6 DEF IInv
  <2> QED
    BY <2>11, <2>12
<1> QED
  BY <1>6, <1>7 DEF ReadAckHeader

LEMMA ReadAckBodyStep ==
    ASSUME IInv, ReadAckBody, UNCHANGED <<programs, text, history>>
    PROVE  IInv'
<1>1. /\ place["client"] = "ackBody" /\ ret["client"] # Waiting
      /\ programs' = programs /\ text' = text /\ history' = history
      /\ server' = server /\ program' = program /\ acted' = acted /\ written' = written
  BY DEF ReadAckBody, Received, programs, history
<1>2. /\ Typed /\ Knows /\ ActsOnWhole /\ Ends("client") /\ Ends("server")
      /\ ~closed["server"] => ToServer
      /\ ~closed["client"] => ToClient
  BY EndIs DEF IInv
<1>3. /\ ~closed["client"] /\ todo["client"] = <<>> /\ need["client"] = 2 /\ RecvN("client")
      /\ Greets /\ NextOut = "ack" /\ program = "rider" /\ text = "none" /\ "request" \notin acted
      /\ result = "none"
  BY <1>1, <1>2
  DEF Ends, Over, Writes, Reads, Bodies, Due, BodySize, Greets, NextOut, Knows
<1>4. PICK l \in Nat :
         /\ Len(buf["client"]) <= l /\ Len(buf["client"]) >= l
         /\ \/ ret["client"] = 2 /\ l = 2
            \/ closed["server"] /\ stream["client"] = <<>> /\ ret["client"] \in {l, -1} /\ l < 2
  BY <1>1, <1>2, <1>3, Returned, EndIs
<1>5. CASE ret["client"] <= 0 /\ Leave("failed")
  <2>1. closed["server"]
    BY <1>4, <1>5
  <2> QED
    BY <1>1, <1>2, <1>3, <1>5, <2>1, ClientCloses DEF Leave, Over, reading
<1>6. CASE /\ ret["client"] > 0
           /\ key' = [key EXCEPT !["client"] = IF Whole(buf["client"], "ack") THEN "agreed" ELSE "wrong"]
           /\ Send("client", "request", "request")
           /\ UNCHANGED <<header, result>>
  <2>1. buf["client"] \in Seq(Piece) /\ Held("client") = buf["client"] /\ Start("client") = 5
    BY <1>1, <1>2, EndIs DEF Typed, Held, Start, Reads, Bodies, HeaderSize
  <2>2. buf["client"] # <<>>
    <3>1. ASSUME buf["client"] = <<>> PROVE FALSE
      <4>1. Len(buf["client"]) <= 0
        BY <3>1
      <4> QED
        BY <1>4, <1>6, <2>1, <4>1
    <3> QED
      BY <3>1
  <2>3. Replied("ack")
    BY <1>1, <1>2, <1>3, <2>1, <2>2 DEF ToClient, Cut, Silent, Nothing
  <2>4. PICK i, j \in Int : Span("client", "ack", i, j)
    BY <2>3 DEF Replied, UnderWay
  <2>5. "ack" \in Kind /\ "request" \in Kind /\ Size("ack") = 7
    BY SentIs
  <2>6. /\ i \in Nat /\ j \in Nat /\ 5 <= i /\ i <= j /\ j <= 7
        /\ buf["client"] = Run("ack", 5, i) /\ stream["client"] = Run("ack", i, j)
    BY <2>1, <2>4, <2>5, SpanIs, EndIs DEF Span
  <2>7. i = 5 + l
    <3>1. Len(buf["client"]) + 5 = i
      BY <2>5, <2>6, RunHas
    <3> QED
      BY <1>4, <2>1, <2>6, <3>1
  <2>8. i # 7 => closed["server"] /\ stream["client"] = <<>> /\ place["server"] = "killed"
    BY <1>2, <1>4, <2>4, <2>5, <2>6, <2>7, CutOff, EndIs
  <2>9. i = 7 => Whole(buf["client"], "ack")
    BY <2>5, <2>6, PacketIs
  <2>10. stream["client"] = <<>> /\ todo["server"] = <<>>
    <3>1. CASE i = 7
      BY <1>2, <2>4, <2>5, <3>1, AllCame, EndIs
    <3>2. CASE i # 7
      BY <1>2, <2>8, <3>2 DEF Ends
    <3> QED
      BY <3>1, <3>2
  <2>11. /\ key' \in [End -> {"none", "agreed", "wrong"}] /\ key'["server"] = key["server"]
         /\ key'["client"] \in {"agreed", "wrong"}
         /\ key'["client"] = "wrong" => place["server"] = "killed"
    BY <1>2, <1>6, <2>8, <2>9, EndIs DEF Typed
  <2>12. /\ Typed' /\ \A x \in End : Ends(x)'
         /\ place'["client"] = "request" /\ place'["server"] = place["server"]
         /\ todo'["server"] = todo["server"] /\ Nothing("client")'
         /\ Nothing("server") /\ place["server"] \notin Bodies => UnderWay("server", "request")'
    BY <1>1, <1>2, <1>3, <1>6, <2>5, <2>10, <2>11, ClientSends DEF Typed
  <2>13. /\ header' = header /\ result' = result /\ closed' = closed /\ ~Greets'
         /\ key["server"] = "agreed" /\ place["server"] \in Over \cup {"ack", "header"}
    BY <1>3, <1>6, <2>3, <2>12 DEF Send, Greets, Replied
  <2>14. ToClient'
    <3>1. Silent'
      BY <1>1, <1>3, <2>12, <2>13 DEF Silent
    <3>2. NextOut' = "answer" /\ "answer" \in Kind
      BY <1>1, <1>3, <2>13, SentIs DEF NextOut
    <3> QED
      BY <3>1, <3>2 DEF ToClient
  <2>15. ASSUME ~closed'["server"] PROVE ToServer'
    <3>1. PICK k \in Kind : k = NextIn /\ (Comes(k) \/ Cut("server") \/ Rests \/ Serves(k) \/ Answers)
      BY <1>2, <2>13, <2>15 DEF ToServer
    <3>2. place["server"] \in {"ack", "header"}
      BY <1>2, <2>13, <2>15 DEF Ends
    <3>3. ~Comes(k)
      BY <1>1, <1>3, <2>13 DEF Comes, Sending, NextIn, Over
    <3>4. Nothing("server")
      BY <3>1, <3>2, <3>3 DEF Cut, Bodies, Rests, Serves, Answers
    <3>5. UnderWay("server", "request")'
      BY <2>12, <3>2, <3>4 DEF Bodies
    <3>6. NextIn' = "request"
      BY <1>1, <1>3, <2>11, <2>13 DEF NextIn
    <3>7. Comes("request")'
      BY <2>10, <2>12, <3>2, <3>5, <3>6 DEF Comes, Sending
    <3> QED
      BY <2>5, <3>6, <3>7 DEF ToServer
  <2>16. Knows' /\ ActsOnWhole'
    BY <1>1, <1>2, <1>3, <2>11, <2>12, <2>13 DEF Knows, ActsOnWhole, Over
  <2> QED
    BY <2>12, <2>14, <2>15, <2>16 DEF IInv
<1> QED
  BY <1>5, <1>6 DEF ReadAckBody


LEMMA ReadAnswerHeaderStep ==
    ASSUME IInv, ReadAnswerHeader, UNCHANGED <<programs, text, history>>
    PROVE  IInv'
<1>1. /\ place["client"] = "answerHeader" /\ ret["client"] # Waiting
      /\ programs' = programs /\ text' = text /\ history' = history
      /\ server' = server /\ program' = program /\ acted' = acted /\ written' = written
  BY DEF ReadAnswerHeader, Received, programs, history
<1>2. /\ Typed /\ Knows /\ ActsOnWhole /\ Ends("client") /\ Ends("server")
      /\ ~closed["server"] => ToServer
      /\ ~closed["client"] => ToClient
  BY EndIs DEF IInv
<1>3. /\ ~closed["client"] /\ todo["client"] = <<>> /\ need["client"] = 5 /\ RecvN("client")
      /\ ~Greets /\ NextOut = IF program = "join" THEN "joined" ELSE "answer"
  BY <1>1, <1>2 DEF Ends, Over, Writes, Reads, Due, HeaderSize, Greets, NextOut
<1>4. PICK l \in Nat :
         /\ Len(buf["client"]) <= l /\ Len(buf["client"]) >= l
         /\ \/ ret["client"] = 5 /\ l = 5
            \/ closed["server"] /\ stream["client"] = <<>> /\ ret["client"] \in {l, -1} /\ l < 5
  BY <1>1, <1>2, <1>3, Returned, EndIs
<1>5. PICK k \in Kind : k = NextOut /\ (Replied(k) \/ Silent)
  BY <1>1, <1>2, <1>3 DEF ToClient, Cut, Bodies
<1>6. buf["client"] \in Seq(Piece) /\ Held("client") = buf["client"] /\ Start("client") = 0
  BY <1>1, <1>2, EndIs DEF Typed, Held, Start, Reads, Bodies
<1>7. Size(k) \in Nat /\ Size(k) >= 5
  BY SentIs
<1>8. ASSUME Replied(k)
      PROVE  \E i, j \in Nat :
                /\ i = l /\ i <= j /\ j <= Size(k) /\ Span("client", k, i, j)
                /\ buf["client"] = Run(k, 0, i) /\ stream["client"] = Run(k, i, j)
                /\ i < 5 => /\ closed["server"] /\ stream["client"] = <<>>
                            /\ place["server"] = "killed"
  <2>1. PICK i, j \in Int : Span("client", k, i, j)
    BY <1>8 DEF Replied, UnderWay
  <2>2. /\ i \in Nat /\ j \in Nat /\ i <= j /\ j <= Size(k)
        /\ buf["client"] = Run(k, 0, i) /\ stream["client"] = Run(k, i, j)
    BY <1>6, <2>1, SpanIs, EndIs DEF Span
  <2>3. i = l
    <3>1. Len(buf["client"]) <= i /\ Len(buf["client"]) >= i
      BY <2>2, RunHas
    <3> QED
      BY <1>4, <1>6, <2>2, <3>1
  <2>4. ASSUME i < 5
        PROVE  closed["server"] /\ stream["client"] = <<>> /\ place["server"] = "killed"
    <3>1. closed["server"] /\ stream["client"] = <<>> /\ i < Size(k)
      BY <1>4, <1>7, <2>2, <2>3, <2>4
    <3> QED
      BY <1>2, <2>1, <3>1, CutOff, EndIs
  <2> QED
    BY <2>1, <2>2, <2>3, <2>4
<1>9. ASSUME closed["server"], Leave("failed"), text = "confirmed" => place["server"] = "killed"
      PROVE  IInv'
  BY <1>1, <1>2, <1>3, <1>9, ClientCloses DEF Leave, Over, reading
<1>10. CASE ret["client"] <= 0 /\ Leave("failed")
  <2>1. closed["server"] /\ l < 5
    BY <1>4, <1>10
  <2>2. text = "confirmed" => place["server"] = "killed"
    <3>1. ASSUME Replied(k) PROVE place["server"] = "killed"
      BY <1>8, <2>1, <3>1
    <3>2. ASSUME Silent PROVE text = "confirmed" => place["server"] = "killed"
      BY <1>2, <2>1, <3>2 DEF Silent, Ends, Over
    <3> QED
      BY <1>5, <3>1, <3>2
  <2> QED
    BY <1>9, <1>10, <2>1, <2>2
<1>11. ASSUME ret["client"] > 0, NEW h \in Headers(buf["client"]),
              IF h.length \in 1..(MaxBody - 1)
              THEN /\ Expect("client", "answerBody", h.length)
                   /\ header' = [header EXCEPT !["client"] = h] /\ UNCHANGED <<key, result>>
              ELSE Leave("failed")
       PROVE  IInv'
  <2>1. buf["client"] # <<>>
    <3>1. ASSUME buf["client"] = <<>> PROVE FALSE
      <4>1. Len(buf["client"]) <= 0
        BY <3>1
      <4> QED
        BY <1>4, <1>6, <1>11, <4>1
    <3> QED
      BY <3>1
  <2>2. Replied(k)
    BY <1>5, <1>6, <2>1 DEF Silent, Nothing
  <2>3. PICK i, j \in Nat :
           /\ i = l /\ i <= j /\ j <= Size(k) /\ Span("client", k, i, j)
           /\ buf["client"] = Run(k, 0, i) /\ stream["client"] = Run(k, i, j)
           /\ i < 5 => /\ closed["server"] /\ stream["client"] = <<>>
                       /\ place["server"] = "killed"
    BY <1>8, <2>2
  <2>4. i \in 1..5
    <3>1. Run(k, 0, 0) = <<>>
      BY RunIs
    <3> QED
      BY <1>4, <2>1, <2>3, <3>1
  <2>5. h \in Headers(Run(k, 0, i))
    BY <1>11, <2>3
  <2>6. h \in Header /\ (i = 5 => h = Sent[k])
    BY <2>4, <2>5, HeaderIs
  <2>7. k = IF program = "join" THEN "joined" ELSE "answer"
    BY <1>3, <1>5
  <2>8. place["server"] \in Over \cup {"answer"}
    BY <1>3, <2>2 DEF Replied
  <2>9. CASE h.length \notin 1..(MaxBody - 1)
    <3>1. Leave("failed")
      BY <1>11, <2>9
    <3>2. CASE i < 5
      BY <1>9, <2>3, <3>1, <3>2
    <3>3. CASE i = 5
      <4>1. k # "answer"
        BY <2>6, <2>9, <3>3, SentIs, Room
      <4>2. program = "join" /\ text = "none"
        BY <1>2, <2>7, <4>1 DEF Knows
      <4> QED
        BY <1>1, <1>2, <1>3, <3>1, <4>2, ClientCloses DEF Leave, Over, reading
    <3> QED
      BY <2>4, <3>2, <3>3
  <2>10. CASE h.length \in 1..(MaxBody - 1)
    <3>1. /\ Expect("client", "answerBody", h.length) /\ header' = [header EXCEPT !["client"] = h]
          /\ key' = key /\ result' = result
          /\ closed' = closed /\ stream' = stream /\ todo' = todo
      BY <1>11, <2>10 DEF Expect
    <3>2. /\ header' \in [End -> Header] /\ header'["client"] = h
          /\ header'["server"] = header["server"]
          /\ h.length \in Nat /\ h.length < MaxBody /\ h.length # 0
      BY <1>2, <2>6, <2>10, <3>1, EndIs, Room DEF Typed
    <3>3. /\ Typed' /\ \A x \in End : Ends(x)'
          /\ place'["client"] = "answerBody" /\ place'["server"] = place["server"]
          /\ need'["client"] = h.length
          /\ Held("client")' = <<>> /\ (Nothing("server") => Nothing("server")')
      BY <1>1, <1>2, <1>3, <3>1, <3>2, ClientExpects
    <3>4. NextIn' = NextIn /\ NextOut' = NextOut /\ ~Greets' /\ Asking' /\ SameKey' = SameKey
      BY <1>1, <1>3, <3>1, <3>3 DEF NextIn, NextOut, Greets, Asking, SameKey
    <3>5. ToClient'
      <4>1. CASE i = 5
        <5>1. h = Sent[k] /\ k = "answer" /\ Size(k) = 7
          BY <2>6, <2>7, <3>2, <4>1, SentIs
        <5>2. Start("client")' = 5
          BY <3>3 DEF Start, Bodies, HeaderSize
        <5>3. Run(k, 5, 5) = <<>>
          BY RunIs
        <5>4. Span("client", k, 5, j)'
          BY <1>1, <2>3, <3>1, <3>3, <4>1, <5>1, <5>2, <5>3, EndIs DEF Span
        <5>5. UnderWay("client", k)'
          BY <2>3, <5>4 DEF UnderWay
        <5>6. Replied(k)'
          BY <1>3, <2>2, <3>1, <3>2, <3>3, <3>4, <5>1, <5>5 DEF Replied
        <5> QED
          BY <1>5, <3>4, <5>6 DEF ToClient
      <4>2. CASE i < 5
        <5>1. todo["server"] = <<>>
          BY <1>2, <2>3, <4>2 DEF Ends
        <5>2. Cut("client")'
          BY <2>3, <3>1, <3>2, <3>3, <4>2, <5>1, EndIs DEF Cut, Nothing, Bodies, Over
        <5> QED
          BY <1>5, <2>3, <3>3, <3>4, <4>2, <5>2 DEF ToClient
      <4> QED
        BY <2>4, <4>1, <4>2
    <3>6. ASSUME ~closed'["server"] PROVE ToServer'
      <4>1. PICK c \in Kind : c = NextIn /\ (Comes(c) \/ Cut("server") \/ Rests \/ Serves(c) \/ Answers)
        BY <1>2, <3>1, <3>6 DEF ToServer
      <4>2. place["server"] = "answer"
        BY <1>2, <2>8, <3>1, <3>6 DEF Ends
      <4>3. Nothing("server")
        BY <4>1, <4>2 DEF Comes, Cut, Bodies, Rests, Serves, Answers
      <4>4. Answers'
        BY <3>3, <3>4, <4>2, <4>3 DEF Answers
      <4> QED
        BY <3>4, <4>1, <4>4 DEF ToServer
    <3>7. Knows' /\ ActsOnWhole'
      BY <1>1, <1>2, <1>3, <3>1, <3>3, <3>4 DEF Knows, ActsOnWhole, Over
    <3> QED
      BY <3>3, <3>5, <3>6, <3>7 DEF IInv
  <2> QED
    BY <2>9, <2>10
<1> QED
  BY <1>10, <1>11 DEF ReadAnswerHeader

LEMMA ReadAnswerBodyStep ==
    ASSUME IInv, ReadAnswerBody, UNCHANGED <<programs, text, history>>
    PROVE  IInv'
<1> DEFINE Good == /\ ret["client"] > 0 /\ Whole(buf["client"], "answer")
                   /\ program = "rider" => SameKey
                   /\ text = "confirmed"
<1>1. /\ place["client"] = "answerBody" /\ ret["client"] # Waiting
      /\ Close("client", "done") /\ result' = IF Good THEN "success" ELSE "failed"
      /\ programs' = programs /\ text' = text /\ history' = history
      /\ reading' = reading /\ key' = key
  BY DEF ReadAnswerBody, Received, Leave
<1>2. Typed /\ Knows /\ Ends("client") /\ Ends("server") /\ (~closed["client"] => ToClient)
  BY EndIs DEF IInv
<1>3. /\ ~closed["client"] /\ todo["client"] = <<>> /\ need["client"] = header["client"].length
      /\ RecvN("client") /\ ~Greets /\ NextOut = IF program = "join" THEN "joined" ELSE "answer"
  BY <1>1, <1>2 DEF Ends, Over, Writes, Reads, Bodies, Due, Greets, NextOut
<1>4. PICK l \in Nat :
         /\ Len(buf["client"]) <= l /\ Len(buf["client"]) >= l
         /\ \/ ret["client"] = need["client"] /\ l = need["client"]
            \/ /\ closed["server"] /\ stream["client"] = <<>>
               /\ ret["client"] \in {l, -1} /\ l < need["client"]
  BY <1>1, <1>2, <1>3, Returned, EndIs
<1>5. PICK k \in Kind :
         /\ k = IF program = "join" THEN "joined" ELSE "answer"
         /\ Replied(k) \/ (Cut("client") /\ place["server"] = "killed")
  BY <1>1, <1>2, <1>3 DEF ToClient, Silent
<1>6. buf["client"] \in Seq(Piece) /\ Held("client") = buf["client"] /\ Start("client") = 5
  BY <1>1, <1>2, EndIs DEF Typed, Held, Start, Reads, Bodies, HeaderSize
<1>7. place["server"] \in Over => closed["server"]
  BY <1>2 DEF Ends
<1>8. CASE Cut("client") /\ place["server"] = "killed"
  <2>1. "answer" \in Kind
    BY SentIs
  <2>2. buf["client"] = Run("answer", 5, 5)
    <3>1. Run("answer", 5, 5) = <<>>
      BY <2>1, RunIs
    <3> QED
      BY <1>6, <1>8, <3>1 DEF Cut, Nothing
  <2>3. result' = "failed"
    BY <1>1, <2>1, <2>2, PacketIs
  <2> QED
    BY <1>1, <1>3, <1>7, <1>8, <2>3, ClientCloses DEF Over
<1>9. CASE Replied(k) /\ program = "join"
  <2>1. text = "none"
    BY <1>2, <1>9 DEF Knows, Typed
  <2> QED
    BY <1>1, <1>3, <1>9, <2>1, ClientCloses DEF Over
<1>10. CASE Replied(k) /\ program # "join"
  <2>1. k = "answer" /\ Size(k) = 7 /\ need["client"] = 2
    BY <1>1, <1>3, <1>5, <1>10, SentIs DEF Replied
  <2>2. PICK i, j \in Int : Span("client", k, i, j)
    BY <1>10 DEF Replied, UnderWay
  <2>3. /\ i \in Nat /\ j \in Nat /\ 5 <= i /\ i <= j /\ j <= 7 /\ buf["client"] = Run(k, 5, i)
    BY <1>6, <2>1, <2>2, SpanIs, EndIs DEF Span
  <2>4. i = 5 + l
    <3>1. Len(buf["client"]) + 5 = i
      BY <2>1, <2>3, RunHas
    <3> QED
      BY <1>4, <1>6, <2>3, <3>1
  <2>5. place["server"] \in Over \cup {"answer"}
    BY <1>3, <1>10 DEF Replied
  <2>6. CASE i = 7
    <3>1. ret["client"] > 0 /\ Whole(buf["client"], "answer") /\ "answer" \in written
      BY <1>2, <1>4, <2>1, <2>2, <2>3, <2>4, <2>6, PacketIs, AllCame, EndIs
    <3>2. text # "none" => (program = "rider" => SameKey)
      BY <1>2 DEF Knows
    <3>3. place["server"] = "answer" => text # "none"
      BY <1>2, <1>10 DEF Knows
    <3>4. CASE text = "confirmed"
      <4>1. result' = "success"
        BY <1>1, <3>1, <3>2, <3>4
      <4> QED
        BY <1>1, <1>3, <3>1, <3>4, <4>1, ClientCloses DEF Over
    <3>5. CASE text # "confirmed"
      <4>1. result' = "failed"
        BY <1>1, <3>5
      <4>2. closed["server"] \/ text = "nodriver"
        BY <1>2, <1>7, <2>5, <3>3, <3>5 DEF Typed
      <4> QED
        BY <1>1, <1>3, <3>5, <4>1, <4>2, ClientCloses DEF Over
    <3> QED
      BY <3>4, <3>5
  <2>7. CASE i < 7
    <3>1. closed["server"] /\ stream["client"] = <<>>
      BY <1>4, <2>1, <2>4, <2>7
    <3>2. place["server"] = "killed"
      BY <1>2, <2>1, <2>2, <2>7, <3>1, CutOff, EndIs
    <3>3. ~Whole(buf["client"], "answer")
      BY <2>1, <2>3, <2>7, PacketIs
    <3>4. result' = "failed"
      BY <1>1, <3>3
    <3> QED
      BY <1>1, <1>3, <3>1, <3>2, <3>4, ClientCloses DEF Over
  <2> QED
    BY <2>3, <2>6, <2>7
<1> QED
  BY <1>5, <1>8, <1>9, <1>10

-----------------------------------------------------------------------------
(***************************************************************************)
(* All steps.                                                              *)
(***************************************************************************)
LEMMA InitInv == Init => IInv
<1> SUFFICES ASSUME Init PROVE IInv
  OBVIOUS
<1>1. PICK k \in {"hello", "request", "join", "update"} : k = NextIn /\ todo["client"] = Packet(k)
  BY WireAssumption, EndIs DEF Init, NextIn
<1>2. k \in Kind /\ Size(k) = 7 /\ Packet(k) = Run(k, 0, 7) /\ Run(k, 0, 7) \in Seq(Piece)
      /\ Run(k, 0, 0) = <<>>
  <2>1. k \in Kind /\ Size(k) = 7
    BY SentIs
  <2>2. Packet(k) = Run(k, 0, 7)
    BY <2>1, PacketIs
  <2>3. Run(k, 0, 7) \in Seq(Piece)
    BY <2>1, RunHas
  <2>4. Run(k, 0, 0) = <<>>
    BY <2>1, RunIs
  <2> QED
    BY <2>1, <2>2, <2>3, <2>4
<1>3. /\ place["server"] = "header" /\ place["client"] \in {"hello", "request"}
      /\ todo["server"] = <<>> /\ todo["client"] = Run(k, 0, 7)
      /\ place["client"] = "hello" => program = "rider"
      /\ \A e \in End : /\ stream[e] = <<>> /\ need[e] = 5 /\ buf[e] = <<>> /\ ret[e] = Waiting
                        /\ ~closed[e] /\ ~broken[e] /\ key[e] = "none"
  BY <1>1, <1>2, EndIs DEF Init, HeaderSize
<1>4. Typed
  <2>1. <<>> \in Seq(Piece) /\ Sent["joined"] \in Header
    BY SentIs
  <2>2. /\ place \in [End -> {"hello", "request", "serve", "ack", "answer"} \cup Reads \cup Over]
        /\ todo \in [End -> Seq(Piece)] /\ stream \in [End -> Seq(Piece)] /\ buf \in [End -> Seq(Piece)]
    <3>1. place \in [End -> {"header", "hello", "request"}]
      BY DEF Init
    <3>2. \A e \in End : place[e] \in Reads \cup {"hello", "request"}
      BY <3>1 DEF Reads
    <3>3. todo = [e \in End |-> IF e = "server" THEN <<>> ELSE Run(k, 0, 7)]
      BY <1>2, <1>3, EndIs DEF Init
    <3>4. /\ todo \in [End -> Seq(Piece)]
          /\ stream \in [End -> Seq(Piece)] /\ buf \in [End -> Seq(Piece)]
      BY <1>2, <2>1, <3>3 DEF Init
    <3> QED
      BY <3>1, <3>2, <3>4
  <2>3. /\ need \in [End -> Nat] /\ ret \in [End -> Int] /\ header \in [End -> Header]
        /\ closed \in [End -> BOOLEAN] /\ broken \in [End -> BOOLEAN]
        /\ key \in [End -> {"none", "agreed", "wrong"}]
    BY <2>1 DEF Init, HeaderSize, Waiting
  <2> QED
    BY <1>3, <2>2, <2>3 DEF Init, Typed
<1>5. \A e \in End : Ends(e)
  <2>1. Ends("server")
    BY <1>3, EndIs DEF Ends, Over, Reads, Due, RecvN, HeaderSize
  <2>2. Ends("client")
    BY <1>3, EndIs DEF Ends, Over, Reads, Bodies, Writes
  <2> QED
    BY <2>1, <2>2, EndIs
<1>6. ToServer
  <2>1. Held("server") = <<>> /\ Start("server") = 0
    BY <1>3, EndIs DEF Held, Start, Bodies
  <2>2. Span("server", k, 0, 0)
    BY <1>2, <1>3, <2>1, EndIs DEF Span
  <2>3. UnderWay("server", k)
    BY <2>2 DEF UnderWay
  <2>4. Sending
    <3>1. place["client"] = IF program = "rider" THEN "hello" ELSE "request"
      BY EndIs DEF Init
    <3>2. NextIn = "hello" <=> program = "rider"
      BY <1>3, EndIs, WireAssumption DEF Init, NextIn
    <3> QED
      BY <3>1, <3>2 DEF Sending
  <2> QED
    BY <1>1, <1>2, <1>3, <2>3, <2>4 DEF ToServer, Comes
<1>7. ToClient
  <2>1. NextOut \in Kind
    BY SentIs DEF NextOut
  <2>2. Held("client") = <<>>
    BY <1>3 DEF Held, Reads, Bodies
  <2>3. Silent
    BY <1>3, <2>2, EndIs DEF Silent, Nothing
  <2> QED
    BY <2>1, <2>3 DEF ToClient
<1>8. Knows /\ ActsOnWhole
  BY <1>3, EndIs DEF Init, Knows, ActsOnWhole, Greets, Over
<1> QED
  BY <1>4, <1>5, <1>6, <1>7, <1>8 DEF IInv

LEMMA StutterInv ==
    ASSUME IInv, UNCHANGED vars
    PROVE  IInv'
<1>1. /\ server' = server /\ program' = program /\ place' = place /\ todo' = todo /\ stream' = stream
      /\ need' = need /\ buf' = buf /\ ret' = ret /\ header' = header
      /\ closed' = closed /\ broken' = broken /\ key' = key /\ text' = text
      /\ acted' = acted /\ written' = written /\ result' = result
  BY DEF vars, programs, reading, history
<1>2. \A e \in End : Held(e)' = Held(e) /\ Start(e)' = Start(e)
  BY <1>1 DEF Held, Start
<1>3. Greets' = Greets /\ NextIn' = NextIn /\ NextOut' = NextOut /\ SameKey' = SameKey
  BY <1>1 DEF Greets, NextIn, NextOut, SameKey
<1>4. Typed' /\ \A e \in End : Ends(e)'
  <2>1. Typed'
    BY <1>1 DEF IInv, Typed
  <2>2. ASSUME NEW e \in End PROVE Ends(e)'
    <3>1. Due(e)' = Due(e)
      BY <1>1 DEF Due
    <3> QED
      BY <1>1, <3>1 DEF IInv, Ends, RecvN
  <2> QED
    BY <2>1, <2>2
<1>5. \A k \in Kind : \A e \in End : UnderWay(e, k) => UnderWay(e, k)'
  BY <1>1, <1>2, Undisturbed
<1>6. ~closed'["server"] => ToServer'
  <2> SUFFICES ASSUME ~closed'["server"] PROVE ToServer'
    OBVIOUS
  <2>1. PICK k \in Kind : k = NextIn /\ (Comes(k) \/ Cut("server") \/ Rests \/ Serves(k) \/ Answers)
    BY <1>1 DEF IInv, ToServer
  <2>2. (Sending => Sending') /\ (Greeting => Greeting') /\ (Asking => Asking')
    BY <1>1, <1>3 DEF Sending, Greeting, Asking
  <2>3. Nothing("server") => Nothing("server")'
    BY <1>1, <1>2, EndIs DEF Nothing
  <2>4. /\ Comes(k) => Comes(k)'
        /\ Cut("server") => Cut("server")'
        /\ Rests => Rests'
    BY <1>1, <1>5, <2>2, <2>3, EndIs DEF Comes, Cut, Rests
  <2>5. /\ Serves(k) => Serves(k)'
        /\ Answers => Answers'
    BY <1>1, <2>2, <2>3 DEF Serves, Answers
  <2> QED
    BY <1>3, <2>1, <2>4, <2>5 DEF ToServer
<1>7. ~closed'["client"] => ToClient'
  <2> SUFFICES ASSUME ~closed'["client"] PROVE ToClient'
    OBVIOUS
  <2>1. PICK k \in Kind : k = NextOut /\ (Replied(k) \/ (Cut("client") /\ place["server"] = "killed") \/ Silent)
    BY <1>1 DEF IInv, ToClient
  <2>2. Nothing("client") => Nothing("client")'
    BY <1>1, <1>2, EndIs DEF Nothing
  <2>3. /\ Replied(k) => Replied(k)'
        /\ Cut("client") => Cut("client")'
        /\ Silent => Silent'
    BY <1>1, <1>3, <1>5, <2>2, EndIs DEF Replied, Cut, Silent
  <2> QED
    BY <1>1, <1>3, <2>1, <2>3 DEF ToClient
<1>8. Knows' /\ ActsOnWhole'
  BY <1>1, <1>3 DEF IInv, Knows, ActsOnWhole
<1> QED
  BY <1>4, <1>6, <1>7, <1>8 DEF IInv

LEMMA NextInv == IInv /\ [Next]_vars => IInv'
<1> SUFFICES ASSUME IInv, [Next]_vars PROVE IInv'
  OBVIOUS
<1>1. ASSUME NEW e \in End, Transport(e) PROVE IInv'
  BY <1>1, WriteStep, WriteFailsStep, ReadStep, ReadEndStep DEF Transport
<1>2. ASSUME NEW e \in End, Kill(e) PROVE IInv'
  BY <1>2, KillStep
<1>3. CASE ClientStep
  BY <1>3, TimeOutStep, AwaitStep, ReadAckHeaderStep, ReadAckBodyStep, ReadAnswerHeaderStep,
     ReadAnswerBodyStep DEF ClientStep
<1>4. CASE ServerStep
  BY <1>4, ReadHeaderStep, ReadBodyStep, HandshakeStep, HandshakeDoneStep, HangUpStep, RideStep,
     JoinStep, IgnoreStep DEF ServerStep
<1>5. CASE UNCHANGED vars
  BY <1>5, StutterInv
<1> QED
  BY <1>1, <1>2, <1>3, <1>4, <1>5 DEF Next

LEMMA Invariant == Spec => []IInv
  BY InitInv, NextInv, PTL DEF Spec

-----------------------------------------------------------------------------
(***************************************************************************)
(* What the buffers hold.                                                  *)
(***************************************************************************)
Sizes ==
    \A e \in End :
        /\ need[e] <= Max({HeaderSize, MaxBody})
        /\ Len(buf[e]) <= need[e]
        /\ ret[e] \in {Waiting, -1} \cup 0..need[e]

LEMMA MaxIs ==
    LET m == Max({HeaderSize, MaxBody}) IN m \in Nat /\ HeaderSize <= m /\ MaxBody <= m
<1>1. \A a, b \in Int : \E m \in {a, b} : \A y \in {a, b} : m >= y
  OBVIOUS
<1>2. \A a, b \in Int : Max({a, b}) \in {a, b} /\ Max({a, b}) >= a /\ Max({a, b}) >= b
  BY <1>1 DEF Max
<1> QED
  BY <1>2, Room DEF HeaderSize

LEMMA ExpectSizes ==
    ASSUME Typed, Sizes, NEW e \in End, NEW where, NEW n \in Nat, Expect(e, where, n),
           n <= HeaderSize \/ n <= MaxBody
    PROVE  Sizes'
<1>1. n <= Max({HeaderSize, MaxBody})
  BY MaxIs, Room DEF HeaderSize
<1>2. Len(<<>>) <= n
  OBVIOUS
<1>3. ASSUME NEW x \in End
      PROVE  /\ need'[x] <= Max({HeaderSize, MaxBody})
             /\ Len(buf'[x]) <= need'[x]
             /\ ret'[x] \in {Waiting, -1} \cup 0..need'[x]
  <2>1. CASE x = e
    <3>1. need'[x] = n /\ buf'[x] = <<>> /\ ret'[x] = IF n = 0 THEN 0 ELSE Waiting
      BY <2>1 DEF Typed, Expect
    <3> QED
      BY <1>1, <1>2, <3>1
  <2>2. CASE x # e
    <3>1. need'[x] = need[x] /\ buf'[x] = buf[x] /\ ret'[x] = ret[x]
      BY <2>2 DEF Typed, Expect
    <3> QED
      BY <3>1 DEF Sizes
  <2> QED
    BY <2>1, <2>2
<1> QED
  BY <1>3 DEF Sizes

LEMMA ReadSizes ==
    ASSUME Typed, Sizes, NEW e \in End, Read(e)
    PROVE  Sizes'
<1>1. PICK n \in 1..Min({need[e] - Len(buf[e]), Len(stream[e])}) :
         /\ buf' = [buf EXCEPT ![e] = @ \o SubSeq(stream[e], 1, n)]
         /\ ret' = [ret EXCEPT ![e] = IF Len(buf'[e]) = need[e] THEN need[e] ELSE Waiting]
  BY DEF Read
<1>2. /\ need' = need /\ need \in [End -> Nat] /\ buf \in [End -> Seq(Piece)]
      /\ ret \in [End -> Int] /\ stream[e] \in Seq(Piece)
  BY DEF Read, reading, Typed
<1>3. n \in Nat /\ n <= need[e] - Len(buf[e]) /\ n <= Len(stream[e])
  <2>1. need[e] - Len(buf[e]) \in Int /\ Len(stream[e]) \in Int
    BY <1>2
  <2>2. /\ Min({need[e] - Len(buf[e]), Len(stream[e])}) \in Int
        /\ Min({need[e] - Len(buf[e]), Len(stream[e])}) <= need[e] - Len(buf[e])
        /\ Min({need[e] - Len(buf[e]), Len(stream[e])}) <= Len(stream[e])
    BY <2>1, MinIs
  <2> QED
    BY <2>1, <2>2
<1>4. ASSUME NEW x \in End
      PROVE  /\ need'[x] <= Max({HeaderSize, MaxBody})
             /\ Len(buf'[x]) <= need'[x]
             /\ ret'[x] \in {Waiting, -1} \cup 0..need'[x]
  <2>1. CASE x = e
    <3> DEFINE s == SubSeq(stream[e], 1, n)
    <3>1. s \in Seq(Piece) /\ Len(s) <= n
      BY <1>2, <1>3
    <3> HIDE DEF s
    <3>2. buf'[x] = buf[e] \o s /\ ret'[x] \in {need[e], Waiting}
      BY <1>1, <1>2, <2>1 DEF s
    <3>3. Len(buf[e] \o s) = Len(buf[e]) + Len(s)
      BY <1>2, <3>1
    <3>4. Len(buf[e] \o s) <= need[e]
      BY <1>2, <1>3, <3>1, <3>3
    <3>5. need'[x] = need[e] /\ need[e] \in Nat /\ need[e] <= Max({HeaderSize, MaxBody})
      BY <1>2, <2>1 DEF Sizes
    <3>6. need[e] \in 0..need[e]
      BY <3>5
    <3> QED
      BY <3>2, <3>4, <3>5, <3>6
  <2>2. CASE x # e
    <3>1. buf'[x] = buf[x] /\ ret'[x] = ret[x]
      BY <1>1, <1>2, <2>2
    <3> QED
      BY <1>2, <3>1 DEF Sizes
  <2> QED
    BY <2>1, <2>2
<1> QED
  BY <1>4 DEF Sizes

LEMMA ReadEndSizes ==
    ASSUME Typed, Sizes, NEW e \in End, ReadEnd(e)
    PROVE  Sizes'
<1>1. PICK r \in {Len(buf[e]), -1} : ret' = [ret EXCEPT ![e] = r]
  BY DEF ReadEnd
<1>2. need' = need /\ buf' = buf /\ ret \in [End -> Int] /\ buf[e] \in Seq(Piece) /\ need[e] \in Nat
  BY DEF ReadEnd, Typed
<1>3. r \in {-1} \cup 0..need[e]
  BY <1>2 DEF Sizes
<1>4. ASSUME NEW x \in End
      PROVE  ret'[x] \in {Waiting, -1} \cup 0..need[x]
  BY <1>1, <1>2, <1>3 DEF Sizes
<1> QED
  BY <1>2, <1>4 DEF Sizes

LEMMA SizesNext == IInv /\ Sizes /\ [Next]_vars => Sizes'
<1> SUFFICES ASSUME IInv, Sizes, [Next]_vars PROVE Sizes'
  OBVIOUS
<1>1. Typed
  BY DEF IInv
<1>2. ASSUME need' = need, buf' = buf, ret' = ret PROVE Sizes'
  BY <1>2 DEF Sizes
<1>3. ASSUME NEW e \in End, NEW where, NEW n \in {HeaderSize, BodySize}, Expect(e, where, n) PROVE Sizes'
  <2>1. n \in Nat /\ n <= HeaderSize
    BY DEF HeaderSize, BodySize
  <2> QED
    BY <1>1, <1>3, <2>1, ExpectSizes
<1>4. ASSUME NEW e \in End, Transport(e) \/ Kill(e) PROVE Sizes'
  <2>1. CASE Write(e) \/ WriteFails(e) \/ Kill(e)
    BY <1>2, <2>1 DEF Write, WriteFails, Kill, reading
  <2>2. CASE Read(e)
    BY <1>1, <2>2, ReadSizes
  <2>3. CASE ReadEnd(e)
    BY <1>1, <2>3, ReadEndSizes
  <2> QED
    BY <1>4, <2>1, <2>2, <2>3 DEF Transport
<1>5. CASE ClientStep
  <2>1. CASE TimeOut
    BY <1>2, <2>1 DEF TimeOut, reading
  <2>2. CASE Greeted \/ Asked
    BY <1>3, <2>2, EndIs DEF Greeted, Asked
  <2>3. CASE ReadAckHeader
    BY <1>2, <1>3, <2>3, EndIs DEF ReadAckHeader, Leave, reading
  <2>4. CASE ReadAckBody
    BY <1>2, <2>4 DEF ReadAckBody, Leave, Send, reading
  <2>5. CASE ReadAnswerHeader
    <3>1. CASE Leave("failed")
      BY <1>2, <3>1 DEF Leave, reading
    <3>2. ASSUME NEW h, h.length \in 1..(MaxBody - 1), Expect("client", "answerBody", h.length)
          PROVE  Sizes'
      <4>1. h.length \in Nat /\ h.length <= MaxBody
        BY <3>2, Room
      <4> QED
        BY <1>1, <3>2, <4>1, ExpectSizes, EndIs
    <3> QED
      BY <2>5, <3>1, <3>2 DEF ReadAnswerHeader
  <2>6. CASE ReadAnswerBody
    BY <1>2, <2>6 DEF ReadAnswerBody, Leave, reading
  <2> QED
    BY <1>5, <2>1, <2>2, <2>3, <2>4, <2>5, <2>6 DEF ClientStep
<1>6. CASE ServerStep
  <2>1. CASE ReadHeader
    <3>1. CASE HangUp
      BY <1>2, <3>1 DEF HangUp, reading
    <3>2. ASSUME NEW h \in Headers(buf["server"]),
                 \/ UNCHANGED <<need, buf, ret>>
                 \/ h.length <= MaxBody /\ Expect("server", "body", h.length)
          PROVE  Sizes'
      <4>1. h.length \in Nat
        BY Room DEF Headers, Header
      <4> QED
        BY <1>1, <1>2, <3>2, <4>1, ExpectSizes, EndIs
    <3> QED
      BY <2>1, <3>1, <3>2 DEF ReadHeader
  <2>2. CASE ReadBody \/ Reject \/ Answered
    BY <1>2, <2>2 DEF ReadBody, Reject, Answered, HangUp, reading
  <2>3. CASE Handshake \/ Ride \/ Join
    BY <1>2, <2>3 DEF Handshake, Ride, Join, Send
  <2>4. CASE HandshakeDone \/ Ignore
    BY <1>2, <1>3, <2>4, EndIs DEF HandshakeDone, Ignore, HangUp, reading
  <2> QED
    BY <1>6, <2>1, <2>2, <2>3, <2>4 DEF ServerStep
<1>7. CASE UNCHANGED vars
  BY <1>2, <1>7 DEF vars, reading
<1> QED
  BY <1>4, <1>5, <1>6, <1>7 DEF Next

LEMMA SizesInvariant == Spec => []Sizes
<1>1. Init => Sizes
  <2> SUFFICES ASSUME Init, NEW e \in End
               PROVE  /\ need[e] <= Max({HeaderSize, MaxBody})
                      /\ Len(buf[e]) <= need[e]
                      /\ ret[e] \in {Waiting, -1} \cup 0..need[e]
    BY DEF Sizes
  <2>1. need[e] = HeaderSize /\ buf[e] = <<>> /\ ret[e] = Waiting
    BY DEF Init
  <2>2. Len(<<>>) <= HeaderSize
    BY DEF HeaderSize
  <2> QED
    BY <2>1, <2>2, MaxIs
<1> QED
  BY <1>1, Invariant, SizesNext, PTL DEF Spec

-----------------------------------------------------------------------------
(***************************************************************************)
(* The theorems.                                                           *)
(***************************************************************************)
\* The shape of the state, for every size of the buffers: no recv_n of a body, and no
\* end of string behind an answer, goes past the 1024 bytes its caller has for it
\* (dispatcher.c:117, client_core.c:150-152), whatever length a header gives.
THEOREM TypeCorrect == Spec => []TypeOK
<1>1. IInv /\ Sizes => TypeOK
  <2> SUFFICES ASSUME IInv, Sizes PROVE TypeOK
    OBVIOUS
  <2>1. ASSUME NEW e \in End
        PROVE  /\ need[e] \in 0..Max({HeaderSize, MaxBody})
               /\ place[e] = "body" => need[e] <= MaxBody
               /\ place[e] = "answerBody" => need[e] < MaxBody
               /\ Len(buf[e]) <= need[e]
               /\ ret[e] \in {Waiting, -1} \cup 0..need[e]
               /\ (place[e] \in Over <=> closed[e])
    <3>1. Ends(e) /\ need[e] \in Nat
      BY DEF IInv, Typed
    <3>2. need[e] \in 0..Max({HeaderSize, MaxBody})
      <4>1. PICK m \in Nat : m = Max({HeaderSize, MaxBody})
        BY MaxIs
      <4>2. need[e] <= m
        BY <4>1 DEF Sizes
      <4> QED
        BY <3>1, <4>1, <4>2
    <3> QED
      BY <3>1, <3>2 DEF Ends, Sizes
  <2> QED
    BY <2>1 DEF IInv, Typed, TypeOK
<1> QED
  BY <1>1, Invariant, SizesInvariant, PTL

\* However the writes and reads cut the packets and whoever dies: what handle_client
\* and handle_client_insecure act on was written to the end.  They read on after a
\* header that is cut (dispatcher.c:115), but a packet with a body has a length whose
\* first byte is not zero, so a body is waited for, and that does not come.
THEOREM ActsOnWholeAlways == Spec => []ActsOnWhole
<1>1. IInv => ActsOnWhole
  BY DEF IInv
<1> QED
  BY <1>1, Invariant, PTL

\* The stream stays in step: recv_n takes what a header asks for and no more
\* (net_wrapper.c), so what the next one begins with is the first byte of a length.
THEOREM AlignedAlways == Spec => []Aligned
<1>1. IInv => Aligned
  <2> SUFFICES ASSUME IInv, NEW e \in End, place[e] \in {"header", "ackHeader", "answerHeader"},
                      buf[e] = <<>>, stream[e] # <<>>
               PROVE  Head(stream[e])[2] = 1
    BY DEF Aligned
  <2>1. ~closed[e] /\ Typed
    BY DEF IInv, Ends
  <2>2. PICK k \in Kind : UnderWay(e, k)
    <3>1. CASE e = "server"
      BY <2>1, <3>1 DEF IInv, ToServer, Comes, Cut, Rests, Serves, Answers, Nothing
    <3>2. CASE e = "client"
      BY <2>1, <3>2 DEF IInv, ToClient, Replied, Cut, Silent, Nothing
    <3> QED
      BY <3>1, <3>2, EndIs
  <2>3. PICK i, j \in Int : Span(e, k, i, j)
    BY <2>2 DEF UnderWay
  <2>4. Held(e) = <<>> /\ Start(e) = 0
    BY DEF Held, Start, Reads, Bodies
  <2>5. i \in Nat /\ j \in Nat /\ i <= j /\ Run(k, 0, i) = <<>> /\ stream[e] = Run(k, i, j)
    BY <2>3, <2>4, SpanIs DEF Span
  <2>6. i = 0
    <3>1. ~(0 < i)
      BY <2>5, RunIs
    <3> QED
      BY <2>5, <3>1
  <2>7. j # 0
    <3>1. Run(k, 0, 0) = <<>>
      BY RunIs
    <3> QED
      BY <2>5, <2>6, <3>1
  <2>8. Run(k, 0, j)[1] = <<k, 1>> /\ Run(k, 0, j) \in Seq(Piece)
    <3>1. 1 \in 1..(j - 0) /\ 0 + 1 = 1
      BY <2>5, <2>7
    <3> QED
      BY <2>5, <3>1, RunHas
  <2>9. Head(stream[e]) = <<k, 1>>
    BY <2>5, <2>6, <2>8
  <2> QED
    BY <2>9
<1> QED
  BY <1>1, Invariant, PTL

\* A client says "success" for a ride the server confirmed and whose answer was written
\* to the end, and for such a ride it says nothing else, unless a process was killed or
\* it gave up waiting (client_core.c:147-168): of a server that was not killed every
\* packet comes whole, and the two keys are the same.
THEOREM ToldWholeAlways == Spec => []ToldWhole
<1>1. IInv => ToldWhole
  <2> SUFFICES ASSUME IInv
               PROVE  /\ result = "success" => text = "confirmed" /\ "answer" \in written
                      /\ text = "confirmed" /\ (\A e \in End : place[e] = "done") =>
                            result \in {"success", "silence"}
    BY DEF ToldWhole
  <2>1. Knows /\ Typed
    BY DEF IInv
  <2>2. result = "success" => text = "confirmed" /\ "answer" \in written
    BY <2>1 DEF Knows
  <2>3. ASSUME text = "confirmed", \A e \in End : place[e] = "done"
        PROVE  result \in {"success", "silence"}
    <3>1. place["client"] = "done" /\ place["server"] = "done"
      BY <2>3, EndIs
    <3>2. result # "none" /\ result # "failed"
      BY <2>1, <2>3, <3>1 DEF Knows
    <3> QED
      BY <2>1, <3>2 DEF Typed
  <2> QED
    BY <2>2, <2>3
<1> QED
  BY <1>1, Invariant, PTL

\* perform_dh_handshake takes any body that is not empty for a public key
\* (client_core.c:84); a key made of a cut one is wrong, but it was the death of the
\* server process that cut it, and no request is served with that key.
THEOREM CutKeyIdleAlways == Spec => []CutKeyIdle
<1>1. IInv => CutKeyIdle
  BY DEF IInv, Knows, CutKeyIdle
<1> QED
  BY <1>1, Invariant, PTL
=============================================================================
