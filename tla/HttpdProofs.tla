----------------------------- MODULE HttpdProofs ------------------------------
(***************************************************************************)
(* Proofs about Httpd, for any number of connections and any table that    *)
(* has room for the socket, one connection and one file. The invariant     *)
(* accounts for every descriptor and for what each connection was sent at  *)
(* each point of the server's loop.                                        *)
(***************************************************************************)
EXTENDS Httpd, SequenceTheorems, TLAPS

\* What a descriptor is between two connections.
Resting(d) ==
  IF d \in Inherited THEN "stdio" ELSE IF d = sockfd THEN "listener" ELSE "free"

Busy == pc \in Serving /\ client_fd # Failed

\* All descriptors are at rest but the connection's and, while it is read, the
\* file's.
TableSound ==
  /\ sockfd \notin Inherited /\ (bound => sockfd \in Fd) /\ (pc = "start" => sockfd = Failed)
  /\ pc # "dead" => \A d \in Fd :
       (Busy /\ d = client_fd) \/ (pc = "load" /\ d = fd2) \/ fds[d] = Resting(d)
  /\ Busy => client_fd \notin Inherited \cup {sockfd} /\ Peer \in Conn
  /\ pc \in Serving \ {"recv", "close"} => client_fd # Failed
  /\ pc \in {"load", "head", "body", "again"} =>
       fd2 \in Fd /\ fd2 \notin Inherited \cup {sockfd, client_fd}
  /\ pc = "load" => fds[fd2] = "file"

\* A connection is queued or served, and only once.
OnceEach ==
  /\ \A i \in 1 .. Len(queue) : queue[i] \in arrived \ served
  /\ \A i, j \in 1 .. Len(queue) : queue[i] = queue[j] => i = j
  /\ Busy => Peer \in arrived \ served /\ \A i \in 1 .. Len(queue) : queue[i] # Peer

\* The server knows what was asked.
Asked ==
  /\ pc = "open" => request[Peer] \in {"found", "missing"}
  /\ pc \in {"load", "head", "body", "again"} => request[Peer] = "found"
  /\ pc = "bad" => request[Peer] \in {"missing", "malformed"}

Sendings == {<< >>, <<"head">>, <<"head", "body">>, <<"bad">>}

Answered(c) ==
  c \in gone \/ short \/ (request[c] # "none" /\ sent[c] = Answer(request[c]))

\* What has been sent on the connection that is being served, and on the others.
SentSoFar ==
  /\ \A c \in Conn : sent[c] \in Sendings
  /\ \A c \in served : Answered(c)
  /\ \A c \in Conn \ served : (Busy /\ c = Peer) \/ pc = "dead" \/ sent[c] = << >>
  /\ Busy /\ pc \in {"recv", "open", "load", "head", "bad"} => sent[Peer] = << >>
  /\ pc \in {"head", "body"} => loaded \/ short
  /\ pc = "body" => sent[Peer] = <<"head">>
  /\ pc = "again" => Answered(Peer)
  /\ pc = "close" /\ Busy => Answered(Peer)

IInv == TypeOK /\ TableSound /\ OnceEach /\ Asked /\ SentSoFar

USE ConnAssumption, FdAssumption DEF Fd, Failed

-----------------------------------------------------------------------------

LEMMA IInvInit == Init => IInv
<1> SUFFICES ASSUME Init PROVE IInv
  OBVIOUS
<1>1. TypeOK
  <2>1. fds \in [Fd -> Things \cup Conn]
    BY DEF Init, Things
  <2>2. queue \in Seq(Conn) /\ Len(queue) <= Backlog
    BY DEF Init
  <2>3. sent \in [Conn -> Seq({"head", "body", "bad"})]
    BY DEF Init
  <2> QED
    BY <2>1, <2>2, <2>3 DEF Init, TypeOK, Serving
<1>2. TableSound
  BY DEF Init, TableSound, Resting, Busy, Serving
<1>3. OnceEach /\ Asked /\ SentSoFar
  BY DEF Init, OnceEach, Asked, SentSoFar, Sendings, Busy, Serving
<1> QED
  BY <1>1, <1>2, <1>3 DEF IInv

\* Besides the socket and the connection, a third descriptor is free.
LEMMA RoomForFile ==
  ASSUME TypeOK, TableSound, pc = "open"
  PROVE  Free # {}
<1>1. PICK d, e, f \in Fd \ Inherited : d < e /\ e < f
  OBVIOUS
<1>2. PICK g \in {d, e, f} : g # sockfd /\ g # client_fd
  BY <1>1
<1>3. fds[g] = Resting(g)
  BY <1>1, <1>2 DEF TableSound
<1> QED
  BY <1>1, <1>2, <1>3 DEF Free, Resting

\* A descriptor that is free is none of those that the server keeps.
LEMMA FreeIsNew ==
  ASSUME TypeOK, TableSound, pc # "dead", NEW d \in Free
  PROVE  d \in Fd \ Inherited /\ d # sockfd /\ (Busy => d # client_fd)
BY DEF Free, TypeOK, TableSound, Resting, Busy, Serving, Things, Peer

-----------------------------------------------------------------------------
\* The clients.

LEMMA ConnectKeeps ==
  ASSUME IInv, NEW c \in Conn, Connect(c)
  PROVE  IInv'
<1> USE DEF IInv, Connect, server, clients, history, Busy, Serving, Peer
<1>1. TypeOK'
  BY DEF TypeOK, TableSound, Things, Requests
<1>2. TableSound'
  BY DEF TypeOK, TableSound, OnceEach, Asked, Resting
<1>3. OnceEach'
  <2>1. queue' = Append(queue, c) /\ c \notin arrived /\ served \subseteq arrived
    BY DEF TypeOK
  <2>2. \A i \in 1 .. Len(queue) : queue'[i] = queue[i] /\ queue[i] # c
    BY <2>1 DEF TypeOK, OnceEach
  <2>3. Len(queue') = Len(queue) + 1 /\ queue'[Len(queue) + 1] = c /\ Len(queue) \in Nat
    BY <2>1 DEF TypeOK
  <2>4. \A i \in 1 .. Len(queue') : i = Len(queue) + 1 \/ i \in 1 .. Len(queue)
    BY <2>3
  <2>5. \A i \in 1 .. Len(queue') : queue'[i] \in (arrived \ served)'
    BY <2>1, <2>2, <2>3, <2>4 DEF OnceEach
  <2>6. \A i, j \in 1 .. Len(queue') : queue'[i] = queue'[j] => i = j
    BY <2>2, <2>3, <2>4 DEF OnceEach
  <2>7. Busy' => /\ Peer' \in (arrived \ served)'
                 /\ \A i \in 1 .. Len(queue') : queue'[i] # Peer'
    BY <2>1, <2>2, <2>3, <2>4 DEF OnceEach
  <2> QED
    BY <2>5, <2>6, <2>7 DEF OnceEach
<1>4. Asked'
  BY DEF TypeOK, TableSound, OnceEach, Asked, Requests
<1>5. SentSoFar'
  BY DEF TypeOK, TableSound, OnceEach, Asked, SentSoFar, Sendings, Answered, Answer
<1> QED
  BY <1>1, <1>2, <1>3, <1>4, <1>5

LEMMA AskKeeps ==
  ASSUME IInv, NEW c \in Conn, Ask(c)
  PROVE  IInv'
<1> USE DEF IInv, Ask, Present, server, clients, history, Busy, Serving, Peer
<1>1. TypeOK'
  BY DEF TypeOK, TableSound, Things, Requests
<1>2. TableSound'
  BY DEF TypeOK, TableSound, OnceEach, Asked, Resting
<1>3. OnceEach'
  BY DEF TypeOK, TableSound, OnceEach
<1>4. Asked'
  BY DEF TypeOK, TableSound, OnceEach, Asked, Requests
<1>5. SentSoFar'
  <2>1. \A e \in served : Answered(e)'
    BY DEF TypeOK, SentSoFar, Answered
  <2>2. ASSUME Busy, pc \in {"again", "close"} PROVE Answered(Peer)'
    <3>1. Peer \in Conn /\ Answered(Peer)
      BY <2>2 DEF TableSound, SentSoFar
    <3>2. Peer' = Peer /\ gone' = gone /\ short' = short /\ sent' = sent
      OBVIOUS
    <3>3. CASE Peer = c
      <4>1. c \notin gone /\ request[c] = "none"
        OBVIOUS
      <4>2. short'
        BY <3>1, <3>2, <3>3, <4>1 DEF Answered
      <4> QED
        BY <4>2, Zenon DEF Answered
    <3>4. CASE Peer # c
      <4>1. request'[Peer] = request[Peer]
        BY <3>1, <3>4 DEF TypeOK
      <4> QED
        BY <4>1, <3>1, <3>2 DEF Answered
    <3> QED
      BY <3>3, <3>4
  <2> QED
    BY <2>1, <2>2 DEF TypeOK, TableSound, SentSoFar, Sendings
<1> QED
  BY <1>1, <1>2, <1>3, <1>4, <1>5

LEMMA ReadKeeps ==
  ASSUME IInv, NEW c \in Conn, Read(c)
  PROVE  IInv'
<1> USE DEF IInv, Read, Present, server, clients, history, Busy, Serving, Peer
<1>1. TypeOK'
  BY DEF TypeOK, TableSound, Things, Requests
<1>2. TableSound'
  BY DEF TypeOK, TableSound, OnceEach, Asked, Resting
<1>3. OnceEach'
  BY DEF TypeOK, TableSound, OnceEach
<1>4. Asked'
  BY DEF TypeOK, TableSound, OnceEach, Asked, Requests
<1>5. SentSoFar'
  BY DEF TypeOK, TableSound, OnceEach, Asked, SentSoFar, Sendings, Answered, Answer
<1> QED
  BY <1>1, <1>2, <1>3, <1>4, <1>5

LEMMA LeaveKeeps ==
  ASSUME IInv, NEW c \in Conn, Leave(c)
  PROVE  IInv'
<1> USE DEF IInv, Leave, Present, server, clients, history, Busy, Serving, Peer
<1>1. TypeOK'
  BY DEF TypeOK, TableSound, Things, Requests
<1>2. TableSound'
  BY DEF TypeOK, TableSound, OnceEach, Asked, Resting
<1>3. OnceEach'
  BY DEF TypeOK, TableSound, OnceEach
<1>4. Asked'
  BY DEF TypeOK, TableSound, OnceEach, Asked, Requests
<1>5. SentSoFar'
  BY DEF TypeOK, TableSound, OnceEach, Asked, SentSoFar, Sendings, Answered, Answer
<1> QED
  BY <1>1, <1>2, <1>3, <1>4, <1>5

-----------------------------------------------------------------------------
\* The server.

LEMMA StartKeeps ==
  ASSUME IInv, Start
  PROVE  IInv'
<1> USE DEF IInv, Start, Lowest, server, clients, history, Busy, Serving, Peer
<1>1. TypeOK'
  BY DEF TypeOK, TableSound, Things, Requests
<1>2. TableSound'
  <2>1. CASE UNCHANGED <<fds, sockfd, bound>>
    BY <2>1 DEF TypeOK, TableSound, Resting
  <2>2. CASE \E d \in Fd : Lowest(d) /\ sockfd' = d /\ fds' = [fds EXCEPT ![d] = "listener"]
    <3>1. PICK d \in Free : sockfd' = d /\ fds' = [fds EXCEPT ![d] = "listener"]
      BY <2>2
    <3>2. d \in Fd \ Inherited
      BY <3>1, FreeIsNew
    <3>3. \A e \in Fd : fds'[e] = Resting(e)'
      BY <3>1, <3>2 DEF TypeOK, TableSound, Resting
    <3> QED
      BY <3>1, <3>2, <3>3, <2>2 DEF TableSound
  <2> QED
    BY <2>1, <2>2
<1>3. OnceEach'
  BY DEF TypeOK, TableSound, OnceEach
<1>4. Asked'
  BY DEF TypeOK, TableSound, OnceEach, Asked, Requests
<1>5. SentSoFar'
  BY DEF TypeOK, TableSound, OnceEach, Asked, SentSoFar, Sendings, Answered, Answer
<1> QED
  BY <1>1, <1>2, <1>3, <1>4, <1>5

\* The queue after its first connection has been accepted.
LEMMA TailFacts ==
  ASSUME NEW S, NEW q \in Seq(S), q # << >>
  PROVE  /\ Len(q) \in Nat \ {0} /\ Head(q) = q[1]
         /\ Tail(q) \in Seq(S) /\ Len(Tail(q)) = Len(q) - 1
         /\ \A i \in 1 .. Len(Tail(q)) : Tail(q)[i] = q[i + 1] /\ i + 1 \in 1 .. Len(q)
<1>1. Len(q) \in Nat \ {0}
  BY EmptySeq
<1>2. /\ Tail(q) \in Seq(S) /\ Len(Tail(q)) = Len(q) - 1
      /\ \A i \in 1 .. Len(Tail(q)) : Tail(q)[i] = q[i + 1]
  BY HeadTailProperties
<1>3. Head(q) = q[1]
  OBVIOUS
<1> QED
  BY <1>1, <1>2, <1>3

LEMMA AcceptKeeps ==
  ASSUME IInv, Accept
  PROVE  IInv'
<1> USE DEF IInv, Accept, clients, history, Busy, Serving
<1>1. CASE ~bound \/ Free = {}
  <2>1. TypeOK' /\ TableSound'
    BY <1>1 DEF TypeOK, TableSound, Resting
  <2>2. OnceEach' /\ Asked' /\ SentSoFar'
    BY <1>1 DEF TypeOK, OnceEach, Asked, SentSoFar, Answered
  <2> QED
    BY <2>1, <2>2
<1>2. CASE ~(~bound \/ Free = {})
  <2>1. PICK d \in Free : client_fd' = d /\ fds' = [fds EXCEPT ![d] = Head(queue)]
    BY <1>2 DEF Lowest
  <2>2. d \in Fd \ Inherited /\ d # sockfd /\ d # Failed
    BY <2>1, FreeIsNew
  <2>3. queue \in Seq(Conn) /\ queue # << >> /\ queue' = Tail(queue)
    BY <1>2 DEF TypeOK
  <2>4. /\ Len(queue) \in Nat \ {0} /\ Head(queue) = queue[1]
        /\ queue' \in Seq(Conn) /\ Len(queue') = Len(queue) - 1
    BY <2>3, TailFacts
  <2>5. \A i \in 1 .. Len(queue') : queue'[i] = queue[i + 1] /\ i + 1 \in 1 .. Len(queue)
    BY <2>3, TailFacts
  <2>6. Head(queue) \in arrived \ served /\ Head(queue) \in Conn
    BY <2>4 DEF OnceEach, TypeOK
  <2>7. Peer' = Head(queue)
    <3>1. fds \in [Fd -> Things \cup Conn]
      BY DEF TypeOK
    <3> QED
      BY <3>1, <2>1, <2>2 DEF Peer
  <2>8. TypeOK'
    <3>1. fds' \in [Fd -> Things \cup Conn]
      BY <2>1, <2>2, <2>6 DEF TypeOK
    <3>2. Len(queue') <= Backlog
      BY <2>4, Backlog \in Nat, Len(queue) <= Backlog DEF TypeOK
    <3> QED
      BY <3>1, <3>2, <2>1, <2>2, <2>3, <2>6, <2>7 DEF TypeOK
  <2>9. TableSound'
    BY <2>1, <2>2, <2>6, <2>7, <2>8 DEF TypeOK, TableSound, Resting
  <2>10. OnceEach'
    <3>1. ASSUME NEW i \in 1 .. Len(queue')
          PROVE  queue'[i] \in arrived \ served /\ queue'[i] # queue[1]
      <4>1. queue'[i] = queue[i + 1] /\ i + 1 \in 1 .. Len(queue)
        BY <2>5
      <4>2. i + 1 # 1 /\ 1 \in 1 .. Len(queue)
        BY <2>4
      <4> QED
        BY <4>1, <4>2 DEF OnceEach
    <3>2. \A i, j \in 1 .. Len(queue') : queue'[i] = queue'[j] => i = j
      BY <2>5 DEF OnceEach
    <3> QED
      BY <3>1, <3>2, <2>4, <2>6, <2>7 DEF OnceEach
  <2>11. Asked'
    BY DEF Asked
  <2>12. SentSoFar'
    <3>1. sent[Head(queue)] = << >>
      BY <2>6 DEF SentSoFar, TypeOK
    <3> QED
      BY <3>1, <2>6, <2>7 DEF SentSoFar, Answered
  <2> QED
    BY <2>8, <2>9, <2>10, <2>11, <2>12
<1> QED
  BY <1>1, <1>2

LEMMA RecvKeeps ==
  ASSUME IInv, Recv
  PROVE  IInv'
<1> USE DEF IInv, Recv, server, clients, history, Busy, Serving, Peer
<1>1. TypeOK'
  BY DEF TypeOK, TableSound, Things, Requests
<1>2. TableSound'
  BY DEF TypeOK, TableSound, OnceEach, Asked, Resting
<1>3. OnceEach'
  BY DEF TypeOK, TableSound, OnceEach
<1>4. Asked'
  BY DEF TypeOK, TableSound, OnceEach, Asked, Requests
<1>5. SentSoFar'
  <2>1. Peer' = Peer /\ (short => short')
    BY DEF TypeOK
  <2>2. \A c \in served : Answered(c)'
    BY <2>1 DEF SentSoFar, Answered
  <2>3. ASSUME pc' = "close", Busy' PROVE Answered(Peer)'
    <3>1. Peer \in gone \/ short'
      BY <2>3
    <3>2. gone' = gone
      OBVIOUS
    <3> QED
      BY <3>1, <3>2, <2>1, Zenon DEF Answered
  <2> QED
    BY <2>1, <2>2, <2>3 DEF TypeOK, TableSound, SentSoFar
<1> QED
  BY <1>1, <1>2, <1>3, <1>4, <1>5

LEMMA OpenKeeps ==
  ASSUME IInv, Open
  PROVE  IInv'
<1> USE DEF IInv, Open, clients, Busy, Serving
<1>0. Busy /\ Peer \in Conn /\ Free # {}
  BY RoomForFile DEF TableSound
<1>1. CASE fds' = fds
  <2>1. (pc' = "bad" => request[Peer] = "missing") /\ pc' \in {"bad", "dead"} /\ Peer' = Peer
    <3>1. \A d \in Free : fds[d] # "file"
      BY DEF Free
    <3>2. ~(\E d \in Fd : Lowest(d) /\ fds' = [fds EXCEPT ![d] = "file"])
      BY <1>1, <3>1 DEF Lowest, TypeOK
    <3> QED
      BY <1>0, <1>1, <3>2 DEF Peer
  <2>2. TypeOK' /\ TableSound'
    BY <1>0, <1>1, <2>1 DEF TypeOK, TableSound, Resting, Peer
  <2>3. OnceEach' /\ Asked'
    BY <1>0, <1>1, <2>1 DEF OnceEach, Asked, Peer
  <2>4. SentSoFar'
    BY <1>0, <1>1, <2>1 DEF SentSoFar, Answered, TypeOK, Peer
  <2> QED
    BY <2>2, <2>3, <2>4
<1>2. CASE fds' # fds
  <2>1. PICK d \in Free : /\ fd2' = d /\ fds' = [fds EXCEPT ![d] = "file"]
                          /\ pc' = IF d = 0 THEN "bad" ELSE "load"
    BY <1>2 DEF Lowest
  <2>2. d \in Fd \ Inherited /\ d # sockfd /\ d # client_fd
    BY <1>0, <2>1, FreeIsNew
  <2>3. pc' = "load" /\ Peer' = Peer /\ request[Peer] = "found" /\ short' = short
    BY <1>2, <2>1, <2>2 DEF TypeOK, Peer
  <2>4. TypeOK'
    BY <1>0, <2>1, <2>2, <2>3 DEF TypeOK, Things
  <2>5. TableSound'
    BY <1>0, <2>1, <2>2, <2>3 DEF TypeOK, TableSound, Resting
  <2>6. OnceEach' /\ Asked'
    BY <1>0, <2>3 DEF OnceEach, Asked
  <2>7. SentSoFar'
    BY <1>0, <2>3, <1>2 DEF SentSoFar, Answered
  <2> QED
    BY <2>4, <2>5, <2>6, <2>7
<1> QED
  BY <1>1, <1>2

LEMMA LoadKeeps ==
  ASSUME IInv, Load
  PROVE  IInv'
<1> USE DEF IInv, Load, Close, server, clients, history, Busy, Serving, Peer
<1>1. TypeOK'
  BY DEF TypeOK, TableSound, Things, Requests
<1>2. TableSound'
  BY DEF TypeOK, TableSound, OnceEach, Asked, Resting
<1>3. OnceEach'
  BY DEF TypeOK, TableSound, OnceEach
<1>4. Asked'
  BY DEF TypeOK, TableSound, OnceEach, Asked, Requests
<1>5. SentSoFar'
  BY DEF TypeOK, TableSound, OnceEach, Asked, SentSoFar, Sendings, Answered, Answer
<1> QED
  BY <1>1, <1>2, <1>3, <1>4, <1>5

\* The whole answer is its two pieces.
LEMMA TwoPieces == Append(<<"head">>, "body") = <<"head", "body">>
<1>1. <<"head">> \in Seq({"head", "body"}) /\ Len(<<"head">>) = 1
  OBVIOUS
<1>2. <<"head", "body">> \in Seq({"head", "body"}) /\ Len(<<"head", "body">>) = 2
  OBVIOUS
<1>3. Append(<<"head">>, "body") \in Seq({"head", "body"})
  BY <1>1, AppendProperties
<1>4. /\ Len(Append(<<"head">>, "body")) = 2
      /\ Append(<<"head">>, "body")[1] = "head" /\ Append(<<"head">>, "body")[2] = "body"
  BY <1>1, AppendProperties
<1>5. \A i \in 1 .. 2 : Append(<<"head">>, "body")[i] = <<"head", "body">>[i]
  BY <1>4
<1> QED
  BY <1>2, <1>3, <1>4, <1>5, SeqEqual

\* A piece that continues the answer to the connection's own request.
LEMMA SendKeeps ==
  ASSUME IInv, Busy, pc \in {"head", "body", "bad"},
         NEW piece \in {"head", "body", "bad"}, NEW next \in {"body", "again", "close"},
         Send(piece, next), pc = "bad" => next = "close",
         next # "close" => request[Peer] = "found",
         next = "body" => Append(sent[Peer], piece) = <<"head">> /\ (loaded \/ short),
         next # "body" => request[Peer] # "none" /\ Append(sent[Peer], piece) = Answer(request[Peer])
  PROVE  IInv'
<1> USE DEF Busy, Serving
<1>1. /\ UNCHANGED <<fds, sockfd, client_fd, fd2, loaded, bound, queue, served, short>>
      /\ UNCHANGED <<arrived, request, reads, gone>>
  BY DEF Send, clients
<1>2. Peer' = Peer /\ Peer \in Conn \ served
  BY <1>1 DEF IInv, Peer, TableSound, OnceEach
<1>3. \/ sent' = [sent EXCEPT ![Peer] = Append(sent[Peer], piece)] /\ pc' = next
      \/ sent' = sent /\ pc' = "dead"
  BY DEF Send
<1>4. sent \in [Conn -> Seq({"head", "body", "bad"})]
  BY DEF IInv, TypeOK
<1>5. sent' \in [Conn -> Seq({"head", "body", "bad"})]
  <2>1. Append(sent[Peer], piece) \in Seq({"head", "body", "bad"})
    BY <1>2, <1>4
  <2> QED
    BY <1>2, <1>3, <1>4, <2>1
<1>6. \A c \in Conn \ {Peer} : sent'[c] = sent[c]
  BY <1>3, <1>4
<1>7. sent'[Peer] = (IF pc' = "dead" THEN sent[Peer] ELSE Append(sent[Peer], piece))
  BY <1>2, <1>3, <1>4
<1>8. TypeOK'
  BY <1>1, <1>2, <1>3, <1>5 DEF IInv, TypeOK
<1>9. TableSound'
  BY <1>1, <1>2, <1>3 DEF IInv, TypeOK, TableSound, Resting
<1>10. OnceEach' /\ Asked'
  BY <1>1, <1>2, <1>3 DEF IInv, OnceEach, Asked
<1>11. SentSoFar'
  <2>1. \A c \in Conn : sent'[c] \in Sendings
    BY <1>2, <1>3, <1>6, <1>7 DEF IInv, SentSoFar, Sendings, Answer
  <2>2. \A c \in served : Answered(c)'
    BY <1>1, <1>2, <1>6, <1>8 DEF IInv, TypeOK, SentSoFar, Answered
  <2>3. \A c \in Conn \ served : (Busy /\ c = Peer)' \/ pc' = "dead" \/ sent'[c] = << >>
    BY <1>1, <1>2, <1>3, <1>6 DEF IInv, SentSoFar
  <2>4. pc' \in {"again", "close"} => Answered(Peer)'
    BY <1>1, <1>2, <1>3, <1>7 DEF Answered
  <2>5. pc' = "body" => sent'[Peer] = <<"head">> /\ (loaded \/ short)
    BY <1>3, <1>7
  <2> QED
    BY <1>1, <1>2, <1>3, <2>1, <2>2, <2>3, <2>4, <2>5 DEF SentSoFar
<1> QED
  BY <1>8, <1>9, <1>10, <1>11 DEF IInv

LEMMA SendHeadKeeps ==
  ASSUME IInv, SendHead
  PROVE  IInv'
<1>1. Busy /\ pc = "head" /\ Send("head", "body")
  BY DEF IInv, SendHead, TableSound, Busy, Serving
<1>2. sent[Peer] = << >> /\ request[Peer] = "found" /\ (loaded \/ short)
  BY <1>1 DEF IInv, SentSoFar, Asked
<1>3. Append(<< >>, "head") = <<"head">>
  OBVIOUS
<1> QED
  BY <1>1, <1>2, <1>3, SendKeeps

LEMMA SendBodyKeeps ==
  ASSUME IInv, SendBody
  PROVE  IInv'
<1>1. Busy /\ pc = "body" /\ sent[Peer] = <<"head">> /\ request[Peer] = "found"
  BY DEF IInv, SendBody, TableSound, SentSoFar, Asked, Busy, Serving
<1>2. CASE Send("body", "again")
  BY <1>1, <1>2, TwoPieces, SendKeeps DEF Answer
<1>3. CASE /\ ~loaded /\ pc' = "again"
           /\ UNCHANGED <<fds, sockfd, client_fd, fd2, loaded, bound, queue, clients, history>>
  <2> USE DEF clients, history
  <2>1. Peer' = Peer /\ Peer \in Conn \ served /\ Busy' /\ short
    BY <1>1, <1>3 DEF IInv, Peer, Busy, Serving, TableSound, OnceEach, SentSoFar
  <2>2. TypeOK' /\ TableSound'
    BY <1>1, <1>3, <2>1 DEF IInv, TypeOK, TableSound, Resting, Busy, Serving
  <2>3. OnceEach' /\ Asked'
    BY <1>1, <1>3, <2>1 DEF IInv, OnceEach, Asked
  <2>4. SentSoFar'
    <3>0. Answered(Peer)' /\ gone' = gone /\ sent' = sent /\ short' = short /\ request' = request
      <4>1. short' = short /\ gone' = gone /\ sent' = sent /\ request' = request
        BY <1>3
      <4> QED
        BY <4>1, <2>1, Zenon DEF Answered
    <3>1. \A c \in served : Answered(c)'
      BY <3>0 DEF IInv, SentSoFar, Answered
    <3>2. \A c \in Conn \ served : c = Peer \/ sent[c] = << >>
      BY <1>1 DEF IInv, SentSoFar
    <3> QED
      BY <1>3, <2>1, <3>0, <3>1, <3>2 DEF IInv, SentSoFar
  <2> QED
    BY <2>2, <2>3, <2>4 DEF IInv
<1> QED
  BY <1>2, <1>3 DEF SendBody

LEMMA CloseAgainKeeps ==
  ASSUME IInv, CloseAgain
  PROVE  IInv'
<1> USE DEF IInv, CloseAgain, Close, server, clients, history, Busy, Serving, Peer
<1>1. TypeOK'
  BY DEF TypeOK, TableSound, Things, Requests
<1>2. TableSound'
  BY DEF TypeOK, TableSound, OnceEach, Asked, Resting
<1>3. OnceEach'
  BY DEF TypeOK, TableSound, OnceEach
<1>4. Asked'
  BY DEF TypeOK, TableSound, OnceEach, Asked, Requests
<1>5. SentSoFar'
  BY DEF TypeOK, TableSound, OnceEach, Asked, SentSoFar, Sendings, Answered, Answer
<1> QED
  BY <1>1, <1>2, <1>3, <1>4, <1>5

LEMMA SendBadKeeps ==
  ASSUME IInv, SendBad
  PROVE  IInv'
<1>1. Busy /\ pc = "bad" /\ Send("bad", "close")
  BY DEF IInv, SendBad, TableSound, Busy, Serving
<1>2. sent[Peer] = << >> /\ request[Peer] \in {"missing", "malformed"}
  BY <1>1 DEF IInv, SentSoFar, Asked
<1>3. Append(<< >>, "bad") = <<"bad">>
  OBVIOUS
<1> QED
  BY <1>1, <1>2, <1>3, SendKeeps DEF Answer

LEMMA CloseConnKeeps ==
  ASSUME IInv, CloseConn
  PROVE  IInv'
<1> USE DEF IInv, CloseConn, Close, server, clients, history, Busy, Serving, Peer
<1>1. TypeOK'
  <2>1. fds' \in [Fd -> Things \cup Conn]
    BY DEF TypeOK, Things
  <2>2. served' \subseteq arrived
    BY DEF TypeOK, OnceEach
  <2> QED
    BY <2>1, <2>2 DEF TypeOK
<1>2. TableSound'
  BY DEF TypeOK, TableSound, OnceEach, Asked, Resting
<1>3. OnceEach'
  BY DEF TypeOK, TableSound, OnceEach
<1>4. Asked'
  BY DEF TypeOK, TableSound, OnceEach, Asked, Requests
<1>5. SentSoFar'
  BY DEF TypeOK, TableSound, OnceEach, Asked, SentSoFar, Sendings, Answered, Answer
<1> QED
  BY <1>1, <1>2, <1>3, <1>4, <1>5

-----------------------------------------------------------------------------

LEMMA IInvNext == IInv /\ [Next]_vars => IInv'
<1> SUFFICES ASSUME IInv, [Next]_vars PROVE IInv'
  OBVIOUS
<1>1. ASSUME NEW c \in Conn, Connect(c) \/ Ask(c) \/ Read(c) \/ Leave(c) PROVE IInv'
  BY <1>1, ConnectKeeps, AskKeeps, ReadKeeps, LeaveKeeps
<1>2. CASE Server
  BY <1>2, StartKeeps, AcceptKeeps, RecvKeeps, OpenKeeps, LoadKeeps, SendHeadKeeps,
     SendBodyKeeps, CloseAgainKeeps, SendBadKeeps, CloseConnKeeps DEF Server
<1>3. CASE UNCHANGED vars
  BY <1>3 DEF vars, server, clients, history, IInv, TypeOK, TableSound, OnceEach, Asked,
     SentSoFar, Answered, Resting, Busy, Peer
<1> QED
  BY <1>1, <1>2, <1>3 DEF Next

\* The server's table and what each connection was sent are accounted for at
\* every step of the loop.
THEOREM Invariant == Spec => []IInv
<1>1. Init => IInv
  BY IInvInit
<1>2. IInv /\ [Next]_vars => IInv'
  BY IInvNext
<1> QED
  BY <1>1, <1>2, PTL DEF Spec

\* Every variable of the server and of its clients keeps its type; while a file
\* is read, fd2 is that file.
THEOREM TypeCorrect == Spec => []TypeOK
<1>1. IInv => TypeOK
  BY DEF IInv
<1> QED
  BY <1>1, Invariant, PTL

\* However many connections there were before, and however they ended, the
\* server comes back to accept() with the descriptors it started with.
THEOREM KeepsDescriptors == Spec => []DescriptorsKept
<1>1. IInv => DescriptorsKept
  <2> SUFFICES ASSUME IInv, pc = "accept"
               PROVE  fds = [d \in Fd |-> Resting(d)]
    BY DEF DescriptorsKept, Resting
  <2>1. fds \in [Fd -> Things \cup Conn]
    BY DEF IInv, TypeOK
  <2>2. \A d \in Fd : fds[d] = Resting(d)
    BY DEF IInv, TableSound, Busy, Serving
  <2> QED
    BY <2>1, <2>2
<1> QED
  BY <1>1, Invariant, PTL

\* A connection never gets a second answer, nor that of another, and when it is
\* closed it has had its own, unless the client left or memory ran out.
THEOREM AnswersOnce == Spec => []AnsweredOnce
<1>1. IInv => AnsweredOnce
  BY DEF IInv, TypeOK, SentSoFar, Sendings, Answered, AnsweredOnce
<1> QED
  BY <1>1, Invariant, PTL

=============================================================================
