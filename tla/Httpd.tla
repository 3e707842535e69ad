--------------------------------- MODULE Httpd ---------------------------------
(***************************************************************************)
(* src/bin/httpd.c: one process that serves one connection after the       *)
(* other, with the clients that connect, ask, read and leave when they     *)
(* like. The sockets, the files and the descriptor table are the kernel's, *)
(* reached through src/libc/net.c and src/libc/syscalls.c.                 *)
(*                                                                         *)
(* A request is what the first recv() returns: it has a path to something  *)
(* that can be opened, a path to nothing, or no path between two spaces. A *)
(* request that comes in pieces is therefore of the last kind. Paths are   *)
(* short enough for the buffer they are copied to.                         *)
(***************************************************************************)
EXTENDS Integers, Sequences, FiniteSets

CONSTANTS
  Conn,      \* the connections that are ever made
  Backlog,   \* how many of them may wait: the 10 of listen()
  MaxFd,     \* the kernel's limit on open descriptors
  Inherited  \* the descriptors that init leaves to the daemon

Fd == 0 .. MaxFd - 1
Failed == -1  \* any negative result of a system call
Things == {"free", "stdio", "listener", "file"}

\* Besides those it starts with, the server needs three.
ASSUME ConnAssumption == IsFiniteSet(Conn) /\ Conn \cap Things = {} /\ Backlog \in Nat \ {0}
ASSUME FdAssumption ==
  /\ MaxFd \in Nat /\ 0 .. 2 \subseteq Inherited /\ Inherited \subseteq Fd
  /\ \E d, e, f \in Fd \ Inherited : d < e /\ e < f

VARIABLES
  pc,       \* where the server is
  fds,      \* its descriptor table
  sockfd, client_fd, fd2,  \* its variables of these names
  loaded,   \* contents is not NULL
  bound,    \* the socket listens at port 80
  queue,    \* the connections that wait to be accepted
  arrived,  \* those made so far
  request,  \* what the client has sent
  reads,    \* the clients that take what they are sent
  gone,     \* those that have closed or lost their end
  served,   \* history: the connections that the server has closed
  sent,     \* history: what it has sent on each
  short     \* history: malloc() has failed

server == <<pc, fds, sockfd, client_fd, fd2, loaded, bound>>
clients == <<arrived, request, reads, gone>>
history == <<served, sent, short>>
vars == <<server, queue, clients, history>>

Requests == {"found", "missing", "malformed"}

Init ==
  /\ pc = "start"
  /\ fds = [d \in Fd |-> IF d \in Inherited THEN "stdio" ELSE "free"]
  /\ sockfd = Failed /\ client_fd = Failed /\ fd2 = Failed
  /\ loaded = FALSE /\ bound = FALSE
  /\ queue = << >> /\ arrived = {}
  /\ request = [c \in Conn |-> "none"] /\ reads = {} /\ gone = {}
  /\ served = {} /\ sent = [c \in Conn |-> << >>] /\ short = FALSE

(***************************************************************************)
(* The clients, and the kernel on their behalf.                            *)
(***************************************************************************)
Connect(c) ==
  /\ bound /\ pc # "dead" /\ c \notin arrived /\ Len(queue) < Backlog
  /\ arrived' = arrived \cup {c} /\ queue' = Append(queue, c)
  /\ UNCHANGED <<server, request, reads, gone, history>>

\* What a client does when its connection has been closed matters to nobody.
Present == arrived \ (gone \cup served)

Ask(c) ==
  /\ c \in Present /\ request[c] = "none"
  /\ \E r \in Requests : request' = [request EXCEPT ![c] = r]
  /\ UNCHANGED <<server, queue, arrived, reads, gone, history>>

Read(c) ==
  /\ c \in Present \ reads /\ request[c] = "found" /\ reads' = reads \cup {c}
  /\ UNCHANGED <<server, queue, arrived, request, gone, history>>

Leave(c) ==
  /\ c \in Present /\ gone' = gone \cup {c}
  /\ UNCHANGED <<server, queue, arrived, request, reads, history>>

(***************************************************************************)
(* The server.                                                             *)
(***************************************************************************)
Free == {d \in Fd : fds[d] = "free"}
Lowest(d) == d \in Free /\ \A e \in Free : d <= e

\* close() of a number that is not open does nothing.
Close(d) == fds' = IF d \in Fd THEN [fds EXCEPT ![d] = "free"] ELSE fds

Peer == fds[client_fd]

\* Only -1 counts as an error, which as -errno is EPERM. Whatever else has failed,
\* there is no socket that clients could reach, and accept() fails for ever.
Start ==
  /\ pc = "start"
  /\ \/ pc' = "dead" /\ UNCHANGED <<fds, sockfd, bound>>
     \/ pc' = "accept" /\ UNCHANGED <<fds, sockfd, bound>>
     \/ /\ pc' = "accept" /\ bound' \in BOOLEAN
        /\ \E d \in Fd : Lowest(d) /\ sockfd' = d /\ fds' = [fds EXCEPT ![d] = "listener"]
  /\ UNCHANGED <<client_fd, fd2, loaded, queue, clients, history>>

Accept ==
  /\ pc = "accept"
  /\ IF ~bound \/ Free = {}
     THEN client_fd' = Failed /\ UNCHANGED <<fds, queue>>
     ELSE /\ queue # << >> /\ queue' = Tail(queue)
          /\ \E d \in Fd : /\ Lowest(d) /\ client_fd' = d
                          /\ fds' = [fds EXCEPT ![d] = Head(queue)]
  /\ pc' = "recv"
  /\ UNCHANGED <<sockfd, fd2, loaded, bound, clients, history>>

\* Mutant: recv() is called again when it has returned nothing.
RecvAgain ==
  /\ pc = "recv" /\ client_fd # Failed
  /\ \/ request[Peer] = "malformed" /\ pc' = "bad"
     \/ request[Peer] \in {"found", "missing"} /\ pc' = "open"
  /\ UNCHANGED <<fds, sockfd, client_fd, fd2, loaded, bound, queue, clients, history>>

\* What was asked before the client left may be lost with the connection.
Recv ==
  /\ pc = "recv"
  /\ \/ client_fd = Failed /\ pc' = "close" /\ UNCHANGED short
     \/ /\ client_fd # Failed
        /\ \/ Peer \in gone /\ pc' = "close" /\ UNCHANGED short
           \/ request[Peer] # "none" /\ pc' = "close" /\ short' = TRUE
           \/ request[Peer] = "malformed" /\ pc' = "bad" /\ UNCHANGED short
           \/ request[Peer] \in {"found", "missing"} /\ pc' = "open" /\ UNCHANGED short
  /\ UNCHANGED <<fds, sockfd, client_fd, fd2, loaded, bound, queue, clients, served, sent>>

\* Without memory for the path, strcpy() faults.
Open ==
  /\ pc = "open"
  /\ \/ pc' = "dead" /\ short' = TRUE /\ UNCHANGED <<fds, fd2>>
     \/ /\ request[Peer] = "found"
        /\ \E d \in Fd : /\ Lowest(d) /\ fd2' = d /\ fds' = [fds EXCEPT ![d] = "file"]
                        /\ pc' = IF d = 0 THEN "bad" ELSE "load"
        /\ UNCHANGED short
     \/ /\ request[Peer] = "missing" \/ Free = {}
        /\ fd2' = Failed /\ pc' = "bad" /\ UNCHANGED <<fds, short>>
  /\ UNCHANGED <<sockfd, client_fd, loaded, bound, queue, clients, served, sent>>

\* Mutant: the connection is closed instead of the file.
LoadClosesConn ==
  /\ pc = "load"
  /\ loaded' = TRUE
  /\ Close(client_fd) /\ pc' = "head"
  /\ UNCHANGED <<sockfd, client_fd, fd2, bound, queue, clients, history>>

\* fstat(), malloc(), read() and the first close(). A read that fails leaves
\* the block as it came from the kernel, zeros.
Load ==
  /\ pc = "load"
  /\ \/ loaded' = TRUE /\ UNCHANGED short
     \/ loaded' = FALSE /\ short' = TRUE
  /\ Close(fd2) /\ pc' = "head"
  /\ UNCHANGED <<sockfd, client_fd, fd2, bound, queue, clients, served, sent>>

\* Nobody handles the signal that a client that has gone may cause.
Send(piece, next) ==
  /\ \/ sent' = [sent EXCEPT ![Peer] = Append(@, piece)] /\ pc' = next
     \/ Peer \in gone /\ pc' = "dead" /\ UNCHANGED sent
  /\ UNCHANGED <<fds, sockfd, client_fd, fd2, loaded, bound, queue, clients, served, short>>

SendHead == pc = "head" /\ Send("head", "body")

\* Mutant: answered stays false.
SendBodyUnnoted ==
  /\ pc = "body" /\ Peer \in reads \cup gone /\ Send("body", "bad")

\* A body that is larger than the kernel's buffers waits for its reader.
SendBody ==
  /\ pc = "body"
  /\ \/ loaded /\ Peer \in reads \cup gone /\ Send("body", "again")
     \/ ~loaded /\ pc' = "again"
        /\ UNCHANGED <<fds, sockfd, client_fd, fd2, loaded, bound, queue, clients, history>>

\* The second close(fd2).
CloseAgain ==
  /\ pc = "again" /\ Close(fd2) /\ pc' = "close"
  /\ UNCHANGED <<sockfd, client_fd, fd2, loaded, bound, queue, clients, history>>

SendBad == pc = "bad" /\ Send("bad", "close")

\* Mutant: a connection that has not been answered is not closed.
CloseAnswered ==
  /\ pc = "close" /\ pc' = "accept"
  /\ IF client_fd # Failed /\ sent[Peer] # << >>
     THEN Close(client_fd) /\ served' = served \cup {Peer}
     ELSE UNCHANGED <<fds, served>>
  /\ UNCHANGED <<sockfd, client_fd, fd2, loaded, bound, queue, clients, sent, short>>

CloseConn ==
  /\ pc = "close" /\ pc' = "accept"
  /\ Close(client_fd)
  /\ served' = IF client_fd = Failed THEN served ELSE served \cup {Peer}
  /\ UNCHANGED <<sockfd, client_fd, fd2, loaded, bound, queue, clients, sent, short>>

Server ==
  \/ Start \/ Accept \/ Recv \/ Open \/ Load \/ SendHead \/ SendBody \/ CloseAgain
  \/ SendBad \/ CloseConn

Next == Server \/ \E c \in Conn : Connect(c) \/ Ask(c) \/ Read(c) \/ Leave(c)

Spec == Init /\ [][Next]_vars /\ WF_vars(Server)

-----------------------------------------------------------------------------
(* Properties *)

Serving == {"recv", "open", "load", "head", "body", "again", "bad", "close"}

\* Every variable has its type; while it serves a connection the server's
\* descriptor is that of a connection, and while it serves a file, of a file.
TypeOK ==
  /\ pc \in Serving \cup {"start", "accept", "dead"}
  /\ fds \in [Fd -> Things \cup Conn]
  /\ sockfd \in Fd \cup {Failed} /\ client_fd \in Fd \cup {Failed} /\ fd2 \in Fd \cup {Failed}
  /\ loaded \in BOOLEAN /\ bound \in BOOLEAN /\ short \in BOOLEAN
  /\ queue \in Seq(Conn) /\ Len(queue) <= Backlog
  /\ arrived \subseteq Conn /\ reads \subseteq arrived /\ gone \subseteq arrived
  /\ served \subseteq arrived
  /\ request \in [Conn -> {"none"} \cup Requests]
  /\ sent \in [Conn -> Seq({"head", "body", "bad"})]
  /\ pc \in Serving => client_fd = Failed \/ Peer \in Conn
  /\ pc = "load" => fds[fd2] = "file"

\* Between two connections the server has the descriptors it started with and
\* its socket, whatever happened to the connections before: none is lost, and
\* the second close(fd2) has hit nobody else's.
DescriptorsKept ==
  pc = "accept" =>
    fds = [d \in Fd |-> IF d \in Inherited THEN "stdio"
                        ELSE IF d = sockfd THEN "listener" ELSE "free"]

\* A connection is sent one answer and never a second, and unless the client has
\* gone or memory is short, it is the whole answer to its own request before the
\* server closes it: the lookup never lacks a descriptor for the file.
Answer(r) == IF r = "found" THEN <<"head", "body">> ELSE <<"bad">>
AnsweredOnce ==
  \A c \in Conn :
    /\ sent[c] \in {<< >>, <<"head">>, <<"head", "body">>, <<"bad">>}
    /\ c \in served \ gone /\ ~short => sent[c] = Answer(request[c])

\* The client that the server waits for: it has asked for nothing yet, or does
\* not take what it is sent.
Blocked ==
  \/ pc = "recv" /\ client_fd # Failed /\ Peer \notin gone /\ request[Peer] = "none"
  \/ pc = "body" /\ Peer \notin gone \cup reads

\* As long as no client keeps the server waiting for ever, every connection is
\* served, in whatever way the ones before it went wrong, or the server has died.
EveryoneServed ==
  []<>~Blocked => \A c \in Conn : (c \in arrived) ~> (c \in served \/ pc = "dead")

=============================================================================
