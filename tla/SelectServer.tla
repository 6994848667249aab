---------------------------- MODULE SelectServer ----------------------------
(***************************************************************************)
(* The server of network/TcpServer.cpp, built where there is no epoll, for *)
(* one call of Start and of Stop.  Run waits in select() for what is in    *)
(* mMasterSet up to the descriptor mMaxSd, and then makes as many passes   *)
(* over the same working_set as select() counted descriptors.  The builds  *)
(* that compile this file (CMakeLists.txt:114-120) do not define           *)
(* USE_UNIX_OS, so it has no pipe: Stop only closes the listeners.         *)
(*                                                                         *)
(* Descriptors are numbers: 1 and 2 the listeners, from 3 on the           *)
(* connections, 0 for -1.  UpdateClients forgets a connection without      *)
(* closing it, so that no number is used twice.  The listeners are read by *)
(* Run and closed by Stop without a lock.  NewConnection and ClientClosed  *)
(* are called by Run, ReadData is left to the workers of mPool.            *)
(***************************************************************************)
EXTENDS Naturals, FiniteSets, Sequences, FiniteSetsExt

CONSTANTS
  Clients, WsClients,   \* peers; those that use the WebSocket port
  MAXRECV,              \* the bytes one Recv can take
  MaxBytes              \* bound: bytes the peers send, together

ASSUME SelectAssumption == /\ IsFiniteSet(Clients) /\ WsClients \subseteq Clients
                           /\ MAXRECV \in Nat \ {0} /\ MaxBytes \in Nat

VARIABLES
  link,        \* per peer: "new", "backlog", "open" (accepted), "reset"
  rx,          \* bytes in the socket's buffer
  sent,        \* ghost: bytes the peers have sent
  fin,         \* the peer has shut down
  fd,          \* descriptor of the connection, 0 before it is accepted
  lsn,         \* listeners that are open
  server,      \* "start", "setTcp", "setWs", "loop" before select(), "blocked" in it,
               \* "scan", "end", "done"
  mMasterSet, mMaxSd,
  working,     \* working_set
  passes,      \* passes over working_set still to make
  mClients,    \* per peer: "absent", "Closed", "Connected", "DeleteLater"
  app,         \* "up", "closeTcp", "closeWs", "join", "down"
  posted,      \* per peer: the ReadData in mPool that have not been run
  seen         \* ghost: per peer, the callbacks the application has got

vars == <<link, rx, sent, fin, fd, lsn, server, mMasterSet, mMaxSd,
          working, passes, mClients, app, posted, seen>>
peerVars == <<link, rx, sent, fin>>
setVars == <<mMasterSet, mMaxSd, mClients, fd, posted, seen>>

Tcp == 1
Ws == 2
Servers == {Tcp, Ws}
Port(c) == IF c \in WsClients THEN Ws ELSE Tcp
Listed == {c \in Clients : mClients[c] # "absent"}

Init ==
  /\ link = [c \in Clients |-> "new"]
  /\ rx = [c \in Clients |-> 0] /\ sent = 0 /\ fd = rx /\ posted = rx
  /\ fin = [c \in Clients |-> FALSE]
  /\ lsn = Servers
  /\ server = "start"
  /\ mMasterSet = {} /\ mMaxSd = 0 /\ working = {} /\ passes = 0
  /\ mClients = [c \in Clients |-> "absent"]
  /\ app = "up"
  /\ seen = [c \in Clients |-> <<>>]

-----------------------------------------------------------------------------
(* Peers.                                                                   *)

PeerConnect(c) == link[c] = "new" /\ Port(c) \in lsn
                  /\ link' = [link EXCEPT ![c] = "backlog"] /\ UNCHANGED <<rx, sent, fin>>
PeerSend(c) == link[c] \in {"backlog", "open"} /\ ~fin[c] /\ sent < MaxBytes
               /\ rx' = [rx EXCEPT ![c] = @ + 1] /\ sent' = sent + 1
               /\ UNCHANGED <<link, fin>>
PeerShutdown(c) == link[c] \in {"backlog", "open"} /\ fin' = [fin EXCEPT ![c] = TRUE]
                   /\ UNCHANGED <<link, rx, sent>>
PeerReset(c) == link[c] = "open" /\ link' = [link EXCEPT ![c] = "reset"]
                /\ rx' = [rx EXCEPT ![c] = 0] /\ UNCHANGED <<sent, fin>>

PeerStep(c) ==
  /\ PeerConnect(c) \/ PeerSend(c) \/ PeerShutdown(c) \/ PeerReset(c)
  /\ UNCHANGED <<fd, lsn, server, mMasterSet, mMaxSd, working, passes,
                 mClients, app, posted, seen>>

-----------------------------------------------------------------------------
(* Run.                                                                     *)

\* UpdateMaxSocket: the listeners that are open and the clients.
MaxSocket(clients, fds) == Max(lsn \cup {0} \cup {fds[c] : c \in clients})

\* The limit is set before each listener is looked at again for mMasterSet.
SetUp ==
  /\ server = "start" /\ server' = "setTcp"
  /\ mMasterSet' = {}
  /\ mMaxSd' = MaxSocket({}, fd)
  /\ UNCHANGED <<peerVars, fd, lsn, working, passes, mClients, app, posted, seen>>

Watch(f, from, to) ==
  /\ server = from /\ server' = to
  /\ mMasterSet' = mMasterSet \cup ({f} \cap lsn)
  /\ UNCHANGED <<peerVars, fd, lsn, mMaxSd, working, passes, mClients, app, posted, seen>>

SetTcp == Watch(Tcp, "setTcp", "setWs")
SetWs == Watch(Ws, "setWs", "loop")

Readable(f) ==
  \/ f \in lsn /\ \E c \in Clients : link[c] = "backlog" /\ Port(c) = f
  \/ \E c \in Clients : fd[c] = f /\ (rx[c] > 0 \/ fin[c] \/ link[c] = "reset")

Watched == {f \in mMasterSet : f <= mMaxSd}
ReadyFds == {f \in Watched : Readable(f)}

\* Stop has closed a listener that select() was or is about to be given.
BadFd == \E f \in Watched : f \in Servers \ lsn


\* select() fails on it, at once or out of its wait; the loop ends.
SelectFails ==
  /\ server \in {"loop", "blocked"} /\ BadFd
  /\ server' = "end"
  /\ UNCHANGED <<peerVars, lsn, working, passes, setVars, app>>

SelectBlocks ==
  /\ server = "loop" /\ ~BadFd
  /\ server' = "blocked"
  /\ UNCHANGED <<peerVars, lsn, working, passes, setVars, app>>

SelectReturns ==
  /\ server = "blocked" /\ ReadyFds # {}
  /\ server' = "scan"
  /\ working' = ReadyFds /\ passes' = Cardinality(ReadyFds)
  /\ UNCHANGED <<peerVars, lsn, setVars, app>>

\* IncommingConnection accepts all of the backlog of the listeners in
\* working_set, on the next free descriptors; the connections it accepts.
Accepted == {c \in Clients : link[c] = "backlog" /\ Port(c) \in lsn \cap working}

\* IncommingData: without data the connection is marked; a WebSocket peer's
\* handshake may fail, its frame may be any.  outcome is what the bytes are.
Outcomes == {"good", "bad", "close"}
\* Mutant of StateAfter: a connection without data is kept.
StateKept(c, outcome) ==
  IF c \in WsClients /\ rx[c] > 0 THEN "Connected" ELSE mClients[c]

StateAfter(c, outcome) ==
  CASE rx[c] = 0 -> "DeleteLater"
    [] rx[c] > 0 /\ c \notin WsClients -> mClients[c]
    [] rx[c] > 0 /\ c \in WsClients /\ mClients[c] = "Closed" ->
         IF outcome = "good" THEN "Connected" ELSE "Closed"
    [] rx[c] > 0 /\ c \in WsClients /\ mClients[c] # "Closed" ->
         IF outcome = "close" THEN "DeleteLater" ELSE mClients[c]

\* Mutant of CallsOf: the end of the stream is reported here too.
CallsWithClosed(c, outcome) == IF rx[c] = 0 THEN <<"ClientClosed">> ELSE <<>>

\* The callback made at once: a WebSocket connection is announced when its
\* handshake is done.
CallsOf(c, outcome) ==
  IF rx[c] > 0 /\ c \in WsClients /\ mClients[c] = "Closed" /\ outcome = "good"
  THEN <<"NewConnection">> ELSE <<>>

\* The ReadData posted for what was received; the bytes of a handshake that
\* failed count as data.
PostsOf(c, outcome) ==
  CASE rx[c] = 0 -> 0
    [] rx[c] > 0 /\ c \notin WsClients -> 1
    [] rx[c] > 0 /\ c \in WsClients /\ mClients[c] = "Closed" -> IF outcome = "good" THEN 0 ELSE 1
    [] rx[c] > 0 /\ c \in WsClients /\ mClients[c] # "Closed" -> IF outcome = "good" THEN 1 ELSE 0

\* Recv takes what is there, and MAXRECV bytes of it at most.
LeftAfterRecv(c) == rx[c] - Min({rx[c], MAXRECV})

\* Mutant of Remaining: the mask is not updated for clients that left.
RemainingAll(leaving) == mMasterSet

\* FD_CLR in UpdateClients.
Remaining(leaving) == mMasterSet \ {fd[c] : c \in leaving}

\* One turn of the for loop: accept, receive from every listed connection that
\* is in working_set, UpdateClients with UpdateMaxSocket.
Pass ==
  /\ server = "scan" /\ passes > 0
  /\ \E number \in [Accepted -> 1..Cardinality(Accepted)],
        outcome \in [Clients -> Outcomes] :
       LET old == Max({Ws} \cup {fd[c] : c \in Clients})
           scanned == {c \in Listed : fd[c] \in working}
           after == [c \in Clients |-> IF c \in Accepted THEN "Closed"
                                       ELSE IF c \in scanned THEN StateAfter(c, outcome[c])
                                       ELSE mClients[c]]
           leaving == {c \in Clients : after[c] = "DeleteLater"}
           stay == {c \in Clients : after[c] \notin {"absent", "DeleteLater"}}
       IN  /\ \A c, d \in Accepted : number[c] = number[d] => c = d
           /\ \A c \in Clients : c \notin scanned \cap WsClients => outcome[c] = "good"
           /\ fd' = [c \in Clients |-> IF c \in Accepted THEN old + number[c] ELSE fd[c]]
           /\ mClients' = [c \in Clients |-> IF c \in leaving THEN "absent" ELSE after[c]]
           /\ mMasterSet' = Remaining(leaving) \cup {fd'[c] : c \in Accepted}
           /\ mMaxSd' = MaxSocket(stay, fd')
           /\ posted' = [c \in Clients |->
                posted[c] + (IF c \in scanned THEN PostsOf(c, outcome[c]) ELSE 0)]
           /\ seen' = [c \in Clients |->
                seen[c]
                \o (IF c \in Accepted \ WsClients THEN <<"NewConnection">> ELSE <<>>)
                \o (IF c \in scanned THEN CallsOf(c, outcome[c]) ELSE <<>>)
                \o (IF c \in leaving THEN <<"ClientClosed">> ELSE <<>>)]
           /\ rx' = [c \in Clients |-> IF c \in scanned THEN LeftAfterRecv(c) ELSE rx[c]]
  /\ link' = [c \in Clients |-> IF c \in Accepted THEN "open" ELSE link[c]]
  /\ passes' = passes - 1
  /\ UNCHANGED <<sent, fin, lsn, server, working, app>>

EndPasses ==
  /\ server = "scan" /\ passes = 0 /\ server' = "loop" /\ working' = {}
  /\ UNCHANGED <<peerVars, lsn, passes, setVars, app>>

\* The connections that are listed are closed; mClients keeps them.
Cleanup ==
  /\ server = "end" /\ server' = "done"
  /\ link' = [c \in Clients |-> IF c \in Listed /\ fd[c] \in mMasterSet THEN "reset" ELSE link[c]]
  /\ UNCHANGED <<rx, sent, fin, fd, lsn, mMasterSet, mMaxSd, working, passes,
                 mClients, app, posted, seen>>

ServerStep == SetUp \/ SetTcp \/ SetWs \/ SelectFails \/ SelectBlocks \/ SelectReturns \/ Pass
              \/ EndPasses \/ Cleanup

\* A worker of mPool comes to a ReadData of c; several make no order among them.
RunReadData(c) ==
  /\ posted[c] > 0 /\ posted' = [posted EXCEPT ![c] = @ - 1]
  /\ seen' = [seen EXCEPT ![c] = Append(@, "ReadData")]
  /\ UNCHANGED <<peerVars, fd, lsn, server, mMasterSet, mMaxSd, working, passes,
                 mClients, app>>

-----------------------------------------------------------------------------
(* Stop: close the listeners, join.                                         *)

AppGoes(from, to) == app = from /\ app' = to
CallStop == AppGoes("up", "closeTcp") /\ UNCHANGED lsn
StopClosesTcp == AppGoes("closeTcp", "closeWs") /\ lsn' = lsn \ {Tcp}
StopClosesWs == AppGoes("closeWs", "join") /\ lsn' = lsn \ {Ws}
StopJoins == AppGoes("join", "down") /\ server = "done" /\ UNCHANGED lsn

AppStep == /\ CallStop \/ StopClosesTcp \/ StopClosesWs \/ StopJoins
           /\ UNCHANGED <<peerVars, server, working, passes, setVars>>

Next == ServerStep \/ AppStep \/ \E c \in Clients : PeerStep(c) \/ RunReadData(c)

Spec == Init /\ [][Next]_vars
FairSpec == Spec /\ WF_vars(ServerStep) /\ WF_vars(app # "up" /\ AppStep)

-----------------------------------------------------------------------------

\* Every variable has its type.
TypeOK ==
  /\ link \in [Clients -> {"new", "backlog", "open", "reset"}]
  /\ rx \in [Clients -> 0..sent] /\ sent \in 0..MaxBytes
  /\ lsn \subseteq Servers /\ mMaxSd \in 0..(2 + Cardinality(Clients))
  /\ server \in {"start", "setTcp", "setWs", "loop", "blocked", "scan", "end", "done"}
  /\ mClients \in [Clients -> {"absent", "Closed", "Connected", "DeleteLater"}]
  /\ app \in {"up", "closeTcp", "closeWs", "join", "down"}

\* Whatever was accepted or left in a pass, select() is given exactly the
\* descriptors of the listed connections besides the listeners,
\* each connection has its own, and all of them are in reach of mMaxSd.
SetsMatchClients ==
  TypeOK /\ (server # "start" =>
    /\ mMasterSet \ Servers = {fd[c] : c \in Listed}
    /\ \A c \in Listed : fd[c] <= mMaxSd
    /\ \A c, d \in Listed : fd[c] = fd[d] => c = d)

\* What the application sees of a plain connection: NewConnection first and once,
\* ClientClosed once and when it is not listed any more.  Workers may come to its
\* ReadData after that, but only to those that were posted before.
Reported(c) == \E i \in 1..Len(seen[c]) : seen[c][i] = "ClientClosed"
SeenInOrder ==
  \A c \in Clients \ WsClients : \A i \in 1..Len(seen[c]) :
    /\ (seen[c][i] = "NewConnection") <=> (i = 1)
    /\ seen[c][i] = "ClientClosed" =>
         c \notin Listed /\ \A j \in 1..Len(seen[c]) : seen[c][j] = "ClientClosed" => j = i
NoneAfterClose == \A c \in Clients \ WsClients : Reported(c) => posted'[c] <= posted[c]
SelectCallbackOrder == [][SeenInOrder' /\ NoneAfterClose]_vars

\* select() reports what is left in a socket again: a shutdown or a reset of a
\* listed connection is noticed, behind any data, or the server ends.
ShutdownNoticed ==
  \A c \in Clients : (c \in Listed /\ (fin[c] \/ link[c] = "reset"))
                       ~> (c \notin Listed \/ server \in {"end", "done"})


\* ClientClosed is "Called when a client has closed its connection"
\* (TcpServer.h:67).
ClosedByClient ==
  \A c \in Clients \ WsClients :
    Reported(c) => fin[c] \/ link[c] = "reset"
=============================================================================
