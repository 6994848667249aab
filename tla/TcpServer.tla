------------------------------ MODULE TcpServer ------------------------------
(***************************************************************************)
(* The server of network/TcpServerEpoll.cpp, the implementation Linux      *)
(* builds: a thread in Run that waits for edge-triggered epoll events and  *)
(* keeps mClients, an application thread that calls Start and Stop, any    *)
(* thread that calls SendToAllClients, and the peers behind the sockets.   *)
(* IEvent callbacks are tasks handed to mPool; posted keeps, per           *)
(* connection, the order in which they are handed in.                      *)
(*                                                                         *)
(* A connection is one member of Clients.  Connections of WsClients arrive *)
(* at mWsServer, the others at mTcpServer.  Descriptors of connections are *)
(* kept apart from those of the listeners and of the pipe.                 *)
(***************************************************************************)
EXTENDS Naturals, Sequences, FiniteSets

CONSTANTS
  Clients,     \* connections, each made at most once
  WsClients,   \* those made to the WebSocket port
  Fds,         \* descriptors left for connections (RLIMIT_NOFILE)
  None,        \* no connection, no listener
  MAXRECV,     \* bytes one TcpSocket::Recv takes at most
  MAXEVENTS,   \* events one epoll_wait returns at most
  MaxBytes,    \* bound: bytes a peer sends
  MaxRuns      \* bound: threads Start creates

Listeners == {"tcp", "ws"}

ASSUME ServerAssumption ==
  /\ IsFiniteSet(Clients) /\ WsClients \subseteq Clients
  /\ IsFiniteSet(Fds) /\ Fds \cap {"tcp", "ws", "pipe"} = {}
  /\ None \notin Clients \cup Fds \cup Listeners
  /\ MAXRECV \in Nat \ {0} /\ MAXEVENTS \in Nat \ {0}
  /\ MaxBytes \in Nat /\ MaxRuns \in Nat

VARIABLES
  \* kernel
  link,      \* a connection: "new", "backlog", "open", "refused", "closed"
  rx,        \* bytes that arrived and were not read
  fin,       \* the peer has shut its side down
  rst,       \* the peer has reset the connection
  owner,     \* descriptor -> the connection it denotes
  lsn,       \* mTcpServer and mWsServer are valid
  woken,     \* a byte is in the pipe of the current run
  edge,      \* sources whose edge epoll_wait has not reported yet
  \* server thread
  server,    \* where Run is, see ServerStates
  run,       \* number of threads created so far
  mClients,  \* connection -> its Conn::state, or "absent"
  fd,        \* connection -> its Conn::peer.socket
  batch,     \* events[] of the last epoll_wait, still to be handled
  accepting, \* the listener whose accept loop is running
  endServer, \* end_server
  \* application thread
  app,       \* where Start or Stop is, see AppStates
  goal,      \* the call in progress: "stop" or "start"
  mInitialized,
  mSendFd,   \* the run whose pipe it writes to, 0 for -1; never reset
  \* ghosts
  sent,      \* bytes that arrived from the peer
  delivered, \* bytes handed to ReadData
  posted,    \* callbacks handed to mPool
  shaken,    \* connections whose WebSocket handshake succeeded
  unsent,    \* connections to which a Send failed
  terminated \* number of ServerTerminated callbacks

kernelVars == <<link, rx, fin, rst, owner, lsn, woken, edge>>
serverVars == <<server, run, mClients, fd, batch, accepting, endServer>>
appVars    == <<app, goal, mInitialized, mSendFd>>
ghosts     == <<sent, delivered, posted, shaken, unsent, terminated>>
vars       == <<kernelVars, serverVars, appVars, ghosts>>

(* "off" no thread, "create" at line 132, then for a listener "test..." at   *)
(* IsValid and "add..." at epoll_ctl; "pipe" at pipe(), "addpipe" at its     *)
(* epoll_ctl; "wait" in epoll_wait; "batch" handling events, mMutex held;    *)
(* "cleanup" out of the loop; "done" Run has returned; "exit" exit(1).       *)
ServerStates == {"off", "create", "testtcp", "addtcp", "testws", "addws",
                 "pipe", "addpipe", "wait", "batch", "cleanup", "done", "exit"}

(* "idle"; Stop: "write" to the pipe, "closetcp", "closews", "join"; Start    *)
(* after its Stop: "opentcp", "openws", "spawn".                              *)
AppStates == {"idle", "write", "closetcp", "closews", "join", "opentcp",
              "openws", "spawn"}

Events == [src : Fds \cup {"tcp", "ws", "pipe"}, hup : BOOLEAN]

Listed == {c \in Clients : mClients[c] # "absent"}

Port(c) == IF c \in WsClients THEN "ws" ELSE "tcp"

Backlog(l) == {c \in Clients : link[c] = "backlog" /\ Port(c) = l}

\* Conn::IsConnected, for a Conn whose socket is valid.
IsConnected(c) == c \in WsClients => mClients[c] # "Closed"

Post(c, e) == posted' = [posted EXCEPT ![c] = Append(@, e)]

Init ==
  /\ link = [c \in Clients |-> "new"]
  /\ rx = [c \in Clients |-> 0]
  /\ fin = [c \in Clients |-> FALSE] /\ rst = [c \in Clients |-> FALSE]
  /\ owner = [f \in Fds |-> None]
  /\ lsn = [l \in Listeners |-> FALSE]
  /\ woken = FALSE /\ edge = {}
  /\ server = "off" /\ run = 0
  /\ mClients = [c \in Clients |-> "absent"]
  /\ fd = [c \in Clients |-> None]
  /\ batch = {} /\ accepting = None /\ endServer = FALSE
  /\ app = "idle" /\ goal = "stop" /\ mInitialized = FALSE /\ mSendFd = 0
  /\ sent = [c \in Clients |-> 0] /\ delivered = [c \in Clients |-> 0]
  /\ posted = [c \in Clients |-> <<>>]
  /\ shaken = {} /\ unsent = {} /\ terminated = 0

-----------------------------------------------------------------------------
(* The peers, through the kernel.  A listed connection is registered in the *)
(* epoll set of the current run; whatever arrives on it raises an edge.     *)

Arm(c) == edge' = IF c \in Listed THEN edge \cup {fd[c]} ELSE edge

PeerConnect(c) ==
  /\ link[c] = "new"
  /\ lsn[Port(c)]
  /\ link' = [link EXCEPT ![c] = "backlog"]
  /\ edge' = edge \cup {Port(c)}
  /\ UNCHANGED <<rx, fin, rst, owner, lsn, woken, serverVars, appVars, ghosts>>

PeerAlive(c) == link[c] \in {"backlog", "open"} /\ ~fin[c] /\ ~rst[c]

PeerSend(c) ==
  /\ PeerAlive(c)
  /\ sent[c] < MaxBytes
  /\ sent' = [sent EXCEPT ![c] = @ + 1]
  /\ rx' = [rx EXCEPT ![c] = @ + 1]
  /\ Arm(c)
  /\ UNCHANGED <<link, fin, rst, owner, lsn, woken, serverVars, appVars,
                 delivered, posted, shaken, unsent, terminated>>

PeerShutdown(c) ==
  /\ PeerAlive(c)
  /\ fin' = [fin EXCEPT ![c] = TRUE]
  /\ Arm(c)
  /\ UNCHANGED <<link, rx, rst, owner, lsn, woken, serverVars, appVars, ghosts>>

PeerReset(c) ==
  /\ link[c] \in {"backlog", "open"}
  /\ ~rst[c]
  /\ rst' = [rst EXCEPT ![c] = TRUE]
  /\ Arm(c)
  /\ UNCHANGED <<link, rx, fin, owner, lsn, woken, serverVars, appVars, ghosts>>

PeerStep(c) == PeerConnect(c) \/ PeerSend(c) \/ PeerShutdown(c) \/ PeerReset(c)

\* What epoll reports for a source when epoll_wait looks at it.
Ready(s) ==
  \/ s = "pipe" /\ woken
  \/ s \in Listeners /\ Backlog(s) # {}
  \/ s \in Fds /\ owner[s] # None
               /\ (rx[owner[s]] > 0 \/ fin[owner[s]] \/ rst[owner[s]])

Hup(s) == s \in Fds /\ owner[s] # None /\ rst[owner[s]]

-----------------------------------------------------------------------------
(* TcpServer::Run, the set-up of lines 132 to 187.                          *)

CreateEpoll ==
  /\ server = "create"
  /\ server' = "testtcp"
  /\ edge' = {}
  /\ UNCHANGED <<link, rx, fin, rst, owner, lsn, woken, run, mClients, fd,
                 batch, accepting, endServer, appVars, ghosts>>

\* if (mTcpServer.IsValid()), if (mWsServer.IsValid()): Stop may close the
\* listener between this test and the epoll_ctl that follows it.
TestListener ==
  /\ \/ server = "testtcp" /\ server' = IF lsn["tcp"] THEN "addtcp" ELSE "testws"
     \/ server = "testws" /\ server' = IF lsn["ws"] THEN "addws" ELSE "pipe"
  /\ UNCHANGED <<kernelVars, run, mClients, fd, batch, accepting, endServer,
                 appVars, ghosts>>

\* epoll_ctl raises an edge for what is ready, and fails on a closed socket.
AddListener ==
  /\ \/ /\ server = "addtcp"
        /\ server' = IF lsn["tcp"] THEN "testws" ELSE "exit"
        /\ edge' = IF Ready("tcp") THEN edge \cup {"tcp"} ELSE edge
     \/ /\ server = "addws"
        /\ server' = IF lsn["ws"] THEN "pipe" ELSE "exit"
        /\ edge' = IF Ready("ws") THEN edge \cup {"ws"} ELSE edge
  /\ UNCHANGED <<link, rx, fin, rst, owner, lsn, woken, run, mClients, fd,
                 batch, accepting, endServer, appVars, ghosts>>

\* pipe() fails and Run returns, or mSendFd is replaced by the new pipe's.
CreatePipe ==
  /\ server = "pipe"
  /\ \/ server' = "done" /\ UNCHANGED mSendFd
     \/ server' = "addpipe" /\ mSendFd' = run
  /\ UNCHANGED <<kernelVars, run, mClients, fd, batch, accepting, endServer,
                 app, goal, mInitialized, ghosts>>

AddPipe ==
  /\ server = "addpipe"
  /\ server' = "wait"
  /\ edge' = IF woken THEN edge \cup {"pipe"} ELSE edge
  /\ UNCHANGED <<link, rx, fin, rst, owner, lsn, woken, run, mClients, fd,
                 batch, accepting, endServer, appVars, ghosts>>

-----------------------------------------------------------------------------
(* The loop of Run.                                                         *)

\* epoll_wait returns with some of the sources that have an edge and are
\* ready, all of them when they are at most MAXEVENTS; sources that are not
\* ready any more leave the ready list.  The mutex is taken right after it:
\* SendToAllClients commutes with this step.
EpollWait ==
  /\ server = "wait"
  /\ LET ready == {s \in edge : Ready(s)} IN
       /\ ready # {}
       /\ \E got \in SUBSET ready :
            /\ \/ Cardinality(ready) <= MAXEVENTS /\ got = ready
               \/ Cardinality(ready) > MAXEVENTS /\ Cardinality(got) = MAXEVENTS
            /\ batch' = {[src |-> s, hup |-> Hup(s)] : s \in got}
            /\ edge' = ready \ got
  /\ server' = "batch"
  /\ UNCHANGED <<link, rx, fin, rst, owner, lsn, woken, run, mClients, fd,
                 accepting, endServer, appVars, ghosts>>

\* epoll_wait fails for another reason than a signal.
EpollWaitFails ==
  /\ server = "wait"
  /\ server' = "cleanup"
  /\ terminated' = terminated + 1
  /\ UNCHANGED <<kernelVars, run, mClients, fd, batch, accepting, endServer,
                 appVars, sent, delivered, posted, shaken, unsent>>

\* The next event of the batch is e.
Handling(e) ==
  /\ server = "batch"
  /\ accepting = None
  /\ e \in batch
  /\ batch' = batch \ {e}

\* Mutant of RemoveClient: a reset is logged and nothing else.
LogReset(e) ==
  /\ Handling(e)
  /\ e.hup
  /\ UNCHANGED <<kernelVars, server, run, mClients, fd, accepting, endServer,
                 appVars, ghosts>>

\* EPOLLHUP or EPOLLERR; EPOLLRDHUP is not asked for and never reported.
RemoveClient(e) ==
  /\ Handling(e)
  /\ e.hup
  /\ mClients' = [c \in Clients |-> IF c \in Listed /\ fd[c] = e.src
                                    THEN "DeleteLater" ELSE mClients[c]]
  /\ UNCHANGED <<kernelVars, server, run, fd, accepting, endServer, appVars,
                 ghosts>>

\* Mutant of PipeReadable: end_server stays false.
PipeIgnored(e) ==
  /\ Handling(e)
  /\ ~e.hup /\ e.src = "pipe"
  /\ terminated' = terminated + 1
  /\ UNCHANGED <<kernelVars, server, run, mClients, fd, accepting, endServer,
                 appVars, sent, delivered, posted, shaken, unsent>>

PipeReadable(e) ==
  /\ Handling(e)
  /\ ~e.hup /\ e.src = "pipe"
  /\ endServer' = TRUE
  /\ terminated' = terminated + 1
  /\ UNCHANGED <<kernelVars, server, run, mClients, fd, accepting, appVars,
                 sent, delivered, posted, shaken, unsent>>

\* An event of a listener that was closed since epoll_wait is skipped.
ListenerReadable(e) ==
  /\ Handling(e)
  /\ ~e.hup /\ e.src \in Listeners
  /\ accepting' = IF lsn[e.src] THEN e.src ELSE None
  /\ UNCHANGED <<kernelVars, server, run, mClients, fd, endServer, appVars,
                 ghosts>>

\* Mutant of AcceptOne: one accept per event instead of a loop.
AcceptOnlyOne ==
  /\ server = "batch"
  /\ accepting # None
  /\ lsn[accepting]
  /\ \E c \in Backlog(accepting), f \in {g \in Fds : owner[g] = None} :
       /\ link' = [link EXCEPT ![c] = "open"]
       /\ owner' = [owner EXCEPT ![f] = c]
       /\ fd' = [fd EXCEPT ![c] = f]
       /\ mClients' = [mClients EXCEPT ![c] = "Closed"]
       /\ edge' = IF rx[c] > 0 \/ fin[c] \/ rst[c] THEN edge \cup {f} ELSE edge
       /\ Post(c, "NewConnection")
  /\ accepting' = None
  /\ UNCHANGED <<rx, fin, rst, lsn, woken, server, run, batch, endServer,
                 appVars, sent, delivered, shaken, unsent, terminated>>

\* IncommingConnection, one turn of its loop in which accept succeeds.
AcceptOne ==
  /\ server = "batch"
  /\ accepting # None
  /\ lsn[accepting]
  /\ \E c \in Backlog(accepting), f \in {g \in Fds : owner[g] = None} :
       /\ link' = [link EXCEPT ![c] = "open"]
       /\ owner' = [owner EXCEPT ![f] = c]
       /\ fd' = [fd EXCEPT ![c] = f]
       /\ mClients' = [mClients EXCEPT ![c] = "Closed"]
       /\ edge' = IF rx[c] > 0 \/ fin[c] \/ rst[c] THEN edge \cup {f} ELSE edge
       /\ \/ c \in WsClients /\ UNCHANGED posted
          \/ c \notin WsClients /\ Post(c, "NewConnection")
  /\ UNCHANGED <<rx, fin, rst, lsn, woken, server, run, batch, accepting,
                 endServer, appVars, sent, delivered, shaken, unsent,
                 terminated>>

\* accept fails: nobody is waiting, the listener was closed, or there is no
\* descriptor left.  The loop ends in each case.
AcceptNone ==
  /\ server = "batch"
  /\ accepting # None
  /\ \/ ~lsn[accepting]
     \/ Backlog(accepting) = {}
     \/ \A f \in Fds : owner[f] # None
  /\ accepting' = None
  /\ UNCHANGED <<kernelVars, server, run, mClients, fd, batch, endServer,
                 appVars, ghosts>>

SetState(c, s) == mClients' = [mClients EXCEPT ![c] = s]

\* Mutant of RecvNothing: a shutdown ends the connection before its data are
\* read.
RecvSeesShutdown(c) ==
  /\ rx[c] = 0 \/ fin[c]
  /\ SetState(c, "DeleteLater")
  /\ UNCHANGED <<rx, delivered, posted, shaken>>

\* Mutant of RecvNothing: the disconnection is signalled here already.
RecvSignals(c) ==
  /\ rx[c] = 0
  /\ SetState(c, "DeleteLater")
  /\ Post(c, "ClientClosed")
  /\ UNCHANGED <<rx, delivered, shaken>>

\* TcpSocket::Recv returns false: FIONREAD says there is nothing to read.
RecvNothing(c) ==
  /\ rx[c] = 0
  /\ SetState(c, "DeleteLater")
  /\ UNCHANGED <<rx, delivered, posted, shaken>>

\* Mutant of Recv: FIONREAD is not looked at.
RecvBlindly(c, n) ==
  /\ n = MAXRECV
  /\ rx' = [rx EXCEPT ![c] = @ - n]

\* TcpSocket::Recv takes what FIONREAD says, at most MAXRECV, and no more.
Recv(c, n) ==
  /\ rx[c] > 0
  /\ n = IF rx[c] > MAXRECV THEN MAXRECV ELSE rx[c]
  /\ rx' = [rx EXCEPT ![c] = @ - n]

RecvTcp(c) ==
  /\ c \notin WsClients
  /\ \E n \in 1..MAXRECV :
       /\ Recv(c, n)
       /\ delivered' = [delivered EXCEPT ![c] = @ + n]
  /\ Post(c, "ReadData")
  /\ UNCHANGED <<mClients, shaken>>

\* The request parses and the whole answer is written at once, or not.
ProceedWsHandshake(c) == IF rst[c] THEN {FALSE} ELSE BOOLEAN

\* After a handshake that failed hasData is still true.
RecvHandshake(c) ==
  /\ c \in WsClients /\ mClients[c] = "Closed"
  /\ \E n \in 1..MAXRECV : Recv(c, n)
  /\ \/ /\ TRUE \in ProceedWsHandshake(c)
        /\ SetState(c, "Connected")
        /\ Post(c, "NewConnection")
        /\ shaken' = shaken \cup {c}
     \/ /\ FALSE \in ProceedWsHandshake(c)
        /\ SetState(c, "DeleteLater")
        /\ Post(c, "ReadData")
        /\ UNCHANGED shaken
  /\ UNCHANGED delivered

\* A connection that is not Closed is taken to be connected, and the bytes for
\* a frame.  DecodeWsData: WS_CLOSE, WS_SEND_PONG or WS_PARTIAL, WS_DATA.
RecvFrame(c) ==
  /\ c \in WsClients /\ mClients[c] # "Closed"
  /\ \E n \in 1..MAXRECV : Recv(c, n)
  /\ \/ SetState(c, "DeleteLater") /\ UNCHANGED posted
     \/ UNCHANGED <<mClients, posted>>
     \/ UNCHANGED mClients /\ Post(c, "ReadData")
  /\ UNCHANGED <<delivered, shaken>>

\* IncommingData for the connection that has the descriptor of the event.
IncommingData(e) ==
  /\ Handling(e)
  /\ ~e.hup /\ e.src \in Fds
  /\ \/ /\ \A c \in Listed : fd[c] # e.src
        /\ UNCHANGED <<rx, mClients, delivered, posted, shaken>>
     \/ \E c \in Listed :
          /\ fd[c] = e.src
          /\ RecvNothing(c) \/ RecvTcp(c) \/ RecvHandshake(c) \/ RecvFrame(c)
  /\ UNCHANGED <<link, fin, rst, owner, lsn, woken, edge, server, run, fd,
                 accepting, endServer, appVars, sent, unsent, terminated>>

\* Mutant of CloseAll: removed from epoll, but not closed.
LeaveOpen(cs) ==
  /\ edge' = edge \ {fd[c] : c \in cs}
  /\ UNCHANGED <<link, owner>>

\* TcpSocket::Close for the connections of cs; closed descriptors leave epoll.
CloseAll(cs) ==
  /\ link' = [c \in Clients |-> IF c \in cs THEN "closed" ELSE link[c]]
  /\ owner' = [f \in Fds |-> IF owner[f] \in cs THEN None ELSE owner[f]]
  /\ edge' = edge \ {fd[c] : c \in cs}

\* All events are handled: UpdateClients, and the test of the do loop.
UpdateClients ==
  /\ server = "batch" /\ batch = {} /\ accepting = None
  /\ LET gone == {c \in Listed : mClients[c] = "DeleteLater"} IN
       /\ mClients' = [c \in Clients |-> IF c \in gone THEN "absent"
                                         ELSE mClients[c]]
       /\ posted' = [c \in Clients |-> IF c \in gone /\ IsConnected(c)
                                       THEN Append(posted[c], "ClientClosed")
                                       ELSE posted[c]]
       /\ CloseAll(gone)
  /\ server' = IF endServer THEN "cleanup" ELSE "wait"
  /\ UNCHANGED <<rx, fin, rst, lsn, woken, run, fd, batch, accepting,
                 endServer, appVars, sent, delivered, shaken, unsent,
                 terminated>>

\* Mutant of Cleanup: mClients is not cleared.
CleanupKeepsList ==
  /\ server = "cleanup"
  /\ CloseAll({c \in Listed : IsConnected(c)})
  /\ server' = "done"
  /\ UNCHANGED <<rx, fin, rst, lsn, woken, run, mClients, fd, batch, accepting,
                 endServer, appVars, ghosts>>

\* Lines 300 to 310: only what IsConnected is closed, everything is forgotten.
Cleanup ==
  /\ server = "cleanup"
  /\ CloseAll({c \in Listed : IsConnected(c)})
  /\ mClients' = [c \in Clients |-> "absent"]
  /\ server' = "done"
  /\ UNCHANGED <<rx, fin, rst, lsn, woken, run, fd, batch, accepting,
                 endServer, appVars, ghosts>>

SetUp == CreateEpoll \/ TestListener \/ AddListener \/ CreatePipe \/ AddPipe

HandleEvent(e) == \/ RemoveClient(e) \/ PipeReadable(e) \/ ListenerReadable(e)
                  \/ IncommingData(e)

ServerStep == \/ SetUp \/ EpollWait
              \/ \E e \in batch : HandleEvent(e)
              \/ AcceptOne \/ AcceptNone
              \/ UpdateClients \/ Cleanup

-----------------------------------------------------------------------------
(* The application: one thread that calls Start and Stop, and any thread    *)
(* that calls SendToAllClients.                                             *)

CallStop ==
  /\ app = "idle"
  /\ app' = "write" /\ goal' = "stop"
  /\ UNCHANGED <<kernelVars, serverVars, mInitialized, mSendFd, ghosts>>

\* Start begins with Stop.  At most MaxRuns threads are created.
CallStart ==
  /\ app = "idle"
  /\ run < MaxRuns
  /\ app' = "write" /\ goal' = "start"
  /\ UNCHANGED <<kernelVars, serverVars, mInitialized, mSendFd, ghosts>>

\* if (mSendFd > 0) write: the byte goes to the pipe of the current thread or,
\* as long as that thread has not made its own, to the one of an earlier run.
StopWrites ==
  /\ app = "write"
  /\ app' = "closetcp"
  /\ \/ /\ mSendFd > 0 /\ mSendFd = run
        /\ woken' = TRUE
        /\ edge' = IF server = "addpipe" THEN edge ELSE edge \cup {"pipe"}
     \/ /\ mSendFd = 0 \/ mSendFd # run
        /\ UNCHANGED <<woken, edge>>
  /\ UNCHANGED <<link, rx, fin, rst, owner, lsn, serverVars, goal,
                 mInitialized, mSendFd, ghosts>>

\* mTcpServer.Close() and mWsServer.Close(), neither under the mutex: the
\* kernel refuses what waits in the backlog.
CloseListener(l) ==
  /\ lsn' = [lsn EXCEPT ![l] = FALSE]
  /\ link' = [c \in Clients |-> IF c \in Backlog(l) THEN "refused" ELSE link[c]]
  /\ edge' = edge \ {l}

StopCloses ==
  /\ \/ app = "closetcp" /\ CloseListener("tcp") /\ app' = "closews"
     \/ app = "closews" /\ CloseListener("ws") /\ app' = "join"
  /\ UNCHANGED <<rx, fin, rst, owner, woken, serverVars, goal, mInitialized,
                 mSendFd, ghosts>>

\* Join waits for the thread if there is one.
StopJoins ==
  /\ app = "join"
  /\ \/ /\ mInitialized /\ server = "done"
        /\ server' = "off" /\ mInitialized' = FALSE
     \/ ~mInitialized /\ UNCHANGED <<server, mInitialized>>
  /\ app' = IF goal = "stop" THEN "idle" ELSE "opentcp"
  /\ UNCHANGED <<kernelVars, run, mClients, fd, batch, accepting, endServer,
                 goal, mSendFd, ghosts>>

\* socket, bind and listen: fails, and closes again, if the port is not free.
\* (If setsockopt refused a socket just made, it would stay open; it does not.)
CreateServer(l) == \E ok \in BOOLEAN : lsn' = [lsn EXCEPT ![l] = ok]

\* A port of 0 is not opened at all, which is the same as a failure.
StartOpens ==
  /\ \/ app = "opentcp" /\ CreateServer("tcp") /\ app' = "openws"
     \/ app = "openws" /\ CreateServer("ws") /\ app' = "spawn"
  /\ UNCHANGED <<link, rx, fin, rst, owner, woken, edge, serverVars, goal,
                 mInitialized, mSendFd, ghosts>>

\* The thread is created if there is a listener.
StartSpawns ==
  /\ app = "spawn"
  /\ app' = "idle"
  /\ \/ /\ lsn["tcp"] \/ lsn["ws"]
        /\ server' = "create" /\ run' = run + 1
        /\ endServer' = FALSE /\ woken' = FALSE
        /\ mInitialized' = TRUE
     \/ /\ ~lsn["tcp"] /\ ~lsn["ws"]
        /\ UNCHANGED <<server, run, endServer, woken, mInitialized>>
  /\ UNCHANGED <<link, rx, fin, rst, owner, lsn, edge, mClients, fd, batch,
                 accepting, goal, mSendFd, ghosts>>

AppStep == StopWrites \/ StopCloses \/ StopJoins \/ StartOpens \/ StartSpawns

\* TcpSocket::Send to each connection of to: it fails on a reset connection
\* and whenever the kernel does not take all of the data at once.
SendFails(to, failed) == failed \subseteq to /\ {c \in to : rst[c]} \subseteq failed

\* Under the mutex; a call in which nothing fails changes nothing here.
SendToAllClients(wsOnly) ==
  /\ server # "batch"
  /\ LET to == {c \in Listed : wsOnly => c \in WsClients} IN
       \E failed \in SUBSET to :
          /\ SendFails(to, failed)
          /\ failed # {}
          /\ mClients' = [c \in Clients |-> IF c \in failed THEN "DeleteLater"
                                            ELSE mClients[c]]
          /\ unsent' = unsent \cup failed
  /\ UNCHANGED <<kernelVars, server, run, fd, batch, accepting, endServer,
                 appVars, sent, delivered, posted, shaken, terminated>>

\* When Run calls exit(1) the application is in Stop and never leaves it: what
\* the peers can still do then is of no account.
Next == \/ \E c \in Clients : PeerStep(c)
        \/ ServerStep
        \/ EpollWaitFails
        \/ CallStop
        \/ CallStart
        \/ AppStep
        \/ \E wsOnly \in BOOLEAN : SendToAllClients(wsOnly)

Spec == Init /\ [][Next]_vars

\* Both threads are scheduled; accept, epoll_wait and recv return.  Peers and
\* callers are bound to nothing.
Fairness == /\ WF_vars(ServerStep)
            /\ WF_vars(AppStep)

FairSpec == Spec /\ Fairness

-----------------------------------------------------------------------------

\* Every variable has its type.
TypeOK ==
  /\ link \in [Clients -> {"new", "backlog", "open", "refused", "closed"}]
  /\ rx \in [Clients -> Nat]
  /\ fin \in [Clients -> BOOLEAN] /\ rst \in [Clients -> BOOLEAN]
  /\ owner \in [Fds -> Clients \cup {None}]
  /\ lsn \in [Listeners -> BOOLEAN]
  /\ woken \in BOOLEAN
  /\ edge \subseteq Fds \cup {"tcp", "ws", "pipe"}
  /\ server \in ServerStates /\ run \in 0..MaxRuns
  /\ mClients \in [Clients -> {"absent", "Closed", "Connected", "DeleteLater"}]
  /\ fd \in [Clients -> Fds \cup {None}]
  /\ batch \subseteq Events
  /\ accepting \in Listeners \cup {None}
  /\ endServer \in BOOLEAN
  /\ app \in AppStates /\ goal \in {"stop", "start"}
  /\ mInitialized \in BOOLEAN /\ mSendFd \in 0..MaxRuns
  /\ sent \in [Clients -> Nat] /\ delivered \in [Clients -> Nat]
  /\ posted \in [Clients -> Seq({"NewConnection", "ReadData", "ClientClosed"})]
  /\ shaken \subseteq Clients /\ unsent \subseteq Clients
  /\ terminated \in Nat

\* mClients and the kernel agree, across closing, reuse of descriptors and
\* restarts: a listed connection is open and its descriptor denotes it; a
\* descriptor that is in use belongs to a listed connection, or to a
\* WebSocket connection that never finished its handshake.
TableConsistent ==
  /\ \A c \in Listed : /\ link[c] = "open"
                       /\ fd[c] \in Fds
                       /\ owner[fd[c]] = c
  /\ \A f \in Fds : owner[f] # None =>
       \/ owner[f] \in Listed /\ fd[owner[f]] = f
       \/ owner[f] \in WsClients \ shaken

Posted(c, e) == \E i \in DOMAIN posted[c] : posted[c][i] = e

\* The callbacks of a connection are handed in as NewConnection, any number of
\* ReadData, and at most one ClientClosed that is the last; a WebSocket
\* connection has its NewConnection exactly if its handshake succeeded.  A
\* connection that is listed has not been reported closed.
CallbackOrder ==
  \A c \in Clients : \A i \in DOMAIN posted[c] :
    /\ (posted[c][i] = "NewConnection") <=> (i = 1 /\ (c \in WsClients => c \in shaken))
    /\ posted[c][i] = "ClientClosed" => i = Len(posted[c]) /\ c \notin Listed

\* In the loop of Run no edge gets lost, although epoll reports each only once.
\* A listed connection that its peer has reset still has its edge, or its
\* event is in the batch, or it has been marked in this batch; the byte that
\* Stop wrote has its edge or its event, or the loop is about to end.
WakeupsKept ==
  server \in {"wait", "batch"} =>
    /\ \A c \in Listed : rst[c] =>
         \/ fd[c] \in edge
         \/ server = "batch" /\ ([src |-> fd[c], hup |-> TRUE] \in batch
                                 \/ mClients[c] = "DeleteLater")
    /\ woken =>
         \/ "pipe" \in edge
         \/ server = "batch" /\ ([src |-> "pipe", hup |-> FALSE] \in batch \/ endServer)

\* As long as there is a descriptor for each connection, a listener in whose
\* backlog a connection waits has its edge, or its event is in the batch, or
\* its accept loop is running.
BacklogKept ==
  server \in {"wait", "batch"} /\ Cardinality(Clients) <= Cardinality(Fds) =>
    \A l \in Listeners : Backlog(l) # {} =>
      \/ l \in edge
      \/ server = "batch" /\ ([src |-> l, hup |-> FALSE] \in batch \/ accepting = l)

\* A plain TCP connection is reported closed only for a reason: its peer shut
\* down or reset it, or a Send to it failed.  After a plain shutdown every
\* byte the peer had sent has been handed to ReadData before.
ClosedForCause ==
  \A c \in Clients \ WsClients :
    Posted(c, "ClientClosed") /\ ~rst[c] /\ c \notin unsent
      => fin[c] /\ delivered[c] = sent[c]

\* When Stop has joined the thread nothing of the run is left: no connection
\* is listed, none of a plain TCP peer or of a WebSocket peer that finished
\* its handshake is open, both listeners are closed and ServerTerminated was
\* called at most once per run.
StoppedClean ==
  app = "opentcp" \/ (app = "idle" /\ server = "off" /\ goal = "stop") =>
    /\ Listed = {}
    /\ \A c \in Clients : link[c] = "open" => c \in WsClients \ shaken
    /\ lsn = [l \in Listeners |-> FALSE]
    /\ terminated <= run

\* Stop returns when it finds the pipe of the running thread in mSendFd.
StopWithPipeReturns ==
  (app = "write" /\ mSendFd = run) ~> (app \in {"idle", "opentcp"})

\* A listed connection that its peer has reset is taken off mClients, although
\* the edge for the reset is reported only once.
ResetIsNoticed ==
  \A c \in Clients : (c \in Listed /\ rst[c]) ~> (c \notin Listed)

\* A connection in the backlog of a listener is accepted, or refused because
\* Stop closes the listener, or the server ends, although the listener's
\* edge is reported only once; provided there is a descriptor for each.
AcceptedOrEnded ==
  \A c \in Clients : link[c] = "backlog" ~>
     (link[c] # "backlog" \/ server \in {"done", "off", "exit"})

-----------------------------------------------------------------------------
(* What comments of the code say and the code does not do.                  *)

\* Stop gets the thread to quit and returns: "Use a pipe on Unix to gracefully
\* quit the select(), close the socket and finally exit the thread"
\* (TcpServerEpoll.cpp:166).  A Stop that comes before Run has stored the
\* pipe of this run in mSendFd wakes nobody.
StopReturns == app = "write" ~> app \in {"idle", "opentcp"}

\* "In case of the websocket, only warn upper layers if the handshake process
\* has been done" (TcpServerEpoll.cpp:480).
ClosedOnlyAfterHandshake ==
  \A c \in WsClients : Posted(c, "ClientClosed") => c \in shaken

\* ClientClosed is "Called when a client has closed its connection"
\* (TcpServer.h:67): for a plain TCP connection, unless the server ends.
ShutdownIsReported ==
  \A c \in Clients \ WsClients :
    (c \in Listed /\ fin[c]) ~>
       (Posted(c, "ClientClosed") \/ server \in {"done", "off", "exit"})
=============================================================================
