--------------------------- MODULE TcpServerProofs ---------------------------
(***************************************************************************)
(* Proofs about TcpServer for any set of connections, any number of        *)
(* descriptors and any number of restarts: the types; that mClients and    *)
(* the kernel agree about who owns which descriptor; what Stop leaves      *)
(* behind; the order of the callbacks of a connection; the reason for      *)
(* which a plain one is closed; and that no edge of epoll is lost.         *)
(*                                                                         *)
(* TableConsistent is not inductive: that a descriptor which is handed out *)
(* again has no second owner, and that the cleanup at the end of Run       *)
(* forgets only WebSocket connections without a handshake, needs what      *)
(* OwnerOpen and ShakenKnown say about connections that are not listed.    *)
(***************************************************************************)
EXTENDS TcpServer, FiniteSetTheorems, TLAPS

\* A listed connection is open, and its descriptor denotes it.
ListedOpen == \A c \in Listed : /\ link[c] = "open"
                                /\ fd[c] \in Fds
                                /\ owner[fd[c]] = c

\* The owner of a descriptor is open; it is listed with that descriptor and no
\* other, or it is a WebSocket connection without a handshake.
OwnerOpen ==
  \A f \in Fds : owner[f] # None =>
    /\ link[owner[f]] = "open"
    /\ owner[f] \in Listed => fd[owner[f]] = f
    /\ owner[f] \notin Listed => owner[f] \in WsClients \ shaken

\* A connection that finished its handshake was accepted, and its state is no
\* longer the one it was accepted with.
ShakenKnown ==
  \A c \in shaken : link[c] \in {"open", "closed"} /\ mClients[c] # "Closed"

Table == ListedOpen /\ OwnerOpen /\ ShakenKnown

\* Start has checked the bound of the model on the number of runs.
RunBound == /\ app # "idle" /\ goal = "start" => run < MaxRuns
            /\ app \in {"opentcp", "openws", "spawn"} => goal = "start"

Inv == TypeOK /\ RunBound /\ Table

-----------------------------------------------------------------------------
(* Types.                                                                   *)

\* What a peer does keeps the types.
LEMMA TypePeer ==
  ASSUME Inv, NEW c \in Clients, PeerStep(c)
  PROVE  TypeOK'
<1>0. TypeOK /\ (c \in Listed => fd[c] \in Fds)
  BY DEF Inv, Table, ListedOpen
<1> USE DEF TypeOK, kernelVars, serverVars, appVars, ghosts
<1>1. CASE PeerConnect(c)
  BY <1>0, <1>1 DEF PeerConnect, Port
<1>2. CASE PeerSend(c)
  BY <1>0, <1>2 DEF PeerSend, Arm
<1>3. CASE PeerShutdown(c)
  BY <1>0, <1>3 DEF PeerShutdown, Arm
<1>4. CASE PeerReset(c)
  BY <1>0, <1>4 DEF PeerReset, Arm
<1> QED
  BY <1>1, <1>2, <1>3, <1>4 DEF PeerStep

\* The set-up of Run keeps the types.
LEMMA TypeSetUp ==
  ASSUME Inv, SetUp
  PROVE  TypeOK'
<1>0. TypeOK
  BY DEF Inv
<1> USE DEF TypeOK, kernelVars, serverVars, appVars, ghosts, ServerStates
<1>1. CASE CreateEpoll
  BY <1>0, <1>1 DEF CreateEpoll
<1>2. CASE TestListener
  BY <1>0, <1>2 DEF TestListener
<1>3. CASE AddListener
  BY <1>0, <1>3 DEF AddListener
<1>4. CASE CreatePipe
  BY <1>0, <1>4 DEF CreatePipe
<1>5. CASE AddPipe
  BY <1>0, <1>5 DEF AddPipe
<1> QED
  BY <1>1, <1>2, <1>3, <1>4, <1>5 DEF SetUp

\* Start and Stop keep the types; run < MaxRuns when a thread is created.
LEMMA TypeApp ==
  ASSUME Inv, CallStop \/ CallStart \/ AppStep
  PROVE  TypeOK'
<1>0. TypeOK /\ RunBound
  BY DEF Inv
<1> USE DEF TypeOK, kernelVars, serverVars, appVars, ghosts, AppStates,
            ServerStates
<1>1. CASE CallStop \/ CallStart
  BY <1>0, <1>1 DEF CallStop, CallStart
<1>2. CASE StopWrites
  <2>1. woken' \in BOOLEAN /\ app' \in AppStates
    BY <1>0, <1>2 DEF StopWrites
  <2>2. edge' \subseteq Fds \cup {"tcp", "ws", "pipe"}
    BY <1>0, <1>2 DEF StopWrites
  <2> QED
    BY <1>0, <1>2, <2>1, <2>2 DEF StopWrites
<1>3. CASE StopCloses
  <2>1. PICK l \in Listeners : CloseListener(l)
    BY <1>3 DEF StopCloses, Listeners
  <2>2. lsn' \in [Listeners -> BOOLEAN]
    BY <1>0, <2>1 DEF CloseListener
  <2>3. /\ link' \in [Clients -> {"new", "backlog", "open", "refused", "closed"}]
        /\ edge' \subseteq Fds \cup {"tcp", "ws", "pipe"}
    BY <1>0, <2>1 DEF CloseListener
  <2>4. app' \in AppStates
    BY <1>3 DEF StopCloses
  <2> QED
    BY <1>0, <1>3, <2>2, <2>3, <2>4 DEF StopCloses
<1>4. CASE StopJoins
  BY <1>0, <1>4 DEF StopJoins
<1>5. CASE StartOpens
  <2>1. lsn' \in [Listeners -> BOOLEAN] /\ app' \in AppStates
    BY <1>0, <1>5 DEF StartOpens, CreateServer
  <2> QED
    BY <1>0, <1>5, <2>1 DEF StartOpens
<1>6. CASE StartSpawns
  <2>1. run < MaxRuns
    BY <1>0, <1>6 DEF StartSpawns, RunBound
  <2>2. run' \in 0..MaxRuns /\ mSendFd' \in 0..MaxRuns
    BY <1>0, <1>6, <2>1, ServerAssumption DEF StartSpawns
  <2>3. server' \in ServerStates /\ app' \in AppStates
    BY <1>0, <1>6 DEF StartSpawns
  <2>4. endServer' \in BOOLEAN /\ woken' \in BOOLEAN /\ mInitialized' \in BOOLEAN
    BY <1>0, <1>6 DEF StartSpawns
  <2> QED
    BY <1>0, <1>6, <2>2, <2>3, <2>4 DEF StartSpawns
<1> QED
  BY <1>1, <1>2, <1>3, <1>4, <1>5, <1>6 DEF AppStep

\* A Recv reads no more than there is.
LEMMA RecvType ==
  ASSUME TypeOK, NEW c \in Clients, NEW n \in 1..MAXRECV, Recv(c, n)
  PROVE  rx' \in [Clients -> Nat]
<1>1. rx[c] \in Nat /\ MAXRECV \in Nat
  BY ServerAssumption DEF TypeOK
<1>2. rx[c] - n \in Nat
  BY <1>1 DEF Recv
<1> QED
  BY <1>2 DEF Recv, TypeOK

\* Handing in a callback.
LEMMA PostType ==
  ASSUME TypeOK, NEW c \in Clients,
         NEW e \in {"NewConnection", "ReadData", "ClientClosed"}, Post(c, e)
  PROVE  posted' \in [Clients -> Seq({"NewConnection", "ReadData", "ClientClosed"})]
BY DEF Post, TypeOK

\* What reading from one connection does to its state, its callbacks and the
\* ghosts.
LEMMA RecvEffect ==
  ASSUME TypeOK, NEW c \in Listed,
         RecvNothing(c) \/ RecvTcp(c) \/ RecvHandshake(c) \/ RecvFrame(c)
  PROVE  /\ rx' \in [Clients -> Nat] /\ delivered' \in [Clients -> Nat]
         /\ posted' \in [Clients -> Seq({"NewConnection", "ReadData", "ClientClosed"})]
         /\ \/ mClients' = mClients /\ shaken' = shaken
            \/ mClients' = [mClients EXCEPT ![c] = "DeleteLater"] /\ shaken' = shaken
            \/ /\ mClients' = [mClients EXCEPT ![c] = "Connected"]
               /\ shaken' = shaken \cup {c}
<1>0. c \in Clients
  BY DEF Listed
<1>1. CASE RecvNothing(c)
  BY <1>1 DEF RecvNothing, SetState, TypeOK
<1>2. CASE RecvTcp(c)
  <2>1. PICK n \in 1..MAXRECV :
          Recv(c, n) /\ delivered' = [delivered EXCEPT ![c] = @ + n]
    BY <1>2 DEF RecvTcp
  <2>2. delivered' \in [Clients -> Nat]
    BY <2>1, <1>0, ServerAssumption DEF TypeOK
  <2> QED
    BY <1>0, <1>2, <2>1, <2>2, RecvType, PostType DEF RecvTcp
<1>3. CASE RecvHandshake(c)
  BY <1>0, <1>3, RecvType, PostType DEF RecvHandshake, SetState, TypeOK
<1>4. CASE RecvFrame(c)
  BY <1>0, <1>4, RecvType, PostType DEF RecvFrame, SetState, TypeOK
<1> QED
  BY <1>1, <1>2, <1>3, <1>4

\* IncommingData, whichever connection the event is for.
LEMMA IncommingDataEffect ==
  ASSUME TypeOK, NEW e \in batch, IncommingData(e)
  PROVE  /\ rx' \in [Clients -> Nat] /\ delivered' \in [Clients -> Nat]
         /\ posted' \in [Clients -> Seq({"NewConnection", "ReadData", "ClientClosed"})]
         /\ \/ mClients' = mClients /\ shaken' = shaken
            \/ \E c \in Listed :
                 \/ mClients' = [mClients EXCEPT ![c] = "DeleteLater"] /\ shaken' = shaken
                 \/ /\ mClients' = [mClients EXCEPT ![c] = "Connected"]
                    /\ shaken' = shaken \cup {c}
<1>1. CASE UNCHANGED <<rx, mClients, delivered, posted, shaken>>
  BY <1>1 DEF TypeOK
<1>2. ASSUME NEW c \in Listed,
             RecvNothing(c) \/ RecvTcp(c) \/ RecvHandshake(c) \/ RecvFrame(c)
      PROVE  /\ rx' \in [Clients -> Nat] /\ delivered' \in [Clients -> Nat]
             /\ posted' \in [Clients -> Seq({"NewConnection", "ReadData", "ClientClosed"})]
             /\ \/ mClients' = mClients /\ shaken' = shaken
                \/ mClients' = [mClients EXCEPT ![c] = "DeleteLater"] /\ shaken' = shaken
                \/ /\ mClients' = [mClients EXCEPT ![c] = "Connected"]
                   /\ shaken' = shaken \cup {c}
  BY <1>2, RecvEffect
<1> QED
  BY <1>1, <1>2 DEF IncommingData

\* Closing connections keeps the types.
LEMMA CloseAllType ==
  ASSUME TypeOK, NEW cs, CloseAll(cs)
  PROVE  /\ link' \in [Clients -> {"new", "backlog", "open", "refused", "closed"}]
         /\ owner' \in [Fds -> Clients \cup {None}]
         /\ edge' \subseteq Fds \cup {"tcp", "ws", "pipe"}
BY DEF CloseAll, TypeOK

\* The steps of the loop that handle no event keep the types.
LEMMA TypeLoop ==
  ASSUME Inv, \/ EpollWait \/ EpollWaitFails
              \/ AcceptOne \/ AcceptNone \/ UpdateClients \/ Cleanup
  PROVE  TypeOK'
<1>0. TypeOK
  BY DEF Inv
<1> USE DEF TypeOK, kernelVars, serverVars, appVars, ghosts, ServerStates
<1>1. CASE EpollWait
  <2>1. PICK got \in SUBSET edge :
          /\ batch' = {[src |-> s, hup |-> Hup(s)] : s \in got}
          /\ edge' \subseteq edge
    BY <1>1 DEF EpollWait
  <2>2. \A s \in got : Hup(s) \in BOOLEAN
    BY DEF Hup
  <2>3. batch' \subseteq Events
    BY <1>0, <2>1, <2>2 DEF Events
  <2> QED
    BY <1>0, <1>1, <2>1, <2>3 DEF EpollWait
<1>2. CASE EpollWaitFails
  BY <1>0, <1>2 DEF EpollWaitFails
<1>3. CASE AcceptOne
  <2>1. PICK c \in Backlog(accepting), f \in {g \in Fds : owner[g] = None} :
          /\ link' = [link EXCEPT ![c] = "open"]
          /\ owner' = [owner EXCEPT ![f] = c]
          /\ fd' = [fd EXCEPT ![c] = f]
          /\ mClients' = [mClients EXCEPT ![c] = "Closed"]
          /\ edge' = IF rx[c] > 0 \/ fin[c] \/ rst[c] THEN edge \cup {f} ELSE edge
          /\ UNCHANGED posted \/ Post(c, "NewConnection")
    BY <1>3 DEF AcceptOne
  <2>2. c \in Clients /\ f \in Fds
    BY <2>1 DEF Backlog
  <2>3. posted' \in [Clients -> Seq({"NewConnection", "ReadData", "ClientClosed"})]
    BY <1>0, <2>1, <2>2, PostType
  <2>4. /\ link' \in [Clients -> {"new", "backlog", "open", "refused", "closed"}]
        /\ owner' \in [Fds -> Clients \cup {None}]
        /\ fd' \in [Clients -> Fds \cup {None}]
        /\ mClients' \in [Clients -> {"absent", "Closed", "Connected", "DeleteLater"}]
        /\ edge' \subseteq Fds \cup {"tcp", "ws", "pipe"}
    BY <1>0, <2>1, <2>2
  <2> QED
    BY <1>0, <1>3, <2>3, <2>4 DEF AcceptOne
<1>4. CASE AcceptNone
  BY <1>0, <1>4 DEF AcceptNone
<1>5. CASE UpdateClients
  <2> DEFINE gone == {c \in Listed : mClients[c] = "DeleteLater"}
  <2>1. CloseAll(gone)
    BY <1>5 DEF UpdateClients
  <2>2. /\ link' \in [Clients -> {"new", "backlog", "open", "refused", "closed"}]
        /\ owner' \in [Fds -> Clients \cup {None}]
        /\ edge' \subseteq Fds \cup {"tcp", "ws", "pipe"}
    BY <1>0, <2>1, CloseAllType
  <2>3. mClients' \in [Clients -> {"absent", "Closed", "Connected", "DeleteLater"}]
    BY <1>0, <1>5 DEF UpdateClients
  <2>4. posted' \in [Clients -> Seq({"NewConnection", "ReadData", "ClientClosed"})]
    BY <1>0, <1>5 DEF UpdateClients
  <2>5. server' \in ServerStates
    BY <1>5 DEF UpdateClients
  <2> QED
    BY <1>0, <1>5, <2>2, <2>3, <2>4, <2>5 DEF UpdateClients
<1>6. CASE Cleanup
  <2>1. /\ link' \in [Clients -> {"new", "backlog", "open", "refused", "closed"}]
        /\ owner' \in [Fds -> Clients \cup {None}]
        /\ edge' \subseteq Fds \cup {"tcp", "ws", "pipe"}
    BY <1>0, <1>6, CloseAllType DEF Cleanup
  <2> QED
    BY <1>0, <1>6, <2>1 DEF Cleanup
<1> QED
  BY <1>1, <1>2, <1>3, <1>4, <1>5, <1>6

\* Handling an event keeps the types.
LEMMA TypeEvent ==
  ASSUME Inv, NEW e \in batch, HandleEvent(e)
  PROVE  TypeOK'
<1>0. TypeOK
  BY DEF Inv
<1> USE DEF TypeOK, kernelVars, serverVars, appVars, ghosts
<1>1. CASE RemoveClient(e)
  BY <1>0, <1>1 DEF RemoveClient, Handling
<1>2. CASE PipeReadable(e)
  BY <1>0, <1>2 DEF PipeReadable, Handling
<1>3. CASE ListenerReadable(e)
  BY <1>0, <1>3 DEF ListenerReadable, Handling
<1>4. CASE IncommingData(e)
  <2>1. /\ mClients' \in [Clients -> {"absent", "Closed", "Connected", "DeleteLater"}]
        /\ shaken' \subseteq Clients
    <3>1. CASE mClients' = mClients /\ shaken' = shaken
      BY <1>0, <3>1
    <3>2. ASSUME NEW c \in Listed,
                 mClients' = [mClients EXCEPT ![c] = "DeleteLater"], shaken' = shaken
          PROVE  /\ mClients' \in [Clients -> {"absent", "Closed", "Connected", "DeleteLater"}]
                 /\ shaken' \subseteq Clients
      BY <1>0, <3>2 DEF Listed
    <3>3. ASSUME NEW c \in Listed,
                 mClients' = [mClients EXCEPT ![c] = "Connected"],
                 shaken' = shaken \cup {c}
          PROVE  /\ mClients' \in [Clients -> {"absent", "Closed", "Connected", "DeleteLater"}]
                 /\ shaken' \subseteq Clients
      BY <1>0, <3>3 DEF Listed
    <3> HIDE DEF TypeOK
    <3> QED
      BY <1>0, <1>4, <3>1, <3>2, <3>3, IncommingDataEffect
  <2>2. /\ rx' \in [Clients -> Nat] /\ delivered' \in [Clients -> Nat]
        /\ posted' \in [Clients -> Seq({"NewConnection", "ReadData", "ClientClosed"})]
    BY <1>0, <1>4, IncommingDataEffect
  <2> QED
    BY <1>0, <1>4, <2>1, <2>2 DEF IncommingData, Handling
<1> QED
  BY <1>1, <1>2, <1>3, <1>4 DEF HandleEvent

\* SendToAllClients keeps the types.
LEMMA TypeSend ==
  ASSUME Inv, NEW wsOnly \in BOOLEAN, SendToAllClients(wsOnly)
  PROVE  TypeOK'
<1>0. TypeOK
  BY DEF Inv
<1>1. /\ mClients' \in [Clients -> {"absent", "Closed", "Connected", "DeleteLater"}]
      /\ unsent' \subseteq Clients
  BY <1>0 DEF SendToAllClients, TypeOK, Listed
<1> QED
  BY <1>0, <1>1 DEF SendToAllClients, TypeOK, kernelVars, appVars

\* Every step keeps the types.
LEMMA TypeStep == Inv /\ [Next]_vars => TypeOK'
<1> SUFFICES ASSUME Inv, [Next]_vars PROVE TypeOK'
  OBVIOUS
<1>1. CASE UNCHANGED vars
  BY <1>1 DEF Inv, TypeOK, vars, kernelVars, serverVars, appVars, ghosts
<1>2. CASE Next
  BY <1>2, TypePeer, TypeSetUp, TypeApp, TypeLoop, TypeEvent, TypeSend
     DEF Next, ServerStep
<1> QED
  BY <1>1, <1>2

\* Every step keeps the bound on the number of runs.
LEMMA RunBoundStep == Inv /\ [Next]_vars => RunBound'
<1> SUFFICES ASSUME Inv, [Next]_vars PROVE RunBound'
  OBVIOUS
<1>0. RunBound /\ TypeOK
  BY DEF Inv
<1>1. CASE UNCHANGED <<app, goal, run>>
  BY <1>0, <1>1 DEF RunBound
<1>2. CASE CallStop \/ CallStart
  BY <1>0, <1>2 DEF CallStop, CallStart, RunBound, serverVars
<1>3. CASE AppStep
  BY <1>0, <1>3 DEF AppStep, StopWrites, StopCloses, StopJoins, StartOpens,
                    StartSpawns, RunBound, serverVars, TypeOK
<1> QED
  BY <1>1, <1>2, <1>3
     DEF Next, vars, PeerStep, PeerConnect, PeerSend, PeerShutdown, PeerReset,
         ServerStep, SetUp, CreateEpoll, TestListener, AddListener, CreatePipe,
         AddPipe, EpollWait, EpollWaitFails, HandleEvent, RemoveClient,
         PipeReadable, ListenerReadable, IncommingData, AcceptOne, AcceptNone,
         UpdateClients, Cleanup, SendToAllClients, serverVars, appVars

-----------------------------------------------------------------------------
(* The table of connections.                                                *)

\* Steps that change no state of a connection that is listed or owns a
\* descriptor.
LEMMA TableQuiet ==
  ASSUME Inv, UNCHANGED <<owner, fd, mClients, shaken>>,
         link' \in [Clients -> {"new", "backlog", "open", "refused", "closed"}],
         \A c \in Clients : link[c] \in {"open", "closed"} => link'[c] = link[c]
  PROVE  Table'
<1>0. TypeOK /\ ListedOpen /\ OwnerOpen /\ ShakenKnown
  BY DEF Inv, Table
<1>1. Listed' = Listed /\ Listed \subseteq Clients
  BY DEF Listed
<1>2. ListedOpen'
  BY <1>0, <1>1 DEF ListedOpen
<1>3. OwnerOpen'
  BY <1>0, <1>1 DEF OwnerOpen, TypeOK
<1>4. ShakenKnown'
  BY <1>0 DEF ShakenKnown, TypeOK
<1> QED
  BY <1>2, <1>3, <1>4 DEF Table

\* Steps that only change the state of listed connections, and leave them
\* listed.
LEMMA TableMarked ==
  ASSUME Inv, UNCHANGED <<link, owner, fd>>,
         Listed' = Listed,
         \A c \in Clients : mClients'[c] = "Closed" => mClients[c] = "Closed",
         \A c \in shaken' \ shaken : c \in Listed /\ mClients'[c] # "Closed",
         shaken \subseteq shaken'
  PROVE  Table'
<1>0. TypeOK /\ ListedOpen /\ OwnerOpen /\ ShakenKnown
  BY DEF Inv, Table
<1>2. ListedOpen'
  BY <1>0 DEF ListedOpen
<1>3. OwnerOpen'
  BY <1>0 DEF OwnerOpen, TypeOK
<1>4. ShakenKnown'
  BY <1>0 DEF ShakenKnown, ListedOpen, TypeOK
<1> QED
  BY <1>2, <1>3, <1>4 DEF Table

\* A connection is accepted on a descriptor nobody owns.
LEMMA TableAccept ==
  ASSUME Inv, AcceptOne
  PROVE  Table'
<1>0. TypeOK /\ ListedOpen /\ OwnerOpen /\ ShakenKnown
  BY DEF Inv, Table
<1>1. PICK c \in Backlog(accepting), f \in {g \in Fds : owner[g] = None} :
        /\ link' = [link EXCEPT ![c] = "open"]
        /\ owner' = [owner EXCEPT ![f] = c]
        /\ fd' = [fd EXCEPT ![c] = f]
        /\ mClients' = [mClients EXCEPT ![c] = "Closed"]
  BY DEF AcceptOne
<1>2. /\ c \in Clients /\ f \in Fds /\ owner[f] = None /\ link[c] = "backlog"
      /\ c # None /\ shaken' = shaken
  BY <1>1, ServerAssumption DEF Backlog, AcceptOne
<1>3. c \notin Listed /\ c \notin shaken /\ \A g \in Fds : owner[g] # c
  BY <1>0, <1>2 DEF ListedOpen, ShakenKnown, OwnerOpen
<1>4. Listed' = Listed \cup {c} /\ Listed \subseteq Clients
  BY <1>0, <1>1, <1>2 DEF Listed, TypeOK
<1>5. ListedOpen'
  <2> SUFFICES ASSUME NEW d \in Listed'
               PROVE  link'[d] = "open" /\ fd'[d] \in Fds /\ owner'[fd'[d]] = d
    BY DEF ListedOpen
  <2>1. CASE d = c
    BY <2>1, <1>0, <1>1, <1>2 DEF TypeOK
  <2>2. CASE d \in Listed /\ d # c
    <3>1. link[d] = "open" /\ fd[d] \in Fds /\ owner[fd[d]] = d /\ d # None
      BY <2>2, <1>0, <1>4, ServerAssumption DEF ListedOpen
    <3>2. fd[d] # f
      BY <3>1, <1>2
    <3> QED
      BY <2>2, <3>1, <3>2, <1>0, <1>1, <1>4 DEF TypeOK
  <2> QED
    BY <2>1, <2>2, <1>4
<1>6. OwnerOpen'
  <2> SUFFICES ASSUME NEW g \in Fds, owner'[g] # None
               PROVE  /\ link'[owner'[g]] = "open"
                      /\ owner'[g] \in Listed' => fd'[owner'[g]] = g
                      /\ owner'[g] \notin Listed' => owner'[g] \in WsClients \ shaken
    BY <1>2 DEF OwnerOpen
  <2>1. CASE g = f
    BY <2>1, <1>0, <1>1, <1>2, <1>4 DEF TypeOK
  <2>2. CASE g # f
    <3>1. owner'[g] = owner[g] /\ owner[g] # c /\ owner[g] \in Clients
      BY <2>2, <1>0, <1>1, <1>3 DEF TypeOK
    <3> QED
      BY <3>1, <1>0, <1>1, <1>4 DEF OwnerOpen, TypeOK
  <2> QED
    BY <2>1, <2>2
<1>7. ShakenKnown'
  <2> SUFFICES ASSUME NEW d \in shaken
               PROVE  link'[d] \in {"open", "closed"} /\ mClients'[d] # "Closed"
    BY <1>2 DEF ShakenKnown
  <2>1. d # c /\ d \in Clients
    BY <1>0, <1>3 DEF TypeOK
  <2> QED
    BY <2>1, <1>0, <1>1 DEF ShakenKnown, TypeOK
<1> QED
  BY <1>5, <1>6, <1>7 DEF Table

\* Connections are closed and taken off the list; the others that leave the
\* list are WebSocket connections in the state they were accepted with.
LEMMA TableClose ==
  ASSUME Inv, NEW cs \in SUBSET Listed, CloseAll(cs), UNCHANGED <<fd, shaken>>,
         Listed' \subseteq Listed \ cs,
         \A c \in (Listed \ cs) \ Listed' : c \in WsClients /\ mClients[c] = "Closed",
         \A c \in Clients : mClients'[c] = "Closed" => mClients[c] = "Closed"
  PROVE  Table'
<1>0. TypeOK /\ ListedOpen /\ OwnerOpen /\ ShakenKnown
  BY DEF Inv, Table
<1>1. /\ link' = [c \in Clients |-> IF c \in cs THEN "closed" ELSE link[c]]
      /\ owner' = [f \in Fds |-> IF owner[f] \in cs THEN None ELSE owner[f]]
      /\ Listed \subseteq Clients
  BY DEF CloseAll, Listed
<1>2. ListedOpen'
  BY <1>0, <1>1 DEF ListedOpen
<1>3. OwnerOpen'
  <2> SUFFICES ASSUME NEW f \in Fds, owner'[f] # None
               PROVE  /\ link'[owner'[f]] = "open"
                      /\ owner'[f] \in Listed' => fd'[owner'[f]] = f
                      /\ owner'[f] \notin Listed' => owner'[f] \in WsClients \ shaken'
    BY DEF OwnerOpen
  <2>1. owner'[f] = owner[f] /\ owner[f] \notin cs /\ owner[f] \in Clients
    BY <1>0, <1>1 DEF TypeOK
  <2>2. link'[owner'[f]] = "open"
    BY <2>1, <1>0, <1>1 DEF OwnerOpen
  <2>3. owner'[f] \in Listed' => fd'[owner'[f]] = f
    BY <2>1, <1>0 DEF OwnerOpen
  <2>4. owner'[f] \notin Listed' => owner'[f] \in WsClients \ shaken'
    BY <2>1, <1>0 DEF OwnerOpen, ShakenKnown
  <2> QED
    BY <2>2, <2>3, <2>4
<1>4. ShakenKnown'
  BY <1>0, <1>1 DEF ShakenKnown, TypeOK
<1> QED
  BY <1>2, <1>3, <1>4 DEF Table

\* Every step keeps the table and the kernel in agreement.
LEMMA TableStep == Inv /\ [Next]_vars => Table'
<1> SUFFICES ASSUME Inv, [Next]_vars PROVE Table'
  OBVIOUS
<1>0. TypeOK /\ TypeOK'
  BY TypeStep DEF Inv
<1>1. CASE UNCHANGED <<link, owner, fd, mClients, shaken>>
  BY <1>0, <1>1, TableQuiet DEF TypeOK
<1>2. ASSUME NEW c \in Clients, PeerConnect(c) PROVE Table'
  BY <1>0, <1>2, TableQuiet DEF PeerConnect, serverVars, ghosts, TypeOK
<1>3. CASE StopCloses
  BY <1>0, <1>3, TableQuiet DEF StopCloses, CloseListener, Backlog, serverVars,
                                ghosts, TypeOK
<1>4. ASSUME NEW e \in batch, RemoveClient(e) PROVE Table'
  BY <1>0, <1>4, TableMarked DEF RemoveClient, Listed, kernelVars, ghosts, TypeOK
<1>5. ASSUME NEW e \in batch, IncommingData(e) PROVE Table'
  <2>1. UNCHANGED <<link, owner, fd>>
    BY <1>5 DEF IncommingData
  <2>2. CASE mClients' = mClients /\ shaken' = shaken
    BY <1>1, <2>1, <2>2
  <2>3. ASSUME NEW c \in Listed, NEW st \in {"DeleteLater", "Connected"},
               mClients' = [mClients EXCEPT ![c] = st],
               shaken' = shaken \/ shaken' = shaken \cup {c}
        PROVE  Table'
    <3>1. c \in Clients /\ mClients'[c] = st /\ mClients[c] # "absent"
      BY <1>0, <2>3 DEF Listed, TypeOK
    <3>2. \A d \in Clients \ {c} : mClients'[d] = mClients[d]
      BY <1>0, <2>3 DEF TypeOK
    <3>3. Listed' = Listed
      BY <3>1, <3>2 DEF Listed
    <3> QED
      BY <2>1, <2>3, <3>1, <3>2, <3>3, TableMarked
  <2> QED
    BY <1>0, <1>5, <2>2, <2>3, IncommingDataEffect
<1>6. CASE AcceptOne
  BY <1>6, TableAccept
<1>7. CASE UpdateClients
  <2> DEFINE gone == {c \in Listed : mClients[c] = "DeleteLater"}
  <2>1. /\ CloseAll(gone) /\ UNCHANGED <<fd, shaken>>
        /\ mClients' = [c \in Clients |-> IF c \in gone THEN "absent" ELSE mClients[c]]
    BY <1>7 DEF UpdateClients
  <2>2. Listed' = Listed \ gone
    BY <2>1 DEF Listed
  <2> QED
    BY <2>1, <2>2, TableClose
<1>8. CASE Cleanup
  <2> DEFINE connected == {c \in Listed : IsConnected(c)}
  <2>1. /\ CloseAll(connected) /\ UNCHANGED <<fd, shaken>>
        /\ mClients' = [c \in Clients |-> "absent"]
    BY <1>8 DEF Cleanup, ghosts
  <2>2. Listed' = {}
    BY <2>1 DEF Listed
  <2>3. \A c \in Listed \ connected : c \in WsClients /\ mClients[c] = "Closed"
    BY DEF IsConnected
  <2> QED
    BY <2>1, <2>2, <2>3, TableClose
<1>9. ASSUME NEW wsOnly \in BOOLEAN, SendToAllClients(wsOnly) PROVE Table'
  BY <1>0, <1>9, TableMarked DEF SendToAllClients, Listed, kernelVars, TypeOK
<1> QED
  BY <1>1, <1>2, <1>3, <1>4, <1>5, <1>6, <1>7, <1>8, <1>9
     DEF Next, vars, PeerStep, PeerSend, PeerShutdown, PeerReset,
         ServerStep, SetUp, CreateEpoll, TestListener, AddListener, CreatePipe,
         AddPipe, EpollWait, EpollWaitFails, HandleEvent,
         PipeReadable, ListenerReadable, AcceptNone, CallStop, CallStart,
         AppStep, StopWrites, StopJoins, StartOpens, StartSpawns,
         kernelVars, serverVars, ghosts

\* The inductive invariant is an invariant.
LEMMA InvAlways == Spec => []Inv
<1>1. Init => Inv
  <2>1. Init => TypeOK
    <3> SUFFICES ASSUME Init PROVE TypeOK
      OBVIOUS
    <3>0. 0 \in 0..MaxRuns
      BY ServerAssumption
    <3>1. /\ link \in [Clients -> {"new", "backlog", "open", "refused", "closed"}]
          /\ rx \in [Clients -> Nat] /\ fin \in [Clients -> BOOLEAN]
          /\ rst \in [Clients -> BOOLEAN] /\ owner \in [Fds -> Clients \cup {None}]
          /\ lsn \in [Listeners -> BOOLEAN] /\ woken \in BOOLEAN
          /\ edge \subseteq Fds \cup {"tcp", "ws", "pipe"}
      BY DEF Init
    <3>2. /\ server \in ServerStates /\ run \in 0..MaxRuns
          /\ mClients \in [Clients -> {"absent", "Closed", "Connected", "DeleteLater"}]
          /\ fd \in [Clients -> Fds \cup {None}] /\ batch \subseteq Events
          /\ accepting \in Listeners \cup {None} /\ endServer \in BOOLEAN
      BY <3>0 DEF Init, ServerStates
    <3>3. /\ app \in AppStates /\ goal \in {"stop", "start"}
          /\ mInitialized \in BOOLEAN /\ mSendFd \in 0..MaxRuns
      BY <3>0 DEF Init, AppStates
    <3>4. /\ sent \in [Clients -> Nat] /\ delivered \in [Clients -> Nat]
          /\ posted \in [Clients -> Seq({"NewConnection", "ReadData", "ClientClosed"})]
          /\ shaken \subseteq Clients /\ unsent \subseteq Clients
          /\ terminated \in Nat
      BY DEF Init
    <3> QED
      BY <3>1, <3>2, <3>3, <3>4 DEF TypeOK
  <2>2. Init => Table
    BY DEF Init, Table, ListedOpen, OwnerOpen, ShakenKnown, Listed
  <2>3. Init => RunBound
    BY DEF Init, RunBound
  <2> QED
    BY <2>1, <2>2, <2>3 DEF Inv
<1>2. Inv /\ [Next]_vars => Inv'
  BY TypeStep, RunBoundStep, TableStep DEF Inv
<1> QED
  BY <1>1, <1>2, PTL DEF Spec

\* Every variable of the server keeps its type.
THEOREM ServerTypeCorrect == Spec => []TypeOK
BY InvAlways, PTL DEF Inv

\* mClients and the kernel agree about descriptors, for any number of
\* connections, descriptors and restarts.
THEOREM ServerTableConsistent == Spec => []TableConsistent
<1>1. Inv => TableConsistent
  BY DEF Inv, Table, ListedOpen, OwnerOpen, TableConsistent
<1> QED
  BY <1>1, InvAlways, PTL

-----------------------------------------------------------------------------
(* What Stop leaves behind.  StoppedClean speaks of one moment; it follows  *)
(* from what holds at every stage of Run and of Stop.                       *)

Starting == {"create", "testtcp", "addtcp", "testws", "addws", "pipe", "addpipe"}

\* Only a thread that is in its loop has connections on its list.
Emptied == server \notin {"wait", "batch", "cleanup"} => Listed = {}

\* An open connection is listed, or is a WebSocket connection without a
\* handshake.
OpenKnown ==
  \A c \in Clients : link[c] = "open" => c \in Listed \/ c \in WsClients \ shaken

\* mInitialized tells whether there is a thread; Start opens its listeners
\* when there is none.
Joined == /\ server = "off" <=> ~mInitialized
          /\ app \in {"opentcp", "openws", "spawn"} => server = "off"

\* The listeners are closed one after the other, and stay closed until Start
\* opens them.
ListenersShut ==
  /\ app = "closews" => ~lsn["tcp"]
  /\ app \in {"join", "opentcp"} \/ (app = "idle" /\ goal = "stop")
       => ~lsn["tcp"] /\ ~lsn["ws"]

\* A thread that has not signalled its end is one ahead of the number of
\* signals, and no batch holds a second event of the pipe.
EndedOnce ==
  /\ terminated <= run
  /\ server \in Starting \cup {"wait"} => ~endServer
  /\ server \in Starting \cup {"wait", "batch"} /\ ~endServer => terminated < run
  /\ server = "batch" /\ endServer => \A e \in batch : e.src = "pipe" => e.hup

StopInv == Emptied /\ OpenKnown /\ Joined /\ ListenersShut /\ EndedOnce

\* A connection is put on the list by AcceptOne only, in a batch.
LEMMA EmptiedStep == Inv /\ Emptied /\ Joined /\ [Next]_vars => Emptied'
<1> SUFFICES ASSUME Inv, Emptied, Joined, [Next]_vars PROVE Emptied'
  OBVIOUS
<1>0. TypeOK
  BY DEF Inv
<1>1. CASE UNCHANGED <<server, mClients>>
  BY <1>1 DEF Emptied, Listed
<1>2. CASE server = "batch" /\ server' = "batch"
  BY <1>2 DEF Emptied
<1>3. CASE SetUp
  BY <1>3 DEF Emptied, Listed, SetUp, CreateEpoll, TestListener, AddListener,
              CreatePipe, AddPipe
<1>4. CASE EpollWait \/ EpollWaitFails \/ UpdateClients
  BY <1>4 DEF Emptied, EpollWait, EpollWaitFails, UpdateClients
<1>5. CASE Cleanup
  BY <1>5 DEF Emptied, Cleanup, Listed
<1>6. CASE StopJoins
  BY <1>6 DEF Emptied, StopJoins, Listed
<1>7. CASE StartSpawns
  BY <1>7 DEF Emptied, StartSpawns, Listed, Joined
<1>8. ASSUME NEW wsOnly \in BOOLEAN, SendToAllClients(wsOnly) PROVE Emptied'
  <2>1. server' = server /\ Listed' = Listed
    BY <1>0, <1>8 DEF SendToAllClients, Listed, TypeOK
  <2> QED
    BY <2>1 DEF Emptied
<1> QED
  BY <1>1, <1>2, <1>3, <1>4, <1>5, <1>6, <1>7, <1>8
     DEF Next, vars, PeerStep, PeerConnect, PeerSend, PeerShutdown, PeerReset,
         ServerStep, HandleEvent, RemoveClient, PipeReadable, ListenerReadable,
         IncommingData, Handling, AcceptOne, AcceptNone, CallStop, CallStart,
         AppStep, StopWrites, StopCloses, StartOpens, serverVars

\* What leaves the list is closed, apart from WebSocket connections in the
\* state they were accepted with, and those have no handshake.
LEMMA OpenKnownStep == Inv /\ OpenKnown /\ [Next]_vars => OpenKnown'
<1> SUFFICES ASSUME Inv, OpenKnown, [Next]_vars PROVE OpenKnown'
  OBVIOUS
<1>0. TypeOK /\ TypeOK' /\ ShakenKnown
  BY TypeStep DEF Inv, Table
<1>1. ASSUME Listed \subseteq Listed', shaken' \subseteq shaken \cup Listed,
             \A c \in Clients : link'[c] = "open" => link[c] = "open" \/ c \in Listed'
      PROVE  OpenKnown'
  BY <1>1 DEF OpenKnown
<1>2. CASE UNCHANGED <<link, mClients, shaken>>
  BY <1>1, <1>2 DEF Listed
<1>3. ASSUME NEW c \in Clients, PeerConnect(c) PROVE OpenKnown'
  <2>1. mClients' = mClients /\ shaken' = shaken
        /\ \A d \in Clients : link'[d] = "open" => link[d] = "open"
    BY <1>0, <1>3 DEF PeerConnect, serverVars, ghosts, TypeOK
  <2> QED
    BY <1>1, <2>1 DEF Listed
<1>4. CASE StopCloses
  <2>1. mClients' = mClients /\ shaken' = shaken
        /\ \A d \in Clients : link'[d] = "open" => link[d] = "open"
    BY <1>0, <1>4 DEF StopCloses, CloseListener, serverVars, ghosts, TypeOK
  <2> QED
    BY <1>1, <2>1 DEF Listed
<1>5. ASSUME NEW e \in batch, RemoveClient(e) PROVE OpenKnown'
  <2>1. Listed' = Listed /\ link' = link /\ shaken' = shaken
    BY <1>0, <1>5 DEF RemoveClient, Listed, kernelVars, ghosts, TypeOK
  <2> QED
    BY <1>1, <2>1
<1>6. ASSUME NEW e \in batch, IncommingData(e) PROVE OpenKnown'
  <2>1. link' = link
    BY <1>6 DEF IncommingData
  <2>2. CASE mClients' = mClients /\ shaken' = shaken
    BY <1>2, <2>1, <2>2
  <2>3. ASSUME NEW c \in Listed, NEW st \in {"DeleteLater", "Connected"},
               mClients' = [mClients EXCEPT ![c] = st],
               shaken' = shaken \/ shaken' = shaken \cup {c}
        PROVE  OpenKnown'
    <3>1. Listed' = Listed
      BY <1>0, <2>3 DEF Listed, TypeOK
    <3> QED
      BY <1>1, <2>1, <2>3, <3>1
  <2> QED
    BY <1>0, <1>6, <2>2, <2>3, IncommingDataEffect
<1>7. CASE AcceptOne
  <2>1. PICK c \in Backlog(accepting) :
          /\ link' = [link EXCEPT ![c] = "open"]
          /\ mClients' = [mClients EXCEPT ![c] = "Closed"]
    BY <1>7 DEF AcceptOne
  <2>2. c \in Clients /\ shaken' = shaken
    BY <1>7 DEF Backlog, AcceptOne
  <2>3. Listed' = Listed \cup {c}
    BY <1>0, <2>1, <2>2 DEF Listed, TypeOK
  <2> QED
    BY <1>0, <1>1, <2>1, <2>2, <2>3 DEF TypeOK
<1>8. ASSUME NEW cs \in SUBSET Listed, CloseAll(cs), shaken' = shaken,
             \A c \in Listed \ cs : c \in Listed' \/ (c \in WsClients /\ mClients[c] = "Closed")
      PROVE  OpenKnown'
  BY <1>0, <1>8 DEF OpenKnown, CloseAll, ShakenKnown
<1>9. CASE UpdateClients
  <2> DEFINE gone == {c \in Listed : mClients[c] = "DeleteLater"}
  <2>1. /\ CloseAll(gone) /\ shaken' = shaken
        /\ mClients' = [c \in Clients |-> IF c \in gone THEN "absent" ELSE mClients[c]]
    BY <1>9 DEF UpdateClients
  <2>2. \A c \in Listed \ gone : c \in Listed'
    BY <2>1 DEF Listed
  <2> QED
    BY <1>8, <2>1, <2>2
<1>10. CASE Cleanup
  <2> DEFINE connected == {c \in Listed : IsConnected(c)}
  <2>1. CloseAll(connected) /\ shaken' = shaken
    BY <1>10 DEF Cleanup, ghosts
  <2>2. \A c \in Listed \ connected : c \in WsClients /\ mClients[c] = "Closed"
    BY DEF IsConnected
  <2> QED
    BY <1>8, <2>1, <2>2
<1>11. ASSUME NEW wsOnly \in BOOLEAN, SendToAllClients(wsOnly) PROVE OpenKnown'
  <2>1. Listed' = Listed /\ link' = link /\ shaken' = shaken
    BY <1>0, <1>11 DEF SendToAllClients, Listed, kernelVars, TypeOK
  <2> QED
    BY <1>1, <2>1
<1> QED
  BY <1>2, <1>3, <1>4, <1>5, <1>6, <1>7, <1>9, <1>10, <1>11
     DEF Next, vars, PeerStep, PeerSend, PeerShutdown, PeerReset,
         ServerStep, SetUp, CreateEpoll, TestListener, AddListener, CreatePipe,
         AddPipe, EpollWait, EpollWaitFails, HandleEvent,
         PipeReadable, ListenerReadable, AcceptNone, CallStop, CallStart,
         AppStep, StopWrites, StopJoins, StartOpens, StartSpawns,
         kernelVars, serverVars, ghosts

\* mInitialized is set when a thread is created, and reset when it is joined.
LEMMA JoinedStep == Inv /\ Joined /\ [Next]_vars => Joined'
<1> SUFFICES ASSUME Inv, Joined, [Next]_vars PROVE Joined'
  OBVIOUS
<1>0. TypeOK
  BY DEF Inv
<1>1. CASE UNCHANGED <<server, mInitialized, app>>
  BY <1>1 DEF Joined
<1>2. ASSUME server # "off", server' # "off", UNCHANGED <<mInitialized, app>>
      PROVE  Joined'
  BY <1>2 DEF Joined
<1>3. CASE CallStop \/ CallStart
  BY <1>3 DEF CallStop, CallStart, Joined, serverVars
<1>4. CASE StopWrites \/ StopCloses \/ StartOpens
  BY <1>4 DEF StopWrites, StopCloses, StartOpens, Joined, serverVars
<1>5. CASE StopJoins
  BY <1>0, <1>5 DEF StopJoins, Joined, TypeOK
<1>6. CASE StartSpawns
  BY <1>6 DEF StartSpawns, Joined
<1> QED
  BY <1>1, <1>2, <1>3, <1>4, <1>5, <1>6
     DEF Next, vars, PeerStep, PeerConnect, PeerSend, PeerShutdown, PeerReset,
         ServerStep, SetUp, CreateEpoll, TestListener, AddListener, CreatePipe,
         AddPipe, EpollWait, EpollWaitFails, HandleEvent, RemoveClient,
         PipeReadable, ListenerReadable, IncommingData, AcceptOne, AcceptNone,
         UpdateClients, Cleanup, SendToAllClients, AppStep, serverVars, appVars

\* Nobody but Stop and Start touches the listeners.
LEMMA ListenersShutStep == Inv /\ ListenersShut /\ [Next]_vars => ListenersShut'
<1> SUFFICES ASSUME Inv, ListenersShut, [Next]_vars PROVE ListenersShut'
  OBVIOUS
<1>0. lsn \in [Listeners -> BOOLEAN] /\ goal \in {"stop", "start"} /\ RunBound
  BY DEF Inv, TypeOK
<1>1. CASE UNCHANGED <<lsn, goal, app>>
  BY <1>1 DEF ListenersShut
<1>2. CASE CallStop \/ CallStart \/ StopWrites
  BY <1>2 DEF CallStop, CallStart, StopWrites, ListenersShut
<1>3. CASE StopCloses
  BY <1>0, <1>3 DEF StopCloses, CloseListener, ListenersShut, Listeners
<1>4. CASE StopJoins
  BY <1>0, <1>4 DEF StopJoins, ListenersShut, kernelVars
<1>5. CASE StartOpens
  BY <1>0, <1>5 DEF StartOpens, ListenersShut
<1>6. CASE StartSpawns
  BY <1>0, <1>6 DEF StartSpawns, ListenersShut, RunBound
<1> QED
  BY <1>1, <1>2, <1>3, <1>4, <1>5, <1>6
     DEF Next, vars, PeerStep, PeerConnect, PeerSend, PeerShutdown, PeerReset,
         ServerStep, SetUp, CreateEpoll, TestListener, AddListener, CreatePipe,
         AddPipe, EpollWait, EpollWaitFails, HandleEvent, RemoveClient,
         PipeReadable, ListenerReadable, IncommingData, AcceptOne, AcceptNone,
         UpdateClients, Cleanup, SendToAllClients, AppStep, kernelVars, appVars

\* A batch holds the pipe once, and after its event the loop ends.
LEMMA EndedOnceStep == Inv /\ EndedOnce /\ Joined /\ [Next]_vars => EndedOnce'
<1> SUFFICES ASSUME Inv, EndedOnce, Joined, [Next]_vars PROVE EndedOnce'
  OBVIOUS
<1>0. run \in Nat /\ terminated \in Nat /\ batch \subseteq Events /\ endServer \in BOOLEAN
  BY ServerAssumption DEF Inv, TypeOK
<1>1. ASSUME UNCHANGED <<server, run, endServer, terminated>>, batch' \subseteq batch
      PROVE  EndedOnce'
  BY <1>1 DEF EndedOnce
<1>2. ASSUME server \in Starting, server' \in Starting \cup {"wait", "done", "exit"},
             UNCHANGED <<run, endServer, terminated>>
      PROVE  EndedOnce'
  BY <1>2 DEF EndedOnce, Starting
<1>3. CASE SetUp
  <2>1. server \in Starting /\ server' \in Starting \cup {"wait", "done", "exit"}
    BY <1>3 DEF SetUp, CreateEpoll, TestListener, AddListener, CreatePipe, AddPipe,
                Starting
  <2>2. UNCHANGED <<run, endServer, terminated>>
    BY <1>3 DEF SetUp, CreateEpoll, TestListener, AddListener, CreatePipe, AddPipe,
                ghosts
  <2> QED
    BY <1>2, <2>1, <2>2
<1>4. CASE EpollWait
  BY <1>4 DEF EpollWait, EndedOnce, Starting, ghosts
<1>5. CASE EpollWaitFails
  BY <1>0, <1>5 DEF EpollWaitFails, EndedOnce, Starting
<1>6. ASSUME NEW e \in batch, PipeReadable(e) PROVE EndedOnce'
  <2>1. /\ server = "batch" /\ server' = "batch" /\ batch' = batch \ {e}
        /\ ~e.hup /\ e.src = "pipe"
        /\ endServer' = TRUE /\ terminated' = terminated + 1 /\ run' = run
    BY <1>6 DEF PipeReadable, Handling
  <2>2. ~endServer /\ terminated < run
    BY <1>0, <2>1 DEF EndedOnce
  <2>3. ASSUME NEW g \in batch', g.src = "pipe", ~g.hup PROVE FALSE
    <3>1. g \in Events /\ e \in Events /\ g # e
      BY <2>1, <2>3, <1>0
    <3>2. g.hup = FALSE /\ e.hup = FALSE
      BY <3>1, <2>1, <2>3 DEF Events
    <3>3. g = [src |-> g.src, hup |-> g.hup] /\ e = [src |-> e.src, hup |-> e.hup]
      BY <3>1 DEF Events
    <3> QED
      BY <3>1, <3>2, <3>3, <2>1, <2>3
  <2>4. terminated' <= run'
    BY <1>0, <2>1, <2>2
  <2> QED
    BY <2>1, <2>3, <2>4 DEF EndedOnce, Starting
<1>7. CASE UpdateClients
  BY <1>0, <1>7 DEF UpdateClients, EndedOnce, Starting
<1>8. CASE Cleanup
  BY <1>8 DEF Cleanup, EndedOnce, Starting, ghosts
<1>9. CASE StopJoins
  BY <1>9 DEF StopJoins, EndedOnce, Starting, ghosts
<1>10. CASE StartSpawns
  <2>1. CASE UNCHANGED <<server, run, endServer>>
    BY <1>1, <1>10, <2>1 DEF StartSpawns, ghosts
  <2>2. CASE server' = "create" /\ run' = run + 1 /\ endServer' = FALSE
    BY <1>0, <1>10, <2>2 DEF StartSpawns, EndedOnce, Starting, ghosts
  <2> QED
    BY <1>10, <2>1, <2>2 DEF StartSpawns
<1> QED
  BY <1>1, <1>3, <1>4, <1>5, <1>6, <1>7, <1>8, <1>9, <1>10
     DEF Next, vars, PeerStep, PeerConnect, PeerSend, PeerShutdown, PeerReset,
         ServerStep, HandleEvent, RemoveClient, ListenerReadable, IncommingData,
         Handling, AcceptOne, AcceptNone, CallStop, CallStart, SendToAllClients,
         AppStep, StopWrites, StopCloses, StartOpens, serverVars, ghosts

\* When Stop has joined the thread nothing of the run is left, for any number
\* of connections, descriptors and restarts.
THEOREM ServerStoppedClean == Spec => []StoppedClean
<1>1. Init => StopInv
  BY ServerAssumption DEF Init, StopInv, Emptied, OpenKnown, Joined, ListenersShut,
                          EndedOnce, Listed, Listeners, Starting
<1>2. Inv /\ StopInv /\ [Next]_vars => StopInv'
  BY EmptiedStep, OpenKnownStep, JoinedStep, ListenersShutStep, EndedOnceStep
     DEF StopInv
<1>3. Inv /\ StopInv => StoppedClean
  <2> SUFFICES ASSUME Inv, StopInv,
                      app = "opentcp" \/ (app = "idle" /\ server = "off" /\ goal = "stop")
               PROVE  /\ Listed = {}
                      /\ \A c \in Clients : link[c] = "open" => c \in WsClients \ shaken
                      /\ lsn = [l \in Listeners |-> FALSE]
                      /\ terminated <= run
    BY DEF StoppedClean
  <2>1. Listed = {}
    BY DEF StopInv, Joined, Emptied
  <2>2. lsn \in [Listeners -> BOOLEAN] /\ ~lsn["tcp"] /\ ~lsn["ws"]
    BY DEF Inv, TypeOK, StopInv, ListenersShut
  <2>3. lsn = [l \in Listeners |-> FALSE]
    BY <2>2 DEF Listeners
  <2> QED
    BY <2>1, <2>3 DEF StopInv, OpenKnown, EndedOnce
<1> QED
  BY <1>1, <1>2, <1>3, InvAlways, PTL DEF Spec

-----------------------------------------------------------------------------
(* What a Recv does to a plain TCP connection.                              *)

Plain == Clients \ WsClients

\* A callback for one connection is none for another.
LEMMA PostApart ==
  ASSUME TypeOK, NEW c, NEW e, Post(c, e), NEW d \in Clients, d # c
  PROVE  posted'[d] = posted[d]
<1>1. PICK s : posted' = [posted EXCEPT ![c] = s]
  BY DEF Post
<1> QED
  BY <1>1 DEF TypeOK

\* What IncommingData does to a plain connection: nothing; or it has nothing
\* to read and is marked; or some bytes go to one ReadData.
LEMMA PlainRead ==
  ASSUME TypeOK, NEW e \in batch, IncommingData(e), NEW d \in Plain
  PROVE  \/ /\ rx'[d] = rx[d] /\ delivered'[d] = delivered[d]
            /\ posted'[d] = posted[d] /\ mClients'[d] = mClients[d]
         \/ /\ d \in Listed /\ fd[d] = e.src /\ rx[d] = 0
            /\ rx'[d] = rx[d] /\ delivered'[d] = delivered[d]
            /\ posted'[d] = posted[d] /\ mClients'[d] = "DeleteLater"
         \/ /\ d \in Listed /\ fd[d] = e.src
            /\ \E n \in 1..MAXRECV :
                 /\ n <= rx[d]
                 /\ rx'[d] = rx[d] - n /\ delivered'[d] = delivered[d] + n
            /\ posted'[d] = Append(posted[d], "ReadData")
            /\ mClients'[d] = mClients[d]
<1>0. d \in Clients /\ d \notin WsClients
  BY DEF Plain
<1>1. CASE UNCHANGED <<rx, mClients, delivered, posted, shaken>>
  BY <1>1
<1>2. ASSUME NEW c \in Listed, fd[c] = e.src,
             RecvNothing(c) \/ RecvTcp(c) \/ RecvHandshake(c) \/ RecvFrame(c)
      PROVE  \/ /\ rx'[d] = rx[d] /\ delivered'[d] = delivered[d]
                /\ posted'[d] = posted[d] /\ mClients'[d] = mClients[d]
             \/ /\ d = c /\ rx[d] = 0
                /\ rx'[d] = rx[d] /\ delivered'[d] = delivered[d]
                /\ posted'[d] = posted[d] /\ mClients'[d] = "DeleteLater"
             \/ /\ d = c
                /\ \E n \in 1..MAXRECV :
                     /\ n <= rx[d]
                     /\ rx'[d] = rx[d] - n /\ delivered'[d] = delivered[d] + n
                /\ posted'[d] = Append(posted[d], "ReadData")
                /\ mClients'[d] = mClients[d]
  <2>0. c \in Clients
    BY DEF Listed
  <2>1. CASE RecvNothing(c)
    BY <1>0, <2>0, <2>1 DEF RecvNothing, SetState, TypeOK
  <2>2. CASE RecvTcp(c)
    <3>1. PICK n \in 1..MAXRECV :
            Recv(c, n) /\ delivered' = [delivered EXCEPT ![c] = @ + n]
      BY <2>2 DEF RecvTcp
    <3>2. n <= rx[c] /\ rx' = [rx EXCEPT ![c] = @ - n]
      BY <3>1, <2>0, ServerAssumption DEF Recv, TypeOK
    <3> QED
      BY <1>0, <2>0, <2>2, <3>1, <3>2 DEF RecvTcp, Post, TypeOK
  <2>3. CASE RecvHandshake(c)
    <3>1. d # c
      BY <1>0, <2>3 DEF RecvHandshake
    <3>2. rx'[d] = rx[d] /\ delivered'[d] = delivered[d]
      BY <1>0, <2>3, <3>1 DEF RecvHandshake, Recv, TypeOK
    <3>3. posted'[d] = posted[d]
      <4>1. Post(c, "NewConnection") \/ Post(c, "ReadData")
        BY <2>3 DEF RecvHandshake
      <4> QED
        BY <1>0, <3>1, <4>1, PostApart
    <3>4. mClients'[d] = mClients[d]
      BY <1>0, <2>3, <3>1 DEF RecvHandshake, SetState, TypeOK
    <3> QED
      BY <3>2, <3>3, <3>4
  <2>4. CASE RecvFrame(c)
    <3>1. d # c
      BY <1>0, <2>4 DEF RecvFrame
    <3>2. rx'[d] = rx[d] /\ delivered'[d] = delivered[d]
      BY <1>0, <2>4, <3>1 DEF RecvFrame, Recv, TypeOK
    <3>3. posted'[d] = posted[d] /\ mClients'[d] = mClients[d]
      BY <1>0, <2>4, <3>1 DEF RecvFrame, SetState, Post, TypeOK
    <3> QED
      BY <3>2, <3>3
  <2> QED
    BY <1>2, <2>1, <2>2, <2>3, <2>4
<1> QED
  BY <1>1, <1>2 DEF IncommingData

-----------------------------------------------------------------------------
(* The callbacks of a connection.                                           *)

\* What IncommingData does to a connection as far as its callbacks go:
\* nothing, but perhaps a mark; one ReadData; or the handshake's NewConnection.
LEMMA ReadPosts ==
  ASSUME TypeOK, NEW e \in batch, IncommingData(e), NEW d \in Clients
  PROVE  \/ /\ posted'[d] = posted[d] /\ (d \in shaken' <=> d \in shaken)
            /\ \/ mClients'[d] = mClients[d]
               \/ d \in Listed /\ mClients'[d] = "DeleteLater"
         \/ /\ d \in Listed /\ posted'[d] = Append(posted[d], "ReadData")
            /\ (d \in shaken' <=> d \in shaken)
            /\ d \in WsClients => mClients'[d] # "Closed"
         \/ /\ d \in Listed /\ d \in WsClients /\ mClients[d] = "Closed"
            /\ posted'[d] = Append(posted[d], "NewConnection")
            /\ mClients'[d] = "Connected" /\ d \in shaken'
<1> DEFINE Quiet == /\ posted'[d] = posted[d] /\ (d \in shaken' <=> d \in shaken)
                    /\ \/ mClients'[d] = mClients[d]
                       \/ d \in Listed /\ mClients'[d] = "DeleteLater"
           Data == /\ d \in Listed /\ posted'[d] = Append(posted[d], "ReadData")
                   /\ (d \in shaken' <=> d \in shaken)
                   /\ d \in WsClients => mClients'[d] # "Closed"
           Shake == /\ d \in Listed /\ d \in WsClients /\ mClients[d] = "Closed"
                    /\ posted'[d] = Append(posted[d], "NewConnection")
                    /\ mClients'[d] = "Connected" /\ d \in shaken'
<1>1. CASE UNCHANGED <<rx, mClients, delivered, posted, shaken>>
  BY <1>1
<1>2. ASSUME NEW c \in Listed, d # c,
             RecvNothing(c) \/ RecvTcp(c) \/ RecvHandshake(c) \/ RecvFrame(c)
      PROVE  Quiet
  <2>1. mClients'[d] = mClients[d] /\ (d \in shaken' <=> d \in shaken)
    <3>1. \/ mClients' = mClients /\ shaken' = shaken
          \/ mClients' = [mClients EXCEPT ![c] = "DeleteLater"] /\ shaken' = shaken
          \/ /\ mClients' = [mClients EXCEPT ![c] = "Connected"]
             /\ shaken' = shaken \cup {c}
      BY <1>2, RecvEffect
    <3> QED
      BY <1>2, <3>1 DEF TypeOK
  <2>2. UNCHANGED posted \/ \E x : Post(c, x)
    BY <1>2 DEF RecvNothing, RecvTcp, RecvHandshake, RecvFrame
  <2>3. posted'[d] = posted[d]
    BY <1>2, <2>2, PostApart
  <2> QED
    BY <2>1, <2>3
<1>3. ASSUME d \in Listed,
             RecvNothing(d) \/ RecvTcp(d) \/ RecvHandshake(d) \/ RecvFrame(d)
      PROVE  Quiet \/ Data \/ Shake
  <2>1. CASE RecvNothing(d)
    BY <1>3, <2>1 DEF RecvNothing, SetState, TypeOK
  <2>2. CASE RecvTcp(d)
    <3>1. posted'[d] = Append(posted[d], "ReadData") /\ shaken' = shaken /\ d \notin WsClients
      BY <2>2 DEF RecvTcp, Post, TypeOK
    <3> QED
      BY <1>3, <3>1
  <2>3. CASE RecvHandshake(d)
    <3>0. d \in WsClients /\ mClients[d] = "Closed"
      BY <2>3 DEF RecvHandshake
    <3>1. CASE SetState(d, "Connected") /\ Post(d, "NewConnection") /\ shaken' = shaken \cup {d}
      BY <1>3, <3>0, <3>1 DEF SetState, Post, TypeOK
    <3>2. CASE SetState(d, "DeleteLater") /\ Post(d, "ReadData") /\ UNCHANGED shaken
      BY <1>3, <3>0, <3>2 DEF SetState, Post, TypeOK
    <3> QED
      BY <2>3, <3>1, <3>2 DEF RecvHandshake
  <2>4. CASE RecvFrame(d)
    <3>0. mClients[d] # "Closed" /\ shaken' = shaken
      BY <2>4 DEF RecvFrame
    <3>1. CASE SetState(d, "DeleteLater") /\ UNCHANGED posted
      BY <1>3, <3>0, <3>1 DEF SetState, TypeOK
    <3>2. CASE UNCHANGED <<mClients, posted>>
      BY <3>0, <3>2
    <3>3. CASE UNCHANGED mClients /\ Post(d, "ReadData")
      BY <1>3, <3>0, <3>3 DEF Post, TypeOK
    <3> QED
      BY <2>4, <3>1, <3>2, <3>3 DEF RecvFrame
  <2> HIDE DEF Quiet, Data, Shake
  <2> QED
    BY <1>3, <2>1, <2>2, <2>3, <2>4
<1>4. Quiet \/ Data \/ Shake
  <2> HIDE DEF Quiet, Data, Shake
  <2>1. \/ UNCHANGED <<rx, mClients, delivered, posted, shaken>>
        \/ \E c \in Listed : RecvNothing(c) \/ RecvTcp(c) \/ RecvHandshake(c) \/ RecvFrame(c)
    BY DEF IncommingData
  <2>2. CASE UNCHANGED <<rx, mClients, delivered, posted, shaken>>
    BY <2>2 DEF Quiet
  <2> QED
    BY <1>2, <1>3, <2>1, <2>2
<1> QED
  BY <1>4

\* NewConnection is handed in for a connection as soon as it is accepted, for
\* a WebSocket connection when its handshake succeeds.
Announced(c) == c \in WsClients => c \in shaken

\* The callbacks of a connection are in order; none was handed in before it
\* was accepted, for a WebSocket connection before its request was read.
OrderOf(c) ==
  /\ link[c] \in {"new", "backlog", "refused"} => posted[c] = <<>>
  /\ c \in Listed /\ Announced(c) => posted[c] # <<>>
  /\ c \in WsClients /\ mClients[c] = "Closed" => posted[c] = <<>>
  /\ \A i \in DOMAIN posted[c] :
       /\ (posted[c][i] = "NewConnection") <=> (i = 1 /\ Announced(c))
       /\ posted[c][i] = "ClientClosed" => i = Len(posted[c]) /\ c \notin Listed

Order == \A c \in Clients : OrderOf(c)

\* A step that hands in nothing for a connection and does not list it.
LEMMA OrderQuiet ==
  ASSUME NEW d \in Clients, OrderOf(d), posted'[d] = posted[d],
         d \in Listed' => d \in Listed, d \in shaken' <=> d \in shaken,
         mClients'[d] = "Closed" => mClients[d] = "Closed",
         link'[d] \in {"new", "backlog", "refused"}
           => link[d] \in {"new", "backlog", "refused"}
  PROVE  OrderOf(d)'
BY DEF OrderOf, Announced

\* The first callback of a connection.
LEMMA OrderFirst ==
  ASSUME TypeOK, NEW d \in Clients, posted[d] = <<>>, NEW x,
         posted'[d] = Append(posted[d], x), x = "NewConnection" <=> Announced(d)',
         x # "ClientClosed", link'[d] = "open", d \in WsClients => mClients'[d] # "Closed"
  PROVE  OrderOf(d)'
<1>1. Len(posted'[d]) = 1 /\ posted'[d][1] = x /\ DOMAIN posted'[d] = 1..1
  OBVIOUS
<1>2. posted'[d] # <<>>
  BY <1>1
<1> QED
  BY <1>1, <1>2 DEF OrderOf

\* One more callback for a listed connection.
LEMMA OrderAppend ==
  ASSUME TypeOK, ListedOpen, NEW d \in Clients, OrderOf(d), d \in Listed,
         NEW x \in {"ReadData", "ClientClosed"},
         posted'[d] = Append(posted[d], x),
         x = "ClientClosed" => d \notin Listed',
         d \in shaken' <=> d \in shaken, d \in WsClients => mClients'[d] # "Closed",
         link'[d] \in {"open", "closed"}
  PROVE  OrderOf(d)'
<1>1. PICK s : s = posted[d]
  OBVIOUS
<1>2. /\ s \in Seq({"NewConnection", "ReadData", "ClientClosed"}) /\ Len(s) \in Nat
      /\ DOMAIN s = 1..Len(s) /\ posted'[d] = Append(s, x)
  BY <1>1 DEF TypeOK
<1>3. Announced(d) => Len(s) # 0
  BY <1>1, <1>2 DEF OrderOf
<1>4. /\ Len(posted'[d]) = Len(s) + 1 /\ DOMAIN posted'[d] = 1..(Len(s) + 1)
      /\ posted'[d][Len(s) + 1] = x
      /\ \A i \in 1..Len(s) : posted'[d][i] = s[i]
  BY <1>2
<1>5. Announced(d)' <=> Announced(d)
  BY DEF Announced
<1>6. ASSUME NEW i \in DOMAIN posted'[d]
      PROVE  /\ (posted'[d][i] = "NewConnection") <=> (i = 1 /\ Announced(d))
             /\ posted'[d][i] = "ClientClosed" => i = Len(posted'[d]) /\ d \notin Listed'
  <2>1. CASE i = Len(s) + 1
    BY <2>1, <1>2, <1>3, <1>4
  <2>2. CASE i \in 1..Len(s)
    <3>1. posted'[d][i] = s[i] /\ i \in DOMAIN s
      BY <2>2, <1>2, <1>4
    <3>2. ((s[i] = "NewConnection") <=> (i = 1 /\ Announced(d))) /\ s[i] # "ClientClosed"
      BY <3>1, <1>1 DEF OrderOf
    <3> QED
      BY <3>1, <3>2
  <2> QED
    BY <2>1, <2>2, <1>2, <1>4
<1>7. posted'[d] # <<>>
  BY <1>2, <1>4
<1> QED
  BY <1>5, <1>6, <1>7 DEF OrderOf

\* Every step keeps the callbacks of a connection in order.
LEMMA OrderStep == Inv /\ Order /\ [Next]_vars => Order'
<1> SUFFICES ASSUME Inv, Order, [Next]_vars, NEW d \in Clients PROVE OrderOf(d)'
  BY DEF Order
<1>0. TypeOK /\ TypeOK' /\ ListedOpen /\ ShakenKnown /\ OrderOf(d)
  BY TypeStep DEF Inv, Table, Order
<1>1. CASE UNCHANGED <<link, mClients, posted, shaken>>
  BY <1>0, <1>1, OrderQuiet DEF Listed
<1>2. ASSUME NEW c \in Clients, PeerConnect(c) PROVE OrderOf(d)'
  BY <1>0, <1>2, OrderQuiet DEF PeerConnect, Listed, serverVars, ghosts, TypeOK
<1>3. CASE StopCloses
  BY <1>0, <1>3, OrderQuiet DEF StopCloses, CloseListener, Backlog, Listed,
                                serverVars, ghosts, TypeOK
<1>4. ASSUME NEW e \in batch, RemoveClient(e) PROVE OrderOf(d)'
  BY <1>0, <1>4, OrderQuiet DEF RemoveClient, Listed, kernelVars, ghosts, TypeOK
<1>5. ASSUME NEW e \in batch, IncommingData(e) PROVE OrderOf(d)'
  <2>1. link' = link /\ (d \in Listed => link'[d] = "open")
    BY <1>0, <1>5 DEF IncommingData, ListedOpen
  <2>2. CASE /\ posted'[d] = posted[d] /\ (d \in shaken' <=> d \in shaken)
             /\ \/ mClients'[d] = mClients[d]
                \/ d \in Listed /\ mClients'[d] = "DeleteLater"
    BY <1>0, <2>1, <2>2, OrderQuiet DEF Listed
  <2>3. CASE /\ d \in Listed /\ posted'[d] = Append(posted[d], "ReadData")
             /\ (d \in shaken' <=> d \in shaken)
             /\ d \in WsClients => mClients'[d] # "Closed"
    BY <1>0, <2>1, <2>3, OrderAppend
  <2>4. CASE /\ d \in Listed /\ d \in WsClients /\ mClients[d] = "Closed"
             /\ posted'[d] = Append(posted[d], "NewConnection")
             /\ mClients'[d] = "Connected" /\ d \in shaken'
    <3>1. posted[d] = <<>> /\ Announced(d)'
      BY <1>0, <2>4 DEF OrderOf, Announced
    <3> QED
      BY <1>0, <2>1, <2>4, <3>1, OrderFirst
  <2> QED
    BY <1>0, <1>5, <2>2, <2>3, <2>4, ReadPosts
<1>6. CASE AcceptOne
  <2>1. PICK c \in Backlog(accepting) :
          /\ link' = [link EXCEPT ![c] = "open"]
          /\ mClients' = [mClients EXCEPT ![c] = "Closed"]
          /\ \/ c \in WsClients /\ UNCHANGED posted
             \/ c \notin WsClients /\ Post(c, "NewConnection")
    BY <1>6 DEF AcceptOne
  <2>2. c \in Clients /\ link[c] = "backlog" /\ shaken' = shaken
    BY <1>6 DEF Backlog, AcceptOne
  <2>3. CASE d = c
    <3>0. posted[d] = <<>> /\ link'[d] = "open" /\ d \notin shaken
      BY <1>0, <2>1, <2>2, <2>3 DEF OrderOf, ShakenKnown, TypeOK
    <3>1. CASE d \notin WsClients
      <4>1. posted'[d] = Append(posted[d], "NewConnection") /\ Announced(d)'
        BY <1>0, <2>1, <2>3, <3>1 DEF Post, Announced, TypeOK
      <4> QED
        BY <1>0, <3>0, <3>1, <4>1, OrderFirst
    <3>2. CASE d \in WsClients
      <4>1. posted'[d] = <<>> /\ ~Announced(d)' /\ DOMAIN posted'[d] = {}
        BY <2>1, <2>2, <2>3, <3>0, <3>2 DEF Announced
      <4> QED
        BY <3>0, <4>1 DEF OrderOf
    <3> QED
      BY <3>1, <3>2
  <2>4. CASE d # c
    <3>0. posted'[d] = posted[d]
      BY <1>0, <2>1, <2>4, PostApart
    <3>1. mClients'[d] = mClients[d] /\ link'[d] = link[d]
      BY <1>0, <2>1, <2>4 DEF TypeOK
    <3> QED
      BY <1>0, <2>2, <3>0, <3>1, OrderQuiet DEF Listed
  <2> QED
    BY <2>3, <2>4
<1>7. CASE UpdateClients
  <2>0. shaken' = shaken
    BY <1>7 DEF UpdateClients
  <2>1. CASE d \in Listed /\ mClients[d] = "DeleteLater"
    <3>1. /\ posted'[d] = Append(posted[d], "ClientClosed")
          /\ mClients'[d] = "absent" /\ link'[d] = "closed"
      BY <1>0, <1>7, <2>1 DEF UpdateClients, CloseAll, IsConnected
    <3>2. d \notin Listed'
      BY <3>1 DEF Listed
    <3> QED
      BY <1>0, <2>0, <2>1, <3>1, <3>2, OrderAppend
  <2>2. CASE ~(d \in Listed /\ mClients[d] = "DeleteLater")
    <3>1. posted'[d] = posted[d] /\ mClients'[d] = mClients[d] /\ link'[d] = link[d]
      BY <1>0, <1>7, <2>2 DEF UpdateClients, CloseAll
    <3> QED
      BY <1>0, <2>0, <3>1, OrderQuiet DEF Listed
  <2> QED
    BY <2>1, <2>2
<1>8. CASE Cleanup
  <2>1. /\ posted' = posted /\ shaken' = shaken
        /\ mClients'[d] = "absent" /\ link'[d] \in {link[d], "closed"}
    BY <1>0, <1>8 DEF Cleanup, CloseAll, ghosts
  <2> QED
    BY <1>0, <2>1, OrderQuiet DEF Listed
<1>9. ASSUME NEW wsOnly \in BOOLEAN, SendToAllClients(wsOnly) PROVE OrderOf(d)'
  <2>1. /\ posted' = posted /\ link' = link /\ Listed' = Listed /\ shaken' = shaken
        /\ mClients'[d] = "Closed" => mClients[d] = "Closed"
    BY <1>0, <1>9 DEF SendToAllClients, Listed, kernelVars, TypeOK
  <2> QED
    BY <1>0, <2>1, OrderQuiet
<1> QED
  BY <1>1, <1>2, <1>3, <1>4, <1>5, <1>6, <1>7, <1>8, <1>9
     DEF Next, vars, PeerStep, PeerSend, PeerShutdown, PeerReset,
         ServerStep, SetUp, CreateEpoll, TestListener, AddListener, CreatePipe,
         AddPipe, EpollWait, EpollWaitFails, HandleEvent,
         PipeReadable, ListenerReadable, AcceptNone, CallStop, CallStart,
         AppStep, StopWrites, StopJoins, StartOpens, StartSpawns,
         kernelVars, serverVars, ghosts

\* For any number of connections the callbacks of one are NewConnection, for a
\* WebSocket connection exactly if its handshake succeeded, then ReadData, and
\* at most one ClientClosed at the end.
THEOREM ServerCallbackOrder == Spec => []CallbackOrder
<1>1. Init => Order
  BY DEF Init, Order, OrderOf, Listed
<1>2. Order => CallbackOrder
  BY DEF Order, OrderOf, CallbackOrder, Announced
<1> QED
  BY <1>1, <1>2, OrderStep, InvAlways, PTL DEF Spec

-----------------------------------------------------------------------------
(* The reason for which a plain TCP connection is closed.                   *)

\* The peer reset it, a Send to it failed, or the peer shut down and all that
\* it sent has been read.  A reason does not go away.
Reason(c) == rst[c] \/ c \in unsent \/ (fin[c] /\ rx[c] = 0)

\* No byte is lost between the kernel and ReadData, and a connection that is
\* marked for deletion, or reported closed, has its reason.
CauseOf(c) ==
  /\ delivered[c] + rx[c] = sent[c]
  /\ mClients[c] = "DeleteLater" => Reason(c)
  /\ Posted(c, "ClientClosed") => Reason(c)

Cause == \A c \in Plain : CauseOf(c)

\* The events of a batch are still true when they are handled: descriptors
\* are not handed out again before the batch is done, a hang-up stays one, and
\* only the event itself takes away what there is to read.
EventsHold ==
  server = "batch" => \A e \in batch : e.src \in Fds =>
    /\ owner[e.src] # None
    /\ \A c \in Listed \cap Plain : fd[c] = e.src =>
         /\ e.hup => rst[c]
         /\ ~e.hup => rx[c] > 0 \/ fin[c] \/ rst[c]

\* A step that leaves the bytes of a connection alone.
LEMMA CauseQuiet ==
  ASSUME NEW d \in Plain, CauseOf(d), posted'[d] = posted[d],
         delivered'[d] = delivered[d], rx'[d] = rx[d], sent'[d] = sent[d],
         Reason(d) => Reason(d)',
         mClients'[d] = "DeleteLater" => mClients[d] = "DeleteLater" \/ Reason(d)'
  PROVE  CauseOf(d)'
BY DEF CauseOf, Posted

\* A callback other than ClientClosed.
LEMMA PostedOther ==
  ASSUME TypeOK, NEW d \in Clients, NEW x, x # "ClientClosed",
         posted'[d] = Append(posted[d], x)
  PROVE  Posted(d, "ClientClosed")' => Posted(d, "ClientClosed")
<1>1. PICK s : s = posted[d]
  OBVIOUS
<1>2. /\ s \in Seq({"NewConnection", "ReadData", "ClientClosed"}) /\ Len(s) \in Nat
      /\ DOMAIN s = 1..Len(s) /\ posted'[d] = Append(s, x)
  BY <1>1 DEF TypeOK
<1>3. /\ DOMAIN posted'[d] = 1..(Len(s) + 1) /\ posted'[d][Len(s) + 1] = x
      /\ \A i \in 1..Len(s) : posted'[d][i] = s[i]
  BY <1>2
<1>4. ASSUME NEW i \in DOMAIN posted'[d], posted'[d][i] = "ClientClosed"
      PROVE  i \in DOMAIN s /\ s[i] = "ClientClosed"
  <2>1. i # Len(s) + 1
    BY <1>3, <1>4
  <2>2. i \in 1..Len(s)
    BY <1>2, <1>3, <2>1
  <2> QED
    BY <1>2, <1>3, <1>4, <2>2
<1> QED
  BY <1>1, <1>4 DEF Posted

\* Every step keeps the bytes and the reasons.
LEMMA CauseStep == Inv /\ Cause /\ EventsHold /\ [Next]_vars => Cause'
<1> SUFFICES ASSUME Inv, Cause, EventsHold, [Next]_vars, NEW d \in Plain
             PROVE  CauseOf(d)'
  BY DEF Cause, Plain
<1>0. /\ TypeOK /\ TypeOK' /\ ListedOpen /\ CauseOf(d)
      /\ d \in Clients /\ d \notin WsClients
  BY TypeStep DEF Inv, Table, Cause, Plain
<1>t. /\ rx[d] \in Nat /\ sent[d] \in Nat /\ delivered[d] \in Nat
      /\ Listed \subseteq Clients
  BY <1>0 DEF TypeOK, Listed
<1>1. CASE UNCHANGED <<rx, fin, rst, mClients, sent, delivered, posted, unsent>>
  BY <1>0, <1>1, CauseQuiet DEF Reason
<1>2. ASSUME NEW c \in Clients, PeerSend(c) PROVE CauseOf(d)'
  <2>1. UNCHANGED <<mClients, posted, delivered, fin, rst, unsent>>
    BY <1>2 DEF PeerSend, serverVars
  <2>2. CASE d = c
    <3>1. rx'[d] = rx[d] + 1 /\ sent'[d] = sent[d] + 1 /\ ~fin[d]
      BY <1>0, <1>2, <2>2 DEF PeerSend, PeerAlive, TypeOK
    <3>2. delivered'[d] + rx'[d] = sent'[d]
      BY <1>0, <1>t, <2>1, <3>1 DEF CauseOf
    <3>3. Reason(d) => Reason(d)'
      BY <2>1, <3>1 DEF Reason
    <3> QED
      BY <1>0, <2>1, <3>2, <3>3 DEF CauseOf, Posted
  <2>3. CASE d # c
    <3>1. rx'[d] = rx[d] /\ sent'[d] = sent[d]
      BY <1>0, <1>2, <2>3 DEF PeerSend, TypeOK
    <3> QED
      BY <1>0, <2>1, <3>1, CauseQuiet DEF Reason
  <2> QED
    BY <2>2, <2>3
<1>3. ASSUME NEW c \in Clients, PeerShutdown(c) \/ PeerReset(c) PROVE CauseOf(d)'
  <2>1. UNCHANGED <<rx, mClients, sent, delivered, posted, unsent>>
    BY <1>3 DEF PeerShutdown, PeerReset, serverVars, ghosts
  <2>2. (fin[d] => fin'[d]) /\ (rst[d] => rst'[d])
    <3>1. CASE PeerShutdown(c)
      BY <1>0, <3>1 DEF PeerShutdown, TypeOK
    <3>2. CASE PeerReset(c)
      BY <1>0, <3>2 DEF PeerReset, TypeOK
    <3> QED
      BY <1>3, <3>1, <3>2
  <2> QED
    BY <1>0, <2>1, <2>2, CauseQuiet DEF Reason
<1>4. ASSUME NEW e \in batch, RemoveClient(e) PROVE CauseOf(d)'
  <2>1. /\ UNCHANGED <<rx, fin, rst, sent, delivered, posted, unsent>>
        /\ server = "batch" /\ e.hup
        /\ mClients'[d] = IF d \in Listed /\ fd[d] = e.src THEN "DeleteLater"
                          ELSE mClients[d]
    BY <1>0, <1>4 DEF RemoveClient, Handling, kernelVars, ghosts
  <2>2. d \in Listed /\ fd[d] = e.src => rst[d]
    BY <1>0, <2>1 DEF EventsHold, ListedOpen
  <2> QED
    BY <1>0, <2>1, <2>2, CauseQuiet DEF Reason
<1>5. ASSUME NEW e \in batch, IncommingData(e) PROVE CauseOf(d)'
  <2>1. /\ UNCHANGED <<fin, rst, sent, unsent>>
        /\ server = "batch" /\ ~e.hup
    BY <1>5 DEF IncommingData, Handling
  <2>2. CASE /\ rx'[d] = rx[d] /\ delivered'[d] = delivered[d]
             /\ posted'[d] = posted[d] /\ mClients'[d] = mClients[d]
    BY <1>0, <2>1, <2>2, CauseQuiet DEF Reason
  <2>3. CASE /\ d \in Listed /\ fd[d] = e.src /\ rx[d] = 0
             /\ rx'[d] = rx[d] /\ delivered'[d] = delivered[d]
             /\ posted'[d] = posted[d] /\ mClients'[d] = "DeleteLater"
    <3>1. fin[d] \/ rst[d]
      BY <1>0, <2>1, <2>3 DEF EventsHold, ListedOpen
    <3> QED
      BY <1>0, <2>1, <2>3, <3>1, CauseQuiet DEF Reason
  <2>4. ASSUME NEW n \in 1..MAXRECV, n <= rx[d],
               rx'[d] = rx[d] - n, delivered'[d] = delivered[d] + n,
               posted'[d] = Append(posted[d], "ReadData"), mClients'[d] = mClients[d]
        PROVE  CauseOf(d)'
    <3>1. delivered'[d] + rx'[d] = sent'[d] /\ rx[d] # 0
      BY <1>0, <1>t, <2>1, <2>4, ServerAssumption DEF CauseOf
    <3>2. Reason(d) => Reason(d)'
      BY <2>1, <3>1 DEF Reason
    <3>3. Posted(d, "ClientClosed")' => Posted(d, "ClientClosed")
      BY <1>0, <2>4, PostedOther
    <3> QED
      BY <1>0, <2>4, <3>1, <3>2, <3>3 DEF CauseOf
  <2> QED
    BY <1>0, <1>5, <2>2, <2>3, <2>4, PlainRead
<1>6. CASE AcceptOne
  <2>1. PICK c \in Backlog(accepting) :
          /\ mClients' = [mClients EXCEPT ![c] = "Closed"]
          /\ UNCHANGED posted \/ Post(c, "NewConnection")
    BY <1>6 DEF AcceptOne
  <2>2. c \in Clients /\ UNCHANGED <<rx, fin, rst, sent, delivered, unsent>>
    BY <1>6 DEF Backlog, AcceptOne
  <2>3. mClients'[d] = "DeleteLater" => mClients[d] = "DeleteLater"
    BY <1>0, <2>1, <2>2 DEF TypeOK
  <2>4. CASE posted'[d] = posted[d]
    BY <1>0, <2>2, <2>3, <2>4, CauseQuiet DEF Reason
  <2>5. CASE posted'[d] = Append(posted[d], "NewConnection")
    <3>1. Posted(d, "ClientClosed")' => Posted(d, "ClientClosed")
      BY <1>0, <2>5, PostedOther
    <3> QED
      BY <1>0, <2>2, <2>3, <3>1 DEF CauseOf, Reason
  <2>6. posted'[d] = posted[d] \/ posted'[d] = Append(posted[d], "NewConnection")
    <3>1. CASE UNCHANGED posted
      BY <3>1
    <3>2. CASE Post(c, "NewConnection")
      BY <1>0, <2>2, <3>2 DEF Post, TypeOK
    <3> QED
      BY <2>1, <3>1, <3>2
  <2> QED
    BY <2>4, <2>5, <2>6
<1>7. CASE UpdateClients
  <2>1. UNCHANGED <<rx, fin, rst, sent, delivered, unsent>>
    BY <1>7 DEF UpdateClients
  <2>2. CASE d \in Listed /\ mClients[d] = "DeleteLater"
    <3>1. Reason(d)'
      BY <1>0, <2>1, <2>2 DEF CauseOf, Reason
    <3> QED
      BY <1>0, <2>1, <3>1 DEF CauseOf
  <2>3. CASE ~(d \in Listed /\ mClients[d] = "DeleteLater")
    <3>1. posted'[d] = posted[d] /\ mClients'[d] = mClients[d]
      BY <1>0, <1>7, <2>3 DEF UpdateClients
    <3> QED
      BY <1>0, <2>1, <3>1, CauseQuiet DEF Reason
  <2> QED
    BY <2>2, <2>3
<1>8. CASE Cleanup
  <2>1. /\ UNCHANGED <<rx, fin, rst, sent, delivered, posted, unsent>>
        /\ mClients'[d] = "absent"
    BY <1>0, <1>8 DEF Cleanup, ghosts
  <2> QED
    BY <1>0, <2>1, CauseQuiet DEF Reason
<1>9. ASSUME NEW wsOnly \in BOOLEAN, SendToAllClients(wsOnly) PROVE CauseOf(d)'
  <2>1. PICK failed \in SUBSET Listed :
          /\ mClients' = [c \in Clients |-> IF c \in failed THEN "DeleteLater"
                                            ELSE mClients[c]]
          /\ unsent' = unsent \cup failed
    BY <1>9 DEF SendToAllClients
  <2>2. UNCHANGED <<rx, fin, rst, sent, delivered, posted>>
    BY <1>9 DEF SendToAllClients, kernelVars
  <2> QED
    BY <1>0, <2>1, <2>2, CauseQuiet DEF Reason
<1> QED
  BY <1>1, <1>2, <1>3, <1>4, <1>5, <1>6, <1>7, <1>8, <1>9
     DEF Next, vars, PeerStep, PeerConnect,
         ServerStep, SetUp, CreateEpoll, TestListener, AddListener, CreatePipe,
         AddPipe, EpollWait, EpollWaitFails, HandleEvent,
         PipeReadable, ListenerReadable, AcceptNone, CallStop, CallStart,
         AppStep, StopWrites, StopCloses, StopJoins, StartOpens, StartSpawns,
         kernelVars, serverVars, ghosts

\* Every step keeps the events of the batch true.
LEMMA EventsHoldStep == Inv /\ EventsHold /\ [Next]_vars => EventsHold'
<1> SUFFICES ASSUME Inv, EventsHold, [Next]_vars PROVE EventsHold'
  OBVIOUS
<1>0. TypeOK /\ TypeOK' /\ ListedOpen /\ \A c \in Listed \cap Plain : c \in Clients
  BY TypeStep DEF Inv, Table, Listed
<1>1. ASSUME server' = "batch" => server = "batch", batch' \subseteq batch,
             UNCHANGED <<owner, fd>>, Listed' = Listed,
             \A c \in Listed \cap Plain :
               (rx[c] > 0 => rx'[c] > 0) /\ (fin[c] => fin'[c]) /\ (rst[c] => rst'[c])
      PROVE  EventsHold'
  BY <1>1 DEF EventsHold, Plain
<1>2. CASE UNCHANGED <<server, batch, owner, fd, mClients, rx, fin, rst>>
  BY <1>1, <1>2 DEF Listed
<1>3. CASE server' # "batch"
  BY <1>3 DEF EventsHold
<1>4. ASSUME NEW c \in Clients, PeerStep(c) PROVE EventsHold'
  <2>1. UNCHANGED <<server, batch, owner, fd, mClients>>
    BY <1>4 DEF PeerStep, PeerConnect, PeerSend, PeerShutdown, PeerReset, serverVars
  <2>2. \A d \in Clients :
          (rx[d] > 0 => rx'[d] > 0) /\ (fin[d] => fin'[d]) /\ (rst[d] => rst'[d])
    <3>1. CASE PeerConnect(c)
      BY <3>1 DEF PeerConnect
    <3>2. CASE PeerSend(c)
      BY <1>0, <3>2 DEF PeerSend, TypeOK
    <3>3. CASE PeerShutdown(c)
      BY <1>0, <3>3 DEF PeerShutdown, TypeOK
    <3>4. CASE PeerReset(c)
      BY <1>0, <3>4 DEF PeerReset, TypeOK
    <3> QED
      BY <1>4, <3>1, <3>2, <3>3, <3>4 DEF PeerStep
  <2> QED
    BY <1>0, <1>1, <2>1, <2>2 DEF Listed
<1>5. CASE EpollWait
  <2>1. PICK got \in SUBSET edge :
          /\ \A s \in got : Ready(s)
          /\ batch' = {[src |-> s, hup |-> Hup(s)] : s \in got}
    BY <1>5 DEF EpollWait
  <2>2. UNCHANGED <<owner, fd, mClients, rx, fin, rst>> /\ Listed' = Listed
    BY <1>5 DEF EpollWait, Listed
  <2> SUFFICES ASSUME NEW e \in batch', e.src \in Fds
               PROVE  /\ owner[e.src] # None
                      /\ \A c \in Listed \cap Plain : fd[c] = e.src =>
                           /\ e.hup => rst[c]
                           /\ ~e.hup => rx[c] > 0 \/ fin[c] \/ rst[c]
    BY <2>2 DEF EventsHold, Plain
  <2>3. PICK s \in got : e.src = s /\ e.hup = Hup(s)
    BY <2>1
  <2>4. owner[s] # None /\ (rx[owner[s]] > 0 \/ fin[owner[s]] \/ rst[owner[s]])
    BY <2>1, <2>3, ServerAssumption DEF Ready, Listeners
  <2>5. \A c \in Listed \cap Plain : fd[c] = s => owner[s] = c
    BY <1>0 DEF ListedOpen
  <2> QED
    BY <2>3, <2>4, <2>5 DEF Hup
<1>6. ASSUME NEW e \in batch, RemoveClient(e) PROVE EventsHold'
  <2>1. /\ UNCHANGED <<server, owner, fd, rx, fin, rst>> /\ batch' \subseteq batch
        /\ Listed' = Listed
    BY <1>0, <1>6 DEF RemoveClient, Handling, Listed, kernelVars, TypeOK
  <2> QED
    BY <1>1, <2>1
<1>7. ASSUME NEW e \in batch, PipeReadable(e) \/ ListenerReadable(e) PROVE EventsHold'
  <2>1. UNCHANGED <<server, owner, fd, mClients, rx, fin, rst>> /\ batch' \subseteq batch
    BY <1>7 DEF PipeReadable, ListenerReadable, Handling, kernelVars
  <2> QED
    BY <1>1, <2>1 DEF Listed
<1>8. ASSUME NEW e \in batch, IncommingData(e) PROVE EventsHold'
  <2>1. /\ UNCHANGED <<server, owner, fd, fin, rst>> /\ batch' = batch \ {e}
        /\ server = "batch" /\ ~e.hup
    BY <1>8 DEF IncommingData, Handling
  <2> SUFFICES ASSUME NEW g \in batch', g.src \in Fds
               PROVE  /\ owner[g.src] # None
                      /\ \A c \in Listed' \cap Plain : fd[c] = g.src =>
                           /\ g.hup => rst[c]
                           /\ ~g.hup => rx'[c] > 0 \/ fin[c] \/ rst[c]
    BY <2>1 DEF EventsHold, Plain
  <2>2. g \in batch /\ g # e /\ owner[g.src] # None
    BY <2>1 DEF EventsHold
  <2>3. ~g.hup => g.src # e.src
    <3>1. g \in Events /\ e \in Events
      BY <1>0, <2>2 DEF TypeOK
    <3>2. g.hup \in BOOLEAN /\ e.hup \in BOOLEAN
      BY <3>1 DEF Events
    <3>3. g = [src |-> g.src, hup |-> g.hup] /\ e = [src |-> e.src, hup |-> e.hup]
      BY <3>1 DEF Events
    <3> QED
      BY <2>1, <2>2, <3>2, <3>3
  <2>4. ASSUME NEW c \in Listed' \cap Plain, fd[c] = g.src
        PROVE  /\ g.hup => rst[c]
               /\ ~g.hup => rx'[c] > 0 \/ fin[c] \/ rst[c]
    <3>1. c \in Listed
      BY <1>0, <1>8, <2>4, PlainRead DEF Listed
    <3>2. fd[c] # e.src => rx'[c] = rx[c]
      BY <1>0, <1>8, <2>4, PlainRead
    <3> QED
      BY <2>1, <2>2, <2>3, <2>4, <3>1, <3>2 DEF EventsHold
  <2> QED
    BY <2>2, <2>4
<1>9. CASE AcceptOne
  <2>1. PICK c \in Backlog(accepting), f \in {g \in Fds : owner[g] = None} :
          /\ owner' = [owner EXCEPT ![f] = c]
          /\ fd' = [fd EXCEPT ![c] = f]
          /\ mClients' = [mClients EXCEPT ![c] = "Closed"]
    BY <1>9 DEF AcceptOne
  <2>2. /\ c \in Clients /\ f \in Fds /\ owner[f] = None
        /\ UNCHANGED <<server, batch, rx, fin, rst>>
    BY <1>9, <2>1 DEF Backlog, AcceptOne
  <2> SUFFICES ASSUME server = "batch", NEW e \in batch, e.src \in Fds
               PROVE  /\ owner'[e.src] # None
                      /\ \A d \in Listed' \cap Plain : fd'[d] = e.src =>
                           /\ e.hup => rst[d]
                           /\ ~e.hup => rx[d] > 0 \/ fin[d] \/ rst[d]
    BY <2>2 DEF EventsHold, Plain
  <2>3. owner[e.src] # None /\ e.src # f
    BY <2>2 DEF EventsHold
  <2>4. owner'[e.src] # None
    BY <1>0, <2>1, <2>3 DEF TypeOK
  <2>5. ASSUME NEW d \in Listed' \cap Plain, fd'[d] = e.src
        PROVE  d \in Listed \cap Plain /\ fd[d] = e.src
    <3>1. d \in Clients /\ d # c
      BY <1>0, <2>1, <2>2, <2>3, <2>5 DEF Listed, TypeOK
    <3> QED
      BY <1>0, <2>1, <2>5, <3>1 DEF Listed, TypeOK
  <2> QED
    BY <2>4, <2>5 DEF EventsHold
<1>10. CASE AcceptNone
  <2>1. UNCHANGED <<server, batch, owner, fd, mClients, rx, fin, rst>>
    BY <1>10 DEF AcceptNone, kernelVars
  <2> QED
    BY <1>2, <2>1
<1>11. ASSUME NEW wsOnly \in BOOLEAN, SendToAllClients(wsOnly) PROVE EventsHold'
  <2>1. UNCHANGED <<server, batch, owner, fd, rx, fin, rst>> /\ Listed' = Listed
    BY <1>0, <1>11 DEF SendToAllClients, Listed, kernelVars, TypeOK
  <2> QED
    BY <1>1, <2>1
<1> QED
  BY <1>2, <1>3, <1>4, <1>5, <1>6, <1>7, <1>8, <1>9, <1>10, <1>11
     DEF Next, vars, ServerStep, SetUp, CreateEpoll, TestListener, AddListener,
         CreatePipe, AddPipe, EpollWaitFails, HandleEvent, UpdateClients, Cleanup,
         CallStop, CallStart, AppStep, StopWrites, StopCloses, StopJoins,
         StartOpens, StartSpawns, kernelVars, serverVars

\* A plain TCP connection is reported closed for a reason only; after a plain
\* shutdown ReadData got every byte the peer had sent.
THEOREM ServerClosedForCause == Spec => []ClosedForCause
<1>1. Init => Cause /\ EventsHold
  BY DEF Init, Cause, CauseOf, EventsHold, Posted, Plain
<1>2. Inv /\ Cause => ClosedForCause
  <2> SUFFICES ASSUME Inv, Cause, NEW c \in Plain,
                      Posted(c, "ClientClosed"), ~rst[c], c \notin unsent
               PROVE  fin[c] /\ delivered[c] = sent[c]
    BY DEF ClosedForCause, Plain
  <2>1. fin[c] /\ rx[c] = 0 /\ delivered[c] + rx[c] = sent[c]
    BY DEF Cause, CauseOf, Reason
  <2>2. delivered[c] \in Nat
    BY DEF Inv, TypeOK, Plain
  <2> QED
    BY <2>1, <2>2
<1> QED
  BY <1>1, <1>2, CauseStep, EventsHoldStep, InvAlways, PTL DEF Spec

-----------------------------------------------------------------------------
(* No edge is lost.  These are the facts that ResetIsNoticed,               *)
(* StopWithPipeReturns and AcceptedOrEnded rest on: as long as they hold,   *)
(* epoll_wait has something to return for what is still to be done.         *)

\* The pipe of a run is made after its epoll set, and nothing is written to it
\* before.
PipeUnmade ==
  /\ mSendFd <= run
  /\ server \in Starting \ {"addpipe"} => ~woken /\ mSendFd # run

ResetKept(c) ==
  \/ fd[c] \in edge
  \/ server = "batch" /\ ([src |-> fd[c], hup |-> TRUE] \in batch
                          \/ mClients[c] = "DeleteLater")

ResetsKept ==
  server \in {"wait", "batch"} => \A c \in Listed : rst[c] => ResetKept(c)

PipeKept ==
  server \in {"wait", "batch"} /\ woken =>
    \/ "pipe" \in edge
    \/ server = "batch" /\ ([src |-> "pipe", hup |-> FALSE] \in batch \/ endServer)

\* A connection that is marked stays so while the batch is handled, and
\* IncommingData takes none off the list.
LEMMA ReadKeepsMarks ==
  ASSUME TypeOK, NEW e \in batch, IncommingData(e)
  PROVE  /\ Listed' = Listed
         /\ \A d \in Clients : mClients[d] = "DeleteLater" => mClients'[d] = "DeleteLater"
<1> DEFINE Kept == /\ Listed' = Listed
                   /\ \A d \in Clients :
                        mClients[d] = "DeleteLater" => mClients'[d] = "DeleteLater"
<1>1. CASE UNCHANGED mClients
  BY <1>1 DEF Listed
<1>2. ASSUME NEW c \in Listed,
             RecvNothing(c) \/ RecvTcp(c) \/ RecvHandshake(c) \/ RecvFrame(c)
      PROVE  Kept
  <2>1. \/ UNCHANGED mClients \/ SetState(c, "DeleteLater")
        \/ SetState(c, "Connected") /\ mClients[c] = "Closed"
    BY <1>2 DEF RecvNothing, RecvTcp, RecvHandshake, RecvFrame
  <2>2. CASE UNCHANGED mClients
    BY <1>1, <2>2
  <2>3. CASE SetState(c, "DeleteLater")
    BY <2>3 DEF SetState, Listed, TypeOK
  <2>4. CASE SetState(c, "Connected") /\ mClients[c] = "Closed"
    BY <2>4 DEF SetState, Listed, TypeOK
  <2> QED
    BY <2>1, <2>2, <2>3, <2>4
<1>3. \/ UNCHANGED mClients
      \/ \E c \in Listed : RecvNothing(c) \/ RecvTcp(c) \/ RecvHandshake(c) \/ RecvFrame(c)
  BY DEF IncommingData
<1> HIDE DEF Kept
<1>4. Kept
  BY <1>1, <1>2, <1>3 DEF Kept
<1> QED
  BY <1>4 DEF Kept

\* Every step keeps the edges of reset connections.
LEMMA ResetsKeptStep == Inv /\ Emptied /\ ResetsKept /\ [Next]_vars => ResetsKept'
<1> SUFFICES ASSUME Inv, Emptied, ResetsKept, [Next]_vars,
                    server' \in {"wait", "batch"}, NEW d \in Listed', rst'[d]
             PROVE  ResetKept(d)'
  BY DEF ResetsKept
<1>0. TypeOK /\ TypeOK' /\ ListedOpen /\ ListedOpen' /\ d \in Clients
  BY TypeStep, TableStep DEF Inv, Table, Listed
<1>1. ASSUME server' = server, d \in Listed, rst[d], fd'[d] = fd[d],
             edge \subseteq edge', batch \subseteq batch',
             mClients[d] = "DeleteLater" => mClients'[d] = "DeleteLater"
      PROVE  ResetKept(d)'
  BY <1>1 DEF ResetsKept, ResetKept
<1>2. CASE UNCHANGED <<server, edge, batch, mClients, fd, rst>>
  BY <1>1, <1>2 DEF Listed
<1>3. ASSUME NEW c \in Clients, PeerStep(c) PROVE ResetKept(d)'
  <2>1. UNCHANGED <<server, batch, mClients, fd>> /\ edge \subseteq edge' /\ d \in Listed
    BY <1>3 DEF PeerStep, PeerConnect, PeerSend, PeerShutdown, PeerReset, Arm, Listed,
                serverVars
  <2>2. CASE rst[d]
    BY <1>1, <2>1, <2>2
  <2>3. CASE ~rst[d]
    <3>1. d = c /\ Arm(c)
      BY <1>0, <1>3, <2>3 DEF PeerStep, PeerConnect, PeerSend, PeerShutdown, PeerReset, TypeOK
    <3> QED
      BY <2>1, <3>1 DEF Arm, ResetKept
  <2> QED
    BY <2>2, <2>3
<1>4. CASE SetUp
  <2>1. server \notin {"wait", "batch", "cleanup"} /\ mClients' = mClients
    BY <1>4 DEF SetUp, CreateEpoll, TestListener, AddListener, CreatePipe, AddPipe
  <2> QED
    BY <2>1 DEF Emptied, Listed
<1>5. CASE EpollWait
  <2>1. /\ server = "wait" /\ server' = "batch"
        /\ UNCHANGED <<owner, rx, fin, rst, mClients, fd>>
    BY <1>5 DEF EpollWait
  <2>2. d \in Listed /\ rst[d] /\ fd[d] \in edge
    BY <2>1 DEF ResetsKept, ResetKept, Listed
  <2>3. fd[d] \in Fds /\ owner[fd[d]] = d /\ d # None
    BY <1>0, <2>2, ServerAssumption DEF ListedOpen
  <2>4. Ready(fd[d]) /\ Hup(fd[d]) = TRUE
    BY <2>2, <2>3 DEF Ready, Hup
  <2>5. PICK got : /\ batch' = {[src |-> s, hup |-> Hup(s)] : s \in got}
                   /\ edge' = {s \in edge : Ready(s)} \ got
    BY <1>5 DEF EpollWait
  <2>6. fd[d] \in got \/ fd[d] \in edge'
    BY <2>2, <2>4, <2>5
  <2>7. fd[d] \in got => [src |-> fd[d], hup |-> TRUE] \in batch'
    BY <2>4, <2>5
  <2> QED
    BY <2>1, <2>6, <2>7 DEF ResetKept
<1>6. ASSUME NEW e \in batch, RemoveClient(e) PROVE ResetKept(d)'
  <2>1. /\ server' = "batch" /\ UNCHANGED <<server, edge, rst, fd>> /\ batch' = batch \ {e}
        /\ e.hup
        /\ mClients' = [c \in Clients |-> IF c \in Listed /\ fd[c] = e.src
                                          THEN "DeleteLater" ELSE mClients[c]]
    BY <1>6 DEF RemoveClient, Handling, kernelVars
  <2>2. d \in Listed /\ rst[d] /\ server = "batch"
    BY <1>0, <2>1 DEF Listed
  <2>3. ResetKept(d)
    BY <2>2 DEF ResetsKept
  <2>4. CASE fd[d] = e.src
    BY <1>0, <2>1, <2>2, <2>4 DEF ResetKept
  <2>5. CASE fd[d] # e.src
    <3>1. [src |-> fd[d], hup |-> TRUE] # e
      BY <2>5
    <3>2. mClients[d] = "DeleteLater" => mClients'[d] = "DeleteLater"
      BY <1>0, <2>1
    <3> QED
      BY <2>1, <2>3, <3>1, <3>2 DEF ResetKept
  <2> QED
    BY <2>4, <2>5
<1>7. ASSUME NEW e \in batch, PipeReadable(e) \/ ListenerReadable(e) \/ IncommingData(e)
      PROVE  ResetKept(d)'
  <2>1. /\ server = "batch" /\ UNCHANGED <<server, edge, rst, fd>> /\ batch' = batch \ {e}
        /\ ~e.hup
    BY <1>7 DEF PipeReadable, ListenerReadable, IncommingData, Handling, kernelVars
  <2>2. /\ Listed' = Listed
        /\ mClients[d] = "DeleteLater" => mClients'[d] = "DeleteLater"
    <3>1. CASE IncommingData(e)
      BY <1>0, <3>1, ReadKeepsMarks
    <3>2. CASE PipeReadable(e) \/ ListenerReadable(e)
      BY <3>2 DEF PipeReadable, ListenerReadable, Listed
    <3> QED
      BY <1>7, <3>1, <3>2
  <2>3. ResetKept(d)
    BY <2>1, <2>2 DEF ResetsKept
  <2>4. [src |-> fd[d], hup |-> TRUE] # e
    BY <2>1
  <2> QED
    BY <2>1, <2>2, <2>3, <2>4 DEF ResetKept
<1>8. CASE AcceptOne
  <2>1. PICK c \in Backlog(accepting), f \in {g \in Fds : owner[g] = None} :
          /\ fd' = [fd EXCEPT ![c] = f]
          /\ mClients' = [mClients EXCEPT ![c] = "Closed"]
          /\ edge' = IF rx[c] > 0 \/ fin[c] \/ rst[c] THEN edge \cup {f} ELSE edge
    BY <1>8 DEF AcceptOne
  <2>2. c \in Clients /\ UNCHANGED <<server, batch, rst>>
    BY <1>8 DEF Backlog, AcceptOne
  <2>3. CASE d = c
    BY <1>0, <2>1, <2>2, <2>3 DEF ResetKept, TypeOK
  <2>4. CASE d # c
    <3>1. fd'[d] = fd[d] /\ mClients'[d] = mClients[d] /\ d \in Listed
      BY <1>0, <2>1, <2>4 DEF Listed, TypeOK
    <3> QED
      BY <1>1, <2>1, <2>2, <3>1
  <2> QED
    BY <2>3, <2>4
<1>9. CASE UpdateClients
  <2> DEFINE gone == {c \in Listed : mClients[c] = "DeleteLater"}
  <2>1. /\ server = "batch" /\ batch = {} /\ UNCHANGED <<rst, fd>>
        /\ mClients' = [c \in Clients |-> IF c \in gone THEN "absent" ELSE mClients[c]]
        /\ edge' = edge \ {fd[c] : c \in gone}
    BY <1>9 DEF UpdateClients, CloseAll
  <2>2. d \in Listed /\ d \notin gone /\ rst[d]
    BY <1>0, <2>1 DEF Listed
  <2>3. fd[d] \in edge
    BY <2>1, <2>2 DEF ResetsKept, ResetKept
  <2>4. fd[d] \notin {fd[c] : c \in gone}
    BY <1>0, <2>2 DEF ListedOpen
  <2> QED
    BY <2>1, <2>3, <2>4 DEF ResetKept
<1>10. CASE EpollWaitFails \/ Cleanup
  BY <1>10 DEF EpollWaitFails, Cleanup
<1>11. CASE StopWrites \/ StopCloses
  <2>1. UNCHANGED <<server, batch, mClients, fd, rst>> /\ d \in Listed
    BY <1>11 DEF StopWrites, StopCloses, Listed, serverVars
  <2>2. edge \ {"tcp", "ws"} \subseteq edge'
    BY <1>11 DEF StopWrites, StopCloses, CloseListener
  <2>3. fd[d] \notin {"tcp", "ws"}
    BY <1>0, <2>1, ServerAssumption DEF ListedOpen
  <2>4. ResetKept(d)
    BY <2>1 DEF ResetsKept
  <2> QED
    BY <2>1, <2>2, <2>3, <2>4 DEF ResetKept
<1>12. CASE StopJoins \/ StartSpawns
  <2>1. server' = server /\ UNCHANGED <<edge, batch, mClients, fd, rst>>
    BY <1>12 DEF StopJoins, StartSpawns, kernelVars
  <2> QED
    BY <1>2, <2>1
<1>13. ASSUME NEW wsOnly \in BOOLEAN, SendToAllClients(wsOnly) PROVE ResetKept(d)'
  <2>1. /\ UNCHANGED <<server, edge, batch, fd, rst>> /\ Listed' = Listed
        /\ mClients[d] = "DeleteLater" => mClients'[d] = "DeleteLater"
    BY <1>0, <1>13 DEF SendToAllClients, Listed, kernelVars, TypeOK
  <2> QED
    BY <1>1, <2>1
<1> QED
  BY <1>2, <1>3, <1>4, <1>5, <1>6, <1>7, <1>8, <1>9, <1>10, <1>11, <1>12, <1>13
     DEF Next, vars, ServerStep, HandleEvent, AcceptNone, CallStop, CallStart,
         AppStep, StartOpens, kernelVars, serverVars

\* mSendFd belongs to the run as soon as its pipe is made.
LEMMA PipeUnmadeStep == Inv /\ Joined /\ PipeUnmade /\ [Next]_vars => PipeUnmade'
<1> SUFFICES ASSUME Inv, Joined, PipeUnmade, [Next]_vars PROVE PipeUnmade'
  OBVIOUS
<1>0. run \in Nat /\ mSendFd \in Nat
  BY ServerAssumption DEF Inv, TypeOK
<1>1. CASE UNCHANGED <<run, mSendFd, server, woken>>
  BY <1>1 DEF PipeUnmade
<1>2. ASSUME UNCHANGED <<run, mSendFd>>, server' \notin Starting \ {"addpipe"}
      PROVE  PipeUnmade'
  BY <1>2 DEF PipeUnmade
<1>3. CASE CreateEpoll \/ TestListener \/ AddListener
  BY <1>3 DEF CreateEpoll, TestListener, AddListener, PipeUnmade, Starting, appVars,
              kernelVars
<1>4. CASE CreatePipe
  BY <1>0, <1>4 DEF CreatePipe, PipeUnmade, Starting
<1>5. CASE StopWrites
  BY <1>5 DEF StopWrites, PipeUnmade, serverVars
<1>6. CASE StartSpawns
  <2>1. CASE UNCHANGED <<server, run, woken>>
    BY <1>1, <1>6, <2>1 DEF StartSpawns
  <2>2. CASE run' = run + 1 /\ woken' = FALSE
    BY <1>0, <1>6, <2>2 DEF StartSpawns, PipeUnmade
  <2> QED
    BY <1>6, <2>1, <2>2 DEF StartSpawns
<1>7. CASE AddPipe \/ EpollWait \/ EpollWaitFails \/ UpdateClients \/ Cleanup
  BY <1>2, <1>7 DEF AddPipe, EpollWait, EpollWaitFails, UpdateClients, Cleanup, appVars,
                    Starting
<1>8. CASE StopJoins
  BY <1>1, <1>2, <1>8 DEF StopJoins, Starting, kernelVars
<1> QED
  BY <1>1, <1>3, <1>4, <1>5, <1>6, <1>7, <1>8
     DEF Next, vars, PeerStep, PeerConnect, PeerSend, PeerShutdown, PeerReset,
         ServerStep, SetUp, HandleEvent, RemoveClient, PipeReadable, ListenerReadable,
         IncommingData, AcceptOne, AcceptNone, SendToAllClients, CallStop, CallStart,
         AppStep, StopCloses, StartOpens, kernelVars, serverVars, appVars

\* Every step keeps the edge of the pipe.
LEMMA PipeKeptStep == Inv /\ Joined /\ PipeUnmade /\ PipeKept /\ [Next]_vars => PipeKept'
<1> SUFFICES ASSUME Inv, Joined, PipeUnmade, PipeKept, [Next]_vars,
                    server' \in {"wait", "batch"}, woken'
             PROVE  \/ "pipe" \in edge'
                    \/ /\ server' = "batch"
                       /\ [src |-> "pipe", hup |-> FALSE] \in batch' \/ endServer'
  BY DEF PipeKept
<1>0. TypeOK /\ ListedOpen /\ "pipe" \notin Fds
  BY ServerAssumption DEF Inv, Table
<1>1. ASSUME UNCHANGED <<server, woken>>, endServer => endServer',
             "pipe" \in edge => "pipe" \in edge',
             [src |-> "pipe", hup |-> FALSE] \in batch =>
               [src |-> "pipe", hup |-> FALSE] \in batch' \/ endServer'
      PROVE  \/ "pipe" \in edge'
             \/ /\ server' = "batch"
                /\ [src |-> "pipe", hup |-> FALSE] \in batch' \/ endServer'
  BY <1>1 DEF PipeKept
<1>2. CASE UNCHANGED <<server, woken, edge, batch, endServer>>
  BY <1>1, <1>2
<1>3. ASSUME NEW c \in Clients, PeerStep(c) PROVE "pipe" \in edge' \/ PipeKept'
  <2>1. UNCHANGED <<server, woken, batch, endServer>> /\ edge \subseteq edge'
    BY <1>3 DEF PeerStep, PeerConnect, PeerSend, PeerShutdown, PeerReset, Arm, serverVars
  <2> QED
    BY <2>1 DEF PipeKept
<1>4. CASE SetUp
  <2>1. AddPipe
    BY <1>4 DEF SetUp, CreateEpoll, TestListener, AddListener, CreatePipe
  <2> QED
    BY <2>1 DEF AddPipe
<1>5. CASE EpollWait
  <2>1. server = "wait" /\ server' = "batch" /\ woken
    BY <1>5 DEF EpollWait
  <2>2. "pipe" \in edge /\ Ready("pipe") /\ Hup("pipe") = FALSE
    BY <1>0, <2>1 DEF PipeKept, Ready, Hup
  <2>3. PICK got : /\ batch' = {[src |-> s, hup |-> Hup(s)] : s \in got}
                   /\ edge' = {s \in edge : Ready(s)} \ got
    BY <1>5 DEF EpollWait
  <2>4. "pipe" \in got \/ "pipe" \in edge'
    BY <2>2, <2>3
  <2>5. "pipe" \in got => [src |-> "pipe", hup |-> FALSE] \in batch'
    BY <2>2, <2>3
  <2> QED
    BY <2>1, <2>4, <2>5
<1>6. ASSUME NEW e \in batch, PipeReadable(e) PROVE endServer' /\ server' = "batch"
  BY <1>6 DEF PipeReadable, Handling
<1>7. ASSUME NEW e \in batch, RemoveClient(e) \/ ListenerReadable(e) \/ IncommingData(e)
      PROVE  \/ "pipe" \in edge'
             \/ /\ server' = "batch"
                /\ [src |-> "pipe", hup |-> FALSE] \in batch' \/ endServer'
  <2>1. /\ UNCHANGED <<server, woken, edge, endServer>> /\ batch' = batch \ {e}
        /\ e.hup \/ e.src \in Listeners \cup Fds
    BY <1>7 DEF RemoveClient, ListenerReadable, IncommingData, Handling, kernelVars
  <2>2. e # [src |-> "pipe", hup |-> FALSE]
    BY <1>0, <2>1 DEF Listeners
  <2> QED
    BY <1>1, <2>1, <2>2
<1>8. CASE AcceptOne
  <2>1. UNCHANGED <<server, woken, batch, endServer>> /\ edge \subseteq edge'
    BY <1>8 DEF AcceptOne
  <2> QED
    BY <1>1, <2>1
<1>9. CASE UpdateClients
  <2> DEFINE gone == {c \in Listed : mClients[c] = "DeleteLater"}
  <2>1. /\ server = "batch" /\ batch = {} /\ UNCHANGED woken /\ ~endServer
        /\ edge' = edge \ {fd[c] : c \in gone}
    BY <1>9 DEF UpdateClients, CloseAll
  <2>2. "pipe" \in edge
    BY <2>1 DEF PipeKept
  <2>3. "pipe" \notin {fd[c] : c \in gone}
    BY <1>0 DEF ListedOpen
  <2> QED
    BY <2>1, <2>2, <2>3
<1>10. CASE EpollWaitFails \/ Cleanup
  BY <1>10 DEF EpollWaitFails, Cleanup
<1>11. CASE StopWrites
  <2>1. server' = server /\ server # "addpipe"
    BY <1>11 DEF StopWrites, serverVars
  <2>2. CASE edge' = edge \cup {"pipe"}
    BY <2>2
  <2>3. CASE UNCHANGED <<woken, edge>>
    BY <1>2, <1>11, <2>3 DEF StopWrites, serverVars
  <2> QED
    BY <1>11, <2>1, <2>2, <2>3 DEF StopWrites
<1>12. CASE StopCloses
  <2>1. UNCHANGED <<server, woken, batch, endServer>>
    BY <1>12 DEF StopCloses, serverVars
  <2>2. "pipe" \in edge => "pipe" \in edge'
    BY <1>12 DEF StopCloses, CloseListener
  <2> QED
    BY <1>1, <2>1, <2>2
<1>13. CASE StopJoins \/ StartSpawns
  <2>1. UNCHANGED <<server, woken, edge, batch, endServer>>
    BY <1>13 DEF StopJoins, StartSpawns, kernelVars
  <2> QED
    BY <1>2, <2>1
<1>14. ASSUME NEW wsOnly \in BOOLEAN, SendToAllClients(wsOnly)
       PROVE  UNCHANGED <<server, woken, edge, batch, endServer>>
  BY <1>14 DEF SendToAllClients, kernelVars
<1>15. CASE CallStop \/ CallStart \/ StartOpens \/ AcceptNone
  BY <1>2, <1>15 DEF CallStop, CallStart, StartOpens, AcceptNone, kernelVars, serverVars
<1>16. CASE UNCHANGED vars
  BY <1>2, <1>16 DEF vars, kernelVars, serverVars
<1> QED
  BY <1>2, <1>3, <1>4, <1>5, <1>6, <1>7, <1>8, <1>9, <1>10, <1>11, <1>12, <1>13, <1>14,
     <1>15, <1>16
     DEF Next, ServerStep, HandleEvent, AppStep, PipeKept

\* What a reset or the pipe raised stays until Run has acted on it, for any
\* number of connections, descriptors, events per epoll_wait and restarts.
THEOREM ServerWakeupsKept == Spec => []WakeupsKept
<1>1. Init => Emptied /\ Joined /\ PipeUnmade /\ ResetsKept /\ PipeKept
  BY DEF Init, Emptied, Joined, PipeUnmade, ResetsKept, PipeKept, Listed, Starting
<1>2. ResetsKept /\ PipeKept => WakeupsKept
  BY DEF ResetsKept, ResetKept, PipeKept, WakeupsKept
<1> QED
  BY <1>1, <1>2, EmptiedStep, JoinedStep, ResetsKeptStep, PipeUnmadeStep, PipeKeptStep,
     InvAlways, PTL DEF Spec

\* A descriptor in use is the one of its owner, listed or not: descriptors of
\* Conns are never changed.
OwnerFd == \A f \in Fds : owner[f] # None => fd[owner[f]] = f

LEMMA OwnerFdStep == Inv /\ OwnerFd /\ [Next]_vars => OwnerFd'
<1> SUFFICES ASSUME Inv, OwnerFd, [Next]_vars PROVE OwnerFd'
  OBVIOUS
<1>0. TypeOK /\ OwnerOpen
  BY DEF Inv, Table
<1>1. CASE UNCHANGED <<owner, fd>>
  BY <1>1 DEF OwnerFd
<1>2. CASE AcceptOne
  <2>1. PICK c \in Backlog(accepting), f \in {g \in Fds : owner[g] = None} :
          owner' = [owner EXCEPT ![f] = c] /\ fd' = [fd EXCEPT ![c] = f]
    BY <1>2 DEF AcceptOne
  <2>2. c \in Clients /\ link[c] = "backlog"
    BY DEF Backlog
  <2>3. ASSUME NEW g \in Fds, owner'[g] # None PROVE fd'[owner'[g]] = g
    <3>1. CASE g = f
      BY <1>0, <2>1, <2>2, <3>1 DEF TypeOK
    <3>2. CASE g # f
      <4>1. owner'[g] = owner[g] /\ owner[g] \in Clients
        BY <1>0, <2>1, <2>3, <3>2 DEF TypeOK
      <4>2. owner[g] # c
        BY <1>0, <2>2, <2>3, <4>1 DEF OwnerOpen
      <4> QED
        BY <1>0, <2>1, <2>3, <4>1, <4>2 DEF OwnerFd, TypeOK
    <3> QED
      BY <3>1, <3>2
  <2> QED
    BY <2>3 DEF OwnerFd
<1>3. ASSUME NEW cs, CloseAll(cs), UNCHANGED fd PROVE OwnerFd'
  BY <1>3 DEF CloseAll, OwnerFd
<1>4. CASE UpdateClients
  BY <1>3, <1>4 DEF UpdateClients
<1>5. CASE Cleanup
  BY <1>3, <1>5 DEF Cleanup
<1> QED
  BY <1>1, <1>2, <1>4, <1>5
     DEF Next, vars, PeerStep, PeerConnect, PeerSend, PeerShutdown, PeerReset,
         ServerStep, SetUp, CreateEpoll, TestListener, AddListener, CreatePipe,
         AddPipe, EpollWait, EpollWaitFails, HandleEvent, RemoveClient,
         PipeReadable, ListenerReadable, IncommingData, AcceptNone,
         SendToAllClients, CallStop, CallStart, AppStep, StopWrites, StopCloses,
         StopJoins, StartOpens, StartSpawns, kernelVars, serverVars

\* With a descriptor for each connection there is one for a connection that
\* waits.
LEMMA DescriptorLeft ==
  ASSUME TypeOK, OwnerOpen, OwnerFd, Cardinality(Clients) <= Cardinality(Fds),
         NEW c \in Clients, link[c] = "backlog"
  PROVE  \E f \in Fds : owner[f] = None
<1> SUFFICES ASSUME \A f \in Fds : owner[f] # None PROVE FALSE
  OBVIOUS
<1>1. owner \in [Fds -> Clients \ {c}]
  BY DEF TypeOK, OwnerOpen
<1>2. IsFiniteSet(Clients) /\ IsFiniteSet(Fds)
  BY ServerAssumption
<1>3. IsFiniteSet(Clients \ {c}) /\ Cardinality(Clients \ {c}) = Cardinality(Clients) - 1
  BY <1>2, FS_RemoveElement
<1>4. Cardinality(Clients) \in Nat /\ Cardinality(Fds) \in Nat
  BY <1>2, FS_CardinalityType
<1>5. Cardinality(Clients \ {c}) < Cardinality(Fds)
  BY <1>3, <1>4
<1>6. \E f, g \in Fds : f # g /\ owner[f] = owner[g]
  BY <1>1, <1>2, <1>3, <1>5, FS_PigeonHole
<1> QED
  BY <1>6 DEF OwnerFd

\* Nobody waits at a closed listener, and Start finds the listener it opens
\* closed.
WaitsAtOpen ==
  /\ \A l \in Listeners : Backlog(l) # {} => lsn[l]
  /\ app = "openws" => ~lsn["ws"]

\* A listener is in the epoll set of the run once its test is behind.
Registered(l) == \/ server \in {"pipe", "addpipe", "wait", "batch"}
                 \/ l = "tcp" /\ server \in {"testws", "addws"}

BacklogSeen(l) ==
  \/ l \in edge
  \/ server = "batch" /\ ([src |-> l, hup |-> FALSE] \in batch \/ accepting = l)

BacklogsSeen ==
  Cardinality(Clients) <= Cardinality(Fds) =>
    \A l \in Listeners : Registered(l) /\ Backlog(l) # {} => BacklogSeen(l)

LEMMA WaitsAtOpenStep ==
  Inv /\ ListenersShut /\ WaitsAtOpen /\ [Next]_vars => WaitsAtOpen'
<1> SUFFICES ASSUME Inv, ListenersShut, WaitsAtOpen, [Next]_vars PROVE WaitsAtOpen'
  OBVIOUS
<1>0. TypeOK
  BY DEF Inv
<1>1. ASSUME UNCHANGED <<lsn, app>>,
             \A c \in Clients : link'[c] = "backlog" => link[c] = "backlog"
      PROVE  WaitsAtOpen'
  BY <1>1 DEF WaitsAtOpen, Backlog
<1>2. CASE UNCHANGED <<lsn, app, link>>
  BY <1>1, <1>2
<1>3. ASSUME NEW c \in Clients, PeerConnect(c) PROVE WaitsAtOpen'
  <2>1. lsn[Port(c)] /\ UNCHANGED <<lsn, app>> /\ link' = [link EXCEPT ![c] = "backlog"]
    BY <1>3 DEF PeerConnect, appVars
  <2>2. ASSUME NEW l \in Listeners, NEW d \in Backlog(l)' PROVE lsn[l]
    <3>1. d \in Clients /\ link'[d] = "backlog" /\ Port(d) = l
      BY DEF Backlog, Port
    <3>2. CASE d = c
      BY <2>1, <3>1, <3>2
    <3>3. CASE d # c
      <4>1. d \in Backlog(l)
        BY <1>0, <2>1, <3>1, <3>3 DEF Backlog, TypeOK
      <4> QED
        BY <4>1 DEF WaitsAtOpen
    <3> QED
      BY <3>2, <3>3
  <2> QED
    BY <2>1, <2>2 DEF WaitsAtOpen
<1>4. CASE AcceptOne
  <2>1. PICK c \in Backlog(accepting) : link' = [link EXCEPT ![c] = "open"]
    BY <1>4 DEF AcceptOne
  <2> QED
    BY <1>0, <1>1, <1>4, <2>1 DEF AcceptOne, appVars, TypeOK
<1>5. CASE UpdateClients \/ Cleanup
  BY <1>1, <1>5 DEF UpdateClients, Cleanup, CloseAll, appVars
<1>6. CASE CallStop \/ CallStart \/ StopWrites \/ StopJoins
  <2>1. UNCHANGED <<lsn, link>> /\ app' # "openws"
    BY <1>6 DEF CallStop, CallStart, StopWrites, StopJoins, kernelVars
  <2> QED
    BY <2>1 DEF WaitsAtOpen, Backlog
<1>7. CASE StopCloses
  <2>1. PICK l \in Listeners : CloseListener(l)
    BY <1>7 DEF StopCloses, Listeners
  <2>2. ASSUME NEW k \in Listeners, NEW d \in Backlog(k)' PROVE lsn'[k]
    <3>1. d \in Clients /\ link'[d] = "backlog" /\ Port(d) = k
      BY DEF Backlog, Port
    <3>2. d \in Backlog(k) /\ k # l
      BY <2>1, <3>1 DEF CloseListener, Backlog
    <3> QED
      BY <1>0, <2>1, <3>2 DEF CloseListener, WaitsAtOpen, TypeOK
  <2> QED
    BY <1>7, <2>2 DEF WaitsAtOpen, StopCloses
<1>8. CASE StartOpens
  <2>1. PICK l \in Listeners : CreateServer(l) /\ ~lsn[l]
    BY <1>8 DEF StartOpens, Listeners, ListenersShut, WaitsAtOpen
  <2>2. \A k \in Listeners : k # l => lsn'[k] = lsn[k]
    BY <1>0, <2>1 DEF CreateServer, TypeOK
  <2>3. \A k \in Listeners : Backlog(k)' = Backlog(k)
    BY <1>8 DEF StartOpens, Backlog
  <2>4. Backlog(l) = {}
    BY <2>1 DEF WaitsAtOpen
  <2>5. app' = "openws" => app = "opentcp" /\ lsn'["ws"] = lsn["ws"]
    BY <1>0, <1>8 DEF StartOpens, CreateServer, TypeOK, Listeners
  <2> QED
    BY <2>2, <2>3, <2>4, <2>5 DEF WaitsAtOpen, ListenersShut
<1>9. CASE StartSpawns
  BY <1>9 DEF StartSpawns, WaitsAtOpen, Backlog
<1> QED
  BY <1>2, <1>3, <1>4, <1>5, <1>6, <1>7, <1>8, <1>9
     DEF Next, vars, PeerStep, PeerSend, PeerShutdown, PeerReset,
         ServerStep, SetUp, CreateEpoll, TestListener, AddListener, CreatePipe,
         AddPipe, EpollWait, EpollWaitFails, HandleEvent, RemoveClient,
         PipeReadable, ListenerReadable, IncommingData, AcceptNone,
         SendToAllClients, AppStep, kernelVars, appVars

\* Every step keeps the edge of a listener at which somebody waits.
LEMMA BacklogsSeenStep ==
  Inv /\ OwnerFd /\ Joined /\ WaitsAtOpen /\ BacklogsSeen /\ [Next]_vars => BacklogsSeen'
<1> SUFFICES ASSUME Inv, OwnerFd, Joined, WaitsAtOpen, BacklogsSeen, [Next]_vars,
                    Cardinality(Clients) <= Cardinality(Fds),
                    NEW l \in Listeners, Registered(l)', NEW w \in Backlog(l)'
             PROVE  BacklogSeen(l)'
  BY DEF BacklogsSeen
<1>0. /\ TypeOK /\ ListedOpen /\ OwnerOpen /\ l \notin Fds /\ l # "pipe" /\ l # None
      /\ w \in Clients /\ link'[w] = "backlog" /\ Port(w) = l
  BY ServerAssumption DEF Inv, Table, Backlog, Port, Listeners
<1>w. link[w] = "backlog" => w \in Backlog(l) /\ lsn[l]
  BY <1>0 DEF Backlog, WaitsAtOpen
<1>1. ASSUME UNCHANGED server, link[w] = "backlog",
             l \in edge => l \in edge', accepting = l => accepting' = l,
             [src |-> l, hup |-> FALSE] \in batch =>
               [src |-> l, hup |-> FALSE] \in batch' \/ accepting' = l
      PROVE  BacklogSeen(l)'
  <2>1. Registered(l)
    BY <1>1 DEF Registered
  <2>2. BacklogSeen(l)
    BY <1>1, <1>w, <2>1 DEF BacklogsSeen
  <2> QED
    BY <1>1, <2>2 DEF BacklogSeen
<1>2. CASE UNCHANGED <<server, link, edge, batch, accepting>>
  BY <1>0, <1>1, <1>2
<1>3. ASSUME NEW c \in Clients, PeerStep(c) PROVE BacklogSeen(l)'
  <2>1. UNCHANGED <<server, batch, accepting>> /\ edge \subseteq edge'
    BY <1>3 DEF PeerStep, PeerConnect, PeerSend, PeerShutdown, PeerReset, Arm, serverVars
  <2>2. CASE link[w] = "backlog"
    BY <1>1, <2>1, <2>2
  <2>3. CASE link[w] # "backlog"
    <3>1. w = c /\ PeerConnect(c)
      BY <1>0, <1>3, <2>3 DEF PeerStep, PeerConnect, PeerSend, PeerShutdown, PeerReset,
                              TypeOK
    <3> QED
      BY <1>0, <3>1 DEF PeerConnect, BacklogSeen
  <2> QED
    BY <2>2, <2>3
<1>4. CASE SetUp
  <2>0. link' = link /\ lsn' = lsn /\ w \in Backlog(l) /\ lsn[l]
    BY <1>0, <1>4, <1>w DEF SetUp, CreateEpoll, TestListener, AddListener, CreatePipe,
                            AddPipe, kernelVars
  <2>1. ASSUME Registered(l), server # "batch", edge \subseteq edge' PROVE BacklogSeen(l)'
    BY <2>0, <2>1 DEF BacklogsSeen, BacklogSeen
  <2>2. CASE CreateEpoll
    BY <2>2 DEF CreateEpoll, Registered
  <2>3. CASE TestListener
    <3>1. Registered(l) /\ server # "batch"
      BY <2>0, <2>3 DEF TestListener, Registered, Listeners
    <3> QED
      BY <2>1, <2>3, <3>1 DEF TestListener, kernelVars
  <2>4. CASE AddListener
    <3>1. Ready(l)
      BY <2>0 DEF Ready
    <3>2. server # "batch" /\ edge \subseteq edge' /\ (Registered(l) \/ l \in edge')
      BY <2>4, <3>1 DEF AddListener, Registered, Listeners
    <3> QED
      BY <2>1, <3>2 DEF BacklogSeen
  <2>5. CASE CreatePipe \/ AddPipe
    <3>1. Registered(l) /\ server # "batch" /\ edge \subseteq edge'
      BY <2>5 DEF CreatePipe, AddPipe, Registered, kernelVars
    <3> QED
      BY <2>1, <3>1
  <2> QED
    BY <1>4, <2>2, <2>3, <2>4, <2>5 DEF SetUp
<1>5. CASE EpollWait
  <2>1. server = "wait" /\ server' = "batch" /\ link' = link
    BY <1>5 DEF EpollWait
  <2>2. w \in Backlog(l) /\ l \in edge
    BY <1>0, <1>w, <2>1 DEF BacklogsSeen, BacklogSeen, Registered
  <2>3. Ready(l) /\ Hup(l) = FALSE
    BY <1>0, <2>2 DEF Ready, Hup
  <2>4. PICK got : /\ batch' = {[src |-> s, hup |-> Hup(s)] : s \in got}
                   /\ edge' = {s \in edge : Ready(s)} \ got
    BY <1>5 DEF EpollWait
  <2>5. l \in got \/ l \in edge'
    BY <2>2, <2>3, <2>4
  <2>6. l \in got => [src |-> l, hup |-> FALSE] \in batch'
    BY <2>3, <2>4
  <2> QED
    BY <2>1, <2>5, <2>6 DEF BacklogSeen
<1>6. ASSUME NEW e \in batch, ListenerReadable(e) PROVE BacklogSeen(l)'
  <2>1. /\ UNCHANGED <<server, edge, link>> /\ batch' = batch \ {e} /\ accepting = None
        /\ ~e.hup /\ accepting' = IF lsn[e.src] THEN e.src ELSE None
    BY <1>6 DEF ListenerReadable, Handling, kernelVars
  <2>2. lsn[l] /\ link[w] = "backlog"
    BY <1>0, <1>w, <2>1
  <2>3. [src |-> l, hup |-> FALSE] \in batch =>
          [src |-> l, hup |-> FALSE] \in batch' \/ accepting' = l
    <3>1. CASE e = [src |-> l, hup |-> FALSE]
      BY <2>1, <2>2, <3>1
    <3>2. CASE e # [src |-> l, hup |-> FALSE]
      BY <2>1, <3>2
    <3> QED
      BY <3>1, <3>2
  <2> QED
    BY <1>0, <1>1, <2>1, <2>2, <2>3
<1>7. ASSUME NEW e \in batch, RemoveClient(e) \/ PipeReadable(e) \/ IncommingData(e)
      PROVE  BacklogSeen(l)'
  <2>1. /\ UNCHANGED <<server, edge, link, accepting>> /\ batch' = batch \ {e}
        /\ e.hup \/ e.src \in Fds \cup {"pipe"}
    BY <1>7 DEF RemoveClient, PipeReadable, IncommingData, Handling, kernelVars
  <2>2. e # [src |-> l, hup |-> FALSE]
    BY <1>0, <2>1
  <2> QED
    BY <1>0, <1>1, <2>1, <2>2
<1>8. CASE AcceptOne
  <2>1. PICK c \in Backlog(accepting) : link' = [link EXCEPT ![c] = "open"]
    BY <1>8 DEF AcceptOne
  <2>2. UNCHANGED <<server, batch, accepting>> /\ edge \subseteq edge'
    BY <1>8 DEF AcceptOne
  <2>3. link[w] = "backlog"
    BY <1>0, <2>1 DEF TypeOK
  <2> QED
    BY <1>1, <2>2, <2>3
<1>9. CASE AcceptNone
  <2>1. UNCHANGED <<server, edge, link, batch>>
    BY <1>9 DEF AcceptNone, kernelVars
  <2>2. w \in Backlog(l) /\ lsn[l] /\ link[w] = "backlog"
    BY <1>0, <1>w, <2>1
  <2>3. \E f \in Fds : owner[f] = None
    BY <1>0, <2>2, DescriptorLeft
  <2>4. accepting # l
    BY <1>9, <2>2, <2>3 DEF AcceptNone
  <2> QED
    BY <1>1, <2>1, <2>2, <2>4
<1>10. CASE UpdateClients
  <2> DEFINE gone == {c \in Listed : mClients[c] = "DeleteLater"}
  <2>1. /\ server = "batch" /\ batch = {} /\ accepting = None
        /\ edge' = edge \ {fd[c] : c \in gone}
        /\ link' = [c \in Clients |-> IF c \in gone THEN "closed" ELSE link[c]]
    BY <1>10 DEF UpdateClients, CloseAll
  <2>2. w \in Backlog(l)
    BY <1>0, <1>w, <2>1
  <2>3. l \in edge
    BY <1>0, <2>1, <2>2 DEF BacklogsSeen, BacklogSeen, Registered
  <2>4. l \notin {fd[c] : c \in gone}
    BY <1>0 DEF ListedOpen
  <2> QED
    BY <2>1, <2>3, <2>4 DEF BacklogSeen
<1>11. CASE EpollWaitFails \/ Cleanup
  BY <1>11 DEF EpollWaitFails, Cleanup, Registered
<1>12. CASE StopWrites
  <2>1. UNCHANGED <<server, link, batch, accepting>> /\ edge \subseteq edge'
    BY <1>12 DEF StopWrites, serverVars
  <2> QED
    BY <1>0, <1>1, <2>1
<1>13. CASE StopCloses
  <2>1. PICK k \in Listeners : CloseListener(k)
    BY <1>13 DEF StopCloses, Listeners
  <2>2. UNCHANGED <<server, batch, accepting>>
    BY <1>13 DEF StopCloses, serverVars
  <2>3. link[w] = "backlog" /\ k # l
    BY <1>0, <2>1 DEF CloseListener, Backlog
  <2> QED
    BY <1>1, <2>1, <2>2, <2>3 DEF CloseListener
<1>14. CASE StopJoins \/ StartSpawns
  <2>1. UNCHANGED <<edge, link, batch, accepting>>
    BY <1>14 DEF StopJoins, StartSpawns, kernelVars
  <2>2. server' = server
    BY <1>14 DEF StopJoins, StartSpawns, Registered
  <2> QED
    BY <1>2, <2>1, <2>2
<1>15. ASSUME NEW wsOnly \in BOOLEAN, SendToAllClients(wsOnly) PROVE BacklogSeen(l)'
  <2>1. UNCHANGED <<server, link, edge, batch, accepting>>
    BY <1>15 DEF SendToAllClients, kernelVars
  <2> QED
    BY <1>2, <2>1
<1>16. CASE CallStop \/ CallStart \/ StartOpens
  <2>1. UNCHANGED <<server, link, edge, batch, accepting>>
    BY <1>16 DEF CallStop, CallStart, StartOpens, kernelVars, serverVars
  <2> QED
    BY <1>2, <2>1
<1>17. CASE UNCHANGED vars
  <2>1. UNCHANGED <<server, link, edge, batch, accepting>>
    BY <1>17 DEF vars, kernelVars, serverVars
  <2> QED
    BY <1>2, <2>1
<1> QED
  BY <1>3, <1>4, <1>5, <1>6, <1>7, <1>8, <1>9, <1>10, <1>11, <1>12, <1>13, <1>14, <1>15,
     <1>16, <1>17 DEF Next, ServerStep, HandleEvent, AppStep

\* Somebody who waits in a backlog is not forgotten, for any number of
\* connections, events per epoll_wait and restarts, as long as there are as
\* many descriptors as connections.
THEOREM ServerBacklogKept == Spec => []BacklogKept
<1>1. Init => OwnerFd /\ Joined /\ ListenersShut /\ WaitsAtOpen /\ BacklogsSeen
  BY DEF Init, OwnerFd, Joined, ListenersShut, WaitsAtOpen, BacklogsSeen, Backlog,
         Listeners
<1>2. BacklogsSeen => BacklogKept
  BY DEF BacklogsSeen, BacklogSeen, Registered, BacklogKept
<1> QED
  BY <1>1, <1>2, OwnerFdStep, JoinedStep, ListenersShutStep, WaitsAtOpenStep,
     BacklogsSeenStep, InvAlways, PTL DEF Spec
=============================================================================
