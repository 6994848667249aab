----------------------------- MODULE TcpClient -----------------------------
(***************************************************************************)
(* network/TcpClient.cpp with the TLS layer of network/TlsClient.cpp and   *)
(* the client's half of network/TcpSocket.cpp.  The client is used by one  *)
(* thread and its socket does not block: a call is one action, whose       *)
(* outcomes are those of the system calls in it.  Peers reset or close     *)
(* connections between calls.                                              *)
(*                                                                         *)
(* TcpSocket::IsValid asks SO_ERROR, and asking clears the pending error:  *)
(* soError is TRUE until somebody asks.                                    *)
(***************************************************************************)
EXTENDS Naturals

CONSTANT MaxSockets   \* bound: sockets created

ASSUME ClientAssumption == MaxSockets \in Nat

VARIABLES
  mIsSecured, mIsWebSocket,
  sock,       \* the number of the socket in mPeer, 0 for cSocketInvalid
  created,    \* sockets created so far
  net,        \* the connection of sock: "idle", "up", "fin", "reset"
  soError,
  tls,        \* the mbed TLS contexts: "up" with a session, or "none"
  session,    \* ghost: the socket the TLS session was made on
  told,       \* Connect has returned true, and no Initialize or Close came since
  wasUp,      \* ghost: that Connect found the TCP connection established
  wasReset,   \* ghost: the peer has reset the connection of sock
  closed,     \* ghost: Close was the last call that concerned sock
  sent        \* ghost: how the last Send that returned true went out

clientVars == <<mIsSecured, mIsWebSocket, sock, created, net, soError, tls, session,
                told, wasUp, wasReset, closed, sent>>
modes == <<mIsSecured, mIsWebSocket>>
ghosts == <<wasUp, wasReset, closed, sent>>

Nothing == [layer |-> "none", whole |-> TRUE]

ClientInit ==
  /\ mIsSecured = FALSE /\ mIsWebSocket = FALSE
  /\ sock = 0 /\ created = 0 /\ net = "idle" /\ soError = FALSE
  /\ tls = "none" /\ session = 0
  /\ told = FALSE /\ wasUp = FALSE /\ wasReset = FALSE /\ closed = FALSE
  /\ sent = Nothing

-----------------------------------------------------------------------------

\* Modes are set before a connection is made.
SetModes(secured, ws) ==
  /\ ~told
  /\ mIsSecured' = secured /\ mIsWebSocket' = ws
  /\ UNCHANGED <<sock, created, net, soError, tls, session, told, ghosts>>

\* TcpSocket::Create overwrites mPeer.socket, whatever it was.
Initialize ==
  /\ created < MaxSockets
  /\ \/ sock' = created + 1 /\ created' = created + 1
     \/ sock' = 0 /\ created' = created            \* socket() fails
  /\ net' = "idle" /\ soError' = FALSE
  /\ told' = FALSE /\ wasReset' = FALSE /\ closed' = FALSE /\ sent' = Nothing
  /\ UNCHANGED <<modes, tls, session, wasUp>>

\* Mutant of SocketClosed: closed only as long as the connection is up.
SocketClosedIfUp(n, err) == IF n = "up" THEN 0 ELSE sock

\* TcpSocket::Close with its IsValid: nothing is closed if an error is pending,
\* and the error is forgotten.
SocketClosed(n, err) == IF err THEN sock ELSE 0

\* TlsClient::Close frees the five contexts and leaves them cleared.
TlsClose == tls' = "none" /\ session' = 0
TlsKept == UNCHANGED <<tls, session>>

\* TcpClient::Close
Close ==
  /\ sock' = SocketClosed(net, soError) /\ soError' = FALSE
  /\ IF mIsSecured THEN TlsClose ELSE TlsKept
  /\ told' = FALSE /\ closed' = TRUE /\ sent' = Nothing
  /\ UNCHANGED <<modes, created, net, wasUp, wasReset>>

\* Mutant of Established: writable is taken for connected.
EstablishedIfWritable(outcome) ==
  sock # 0 /\ net = "idle" /\ outcome \in {"up", "refused"}

\* TcpSocket::Connect: connected at once, or select says writable and no error
\* is pending.
Established(outcome) == sock # 0 /\ net = "idle" /\ outcome = "up"

\* TcpSocket::Connect has failed: an error of connect() itself ("error": also
\* without a socket, or when it is connected already) closes the socket there,
\* a name that is not found, a timeout and a refusal leave it as it is.  Either
\* way TcpClient::Close follows.
ConnectFails(outcome) ==
  /\ outcome \in {"error", "unknown", "timeout", "refused"}
  /\ sock = 0 \/ net # "idle" => outcome \in {"error", "unknown"}
  /\ sock' = (IF outcome = "error" THEN 0 ELSE SocketClosed(net, soError))
  /\ soError' = FALSE
  /\ IF mIsSecured THEN TlsClose ELSE TlsKept
  /\ told' = FALSE /\ wasUp' = FALSE /\ closed' = TRUE
  /\ UNCHANGED <<net, wasReset>>

\* Mutant of TlsConnect: a session that is there is used again.
TlsConnectOnce ==
  /\ tls' = IF tls = "up" THEN tls ELSE "up"
  /\ session' = IF tls = "up" THEN session ELSE sock

\* TlsClient::Connect initialises the contexts whatever they were; a failing
\* handshake ends in its Close.
TlsConnect == \/ tls' = "up" /\ session' = sock
              \/ tls' = "none" /\ session' = 0

\* The end of TcpClient::Connect.  Over TLS the upgrade is written and its reply
\* not read.  Without TLS the reply is read once: ParseReplyHeaders fails on a
\* line without a colon ("reply": the status line is one), and succeeds when all
\* lines before the empty one have one ("colons") and on the empty reply of a
\* recv that failed; "none" is a timeout or a request written in part.
Upgrade(answer) ==
  /\ answer # "none" => mIsWebSocket /\ ~mIsSecured
  /\ told' = (mIsSecured \/ ~mIsWebSocket \/ answer \in {"colons", "recv error"})
  /\ net' = (IF answer = "recv error" THEN "reset" ELSE "up")
  /\ wasReset' = (wasReset \/ answer = "recv error")

Connect(outcome, answer) ==
  /\ \/ /\ Established(outcome)
        /\ IF mIsSecured THEN TlsConnect ELSE TlsKept
        /\ Upgrade(answer)
        /\ wasUp' = (outcome = "up") /\ closed' = FALSE
        /\ UNCHANGED <<sock, soError>>
     \/ ~Established(outcome) /\ answer = "none" /\ ConnectFails(outcome)
  /\ sent' = Nothing
  /\ UNCHANGED <<modes, created>>

\* TcpSocket::Write: the kernel takes all, a part and then says EAGAIN, or
\* reports an error; what it returns and whether all was written.
Writes == IF sock # 0 /\ net \in {"up", "fin"}
          THEN {[ok |-> TRUE, whole |-> TRUE], [ok |-> TRUE, whole |-> FALSE],
                [ok |-> FALSE, whole |-> FALSE]}
          ELSE {[ok |-> FALSE, whole |-> FALSE]}

\* TcpClient::Send.  mbedtls_ssl_write fails without a session; with one it
\* counts a part as all, because send_cb returns len.
SendResult(w) == IF mIsSecured THEN tls = "up" /\ w.ok ELSE w.ok /\ w.whole

Send ==
  /\ told
  /\ \E w \in Writes :
       sent' = IF SendResult(w)
               THEN [layer |-> IF mIsSecured /\ tls = "up" THEN "tls" ELSE "socket",
                     whole |-> w.whole]
               ELSE Nothing
  /\ UNCHANGED <<modes, sock, created, net, soError, tls, session, told, wasUp,
                 wasReset, closed>>

\* TcpClient::RecvWithTimeout: data, a timeout or an error change nothing but
\* the pending error; a WebSocket close frame closes the socket and leaves
\* the TLS contexts.
RecvWithTimeout ==
  /\ told
  /\ \/ soError' = FALSE /\ UNCHANGED <<sock, closed>>
     \/ /\ mIsWebSocket /\ sock # 0 /\ net = "up" /\ (mIsSecured => tls = "up")
        /\ sock' = SocketClosed(net, soError) /\ soError' = FALSE /\ closed' = TRUE
  /\ UNCHANGED <<modes, created, net, tls, session, told, wasUp, wasReset, sent>>

\* IsConnected asks SO_ERROR, too.
IsConnected ==
  /\ soError' = FALSE
  /\ UNCHANGED <<modes, sock, created, net, tls, session, told, ghosts>>

PeerCloses ==
  /\ sock # 0 /\ net = "up" /\ net' = "fin"
  /\ UNCHANGED <<modes, sock, created, soError, tls, session, told, ghosts>>

PeerResets ==
  /\ sock # 0 /\ net \in {"up", "fin"} /\ net' = "reset"
  /\ soError' = TRUE /\ wasReset' = TRUE
  /\ UNCHANGED <<modes, sock, created, tls, session, told, wasUp, closed, sent>>

ClientNext ==
  \/ \E secured, ws \in BOOLEAN : SetModes(secured, ws)
  \/ Initialize \/ Close \/ Send \/ RecvWithTimeout \/ IsConnected
  \/ \E outcome \in {"up", "error", "unknown", "timeout", "refused"},
        answer \in {"reply", "colons", "none", "recv error"} : Connect(outcome, answer)
  \/ PeerCloses \/ PeerResets

ClientSpec == ClientInit /\ [][ClientNext]_clientVars

-----------------------------------------------------------------------------

\* Every variable has its type.
ClientTypeOK ==
  /\ modes \in BOOLEAN \X BOOLEAN
  /\ created \in 0..MaxSockets /\ sock \in 0..created
  /\ net \in {"idle", "up", "fin", "reset"} /\ soError \in BOOLEAN
  /\ tls \in {"none", "up"} /\ session \in 0..created
  /\ {told, wasUp, wasReset, closed} \subseteq BOOLEAN
  /\ sent \in [layer : {"none", "tls", "socket"}, whole : BOOLEAN]

\* Connect returns true only when the TCP connection was established: a refused
\* or timed out non-blocking connect is told from a success (TcpSocket.cpp:178).
ConnectIsUp == told => wasUp

\* A session is used on the socket it was made on, whatever was closed,
\* initialised and connected before (TcpClient.cpp:84).
SessionMatchesSocket ==
  told /\ mIsSecured /\ tls = "up" /\ sock # 0 => session = sock

\* Without TLS a Send that returns true has written all of the data, although
\* the socket does not block (TcpClient.cpp:170-174).
PlainSendIsWhole == sent.layer = "socket" => sent.whole

\* Close releases the socket, unless the peer has reset the connection and
\* nobody has asked for the error (TcpSocket.cpp:599, IsValid).
CloseReleases == closed /\ sock # 0 => wasReset

\* What the client returns is true: Connect when the connection is established,
\* a plain Send when all was written (TcpClient.cpp:75-179).
ClientHonest == ClientTypeOK /\ ConnectIsUp /\ PlainSendIsWhole
=============================================================================
