--------------------------- MODULE TcpClientProofs ---------------------------
(***************************************************************************)
(* The client's invariants for any number of sockets.  They are inductive  *)
(* together with two facts: a pending error comes from a reset, and what a *)
(* Send has done is forgotten when the connection is given up.  The types  *)
(* of ClientHonest are proved apart, flags and the other variables.        *)
(***************************************************************************)
EXTENDS TcpClient, TLAPS

\* An error nobody has asked for is there only after a reset (TcpSocket.cpp:200).
ErrorIsReset == soError => wasReset

\* Modes change only without a connection, and nothing is remembered then.
SentWhileTold == ~told => sent = Nothing

CInv == /\ ConnectIsUp /\ SessionMatchesSocket /\ PlainSendIsWhole
        /\ CloseReleases /\ ErrorIsReset /\ SentWhileTold

\* A new client has no connection.
LEMMA CInvInit == ClientInit => CInv
BY DEF ClientInit, CInv, ConnectIsUp, SessionMatchesSocket, PlainSendIsWhole,
       CloseReleases, ErrorIsReset, SentWhileTold, Nothing

\* Close and a Connect that fails forget the error they find with the socket.
LEMMA ReleaseKeepsCInv ==
  ASSUME CInv, told' = FALSE, sent' = Nothing, soError' = FALSE,
         wasReset' = wasReset, sock' \in {0, SocketClosed(net, soError)}
  PROVE  CInv'
<1>1. sock' # 0 => wasReset'
  BY DEF CInv, ErrorIsReset, SocketClosed
<1>2. Nothing.layer = "none"
  BY DEF Nothing
<1> QED
  BY <1>1, <1>2 DEF CInv, ConnectIsUp, SessionMatchesSocket, PlainSendIsWhole,
                    CloseReleases, ErrorIsReset, SentWhileTold, Nothing

\* A Connect that succeeds makes the TLS session on the socket it connects.
LEMMA ConnectKeepsCInv ==
  ASSUME CInv, NEW outcome, NEW answer, Connect(outcome, answer)
  PROVE  CInv'
<1>1. CASE Established(outcome)
  <2>1. /\ outcome = "up" /\ wasUp' = TRUE /\ closed' = FALSE
        /\ sent' = Nothing /\ UNCHANGED <<sock, soError, mIsSecured, mIsWebSocket>>
        /\ wasReset' = (wasReset \/ answer = "recv error")
        /\ IF mIsSecured THEN TlsConnect ELSE TlsKept
    BY <1>1 DEF Connect, Established, Upgrade, modes
  <2>2. mIsSecured /\ tls' = "up" => session' = sock
    BY <2>1 DEF TlsConnect
  <2>3. Nothing.layer = "none"
    BY DEF Nothing
  <2> QED
    BY <2>1, <2>2, <2>3 DEF CInv, ConnectIsUp, SessionMatchesSocket,
                PlainSendIsWhole, CloseReleases, ErrorIsReset, SentWhileTold
<1>2. CASE ~Established(outcome)
  BY <1>2, ReleaseKeepsCInv DEF Connect, ConnectFails, CInv
<1> QED
  BY <1>1, <1>2

\* Send: what went over the socket is all of the data.
LEMMA SendKeepsCInv == CInv /\ Send => CInv'
<1> SUFFICES ASSUME CInv, Send PROVE CInv'
  OBVIOUS
<1>1. PICK w \in Writes :
        sent' = IF SendResult(w)
                THEN [layer |-> IF mIsSecured /\ tls = "up" THEN "tls" ELSE "socket",
                      whole |-> w.whole]
                ELSE Nothing
  BY DEF Send
<1>2. told /\ UNCHANGED <<mIsSecured, sock, soError, tls, session, told, wasUp, wasReset, closed>>
  BY DEF Send, modes
<1>3. sent'.layer = "socket" => sent'.whole
  BY <1>1 DEF SendResult, Nothing
<1> QED
  BY <1>2, <1>3 DEF CInv, ConnectIsUp, SessionMatchesSocket, PlainSendIsWhole,
                    CloseReleases, ErrorIsReset, SentWhileTold

\* Every step keeps the invariant.
LEMMA CInvStep == CInv /\ [ClientNext]_clientVars => CInv'
<1> SUFFICES ASSUME CInv, [ClientNext]_clientVars PROVE CInv'
  OBVIOUS
<1> USE DEF CInv, ConnectIsUp, SessionMatchesSocket, PlainSendIsWhole,
            CloseReleases, ErrorIsReset, SentWhileTold, Nothing, modes, ghosts
<1>1. ASSUME NEW secured \in BOOLEAN, NEW ws \in BOOLEAN, SetModes(secured, ws)
      PROVE  CInv'
  BY <1>1 DEF SetModes
<1>2. CASE Initialize
  BY <1>2 DEF Initialize
<1>3. CASE Close
  BY <1>3, ReleaseKeepsCInv DEF Close
<1>4. CASE Send
  BY <1>4, SendKeepsCInv
<1>5. CASE RecvWithTimeout
  BY <1>5 DEF RecvWithTimeout, SocketClosed
<1>6. CASE IsConnected
  BY <1>6 DEF IsConnected
<1>7. ASSUME NEW outcome, NEW answer, Connect(outcome, answer)
      PROVE  CInv'
  BY <1>7, ConnectKeepsCInv
<1>8. CASE PeerCloses
  BY <1>8 DEF PeerCloses
<1>9. CASE PeerResets
  BY <1>9 DEF PeerResets
<1>10. CASE UNCHANGED clientVars
  BY <1>10 DEF clientVars
<1> QED
  BY <1>1, <1>2, <1>3, <1>4, <1>5, <1>6, <1>7, <1>8, <1>9, <1>10 DEF ClientNext

\* The invariant holds in every state a client gets to.
LEMMA ClientInvariant == ClientSpec => []CInv
BY CInvInit, CInvStep, PTL DEF ClientSpec

\* A TLS session is used only on the socket it was made on.
THEOREM ClientSessionMatches == ClientSpec => []SessionMatchesSocket
BY ClientInvariant, PTL DEF CInv

\* Close loses a socket only after a reset (TcpSocket.cpp:599).
THEOREM ClientCloseReleases == ClientSpec => []CloseReleases
BY ClientInvariant, PTL DEF CInv

-----------------------------------------------------------------------------

\* The types, in the two parts that the provers take one at a time.
Flags == /\ mIsSecured \in BOOLEAN /\ mIsWebSocket \in BOOLEAN /\ soError \in BOOLEAN
         /\ told \in BOOLEAN /\ wasUp \in BOOLEAN /\ wasReset \in BOOLEAN
         /\ closed \in BOOLEAN
Others == /\ created \in 0..MaxSockets /\ sock \in 0..created
          /\ net \in {"idle", "up", "fin", "reset"}
          /\ tls \in {"none", "up"} /\ session \in 0..created
          /\ sent \in [layer : {"none", "tls", "socket"}, whole : BOOLEAN]

\* The two parts are the types.
LEMMA TypeParts == ClientTypeOK <=> Flags /\ Others
BY DEF ClientTypeOK, Flags, Others, modes

\* Every step keeps the flags Boolean.
LEMMA FlagsStep == Flags /\ [ClientNext]_clientVars => Flags'
<1> SUFFICES ASSUME Flags, [ClientNext]_clientVars PROVE Flags'
  OBVIOUS
<1> USE DEF Flags, modes, ghosts
<1>1. ASSUME NEW secured \in BOOLEAN, NEW ws \in BOOLEAN, SetModes(secured, ws)
      PROVE  Flags'
  BY <1>1 DEF SetModes
<1>2. CASE Initialize
  BY <1>2 DEF Initialize
<1>3. CASE Close
  BY <1>3 DEF Close
<1>4. CASE Send
  BY <1>4 DEF Send
<1>5. CASE RecvWithTimeout
  BY <1>5 DEF RecvWithTimeout
<1>6. CASE IsConnected
  BY <1>6 DEF IsConnected
<1>7. ASSUME NEW outcome, NEW answer, Connect(outcome, answer) PROVE Flags'
  <2>1. CASE Established(outcome)
    <3>1. told' \in BOOLEAN /\ wasReset' \in BOOLEAN /\ wasUp' \in BOOLEAN
      BY <1>7, <2>1, Zenon DEF Connect, Upgrade
    <3> QED
      BY <1>7, <2>1, <3>1 DEF Connect
  <2>2. CASE ~Established(outcome)
    BY <1>7, <2>2 DEF Connect, ConnectFails
  <2> QED
    BY <2>1, <2>2
<1>8. CASE PeerCloses
  BY <1>8 DEF PeerCloses
<1>9. CASE PeerResets
  BY <1>9 DEF PeerResets
<1>10. CASE UNCHANGED clientVars
  BY <1>10 DEF clientVars
<1> QED
  BY <1>1, <1>2, <1>3, <1>4, <1>5, <1>6, <1>7, <1>8, <1>9, <1>10 DEF ClientNext

\* Every step keeps the other types.
LEMMA OthersStep == Others /\ [ClientNext]_clientVars => Others'
<1> SUFFICES ASSUME Others, [ClientNext]_clientVars PROVE Others'
  OBVIOUS
<1> USE ClientAssumption DEF Others
<1>0. Nothing \in [layer : {"none", "tls", "socket"}, whole : BOOLEAN]
  BY DEF Nothing
<1>1. ASSUME UNCHANGED <<sock, created, net, tls, session, sent>> PROVE Others'
  BY <1>1
<1>2. CASE Initialize
  BY <1>0, <1>2 DEF Initialize
<1>sock. SocketClosed(net, soError) \in {0, sock}
  BY DEF SocketClosed
<1>3. ASSUME sock' \in {0, sock}, sent' \in {Nothing, sent}, UNCHANGED <<created, net>>,
             TlsClose \/ TlsKept
      PROVE  Others'
  <2>1. tls' \in {"none", "up"} /\ session' \in 0..created
    BY <1>3 DEF TlsClose, TlsKept
  <2> QED
    BY <1>0, <1>3, <2>1
<1>4. CASE Close
  BY <1>3, <1>4, <1>sock DEF Close
<1>5. CASE Send
  <2>1. \A w \in Writes : w.whole \in BOOLEAN
    <3> SUFFICES ASSUME NEW w \in Writes PROVE w.whole \in BOOLEAN
      OBVIOUS
    <3>1. \/ w = [ok |-> TRUE, whole |-> TRUE] \/ w = [ok |-> TRUE, whole |-> FALSE]
          \/ w = [ok |-> FALSE, whole |-> FALSE]
      BY DEF Writes
    <3>2. w = [ok |-> TRUE, whole |-> TRUE] => w.whole \in BOOLEAN
      OBVIOUS
    <3>3. w = [ok |-> TRUE, whole |-> FALSE] => w.whole \in BOOLEAN
      OBVIOUS
    <3>4. w = [ok |-> FALSE, whole |-> FALSE] => w.whole \in BOOLEAN
      OBVIOUS
    <3> QED
      BY <3>1, <3>2, <3>3, <3>4
  <2>2. sent' \in [layer : {"none", "tls", "socket"}, whole : BOOLEAN]
    BY <1>0, <1>5, <2>1 DEF Send
  <2> QED
    BY <1>5, <2>2 DEF Send
<1>6. CASE RecvWithTimeout
  BY <1>3, <1>6, <1>sock DEF RecvWithTimeout, TlsKept
<1>7. ASSUME NEW outcome, NEW answer, Connect(outcome, answer) PROVE Others'
  <2>1. CASE Established(outcome)
    <3>1. net' \in {"up", "reset"} /\ sent' = Nothing /\ UNCHANGED <<sock, created>>
      BY <1>7, <2>1 DEF Connect, Upgrade
    <3>2. tls' \in {"none", "up"} /\ session' \in 0..created
      BY <1>7, <2>1 DEF Connect, TlsConnect, TlsKept
    <3> QED
      BY <1>0, <3>1, <3>2
  <2>2. CASE ~Established(outcome)
    BY <1>3, <1>7, <1>sock, <2>2 DEF Connect, ConnectFails
  <2> QED
    BY <2>1, <2>2
<1>8. CASE PeerCloses \/ PeerResets
  BY <1>8 DEF PeerCloses, PeerResets, ghosts
<1> QED
  BY <1>1, <1>2, <1>4, <1>5, <1>6, <1>7, <1>8
     DEF ClientNext, clientVars, SetModes, IsConnected, ghosts

\* What Connect and a Send without TLS return is true, for any number of sockets,
\* retries and resets (TcpClient.cpp:75-179).
THEOREM ClientIsHonest == ClientSpec => []ClientHonest
<1>1. ClientInit => ClientTypeOK
  <2>1. ClientInit => Flags
    BY DEF ClientInit, Flags
  <2>2. Nothing \in [layer : {"none", "tls", "socket"}, whole : BOOLEAN]
    BY DEF Nothing
  <2>3. ClientInit => Others
    BY <2>2, ClientAssumption DEF ClientInit, Others
  <2> QED
    BY <2>1, <2>3, TypeParts
<1>2. CInv /\ ClientTypeOK => ClientHonest
  BY DEF CInv, ClientHonest
<1>3. ClientTypeOK /\ [ClientNext]_clientVars => ClientTypeOK'
  <2>1. Flags' /\ Others' => ClientTypeOK'
    BY TypeParts, PTL
  <2> QED
    BY <2>1, TypeParts, FlagsStep, OthersStep
<1> QED
  BY <1>1, <1>2, <1>3, ClientInvariant, PTL DEF ClientSpec
==============================================================================
