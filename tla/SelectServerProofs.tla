-------------------------- MODULE SelectServerProofs --------------------------
(***************************************************************************)
(* Proofs about SelectServer for any number of peers, of bytes and of      *)
(* passes: mMasterSet and mMaxSd fit mClients, and the application sees    *)
(* the callbacks of a plain TCP connection in order, but for the ReadData  *)
(* that mPool still had when it was reported closed.                       *)
(*                                                                         *)
(* SetsMatchClients is not inductive.  That a number is never used twice,  *)
(* although connections leave the list, needs the numbers of all the       *)
(* connections that were ever accepted (Numbers), and so does the bound on *)
(* mMaxSd; that FD_CLR removes the number of no other connection follows.  *)
(***************************************************************************)
EXTENDS SelectServer, FiniteSetTheorems, SequenceTheorems, WellFoundedInduction,
        TLAPS

\* The connections that were accepted.
Opened == {c \in Clients : link[c] \in {"open", "reset"}}

Calls == {"NewConnection", "ReadData", "ClientClosed"}

Types ==
  /\ TypeOK
  /\ fin \in [Clients -> BOOLEAN] /\ fd \in [Clients -> Nat]
  /\ posted \in [Clients -> Nat] /\ seen \in [Clients -> Seq(Calls)]
  /\ mClients \in [Clients -> {"absent", "Closed", "Connected"}]

\* Accepted connections have numbers of their own, above those of the listeners
\* and no larger than the number of connections makes necessary.
Numbers ==
  /\ \A c \in Opened : fd[c] \in 3..(2 + Cardinality(Opened))
  /\ \A c \in Clients \ Opened : fd[c] = 0
  /\ \A c, d \in Opened : fd[c] = fd[d] => c = d

Lists ==
  /\ Listed \subseteq Opened
  /\ server = "start" => Listed = {}
  /\ server # "start" => mMasterSet \ Servers = {fd[c] : c \in Listed}
  /\ \A c \in Listed : fd[c] <= mMaxSd

Inv == Types /\ Numbers /\ Lists

-----------------------------------------------------------------------------
(* Max and Min of the library, and numbers of connections.                  *)

\* A set of naturals that is not empty has a least member.
LEMMA LeastNat ==
  ASSUME NEW T \in SUBSET Nat, T # {}
  PROVE  \E m \in T : \A y \in T : m <= y
<1>1. PICK m \in T : \A y \in T : ~(<<y, m>> \in OpToRel(<, Nat))
  BY NatLessThanWellFounded, WFMin
<1>2. \A y \in T : ~(y < m)
  BY <1>1 DEF OpToRel
<1> QED
  BY <1>2

\* The largest member of a set of naturals that has a bound.
LEMMA MaxIs ==
  ASSUME NEW S \in SUBSET Nat, S # {}, NEW b \in Nat, \A x \in S : x <= b
  PROVE  Max(S) \in S /\ \A x \in S : x <= Max(S)
<1>1. PICK T : T = {b - x : x \in S}
  OBVIOUS
<1>2. T \in SUBSET Nat /\ T # {}
  <2>1. \A x \in S : b - x \in Nat
    OBVIOUS
  <2> QED
    BY <1>1, <2>1
<1>3. PICK m \in T : \A y \in T : m <= y
  BY <1>2, LeastNat
<1>4. PICK g \in S : m = b - g
  BY <1>1, <1>3
<1>5. ASSUME NEW x \in S PROVE g >= x
  <2>1. b - x \in T
    BY <1>1
  <2>2. b - g <= b - x /\ g \in Nat /\ x \in Nat
    BY <2>1, <1>3, <1>4
  <2> QED
    BY <2>2
<1> QED
  BY <1>5 DEF Max

\* The smaller of two naturals.
LEMMA MinOfTwo ==
  ASSUME NEW a \in Nat, NEW b \in Nat
  PROVE  Min({a, b}) \in Nat /\ Min({a, b}) <= a /\ Min({a, b}) <= b
<1>1. \E x \in {a, b} : \A y \in {a, b} : x =< y
  OBVIOUS
<1>2. Min({a, b}) \in {a, b} /\ \A y \in {a, b} : Min({a, b}) =< y
  BY <1>1 DEF Min
<1> QED
  BY <1>2

\* There are as many accepted connections as peers, at most.
LEMMA OpenedCount ==
  /\ IsFiniteSet(Opened) /\ Cardinality(Opened) \in Nat
  /\ Cardinality(Opened) <= Cardinality(Clients) /\ Cardinality(Clients) \in Nat
<1>1. Opened \subseteq Clients /\ IsFiniteSet(Clients)
  BY SelectAssumption DEF Opened
<1>2. IsFiniteSet(Opened) /\ Cardinality(Opened) <= Cardinality(Clients)
  BY <1>1, FS_Subset
<1> QED
  BY <1>1, <1>2, FS_CardinalityType

\* ... of the next state as well.
LEMMA OpenedCountNext ==
  /\ Cardinality(Opened') \in Nat
  /\ Cardinality(Opened') <= Cardinality(Clients)
<1>1. Opened' \subseteq Clients /\ IsFiniteSet(Clients)
  BY SelectAssumption DEF Opened
<1>2. IsFiniteSet(Opened') /\ Cardinality(Opened') <= Cardinality(Clients)
  BY <1>1, FS_Subset
<1> QED
  BY <1>2, FS_CardinalityType

\* Accepting adds to the count what is accepted.
LEMMA AcceptedCount ==
  ASSUME Opened' = Opened \cup Accepted
  PROVE  /\ Cardinality(Accepted) \in Nat
         /\ Cardinality(Opened') = Cardinality(Opened) + Cardinality(Accepted)
<1>1. Accepted \subseteq Clients /\ Opened \subseteq Clients /\ Opened \cap Accepted = {}
  BY DEF Accepted, Opened
<1>2. IsFiniteSet(Accepted) /\ IsFiniteSet(Opened)
  BY <1>1, FS_Subset, SelectAssumption
<1>3. Cardinality(Accepted) \in Nat /\ Cardinality(Opened) \in Nat
  BY <1>2, FS_CardinalityType
<1>4. Cardinality(Opened \cup Accepted)
        = Cardinality(Opened) + Cardinality(Accepted) - Cardinality(Opened \cap Accepted)
  BY <1>2, FS_Union
<1>5. Cardinality(Opened \cap Accepted) = 0
  BY <1>1, FS_EmptySet
<1> QED
  BY <1>3, <1>4, <1>5

\* MaxSocket reaches every number it is given.
LEMMA MaxSocketIs ==
  ASSUME NEW cs, NEW f, lsn \subseteq Servers,
         NEW b \in Nat, b >= 2, \A c \in cs : f[c] \in 0..b
  PROVE  /\ MaxSocket(cs, f) \in 0..b
         /\ \A c \in cs : f[c] <= MaxSocket(cs, f)
<1>1. PICK S : S = lsn \cup {0} \cup {f[c] : c \in cs}
  OBVIOUS
<1>2. S \in SUBSET Nat /\ S # {} /\ (\A x \in S : x <= b)
  <2>1. \A x \in lsn : x \in Nat /\ x <= b
    BY DEF Servers, Tcp, Ws
  <2>2. \A c \in cs : f[c] \in Nat /\ f[c] <= b
    OBVIOUS
  <2>3. \A x \in S : x \in Nat /\ x <= b
    BY <1>1, <2>1, <2>2
  <2> QED
    BY <1>1, <2>3
<1>3. Max(S) \in S /\ \A x \in S : x <= Max(S)
  BY <1>2, MaxIs
<1>4. Max(S) = MaxSocket(cs, f)
  BY <1>1 DEF MaxSocket
<1>5. \A c \in cs : f[c] \in S
  BY <1>1
<1>6. Max(S) \in 0..b
  <2>1. PICK m : m = Max(S)
    OBVIOUS
  <2>2. m \in S
    BY <1>3, <2>1
  <2>3. m \in Nat /\ m <= b
    BY <1>2, <2>2
  <2> QED
    BY <2>1, <2>3
<1> QED
  BY <1>3, <1>4, <1>5, <1>6

-----------------------------------------------------------------------------
(* The steps that accept and remove nobody.                                 *)

\* A step that leaves the table and the numbers alone.
LEMMA InvQuiet ==
  ASSUME Inv, Types', UNCHANGED <<fd, mMasterSet, mMaxSd, mClients>>,
         Opened' = Opened, server' = "start" <=> server = "start"
  PROVE  Inv'
<1>1. Numbers'
  BY DEF Inv, Numbers
<1>2. Listed' = Listed
  BY DEF Listed
<1>3. Lists'
  BY <1>2 DEF Inv, Lists
<1> QED
  BY <1>1, <1>3 DEF Inv

\* What a peer does.
LEMMA PeerKeeps ==
  ASSUME Inv, NEW c \in Clients, PeerStep(c)
  PROVE  Inv'
<1>0. Types /\ TypeOK
  BY DEF Inv, Types
<1>1. UNCHANGED <<fd, lsn, server, mMasterSet, mMaxSd, working, passes, mClients,
                  app, posted, seen>>
  BY DEF PeerStep
<1>2. ASSUME link' \in [Clients -> {"new", "backlog", "open", "reset"}],
             rx' \in [Clients -> 0..sent'], sent' \in 0..MaxBytes,
             fin' \in [Clients -> BOOLEAN], Opened' = Opened
      PROVE  Inv'
  <2>1. Types'
    BY <1>0, <1>1, <1>2 DEF Types, TypeOK
  <2> QED
    BY <1>1, <1>2, <2>1, InvQuiet
<1>3. CASE PeerConnect(c)
  BY <1>0, <1>2, <1>3 DEF PeerConnect, Opened, Types, TypeOK
<1>4. CASE PeerSend(c)
  <2>1. /\ rx' = [rx EXCEPT ![c] = @ + 1] /\ sent' = sent + 1 /\ sent < MaxBytes
        /\ UNCHANGED <<link, fin>>
    BY <1>4 DEF PeerSend
  <2>2. sent' \in 0..MaxBytes /\ \A n \in 0..sent : n \in 0..sent' /\ n + 1 \in 0..sent'
    BY <1>0, <2>1, SelectAssumption DEF TypeOK
  <2>3. rx' \in [Clients -> 0..sent']
    BY <1>0, <2>1, <2>2 DEF TypeOK
  <2> QED
    BY <1>0, <1>2, <2>1, <2>2, <2>3 DEF Opened, Types, TypeOK
<1>5. CASE PeerShutdown(c)
  BY <1>0, <1>2, <1>5 DEF PeerShutdown, Opened, Types, TypeOK
<1>6. CASE PeerReset(c)
  <2>1. /\ link' = [link EXCEPT ![c] = "reset"] /\ link[c] = "open"
        /\ rx' = [rx EXCEPT ![c] = 0] /\ sent' = sent /\ fin' = fin
    BY <1>6 DEF PeerReset
  <2>2. 0 \in 0..sent
    BY <1>0, SelectAssumption DEF TypeOK
  <2>3. rx' \in [Clients -> 0..sent']
    BY <1>0, <2>1, <2>2 DEF TypeOK
  <2>4. Opened' = Opened /\ link' \in [Clients -> {"new", "backlog", "open", "reset"}]
    BY <1>0, <2>1 DEF Opened, Types, TypeOK
  <2> QED
    BY <1>0, <1>2, <2>1, <2>3, <2>4 DEF Types, TypeOK
<1> QED
  BY <1>3, <1>4, <1>5, <1>6 DEF PeerStep

\* The steps of Run around the passes, and those of Stop.
LEMMA LoopKeeps ==
  ASSUME Inv, \/ SelectFails \/ SelectBlocks \/ SelectReturns \/ EndPasses
              \/ Cleanup \/ AppStep
  PROVE  Inv'
<1>0. Types /\ TypeOK /\ Lists
  BY DEF Inv, Types
<1>1. CASE SelectFails \/ SelectBlocks \/ SelectReturns \/ EndPasses
  <2>1. /\ UNCHANGED <<peerVars, lsn, setVars, app>>
        /\ server # "start"
        /\ server' \in {"loop", "blocked", "scan", "end"}
    BY <1>1 DEF SelectFails, SelectBlocks, SelectReturns, EndPasses
  <2>2. Types' /\ Opened' = Opened
    BY <1>0, <2>1 DEF Types, TypeOK, Opened, peerVars, setVars
  <2> QED
    BY <2>1, <2>2, InvQuiet DEF setVars
<1>2. CASE Cleanup
  <2>1. /\ UNCHANGED <<rx, sent, fin, fd, lsn, mMasterSet, mMaxSd, mClients, app, posted, seen>>
        /\ server = "end" /\ server' = "done"
        /\ link' = [c \in Clients |-> IF c \in Listed /\ fd[c] \in mMasterSet
                                      THEN "reset" ELSE link[c]]
    BY <1>2 DEF Cleanup
  <2>2. Types'
    BY <1>0, <2>1 DEF Types, TypeOK
  <2>3. Opened' = Opened
    BY <1>0, <2>1 DEF Lists, Opened
  <2> QED
    BY <2>1, <2>2, <2>3, InvQuiet
<1>3. CASE AppStep
  <2>1. /\ UNCHANGED <<peerVars, server, setVars>> /\ lsn' \subseteq lsn
        /\ app' \in {"up", "closeTcp", "closeWs", "join", "down"}
    BY <1>3 DEF AppStep, CallStop, StopClosesTcp, StopClosesWs, StopJoins, AppGoes
  <2>2. Types' /\ Opened' = Opened
    BY <1>0, <2>1 DEF Types, TypeOK, Opened, peerVars, setVars
  <2> QED
    BY <2>1, <2>2, InvQuiet DEF setVars
<1> QED
  BY <1>1, <1>2, <1>3

\* A worker runs a ReadData.
LEMMA RunKeeps ==
  ASSUME Inv, NEW c \in Clients, RunReadData(c)
  PROVE  Inv'
<1>0. Types /\ TypeOK
  BY DEF Inv, Types
<1>1. /\ UNCHANGED <<peerVars, fd, lsn, server, mMasterSet, mMaxSd, mClients, app>>
      /\ posted[c] > 0 /\ posted' = [posted EXCEPT ![c] = @ - 1]
      /\ seen' = [seen EXCEPT ![c] = Append(@, "ReadData")]
  BY DEF RunReadData
<1>2. posted[c] - 1 \in Nat
  BY <1>0, <1>1 DEF Types
<1>3. Append(seen[c], "ReadData") \in Seq(Calls)
  <2>1. seen[c] \in Seq(Calls) /\ "ReadData" \in Calls
    BY <1>0 DEF Types, Calls
  <2> QED
    BY <2>1, AppendProperties
<1>4. posted' \in [Clients -> Nat] /\ seen' \in [Clients -> Seq(Calls)]
  BY <1>0, <1>1, <1>2, <1>3 DEF Types
<1>5. Types' /\ Opened' = Opened
  BY <1>0, <1>1, <1>4 DEF Types, TypeOK, Opened, peerVars
<1> QED
  BY <1>1, <1>5, InvQuiet

\* Run before its loop: nobody is listed, and only listeners are watched.
LEMMA WatchKeeps ==
  ASSUME Inv, SetTcp \/ SetWs
  PROVE  Inv'
<1>0. Types /\ TypeOK /\ Lists /\ Numbers
  BY DEF Inv, Types
<1>1. PICK f \in Servers :
        /\ UNCHANGED <<link, rx, sent, fin, fd, lsn, mMaxSd, mClients, app, posted, seen>>
        /\ server # "start" /\ server' \in {"setWs", "loop"}
        /\ mMasterSet' = mMasterSet \cup ({f} \cap lsn)
  BY DEF SetTcp, SetWs, Watch, peerVars, Servers
<1>2. Listed' = Listed /\ Opened' = Opened
  BY <1>1 DEF Listed, Opened
<1>3. Types' /\ Numbers'
  BY <1>0, <1>1, <1>2 DEF Types, TypeOK, Numbers
<1>4. mMasterSet' \ Servers = mMasterSet \ Servers
  BY <1>1
<1>5. Lists'
  BY <1>0, <1>1, <1>2, <1>4 DEF Lists
<1> QED
  BY <1>3, <1>5 DEF Inv

LEMMA SetUpKeeps ==
  ASSUME Inv, SetUp
  PROVE  Inv'
<1>0. Types /\ TypeOK /\ Lists /\ Numbers
  BY DEF Inv, Types
<1>1. /\ UNCHANGED <<link, rx, sent, fin, fd, lsn, mClients, app, posted, seen>>
      /\ server = "start" /\ server' = "setTcp"
      /\ mMasterSet' = {} /\ mMaxSd' = MaxSocket({}, fd)
  BY DEF SetUp, peerVars
<1>2. Listed = {} /\ Listed' = {} /\ Opened' = Opened
  BY <1>0, <1>1 DEF Lists, Listed, Opened
<1>3. mMaxSd' \in 0..(2 + Cardinality(Clients))
  <2>1. PICK b : b = 2 + Cardinality(Clients)
    OBVIOUS
  <2>2. b \in Nat /\ b >= 2
    BY <2>1, OpenedCount
  <2>3. lsn \subseteq Servers
    BY <1>0 DEF TypeOK
  <2>4. MaxSocket({}, fd) \in 0..b
    BY <2>2, <2>3, MaxSocketIs
  <2> QED
    BY <1>1, <2>1, <2>4
<1>4. Types'
  BY <1>0, <1>1, <1>3 DEF Types, TypeOK
<1>5. Numbers'
  BY <1>0, <1>1, <1>2 DEF Numbers
<1>6. Lists'
  BY <1>0, <1>1, <1>2 DEF Lists, TypeOK
<1> QED
  BY <1>4, <1>5, <1>6 DEF Inv

-----------------------------------------------------------------------------
(* One pass over working_set.  The names are those of the LET of Pass.      *)

OldMax == Max({Ws} \cup {fd[c] : c \in Clients})

Scanned == {c \in Listed : fd[c] \in working}

After(outcome) ==
  [c \in Clients |-> IF c \in Accepted THEN "Closed"
                     ELSE IF c \in Scanned THEN StateAfter(c, outcome[c])
                     ELSE mClients[c]]

Leaving(outcome) == {c \in Clients : After(outcome)[c] = "DeleteLater"}

\* The state of a connection before UpdateClients: who is listed stays so, who
\* is accepted becomes so, and only one that was received from is marked.
LEMMA AfterIs ==
  ASSUME Inv, NEW outcome, NEW c \in Clients
  PROVE  /\ After(outcome)[c] \in {"absent", "Closed", "Connected", "DeleteLater"}
         /\ After(outcome)[c] = "absent" <=> c \notin Listed \cup Accepted
         /\ After(outcome)[c] = "DeleteLater" => c \in Scanned /\ c \notin Accepted
         /\ c \in Scanned => c \notin Accepted
         /\ c \in Scanned \ WsClients =>
              After(outcome)[c] = IF rx[c] = 0 THEN "DeleteLater" ELSE mClients[c]
<1>0. /\ mClients[c] \in {"absent", "Closed", "Connected"} /\ rx[c] \in Nat
      /\ Listed \subseteq Opened
  BY SelectAssumption DEF Inv, Types, TypeOK, Lists
<1>1. Accepted \cap Opened = {} /\ Scanned \subseteq Listed
  BY DEF Accepted, Opened, Scanned
<1>2. CASE c \in Accepted
  BY <1>0, <1>1, <1>2 DEF After
<1>3. CASE c \notin Accepted /\ c \notin Scanned
  BY <1>0, <1>1, <1>3 DEF After, Listed
<1>4. CASE c \in Scanned
  <2>1. c \notin Accepted /\ c \in Listed /\ mClients[c] \in {"Closed", "Connected"}
    BY <1>0, <1>1, <1>4 DEF Listed
  <2>2. After(outcome)[c] = StateAfter(c, outcome[c])
    BY <1>4, <2>1 DEF After
  <2>3. CASE rx[c] = 0
    BY <1>4, <2>1, <2>2, <2>3 DEF StateAfter
  <2>4. CASE rx[c] > 0 /\ c \notin WsClients
    BY <1>4, <2>1, <2>2, <2>4 DEF StateAfter
  <2>5. CASE rx[c] > 0 /\ c \in WsClients /\ mClients[c] = "Closed"
    <3>1. StateAfter(c, outcome[c]) = IF outcome[c] = "good" THEN "Connected" ELSE "Closed"
      BY <2>5 DEF StateAfter
    <3> QED
      BY <1>4, <2>1, <2>2, <2>5, <3>1
  <2>6. CASE rx[c] > 0 /\ c \in WsClients /\ mClients[c] # "Closed"
    <3>1. StateAfter(c, outcome[c]) = IF outcome[c] = "close" THEN "DeleteLater" ELSE mClients[c]
      BY <2>6 DEF StateAfter
    <3> QED
      BY <1>4, <2>1, <2>2, <2>6, <3>1
  <2> QED
    BY <1>0, <2>3, <2>4, <2>5, <2>6
<1> QED
  BY <1>2, <1>3, <1>4

\* The numbers given out so far are at most OldMax.
LEMMA OldMaxIs ==
  ASSUME Inv
  PROVE  /\ OldMax \in 2..(2 + Cardinality(Opened))
         /\ \A c \in Clients : fd[c] <= OldMax
<1>1. PICK S : S = {Ws} \cup {fd[c] : c \in Clients}
  OBVIOUS
<1>2. PICK b : b = 2 + Cardinality(Opened)
  OBVIOUS
<1>3. b \in Nat /\ b >= 2
  BY <1>2, OpenedCount
<1>4. \A c \in Clients : fd[c] \in Nat /\ fd[c] <= b
  BY <1>2, <1>3 DEF Inv, Numbers
<1>5. \A x \in S : x \in Nat /\ x <= b
  BY <1>1, <1>3, <1>4 DEF Ws
<1>6. S \in SUBSET Nat /\ S # {} /\ 2 \in S
  BY <1>1, <1>5 DEF Ws
<1>7. Max(S) \in S /\ \A x \in S : x <= Max(S)
  BY <1>3, <1>5, <1>6, MaxIs
<1>8. PICK m : m = Max(S)
  OBVIOUS
<1>9. m \in Nat /\ m <= b /\ 2 <= m /\ \A c \in Clients : fd[c] <= m
  BY <1>1, <1>5, <1>6, <1>7, <1>8
<1>10. m = OldMax
  BY <1>1, <1>8 DEF OldMax
<1> QED
  BY <1>2, <1>9, <1>10

\* What a pass does to the table, the sets and the numbers.
LEMMA PassEffect ==
  ASSUME Inv, Pass
  PROVE  \E leaving \in SUBSET Listed :
           /\ Listed' = (Listed \ leaving) \cup Accepted
           /\ leaving \cap Accepted = {}
           /\ mClients' \in [Clients -> {"absent", "Closed", "Connected"}]
           /\ mMasterSet' = (mMasterSet \ {fd[c] : c \in leaving})
                              \cup {fd'[c] : c \in Accepted}
           /\ mMaxSd' = MaxSocket(Listed', fd')
<1>1. PICK outcome :
        /\ mClients' = [c \in Clients |-> IF c \in Leaving(outcome) THEN "absent"
                                          ELSE After(outcome)[c]]
        /\ mMasterSet' = Remaining(Leaving(outcome)) \cup {fd'[c] : c \in Accepted}
        /\ mMaxSd' = MaxSocket({c \in Clients : After(outcome)[c] \notin {"absent", "DeleteLater"}}, fd')
  BY DEF Pass, Leaving, After, Scanned
<1>2. Leaving(outcome) \subseteq Listed /\ Leaving(outcome) \cap Accepted = {}
  BY AfterIs DEF Leaving, Scanned
<1>3. {c \in Clients : After(outcome)[c] \notin {"absent", "DeleteLater"}}
        = (Listed \ Leaving(outcome)) \cup Accepted
  <2>1. \A c \in Clients : After(outcome)[c] = "absent" <=> c \notin Listed \cup Accepted
    BY AfterIs
  <2>2. Listed \subseteq Clients /\ Accepted \subseteq Clients
    BY DEF Listed, Accepted
  <2>3. \A c \in Clients : After(outcome)[c] = "DeleteLater" <=> c \in Leaving(outcome)
    BY DEF Leaving
  <2> QED
    BY <1>2, <2>1, <2>2, <2>3
<1>4. mClients' \in [Clients -> {"absent", "Closed", "Connected"}]
  <2>1. \A c \in Clients : c \notin Leaving(outcome)
                             => After(outcome)[c] \in {"absent", "Closed", "Connected"}
    BY AfterIs DEF Leaving
  <2> QED
    BY <1>1, <2>1
<1>5. Listed' = {c \in Clients : After(outcome)[c] \notin {"absent", "DeleteLater"}}
  <2>1. Listed' = {c \in Clients : mClients'[c] # "absent"}
    BY DEF Listed
  <2>2. \A c \in Clients : mClients'[c] # "absent" <=>
                             After(outcome)[c] \notin {"absent", "DeleteLater"}
    BY <1>1 DEF Leaving
  <2> QED
    BY <2>1, <2>2
<1> QED
  BY <1>1, <1>2, <1>3, <1>4, <1>5 DEF Remaining

\* The numbers a pass gives out are new, and each is given once.
LEMMA PassNumbers ==
  ASSUME Inv, Pass
  PROVE  /\ fd' \in [Clients -> Nat] /\ Opened' = Opened \cup Accepted
         /\ \A c \in Clients \ Accepted : fd'[c] = fd[c]
         /\ Numbers'
<1>0. /\ fd \in [Clients -> Nat] /\ link \in [Clients -> {"new", "backlog", "open", "reset"}]
      /\ Numbers
  BY DEF Inv, Types, TypeOK
<1>1. PICK number \in [Accepted -> 1..Cardinality(Accepted)] :
        /\ \A c, d \in Accepted : number[c] = number[d] => c = d
        /\ fd' = [c \in Clients |-> IF c \in Accepted THEN OldMax + number[c] ELSE fd[c]]
  BY DEF Pass, OldMax
<1>2. Opened' = Opened \cup Accepted
  BY <1>0 DEF Pass, Opened, Accepted
<1>3. /\ Opened \cap Accepted = {} /\ Accepted \subseteq Clients /\ Opened \subseteq Clients
      /\ Opened' \subseteq Clients
  BY <1>2 DEF Opened, Accepted
<1>4. PICK old, have, more : old = OldMax /\ have = Cardinality(Opened) /\ more = Cardinality(Accepted)
  OBVIOUS
<1>5. /\ have \in Nat /\ more \in Nat /\ Cardinality(Opened') = have + more
      /\ old \in Nat /\ 2 <= old /\ old <= 2 + have
      /\ \A c \in Clients : fd[c] <= old
  BY <1>2, <1>4, OldMaxIs, OpenedCount, AcceptedCount
<1>6. \A c \in Accepted : number[c] \in Nat /\ 1 <= number[c] /\ number[c] <= more
  BY <1>1, <1>4, <1>5
<1>7. \A c \in Accepted : fd'[c] = old + number[c]
  BY <1>1, <1>3, <1>4
<1>8. \A c \in Clients \ Accepted : fd'[c] = fd[c]
  BY <1>1
<1>9. fd' \in [Clients -> Nat]
  BY <1>0, <1>1, <1>4, <1>5, <1>6
<1>10. \A c \in Accepted : fd'[c] \in 3..(2 + (have + more)) /\ fd'[c] > old
  BY <1>5, <1>6, <1>7
<1>11. \A c \in Opened : fd'[c] \in 3..(2 + (have + more)) /\ fd'[c] <= old
  <2> SUFFICES ASSUME NEW c \in Opened
               PROVE  fd'[c] \in 3..(2 + (have + more)) /\ fd'[c] <= old
    OBVIOUS
  <2>1. fd'[c] = fd[c] /\ fd[c] \in 3..(2 + have) /\ fd[c] <= old
    BY <1>0, <1>3, <1>4, <1>5, <1>8 DEF Numbers
  <2> QED
    BY <1>5, <2>1
<1>12. \A c \in Clients \ Opened' : fd'[c] = 0
  BY <1>0, <1>2, <1>8 DEF Numbers
<1>13. ASSUME NEW c \in Opened', NEW d \in Opened', fd'[c] = fd'[d] PROVE c = d
  <2>1. CASE c \in Accepted /\ d \in Accepted
    <3>1. number[c] = number[d]
      BY <1>5, <1>6, <1>7, <1>13, <2>1
    <3> QED
      BY <1>1, <2>1, <3>1
  <2>2. CASE c \in Opened /\ d \in Opened
    <3>1. fd[c] = fd[d]
      BY <1>3, <1>8, <1>13, <2>2
    <3> QED
      BY <1>0, <2>2, <3>1 DEF Numbers
  <2>3. CASE c \in Accepted /\ d \in Opened
    <3>1. fd'[c] > old /\ fd'[d] <= old /\ fd'[c] \in Nat
      BY <1>3, <1>9, <1>10, <1>11, <2>3
    <3> QED
      BY <1>5, <1>13, <3>1
  <2>4. CASE c \in Opened /\ d \in Accepted
    <3>1. fd'[d] > old /\ fd'[c] <= old /\ fd'[c] \in Nat
      BY <1>3, <1>9, <1>10, <1>11, <2>4
    <3> QED
      BY <1>5, <1>13, <3>1
  <2> QED
    BY <1>2, <2>1, <2>2, <2>3, <2>4
<1>14. \A c \in Opened' : fd'[c] \in 3..(2 + Cardinality(Opened'))
  BY <1>2, <1>5, <1>10, <1>11
<1> QED
  BY <1>2, <1>8, <1>9, <1>12, <1>13, <1>14 DEF Numbers

\* What a pass tells the application and leaves to the pool.
LEMMA PassCalls ==
  ASSUME Inv, Pass
  PROVE  /\ seen' \in [Clients -> Seq(Calls)] /\ posted' \in [Clients -> Nat]
         /\ \A c \in Clients \ WsClients :
              \/ /\ c \in Accepted /\ seen'[c] = seen[c] \o <<"NewConnection">>
                 /\ posted'[c] = posted[c]
              \/ c \in Listed \cap Listed' /\ seen'[c] = seen[c]
              \/ /\ c \in Listed \ Listed' /\ seen'[c] = seen[c] \o <<"ClientClosed">>
                 /\ posted'[c] = posted[c]
              \/ c \notin Accepted /\ seen'[c] = seen[c] /\ posted'[c] = posted[c]
<1>0. /\ seen \in [Clients -> Seq(Calls)] /\ rx \in [Clients -> Nat]
      /\ posted \in [Clients -> Nat]
  BY SelectAssumption DEF Inv, Types, TypeOK
<1>1. PICK outcome :
        /\ mClients' = [c \in Clients |-> IF c \in Leaving(outcome) THEN "absent"
                                          ELSE After(outcome)[c]]
        /\ posted' = [c \in Clients |->
             posted[c] + (IF c \in Scanned THEN PostsOf(c, outcome[c]) ELSE 0)]
        /\ seen' = [c \in Clients |->
             seen[c]
             \o (IF c \in Accepted \ WsClients THEN <<"NewConnection">> ELSE <<>>)
             \o (IF c \in Scanned THEN CallsOf(c, outcome[c]) ELSE <<>>)
             \o (IF c \in Leaving(outcome) THEN <<"ClientClosed">> ELSE <<>>)]
  BY DEF Pass, Leaving, After, Scanned
<1>2. <<"NewConnection">> \in Seq(Calls) /\ <<"ClientClosed">> \in Seq(Calls)
      /\ <<>> \in Seq(Calls)
  BY DEF Calls
<1>3. \A c \in Clients : seen[c] \in Seq(Calls) /\ seen[c] \o <<>> = seen[c]
  BY <1>0, <1>2, ConcatEmptySeq
<1>4. ASSUME NEW c \in Clients PROVE seen'[c] \in Seq(Calls)
  <2>1. CallsOf(c, outcome[c]) \in {<<>>, <<"NewConnection">>}
    BY DEF CallsOf
  <2>2. PICK s, t, u : /\ s \in Seq(Calls) /\ t \in Seq(Calls) /\ u \in Seq(Calls)
                       /\ seen'[c] = seen[c] \o s \o t \o u
    BY <1>1, <1>2, <2>1
  <2>3. seen[c] \o s \in Seq(Calls)
    BY <1>3, <2>2, ConcatProperties
  <2>4. seen[c] \o s \o t \in Seq(Calls)
    BY <2>2, <2>3, ConcatProperties
  <2> QED
    BY <2>2, <2>4, ConcatProperties
<1>5. ASSUME NEW c \in Clients PROVE posted'[c] \in Nat
  <2>1. PostsOf(c, outcome[c]) \in {0, 1}
    <3>1. mClients[c] = "Closed" \/ mClients[c] # "Closed"
      OBVIOUS
    <3> QED
      BY <1>0 DEF PostsOf
  <2>2. PICK n \in {0, 1} : posted'[c] = posted[c] + n
    BY <1>1, <2>1
  <2> QED
    BY <1>0, <2>2
<1>6. ASSUME NEW c \in Clients \ WsClients
      PROVE  \/ /\ c \in Accepted /\ seen'[c] = seen[c] \o <<"NewConnection">>
                /\ posted'[c] = posted[c]
             \/ c \in Listed \cap Listed' /\ seen'[c] = seen[c]
             \/ /\ c \in Listed \ Listed' /\ seen'[c] = seen[c] \o <<"ClientClosed">>
                /\ posted'[c] = posted[c]
             \/ c \notin Accepted /\ seen'[c] = seen[c] /\ posted'[c] = posted[c]
  <2>0. c \in Clients /\ seen[c] \o <<>> = seen[c] /\ CallsOf(c, outcome[c]) = <<>>
    BY <1>3 DEF CallsOf
  <2>1. CASE c \in Accepted
    <3>1. c \notin Scanned /\ c \notin Leaving(outcome)
      BY <2>0, <2>1, AfterIs DEF Leaving
    <3>2. seen'[c] = seen[c] \o <<"NewConnection">> \o <<>> \o <<>>
      BY <1>1, <2>0, <2>1, <3>1
    <3>3. PICK s : s = seen[c] \o <<"NewConnection">>
      OBVIOUS
    <3>4. s \in Seq(Calls)
      BY <1>2, <1>3, <2>0, <3>3, ConcatProperties
    <3>5. s \o <<>> = s
      BY <3>4, ConcatEmptySeq
    <3>6. posted'[c] = posted[c]
      BY <1>0, <1>1, <2>0, <3>1
    <3> QED
      BY <2>1, <3>2, <3>3, <3>5, <3>6
  <2>2. CASE c \in Scanned
    <3>1. /\ c \notin Accepted /\ c \in Listed /\ mClients[c] # "absent"
          /\ After(outcome)[c] = IF rx[c] = 0 THEN "DeleteLater" ELSE mClients[c]
          /\ mClients[c] # "DeleteLater"
      BY <2>0, <2>2, AfterIs DEF Scanned, Listed, Inv, Types
    <3>2. CASE rx[c] = 0
      <4>1. c \in Leaving(outcome) /\ PostsOf(c, outcome[c]) = 0
        BY <2>0, <3>1, <3>2 DEF Leaving, PostsOf
      <4>2. c \notin Listed'
        BY <1>1, <2>0, <4>1 DEF Listed
      <4>3. seen'[c] = seen[c] \o <<>> \o <<>> \o <<"ClientClosed">>
        BY <1>1, <2>0, <2>2, <3>1, <4>1
      <4>4. posted'[c] = posted[c]
        BY <1>0, <1>1, <2>0, <4>1
      <4> QED
        BY <2>0, <3>1, <4>2, <4>3, <4>4
    <3>3. CASE rx[c] > 0
      <4>1. c \notin Leaving(outcome)
        BY <2>0, <3>1, <3>3 DEF Leaving
      <4>2. c \in Listed'
        BY <1>1, <2>0, <3>1, <3>3, <4>1 DEF Listed
      <4>3. seen'[c] = seen[c] \o <<>> \o <<>> \o <<>>
        BY <1>1, <2>0, <2>2, <3>1, <4>1
      <4> QED
        BY <2>0, <3>1, <4>2, <4>3
    <3> QED
      BY <1>0, <2>0, <3>2, <3>3
  <2>3. CASE c \notin Accepted /\ c \notin Scanned
    <3>1. c \notin Leaving(outcome)
      BY <2>0, <2>3, AfterIs DEF Leaving
    <3>2. seen'[c] = seen[c] \o <<>> \o <<>> \o <<>>
      BY <1>1, <2>0, <2>3, <3>1
    <3>3. posted'[c] = posted[c]
      BY <1>0, <1>1, <2>0, <2>3
    <3> QED
      BY <2>0, <2>3, <3>2, <3>3
  <2> QED
    BY <2>1, <2>2, <2>3
<1>7. seen' \in [Clients -> Seq(Calls)]
  <2>1. seen' = [c \in Clients |-> seen'[c]]
    BY <1>1
  <2> QED
    BY <1>4, <2>1
<1>8. posted' \in [Clients -> Nat]
  <2>1. posted' = [c \in Clients |-> posted'[c]]
    BY <1>1
  <2> QED
    BY <1>5, <2>1
<1> QED
  BY <1>6, <1>7, <1>8

\* A pass keeps the table, the sets and the numbers together.
LEMMA PassKeeps ==
  ASSUME Inv, Pass
  PROVE  Inv'
<1>0. Types /\ TypeOK /\ Lists /\ Numbers
  BY DEF Inv, Types
<1>1. PICK leaving \in SUBSET Listed :
        /\ Listed' = (Listed \ leaving) \cup Accepted
        /\ leaving \cap Accepted = {}
        /\ mClients' \in [Clients -> {"absent", "Closed", "Connected"}]
        /\ mMasterSet' = (mMasterSet \ {fd[c] : c \in leaving})
                           \cup {fd'[c] : c \in Accepted}
        /\ mMaxSd' = MaxSocket(Listed', fd')
  BY PassEffect
<1>2. /\ fd' \in [Clients -> Nat] /\ Opened' = Opened \cup Accepted
      /\ \A c \in Clients \ Accepted : fd'[c] = fd[c]
      /\ Numbers'
  BY PassNumbers
<1>3. /\ Listed \subseteq Opened /\ Opened \subseteq Clients /\ Accepted \subseteq Clients
      /\ Opened \cap Accepted = {} /\ server = "scan" /\ server' = "scan"
      /\ UNCHANGED <<sent, fin, lsn, app>>
  BY <1>0 DEF Lists, Opened, Accepted, Pass
<1>4. Listed' \subseteq Opened' /\ Listed' \subseteq Clients
  BY <1>1, <1>2, <1>3
<1>5. /\ mMaxSd' \in 0..(2 + Cardinality(Clients))
      /\ \A c \in Listed' : fd'[c] <= mMaxSd'
  <2>1. PICK b, f, cs : b = 2 + Cardinality(Clients) /\ f = fd' /\ cs = Listed'
    OBVIOUS
  <2>2. b \in Nat /\ b >= 2 /\ lsn \subseteq Servers
    BY <1>0, <2>1, OpenedCount DEF TypeOK
  <2>3. \A c \in cs : f[c] \in 0..b
    <3>1. \A c \in cs : f[c] \in 3..(2 + Cardinality(Opened'))
      BY <1>2, <1>4, <2>1 DEF Numbers
    <3>2. Cardinality(Opened') \in Nat /\ 2 + Cardinality(Opened') <= b
      BY <2>1, OpenedCountNext, OpenedCount
    <3> QED
      BY <2>2, <3>1, <3>2
  <2>4. MaxSocket(cs, f) \in 0..b /\ \A c \in cs : f[c] <= MaxSocket(cs, f)
    BY <2>2, <2>3, MaxSocketIs
  <2> QED
    BY <1>1, <2>1, <2>4
<1>6. rx' \in [Clients -> 0..sent']
  <2>1. rx' = [c \in Clients |-> IF c \in Scanned THEN LeftAfterRecv(c) ELSE rx[c]]
    BY DEF Pass, Scanned
  <2>2. sent \in Nat /\ \A c \in Clients : rx[c] \in Nat /\ rx[c] <= sent
    BY <1>0, SelectAssumption DEF Types, TypeOK
  <2>3. ASSUME NEW c \in Clients PROVE LeftAfterRecv(c) \in Nat /\ LeftAfterRecv(c) <= rx[c]
    <3>1. PICK n : n = Min({rx[c], MAXRECV})
      OBVIOUS
    <3>2. n \in Nat /\ n <= rx[c]
      BY <2>2, <3>1, MinOfTwo, SelectAssumption
    <3> QED
      BY <2>2, <3>1, <3>2 DEF LeftAfterRecv
  <2>4. \A c \in Clients : rx'[c] \in Nat /\ rx'[c] <= rx[c]
    BY <2>1, <2>2, <2>3
  <2>5. \A c \in Clients : rx'[c] \in 0..sent
    BY <2>2, <2>4
  <2> QED
    BY <1>3, <2>1, <2>5
<1>7. link' \in [Clients -> {"new", "backlog", "open", "reset"}]
  BY <1>0 DEF Pass, TypeOK
<1>8. Types'
  BY <1>0, <1>1, <1>2, <1>3, <1>5, <1>6, <1>7, PassCalls DEF Types, TypeOK
<1>9. mMasterSet' \ Servers = {fd'[c] : c \in Listed'}
  <2>1. mMasterSet \ Servers = {fd[c] : c \in Listed}
    BY <1>0, <1>3 DEF Lists
  <2>2. \A c \in Listed' : fd'[c] \notin Servers
    BY <1>2, <1>4 DEF Numbers, Servers, Tcp, Ws
  <2>3. {fd[c] : c \in Listed} \ {fd[c] : c \in leaving} = {fd[c] : c \in Listed \ leaving}
    BY <1>0, <1>3 DEF Numbers
  <2>4. \A c \in Listed \ leaving : fd'[c] = fd[c]
    BY <1>2, <1>3
  <2>5. {fd[c] : c \in Listed \ leaving} = {fd'[c] : c \in Listed \ leaving}
    BY <2>4
  <2>6. {fd'[c] : c \in Listed'}
          = {fd'[c] : c \in Listed \ leaving} \cup {fd'[c] : c \in Accepted}
    BY <1>1
  <2>7. {fd'[c] : c \in Listed'} \cap Servers = {}
    BY <2>2
  <2> QED
    BY <1>1, <2>1, <2>3, <2>5, <2>6, <2>7
<1>10. Lists'
  BY <1>3, <1>4, <1>5, <1>9 DEF Lists
<1> QED
  BY <1>2, <1>8, <1>10 DEF Inv

\* The inductive invariant is an invariant.
LEMMA InvAlways == Spec => []Inv
<1>1. Init => Inv
  <2> SUFFICES ASSUME Init PROVE Inv
    OBVIOUS
  <2>1. 0 \in 0..MaxBytes /\ 0 \in 0..(2 + Cardinality(Clients))
    BY SelectAssumption, OpenedCount
  <2>2. Types
    BY <2>1 DEF Init, Types, TypeOK, Servers
  <2>3. Opened = {} /\ Listed = {}
    BY DEF Init, Opened, Listed
  <2>4. Numbers /\ Lists
    BY <2>3 DEF Init, Numbers, Lists
  <2> QED
    BY <2>2, <2>4 DEF Inv
<1>2. Inv /\ [Next]_vars => Inv'
  <2> SUFFICES ASSUME Inv, [Next]_vars PROVE Inv'
    OBVIOUS
  <2>1. CASE UNCHANGED vars
    <3>1. Types' /\ Opened' = Opened
      BY <2>1 DEF Inv, Types, TypeOK, Opened, vars
    <3> QED
      BY <2>1, <3>1, InvQuiet DEF vars
  <2>2. CASE Next
    BY <2>2, PeerKeeps, RunKeeps, LoopKeeps, SetUpKeeps, WatchKeeps, PassKeeps
       DEF Next, ServerStep
  <2> QED
    BY <2>1, <2>2
<1> QED
  BY <1>1, <1>2, PTL DEF Spec

\* For any number of peers select() is given exactly the descriptors of the
\* listed connections besides the listeners, each its own and all in reach.
THEOREM SelectSetsMatch == Spec => []SetsMatchClients
<1>1. Inv => SetsMatchClients
  <2> SUFFICES ASSUME Inv PROVE SetsMatchClients
    OBVIOUS
  <2>1. \A c, d \in Listed : fd[c] = fd[d] => c = d
    BY DEF Inv, Lists, Numbers
  <2> QED
    BY <2>1 DEF Inv, Types, Lists, SetsMatchClients
<1> QED
  BY <1>1, InvAlways, PTL

-----------------------------------------------------------------------------
(* The callbacks of plain TCP connections.                                  *)

\* What was seen of a connection is in order; before it is accepted nothing was
\* seen or posted, and afterwards NewConnection was seen.
OrderOf(c) ==
  /\ c \notin Opened => seen[c] = <<>>
  /\ c \in Listed \/ posted[c] > 0 => seen[c] # <<>>
  /\ \A i \in 1..Len(seen[c]) :
       /\ (seen[c][i] = "NewConnection") <=> (i = 1)
       /\ seen[c][i] = "ClientClosed" =>
            c \notin Listed /\ \A j \in 1..Len(seen[c]) : seen[c][j] = "ClientClosed" => j = i

Order == \A c \in Clients \ WsClients : OrderOf(c)

\* A step that shows nothing of a connection, posts nothing new unless something
\* was seen, and does not list it.
LEMMA OrderQuiet ==
  ASSUME NEW c \in Clients, OrderOf(c), seen'[c] = seen[c],
         posted'[c] = posted[c] \/ c \in Listed,
         c \in Listed' => c \in Listed, c \in Opened => c \in Opened'
  PROVE  OrderOf(c)'
BY DEF OrderOf

\* One more call, in its turn.
LEMMA OrderAppend ==
  ASSUME Inv, NEW c \in Clients, OrderOf(c), NEW x \in Calls,
         seen'[c] = seen[c] \o <<x>>,
         x = "NewConnection" <=> seen[c] = <<>>,
         x = "ClientClosed" => c \in Listed /\ c \notin Listed',
         c \in Listed' => c \in Listed \/ seen[c] = <<>>,
         c \in Opened'
  PROVE  OrderOf(c)'
<1>1. PICK s : s = seen[c]
  OBVIOUS
<1>2. s \in Seq(Calls) /\ Len(s) \in Nat /\ seen'[c] = s \o <<x>> /\ <<x>> \in Seq(Calls)
  BY <1>1 DEF Inv, Types
<1>3. /\ Len(seen'[c]) = Len(s) + 1 /\ seen'[c][Len(s) + 1] = x
      /\ \A i \in 1..Len(s) : seen'[c][i] = s[i]
  <2>1. seen'[c] = Append(s, x)
    BY <1>2, AppendIsConcat
  <2>2. /\ Len(Append(s, x)) = Len(s) + 1 /\ Append(s, x)[Len(s) + 1] = x
        /\ \A i \in 1..Len(s) : Append(s, x)[i] = s[i]
    BY <1>2, AppendProperties
  <2> QED
    BY <2>1, <2>2, Zenon
<1>4. s = <<>> <=> Len(s) = 0
  BY <1>2
<1>5. ASSUME NEW i \in 1..Len(seen'[c])
      PROVE  /\ (seen'[c][i] = "NewConnection") <=> (i = 1)
             /\ seen'[c][i] = "ClientClosed" =>
                  c \notin Listed' /\ \A j \in 1..Len(seen'[c]) :
                                        seen'[c][j] = "ClientClosed" => j = i
  <2>0. \A j \in 1..Len(seen'[c]) : j = Len(s) + 1 \/ j \in 1..Len(s)
    BY <1>2, <1>3
  <2>1. CASE i = Len(s) + 1
    <3>0. i = 1 <=> Len(s) = 0
      BY <2>1, <1>2
    <3>1. seen'[c][i] = x
      BY <2>1, <1>3
    <3>2. ASSUME x = "ClientClosed", NEW j \in 1..Len(s) PROVE s[j] # "ClientClosed"
      BY <1>1, <3>2 DEF OrderOf
    <3> QED
      BY <2>0, <2>1, <3>0, <3>1, <3>2, <1>1, <1>3, <1>4
  <2>2. CASE i \in 1..Len(s)
    <3>1. seen'[c][i] = s[i] /\ Len(s) # 0
      BY <2>2, <1>2, <1>3
    <3>2. /\ (s[i] = "NewConnection") <=> (i = 1)
          /\ s[i] = "ClientClosed" =>
               c \notin Listed /\ \A j \in 1..Len(s) : s[j] = "ClientClosed" => j = i
      BY <2>2, <1>1 DEF OrderOf
    <3>3. s # <<>>
      BY <3>1, <1>4
    <3> QED
      BY <2>0, <3>1, <3>2, <3>3, <1>1, <1>3
  <2> QED
    BY <2>0, <2>1, <2>2
<1>6. seen'[c] # <<>>
  BY <1>2, <1>3
<1> QED
  BY <1>5, <1>6 DEF OrderOf

\* Every step keeps what is seen of a plain connection in order.
LEMMA OrderStep == Inv /\ Order /\ [Next]_vars => Order'
<1> SUFFICES ASSUME Inv, Order, [Next]_vars, NEW d \in Clients \ WsClients
             PROVE  OrderOf(d)'
  BY DEF Order
<1>0. OrderOf(d) /\ d \in Clients /\ Types /\ TypeOK /\ Lists
  BY DEF Order, Inv, Types
<1>1. ASSUME UNCHANGED <<seen, posted, mClients>>,
             link'[d] = link[d] \/ link[d] = "new" \/ link'[d] = "reset"
      PROVE  OrderOf(d)'
  BY <1>0, <1>1, OrderQuiet DEF Listed, Opened
<1>2. CASE UNCHANGED <<seen, posted, mClients, link>>
  BY <1>1, <1>2
<1>3. ASSUME NEW c \in Clients, PeerStep(c) PROVE OrderOf(d)'
  <2>1. UNCHANGED <<seen, posted, mClients>>
    BY <1>3 DEF PeerStep
  <2>2. link'[d] = link[d] \/ link[d] = "new" \/ link'[d] = "reset"
    BY <1>0, <1>3 DEF PeerStep, PeerConnect, PeerSend, PeerShutdown, PeerReset, TypeOK
  <2> QED
    BY <1>1, <2>1, <2>2
<1>4. CASE Cleanup
  <2>1. UNCHANGED <<seen, posted, mClients>> /\ (link'[d] = link[d] \/ link'[d] = "reset")
    BY <1>0, <1>4 DEF Cleanup
  <2> QED
    BY <1>1, <2>1
<1>5. CASE Pass
  <2>1. /\ Opened' = Opened \cup Accepted /\ Opened \cap Accepted = {}
        /\ Listed \subseteq Opened
    BY <1>0, <1>5, PassNumbers DEF Lists, Opened, Accepted
  <2>2. CASE d \in Accepted /\ seen'[d] = seen[d] \o <<"NewConnection">>
    <3>1. seen[d] = <<>> /\ d \in Opened'
      BY <1>0, <2>1, <2>2 DEF OrderOf
    <3> QED
      BY <1>0, <2>2, <3>1, OrderAppend DEF Calls
  <2>3. CASE d \in Listed \cap Listed' /\ seen'[d] = seen[d]
    BY <1>0, <2>1, <2>3, OrderQuiet
  <2>4. CASE d \in Listed \ Listed' /\ seen'[d] = seen[d] \o <<"ClientClosed">>
    <3>1. seen[d] # <<>> /\ d \in Opened'
      BY <1>0, <2>1, <2>4 DEF OrderOf
    <3> QED
      BY <1>0, <2>4, <3>1, OrderAppend DEF Calls
  <2>5. CASE d \notin Accepted /\ seen'[d] = seen[d] /\ posted'[d] = posted[d]
    <3>1. d \in Listed' => d \in Listed
      BY <1>5, <2>5, PassEffect
    <3> QED
      BY <1>0, <2>1, <2>5, <3>1, OrderQuiet
  <2> QED
    BY <1>5, <2>2, <2>3, <2>4, <2>5, PassCalls
<1>6. ASSUME NEW c \in Clients, RunReadData(c) PROVE OrderOf(d)'
  <2>1. /\ UNCHANGED <<mClients, link>> /\ posted[c] > 0
        /\ posted' = [posted EXCEPT ![c] = @ - 1]
        /\ seen' = [seen EXCEPT ![c] = Append(@, "ReadData")]
    BY <1>6 DEF RunReadData, peerVars
  <2>2. Listed' = Listed /\ Opened' = Opened
    BY <2>1 DEF Listed, Opened
  <2>3. CASE c = d
    <3>1. seen[d] # <<>> /\ d \in Opened'
      BY <1>0, <2>1, <2>2, <2>3 DEF OrderOf
    <3>2. seen'[d] = Append(seen[d], "ReadData") /\ seen[d] \in Seq(Calls) /\ "ReadData" \in Calls
      BY <1>0, <2>1, <2>3 DEF Types, Calls
    <3>3. seen'[d] = seen[d] \o <<"ReadData">>
      BY <3>2, AppendIsConcat
    <3> QED
      BY <1>0, <2>2, <3>1, <3>2, <3>3, OrderAppend
  <2>4. CASE c # d
    <3>1. seen'[d] = seen[d] /\ posted'[d] = posted[d]
      BY <1>0, <2>1, <2>4 DEF Types
    <3> QED
      BY <1>0, <2>2, <3>1, OrderQuiet
  <2> QED
    BY <2>3, <2>4
<1> QED
  BY <1>2, <1>3, <1>4, <1>5, <1>6
     DEF Next, vars, ServerStep, SetUp, SetTcp, SetWs, Watch, SelectFails, SelectBlocks,
         SelectReturns, EndPasses, AppStep, peerVars, setVars

\* After ClientClosed no step posts a ReadData.
LEMMA NonePosted == Inv /\ Order /\ [Next]_vars => NoneAfterClose
<1> SUFFICES ASSUME Inv, Order, [Next]_vars, NEW d \in Clients \ WsClients, Reported(d)
             PROVE  posted'[d] <= posted[d]
  BY DEF NoneAfterClose
<1>0. d \in Clients /\ posted \in [Clients -> Nat]
  BY DEF Inv, Types
<1>1. CASE UNCHANGED posted
  BY <1>0, <1>1
<1>2. CASE Pass
  <2>1. d \notin Listed
    BY DEF Order, OrderOf, Reported
  <2>2. posted'[d] = posted[d]
    BY <1>2, <2>1, PassCalls
  <2> QED
    BY <1>0, <2>2
<1>3. ASSUME NEW c \in Clients, RunReadData(c) PROVE posted'[d] <= posted[d]
  <2>1. posted' = [posted EXCEPT ![c] = @ - 1]
    BY <1>3 DEF RunReadData
  <2> QED
    BY <1>0, <2>1
<1> QED
  BY <1>1, <1>2, <1>3
     DEF Next, vars, ServerStep, SetUp, SetTcp, SetWs, Watch, SelectFails, SelectBlocks,
         SelectReturns, EndPasses, Cleanup, AppStep, PeerStep, setVars

\* For any number of peers the application sees NewConnection of a plain
\* connection first and ClientClosed once, and nothing is posted after it.
THEOREM SelectCallbacksOrdered == Spec => SelectCallbackOrder
<1>1. Init => Order
  BY DEF Init, Order, OrderOf, Listed
<1>2. Order' => SeenInOrder'
  BY DEF Order, OrderOf, SeenInOrder
<1> QED
  BY <1>1, <1>2, OrderStep, NonePosted, InvAlways, PTL DEF Spec, SelectCallbackOrder
===============================================================================
