------------------------ MODULE HttpFileServerProofs ------------------------
(***************************************************************************)
(* StrayIsOfClosed and RequestsApart for any number of connections,        *)
(* descriptors and workers, and for peers that cut their bytes anywhere.   *)
(* Handlers overlap and finish in any order.  What is left is that nothing *)
(* goes under a descriptor's number but what comes from the connection     *)
(* that has it, or from one that is closed by now (Good): that holds for   *)
(* the tasks, for the entries of mPartials with all of their bytes, and    *)
(* for what a handler makes of them.  Two connections that are good for    *)
(* the same descriptor are not both open.                                  *)
(***************************************************************************)
EXTENDS HttpFileServer, SequenceTheorems, TLAPS

Owners ==
  /\ \A f, g \in Fds : owner[f] = owner[g] /\ owner[f] # None => f = g
  /\ \A c \in Conns : link[c] = "open" <=> \E f \in Fds : owner[f] = c

Good(f, c) == owner[f] = c \/ link[c] = "closed"
GoodUnits(f, s) == \A i \in 1..Len(s) : Good(f, s[i][1])
GoodTask(t) == Good(t.fd, t.conn) /\ GoodUnits(t.fd, t.data)
GoodEntry(e) == Good(e.fd, e.conn) /\ GoodUnits(e.fd, e.data)
GoodRequest(f, r) == /\ GoodUnits(f, r.body)
                     /\ r.hdr # None => Good(f, r.hdr)
                     /\ r.process => r.hdr # None
GoodJob(j) == j.stage # "idle" => GoodTask(j.task) /\ GoodRequest(j.task.fd, j.out)

Waiting == \A i \in 1..Len(tasks) : GoodTask(tasks[i])
Jobs == \A w \in Workers : GoodJob(work[w])
Partials == \A i \in 1..Len(mPartials) : GoodEntry(mPartials[i])

\* The second half of RequestsApart, of one request.
Apart(h) == \A c, d \in Contributors(h) : c # d => link[c] = "closed" \/ link[d] = "closed"

SInv == /\ TypeOK /\ Owners /\ Waiting /\ Jobs /\ Partials
        /\ (\A h \in handled : Apart(h)) /\ StrayIsOfClosed

JobOrIdle == {Idle} \cup JobType

-----------------------------------------------------------------------------

\* The descriptor of an open connection.
LEMMA FdOfOpen ==
  ASSUME Owners, NEW c \in Conns, link[c] = "open"
  PROVE  Fd(c) \in Fds /\ owner[Fd(c)] = c /\ \A f \in Fds : owner[f] = c => f = Fd(c)
<1>1. \E f \in Fds : owner[f] = c
  BY DEF Owners
<1>2. Fd(c) \in Fds /\ owner[Fd(c)] = c
  BY <1>1 DEF Fd
<1>3. \A f \in Fds : owner[f] = c => f = Fd(c)
  BY <1>2, HttpFileServerAssumption DEF Owners
<1> QED
  BY <1>2, <1>3

\* Two connections that are good for a descriptor are not both open.
LEMMA GoodAreApart ==
  ASSUME TypeOK, NEW f \in Fds, NEW c \in Conns, NEW d \in Conns, c # d,
         Good(f, c), Good(f, d)
  PROVE  link[c] = "closed" \/ link[d] = "closed"
BY DEF Good

\* What is good stays good when descriptors that are given up belong to
\* connections that are closed then, and those given out were free.
Stays == \A f \in Fds, c \in Conns : Good(f, c) => Good(f, c)'

LEMMA UnitsStay ==
  ASSUME Stays, NEW f \in Fds, NEW s \in Seq(Unit), GoodUnits(f, s)
  PROVE  GoodUnits(f, s)'
<1>1. \A i \in 1..Len(s) : s[i][1] \in Conns
  BY DEF Unit
<1> QED
  BY <1>1 DEF GoodUnits, Stays

LEMMA TaskStays ==
  ASSUME Stays, NEW t \in TaskType, GoodTask(t)
  PROVE  GoodTask(t)'
<1>1. t.fd \in Fds /\ t.conn \in Conns /\ t.data \in Seq(Unit)
  BY DEF TaskType
<1>2. GoodUnits(t.fd, t.data)'
  BY <1>1, UnitsStay DEF GoodTask
<1> QED
  BY <1>1, <1>2 DEF GoodTask, Stays

LEMMA EntryStays ==
  ASSUME Stays, NEW e \in EntryType, GoodEntry(e)
  PROVE  GoodEntry(e)'
<1>1. e.fd \in Fds /\ e.conn \in Conns /\ e.data \in Seq(Unit)
  BY DEF EntryType
<1>2. GoodUnits(e.fd, e.data)'
  BY <1>1, UnitsStay DEF GoodEntry
<1> QED
  BY <1>1, <1>2 DEF GoodEntry, Stays

LEMMA JobStays ==
  ASSUME Stays, NEW j \in JobOrIdle, GoodJob(j)
  PROVE  GoodJob(j)'
<1>1. CASE j.stage = "idle"
  BY <1>1 DEF GoodJob
<1>2. CASE j.stage # "idle"
  <2>1. j \in JobType
    BY <1>2 DEF JobOrIdle, Idle
  <2>2. PICK t \in TaskType, r \in RequestType : t = j.task /\ r = j.out
    BY <2>1 DEF JobType
  <2>3. t.fd \in Fds /\ r.body \in Seq(Unit) /\ (r.hdr # None => r.hdr \in Conns)
    BY DEF TaskType, RequestType
  <2>4. GoodTask(t) /\ GoodRequest(t.fd, r)
    BY <1>2, <2>2 DEF GoodJob
  <2>5. GoodTask(t)'
    BY <2>4, TaskStays
  <2>6. GoodUnits(t.fd, r.body)'
    BY <2>3, <2>4, UnitsStay DEF GoodRequest
  <2>7. GoodRequest(t.fd, r)'
    BY <2>3, <2>4, <2>6 DEF GoodRequest, Stays
  <2> QED
    BY <2>2, <2>5, <2>7 DEF GoodJob
<1> QED
  BY <1>1, <1>2

\* A connection that is closed stays closed, one that is not new is not new again.
Ages == \A c \in Conns : /\ link[c] = "closed" => link'[c] = "closed"
                         /\ link[c] # "new" => link'[c] # "new"

LEMMA GhostsStay ==
  ASSUME TypeOK, Ages, \A h \in handled : Apart(h), StrayIsOfClosed,
         UNCHANGED <<handled, stray>>
  PROVE  (\A h \in handled : Apart(h))' /\ StrayIsOfClosed'
<1>1. ASSUME NEW h \in handled PROVE Apart(h)'
  <2>1. h \in [hdr : Conns, first : Nat, from : Conns, body : Seq(Unit)]
    BY DEF TypeOK
  <2>2. \A i \in 1..Len(h.body) : h.body[i][1] \in Conns
    BY <2>1 DEF Unit
  <2>3. \A c \in Contributors(h) : c \in Conns
    BY <2>1, <2>2 DEF Contributors
  <2> QED
    BY <2>3 DEF Apart, Ages
<1>2. ASSUME NEW p \in stray PROVE link'[p[1]] = "closed" /\ link'[p[2]] # "new"
  <2>1. p[1] \in Conns /\ p[2] \in Conns
    BY DEF TypeOK
  <2> QED
    BY <2>1 DEF StrayIsOfClosed, Ages
<1> QED
  BY <1>1, <1>2 DEF StrayIsOfClosed

\* The server's steps: a good task is handed in or none, and the rest stays.
LEMMA ServerMoves ==
  ASSUME SInv, Stays, Ages, UNCHANGED <<work, mPartials, undefined, handled, stray>>,
         tasks' = tasks \/ \E t \in TaskType : GoodTask(t)' /\ tasks' = Append(tasks, t)
  PROVE  /\ tasks' \in Seq(TaskType) /\ Waiting' /\ Jobs' /\ Partials'
         /\ (\A h \in handled : Apart(h))' /\ StrayIsOfClosed'
<1>1. /\ tasks \in Seq(TaskType) /\ mPartials \in Seq(EntryType)
      /\ work \in [Workers -> JobOrIdle]
  BY DEF SInv, TypeOK, JobOrIdle
<1>2. tasks' \in Seq(TaskType) /\ Waiting'
  <2>1. ASSUME NEW i \in 1..Len(tasks) PROVE tasks[i] \in TaskType /\ GoodTask(tasks[i])
    BY <1>1 DEF SInv, Waiting
  <2>2. \A i \in 1..Len(tasks) : \E u \in TaskType : u = tasks[i] /\ GoodTask(u)'
    <3>1. SUFFICES ASSUME NEW i \in 1..Len(tasks)
                   PROVE  \E u \in TaskType : u = tasks[i] /\ GoodTask(u)'
      OBVIOUS
    <3>2. PICK u \in TaskType : u = tasks[i] /\ GoodTask(u)
      BY <2>1
    <3> QED
      BY <3>2, TaskStays
  <2>3. CASE tasks' = tasks
    BY <1>1, <2>2, <2>3 DEF Waiting
  <2>4. CASE \E t \in TaskType : GoodTask(t)' /\ tasks' = Append(tasks, t)
    <3>1. PICK t \in TaskType : GoodTask(t)' /\ tasks' = Append(tasks, t)
      BY <2>4
    <3>2. /\ tasks' \in Seq(TaskType) /\ Len(tasks') = Len(tasks) + 1
          /\ tasks'[Len(tasks) + 1] = t
          /\ \A i \in 1..Len(tasks) : tasks'[i] = tasks[i]
      BY <1>1, <3>1
    <3>3. ASSUME NEW i \in 1..Len(tasks') PROVE GoodTask(tasks[i])'
      <4>1. CASE i = Len(tasks) + 1
        BY <3>1, <3>2, <4>1
      <4>2. CASE i # Len(tasks) + 1
        <5>1. i \in 1..Len(tasks)
          BY <1>1, <3>2, <4>2
        <5> QED
          BY <2>2, <3>2, <5>1
      <4> QED
        BY <4>1, <4>2
    <3> QED
      BY <3>2, <3>3 DEF Waiting
  <2> QED
    BY <2>3, <2>4
<1>3. Jobs'
  <2>1. SUFFICES ASSUME NEW w \in Workers PROVE GoodJob(work[w])'
    BY DEF Jobs
  <2>2. PICK j \in JobOrIdle : j = work[w] /\ GoodJob(j)
    BY <1>1 DEF SInv, Jobs
  <2> QED
    BY <2>2, JobStays
<1>4. Partials'
  <2>1. SUFFICES ASSUME NEW i \in 1..Len(mPartials) PROVE GoodEntry(mPartials[i])'
    BY DEF Partials
  <2>2. PICK e \in EntryType : e = mPartials[i] /\ GoodEntry(e)
    BY <1>1 DEF SInv, Partials
  <2> QED
    BY <2>2, EntryStays
<1>5. (\A h \in handled : Apart(h))' /\ StrayIsOfClosed'
  BY GhostsStay DEF SInv
<1> QED
  BY <1>2, <1>3, <1>4, <1>5

\* The task the server makes of a connection and a piece of it.
LEMMA TaskMade ==
  ASSUME TypeOK, NEW op \in {"ReadData", "ClientClosed"}, NEW c \in Conns,
         NEW p \in [head : BOOLEAN, size : 0..MaxSize, foreign : BOOLEAN, len : 0..MaxUnits],
         Fd(c) \in Fds
  PROVE  /\ Task(op, c, p) \in TaskType
         /\ Task(op, c, p).conn = c /\ Task(op, c, p).fd = Fd(c)
         /\ \A i \in 1..Len(Task(op, c, p).data) : Task(op, c, p).data[i][1] = c
<1>1. PICK n, k, f, d : /\ n = p.len /\ k = sent[c] /\ f = Fd(c)
                        /\ d = [i \in 1..n |-> <<c, k + i>>]
  OBVIOUS
<1>2. MaxUnits \in Nat /\ MaxSize \in Nat
  BY HttpFileServerAssumption
<1>3. n \in 0..MaxUnits /\ p.size \in 0..MaxSize /\ p.head \in BOOLEAN /\ p.foreign \in BOOLEAN
  BY <1>1
<1>4. k \in Nat /\ n \in Nat /\ p.size \in Nat /\ k + 1 \in Nat
  BY <1>1, <1>2, <1>3 DEF TypeOK
<1>5. d \in [1..n -> Unit]
  BY <1>1, <1>4 DEF Unit
<1>6. d \in Seq(Unit) /\ Len(d) = n
  BY <1>4, <1>5
<1>7. Task(op, c, p) =
        [op |-> op, conn |-> c, fd |-> f, head |-> p.head, size |-> p.size,
         foreign |-> p.foreign, first |-> k + 1, data |-> d]
  BY <1>1 DEF Task
<1>8. f \in Fds
  BY <1>1
<1>9. Task(op, c, p) \in TaskType
  BY <1>3, <1>4, <1>6, <1>7, <1>8 DEF TaskType
<1>10. \A i \in 1..Len(d) : d[i][1] = c
  BY <1>1, <1>6
<1> QED
  BY <1>1, <1>7, <1>9, <1>10

-----------------------------------------------------------------------------
(* The invariant holds at first, and every step keeps it.                   *)

LEMMA SInitially == ASSUME Init PROVE SInv
<1>1. TypeOK
  <2>1. owner \in [Fds -> Conns \cup {None}] /\ link \in [Conns -> {"new", "open", "closed"}]
    BY DEF Init
  <2>2. pieces \in Nat /\ sent \in [Conns -> Nat] /\ undefined \in BOOLEAN
    BY DEF Init
  <2>3. tasks \in Seq(TaskType) /\ mPartials \in Seq(EntryType)
    BY DEF Init
  <2>4. work \in [Workers -> {Idle} \cup JobType]
    BY Zenon DEF Init
  <2>5. /\ handled \subseteq [hdr : Conns, first : Nat, from : Conns, body : Seq(Unit)]
        /\ stray \subseteq Conns \X Conns
    BY Zenon DEF Init
  <2> QED
    BY <2>1, <2>2, <2>3, <2>4, <2>5, Zenon DEF TypeOK
<1>2. Owners
  BY HttpFileServerAssumption DEF Init, Owners
<1>3. Waiting /\ Jobs /\ Partials
  BY DEF Init, Waiting, Jobs, Partials, GoodJob, Idle
<1>4. (\A h \in handled : Apart(h)) /\ StrayIsOfClosed
  BY DEF Init, StrayIsOfClosed
<1> QED
  BY <1>1, <1>2, <1>3, <1>4 DEF SInv

LEMMA SAccept == ASSUME SInv, NEW c \in Conns, Accept(c) PROVE SInv'
<1>0. TypeOK /\ Owners
  BY DEF SInv
<1>1. PICK f \in Fds : /\ owner[f] = None /\ owner' = [owner EXCEPT ![f] = c]
                       /\ link[c] = "new" /\ link' = [link EXCEPT ![c] = "open"]
  BY DEF Accept
<1>2. UNCHANGED <<pieces, sent, tasks, work, mPartials, undefined, handled, stray>>
  BY DEF Accept
<1>3. /\ link'[c] = "open" /\ \A d \in Conns : d # c => link'[d] = link[d]
      /\ owner'[f] = c /\ \A g \in Fds : g # f => owner'[g] = owner[g]
      /\ None \notin Conns /\ \A g \in Fds : owner[g] # c
  <2>1. \A g \in Fds : owner[g] # c
    BY <1>0, <1>1 DEF Owners
  <2> QED
    BY <1>0, <1>1, <2>1, HttpFileServerAssumption DEF TypeOK
<1>4. Stays /\ Ages
  BY <1>1, <1>3 DEF Good, Stays, Ages
<1>5. /\ Waiting' /\ Jobs' /\ Partials'
      /\ (\A h \in handled : Apart(h))' /\ StrayIsOfClosed'
  BY <1>2, <1>4, ServerMoves
<1>6. TypeOK'
  <2>1. owner' \in [Fds -> Conns \cup {None}] /\ link' \in [Conns -> {"new", "open", "closed"}]
    BY <1>0, <1>1 DEF TypeOK
  <2> QED
    BY <1>0, <1>2, <2>1, Zenon DEF TypeOK
<1>7. Owners'
  <2>1. \A g, k \in Fds : owner'[g] = owner'[k] /\ owner'[g] # None => g = k
    BY <1>0, <1>3 DEF Owners
  <2>2. \A d \in Conns : link'[d] = "open" <=> \E g \in Fds : owner'[g] = d
    BY <1>0, <1>1, <1>3 DEF Owners
  <2> QED
    BY <2>1, <2>2 DEF Owners
<1> QED
  BY <1>5, <1>6, <1>7, Zenon DEF SInv

LEMMA SIncommingData == ASSUME SInv, NEW c \in Conns, IncommingData(c) PROVE SInv'
<1>0. TypeOK /\ Owners
  BY DEF SInv
<1>1. /\ link[c] = "open" /\ pieces' = pieces + 1
      /\ UNCHANGED <<owner, link, work, mPartials, undefined, handled, stray>>
  BY DEF IncommingData
<1>2. PICK p \in Piece(c) : /\ tasks' = Append(tasks, Task("ReadData", c, p))
                            /\ sent' = [sent EXCEPT ![c] = @ + p.len]
  BY DEF IncommingData
<1>3. p \in [head : BOOLEAN, size : 0..MaxSize, foreign : BOOLEAN, len : 0..MaxUnits]
  BY DEF Piece
<1>4. Fd(c) \in Fds /\ owner[Fd(c)] = c
  BY <1>0, <1>1, FdOfOpen
<1>5. PICK t \in TaskType : /\ t = Task("ReadData", c, p) /\ t.conn = c /\ t.fd = Fd(c)
                            /\ \A i \in 1..Len(t.data) : t.data[i][1] = c
  BY <1>0, <1>3, <1>4, TaskMade
<1>6. Stays /\ Ages /\ GoodTask(t)'
  BY <1>1, <1>4, <1>5 DEF Good, Stays, Ages, GoodTask, GoodUnits
<1>7. \E u \in TaskType : GoodTask(u)' /\ tasks' = Append(tasks, u)
  BY <1>2, <1>5, <1>6
<1>8. /\ tasks' \in Seq(TaskType) /\ Waiting' /\ Jobs' /\ Partials'
      /\ (\A h \in handled : Apart(h))' /\ StrayIsOfClosed'
  BY <1>1, <1>6, <1>7, ServerMoves
<1>9. pieces' \in Nat /\ sent' \in [Conns -> Nat]
  <2>1. p.len \in Nat
    BY <1>3, HttpFileServerAssumption
  <2> QED
    BY <1>0, <1>1, <1>2, <2>1 DEF TypeOK
<1>10. TypeOK' /\ Owners'
  BY <1>0, <1>1, <1>8, <1>9, Zenon DEF TypeOK, Owners
<1> QED
  BY <1>8, <1>10, Zenon DEF SInv

LEMMA SUpdateClients == ASSUME SInv, NEW c \in Conns, UpdateClients(c) PROVE SInv'
<1>0. TypeOK /\ Owners
  BY DEF SInv
<1>1. /\ link[c] = "open"
      /\ UNCHANGED <<pieces, sent, work, mPartials, undefined, handled, stray>>
  BY DEF UpdateClients
<1>2. PICK f \in Fds : f = Fd(c) /\ owner[f] = c /\ \A g \in Fds : owner[g] = c => g = f
  BY <1>0, <1>1, FdOfOpen
<1>3. NoPiece \in [head : BOOLEAN, size : 0..MaxSize, foreign : BOOLEAN, len : 0..MaxUnits]
  BY HttpFileServerAssumption DEF NoPiece
<1>4. PICK t \in TaskType : /\ t = Task("ClientClosed", c, NoPiece) /\ t.conn = c /\ t.fd = f
                            /\ \A i \in 1..Len(t.data) : t.data[i][1] = c
  BY <1>0, <1>2, <1>3, TaskMade
<1>5. /\ tasks' = Append(tasks, t) /\ link' = [link EXCEPT ![c] = "closed"]
      /\ owner' = [owner EXCEPT ![f] = None]
  BY <1>2, <1>4 DEF UpdateClients
<1>6. /\ link'[c] = "closed" /\ \A d \in Conns : d # c => link'[d] = link[d]
      /\ owner'[f] = None /\ \A g \in Fds : g # f => owner'[g] = owner[g]
      /\ None \notin Conns
  BY <1>0, <1>5, HttpFileServerAssumption DEF TypeOK
<1>7. Stays /\ Ages /\ GoodTask(t)'
  BY <1>1, <1>2, <1>4, <1>6 DEF Good, Stays, Ages, GoodTask, GoodUnits
<1>8. \E u \in TaskType : GoodTask(u)' /\ tasks' = Append(tasks, u)
  BY <1>5, <1>7
<1>9. /\ tasks' \in Seq(TaskType) /\ Waiting' /\ Jobs' /\ Partials'
      /\ (\A h \in handled : Apart(h))' /\ StrayIsOfClosed'
  BY <1>1, <1>7, <1>8, ServerMoves
<1>10. TypeOK'
  <2>1. owner' \in [Fds -> Conns \cup {None}] /\ link' \in [Conns -> {"new", "open", "closed"}]
    BY <1>0, <1>5 DEF TypeOK
  <2> QED
    BY <1>0, <1>1, <1>9, <2>1, Zenon DEF TypeOK
<1>11. Owners'
  <2>1. \A g, k \in Fds : owner'[g] = owner'[k] /\ owner'[g] # None => g = k
    BY <1>0, <1>6 DEF Owners
  <2>2. ASSUME NEW d \in Conns PROVE link'[d] = "open" <=> \E g \in Fds : owner'[g] = d
    <3>1. CASE d = c
      BY <1>2, <1>6, <3>1
    <3>2. CASE d # c
      BY <1>0, <1>2, <1>6, <3>2 DEF Owners
    <3> QED
      BY <3>1, <3>2
  <2> QED
    BY <2>1, <2>2 DEF Owners
<1> QED
  BY <1>9, <1>10, <1>11, Zenon DEF SInv

\* The workers' steps leave descriptors and connections alone.
Kept == /\ tasks' \in Seq(TaskType) /\ Waiting'
        /\ mPartials' \in Seq(EntryType) /\ Partials'
        /\ handled' \subseteq [hdr : Conns, first : Nat, from : Conns, body : Seq(Unit)]
        /\ (\A h \in handled : Apart(h))'
        /\ stray' \subseteq Conns \X Conns /\ StrayIsOfClosed'

LEMMA WorkerMoves ==
  ASSUME SInv, NEW w \in Workers, NEW j \in JobOrIdle, GoodJob(j), Kept,
         work' = [work EXCEPT ![w] = j], undefined' \in BOOLEAN,
         UNCHANGED <<owner, link, pieces, sent>>
  PROVE  SInv'
<1>0. TypeOK /\ Owners /\ Jobs
  BY DEF SInv
<1>1. work \in [Workers -> JobOrIdle]
  BY <1>0 DEF TypeOK, JobOrIdle
<1>2. work' \in [Workers -> JobOrIdle]
  BY <1>1
<1>3. work' \in [Workers -> {Idle} \cup JobType]
  BY <1>2 DEF JobOrIdle
<1>4. Jobs'
  <2>1. SUFFICES ASSUME NEW v \in Workers PROVE GoodJob(work[v])'
    BY DEF Jobs
  <2>2. PICK k : k = work'[v] /\ GoodJob(k)
    BY <1>0, <1>1 DEF Jobs
  <2>3. GoodJob(k)'
    BY <2>2 DEF GoodJob, GoodTask, GoodRequest, GoodUnits, Good
  <2> QED
    BY <2>2, <2>3
<1>5. TypeOK'
  BY <1>0, <1>3, Zenon DEF TypeOK, Kept
<1>6. Owners'
  BY <1>0 DEF Owners
<1> QED
  BY <1>4, <1>5, <1>6, Zenon DEF SInv, Kept

\* What a step leaves alone is kept.
LEMMA SameIsKept ==
  ASSUME SInv, UNCHANGED <<owner, link>>
  PROVE  /\ UNCHANGED tasks => tasks' \in Seq(TaskType) /\ Waiting'
         /\ UNCHANGED mPartials => mPartials' \in Seq(EntryType) /\ Partials'
         /\ UNCHANGED <<handled, stray>> =>
              /\ handled' \subseteq [hdr : Conns, first : Nat, from : Conns, body : Seq(Unit)]
              /\ (\A h \in handled : Apart(h))'
              /\ stray' \subseteq Conns \X Conns /\ StrayIsOfClosed'
<1>0. TypeOK /\ Waiting /\ Partials /\ (\A h \in handled : Apart(h)) /\ StrayIsOfClosed
  BY DEF SInv
<1>1. UNCHANGED tasks => tasks' \in Seq(TaskType) /\ Waiting'
  BY <1>0 DEF TypeOK, Waiting, GoodTask, GoodUnits, Good
<1>2. UNCHANGED mPartials => mPartials' \in Seq(EntryType) /\ Partials'
  BY <1>0 DEF TypeOK, Partials, GoodEntry, GoodUnits, Good
<1>3. UNCHANGED <<handled, stray>> =>
        /\ handled' \subseteq [hdr : Conns, first : Nat, from : Conns, body : Seq(Unit)]
        /\ stray' \subseteq Conns \X Conns
  BY <1>0 DEF TypeOK
<1>4. UNCHANGED <<handled, stray>> => (\A h \in handled : Apart(h))' /\ StrayIsOfClosed'
  BY <1>0 DEF Apart, StrayIsOfClosed
<1> QED
  BY <1>1, <1>2, <1>3, <1>4

\* The job of a worker that is not idle.
LEMMA JobOf ==
  ASSUME SInv, NEW w \in Workers, work[w].stage # "idle"
  PROVE  /\ work[w] \in JobType /\ work[w].task \in TaskType /\ work[w].out \in RequestType
         /\ GoodTask(work[w].task) /\ GoodRequest(work[w].task.fd, work[w].out)
<1>1. work[w] \in {Idle} \cup JobType
  BY DEF SInv, TypeOK
<1>2. work[w] \in JobType
  BY <1>1 DEF Idle
<1>3. GoodJob(work[w])
  BY DEF SInv, Jobs
<1> QED
  BY <1>2, <1>3 DEF JobType, GoodJob

LEMMA STake == ASSUME SInv, NEW w \in Workers, Take(w) PROVE SInv'
<1>0. TypeOK /\ Waiting
  BY DEF SInv
<1>1. /\ tasks # <<>> /\ tasks' = Tail(tasks)
      /\ UNCHANGED <<owner, link, pieces, sent, mPartials, undefined, handled, stray>>
  BY DEF Take
<1>2. /\ tasks \in Seq(TaskType) /\ tasks' \in Seq(TaskType) /\ Len(tasks) \in Nat \ {0}
      /\ Head(tasks) = tasks[1] /\ tasks[1] \in TaskType /\ Len(tasks') = Len(tasks) - 1
      /\ \A i \in 1..Len(tasks') : tasks'[i] = tasks[i + 1] /\ i + 1 \in 1..Len(tasks)
  BY <1>0, <1>1 DEF TypeOK
<1>3. PICK t \in TaskType : t = Head(tasks) /\ GoodTask(t)
  <2>1. 1 \in 1..Len(tasks)
    BY <1>2
  <2> QED
    BY <1>0, <1>2, <2>1 DEF Waiting
<1>4. PICK j : /\ j = [stage |-> "call", task |-> t, out |-> NoRequest, it |-> 1, end |-> 0]
               /\ work' = [work EXCEPT ![w] = j]
  BY <1>3 DEF Take
<1>5. NoRequest \in RequestType /\ GoodRequest(t.fd, NoRequest)
  BY DEF NoRequest, RequestType, GoodRequest, GoodUnits
<1>6. j \in JobOrIdle /\ GoodJob(j)
  BY <1>3, <1>4, <1>5 DEF JobOrIdle, JobType, GoodJob
<1>7. Waiting'
  BY <1>0, <1>1, <1>2 DEF Waiting, GoodTask, GoodUnits, Good
<1>8. Kept
  BY <1>1, <1>2, <1>7, SameIsKept, Zenon DEF Kept
<1>9. undefined' \in BOOLEAN
  BY <1>0, <1>1, Zenon DEF TypeOK
<1> QED
  BY <1>1, <1>4, <1>6, <1>8, <1>9, WorkerMoves

\* The request of a piece is good for the task's descriptor.
LEMMA ParsedIsGood ==
  ASSUME NEW t \in TaskType, GoodTask(t), NEW b \in BOOLEAN
  PROVE  Parsed(t, b) \in RequestType /\ GoodRequest(t.fd, Parsed(t, b))
BY HttpFileServerAssumption DEF Parsed, TaskType, RequestType, GoodRequest, GoodTask

LEMMA JobAnswers ==
  ASSUME NEW k \in JobType, NEW o \in RequestType, GoodTask(k.task), GoodRequest(k.task.fd, o)
  PROVE  LET j == [k EXCEPT !.stage = "answer", !.out = o] IN j \in JobOrIdle /\ GoodJob(j)
BY DEF JobType, JobOrIdle, GoodJob

LEMMA SReadWhole == ASSUME SInv, NEW w \in Workers, ReadWhole(w) PROVE SInv'
<1>0. work[w].stage # "idle" /\ TypeOK
  BY DEF ReadWhole, At, SInv
<1>1. PICK k \in JobType, t \in TaskType : k = work[w] /\ t = k.task /\ GoodTask(t)
  BY <1>0, JobOf
<1>2. PICK o \in RequestType : o = Parsed(t, TRUE) /\ GoodRequest(t.fd, o)
  BY <1>1, ParsedIsGood
<1>3. PICK j : j = [k EXCEPT !.stage = "answer", !.out = o] /\ j \in JobOrIdle /\ GoodJob(j)
  BY <1>1, <1>2, JobAnswers
<1>4. work' = [work EXCEPT ![w] = j]
  <2>1. work' = [work EXCEPT ![w].stage = "answer", ![w].out = o]
    BY <1>1, <1>2 DEF ReadWhole
  <2>2. work \in [Workers -> {Idle} \cup JobType]
    BY <1>0 DEF TypeOK
  <2> QED
    BY <1>1, <1>3, <2>1, <2>2
<1>5. UNCHANGED <<owner, link, pieces, sent, tasks, mPartials, undefined, handled, stray>>
  BY DEF ReadWhole, server
<1>6. Kept /\ undefined' \in BOOLEAN
  BY <1>0, <1>5, SameIsKept, Zenon DEF Kept, TypeOK
<1> QED
  BY <1>3, <1>4, <1>5, <1>6, WorkerMoves

\* The handler comes to mPartials, goes on in its loop or ends it.
LEMMA SMoves ==
  ASSUME SInv, NEW w \in Workers, Enter(w) \/ PassBy(w) \/ PastEnd(w) \/ LoopEnds(w)
  PROVE  SInv'
<1>0. work[w].stage # "idle" /\ TypeOK
  <2>1. CASE Enter(w)
    BY <2>1 DEF Enter, At, SInv
  <2>2. CASE PassBy(w) \/ PastEnd(w) \/ LoopEnds(w)
    BY <2>2 DEF PassBy, PastEnd, LoopEnds, AtEntry, InLoop, At, SInv
  <2> QED
    BY <2>1, <2>2
<1>1. PICK k \in JobType : /\ k = work[w] /\ GoodTask(k.task) /\ GoodRequest(k.task.fd, k.out)
  BY <1>0, JobOf
<1>2. work \in [Workers -> {Idle} \cup JobType] /\ Len(mPartials) \in Nat
  BY <1>0 DEF TypeOK
<1>3. PICK s \in {"inside", "answer"}, i \in Nat \ {0}, e \in Nat :
        work' = [work EXCEPT ![w] = [k EXCEPT !.stage = s, !.it = i, !.end = e]]
  <2>1. k.stage \in {"call", "inside", "answer"} /\ k.it \in Nat \ {0} /\ k.end \in Nat
    BY DEF JobType
  <2>2. CASE Enter(w)
    <3>1. work' = [work EXCEPT ![w].stage = "inside", ![w].end = Len(mPartials)]
      BY <2>2 DEF Enter
    <3>2. work' = [work EXCEPT ![w] = [k EXCEPT !.stage = "inside", !.it = k.it,
                                                !.end = Len(mPartials)]]
      BY <1>1, <1>2, <2>1, <3>1 DEF JobType
    <3> QED
      BY <1>2, <2>1, <3>2
  <2>3. CASE PassBy(w) \/ PastEnd(w)
    <3>1. work' = [work EXCEPT ![w].it = @ + 1] /\ k.stage = "inside"
      BY <1>1, <2>3 DEF PassBy, PastEnd, AtEntry, InLoop, At
    <3>2. work' = [work EXCEPT ![w] = [k EXCEPT !.stage = "inside", !.it = k.it + 1,
                                                !.end = k.end]]
      BY <1>1, <1>2, <2>1, <3>1 DEF JobType
    <3>3. k.it + 1 \in Nat \ {0}
      BY <2>1
    <3> QED
      BY <2>1, <3>2, <3>3, Zenon
  <2>4. CASE LoopEnds(w)
    <3>1. work' = [work EXCEPT ![w].stage = "answer"]
      BY <2>4 DEF LoopEnds
    <3>2. work' = [work EXCEPT ![w] = [k EXCEPT !.stage = "answer", !.it = k.it,
                                                !.end = k.end]]
      BY <1>1, <1>2, <2>1, <3>1 DEF JobType
    <3> QED
      BY <2>1, <3>2
  <2> QED
    BY <2>2, <2>3, <2>4
<1>4. PICK j : /\ j = [k EXCEPT !.stage = s, !.it = i, !.end = e]
               /\ j \in JobOrIdle /\ GoodJob(j)
  <2>1. PICK j : j = [k EXCEPT !.stage = s, !.it = i, !.end = e]
    OBVIOUS
  <2>2. j \in JobType /\ j.task = k.task /\ j.out = k.out
    BY <2>1 DEF JobType
  <2>3. GoodJob(j)
    BY <1>1, <2>2 DEF GoodJob
  <2> QED
    BY <2>1, <2>2, <2>3 DEF JobOrIdle
<1>5. /\ UNCHANGED <<owner, link, pieces, sent, tasks, mPartials, handled, stray>>
      /\ undefined' \in BOOLEAN
  <2>1. undefined \in BOOLEAN
    BY <1>0 DEF TypeOK
  <2>2. CASE Enter(w) \/ PassBy(w) \/ LoopEnds(w)
    BY <2>1, <2>2, Zenon DEF Enter, PassBy, LoopEnds, server
  <2>3. CASE PastEnd(w)
    BY <2>3 DEF PastEnd, Behaves, server
  <2> QED
    BY <2>2, <2>3
<1>6. Kept
  BY <1>5, SameIsKept, Zenon DEF Kept
<1> QED
  BY <1>3, <1>4, <1>5, <1>6, WorkerMoves

LEMMA SPush == ASSUME SInv, NEW w \in Workers, Push(w) PROVE SInv'
<1>0. work[w].stage # "idle" /\ TypeOK /\ Partials
  BY DEF Push, At, SInv
<1>1. PICK k \in JobType, t \in TaskType : k = work[w] /\ t = k.task /\ GoodTask(t)
  BY <1>0, JobOf
<1>2. PICK o \in RequestType : o = Parsed(t, FALSE) /\ GoodRequest(t.fd, o)
  BY <1>1, ParsedIsGood
<1>3. PICK j : j = [k EXCEPT !.stage = "answer", !.out = o] /\ j \in JobOrIdle /\ GoodJob(j)
  BY <1>1, <1>2, JobAnswers
<1>4. work' = [work EXCEPT ![w] = j]
  <2>1. work' = [work EXCEPT ![w].stage = "answer", ![w].out = o]
    BY <1>1, <1>2 DEF Push
  <2>2. work \in [Workers -> {Idle} \cup JobType]
    BY <1>0 DEF TypeOK
  <2> QED
    BY <1>1, <1>3, <2>1, <2>2
<1>5. PICK e : /\ e = [fd |-> t.fd, conn |-> t.conn, size |-> t.size, first |-> t.first,
                       foreign |-> t.foreign, data |-> t.data]
               /\ mPartials' = Append(mPartials, e)
  BY <1>1 DEF Push
<1>6. e \in EntryType /\ GoodEntry(e)
  BY <1>1, <1>5 DEF TaskType, EntryType, GoodTask, GoodEntry
<1>7. /\ UNCHANGED <<owner, link, pieces, sent, tasks, handled, stray>>
      /\ undefined' \in BOOLEAN
  BY DEF Push, Behaves, server
<1>8. mPartials' \in Seq(EntryType) /\ Partials'
  <2>1. mPartials \in Seq(EntryType)
    BY <1>0 DEF TypeOK
  <2>2. mPartials' \in Seq(EntryType)
        /\ \A i \in 1..Len(mPartials') :
             mPartials'[i] = e \/ (i \in 1..Len(mPartials) /\ mPartials'[i] = mPartials[i])
    BY <1>5, <1>6, <2>1
  <2>3. \A i \in 1..Len(mPartials') : GoodEntry(mPartials'[i])
    BY <1>0, <1>6, <2>2 DEF Partials
  <2> QED
    BY <1>7, <2>2, <2>3 DEF Partials, GoodEntry, GoodUnits, Good
<1>9. Kept
  BY <1>7, <1>8, SameIsKept, Zenon DEF Kept
<1> QED
  BY <1>3, <1>4, <1>7, <1>9, WorkerMoves

\* Every entry that is left after an erase was there before.
LEMMA DeleteKeeps ==
  ASSUME NEW s \in Seq(EntryType), NEW f
  PROVE  /\ DeletePartialConn(s, f) \in Seq(EntryType)
         /\ \A i \in 1..Len(DeletePartialConn(s, f)) :
              \E k \in 1..Len(s) : DeletePartialConn(s, f)[i] = s[k]
<1>1. PICK same : same = {i \in 1..Len(s) : SameConn(s[i], f)}
  OBVIOUS
<1>2. DeletePartialConn(s, f) = IF same = {} THEN s ELSE EraseAt(s, Max(same))
  BY <1>1, Zenon DEF DeletePartialConn
<1>3. ASSUME NEW m, same # {}
      PROVE  /\ EraseAt(s, m) \in Seq(EntryType)
             /\ \A i \in 1..Len(EraseAt(s, m)) : \E k \in 1..Len(s) : EraseAt(s, m)[i] = s[k]
  <2>1. PICK n : n = Len(s) - 1 /\ n \in Nat
    BY <1>1, <1>3
  <2>2. PICK r : r = EraseAt(s, m) /\ r = [j \in 1..n |-> IF j < m THEN s[j] ELSE s[j + 1]]
    BY <2>1 DEF EraseAt
  <2>3. \A j \in 1..n : j \in 1..Len(s) /\ j + 1 \in 1..Len(s)
    BY <2>1
  <2>4. \A j \in 1..n : r[j] = s[j] \/ r[j] = s[j + 1]
    BY <2>2
  <2>5. \A j \in 1..n : r[j] \in EntryType
    BY <2>3, <2>4
  <2>6. r \in [1..n -> EntryType]
    BY <2>2, <2>5
  <2>7. r \in Seq(EntryType) /\ Len(r) = n
    BY <2>1, <2>6
  <2> QED
    BY <2>2, <2>3, <2>4, <2>7
<1>4. CASE same = {}
  BY <1>2, <1>4
<1>5. CASE same # {}
  BY <1>2, <1>3, <1>5
<1> QED
  BY <1>4, <1>5

\* So an erase keeps entries good that are good.
LEMMA DeleteIsGood ==
  ASSUME NEW s \in Seq(EntryType), NEW f, \A i \in 1..Len(s) : GoodEntry(s[i])
  PROVE  /\ DeletePartialConn(s, f) \in Seq(EntryType)
         /\ \A i \in 1..Len(DeletePartialConn(s, f)) : GoodEntry(DeletePartialConn(s, f)[i])
<1>1. PICK r : r = DeletePartialConn(s, f)
  OBVIOUS
<1>2. r \in Seq(EntryType) /\ \A i \in 1..Len(r) : \E k \in 1..Len(s) : r[i] = s[k]
  BY <1>1, DeleteKeeps
<1>3. \A i \in 1..Len(r) : GoodEntry(r[i])
  BY <1>2
<1> QED
  BY <1>1, <1>2, <1>3

LEMMA SClientClosed == ASSUME SInv, NEW w \in Workers, ClientClosed(w) PROVE SInv'
<1>0. TypeOK /\ Partials
  BY DEF SInv
<1>1. /\ work' = [work EXCEPT ![w] = Idle] /\ undefined' \in BOOLEAN
      /\ UNCHANGED <<owner, link, pieces, sent, tasks, handled, stray>>
  BY DEF ClientClosed, Behaves, server
<1>2. PICK s, f : s = mPartials /\ f = work[w].task.fd
  OBVIOUS
<1>3. mPartials' = DeletePartialConn(s, f)
  BY <1>2 DEF ClientClosed
<1>4. s \in Seq(EntryType) /\ \A i \in 1..Len(s) : GoodEntry(s[i])
  BY <1>0, <1>2 DEF TypeOK, Partials
<1>5. PICK r : /\ r = mPartials' /\ r \in Seq(EntryType)
               /\ \A i \in 1..Len(r) : GoodEntry(r[i])
  BY <1>3, <1>4, DeleteIsGood
<1>6. mPartials' \in Seq(EntryType) /\ Partials'
  BY <1>1, <1>5 DEF Partials, GoodEntry, GoodUnits, Good
<1>7. Kept
  BY <1>1, <1>6, SameIsKept, Zenon DEF Kept
<1>8. Idle \in JobOrIdle /\ GoodJob(Idle)
  BY DEF Idle, JobOrIdle, GoodJob
<1> QED
  BY <1>1, <1>7, <1>8, WorkerMoves

\* The entry that gets the payload is one of the task's descriptor.
LEMMA SAppendTo == ASSUME SInv, NEW w \in Workers, AppendTo(w) PROVE SInv'
<1>0. TypeOK /\ Partials /\ work[w].stage # "idle" /\ AtEntry(w)
  <2>1. AtEntry(w)
    BY Zenon DEF AppendTo
  <2> QED
    BY <2>1 DEF AtEntry, InLoop, At, SInv
<1>1. PICK k \in JobType, t \in TaskType, o \in RequestType :
        k = work[w] /\ t = k.task /\ o = k.out /\ GoodTask(t) /\ GoodRequest(t.fd, o)
  BY <1>0, JobOf
<1>2. PICK s, n, e : s = mPartials /\ n = k.it /\ e = s[n]
  OBVIOUS
<1>3. s \in Seq(EntryType) /\ \A i \in 1..Len(s) : GoodEntry(s[i])
  BY <1>0, <1>2 DEF TypeOK, Partials
<1>4. /\ work \in [Workers -> {Idle} \cup JobType] /\ k.it \in Nat \ {0} /\ k.end \in Nat
      /\ k.stage = "inside" /\ n \in 1..Len(s)
  <2>1. /\ work \in [Workers -> {Idle} \cup JobType] /\ k.it \in Nat \ {0} /\ k.end \in Nat
        /\ k.stage = "inside" /\ k.it <= Len(mPartials)
    BY <1>0, <1>1 DEF TypeOK, JobType, AtEntry, InLoop, At
  <2>2. Len(s) \in Nat /\ n \in Nat \ {0} /\ n <= Len(s)
    BY <1>2, <1>3, <2>1
  <2> QED
    BY <2>1, <2>2
<1>5. PICK el : /\ el = [e EXCEPT !.data = @ \o t.data]
                /\ e.fd = t.fd
                /\ mPartials' = IF Complete(el)
                                THEN DeletePartialConn([s EXCEPT ![n] = el], t.fd)
                                ELSE [s EXCEPT ![n] = el]
                /\ work' = [work EXCEPT ![w].it = @ + 1,
                                        ![w].out = IF Complete(el) THEN Restored(el) ELSE @]
  BY <1>1, <1>2, Zenon DEF AppendTo, SameConn
<1>6. UNCHANGED <<owner, link, pieces, sent, tasks, handled, stray>>
  BY Zenon DEF AppendTo, server
<1>7. undefined' \in BOOLEAN
  <2>1. PICK b : undefined' \in IF b THEN {FALSE} ELSE BOOLEAN
    BY Zenon DEF AppendTo, Behaves
  <2> QED
    BY <2>1
<1>8. /\ t.fd \in Fds /\ t.data \in Seq(Unit) /\ Len(t.data) \in Nat
      /\ \A i \in 1..Len(t.data) : Good(t.fd, t.data[i][1])
  BY <1>1 DEF TaskType, GoodTask, GoodUnits
<1>9. PICK b : /\ el.data = e.data \o t.data /\ b = el.data
               /\ b \in Seq(Unit) /\ \A i \in 1..Len(b) : Good(t.fd, b[i][1])
               /\ el \in EntryType /\ el.fd = t.fd /\ el.conn = e.conn
  <2>2. e \in EntryType /\ GoodEntry(e)
    BY <1>2, <1>3, <1>4
  <2>3. /\ e.data \in Seq(Unit) /\ Len(e.data) \in Nat
        /\ \A i \in 1..Len(e.data) : Good(t.fd, e.data[i][1])
    BY <1>5, <2>2 DEF EntryType, GoodEntry, GoodUnits
  <2>4. PICK b : b = e.data \o t.data
    OBVIOUS
  <2>5. el.data = b /\ el.fd = t.fd /\ el.conn = e.conn /\ el \in EntryType
    <3>1. b \in Seq(Unit)
      BY <1>8, <2>3, <2>4
    <3> QED
      BY <1>5, <2>2, <2>4, <3>1 DEF EntryType
  <2>6. b \in Seq(Unit) /\ \A i \in 1..Len(b) : Good(t.fd, b[i][1])
    <3>1. PICK p, q : p = e.data /\ q = t.data
      OBVIOUS
    <3>2. /\ p \in Seq(Unit) /\ Len(p) \in Nat /\ q \in Seq(Unit) /\ Len(q) \in Nat
          /\ \A i \in 1..Len(p) : Good(t.fd, p[i][1])
          /\ \A i \in 1..Len(q) : Good(t.fd, q[i][1])
      BY <1>8, <2>3, <3>1
    <3>3. /\ b \in Seq(Unit) /\ Len(b) = Len(p) + Len(q)
          /\ \A i \in 1..(Len(p) + Len(q)) : b[i] = IF i <= Len(p) THEN p[i] ELSE q[i - Len(p)]
      BY <2>4, <3>1, <3>2, ConcatProperties
    <3>4. ASSUME NEW i \in 1..Len(b) PROVE Good(t.fd, b[i][1])
      <4>1. CASE i <= Len(p)
        <5>1. i \in 1..Len(p) /\ b[i] = p[i]
          BY <3>2, <3>3, <4>1
        <5> QED
          BY <3>2, <5>1
      <4>2. CASE ~(i <= Len(p))
        <5>1. i - Len(p) \in 1..Len(q) /\ b[i] = q[i - Len(p)]
          BY <3>2, <3>3, <4>2
        <5> QED
          BY <3>2, <5>1
      <4> QED
        BY <4>1, <4>2
    <3> QED
      BY <3>3, <3>4
  <2> QED
    BY <2>4, <2>5, <2>6
<1>10. GoodEntry(el)
  <2>1. Good(e.fd, e.conn)
    BY <1>2, <1>3, <1>4 DEF GoodEntry
  <2> QED
    BY <1>5, <1>9, <2>1 DEF GoodEntry, GoodUnits
<1>11. PICK a : /\ a = [s EXCEPT ![n] = el] /\ a \in Seq(EntryType)
                /\ \A i \in 1..Len(a) : GoodEntry(a[i])
  <2>1. PICK a : a = [s EXCEPT ![n] = el]
    OBVIOUS
  <2>2. /\ a \in [1..Len(s) -> EntryType] /\ Len(s) \in Nat
        /\ \A i \in 1..Len(s) : a[i] = el \/ a[i] = s[i]
    BY <1>3, <1>4, <1>9, <2>1
  <2>3. a \in Seq(EntryType) /\ Len(a) = Len(s)
    BY <2>2
  <2> QED
    BY <1>3, <1>10, <2>1, <2>2, <2>3
<1>12. mPartials' \in Seq(EntryType) /\ Partials'
  <2>1. PICK r : /\ r = mPartials' /\ r \in Seq(EntryType)
                 /\ \A i \in 1..Len(r) : GoodEntry(r[i])
    BY <1>5, <1>11, DeleteIsGood
  <2> QED
    BY <1>6, <2>1 DEF Partials, GoodEntry, GoodUnits, Good
<1>13. PICK out \in RequestType : /\ out = (IF Complete(el) THEN Restored(el) ELSE o)
                                  /\ GoodRequest(t.fd, out)
  <2>1. Restored(el) \in RequestType
    BY <1>9 DEF Restored, RequestType, EntryType
  <2>2. GoodRequest(t.fd, Restored(el))
    <3>1. el.conn \in Conns /\ Good(t.fd, el.conn) /\ GoodUnits(t.fd, el.data)
      BY <1>9, <1>10 DEF EntryType, GoodEntry
    <3> QED
      BY <3>1, HttpFileServerAssumption DEF Restored, GoodRequest
  <2> QED
    BY <1>1, <2>1, <2>2
<1>14. PICK j : /\ j = [k EXCEPT !.it = k.it + 1, !.out = out]
                /\ j \in JobOrIdle /\ GoodJob(j)
  <2>1. PICK j, m : j = [k EXCEPT !.it = m, !.out = out] /\ m = k.it + 1
    OBVIOUS
  <2>2. m \in Nat \ {0}
    BY <1>4, <2>1
  <2>3. j \in JobType /\ j.task = k.task /\ j.out = out
    BY <2>1, <2>2 DEF JobType
  <2>4. GoodJob(j)
    BY <1>1, <1>13, <2>3 DEF GoodJob
  <2> QED
    BY <2>1, <2>3, <2>4 DEF JobOrIdle
<1>15. work' = [work EXCEPT ![w] = j]
  <2>1. work' = [work EXCEPT ![w].it = @ + 1, ![w].out = out]
    BY <1>1, <1>4, <1>5, <1>13
  <2> QED
    BY <1>1, <1>4, <1>14, <2>1 DEF JobType
<1>16. Kept
  BY <1>6, <1>12, SameIsKept, Zenon DEF Kept
<1> QED
  BY <1>6, <1>7, <1>14, <1>15, <1>16, WorkerMoves

\* A handler's last step.  The contributors of what it processes are good for its
\* descriptor; an answer that goes elsewhere is one to a closed connection.
LEMMA SAnswer == ASSUME SInv, NEW w \in Workers, Answer(w) PROVE SInv'
<1>0. TypeOK /\ Owners /\ (\A h \in handled : Apart(h)) /\ StrayIsOfClosed
      /\ work[w].stage # "idle"
  BY DEF Answer, At, SInv
<1>1. PICK t \in TaskType, o \in RequestType :
        t = work[w].task /\ o = work[w].out /\ GoodTask(t) /\ GoodRequest(t.fd, o)
  BY <1>0, JobOf
<1>2. /\ work' = [work EXCEPT ![w] = Idle]
      /\ UNCHANGED <<owner, link, pieces, sent, tasks, mPartials, undefined>>
  BY DEF Answer, server
<1>3. PICK to, h : /\ to = owner[t.fd]
                   /\ h = [hdr |-> o.hdr, first |-> o.first, from |-> t.conn, body |-> o.body]
  OBVIOUS
<1>4. /\ handled' = handled \/ (o.process /\ handled' = handled \cup {h})
      /\ stray' = stray \/ (to \notin {t.conn, None} /\ stray' = stray \cup {<<t.conn, to>>})
  BY <1>1, <1>3 DEF Answer
<1>5. t.fd \in Fds /\ t.conn \in Conns /\ Good(t.fd, t.conn)
  BY <1>1 DEF TaskType, GoodTask
<1>6. o.process => h \in [hdr : Conns, first : Nat, from : Conns, body : Seq(Unit)] /\ Apart(h)
  <2>1. SUFFICES ASSUME o.process
                 PROVE  /\ h \in [hdr : Conns, first : Nat, from : Conns, body : Seq(Unit)]
                        /\ Apart(h)
    OBVIOUS
  <2>2. /\ o.hdr \in Conns /\ Good(t.fd, o.hdr) /\ o.first \in Nat /\ o.body \in Seq(Unit)
        /\ \A i \in 1..Len(o.body) : Good(t.fd, o.body[i][1])
    BY <1>1, <2>1 DEF GoodRequest, GoodUnits, RequestType
  <2>3. \A i \in 1..Len(o.body) : o.body[i][1] \in Conns
    BY <2>2 DEF Unit
  <2>4. \A c \in Contributors(h) : c \in Conns /\ Good(t.fd, c)
    BY <1>3, <1>5, <2>2, <2>3 DEF Contributors
  <2>5. Apart(h)
    BY <1>0, <1>5, <2>4, GoodAreApart DEF Apart
  <2> QED
    BY <1>3, <1>5, <2>2, <2>5
<1>7. /\ handled' \subseteq [hdr : Conns, first : Nat, from : Conns, body : Seq(Unit)]
      /\ (\A g \in handled : Apart(g))'
  <2>1. handled \subseteq [hdr : Conns, first : Nat, from : Conns, body : Seq(Unit)]
    BY <1>0, Zenon DEF TypeOK
  <2>2. \A g \in handled' : Apart(g)
    BY <1>0, <1>4, <1>6, Zenon
  <2> QED
    BY <1>2, <1>4, <1>6, <2>1, <2>2, Zenon DEF Apart
<1>8. stray' \subseteq Conns \X Conns /\ StrayIsOfClosed'
  <2>1. CASE stray' = stray
    BY <1>0, <1>2, <2>1 DEF TypeOK, StrayIsOfClosed
  <2>2. CASE to \notin {t.conn, None} /\ stray' = stray \cup {<<t.conn, to>>}
    <3>1. to \in Conns /\ link[t.conn] = "closed" /\ link[to] = "open"
      <4>1. to \in Conns
        BY <1>0, <1>3, <1>5, <2>2 DEF TypeOK
      <4> QED
        BY <1>0, <1>3, <1>5, <2>2, <4>1 DEF Good, Owners
    <3>2. stray \subseteq Conns \X Conns
      BY <1>0 DEF TypeOK
    <3> QED
      BY <1>0, <1>2, <1>5, <2>2, <3>1, <3>2 DEF StrayIsOfClosed
  <2> QED
    BY <1>4, <2>1, <2>2
<1>9. Kept /\ undefined' \in BOOLEAN
  BY <1>0, <1>2, <1>7, <1>8, SameIsKept, Zenon DEF Kept, TypeOK
<1>10. Idle \in JobOrIdle /\ GoodJob(Idle)
  BY DEF Idle, JobOrIdle, GoodJob
<1> QED
  BY <1>2, <1>9, <1>10, WorkerMoves

LEMMA SKept == ASSUME SInv, [Next]_vars PROVE SInv'
<1>1. CASE UNCHANGED vars
  <2>1. UNCHANGED <<owner, link, pieces, sent, tasks, work, mPartials, undefined, handled, stray>>
    BY <1>1 DEF vars
  <2>2. Stays /\ Ages
    BY <2>1 DEF Stays, Ages, Good
  <2>3. /\ Waiting' /\ Jobs' /\ Partials'
        /\ (\A h \in handled : Apart(h))' /\ StrayIsOfClosed'
    BY <2>1, <2>2, ServerMoves
  <2>4. TypeOK' /\ Owners'
    BY <2>1, Zenon DEF SInv, TypeOK, Owners
  <2> QED
    BY <2>3, <2>4, Zenon DEF SInv
<1>2. CASE \E c \in Conns : Accept(c) \/ IncommingData(c) \/ UpdateClients(c)
  BY <1>2, SAccept, SIncommingData, SUpdateClients
<1>3. ASSUME NEW w \in Workers, WorkerStep(w) PROVE SInv'
  BY <1>3, STake, SReadWhole, SMoves, SPush, SClientClosed, SAppendTo, SAnswer, Zenon
     DEF WorkerStep
<1> QED
  BY <1>1, <1>2, <1>3 DEF Next

\* With any number of workers an answer that another peer gets is one to a
\* connection that was closed before: the number in the task's copy of Conn is
\* good as long as the connection is.
THEOREM AnswersReachTheirPeer == Spec => []StrayIsOfClosed
<1>1. Init => SInv
  BY SInitially
<1>2. SInv /\ [Next]_vars => SInv'
  BY SKept
<1>3. SInv => StrayIsOfClosed
  BY DEF SInv
<1> QED
  BY <1>1, <1>2, <1>3, PTL DEF Spec

\* With any number of workers and however the pieces are cut, a request that is
\* processed was not put together from two connections that were open: an entry
\* of mPartials outlives its connection only for the next one on its descriptor.
THEOREM RequestsStayApart == Spec => []RequestsApart
<1>1. Init => SInv
  BY SInitially
<1>2. SInv /\ [Next]_vars => SInv'
  BY SKept
<1>3. SInv => RequestsApart
  BY DEF SInv, RequestsApart, Apart
<1> QED
  BY <1>1, <1>2, <1>3, PTL DEF Spec
=============================================================================
