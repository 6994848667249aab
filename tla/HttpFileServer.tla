--------------------------- MODULE HttpFileServer ---------------------------
(***************************************************************************)
(* The request handler of protocol/HttpFileServer.cpp on the callbacks of  *)
(* the TCP server.  A POST whose body is not complete is kept in mPartials *)
(* until the rest has come.  Callbacks are tasks of the server's pool:     *)
(* they start in the order they were handed in and, with several workers,  *)
(* run at the same time; nothing protects mPartials.  Entries, and the     *)
(* answers, go by the number of the descriptor in the task's copy of Conn. *)
(*                                                                         *)
(* A peer's bytes are units <<c, i>>, and come in pieces cut anywhere.     *)
(* Each piece is looked at alone: if its first line is a request line it   *)
(* is a request with the header lines that happen to be in it, however     *)
(* many are still to come; if not, it is more of a body.                   *)
(***************************************************************************)
EXTENDS Naturals, FiniteSets, Sequences, FiniteSetsExt

CONSTANTS
  Conns, Fds, Workers, None,
  Foreign,         \* connections whose header x-real-ip is not 127.0.0.1
  mLocalHostOnly,
  MaxPieces,       \* bound: pieces received, of all connections
  MaxUnits,        \* bound: units of a piece
  MaxSize          \* bound: content-length, in units

ASSUME HttpFileServerAssumption ==
  /\ IsFiniteSet(Conns) /\ IsFiniteSet(Fds) /\ IsFiniteSet(Workers)
  /\ None \notin Conns /\ Foreign \subseteq Conns /\ mLocalHostOnly \in BOOLEAN
  /\ MaxPieces \in Nat /\ MaxUnits \in Nat /\ MaxSize \in Nat

VARIABLES
  owner,      \* the connection a descriptor belongs to, or None
  link,       \* "new", "open" or "closed"
  pieces,     \* pieces received so far
  sent,       \* units each peer has sent
  tasks,      \* the pool's queue
  work,       \* per worker: idle, or a task and how far it is
  mPartials,
  undefined,  \* undefined behaviour has had an effect: nothing is known after it
  handled,    \* ghost: requests given to GetFile and ReadDataPath
  stray       \* ghost: <<c, d>>: the answer to c was written to d

vars == <<owner, link, pieces, sent, tasks, work, mPartials, undefined, handled, stray>>
server == <<owner, link, pieces, sent, tasks>>

Unit == Conns \X (Nat \ {0})

\* A request under construction; hdr is the connection whose headers it has, and
\* first the first unit that came with or after them.
NoRequest == [hdr |-> None, first |-> 1, foreign |-> FALSE, body |-> <<>>, process |-> FALSE]

Idle == [stage |-> "idle"]

Init ==
  /\ owner = [f \in Fds |-> None]
  /\ link = [c \in Conns |-> "new"]
  /\ pieces = 0 /\ sent = [c \in Conns |-> 0]
  /\ tasks = <<>> /\ mPartials = <<>>
  /\ work = [w \in Workers |-> Idle]
  /\ undefined = FALSE
  /\ handled = {} /\ stray = {}

-----------------------------------------------------------------------------
(* What the TCP server does: accept, receive and close.                     *)

Fd(c) == CHOOSE f \in Fds : owner[f] = c

\* What one Recv of c gives: a request (head) of which the header lines that
\* are there may have a content-length (0: none, or no POST) and x-real-ip, and
\* len units of body; or len units that are not the beginning of a request.
Piece(c) ==
  {p \in [head : BOOLEAN, size : 0..MaxSize, foreign : BOOLEAN, len : 0..MaxUnits] :
     /\ ~p.head => p.size = 0 /\ p.len > 0
     /\ p.foreign => p.head /\ c \in Foreign}
NoPiece == [head |-> FALSE, size |-> 0, foreign |-> FALSE, len |-> 0]

\* Mutant of Task: conn is captured by reference, and is another one by now.
TaskByReference(op, c, p) ==
  [op |-> op, conn |-> c, fd |-> CHOOSE f \in Fds : owner[f] # None, head |-> p.head,
   size |-> p.size, foreign |-> p.foreign, first |-> sent[c] + 1,
   data |-> [i \in 1..p.len |-> <<c, sent[c] + i>>]]

Task(op, c, p) ==
  [op |-> op, conn |-> c, fd |-> Fd(c), head |-> p.head, size |-> p.size,
   foreign |-> p.foreign, first |-> sent[c] + 1, data |-> [i \in 1..p.len |-> <<c, sent[c] + i>>]]

Accept(c) ==
  /\ link[c] = "new"
  /\ \E f \in Fds : owner[f] = None /\ owner' = [owner EXCEPT ![f] = c]
  /\ link' = [link EXCEPT ![c] = "open"]
  /\ UNCHANGED <<pieces, sent, tasks, work, mPartials, undefined, handled, stray>>

\* IncommingData posts ReadData with a copy of what one Recv gave.
IncommingData(c) ==
  /\ link[c] = "open"
  /\ pieces < MaxPieces /\ pieces' = pieces + 1
  /\ \E p \in Piece(c) : /\ tasks' = Append(tasks, Task("ReadData", c, p))
                         /\ sent' = [sent EXCEPT ![c] = @ + p.len]
  /\ UNCHANGED <<owner, link, work, mPartials, undefined, handled, stray>>

\* UpdateClients posts ClientClosed and closes the descriptor.
UpdateClients(c) ==
  /\ link[c] = "open"
  /\ tasks' = Append(tasks, Task("ClientClosed", c, NoPiece))
  /\ owner' = [owner EXCEPT ![Fd(c)] = None]
  /\ link' = [link EXCEPT ![c] = "closed"]
  /\ UNCHANGED <<pieces, sent, work, mPartials, undefined, handled, stray>>

-----------------------------------------------------------------------------
(* The workers.                                                             *)

At(w, stage) == work[w].stage = stage
IsWhole(t) == t.op = "ReadData" /\ t.head /\ t.size <= Len(t.data)

Take(w) ==
  /\ At(w, "idle") /\ tasks # <<>>
  /\ tasks' = Tail(tasks)
  /\ work' = [work EXCEPT ![w] = [stage |-> "call", task |-> Head(tasks), out |-> NoRequest,
                                  it |-> 1, end |-> 0]]
  /\ UNCHANGED <<owner, link, pieces, sent, mPartials, undefined, handled, stray>>

\* The request that a piece is, processed at once or not.
Parsed(t, process) ==
  [hdr |-> t.conn, first |-> t.first, foreign |-> t.foreign, body |-> t.data,
   process |-> process]

\* A request without a part that is known to be still to come: mPartials is not
\* touched.
ReadWhole(w) ==
  /\ At(w, "call") /\ IsWhole(work[w].task)
  /\ work' = [work EXCEPT ![w].stage = "answer", ![w].out = Parsed(work[w].task, TRUE)]
  /\ UNCHANGED <<server, mPartials, undefined, handled, stray>>

\* Another handler comes to mPartials; the range-for keeps the end it finds.
Enter(w) ==
  /\ At(w, "call") /\ ~IsWhole(work[w].task)
  /\ work' = [work EXCEPT ![w].stage = "inside", ![w].end = Len(mPartials)]
  /\ UNCHANGED <<server, mPartials, undefined, handled, stray>>

\* The handlers that are in mPartials besides w.
Inside(w) == {v \in Workers \ {w} : At(v, "inside")}

\* Undefined behaviour has the effect the code describes, or any other.
Behaves(defined) == undefined' \in IF defined THEN {FALSE} ELSE BOOLEAN

\* A POST whose content-length exceeds its body.
Push(w) ==
  LET t == work[w].task
  IN  /\ At(w, "inside") /\ t.op = "ReadData" /\ t.head
      /\ mPartials' = Append(mPartials, [fd |-> t.fd, conn |-> t.conn, size |-> t.size,
                                         first |-> t.first, foreign |-> t.foreign,
                                         data |-> t.data])
      /\ Behaves(Inside(w) = {})
      /\ work' = [work EXCEPT ![w].stage = "answer", ![w].out = Parsed(t, FALSE)]
      /\ UNCHANGED <<server, handled, stray>>

\* Mutant of SameConn: connections are not told apart.
AnyConn(el, fd) == TRUE

\* el.conn == conn: the number of the descriptor.
SameConn(el, fd) == el.fd = fd

EraseAt(s, k) == [j \in 1..(Len(s) - 1) |-> IF j < k THEN s[j] ELSE s[j + 1]]

\* DeletePartialConn erases the last entry of the descriptor.
DeletePartialConn(s, fd) ==
  LET same == {i \in 1..Len(s) : SameConn(s[i], fd)}
  IN  IF same = {} THEN s ELSE EraseAt(s, Max(same))

ClientClosed(w) ==
  /\ At(w, "inside") /\ work[w].task.op = "ClientClosed"
  /\ mPartials' = DeletePartialConn(mPartials, work[w].task.fd)
  /\ Behaves(mPartials' = mPartials \/ Inside(w) = {})
  /\ work' = [work EXCEPT ![w] = Idle]
  /\ UNCHANGED <<server, handled, stray>>

\* The range-for over mPartials with more of a body, one entry per step.
InLoop(w) == At(w, "inside") /\ work[w].task.op = "ReadData" /\ ~work[w].task.head
AtEntry(w) == InLoop(w) /\ work[w].it <= work[w].end /\ work[w].it <= Len(mPartials)

PassBy(w) ==
  /\ AtEntry(w) /\ ~SameConn(mPartials[work[w].it], work[w].task.fd)
  /\ work' = [work EXCEPT ![w].it = @ + 1]
  /\ UNCHANGED <<server, mPartials, undefined, handled, stray>>

Complete(el) == Len(el.data) >= el.size

\* The request with the body replaced by all the data.
Restored(el) == [hdr |-> el.conn, first |-> el.first, foreign |-> el.foreign,
                 body |-> el.data, process |-> TRUE]

\* The entry gets the payload.  If it is complete, the last entry of the
\* descriptor is erased, which need not be this one.
AppendTo(w) ==
  LET job == work[w]
      t == job.task
      el == [mPartials[job.it] EXCEPT !.data = @ \o t.data]
      appended == [mPartials EXCEPT ![job.it] = el]
  IN  /\ AtEntry(w) /\ SameConn(mPartials[job.it], t.fd)
      /\ mPartials' = IF Complete(el) THEN DeletePartialConn(appended, t.fd) ELSE appended
      /\ work' = [work EXCEPT ![w].it = @ + 1,
                              ![w].out = IF Complete(el) THEN Restored(el) ELSE @]
      /\ Behaves(\A v \in Inside(w) : ~Complete(el) /\ work[v].task.fd # t.fd)
      /\ UNCHANGED <<server, handled, stray>>

\* After an erase the loop goes on to the end it began with, over slots behind
\* the new end.
PastEnd(w) ==
  /\ InLoop(w) /\ work[w].it <= work[w].end /\ work[w].it > Len(mPartials)
  /\ work' = [work EXCEPT ![w].it = @ + 1]
  /\ Behaves(FALSE)
  /\ UNCHANGED <<server, mPartials, handled, stray>>

LoopEnds(w) ==
  /\ InLoop(w) /\ work[w].it > work[w].end
  /\ work' = [work EXCEPT ![w].stage = "answer"]
  /\ UNCHANGED <<server, mPartials, undefined, handled, stray>>

\* Send403, or GetFile and ReadDataPath; what is written goes to whoever has
\* the descriptor now.
Answer(w) ==
  LET t == work[w].task
      out == work[w].out
      to == owner[t.fd]
      refused == mLocalHostOnly /\ out.foreign
      processed == out.process /\ ~refused
  IN  /\ At(w, "answer")
      /\ handled' = IF processed
                    THEN handled \cup {[hdr |-> out.hdr, first |-> out.first, from |-> t.conn,
                                        body |-> out.body]}
                    ELSE handled
      /\ stray' = IF (processed \/ refused) /\ to \notin {t.conn, None}
                  THEN stray \cup {<<t.conn, to>>} ELSE stray
      /\ work' = [work EXCEPT ![w] = Idle]
      /\ UNCHANGED <<server, mPartials, undefined>>

WorkerStep(w) ==
  /\ ~undefined
  /\ \/ Take(w) \/ ReadWhole(w) \/ Enter(w) \/ Push(w) \/ ClientClosed(w)
     \/ PassBy(w) \/ AppendTo(w) \/ PastEnd(w) \/ LoopEnds(w) \/ Answer(w)

Next ==
  \/ /\ ~undefined
     /\ \E c \in Conns : Accept(c) \/ IncommingData(c) \/ UpdateClients(c)
  \/ \E w \in Workers : WorkerStep(w)

Spec == Init /\ [][Next]_vars

-----------------------------------------------------------------------------
(* Properties.                                                              *)

RequestType == [hdr : Conns \cup {None}, first : Nat, foreign : BOOLEAN, body : Seq(Unit),
                process : BOOLEAN]
EntryType == [fd : Fds, conn : Conns, size : Nat, first : Nat, foreign : BOOLEAN,
              data : Seq(Unit)]
TaskType == [op : {"ReadData", "ClientClosed"}, conn : Conns, fd : Fds, head : BOOLEAN,
             size : Nat, first : Nat, foreign : BOOLEAN, data : Seq(Unit)]
JobType == [stage : {"call", "inside", "answer"}, task : TaskType, out : RequestType,
            it : Nat \ {0}, end : Nat]

\* Every variable has its type.
TypeOK ==
  /\ owner \in [Fds -> Conns \cup {None}]
  /\ link \in [Conns -> {"new", "open", "closed"}]
  /\ pieces \in Nat /\ sent \in [Conns -> Nat]
  /\ tasks \in Seq(TaskType) /\ work \in [Workers -> {Idle} \cup JobType]
  /\ mPartials \in Seq(EntryType)
  /\ undefined \in BOOLEAN
  /\ handled \subseteq [hdr : Conns, first : Nat, from : Conns, body : Seq(Unit)]
  /\ stray \subseteq Conns \X Conns

\* "finally, all data is here, replace buffer" (HttpFileServer.cpp:351): in a
\* body that is processed the bytes its peer sent after the header are in the
\* order they were sent.
BodyInOrder ==
  \A h \in handled :
    LET Sent(i) == h.body[i][1] = h.hdr /\ h.body[i][2] >= h.first
    IN  \A i, j \in 1..Len(h.body) :
          i < j /\ Sent(i) /\ Sent(j) => h.body[i][2] < h.body[j][2]

\* The connections a processed request is made of: the one whose headers it has,
\* the one whose piece made it complete, and those whose bytes are its body.
Contributors(h) == {h.hdr, h.from} \cup {h.body[i][1] : i \in 1..Len(h.body)}

\* However pieces are cut and handlers overlap, a request is never put together
\* from two connections that are open: what an entry of mPartials gets from
\* another connection (HttpFileServer.cpp:337, by the number of the descriptor)
\* it gets after the one before was closed.
RequestsApart ==
  TypeOK /\ \A h \in handled : \A c, d \in Contributors(h) :
    c # d => link[c] = "closed" \/ link[d] = "closed"

\* However many handlers run at once, an answer that another peer gets is one to
\* a connection that was closed before the handler came to send it: while its
\* own connection is up the descriptor in the task's copy of Conn is still good.
StrayIsOfClosed == \A p \in stray : link[p[1]] = "closed" /\ link[p[2]] # "new"
=============================================================================
