------------------------------- MODULE MCUnits -------------------------------
(***************************************************************************)
(* The components that share nothing with others, checked in one run: a    *)
(* behaviour exercises the one that subject names and leaves the others in *)
(* their initial states.  Identifiers have three bits, the semaphore's     *)
(* counter has two.                                                        *)
(***************************************************************************)
EXTENDS ThreadQueue, UniqueId, TcpClient, Semaphore, EventLoop, TinyMac, Log, WsFrame

VARIABLE subject

\* WebSocket data: short ones in any frame, and sizes around every change of
\* the length field in the first one and in what the server sends.  One Recv has
\* room for 16376 bytes with a key and for 16380 without.
Bytes(n, k) == [i \in 1..n |-> (i + 50 * k) % 256]
LongOnes == {Bytes(n, 0) : n \in {125, 126, 127, 128, 255, 256, 16376, 16377, 16380, 16381}}
LongReplies == {Bytes(n, 0) : n \in {125, 126, 127, 255, 256, 65535, 65536}}
SomePayloads ==
  [k \in 0..MaxFrames |-> {Bytes(n, k) : n \in {0, 1, 5}} \cup IF k = 0 THEN LongOnes ELSE {}]
SomeKeys == {<<>>, <<18, 255, 0, 97>>}

UnitsInit ==
  /\ subject \in {"queue", "semaphore", "loop", "ids", "client", "frames", "mac", "log"}
  /\ QInit /\ SemInit /\ LoopInit /\ Init /\ ClientInit /\ WsInit /\ MacInit
  /\ LogInit
  /\ subject # "semaphore" => mCount = 0
  /\ subject # "ids" => mMin = 1 /\ mMax = 2

UnitsNext ==
  /\ UNCHANGED subject
  /\ \/ subject = "queue" /\ QNext /\ UNCHANGED <<semVars, loopVars, vars, clientVars, wsVars, macVars, logVars>>
     \/ subject = "semaphore" /\ SemNext /\ UNCHANGED <<qvars, loopVars, vars, clientVars, wsVars, macVars, logVars>>
     \/ subject = "loop" /\ LoopNext /\ UNCHANGED <<qvars, semVars, vars, clientVars, wsVars, macVars, logVars>>
     \/ subject = "ids" /\ Next /\ UNCHANGED <<qvars, semVars, loopVars, clientVars, wsVars, macVars, logVars>>
     \/ subject = "client" /\ ClientNext /\ UNCHANGED <<qvars, semVars, loopVars, vars, wsVars, macVars, logVars>>
     \/ subject = "frames" /\ WsNext /\ UNCHANGED <<qvars, semVars, loopVars, vars, clientVars, macVars, logVars>>
     \/ subject = "mac" /\ MacNext /\ UNCHANGED <<qvars, semVars, loopVars, vars, clientVars, wsVars, logVars>>
     \/ subject = "log" /\ LogNext /\ UNCHANGED <<qvars, semVars, loopVars, vars, clientVars, wsVars, macVars>>

UnitsSpec ==
  /\ UnitsInit
  /\ [][UnitsNext]_<<subject, qvars, semVars, loopVars, vars, clientVars, wsVars, macVars, logVars>>
  /\ LoopFairness
=============================================================================
