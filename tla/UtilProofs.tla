----------------------------- MODULE UtilProofs -----------------------------
(***************************************************************************)
(* Proofs about the small components: the semaphore for any number of      *)
(* threads and any width of its counter, the timer loop for any number of  *)
(* timers and users, the frames of TinyMac for data of any size, what the  *)
(* log delivers for any number of threads, entries and listeners, and the  *)
(* identifiers of UniqueId for integers of any width.                      *)
(***************************************************************************)
EXTENDS Semaphore, EventLoop, TinyMac, Log, UniqueId, FiniteSetTheorems,
        SequenceTheorems, TLAPS

-----------------------------------------------------------------------------
(* Semaphore.                                                               *)

\* The threads on their way to a token or to announce one.
Coming == {t \in Threads : scall[t] \in {"signal", "woken"}}

\* Coming is finite, and gains or loses one thread at a time.
LEMMA ComingIsFinite ==
  /\ \A S \in SUBSET Threads : IsFiniteSet(S) /\ Cardinality(S) \in Nat
  /\ \A S \in SUBSET Threads : \A t \in Threads \ S :
       Cardinality(S \cup {t}) = Cardinality(S) + 1
  /\ \A S \in SUBSET Threads : \A t \in S :
       Cardinality(S \ {t}) = Cardinality(S) - 1
<1>1. \A S \in SUBSET Threads : IsFiniteSet(S) /\ Cardinality(S) \in Nat
  BY FS_Subset, FS_CardinalityType, SemaphoreAssumption
<1>2. \A S \in SUBSET Threads : \A t \in Threads \ S :
        Cardinality(S \cup {t}) = Cardinality(S) + 1
  BY <1>1, FS_AddElement
<1>3. \A S \in SUBSET Threads : \A t \in S :
        Cardinality(S \ {t}) = Cardinality(S) - 1
  BY <1>1, FS_RemoveElement
<1> QED
  BY <1>1, <1>2, <1>3

\* The counter of the semaphore wraps at its width.
LEMMA Wraps ==
  ASSUME NEW M \in Nat, NEW x \in 0..M
  PROVE  (x + 1) % (M + 1) = IF x = M THEN 0 ELSE x + 1
OBVIOUS

\* A product with n is less than n away from 0 only if it is 0.
LEMMA SmallMultiple ==
  ASSUME NEW n \in Nat \ {0}, NEW z \in Int, NEW r \in Int, r < n, -n < r, n * z = r
  PROVE  z = 0
<1>1. CASE z >= 1
  BY <1>1
<1>2. CASE z <= -1
  BY <1>2
<1> QED
  BY <1>1, <1>2

\* A number is the multiple and the rest it is divided into, and no others.
LEMMA Divided ==
  ASSUME NEW n \in Nat \ {0}, NEW a \in Nat
  PROVE  a \div n \in Nat /\ a % n \in 0..(n - 1) /\ a = n * (a \div n) + (a % n)
<1>1. a % n \in 0..(n - 1)
  OBVIOUS
<1>2. a = n * (a \div n) + (a % n)
  OBVIOUS
<1>3. a \div n \in Nat
  OBVIOUS
<1> QED
  BY <1>1, <1>2, <1>3

\* The rest is determined.
LEMMA RestIs ==
  ASSUME NEW n \in Nat \ {0}, NEW q \in Nat, NEW r \in 0..(n - 1), NEW a \in Nat,
         a = n * q + r
  PROVE  a % n = r
<1>1. PICK p \in Nat : p = a \div n
  BY Divided
<1>2. PICK s \in 0..(n - 1) : s = a % n
  BY Divided
<1>3. n * p + s = n * q + r
  BY <1>1, <1>2, Divided
<1>4. n * p \in Int /\ n * q \in Int /\ n * (p - q) = n * p - n * q
  OBVIOUS
<1>5. PICK z \in Int : z = p - q
  OBVIOUS
<1>6. n * z = r - s
  BY <1>3, <1>4, <1>5
<1>7. r - s \in Int /\ r - s < n /\ -n < r - s
  OBVIOUS
<1>8. z = 0
  BY <1>6, <1>7, SmallMultiple
<1>9. n * 0 = 0
  OBVIOUS
<1> QED
  BY <1>2, <1>6, <1>8, <1>9

\* Numbers with the same rest have successors with the same rest.
LEMMA NextRest ==
  ASSUME NEW n \in Nat \ {0}, NEW a \in Nat, NEW b \in Nat, a % n = b % n
  PROVE  (a + 1) % n = (b + 1) % n
<1>1. PICK p \in Nat : p = a \div n
  BY Divided
<1>2. PICK q \in Nat : q = b \div n
  BY Divided
<1>3. PICK r \in 0..(n - 1) : r = a % n
  BY Divided
<1>4. a = n * p + r /\ b = n * q + r /\ n * p \in Nat /\ n * q \in Nat
  BY <1>1, <1>2, <1>3, Divided
<1>sum. PICK c \in Nat, d \in Nat : c = a + 1 /\ d = b + 1
  OBVIOUS
<1>5. CASE r + 1 < n
  <2>1. PICK s \in 0..(n - 1) : s = r + 1
    BY <1>5
  <2>2. c = n * p + s /\ d = n * q + s
    BY <1>4, <1>sum, <2>1
  <2>3. c % n = s
    BY <2>2, RestIs
  <2>4. d % n = s
    BY <2>2, RestIs
  <2> QED
    BY <2>3, <2>4, <1>sum
<1>6. CASE r + 1 = n
  <2>1. PICK u \in Nat, v \in Nat : u = p + 1 /\ v = q + 1
    OBVIOUS
  <2>2. n * u = n * p + n /\ n * v = n * q + n
    BY <2>1
  <2>3. PICK z \in 0..(n - 1) : z = 0
    OBVIOUS
  <2>4. c = n * u + z /\ d = n * v + z
    BY <2>2, <2>3, <1>4, <1>6, <1>sum
  <2>5. c % n = z
    BY <2>4, RestIs
  <2>6. d % n = z
    BY <2>4, RestIs
  <2> QED
    BY <2>5, <2>6, <1>sum
<1> QED
  BY <1>5, <1>6

\* A multiple of the width does not count.
LEMMA WidthOut ==
  ASSUME NEW n \in Nat \ {0}, NEW a \in Nat
  PROVE  (a + n) % n = a % n
<1>1. PICK p \in Nat : p = a \div n
  BY Divided
<1>2. PICK r \in 0..(n - 1) : r = a % n
  BY Divided
<1>3. PICK u \in Nat, b \in Nat : u = p + 1 /\ b = a + n
  OBVIOUS
<1>4. n * u = n * p + n /\ n * p \in Nat
  BY <1>3
<1>5. b = n * u + r
  <2>1. a = n * p + r
    BY <1>1, <1>2, Divided
  <2> QED
    BY <2>1, <1>3, <1>4
<1>6. b % n = r
  BY <1>5, RestIs
<1> QED
  BY <1>2, <1>3, <1>6

\* Every variable of the semaphore keeps its type.
LEMMA SemTypeStep == SemTypeOK /\ [SemNext]_semVars => SemTypeOK'
<1> SUFFICES ASSUME SemTypeOK, [SemNext]_semVars PROVE SemTypeOK'
  OBVIOUS
<1> USE SemaphoreAssumption DEF SemTypeOK
<1>1. ASSUME NEW t \in Threads, Notify(t) PROVE SemTypeOK'
  <2>1. (mCount + 1) % (MaxCount + 1) \in 0..MaxCount
    BY Wraps
  <2> QED
    BY <1>1, <2>1 DEF Notify
<1>2. ASSUME NEW t \in Threads, Signal(t) PROVE SemTypeOK'
  BY <1>2 DEF Signal, Sleeping
<1>3. ASSUME NEW t \in Threads, Pass(t) PROVE SemTypeOK'
  BY <1>3 DEF Pass
<1>4. ASSUME NEW t \in Threads, WaitBlocks(t) PROVE SemTypeOK'
  BY <1>4 DEF WaitBlocks
<1>5. ASSUME NEW t \in Threads, WaitTimesOut(t) PROVE SemTypeOK'
  BY <1>5 DEF WaitTimesOut
<1>6. ASSUME NEW t \in Threads, WaitWakes(t) PROVE SemTypeOK'
  BY <1>6 DEF WaitWakes
<1>7. CASE UNCHANGED semVars
  BY <1>7 DEF semVars
<1> QED
  BY <1>1, <1>2, <1>3, <1>4, <1>5, <1>6, <1>7 DEF SemNext

\* Tokens are conserved by every step; Notify may wrap the counter.
LEMMA TokensStep ==
  SemTypeOK /\ TokensConserved /\ [SemNext]_semVars => TokensConserved'
<1> SUFFICES ASSUME SemTypeOK, TokensConserved, [SemNext]_semVars
             PROVE  TokensConserved'
  OBVIOUS
<1> USE SemaphoreAssumption DEF SemTypeOK
<1> DEFINE n == MaxCount + 1
<1>0. n \in Nat \ {0} /\ mCount \in Nat /\ mCount <= MaxCount
  OBVIOUS
<1>1. ASSUME NEW t \in Threads, Notify(t) PROVE TokensConserved'
  <2>1. /\ mCount' = IF mCount = MaxCount THEN 0 ELSE mCount + 1
        /\ supplied' = supplied + 1 /\ UNCHANGED <<passed, spent>>
    BY <1>1, Wraps DEF Notify
  <2>2. (mCount + passed + spent) % n = supplied % n
    BY DEF TokensConserved
  <2>3. ((mCount + passed + spent) + 1) % n = (supplied + 1) % n
    <3>1. PICK a \in Nat : a = mCount + passed + spent
      OBVIOUS
    <3>2. a % n = supplied % n /\ supplied \in Nat
      BY <3>1, <2>2
    <3> HIDE DEF n
    <3>3. (a + 1) % n = (supplied + 1) % n
      BY <3>2, <1>0, NextRest
    <3> QED
      BY <3>1, <3>3
  <2>4. CASE mCount # MaxCount
    <3>1. mCount' + passed' + spent' = (mCount + passed + spent) + 1
      BY <2>1, <2>4
    <3> QED
      BY <3>1, <2>1, <2>3 DEF TokensConserved
  <2>5. CASE mCount = MaxCount
    <3>1. /\ mCount' + passed' + spent' = passed + spent
          /\ (mCount + passed + spent) + 1 = (passed + spent) + n
      BY <2>1, <2>5
    <3>2. ((passed + spent) + n) % n = (passed + spent) % n
      <4>1. PICK a \in Nat : a = passed + spent
        OBVIOUS
      <4> HIDE DEF n
      <4>2. (a + n) % n = a % n
        BY <1>0, WidthOut
      <4> QED
        BY <4>1, <4>2
    <3> QED
      BY <3>1, <3>2, <2>1, <2>3 DEF TokensConserved
  <2> QED
    BY <2>4, <2>5
<1>2. ASSUME supplied' = supplied,
             mCount' + passed' + spent' = mCount + passed + spent
      PROVE  TokensConserved'
  BY <1>2 DEF TokensConserved
<1>3. ASSUME NEW t \in Threads, Pass(t) PROVE TokensConserved'
  BY <1>2, <1>3 DEF Pass
<1>4. ASSUME NEW t \in Threads, WaitTimesOut(t) PROVE TokensConserved'
  BY <1>2, <1>4 DEF WaitTimesOut
<1> QED
  BY <1>1, <1>2, <1>3, <1>4 DEF SemNext, semVars, Signal, WaitBlocks, WaitWakes

\* While a caller sleeps, every token has a thread coming, after every step.
LEMMA AnnouncedStep ==
  SemTypeOK /\ NoTokenUnannounced /\ [SemNext]_semVars => NoTokenUnannounced'
<1> SUFFICES ASSUME SemTypeOK, NoTokenUnannounced, [SemNext]_semVars, Sleeping' # {}
             PROVE  mCount' <= Cardinality(Coming')
  BY DEF NoTokenUnannounced, Coming
<1> USE SemaphoreAssumption DEF SemTypeOK
<1>0. /\ Sleeping # {} => mCount <= Cardinality(Coming)
      /\ Coming \in SUBSET Threads /\ Cardinality(Coming) \in Nat
      /\ Cardinality(Coming') \in Nat
  <2>1. Coming' \in SUBSET Threads
    BY DEF Coming
  <2> QED
    BY <2>1, ComingIsFinite DEF NoTokenUnannounced, Coming
<1>1. ASSUME NEW t \in Threads, Notify(t) PROVE mCount' <= Cardinality(Coming')
  <2>1. mCount' <= mCount + 1
    BY <1>1, Wraps DEF Notify
  <2>2. Sleeping # {}
    BY <1>1 DEF Notify, Sleeping
  <2>3. Coming' = Coming \cup {t} /\ t \notin Coming
    BY <1>1 DEF Notify, Coming
  <2>4. Cardinality(Coming') = Cardinality(Coming) + 1
    BY <2>3, <1>0, ComingIsFinite
  <2>5. mCount' \in Nat /\ mCount \in Nat
    BY SemTypeStep
  <2> QED
    BY <1>0, <2>1, <2>2, <2>4, <2>5
<1>2. ASSUME NEW t \in Threads, Signal(t) PROVE mCount' <= Cardinality(Coming')
  <2>1. CASE Sleeping = {} /\ scall' = [scall EXCEPT ![t] = "out"]
    BY <1>2, <2>1 DEF Signal, Sleeping
  <2>2. ASSUME NEW w \in Sleeping, scall' = [scall EXCEPT ![t] = "out", ![w] = "woken"]
        PROVE  mCount' <= Cardinality(Coming')
    <3>1. /\ w \in Threads \ Coming /\ t \in Coming /\ w # t
          /\ Coming' = (Coming \cup {w}) \ {t}
      BY <1>2, <2>2 DEF Signal, Sleeping, Coming
    <3>2. Cardinality(Coming \cup {w}) = Cardinality(Coming) + 1
      BY <3>1, <1>0, ComingIsFinite
    <3>3. Cardinality((Coming \cup {w}) \ {t}) = Cardinality(Coming \cup {w}) - 1
      BY <3>1, <1>0, ComingIsFinite
    <3>4. Cardinality(Coming') = Cardinality(Coming)
      BY <3>1, <3>2, <3>3, <1>0
    <3> QED
      BY <1>0, <1>2, <2>2, <3>4 DEF Signal
  <2> QED
    BY <1>2, <2>1, <2>2 DEF Signal
<1>3. ASSUME NEW t \in Threads, scall[t] # "signal", mCount > 0, mCount' = mCount - 1,
             scall' = [scall EXCEPT ![t] = "out"]
      PROVE  mCount' <= Cardinality(Coming')
  <2>1. Sleeping # {}
    BY <1>3 DEF Sleeping
  <2>2. CASE scall[t] # "woken"
    <3>1. Coming' = Coming
      BY <1>3, <2>2 DEF Coming
    <3> QED
      BY <1>0, <1>3, <2>1, <3>1
  <2>3. CASE scall[t] = "woken"
    <3>1. Coming' = Coming \ {t} /\ t \in Coming
      BY <1>3, <2>3 DEF Coming
    <3>2. Cardinality(Coming') = Cardinality(Coming) - 1
      BY <3>1, <1>0, ComingIsFinite
    <3> QED
      BY <1>0, <1>3, <2>1, <3>2
  <2> QED
    BY <2>2, <2>3
<1>4. ASSUME NEW t \in Threads, Pass(t) PROVE mCount' <= Cardinality(Coming')
  BY <1>3, <1>4 DEF Pass
<1>5. ASSUME mCount' = 0 PROVE mCount' <= Cardinality(Coming')
  BY <1>0, <1>5
<1>6. ASSUME NEW t \in Threads, WaitBlocks(t) PROVE mCount' <= Cardinality(Coming')
  BY <1>5, <1>6 DEF WaitBlocks
<1>7. ASSUME NEW t \in Threads, WaitTimesOut(t) PROVE mCount' <= Cardinality(Coming')
  BY <1>3, <1>5, <1>7 DEF WaitTimesOut
<1>8. ASSUME NEW t \in Threads, WaitWakes(t) PROVE mCount' <= Cardinality(Coming')
  <2>1. t \in Sleeping /\ mCount' = mCount
    BY <1>8 DEF WaitWakes, Sleeping
  <2>2. Coming' = Coming \cup {t} /\ t \notin Coming
    BY <1>8 DEF WaitWakes, Coming
  <2>3. Cardinality(Coming') = Cardinality(Coming) + 1
    BY <2>2, <1>0, ComingIsFinite
  <2> QED
    BY <1>0, <2>1, <2>3
<1>9. CASE UNCHANGED semVars
  BY <1>0, <1>9 DEF semVars, Sleeping, Coming
<1> QED
  BY <1>1, <1>2, <1>4, <1>6, <1>7, <1>8, <1>9 DEF SemNext

\* For any number of threads and any width of mCount no token waits for a thread
\* that sleeps, and tokens are conserved up to the width (Semaphore.h:22-53).
THEOREM SemaphoreCorrect == SemSpec => []SemaphoreSafe
<1>1. SemInit => SemaphoreSafe
  <2> SUFFICES ASSUME SemInit PROVE SemaphoreSafe
    OBVIOUS
  <2>1. SemTypeOK
    BY SemaphoreAssumption DEF SemInit, SemTypeOK
  <2>2. NoTokenUnannounced
    BY DEF SemInit, NoTokenUnannounced, Sleeping
  <2>3. mCount + passed + spent = supplied
    BY <2>1 DEF SemInit, SemTypeOK
  <2>4. TokensConserved
    BY <2>3 DEF TokensConserved
  <2> QED
    BY <2>1, <2>2, <2>4 DEF SemaphoreSafe
<1>2. SemaphoreSafe /\ [SemNext]_semVars => SemaphoreSafe'
  BY SemTypeStep, TokensStep, AnnouncedStep DEF SemaphoreSafe
<1> QED
  BY <1>1, <1>2, PTL DEF SemSpec

-----------------------------------------------------------------------------
(* EventLoop.                                                               *)

\* What ModifyTimer has found without the mutex is still there when it gets it.
FoundIsListed == \A u \in Users : modifying[u] # None => modifying[u] \in Listed

LoopInv == LoopTypeOK /\ EntriesHaveCallbacks /\ PassIsUndisturbed /\ FoundIsListed

\* Every step of the loop, its owner and its users keeps the invariant.
LEMMA LoopInvStep == LoopInv /\ [LoopNext]_loopVars => LoopInv'
<1> SUFFICES ASSUME LoopInv, [LoopNext]_loopVars PROVE LoopInv'
  OBVIOUS
<1> USE LoopAssumption
    DEF LoopInv, LoopTypeOK, EntriesHaveCallbacks, PassIsUndisturbed, FoundIsListed, Listed
<1>1. CASE Begin
  BY <1>1 DEF Begin
<1>2. CASE WakeUp
  BY <1>2 DEF WakeUp
<1>3. ASSUME NEW t \in Timers, CallTimer(t) PROVE LoopInv'
  BY <1>3 DEF CallTimer
<1>4. CASE EndPass
  BY <1>4 DEF EndPass
<1>5. ASSUME NEW t \in Timers, Elapse(t) PROVE LoopInv'
  BY <1>5 DEF Elapse
<1>6. ASSUME NEW t \in Timers, AddTimer(t) PROVE LoopInv'
  BY <1>6 DEF AddTimer, Unlocked
<1>7. CASE Start \/ CallStop
  BY <1>7 DEF Start, CallStop
<1>8. CASE ControlStep
  BY <1>8 DEF ControlStep, RequestStop, JoinReturns, Unlocked
<1>9. ASSUME NEW u \in Users, ModifyTimer(u) PROVE LoopInv'
  BY <1>9 DEF ModifyTimer, Unlocked
<1>10. ASSUME NEW u \in Users, NEW t \in Timers, FindTimer(u, t) PROVE LoopInv'
  BY <1>10 DEF FindTimer
<1>11. CASE UNCHANGED loopVars
  BY <1>11 DEF loopVars
<1> QED
  BY <1>1, <1>2, <1>3, <1>4, <1>5, <1>6, <1>7, <1>8, <1>9, <1>10, <1>11
     DEF LoopNext, LoopStep

\* For any number of timers and users every entry has a callback, and the due
\* timers of a pass stay due until they are called (EventLoop.cpp:52-104).
THEOREM LoopCorrect == LoopSpec => []LoopSafe
<1>1. LoopInit => LoopInv
  BY LoopAssumption DEF LoopInit, LoopInv, LoopTypeOK, EntriesHaveCallbacks,
                        PassIsUndisturbed, FoundIsListed, Listed
<1>2. LoopInv => LoopSafe
  BY DEF LoopInv, LoopSafe
<1> QED
  BY <1>1, <1>2, LoopInvStep, PTL DEF LoopSpec

-----------------------------------------------------------------------------
(* TinyMac.                                                                 *)

\* What the sender has written, as far as its own sizes go.
FrameSizes ==
  /\ air.given \in Nat /\ air.body \in 0..TM_MAX_PAYLOAD_SIZE
  /\ air.sealed \in BOOLEAN
  /\ air.sealed => air.body = U8(air.given)
  /\ air.size = 0 \/ (air.size = TM_MAC_SIZE + air.body /\ mWrIndex = air.size)

MacInv == FrameSizes /\ WholeDataVerifies

\* A frame of at most the maximal payload has 13 bytes more than that.
LEMMA BuildEffect ==
  ASSUME NEW size \in 0..TM_MAX_PAYLOAD_SIZE, NEW asked \in Nat, NEW replace \in BOOLEAN,
         replace => size = U8(asked), Build(size, asked, replace)
  PROVE  MacInv'
<1> USE DEF TM_MAX_PAYLOAD_SIZE, TM_MAC_SIZE, TM_MAC_HEADER_SIZE
<1>1. /\ U8(13 + size) = 13 + size /\ U8(9 + size) = 9 + size
      /\ U8((9 + size) + 4) = 13 + size
  BY DEF U8
<1>2. /\ air' = [given |-> asked, body |-> size, sealed |-> replace, size |-> 13 + size]
      /\ mWrIndex' = 13 + size /\ rxSize' = 0
  BY <1>1 DEF Build, GetSize
<1> QED
  BY <1>2 DEF MacInv, FrameSizes, WholeDataVerifies

\* Every step keeps the sizes of the frame and what its receiver makes of it.
LEMMA MacInvStep == MacInv /\ [MacNext]_macVars => MacInv'
<1> SUFFICES ASSUME MacInv, [MacNext]_macVars PROVE MacInv'
  OBVIOUS
<1> USE DEF TM_MAX_PAYLOAD_SIZE, TM_MAC_SIZE, TM_MAC_HEADER_SIZE
<1>1. CASE BuildJoinNetwork
  <2>1. PICK size \in 0..240 : size = 16
    OBVIOUS
  <2>2. PICK replace \in BOOLEAN : ~replace
    OBVIOUS
  <2>3. Build(size, size, replace)
    BY <1>1, <2>1, <2>2 DEF BuildJoinNetwork, Build
  <2>4. size \in Nat /\ (replace => size = U8(size))
    BY <2>1, <2>2
  <2> QED
    BY <2>3, <2>4, BuildEffect
<1>2. ASSUME NEW n \in DataSizes, BuildData(n) PROVE MacInv'
  <2>1. n \in Nat /\ U8(n) \in 0..240
    BY <1>2, MacAssumption DEF BuildData, U8
  <2> QED
    BY <1>2, <2>1, BuildEffect DEF BuildData
<1>3. ASSUME NEW cut \in {0, 1, 4, 13}, Decrypt(air.size - cut) PROVE MacInv'
  <2>1. FrameSizes /\ FrameSizes'
    BY <1>3 DEF Decrypt, MacInv, FrameSizes
  <2>2. /\ rxSize' = air.size - cut /\ rxSize' > 0 /\ air' = air
        /\ rxPayloadSize' = Received(air.size - cut)
        /\ verified' = (air.sealed /\ rxSize' = air.size /\ Received(rxSize') = air.body)
    BY <1>3 DEF Decrypt
  <2>3. air.size \in 0..253
    BY <2>1 DEF FrameSizes
  <2>4. air.size = TM_MAC_SIZE + air.body
    BY <2>1, <2>2 DEF FrameSizes
  <2>5. Received(air.size) = air.body
    BY <2>1, <2>4 DEF Received, U8, FrameSizes
  <2>6. verified' <=> (air.sealed /\ rxSize' = air.size)
    BY <2>2, <2>5
  <2>7. air.given <= 240 => U8(air.given) = air.given
    BY <2>1 DEF U8, FrameSizes
  <2>8. verified' /\ air.given <= 240 => rxPayloadSize' = air.given
    BY <2>1, <2>2, <2>5, <2>6, <2>7 DEF FrameSizes
  <2> QED
    BY <2>1, <2>2, <2>6, <2>8 DEF MacInv, WholeDataVerifies
<1>4. CASE UNCHANGED macVars
  BY <1>4 DEF macVars, MacInv, FrameSizes, WholeDataVerifies
<1> QED
  BY <1>1, <1>2, <1>3, <1>4 DEF MacNext

\* Exactly the whole data frames verify and give their data back, for data of any
\* size (TinyMac.cpp:15-111).
THEOREM MacCorrect == MacSpec => []MacVerifies
<1>1. MacInit => MacInv
  BY DEF MacInit, MacInv, FrameSizes, WholeDataVerifies, TM_MAX_PAYLOAD_SIZE
<1>2. MacInv => MacVerifies
  BY DEF MacInv, MacVerifies, FrameSizes, MicEndsFrame, TM_MAX_PAYLOAD_SIZE,
         TM_MAC_SIZE, TM_MAC_HEADER_SIZE
<1> QED
  BY <1>1, <1>2, MacInvStep, PTL DEF MacSpec

-----------------------------------------------------------------------------
(* Log.                                                                     *)

Entries == Loggers \X Nat

LogTypes ==
  /\ mList \in Seq(Observers)
  /\ step \in [Loggers -> {"out", "notify", "notified", "save"}]
  /\ event \in [Loggers -> {"Error", "Info"}]
  /\ it \in [Loggers -> Nat \ {0}] /\ number \in Nat
  /\ entry \in [Loggers -> Entries]
  /\ heard \in [Observers -> Seq(Entries)]
  /\ expected \subseteq Observers \X Entries
  /\ fileSize \in Nat

\* mMutex: one thread at a time is in Notify, and the others start at the
\* first listener.
OneNotifies ==
  /\ \A t, u \in Loggers : step[t] = "notify" /\ step[u] = "notify" => t = u
  /\ \A t \in Loggers : step[t] # "notify" => it[t] = 1

\* Entries are numbered in the order in which they come.
Numbered ==
  /\ \A t \in Loggers : step[t] = "notify" => entry[t][2] = number
  /\ \A p \in expected : p[2][2] <= number
  /\ \A p, q \in expected : p[2][2] = q[2][2] => p[2] = q[2]

\* The thread in Notify has reached the listeners before its iterator, and the
\* list is the one its entry was meant for.
NotifyGoesOn ==
  \A t \in Loggers : step[t] = "notify" =>
    /\ \A i \in 1..Len(mList) : Hears(mList[i], event[t]) =>
         /\ <<mList[i], entry[t]>> \in expected
         /\ i < it[t] => entry[t] \in HeardBy(mList[i])
    /\ \A p \in expected : p[2] = entry[t] =>
         \E i \in 1..Len(mList) : mList[i] = p[1] /\ Hears(mList[i], event[t])

\* A listener hears entries in the order of their numbers.
HeardInOrder ==
  \A o \in Observers : \A i, j \in 1..Len(heard[o]) :
    i <= j => heard[o][i][2] <= heard[o][j][2]

LogInv == /\ LogTypes /\ OneNotifies /\ Numbered /\ NotifyGoesOn
          /\ ReachesListeners /\ HeardInOrder /\ FileIsLimited

\* The list changes while nobody is in Notify.
LEMMA ListChange ==
  ASSUME LogInv, LogUnlocked, mList' \in Seq(Observers),
         UNCHANGED <<threadVars, fileSize, heard, expected>>
  PROVE  LogInv'
<1>1. /\ LogTypes /\ OneNotifies /\ Numbered /\ ReachesListeners /\ HeardInOrder
      /\ FileIsLimited
  BY DEF LogInv
<1>2. UNCHANGED <<step, event, it, number, entry>>
  BY DEF threadVars
<1>3. LogTypes' /\ OneNotifies' /\ Numbered'
  BY <1>1, <1>2 DEF LogTypes, OneNotifies, Numbered
<1>4. NotifyGoesOn'
  BY <1>2 DEF NotifyGoesOn, LogUnlocked
<1>5. ReachesListeners' /\ HeardInOrder' /\ FileIsLimited'
  BY <1>1, <1>2 DEF ReachesListeners, HeardBy, HeardInOrder, FileIsLimited
<1> QED
  BY <1>3, <1>4, <1>5 DEF LogInv

\* A step of a thread outside Notify that stays outside.
LEMMA OutsideNotify ==
  ASSUME LogInv, NEW t \in Loggers, step[t] # "notify",
         NEW s \in {"out", "save"}, step' = [step EXCEPT ![t] = s],
         fileSize' \in Nat, FileIsLimited',
         UNCHANGED <<mList, event, it, number, entry, heard, expected>>
  PROVE  LogInv'
<1>1. /\ LogTypes /\ OneNotifies /\ Numbered /\ NotifyGoesOn /\ ReachesListeners
      /\ HeardInOrder
  BY DEF LogInv
<1>2. \A u \in Loggers : step'[u] = "notify" <=> step[u] = "notify"
  BY <1>1 DEF LogTypes
<1>3. LogTypes'
  BY <1>1 DEF LogTypes
<1>4. OneNotifies' /\ Numbered'
  BY <1>1, <1>2 DEF OneNotifies, Numbered
<1>5. NotifyGoesOn'
  BY <1>1, <1>2 DEF NotifyGoesOn, HeardBy
<1>6. ReachesListeners' /\ HeardInOrder' /\ FileIsLimited'
  BY <1>1, <1>2 DEF ReachesListeners, HeardBy, HeardInOrder, FileIsLimited
<1> QED
  BY <1>3, <1>4, <1>5, <1>6 DEF LogInv

\* An entry comes: it has the next number, and nobody else is in Notify.
LEMMA AddEntryKeeps ==
  ASSUME LogInv, NEW t \in Loggers, NEW e \in {"Error", "Info"}, AddEntry(t, e)
  PROVE  LogInv'
<1>0. /\ LogTypes /\ OneNotifies /\ Numbered /\ ReachesListeners /\ HeardInOrder
      /\ FileIsLimited
  BY DEF LogInv
<1>1. PICK new : new = <<t, number + 1>>
  OBVIOUS
<1>2. /\ step[t] = "out" /\ LogUnlocked
      /\ step' = [step EXCEPT ![t] = "notify"] /\ event' = [event EXCEPT ![t] = e]
      /\ number' = number + 1 /\ entry' = [entry EXCEPT ![t] = new]
      /\ UNCHANGED <<mList, it, fileSize, heard>>
  BY <1>1 DEF AddEntry
<1>3. new \in Entries /\ new[2] = number + 1 /\ number \in Nat
  BY <1>0, <1>1 DEF Entries, LogTypes
<1>4. LogTypes'
  <2>1. entry'[t] = new
    BY <1>0, <1>2 DEF LogTypes
  <2>2. expected' = expected \cup {<<o, new>> : o \in {p \in Listening : Hears(p, e)}}
    BY <2>1 DEF AddEntry
  <2>3. Listening \subseteq Observers
    BY <1>0 DEF Listening, LogTypes
  <2>4. expected' \subseteq Observers \X Entries
    BY <1>0, <1>3, <2>2, <2>3 DEF LogTypes
  <2> QED
    BY <1>0, <1>2, <1>3, <2>4 DEF LogTypes
<1>5. /\ entry'[t] = new /\ event'[t] = e /\ step'[t] = "notify"
      /\ \A u \in Loggers \ {t} : step'[u] = step[u] /\ step[u] # "notify"
      /\ it[t] = 1
  BY <1>0, <1>2 DEF LogTypes, OneNotifies, LogUnlocked
<1>6. expected' = expected \cup {<<o, new>> : o \in {p \in Listening : Hears(p, e)}}
  BY <1>5 DEF AddEntry
<1>7. OneNotifies'
  BY <1>0, <1>2, <1>5 DEF OneNotifies
<1>8. ASSUME NEW p \in expected'
      PROVE  \/ p \in expected /\ p[2][2] <= number /\ p[2][2] \in Nat /\ p[2] # new
             \/ /\ p[2] = new /\ \E i \in 1..Len(mList) : mList[i] = p[1] /\ Hears(mList[i], e)
  <2>1. CASE p \in expected
    <3>1. p[2] \in Entries /\ p[2][2] <= number
      BY <1>0, <2>1 DEF LogTypes, Numbered
    <3>2. p[2][2] \in Nat
      BY <3>1 DEF Entries
    <3>3. p[2][2] # new[2]
      BY <1>3, <3>1, <3>2
    <3> QED
      BY <2>1, <3>1, <3>2, <3>3
  <2>2. CASE p \in {<<o, new>> : o \in {q \in Listening : Hears(q, e)}}
    <3>1. PICK o \in Listening : Hears(o, e) /\ p = <<o, new>>
      BY <2>2
    <3> QED
      BY <3>1 DEF Listening
  <2> QED
    BY <1>6, <2>1, <2>2
<1>9. Numbered'
  <2>1. \A u \in Loggers : step'[u] = "notify" => entry'[u][2] = number'
    BY <1>2, <1>3, <1>5
  <2>2. ASSUME NEW p \in expected' PROVE p[2][2] <= number'
    BY <1>2, <1>3, <1>8
  <2>3. ASSUME NEW p \in expected', NEW q \in expected', p[2][2] = q[2][2]
        PROVE  p[2] = q[2]
    <3>1. CASE p[2] = new /\ q[2] = new
      BY <3>1
    <3>2. CASE p[2] # new /\ q[2] # new
      <4>1. p \in expected /\ q \in expected
        BY <1>8, <3>2
      <4> QED
        BY <1>0, <2>3, <4>1 DEF Numbered
    <3>3. CASE p[2] = new /\ q[2] # new
      <4>1. q[2][2] <= number /\ q[2][2] \in Nat
        BY <1>8, <3>3
      <4> QED
        BY <1>3, <2>3, <3>3, <4>1
    <3>4. CASE p[2] # new /\ q[2] = new
      <4>1. p[2][2] <= number /\ p[2][2] \in Nat
        BY <1>8, <3>4
      <4> QED
        BY <1>3, <2>3, <3>4, <4>1
    <3> QED
      BY <3>1, <3>2, <3>3, <3>4
  <2> QED
    BY <2>1, <2>2, <2>3 DEF Numbered
<1>10. NotifyGoesOn'
  <2> SUFFICES ASSUME NEW u \in Loggers, step'[u] = "notify"
               PROVE  /\ \A i \in 1..Len(mList) : Hears(mList[i], event'[u]) =>
                           /\ <<mList[i], entry'[u]>> \in expected'
                           /\ i < it[u] => entry'[u] \in HeardBy(mList[i])'
                      /\ \A p \in expected' : p[2] = entry'[u] =>
                           \E i \in 1..Len(mList) : mList[i] = p[1] /\ Hears(mList[i], event'[u])
    BY <1>2 DEF NotifyGoesOn
  <2>1. u = t /\ event'[u] = e /\ entry'[u] = new /\ it[u] = 1
    BY <1>5
  <2>2. \A i \in 1..Len(mList) : ~(i < 1)
    OBVIOUS
  <2>3. \A i \in 1..Len(mList) : Hears(mList[i], e) => <<mList[i], new>> \in expected'
    BY <1>6 DEF Listening
  <2> QED
    BY <1>8, <2>1, <2>2, <2>3
<1>11. ReachesListeners'
  <2>1. \A o \in Observers : HeardBy(o)' = HeardBy(o)
    BY <1>2 DEF HeardBy
  <2>2. ASSUME NEW o \in Observers, NEW p \in expected', p[1] = o
        PROVE  p[2] \in HeardBy(o) \/ (step'[t] = "notify" /\ entry'[t] = p[2])
    BY <1>0, <1>2, <1>5, <1>8, <2>2 DEF ReachesListeners, LogUnlocked
  <2> QED
    BY <1>0, <1>6, <2>1, <2>2 DEF ReachesListeners
<1>12. HeardInOrder' /\ FileIsLimited'
  BY <1>0, <1>2 DEF HeardInOrder, FileIsLimited
<1> QED
  BY <1>4, <1>7, <1>9, <1>10, <1>11, <1>12 DEF LogInv

\* A listener is called.
LEMMA NotifyListenerKeeps ==
  ASSUME LogInv, NEW t \in Loggers, NotifyListener(t)
  PROVE  LogInv'
<1>0. /\ LogTypes /\ OneNotifies /\ Numbered /\ NotifyGoesOn /\ ReachesListeners
      /\ HeardInOrder /\ FileIsLimited
  BY DEF LogInv
<1>1. /\ step[t] = "notify" /\ it[t] <= Len(mList)
      /\ it' = [it EXCEPT ![t] = @ + 1]
      /\ UNCHANGED <<mList, step, event, number, entry, fileSize, expected>>
  BY DEF NotifyListener
<1>2. /\ it' \in [Loggers -> Nat \ {0}] /\ it[t] \in Nat \ {0} /\ it'[t] = it[t] + 1
      /\ \A u \in Loggers \ {t} : it'[u] = it[u]
  BY <1>0, <1>1 DEF LogTypes
<1>3. /\ OneNotifies' /\ Numbered' /\ FileIsLimited'
  BY <1>0, <1>1, <1>2 DEF OneNotifies, Numbered, FileIsLimited
<1>4. PICK at, o, e : at = it[t] /\ o = mList[at] /\ e = entry[t]
  OBVIOUS
<1>7. at \in 1..Len(mList) /\ o \in Observers
  BY <1>0, <1>1, <1>2, <1>4 DEF LogTypes
<1>5. e \in Entries /\ e[2] = number /\ e[2] \in Nat
  BY <1>0, <1>1, <1>4 DEF LogTypes, Numbered, Entries
<1>6. ASSUME heard' \in [Observers -> Seq(Entries)],
             \A p \in Observers : HeardBy(p) \subseteq HeardBy(p)',
             \A p \in Observers : \A x \in HeardBy(p)' :
               x \in HeardBy(p) \/ (p = o /\ x = e /\ Hears(o, event[t])),
             Hears(o, event[t]) => e \in HeardBy(o)',
             HeardInOrder'
      PROVE  LogInv'
  <2>1. LogTypes'
    BY <1>0, <1>1, <1>2, <1>6 DEF LogTypes
  <2>2. NotifyGoesOn'
    <3> SUFFICES ASSUME NEW u \in Loggers, step[u] = "notify"
                 PROVE  \A i \in 1..Len(mList) : Hears(mList[i], event[u]) =>
                          (i < it'[u] => entry[u] \in HeardBy(mList[i])')
      BY <1>0, <1>1 DEF NotifyGoesOn
    <3>1. u = t
      BY <1>0, <1>1 DEF OneNotifies
    <3>2. ASSUME NEW i \in 1..Len(mList), Hears(mList[i], event[u]), i < it'[u]
          PROVE  entry[u] \in HeardBy(mList[i])'
      <4>0. PICK q : q = mList[i]
        OBVIOUS
      <4>3. SUFFICES entry[u] \in HeardBy(q)'
        <5>1. mList'[i] = q
          BY <1>1, <4>0
        <5> QED
          BY <5>1 DEF HeardBy
      <4>1. CASE i = at
        BY <1>4, <1>6, <3>1, <3>2, <4>0, <4>1
      <4>2. CASE i # at
        <5>1. i < it[t]
          BY <1>2, <1>4, <3>1, <3>2, <4>2
        <5>2. entry[t] \in HeardBy(q)
          <6>1. entry[t] \in HeardBy(mList[i])
            BY <1>0, <1>1, <3>1, <3>2, <5>1 DEF NotifyGoesOn
          <6> QED
            BY <4>0, <6>1
        <5>3. q \in Observers
          BY <1>0, <4>0 DEF LogTypes
        <5> QED
          BY <1>6, <3>1, <5>2, <5>3
      <4> QED
        BY <4>1, <4>2
    <3> QED
      BY <3>2
  <2>3. ReachesListeners'
    <3>1. ASSUME NEW p \in Observers, NEW x \in HeardBy(p)' PROVE <<p, x>> \in expected
      <4>1. CASE x \in HeardBy(p)
        BY <1>0, <4>1 DEF ReachesListeners
      <4>2. CASE p = o /\ x = e /\ Hears(o, event[t])
        BY <1>0, <1>1, <1>4, <1>7, <4>2 DEF NotifyGoesOn
      <4> QED
        BY <1>6, <4>1, <4>2
    <3>2. ASSUME NEW p \in Observers, NEW pair \in expected, pair[1] = p
          PROVE  \/ pair[2] \in HeardBy(p)'
                 \/ \E u \in Loggers : step[u] = "notify" /\ entry[u] = pair[2]
      BY <1>0, <1>6, <3>2 DEF ReachesListeners
    <3> QED
      BY <1>1, <3>1, <3>2 DEF ReachesListeners
  <2> QED
    BY <1>3, <1>6, <2>1, <2>2, <2>3 DEF LogInv
<1>8. CASE heard' = heard /\ ~Hears(o, event[t])
  <2>1. \A p \in Observers : HeardBy(p)' = HeardBy(p)
    BY <1>8 DEF HeardBy
  <2>2. HeardInOrder'
    BY <1>0, <1>8 DEF HeardInOrder
  <2> QED
    BY <1>0, <1>6, <1>8, <2>1, <2>2 DEF LogTypes
<1>9. CASE Hears(o, event[t]) /\ heard' = [heard EXCEPT ![o] = Append(@, e)]
  <2>1. PICK s : s = heard[o]
    OBVIOUS
  <2>2. s \in Seq(Entries) /\ Len(s) \in Nat
    BY <1>0, <1>7, <2>1 DEF LogTypes
  <2>3. /\ heard'[o] = Append(s, e) /\ heard' \in [Observers -> Seq(Entries)]
        /\ \A p \in Observers \ {o} : heard'[p] = heard[p]
    BY <1>0, <1>5, <1>9, <1>7, <2>1, <2>2 DEF LogTypes
  <2>4. /\ Len(heard'[o]) = Len(s) + 1 /\ heard'[o][Len(s) + 1] = e
        /\ \A i \in 1..Len(s) : heard'[o][i] = s[i]
    BY <1>5, <2>2, <2>3
  <2>5. \A p \in Observers \ {o} : HeardBy(p)' = HeardBy(p)
    BY <2>3 DEF HeardBy
  <2>6. \A x : x \in HeardBy(o)' <=> x \in HeardBy(o) \/ x = e
    <3>1. \A i : i \in 1..(Len(s) + 1) <=> i \in 1..Len(s) \/ i = Len(s) + 1
      BY <2>2
    <3> QED
      BY <2>1, <2>4, <3>1 DEF HeardBy
  <2>7. \A i \in 1..Len(s) : s[i][2] \in Nat /\ s[i][2] <= number
    <3> SUFFICES ASSUME NEW i \in 1..Len(s) PROVE s[i][2] \in Nat /\ s[i][2] <= number
      OBVIOUS
    <3>1. s[i] \in Entries
      BY <2>2
    <3>2. <<o, s[i]>> \in expected
      BY <1>0, <1>7, <2>1 DEF ReachesListeners, HeardBy
    <3>3. s[i][2] <= number
      BY <1>0, <3>2 DEF Numbered
    <3> QED
      BY <3>1, <3>3 DEF Entries
  <2>8. HeardInOrder'
    <3> SUFFICES ASSUME NEW p \in Observers, NEW i \in 1..Len(heard'[p]),
                        NEW j \in 1..Len(heard'[p]), i <= j
                 PROVE  heard'[p][i][2] <= heard'[p][j][2]
      BY DEF HeardInOrder
    <3>1. CASE p # o
      BY <1>0, <2>3, <3>1 DEF HeardInOrder
    <3>2. CASE p = o /\ j \in 1..Len(s)
      <4>1. i \in 1..Len(s)
        BY <2>2, <3>2
      <4> QED
        BY <1>0, <1>7, <2>1, <2>4, <3>2, <4>1 DEF HeardInOrder
    <3>3. CASE p = o /\ j = Len(s) + 1 /\ i \in 1..Len(s)
      BY <1>5, <2>4, <2>7, <3>3
    <3>4. CASE p = o /\ j = Len(s) + 1 /\ i = Len(s) + 1
      BY <1>5, <2>4, <3>4
    <3> QED
      BY <2>2, <2>4, <3>1, <3>2, <3>3, <3>4
  <2> QED
    BY <1>6, <1>9, <1>7, <2>3, <2>5, <2>6, <2>8
<1> QED
  BY <1>4, <1>8, <1>9 DEF NotifyListener

\* Nothing the invariant speaks of changes.
LEMMA LogStays ==
  ASSUME LogInv, UNCHANGED <<mList, threadVars, fileSize, heard, expected>>
  PROVE  LogInv'
<1>1. UNCHANGED <<step, event, it, number, entry>>
  BY DEF threadVars
<1>2. LogTypes' /\ OneNotifies' /\ Numbered'
  BY <1>1 DEF LogInv, LogTypes, OneNotifies, Numbered
<1>3. NotifyGoesOn'
  BY <1>1 DEF LogInv, NotifyGoesOn, HeardBy
<1>4. ReachesListeners' /\ HeardInOrder' /\ FileIsLimited'
  BY <1>1 DEF LogInv, ReachesListeners, HeardBy, HeardInOrder, FileIsLimited
<1> QED
  BY <1>2, <1>3, <1>4 DEF LogInv

\* Notify has reached every listener: the entry needs no excuse any more.
LEMMA NotifyEndsKeeps ==
  ASSUME LogInv, NEW t \in Loggers, NotifyEnds(t)
  PROVE  LogInv'
<1>0. /\ LogTypes /\ OneNotifies /\ Numbered /\ NotifyGoesOn /\ ReachesListeners
      /\ HeardInOrder /\ FileIsLimited
  BY DEF LogInv
<1>1. /\ step[t] = "notify" /\ it[t] > Len(mList)
      /\ step' = [step EXCEPT ![t] = "notified"] /\ it' = [it EXCEPT ![t] = 1]
      /\ event' = [event EXCEPT ![t] = "Error"]
      /\ UNCHANGED <<mList, number, entry, fileSize, heard, expected>>
  BY DEF NotifyEnds
<1>2. \A u \in Loggers : step'[u] # "notify" /\ it'[u] = 1
  BY <1>0, <1>1 DEF LogTypes, OneNotifies
<1>3. LogTypes'
  BY <1>0, <1>1 DEF LogTypes
<1>4. OneNotifies' /\ Numbered' /\ NotifyGoesOn' /\ HeardInOrder' /\ FileIsLimited'
  BY <1>0, <1>1, <1>2 DEF OneNotifies, Numbered, NotifyGoesOn, HeardInOrder, FileIsLimited
<1>5. ReachesListeners'
  <2>1. \A o \in Observers : HeardBy(o)' = HeardBy(o)
    BY <1>1 DEF HeardBy
  <2>2. ASSUME NEW o \in Observers, NEW pair \in expected, pair[1] = o
        PROVE  pair[2] \in HeardBy(o)
    <3>1. CASE pair[2] = entry[t]
      <4>1. PICK i \in 1..Len(mList) : mList[i] = o /\ Hears(mList[i], event[t])
        BY <1>0, <1>1, <2>2, <3>1 DEF NotifyGoesOn
      <4>2. i < it[t]
        BY <1>0, <1>1 DEF LogTypes
      <4>3. entry[t] \in HeardBy(mList[i])
        BY <1>0, <1>1, <4>1, <4>2 DEF NotifyGoesOn
      <4> QED
        BY <3>1, <4>1, <4>3
    <3>2. CASE pair[2] # entry[t]
      BY <1>0, <1>1, <2>2, <3>2 DEF ReachesListeners, OneNotifies
    <3> QED
      BY <3>1, <3>2
  <2> QED
    BY <1>0, <1>1, <2>1, <2>2 DEF ReachesListeners
<1> QED
  BY <1>3, <1>4, <1>5 DEF LogInv

\* What a listener hears is in the order of the numbers, and a number stands
\* for one entry: two listeners cannot disagree.
LEMMA OrderAgrees ==
  ASSUME LogInv
  PROVE  ListenersAgree
<1>0. LogTypes /\ Numbered /\ ReachesListeners /\ HeardInOrder
  BY DEF LogInv
<1> SUFFICES ASSUME NEW o \in Observers, NEW p \in Observers,
                    NEW i \in 1..Len(heard[o]), NEW j \in 1..Len(heard[o]),
                    NEW k \in 1..Len(heard[p]), NEW l \in 1..Len(heard[p]),
                    heard[o][i] = heard[p][k], heard[o][j] = heard[p][l],
                    i < j, l <= k
             PROVE  heard[o][i] = heard[o][j]
  BY DEF ListenersAgree
<1>1. PICK x, y : x = heard[o][i] /\ y = heard[o][j]
  OBVIOUS
<1>2. x[2] <= y[2]
  <2>1. Len(heard[o]) \in Nat
    BY <1>0 DEF LogTypes
  <2>2. i <= j
    BY <2>1
  <2> QED
    BY <1>0, <1>1, <2>2 DEF HeardInOrder
<1>3. y[2] <= x[2]
  BY <1>0, <1>1 DEF HeardInOrder
<1>4. <<o, x>> \in expected /\ <<o, y>> \in expected
  BY <1>0, <1>1 DEF ReachesListeners, HeardBy
<1>5. x[2] \in Nat /\ y[2] \in Nat
  <2>1. x \in Entries /\ y \in Entries
    BY <1>0, <1>4 DEF LogTypes
  <2> QED
    BY <2>1 DEF Entries
<1>6. x[2] = y[2]
  BY <1>2, <1>3, <1>5
<1>7. \A q, r \in expected : q[2][2] = r[2][2] => q[2] = r[2]
  BY <1>0 DEF Numbered
<1>8. x = y
  BY <1>4, <1>6, <1>7
<1> QED
  BY <1>1, <1>8

LEMMA LogInitially == LogInit => LogInv
<1> SUFFICES ASSUME LogInit PROVE LogInv
  OBVIOUS
<1>1. /\ mList = <<>> /\ step = [t \in Loggers |-> "out"]
      /\ event = [t \in Loggers |-> "Error"] /\ it = [t \in Loggers |-> 1] /\ number = 0
      /\ entry = [t \in Loggers |-> <<t, 0>>] /\ fileSize = 0
      /\ heard = [o \in Observers |-> <<>>] /\ expected = {}
  BY DEF LogInit
<1>2. LogTypes
  BY <1>1 DEF LogTypes, Entries
<1>3. OneNotifies /\ Numbered /\ NotifyGoesOn
  BY <1>1 DEF OneNotifies, Numbered, NotifyGoesOn
<1>4. ReachesListeners
  BY <1>1 DEF ReachesListeners, HeardBy
<1>5. HeardInOrder
  BY <1>1 DEF HeardInOrder
<1>6. FileIsLimited
  <2>1. PICK n \in LineSizes : n \in Nat \ {0}
    BY LogAssumption
  <2>2. 0 < SizeLimit + n
    BY <2>1, LogAssumption
  <2> QED
    BY <1>1, <2>1, <2>2 DEF FileIsLimited
<1> QED
  BY <1>2, <1>3, <1>4, <1>5, <1>6 DEF LogInv

\* std::list::remove leaves a list of the others.
LEMMA RemoveShortens ==
  ASSUME mList \in Seq(Observers), NEW o, Remove(o)
  PROVE  mList' \in Seq(Observers)
<1>1. PICK n \in 0..Len(mList) : \E pos \in [1..n -> 1..Len(mList)] :
        mList' = [i \in 1..n |-> mList[pos[i]]]
  BY DEF Remove
<1>2. PICK pos \in [1..n -> 1..Len(mList)] : mList' = [i \in 1..n |-> mList[pos[i]]]
  BY <1>1
<1>3. n \in Nat /\ \A i \in 1..n : mList[pos[i]] \in Observers
  OBVIOUS
<1> QED
  BY <1>2, <1>3

\* Whatever threads add, register and remove, an entry reaches exactly the
\* listeners it was meant for, two listeners agree on the order, and the file
\* gets no line once it has reached the limit (Log.cpp:57-160, Observer.h:41-55).
THEOREM LogIsDelivered == LogSpec => []LogDelivered
<1>1. LogInit => LogInv
  BY LogInitially
<1>2. LogInv /\ [LogNext]_logVars => LogInv'
  <2> SUFFICES ASSUME LogInv, [LogNext]_logVars PROVE LogInv'
    OBVIOUS
  <2>0. LogTypes /\ FileIsLimited
    BY DEF LogInv
  <2>1. ASSUME NEW o \in Observers, RegisterListener(o) PROVE LogInv'
    <3>1. mList' \in Seq(Observers)
      BY <2>0, <2>1 DEF RegisterListener, LogTypes
    <3> QED
      BY <2>1, <3>1, ListChange DEF RegisterListener
  <2>2. ASSUME NEW o \in Observers, RemoveListener(o) PROVE LogInv'
    <3>1. mList' \in Seq(Observers)
      BY <2>0, <2>2, RemoveShortens DEF RemoveListener, LogTypes
    <3> QED
      BY <2>2, <3>1, ListChange DEF RemoveListener
  <2>3. CASE ClearLog
    BY <2>3, ListChange DEF ClearLog
  <2>4. ASSUME NEW t \in Loggers, NEW e \in {"Error", "Info"}, AddEntry(t, e) PROVE LogInv'
    BY <2>4, AddEntryKeeps
  <2>5. ASSUME NEW t \in Loggers, NotifyListener(t) PROVE LogInv'
    BY <2>5, NotifyListenerKeeps
  <2>6. ASSUME NEW t \in Loggers, NotifyEnds(t) PROVE LogInv'
    BY <2>6, NotifyEndsKeeps
  <2>7. ASSUME NEW t \in Loggers, TestOutput(t) PROVE LogInv'
    <3>1. PICK s \in {"out", "save"} : step' = [step EXCEPT ![t] = s]
      BY <2>7 DEF TestOutput
    <3>2. fileSize' \in Nat /\ FileIsLimited'
      BY <2>0, <2>7 DEF TestOutput, LogTypes, FileIsLimited
    <3> QED
      BY <2>7, <3>1, <3>2, OutsideNotify DEF TestOutput
  <2>8. ASSUME NEW t \in Loggers, NEW n \in LineSizes, NEW opens \in BOOLEAN, Save(t, n, opens)
        PROVE  LogInv'
    <3>1. step[t] # "notify" /\ step' = [step EXCEPT ![t] = "out"]
      BY <2>8 DEF Save
    <3>2. fileSize' \in Nat /\ FileIsLimited'
      <4>0. fileSize \in Nat /\ n \in Nat /\ SizeLimit \in Nat
        BY <2>0, LogAssumption DEF LogTypes
      <4>1. CASE fileSize' = fileSize
        BY <2>0, <4>0, <4>1 DEF FileIsLimited
      <4>2. CASE fileSize < SizeLimit /\ fileSize' = fileSize + n
        <5>1. fileSize' \in Nat /\ fileSize' < SizeLimit + n
          BY <4>0, <4>2
        <5> QED
          BY <5>1 DEF FileIsLimited
      <4> QED
        BY <2>8, <4>1, <4>2 DEF Save
    <3> QED
      BY <2>8, <3>1, <3>2, OutsideNotify DEF Save
  <2>9. ASSUME NEW enable \in BOOLEAN, EnableLog(enable) PROVE LogInv'
    <3>1. UNCHANGED <<mList, threadVars, fileSize, heard, expected>>
      BY <2>9 DEF EnableLog
    <3> QED
      BY <3>1, LogStays
  <2>10. CASE UNCHANGED logVars
    <3>1. UNCHANGED <<mList, threadVars, fileSize, heard, expected>>
      BY <2>10 DEF logVars, threadVars
    <3> QED
      BY <3>1, LogStays
  <2> QED
    BY <2>1, <2>2, <2>3, <2>4, <2>5, <2>6, <2>7, <2>8, <2>9, <2>10 DEF LogNext
<1>3. LogInv => LogDelivered
  BY OrderAgrees DEF LogInv, LogDelivered
<1> QED
  BY <1>1, <1>2, <1>3, PTL DEF LogSpec

-----------------------------------------------------------------------------
(* UniqueId.                                                                *)


\* What erasing the i-th element leaves: the others, each at a known place.
LEMMA EraseType ==
  ASSUME NEW S, NEW s \in Seq(S), NEW i \in 1..Len(s)
  PROVE  /\ Erase(s, i) \in Seq(S)
         /\ Len(Erase(s, i)) = Len(s) - 1
         /\ \A j \in 1..(Len(s) - 1) :
              Erase(s, i)[j] = IF j < i THEN s[j] ELSE s[j + 1]
BY DEF Erase

\* The types are those of TypeOK.
LEMMA TypeStep == TypeOK /\ [Next]_vars => TypeOK'
<1> SUFFICES ASSUME TypeOK, [Next]_vars PROVE TypeOK'
  OBVIOUS
<1> USE DEF TypeOK
<1>1. CASE UNCHANGED vars
  BY <1>1 DEF vars
<1>2. CASE TakeId
  BY <1>2 DEF TakeId
<1>3. ASSUME NEW id \in UInt, AddId(id) PROVE TypeOK'
  BY <1>3 DEF AddId
<1>4. ASSUME NEW id \in UInt, ReleaseId(id) PROVE TypeOK'
  <2>1. PICK i \in 1..Len(mUsedIds) : mUsedIds' = Erase(mUsedIds, i)
    BY <1>4 DEF ReleaseId
  <2>2. mUsedIds' \in Seq(UInt)
    BY <2>1, EraseType
  <2> QED
    BY <1>4, <2>2 DEF ReleaseId
<1>5. CASE Clear
  BY <1>5 DEF Clear
<1> QED
  BY <1>1, <1>2, <1>3, <1>4, <1>5 DEF Next

\* What the constructor makes of any two integers.
LEMMA ConstructorType == Init => TypeOK
<1> SUFFICES ASSUME Init PROVE TypeOK
  OBVIOUS
<1>1. PICK min \in UInt, max \in UInt :
        mMin = CorrectedMin(min) /\ mMax = CorrectedMax(min, max)
  BY DEF Init
<1>2. mMin \in UInt \ {0}
  BY <1>1, IdAssumption DEF CorrectedMin, UInt
<1>3. (mMin + 1) % (Max + 1) \in UInt
  BY <1>2, IdAssumption DEF UInt
<1>4. mMax \in UInt
  BY <1>1, <1>3 DEF CorrectedMin, CorrectedMax
<1> QED
  BY <1>2, <1>4 DEF Init, TypeOK

-----------------------------------------------------------------------------

\* Appending an identifier that is not taken.
LEMMA AppendFresh ==
  ASSUME TypeOK, NoDuplicates, NEW id \in UInt, ~IsTaken(id),
         mUsedIds' = Append(mUsedIds, id)
  PROVE  /\ NoDuplicates'
         /\ \A x \in UInt : IsTaken(x)' <=> (IsTaken(x) \/ x = id)
<1>1. /\ Len(mUsedIds') = Len(mUsedIds) + 1 /\ Len(mUsedIds) \in Nat
      /\ \A i \in 1..Len(mUsedIds) : mUsedIds'[i] = mUsedIds[i]
      /\ mUsedIds'[Len(mUsedIds) + 1] = id
  BY DEF TypeOK
<1>2. \A i \in 1..Len(mUsedIds) : mUsedIds[i] # id
  BY DEF IsTaken
<1>3. NoDuplicates'
  BY <1>1, <1>2 DEF NoDuplicates
<1>4. \A x \in UInt : IsTaken(x)' <=> (IsTaken(x) \/ x = id)
  BY <1>1 DEF IsTaken
<1> QED
  BY <1>3, <1>4

\* Erasing one occurrence of an identifier erases it.
LEMMA EraseFrees ==
  ASSUME TypeOK, NoDuplicates, NEW k \in 1..Len(mUsedIds),
         mUsedIds' = Erase(mUsedIds, k)
  PROVE  /\ NoDuplicates'
         /\ \A x \in UInt : IsTaken(x)' <=> (IsTaken(x) /\ x # mUsedIds[k])
<1> DEFINE n == Len(mUsedIds)
<1>1. /\ n \in Nat /\ Len(mUsedIds') = n - 1
      /\ \A j \in 1..(n - 1) :
           mUsedIds'[j] = IF j < k THEN mUsedIds[j] ELSE mUsedIds[j + 1]
  BY EraseType DEF TypeOK
<1>2. NoDuplicates'
  <2> SUFFICES ASSUME NEW i \in 1..(n - 1), NEW j \in 1..(n - 1),
                      mUsedIds'[i] = mUsedIds'[j]
               PROVE  i = j
    BY <1>1 DEF NoDuplicates
  <2> DEFINE from(l) == IF l < k THEN l ELSE l + 1
  <2>1. /\ from(i) \in 1..n /\ mUsedIds'[i] = mUsedIds[from(i)]
        /\ from(j) \in 1..n /\ mUsedIds'[j] = mUsedIds[from(j)]
    BY <1>1
  <2>2. from(i) = from(j)
    <3> HIDE DEF from
    <3> QED
      BY <2>1 DEF NoDuplicates
  <2> QED
    BY <2>2, <1>1
<1>3. ASSUME NEW x \in UInt, IsTaken(x)'
      PROVE  IsTaken(x) /\ x # mUsedIds[k]
  <2>1. PICK j \in 1..(n - 1) : mUsedIds'[j] = x
    BY <1>1, <1>3 DEF IsTaken
  <2>2. PICK i \in 1..n : i # k /\ mUsedIds[i] = x
    <3>1. CASE j < k
      BY <3>1, <2>1, <1>1
    <3>2. CASE ~(j < k)
      <4>1. j + 1 \in 1..n /\ j + 1 # k /\ mUsedIds[j + 1] = x
        BY <3>2, <2>1, <1>1
      <4> QED
        BY <4>1
    <3> QED
      BY <3>1, <3>2
  <2> QED
    BY <2>2 DEF IsTaken, NoDuplicates
<1>4. ASSUME NEW x \in UInt, IsTaken(x), x # mUsedIds[k]
      PROVE  IsTaken(x)'
  <2>1. PICK i \in 1..n : mUsedIds[i] = x
    BY <1>4 DEF IsTaken
  <2>2. CASE i < k
    BY <2>1, <2>2, <1>1 DEF IsTaken
  <2>3. CASE i > k
    <3>1. i - 1 \in 1..(n - 1) /\ mUsedIds'[i - 1] = x
      BY <2>1, <2>3, <1>1
    <3> QED
      BY <3>1, <1>1 DEF IsTaken
  <2> QED
    BY <2>1, <2>2, <2>3, <1>4
<1> QED
  BY <1>2, <1>3, <1>4

\* Every call keeps the property, which is inductive as it stands.
LEMMA IdsCorrectStep == IdsCorrect /\ [Next]_vars => IdsCorrect'
<1> SUFFICES ASSUME IdsCorrect, [Next]_vars PROVE IdsCorrect'
  OBVIOUS
<1>0. TypeOK /\ NoDuplicates /\ UsedIsHeld /\ GivenInRange /\ TypeOK'
  BY TypeStep DEF IdsCorrect
<1>1. CASE UNCHANGED vars
  BY <1>0, <1>1 DEF IdsCorrect, vars, NoDuplicates, UsedIsHeld, GivenInRange, IsTaken
<1>2. CASE TakeId
  <2>1. PICK id \in UInt : /\ FirstFree(id)
                           /\ mUsedIds' = Append(mUsedIds, id)
                           /\ given' = given \cup {id}
    BY <1>2 DEF TakeId
  <2>2. ~IsTaken(id) /\ id \in Scanned
    BY <2>1 DEF FirstFree
  <2>3. /\ NoDuplicates'
        /\ \A x \in UInt : IsTaken(x)' <=> (IsTaken(x) \/ x = id)
    BY <1>0, <2>1, <2>2, AppendFresh
  <2>4. UsedIsHeld'
    BY <1>0, <1>2, <2>1, <2>2, <2>3 DEF TakeId, UsedIsHeld
  <2>5. GivenInRange'
    BY <1>0, <1>2, <2>1, <2>2 DEF TakeId, GivenInRange, Scanned
  <2> QED
    BY <1>0, <2>3, <2>4, <2>5 DEF IdsCorrect
<1>3. ASSUME NEW id \in UInt, AddId(id) PROVE IdsCorrect'
  <2>1. /\ NoDuplicates'
        /\ \A x \in UInt : IsTaken(x)' <=> (IsTaken(x) \/ x = id)
    BY <1>0, <1>3, AppendFresh DEF AddId
  <2>2. UsedIsHeld'
    BY <1>0, <1>3, <2>1 DEF AddId, UsedIsHeld
  <2>3. GivenInRange'
    BY <1>0, <1>3 DEF AddId, GivenInRange
  <2> QED
    BY <1>0, <2>1, <2>2, <2>3 DEF IdsCorrect
<1>4. ASSUME NEW id \in UInt, ReleaseId(id) PROVE IdsCorrect'
  <2>1. PICK k \in 1..Len(mUsedIds) : /\ mUsedIds[k] = id
                                      /\ mUsedIds' = Erase(mUsedIds, k)
    BY <1>4 DEF ReleaseId
  <2>2. /\ NoDuplicates'
        /\ \A x \in UInt : IsTaken(x)' <=> (IsTaken(x) /\ x # id)
    BY <1>0, <2>1, EraseFrees
  <2>3. UsedIsHeld'
    BY <1>0, <1>4, <2>2 DEF ReleaseId, UsedIsHeld
  <2>4. GivenInRange'
    BY <1>0, <1>4 DEF ReleaseId, GivenInRange
  <2> QED
    BY <1>0, <2>2, <2>3, <2>4 DEF IdsCorrect
<1>5. CASE Clear
  BY <1>0, <1>5 DEF IdsCorrect, Clear, NoDuplicates, UsedIsHeld, GivenInRange, IsTaken
<1> QED
  BY <1>1, <1>2, <1>3, <1>4, <1>5 DEF Next

\* UniqueId never registers an identifier twice, its list is exactly what TakeId
\* and AddId handed out, and TakeId stays in range unless the range ends at the
\* largest integer.
THEOREM UniqueIdCorrect == Spec => []IdsCorrect
<1>1. Init => IdsCorrect
  <2>1. Init => NoDuplicates /\ UsedIsHeld /\ GivenInRange
    BY DEF Init, NoDuplicates, UsedIsHeld, GivenInRange, IsTaken
  <2> QED
    BY <2>1, ConstructorType DEF IdsCorrect
<1> QED
  BY <1>1, IdsCorrectStep, PTL DEF Spec
=============================================================================
