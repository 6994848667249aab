------------------------------ MODULE Semaphore ------------------------------
(***************************************************************************)
(* The counting semaphore of util/Semaphore.h.  Notify increments mCount   *)
(* under mMutex and calls notify_one after it has released the mutex: the  *)
(* two are two steps.  Wait is always timed; one step is one stretch with  *)
(* the mutex held, from taking it to wait_for or to the return.            *)
(***************************************************************************)
EXTENDS Naturals, FiniteSets

CONSTANTS
  Threads,      \* callers of Notify and Wait
  MaxCount,     \* the largest value of mCount, 2^32 - 1 in the code
  MaxSupplied   \* bound: tokens supplied by the constructor and by Notify

ASSUME SemaphoreAssumption ==
  IsFiniteSet(Threads) /\ MaxCount \in Nat \ {0} /\ MaxSupplied \in Nat

VARIABLES
  mCount,
  scall,      \* "out" of both functions; "signal" in Notify between unlock and
              \* notify_one; "wait" blocked in wait_for; "woken" unblocked by a
              \* notification, wait_for has not decided yet what it returns
  supplied,   \* ghost: initial count and calls of Notify
  passed,     \* ghost: calls of Wait that returned true
  spent       \* ghost: calls of Wait that took a token and returned false

semVars == <<mCount, scall, supplied, passed, spent>>

SemInit == /\ mCount \in 0..MaxCount
           /\ scall = [t \in Threads |-> "out"]
           /\ supplied = mCount
           /\ passed = 0 /\ spent = 0

Sleeping == {t \in Threads : scall[t] = "wait"}

-----------------------------------------------------------------------------

\* Mutant of Notify: only the first token is announced.
NotifyFirstOnly(t) ==
  /\ scall[t] = "out"
  /\ supplied < MaxSupplied
  /\ mCount' = (mCount + 1) % (MaxCount + 1)
  /\ supplied' = supplied + 1
  /\ scall' = [scall EXCEPT ![t] = IF mCount = 0 THEN "signal" ELSE "out"]
  /\ UNCHANGED <<passed, spent>>

Notify(t) ==
  /\ scall[t] = "out"
  /\ supplied < MaxSupplied
  /\ mCount' = (mCount + 1) % (MaxCount + 1)
  /\ supplied' = supplied + 1
  /\ scall' = [scall EXCEPT ![t] = "signal"]
  /\ UNCHANGED <<passed, spent>>

\* mCondVar.notify_one(), the mutex is not held any more.
Signal(t) ==
  /\ scall[t] = "signal"
  /\ \/ Sleeping = {} /\ scall' = [scall EXCEPT ![t] = "out"]
     \/ \E w \in Sleeping : scall' = [scall EXCEPT ![t] = "out", ![w] = "woken"]
  /\ UNCHANGED <<mCount, supplied, passed, spent>>

\* Wait finds a token, at once or after it was woken up: return true.
Pass(t) ==
  /\ scall[t] \in {"out", "woken"}
  /\ mCount > 0
  /\ mCount' = mCount - 1
  /\ passed' = passed + 1
  /\ scall' = [scall EXCEPT ![t] = "out"]
  /\ UNCHANGED <<supplied, spent>>

\* Wait finds none: wait_for, with the full delay each time.
WaitBlocks(t) ==
  /\ scall[t] \in {"out", "woken"}
  /\ mCount = 0
  /\ scall' = [scall EXCEPT ![t] = "wait"]
  /\ UNCHANGED <<mCount, supplied, passed, spent>>

\* wait_for reports a timeout, of a caller that was notified or was not: a
\* token that is there is taken nevertheless, and Wait returns false.
WaitTimesOut(t) ==
  /\ scall[t] \in {"wait", "woken"}
  /\ scall' = [scall EXCEPT ![t] = "out"]
  /\ \/ mCount > 0 /\ mCount' = mCount - 1 /\ spent' = spent + 1
     \/ mCount = 0 /\ UNCHANGED <<mCount, spent>>
  /\ UNCHANGED <<supplied, passed>>

\* A condition variable may wake up a caller nobody notified.
WaitWakes(t) ==
  /\ scall[t] = "wait"
  /\ scall' = [scall EXCEPT ![t] = "woken"]
  /\ UNCHANGED <<mCount, supplied, passed, spent>>

SemNext == \E t \in Threads : \/ Notify(t) \/ Signal(t)
                              \/ Pass(t) \/ WaitBlocks(t) \/ WaitTimesOut(t)
                              \/ WaitWakes(t)

SemSpec == SemInit /\ [][SemNext]_semVars

-----------------------------------------------------------------------------

\* Every variable has its type.
SemTypeOK == /\ mCount \in 0..MaxCount
             /\ scall \in [Threads -> {"out", "signal", "wait", "woken"}]
             /\ supplied \in Nat /\ passed \in Nat /\ spent \in Nat

\* No token waits for a thread that sleeps: as long as a caller is blocked in
\* Wait, each token has a thread on its way, one that is about to signal it or
\* one that was woken up.  Unlike in ThreadQueue a timeout loses no wakeup,
\* because the caller that gives up takes a token with it.
NoTokenUnannounced ==
  Sleeping # {} => mCount <= Cardinality({t \in Threads :
                                           scall[t] \in {"signal", "woken"}})

\* Every token is still there, let one Wait pass, or was lost on a Wait that
\* reported a timeout; up to the width of the counter.
TokensConserved ==
  (mCount + passed + spent) % (MaxCount + 1) = supplied % (MaxCount + 1)

\* The semaphore (Semaphore.h:22-53): no token waits for a thread that sleeps,
\* and tokens are conserved up to the width of mCount.
SemaphoreSafe == SemTypeOK /\ NoTokenUnannounced /\ TokensConserved
=============================================================================
