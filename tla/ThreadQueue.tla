----------------------------- MODULE ThreadQueue -----------------------------
(***************************************************************************)
(* The blocking queue of util/ThreadQueue.h: a std::queue, one mutex and   *)
(* one condition variable.                                                 *)
(*                                                                         *)
(* Every member function runs under mMutex from its first statement to its *)
(* return, except while it is blocked in mCondVar.wait or wait_for, which  *)
(* release the mutex.  One action is therefore one critical section: from  *)
(* taking the mutex to the next wait or to the return.  notify_one is      *)
(* called with the mutex held, so it belongs to the action of Push.        *)
(***************************************************************************)
EXTENDS Naturals, Sequences, FiniteSets

CONSTANTS
  Callers,       \* threads that call the pop functions
  Data,          \* values that are pushed
  MaxLen,        \* bound: length of the queue at which producers stop pushing
  MaxSwallowed   \* bound on the ghost counter swallowed

ASSUME QueueAssumption == /\ IsFiniteSet(Callers)
                          /\ MaxLen \in Nat
                          /\ MaxSwallowed \in Nat

VARIABLES
  mQueue,     \* contents, front first
  call,       \* what each caller is doing in the pop functions, see CallStates
  swallowed   \* ghost: notifications whose receiver returned "timeout"

qvars == <<mQueue, call, swallowed>>

(* "out"     not in a pop function                                           *)
(* "pop"     in WaitAndPop(v), not blocked: about to test mQueue.empty()     *)
(* "wait"    in WaitAndPop(v), blocked in mCondVar.wait                      *)
(* "tpop"    in WaitAndPop(v, ms), not blocked: about to test empty()        *)
(* "twait"   in WaitAndPop(v, ms), blocked in mCondVar.wait_for              *)
(* "twoken"  in WaitAndPop(v, ms), unblocked by a notification, but wait_for *)
(*           has not yet decided what it returns                             *)
CallStates == {"out", "pop", "wait", "tpop", "twait", "twoken"}

Waiting == {t \in Callers : call[t] \in {"wait", "twait"}}

\* Callers that are going to look at the queue without being notified again.
Active == {t \in Callers : call[t] \in {"pop", "tpop", "twoken"}}

QInit == /\ mQueue = <<>>
         /\ call = [t \in Callers |-> "out"]
         /\ swallowed = 0

-----------------------------------------------------------------------------

\* mCondVar.wait(lock) returning: the caller tests the queue again.  A timed
\* wait still has to compare the clock with its deadline.
Wake(t) ==
  call' = [call EXCEPT ![t] = IF @ = "wait" THEN "pop" ELSE "twoken"]

\* mCondVar.notify_one(): one blocked caller, whichever, or nobody.
NotifyOne ==
  \/ Waiting = {} /\ UNCHANGED call
  \/ \E t \in Waiting : Wake(t)

\* Mutant of Push: notify only when the queue was empty.
PushNotifiesIfEmpty(d) ==
  /\ mQueue' = Append(mQueue, d)
  /\ IF mQueue = <<>> THEN NotifyOne ELSE UNCHANGED call
  /\ UNCHANGED swallowed

\* Mutant of Push: a stack instead of a queue.
PushOnTop(d) ==
  /\ mQueue' = <<d>> \o mQueue
  /\ NotifyOne
  /\ UNCHANGED swallowed

Push(d) ==
  /\ mQueue' = Append(mQueue, d)
  /\ NotifyOne
  /\ UNCHANGED swallowed

\* Producers stop at MaxLen; the code itself has no limit.
BoundedPush(d) == Len(mQueue) < MaxLen /\ Push(d)

TryPop(t) ==
  /\ call[t] = "out"
  /\ mQueue # <<>>
  /\ mQueue' = Tail(mQueue)
  /\ UNCHANGED <<call, swallowed>>

EnterWaitAndPop(t) ==
  /\ call[t] = "out"
  /\ call' = [call EXCEPT ![t] = "pop"]
  /\ UNCHANGED <<mQueue, swallowed>>

EnterTimedWaitAndPop(t) ==
  /\ call[t] = "out"
  /\ call' = [call EXCEPT ![t] = "tpop"]
  /\ UNCHANGED <<mQueue, swallowed>>

\* while (mQueue.empty()) mCondVar.wait(lock);
Block(t) ==
  /\ mQueue = <<>>
  /\ \/ call[t] = "pop" /\ call' = [call EXCEPT ![t] = "wait"]
     \/ call[t] \in {"tpop", "twoken"} /\ call' = [call EXCEPT ![t] = "twait"]
  /\ UNCHANGED <<mQueue, swallowed>>

\* The queue is not empty: take the front, unlock, return (true).
PopFront(t) ==
  /\ t \in Active
  /\ mQueue # <<>>
  /\ mQueue' = Tail(mQueue)
  /\ call' = [call EXCEPT ![t] = "out"]
  /\ UNCHANGED swallowed

\* A condition variable may wake up a caller nobody notified.
SpuriousWake(t) ==
  /\ t \in Waiting
  /\ Wake(t)
  /\ UNCHANGED <<mQueue, swallowed>>

\* wait_for expires before any notification: return false.
TimeOut(t) ==
  /\ call[t] = "twait"
  /\ call' = [call EXCEPT ![t] = "out"]
  /\ UNCHANGED <<mQueue, swallowed>>

\* wait_for is notified, but the deadline has passed when the caller has the
\* mutex back and wait_for reads the clock: it returns timeout, and the
\* caller returns false without a look at the queue.
TimeOutAfterNotify(t) ==
  /\ call[t] = "twoken"
  /\ swallowed < MaxSwallowed
  /\ call' = [call EXCEPT ![t] = "out"]
  /\ swallowed' = swallowed + 1
  /\ UNCHANGED mQueue

QNext ==
  \/ \E d \in Data : BoundedPush(d)
  \/ \E t \in Callers :
        \/ TryPop(t) \/ EnterWaitAndPop(t) \/ EnterTimedWaitAndPop(t)
        \/ Block(t) \/ PopFront(t)
        \/ SpuriousWake(t) \/ TimeOut(t) \/ TimeOutAfterNotify(t)

QSpec == QInit /\ [][QNext]_qvars

-----------------------------------------------------------------------------

\* Every variable has its type; a queue of Data, a state per caller.
QTypeOK == /\ mQueue \in Seq(Data)
           /\ call \in [Callers -> CallStates]
           /\ swallowed \in Nat

\* Wakeups are not lost: as long as a caller sleeps in WaitAndPop, every value
\* in the queue has a caller of its own on its way to it.  The one exception,
\* counted by swallowed, is a notification that went to a timed WaitAndPop
\* which then reported a timeout: its value stays behind while others sleep.
NoLostWakeup ==
  Waiting # {} => Len(mQueue) <= Cardinality(Active) + swallowed
=============================================================================
