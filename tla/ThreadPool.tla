------------------------------ MODULE ThreadPool ------------------------------
(***************************************************************************)
(* The thread pool of util/Pool.h: workers that loop on                    *)
(* ThreadQueue::WaitAndPop and a destructor that pushes a null task, which *)
(* each worker puts back for the next one before it leaves.                *)
(***************************************************************************)
EXTENDS Naturals, Sequences, FiniteSets

CONSTANTS
  Workers,   \* m_threads
  Tasks,     \* work items; each one is handed in at most once
  Null       \* the nullptr work item

ASSUME PoolAssumption == /\ IsFiniteSet(Workers)
                         /\ Workers # {}
                         /\ Null \notin Tasks

VARIABLES
  mQueue, call, swallowed,   \* m_workQueue
  wstate,   \* worker: "loop" in WaitAndPop or on its way there, "run" inside
            \* workItem(), "null" holding nullptr, "exit" out of its loop
  workItem, \* what a worker's last WaitAndPop returned
  order,    \* ghost: tasks in the order of enqueue_work / enqueue_task
  started,  \* ghost: tasks in the order in which workers took them
  done,     \* ghost: tasks that ran to their end
  early,    \* ghost: tasks handed in before the destructor was entered
  dtor      \* ~thread_pool: "no", "join", "done"

vars == <<mQueue, call, swallowed, wstate, workItem, order, started, done,
          early, dtor>>

\* The pool calls neither the timed WaitAndPop nor a bounded push.
Q == INSTANCE ThreadQueue WITH Callers <- Workers, Data <- Tasks \cup {Null},
                               MaxLen <- 0, MaxSwallowed <- 0

Init == /\ Q!QInit
        /\ wstate = [w \in Workers |-> "loop"]
        /\ workItem = [w \in Workers |-> Null]
        /\ order = <<>> /\ started = <<>>
        /\ done = {} /\ early = {}
        /\ dtor = "no"

-----------------------------------------------------------------------------

Submitted == {order[i] : i \in DOMAIN order}

\* enqueue_work and enqueue_task; the latter wraps the task and keeps a future.
Enqueue(t) ==
  /\ t \notin Submitted
  /\ Q!Push(t)
  /\ order' = Append(order, t)
  /\ early' = IF dtor = "no" THEN early \cup {t} ELSE early
  /\ UNCHANGED <<wstate, workItem, started, done, dtor>>

\* A thread outside the pool may use it until it is being destroyed.
UserEnqueue(t) == dtor = "no" /\ Enqueue(t)

\* A running work item hands in another one, at any time.
TaskEnqueue(w, t) == wstate[w] = "run" /\ Enqueue(t)

CallWaitAndPop(w) ==
  /\ wstate[w] = "loop"
  /\ Q!EnterWaitAndPop(w)
  /\ UNCHANGED <<wstate, workItem, order, started, done, early, dtor>>

Sleep(w) ==
  /\ Q!Block(w)
  /\ UNCHANGED <<wstate, workItem, order, started, done, early, dtor>>

Spurious(w) ==
  /\ Q!SpuriousWake(w)
  /\ UNCHANGED <<wstate, workItem, order, started, done, early, dtor>>

\* Mutant of Take: nullptr is not recognised.
TakeAnything(w) ==
  /\ Q!PopFront(w)
  /\ workItem' = [workItem EXCEPT ![w] = Head(mQueue)]
  /\ wstate' = [wstate EXCEPT ![w] = "run"]
  /\ started' = Append(started, Head(mQueue))
  /\ UNCHANGED <<order, done, early, dtor>>

\* WaitAndPop returns; workItem == nullptr is tested next.
Take(w) ==
  /\ Q!PopFront(w)
  /\ workItem' = [workItem EXCEPT ![w] = Head(mQueue)]
  /\ \/ /\ Head(mQueue) = Null
        /\ wstate' = [wstate EXCEPT ![w] = "null"]
        /\ UNCHANGED started
     \/ /\ Head(mQueue) # Null
        /\ wstate' = [wstate EXCEPT ![w] = "run"]
        /\ started' = Append(started, Head(mQueue))
  /\ UNCHANGED <<order, done, early, dtor>>

\* workItem() returns and the worker loops.
FinishItem(w) ==
  /\ wstate[w] = "run"
  /\ wstate' = [wstate EXCEPT ![w] = "loop"]
  /\ done' = done \cup {workItem[w]}
  /\ UNCHANGED <<mQueue, call, swallowed, workItem, order, started, early, dtor>>

\* Mutant of PassNullOn: break without putting the null item back.
KeepNull(w) ==
  /\ wstate[w] = "null"
  /\ wstate' = [wstate EXCEPT ![w] = "exit"]
  /\ UNCHANGED <<mQueue, call, swallowed, workItem, order, started, done,
                 early, dtor>>

\* m_workQueue.Push(nullptr); break;
PassNullOn(w) ==
  /\ wstate[w] = "null"
  /\ Q!Push(Null)
  /\ wstate' = [wstate EXCEPT ![w] = "exit"]
  /\ UNCHANGED <<workItem, order, started, done, early, dtor>>

DestructorPush ==
  /\ dtor = "no"
  /\ Q!Push(Null)
  /\ dtor' = "join"
  /\ UNCHANGED <<wstate, workItem, order, started, done, early>>

\* Mutant of DestructorJoined: only one thread is joined.
DestructorJoinsOne ==
  /\ dtor = "join"
  /\ \E w \in Workers : wstate[w] = "exit"
  /\ dtor' = "done"
  /\ UNCHANGED <<mQueue, call, swallowed, wstate, workItem, order, started,
                 done, early>>

\* The last join returns.
DestructorJoined ==
  /\ dtor = "join"
  /\ \A w \in Workers : wstate[w] = "exit"
  /\ dtor' = "done"
  /\ UNCHANGED <<mQueue, call, swallowed, wstate, workItem, order, started,
                 done, early>>

WorkerStep(w) ==
  \/ CallWaitAndPop(w) \/ Sleep(w) \/ Take(w) \/ FinishItem(w) \/ PassNullOn(w)

Next == \/ \E t \in Tasks : UserEnqueue(t)
        \/ \E w \in Workers, t \in Tasks : TaskEnqueue(w, t)
        \/ \E w \in Workers : WorkerStep(w) \/ Spurious(w)
        \/ DestructorPush
        \/ DestructorJoined

Spec == Init /\ [][Next]_vars

\* The scheduler runs every worker that can run; work items return; the
\* destructor notices that its threads have ended.  Nobody is bound to hand
\* in tasks or to destroy the pool.
Fairness == /\ \A w \in Workers : WF_vars(WorkerStep(w))
            /\ WF_vars(DestructorJoined)

FairSpec == Spec /\ Fairness

-----------------------------------------------------------------------------

\* Every variable has its type.
TypeOK == /\ Q!QTypeOK
          /\ wstate \in [Workers -> {"loop", "run", "null", "exit"}]
          /\ workItem \in [Workers -> Tasks \cup {Null}]
          /\ order \in Seq(Tasks) /\ started \in Seq(Tasks)
          /\ done \subseteq Tasks /\ early \subseteq Tasks
          /\ dtor \in {"no", "join", "done"}

\* Workers take tasks in exactly the order in which they were handed in:
\* what was started, followed by what is queued before and behind the null
\* item, if there is one, is what was handed in.
FifoDispatch ==
  \/ order = started \o mQueue
  \/ \E n \in DOMAIN mQueue :
       /\ mQueue[n] = Null
       /\ order = started \o SubSeq(mQueue, 1, n - 1)
                         \o SubSeq(mQueue, n + 1, Len(mQueue))

\* There is never more than one null item, in the queue or in a worker's
\* hands, and exactly one from the moment the destructor has pushed it:
\* each worker that leaves has put back what the next one needs.
OneNull ==
  Cardinality({i \in DOMAIN mQueue : mQueue[i] = Null})
    + Cardinality({w \in Workers : wstate[w] = "null"})
  = IF dtor = "no" THEN 0 ELSE 1

\* The queue holds what is due: the tasks that were handed in and not started,
\* in their order, and the one null item (Pool.h:24-48).
QueueHoldsWhatIsDue == FifoDispatch /\ OneNull

\* When ~thread_pool returns, every task handed in before it was called has
\* been run to its end.
DrainedWhenGone == dtor = "done" => early \subseteq done

\* ~thread_pool returns.
DestructorReturns == dtor = "join" ~> dtor = "done"

\* A task handed in before the destruction is eventually run to its end.
EarlyTasksRun == \A t \in Tasks : t \in early ~> t \in done

\* The pool implements the abstract pool of tasks.
Abstract == INSTANCE TaskPool
  WITH pending <- {mQueue[i] : i \in DOMAIN mQueue} \ {Null},
       running <- {workItem[w] : w \in {v \in Workers : wstate[v] = "run"}},
       phase <- CASE dtor = "no" -> "live"
                  [] dtor = "join" -> "closing"
                  [] dtor = "done" -> "gone"

\* Every step of the pool is a step of TaskPool or changes nothing in it.
ImplementsTaskPool == Abstract!Spec
=============================================================================
