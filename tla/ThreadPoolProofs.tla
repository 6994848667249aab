--------------------------- MODULE ThreadPoolProofs ---------------------------
(***************************************************************************)
(* Proofs about ThreadPool for any number of workers and tasks.            *)
(*                                                                         *)
(* DrainedWhenGone is not inductive.  What makes it true is where the null *)
(* item is: no early task is ever queued behind it, so a worker that has   *)
(* taken it knows that the queue holds no early task any more.             *)
(*                                                                         *)
(* QueueHoldsWhatIsDue needs DueInv: the queue is the rest of the order,   *)
(* position by position, and the null item is in one place only.  The      *)
(* refinement of TaskPool needs OnceInv: a task is new, queued, running or *)
(* done, and in one of these places only.                                  *)
(***************************************************************************)
EXTENDS ThreadPool, FiniteSetTheorems, SequenceTheorems, TLAPS

Leaving == {w \in Workers : wstate[w] \in {"null", "exit"}}

\* Before the destructor there is no null item, in the queue or taken.
NoNullBefore == dtor = "no" => /\ \A i \in 1..Len(mQueue) : mQueue[i] # Null
                               /\ Leaving = {}

\* Early tasks are queued before the null item.
EarlyBeforeNull ==
  \A i, j \in 1..Len(mQueue) : mQueue[i] = Null /\ mQueue[j] \in early => j < i

\* Once a worker holds the null item or has left, no early task is queued.
EarlyGoneFirst ==
  Leaving # {} => \A i \in 1..Len(mQueue) : mQueue[i] \notin early

\* Every early task is queued, running or done.
EarlyAccounted ==
  \A t \in early : \/ t \in done
                   \/ \E w \in Workers : wstate[w] = "run" /\ workItem[w] = t
                   \/ \E i \in 1..Len(mQueue) : mQueue[i] = t

EarlySubmitted == early \subseteq Submitted

GoneMeansLeft == dtor = "done" => \A w \in Workers : wstate[w] = "exit"

\* A worker only runs real tasks.  The types depend on it.
RunsTask == \A w \in Workers : wstate[w] = "run" => workItem[w] \in Tasks

\* Only a worker in its loop is inside WaitAndPop.
InLoop == \A w \in Workers : call[w] # "out" => wstate[w] = "loop"

DrainInv == /\ TypeOK /\ RunsTask /\ InLoop /\ NoNullBefore /\ EarlyBeforeNull /\ EarlyGoneFirst
            /\ EarlyAccounted /\ EarlySubmitted /\ GoneMeansLeft

-----------------------------------------------------------------------------

\* A Push appends one item and changes nothing else but who sleeps.
LEMMA PushEffect ==
  ASSUME TypeOK, NEW d \in Tasks \cup {Null}, Q!Push(d)
  PROVE  /\ mQueue' = Append(mQueue, d)
         /\ call' \in [Workers -> Q!CallStates]
         /\ swallowed' = swallowed
         /\ mQueue' \in Seq(Tasks \cup {Null})
         /\ Len(mQueue') = Len(mQueue) + 1 /\ Len(mQueue) \in Nat
         /\ \A i \in 1..Len(mQueue) : mQueue'[i] = mQueue[i]
         /\ mQueue'[Len(mQueue) + 1] = d
BY DEF TypeOK, Q!QTypeOK, Q!Push, Q!NotifyOne, Q!Wake, Q!Waiting, Q!CallStates

\* A PopFront removes the first item.
LEMMA PopEffect ==
  ASSUME TypeOK, NEW w \in Workers, Q!PopFront(w)
  PROVE  /\ mQueue' \in Seq(Tasks \cup {Null})
         /\ call' \in [Workers -> Q!CallStates]
         /\ swallowed' = swallowed
         /\ Head(mQueue) = mQueue[1] /\ mQueue[1] \in Tasks \cup {Null}
         /\ Len(mQueue) \in Nat \ {0} /\ Len(mQueue') = Len(mQueue) - 1
         /\ \A i \in 1..Len(mQueue') : mQueue'[i] = mQueue[i + 1]
<1>1. mQueue \in Seq(Tasks \cup {Null}) /\ mQueue # <<>> /\ mQueue' = Tail(mQueue)
  BY DEF TypeOK, Q!QTypeOK, Q!PopFront
<1>2. call' \in [Workers -> Q!CallStates] /\ swallowed' = swallowed
  BY DEF TypeOK, Q!QTypeOK, Q!PopFront, Q!CallStates
<1> QED
  BY <1>1, <1>2

\* A step that only changes who sleeps.
LEMMA QueueSilent ==
  ASSUME TypeOK, NEW w \in Workers,
         Q!EnterWaitAndPop(w) \/ Q!Block(w) \/ Q!SpuriousWake(w)
  PROVE  /\ mQueue' = mQueue /\ swallowed' = swallowed
         /\ call' \in [Workers -> Q!CallStates]
BY DEF TypeOK, Q!QTypeOK, Q!EnterWaitAndPop, Q!Block, Q!SpuriousWake, Q!Wake,
       Q!CallStates

\* Next, as the cases the proofs distinguish.
Quiet(w) == CallWaitAndPop(w) \/ Sleep(w) \/ Spurious(w)

\* The steps of the pool, one case each.
LEMMA NextCases ==
  ASSUME Next
  PROVE  \/ \E t \in Tasks : Enqueue(t) /\ (dtor = "no" \/ \E w \in Workers : wstate[w] = "run")
         \/ \E w \in Workers : Quiet(w) \/ Take(w) \/ FinishItem(w) \/ PassNullOn(w)
         \/ DestructorPush \/ DestructorJoined
BY DEF Next, UserEnqueue, TaskEnqueue, WorkerStep, Quiet

\* The types are those of TypeOK.
LEMMA TypeStep == TypeOK /\ RunsTask /\ [Next]_vars => TypeOK'
<1> SUFFICES ASSUME TypeOK, RunsTask, [Next]_vars PROVE TypeOK'
  OBVIOUS
<1>1. CASE UNCHANGED vars
  BY <1>1 DEF vars, TypeOK, Q!QTypeOK
<1>2. ASSUME NEW t \in Tasks, Enqueue(t) PROVE TypeOK'
  <2>1. Q!QTypeOK'
    BY <1>2, PushEffect DEF Enqueue, Q!QTypeOK, TypeOK
  <2>2. order' \in Seq(Tasks) /\ early' \subseteq Tasks
    BY <1>2 DEF Enqueue, TypeOK
  <2> QED
    BY <1>2, <2>1, <2>2 DEF Enqueue, TypeOK
<1>3. ASSUME NEW w \in Workers, Quiet(w) PROVE TypeOK'
  <2>1. Q!QTypeOK'
    BY <1>3, QueueSilent DEF Quiet, CallWaitAndPop, Sleep, Spurious,
                             Q!QTypeOK, TypeOK
  <2> QED
    BY <1>3, <2>1 DEF Quiet, CallWaitAndPop, Sleep, Spurious, TypeOK
<1>4. ASSUME NEW w \in Workers, Take(w) PROVE TypeOK'
  <2>1. Q!QTypeOK' /\ Head(mQueue) \in Tasks \cup {Null}
    BY <1>4, PopEffect DEF Take, Q!QTypeOK, TypeOK
  <2>2. /\ workItem' \in [Workers -> Tasks \cup {Null}]
        /\ wstate' \in [Workers -> {"loop", "run", "null", "exit"}]
    BY <1>4, <2>1 DEF Take, TypeOK
  <2>3. started' \in Seq(Tasks)
    BY <1>4, <2>1 DEF Take, TypeOK
  <2> QED
    BY <1>4, <2>1, <2>2, <2>3 DEF Take, TypeOK
<1>5. ASSUME NEW w \in Workers, FinishItem(w) PROVE TypeOK'
  <2>1. Q!QTypeOK' /\ UNCHANGED <<workItem, order, started, early, dtor>>
    BY <1>5 DEF FinishItem, Q!QTypeOK, TypeOK
  <2> QED
    BY <1>5, <2>1 DEF FinishItem, TypeOK, RunsTask
<1>6. ASSUME NEW w \in Workers, PassNullOn(w) PROVE TypeOK'
  <2>1. Q!QTypeOK'
    BY <1>6, PushEffect DEF PassNullOn, Q!QTypeOK, TypeOK
  <2> QED
    BY <1>6, <2>1 DEF PassNullOn, TypeOK
<1>7. CASE DestructorPush
  <2>1. Q!QTypeOK'
    BY <1>7, PushEffect DEF DestructorPush, Q!QTypeOK, TypeOK
  <2> QED
    BY <1>7, <2>1 DEF DestructorPush, TypeOK
<1>8. CASE DestructorJoined
  BY <1>8 DEF DestructorJoined, TypeOK, Q!QTypeOK
<1> QED
  BY <1>1, <1>2, <1>3, <1>4, <1>5, <1>6, <1>7, <1>8, NextCases

\* A worker that runs an item runs a task.
LEMMA RunsTaskStep == TypeOK /\ RunsTask /\ [Next]_vars => RunsTask'
<1> SUFFICES ASSUME TypeOK, RunsTask, [Next]_vars PROVE RunsTask'
  OBVIOUS
<1>1. ASSUME NEW w \in Workers, Take(w) PROVE RunsTask'
  <2>1. Head(mQueue) \in Tasks \cup {Null}
    BY <1>1, PopEffect DEF Take
  <2> QED
    BY <1>1, <2>1 DEF Take, RunsTask, TypeOK
<1>2. ASSUME NEW w \in Workers, FinishItem(w) \/ PassNullOn(w) PROVE RunsTask'
  BY <1>2 DEF FinishItem, PassNullOn, RunsTask, TypeOK
<1>3. ASSUME UNCHANGED <<wstate, workItem>> PROVE RunsTask'
  BY <1>3 DEF RunsTask
<1> QED
  BY <1>1, <1>2, <1>3, NextCases
     DEF vars, Enqueue, Quiet, CallWaitAndPop, Sleep, Spurious,
         DestructorPush, DestructorJoined

\* The types hold initially.
LEMMA InitTypes == Init => TypeOK /\ RunsTask
BY DEF Init, TypeOK, RunsTask, Q!QInit, Q!QTypeOK, Q!CallStates

\* Every variable of the pool keeps its type.
THEOREM PoolTypeCorrect == Spec => []TypeOK
<1>1. TypeOK /\ RunsTask /\ [Next]_vars => (TypeOK /\ RunsTask)'
  BY TypeStep, RunsTaskStep
<1> QED
  BY <1>1, InitTypes, PTL DEF Spec

-----------------------------------------------------------------------------

\* An enqueued task is early only if there is no null item yet.
LEMMA DrainEnqueue ==
  ASSUME DrainInv, NEW t \in Tasks, Enqueue(t),
         dtor = "no" \/ \E w \in Workers : wstate[w] = "run"
  PROVE  /\ NoNullBefore' /\ EarlyBeforeNull' /\ EarlyGoneFirst'
         /\ EarlyAccounted' /\ EarlySubmitted' /\ GoneMeansLeft'
<1> DEFINE n == Len(mQueue)
<1>0. /\ TypeOK /\ NoNullBefore /\ EarlyBeforeNull /\ EarlyGoneFirst
      /\ EarlyAccounted /\ EarlySubmitted /\ GoneMeansLeft
  BY DEF DrainInv
<1>1. /\ Len(mQueue') = n + 1 /\ n \in Nat
      /\ \A i \in 1..n : mQueue'[i] = mQueue[i]
      /\ mQueue'[n + 1] = t
  BY <1>0, PushEffect DEF Enqueue
<1>2. /\ UNCHANGED <<wstate, workItem, done, dtor>>
      /\ early' = IF dtor = "no" THEN early \cup {t} ELSE early
      /\ t \notin early
  BY <1>0 DEF Enqueue, EarlySubmitted
<1>3. Leaving' = Leaving /\ t # Null
  BY <1>2, PoolAssumption DEF Leaving
<1>4. NoNullBefore'
  BY <1>0, <1>1, <1>2, <1>3 DEF NoNullBefore
<1>5. EarlyBeforeNull'
  <2>1. CASE dtor = "no"
    BY <1>4, <1>2, <2>1 DEF NoNullBefore, EarlyBeforeNull
  <2>2. CASE dtor # "no"
    BY <1>0, <1>1, <1>2, <1>3, <2>2 DEF EarlyBeforeNull
  <2> QED
    BY <2>1, <2>2
<1>6. EarlyGoneFirst'
  <2>1. CASE dtor = "no"
    BY <1>0, <1>3, <2>1 DEF NoNullBefore, EarlyGoneFirst
  <2>2. CASE dtor # "no"
    BY <1>0, <1>1, <1>2, <1>3, <2>2 DEF EarlyGoneFirst
  <2> QED
    BY <2>1, <2>2
<1>7. EarlyAccounted'
  <2> SUFFICES ASSUME NEW x \in early'
               PROVE  \/ x \in done'
                      \/ \E w \in Workers : wstate'[w] = "run" /\ workItem'[w] = x
                      \/ \E i \in 1..Len(mQueue') : mQueue'[i] = x
    BY DEF EarlyAccounted
  <2>1. CASE x = t
    BY <2>1, <1>1
  <2>2. CASE x \in early
    BY <2>2, <1>0, <1>1, <1>2 DEF EarlyAccounted
  <2> QED
    BY <2>1, <2>2, <1>2
<1>8. EarlySubmitted'
  <2>1. order \in Seq(Tasks) /\ order' = Append(order, t)
    BY <1>0 DEF Enqueue, TypeOK
  <2>2. Submitted \cup {t} \subseteq Submitted'
    BY <2>1 DEF Submitted
  <2> QED
    BY <2>2, <1>0, <1>2 DEF EarlySubmitted
<1>9. GoneMeansLeft'
  BY <1>0, <1>2 DEF GoneMeansLeft
<1> QED
  BY <1>4, <1>5, <1>6, <1>7, <1>8, <1>9

\* Pushing the null item: DestructorPush and PassNullOn.
LEMMA DrainPushNull ==
  ASSUME DrainInv, Q!Push(Null), dtor' # "no",
         UNCHANGED <<workItem, order, done, early>>,
         \A w \in Workers : wstate[w] = "run" => wstate'[w] = "run",
         Leaving' = Leaving,
         dtor' = "done" => GoneMeansLeft'
  PROVE  /\ NoNullBefore' /\ EarlyBeforeNull' /\ EarlyGoneFirst'
         /\ EarlyAccounted' /\ EarlySubmitted' /\ GoneMeansLeft'
<1> DEFINE n == Len(mQueue)
<1>0. /\ TypeOK /\ EarlyBeforeNull /\ EarlyGoneFirst
      /\ EarlyAccounted /\ EarlySubmitted
  BY DEF DrainInv
<1>1. /\ Len(mQueue') = n + 1 /\ n \in Nat
      /\ \A i \in 1..n : mQueue'[i] = mQueue[i]
      /\ mQueue'[n + 1] = Null
  BY <1>0, PushEffect
<1>2. Null \notin early
  BY <1>0, PoolAssumption DEF TypeOK
<1>3. NoNullBefore'
  BY DEF NoNullBefore
<1>4. EarlyBeforeNull'
  BY <1>0, <1>1, <1>2 DEF EarlyBeforeNull
<1>5. EarlyGoneFirst'
  BY <1>0, <1>1, <1>2 DEF EarlyGoneFirst
<1>6. EarlyAccounted'
  BY <1>0, <1>1 DEF EarlyAccounted
<1>7. EarlySubmitted'
  BY <1>0 DEF EarlySubmitted, Submitted
<1>8. GoneMeansLeft'
  BY DEF GoneMeansLeft
<1> QED
  BY <1>3, <1>4, <1>5, <1>6, <1>7, <1>8

\* A Push wakes callers that sleep, and nobody else enters or leaves.
LEMMA PushCallers ==
  ASSUME TypeOK, NEW d, Q!Push(d), NEW w \in Workers, call'[w] # "out"
  PROVE  call[w] # "out"
BY DEF TypeOK, Q!QTypeOK, Q!Push, Q!NotifyOne, Q!Wake, Q!Waiting, Q!CallStates

\* Only a worker in its loop is inside WaitAndPop, after every step.
LEMMA InLoopStep == TypeOK /\ InLoop /\ [Next]_vars => InLoop'
<1> SUFFICES ASSUME TypeOK, InLoop, [Next]_vars PROVE InLoop'
  OBVIOUS
<1>1. CASE UNCHANGED vars
  BY <1>1 DEF vars, InLoop
<1>2. ASSUME NEW t \in Tasks, Enqueue(t) PROVE InLoop'
  BY <1>2, PushCallers DEF Enqueue, InLoop
<1>3. ASSUME NEW w \in Workers, Quiet(w) PROVE InLoop'
  BY <1>3 DEF Quiet, CallWaitAndPop, Sleep, Spurious, InLoop, TypeOK,
              Q!QTypeOK, Q!EnterWaitAndPop, Q!Block, Q!SpuriousWake, Q!Wake,
              Q!Waiting, Q!CallStates
<1>4. ASSUME NEW w \in Workers, Take(w) PROVE InLoop'
  BY <1>4 DEF Take, Q!PopFront, InLoop, TypeOK, Q!QTypeOK
<1>5. ASSUME NEW w \in Workers, FinishItem(w) PROVE InLoop'
  BY <1>5 DEF FinishItem, InLoop, TypeOK
<1>6. ASSUME NEW w \in Workers, PassNullOn(w) PROVE InLoop'
  BY <1>6, PushCallers DEF PassNullOn, InLoop, TypeOK
<1>7. CASE DestructorPush
  BY <1>7, PushCallers DEF DestructorPush, InLoop
<1>8. CASE DestructorJoined
  BY <1>8 DEF DestructorJoined, InLoop
<1> QED
  BY <1>1, <1>2, <1>3, <1>4, <1>5, <1>6, <1>7, <1>8, NextCases

\* A worker takes the first item: the null item only when no early task is
\* left, a task in exchange for nothing it was running.
LEMMA DrainTake ==
  ASSUME DrainInv, NEW w \in Workers, Take(w)
  PROVE  /\ NoNullBefore' /\ EarlyBeforeNull' /\ EarlyGoneFirst'
         /\ EarlyAccounted' /\ EarlySubmitted' /\ GoneMeansLeft'
<1> DEFINE n == Len(mQueue)
<1>0. /\ TypeOK /\ InLoop /\ NoNullBefore /\ EarlyBeforeNull /\ EarlyGoneFirst
      /\ EarlyAccounted /\ EarlySubmitted /\ GoneMeansLeft
  BY DEF DrainInv
<1>1. /\ n \in Nat \ {0} /\ Len(mQueue') = n - 1
      /\ \A i \in 1..(n - 1) : mQueue'[i] = mQueue[i + 1]
      /\ Head(mQueue) = mQueue[1]
  BY <1>0, PopEffect DEF Take
<1>2. wstate[w] = "loop"
  BY <1>0 DEF Take, Q!PopFront, Q!Active, InLoop
<1>3. /\ UNCHANGED <<order, done, early, dtor>>
      /\ workItem' = [workItem EXCEPT ![w] = mQueue[1]]
      /\ \A v \in Workers \ {w} : wstate'[v] = wstate[v] /\ workItem'[v] = workItem[v]
      /\ workItem'[w] = mQueue[1]
      /\ wstate'[w] = IF mQueue[1] = Null THEN "null" ELSE "run"
  BY <1>0, <1>1 DEF Take, TypeOK
<1>4. Leaving' = IF mQueue[1] = Null THEN Leaving \cup {w} ELSE Leaving
  BY <1>2, <1>3 DEF Leaving
<1>5. NoNullBefore'
  BY <1>0, <1>1, <1>3, <1>4 DEF NoNullBefore
<1>6. EarlyBeforeNull'
  <2> SUFFICES ASSUME NEW i \in 1..(n - 1), NEW j \in 1..(n - 1),
                      mQueue'[i] = Null, mQueue'[j] \in early
               PROVE  j < i
    BY <1>1, <1>3 DEF EarlyBeforeNull
  <2>1. i + 1 \in 1..n /\ j + 1 \in 1..n
    BY <1>1
  <2>2. mQueue[i + 1] = Null /\ mQueue[j + 1] \in early
    BY <1>1
  <2>3. j + 1 < i + 1
    BY <1>0, <2>1, <2>2 DEF EarlyBeforeNull
  <2> QED
    BY <2>3, <1>1
<1>7. EarlyGoneFirst'
  <2> SUFFICES ASSUME Leaving' # {}, NEW i \in 1..(n - 1)
               PROVE  mQueue'[i] \notin early
    BY <1>1, <1>3 DEF EarlyGoneFirst
  <2>1. i + 1 \in 1..n /\ mQueue'[i] = mQueue[i + 1] /\ 1 \in 1..n
    BY <1>1
  <2>2. CASE mQueue[1] = Null
    BY <2>1, <2>2, <1>0, <1>1 DEF EarlyBeforeNull
  <2>3. CASE mQueue[1] # Null
    BY <2>1, <2>3, <1>0, <1>4 DEF EarlyGoneFirst
  <2> QED
    BY <2>2, <2>3
<1>8. EarlyAccounted'
  <2> SUFFICES ASSUME NEW x \in early
               PROVE  \/ x \in done
                      \/ \E v \in Workers : wstate'[v] = "run" /\ workItem'[v] = x
                      \/ \E i \in 1..(n - 1) : mQueue'[i] = x
    BY <1>1, <1>3 DEF EarlyAccounted
  <2>1. CASE x \in done
    BY <2>1
  <2>2. ASSUME NEW v \in Workers, wstate[v] = "run", workItem[v] = x
        PROVE  \E u \in Workers : wstate'[u] = "run" /\ workItem'[u] = x
    BY <2>2, <1>2, <1>3
  <2>3. ASSUME NEW i \in 1..n, mQueue[i] = x
        PROVE  \/ \E v \in Workers : wstate'[v] = "run" /\ workItem'[v] = x
               \/ \E k \in 1..(n - 1) : mQueue'[k] = x
    <3>1. CASE i = 1
      <4>1. mQueue[1] # Null
        BY <3>1, <2>3, <1>0, PoolAssumption DEF TypeOK
      <4> QED
        BY <4>1, <3>1, <2>3, <1>3
    <3>2. CASE i # 1
      <4>1. i - 1 \in 1..(n - 1) /\ mQueue'[i - 1] = x
        BY <3>2, <2>3, <1>1
      <4> QED
        BY <4>1
    <3> QED
      BY <3>1, <3>2
  <2> QED
    BY <2>1, <2>2, <2>3, <1>0 DEF EarlyAccounted
<1>9. EarlySubmitted' /\ GoneMeansLeft'
  BY <1>0, <1>2, <1>3 DEF EarlySubmitted, Submitted, GoneMeansLeft
<1> QED
  BY <1>5, <1>6, <1>7, <1>8, <1>9

\* Finishing a task moves it from running to done.
LEMMA DrainFinish ==
  ASSUME DrainInv, NEW w \in Workers, FinishItem(w)
  PROVE  /\ NoNullBefore' /\ EarlyBeforeNull' /\ EarlyGoneFirst'
         /\ EarlyAccounted' /\ EarlySubmitted' /\ GoneMeansLeft'
<1>0. /\ TypeOK /\ NoNullBefore /\ EarlyBeforeNull /\ EarlyGoneFirst
      /\ EarlyAccounted /\ EarlySubmitted /\ GoneMeansLeft
  BY DEF DrainInv
<1>1. /\ wstate[w] = "run" /\ wstate' = [wstate EXCEPT ![w] = "loop"]
      /\ done' = done \cup {workItem[w]}
      /\ UNCHANGED <<mQueue, workItem, order, early, dtor>>
  BY DEF FinishItem
<1>2. Leaving' = Leaving
  BY <1>0, <1>1 DEF Leaving, TypeOK
<1>3. NoNullBefore' /\ EarlyBeforeNull' /\ EarlyGoneFirst'
  BY <1>0, <1>1, <1>2 DEF NoNullBefore, EarlyBeforeNull, EarlyGoneFirst
<1>4. EarlyAccounted'
  BY <1>0, <1>1 DEF EarlyAccounted, TypeOK
<1>5. EarlySubmitted' /\ GoneMeansLeft'
  BY <1>0, <1>1 DEF EarlySubmitted, Submitted, GoneMeansLeft
<1> QED
  BY <1>3, <1>4, <1>5

\* Every step keeps the strengthened invariant.
LEMMA DrainStep == DrainInv /\ [Next]_vars => DrainInv'
<1> SUFFICES ASSUME DrainInv, [Next]_vars PROVE DrainInv'
  OBVIOUS
<1> DEFINE Rest == /\ NoNullBefore /\ EarlyBeforeNull /\ EarlyGoneFirst
                   /\ EarlyAccounted /\ EarlySubmitted /\ GoneMeansLeft
<1>0. TypeOK /\ RunsTask /\ InLoop /\ Rest
  BY DEF DrainInv
<1>1. TypeOK' /\ RunsTask' /\ InLoop'
  BY <1>0, TypeStep, RunsTaskStep, InLoopStep
<1> SUFFICES Rest'
  BY <1>1 DEF DrainInv
<1>2. ASSUME UNCHANGED <<mQueue, wstate, workItem, order, done, early, dtor>>
      PROVE  Rest'
  BY <1>0, <1>2 DEF NoNullBefore, EarlyBeforeNull, EarlyGoneFirst, Leaving,
                    EarlyAccounted, EarlySubmitted, Submitted, GoneMeansLeft
<1>3. CASE UNCHANGED vars
  BY <1>2, <1>3 DEF vars
<1>4. ASSUME NEW t \in Tasks, Enqueue(t),
             dtor = "no" \/ \E w \in Workers : wstate[w] = "run"
      PROVE  Rest'
  BY <1>4, DrainEnqueue
<1>5. ASSUME NEW w \in Workers, Quiet(w) PROVE Rest'
  BY <1>0, <1>2, <1>5, QueueSilent DEF Quiet, CallWaitAndPop, Sleep, Spurious
<1>6. ASSUME NEW w \in Workers, Take(w) \/ FinishItem(w) PROVE Rest'
  BY <1>6, DrainTake, DrainFinish
<1>7. ASSUME NEW w \in Workers, PassNullOn(w) PROVE Rest'
  <2>1. w \in Leaving /\ dtor # "no" /\ dtor # "done"
    BY <1>0, <1>7 DEF PassNullOn, Leaving, NoNullBefore, GoneMeansLeft
  <2>2. /\ Q!Push(Null) /\ UNCHANGED <<workItem, order, done, early, dtor>>
        /\ wstate' = [wstate EXCEPT ![w] = "exit"] /\ wstate[w] = "null"
    BY <1>7 DEF PassNullOn
  <2>3. Leaving' = Leaving
    BY <2>2, <1>0 DEF Leaving, TypeOK
  <2>4. \A v \in Workers : wstate[v] = "run" => wstate'[v] = "run"
    BY <2>2, <1>0 DEF TypeOK
  <2> QED
    BY <2>1, <2>2, <2>3, <2>4, DrainPushNull
<1>8. CASE DestructorPush
  <2>1. /\ Q!Push(Null) /\ dtor' = "join"
        /\ UNCHANGED <<wstate, workItem, order, done, early>>
    BY <1>8 DEF DestructorPush
  <2>2. Leaving' = Leaving
    BY <2>1 DEF Leaving
  <2> QED
    BY <2>1, <2>2, DrainPushNull
<1>9. CASE DestructorJoined
  BY <1>0, <1>9 DEF DestructorJoined, NoNullBefore, EarlyBeforeNull, Leaving,
                    EarlyGoneFirst, EarlyAccounted, EarlySubmitted, Submitted,
                    GoneMeansLeft
<1> QED
  BY <1>3, <1>4, <1>5, <1>6, <1>7, <1>8, <1>9, NextCases

\* The strengthened invariant holds when the pool is built.
LEMMA DrainInit == Init => DrainInv
<1>1. Init => TypeOK /\ RunsTask
  BY InitTypes
<1>2. Init => InLoop /\ NoNullBefore /\ EarlyBeforeNull /\ EarlyGoneFirst
  BY DEF Init, Q!QInit, InLoop, NoNullBefore, EarlyBeforeNull,
         EarlyGoneFirst, Leaving
<1>3. Init => EarlyAccounted /\ EarlySubmitted /\ GoneMeansLeft
  BY DEF Init, EarlyAccounted, EarlySubmitted, GoneMeansLeft
<1> QED
  BY <1>1, <1>2, <1>3 DEF DrainInv

\* ~thread_pool returns only when every task handed in before it was called
\* has been run to its end, for any number of workers and tasks.
THEOREM PoolDrained == Spec => []DrainedWhenGone
<1>1. Init => DrainInv
  BY DrainInit
<1>2. DrainInv => DrainedWhenGone
  <2> SUFFICES ASSUME DrainInv, dtor = "done", NEW t \in early PROVE t \in done
    BY DEF DrainedWhenGone
  <2>1. \A w \in Workers : wstate[w] = "exit"
    BY DEF DrainInv, GoneMeansLeft
  <2>2. Leaving # {}
    BY <2>1, PoolAssumption DEF Leaving
  <2>3. \A i \in 1..Len(mQueue) : mQueue[i] # t
    BY <2>2 DEF DrainInv, EarlyGoneFirst
  <2> QED
    BY <2>1, <2>3 DEF DrainInv, EarlyAccounted
<1> QED
  BY <1>1, <1>2, DrainStep, PTL DEF Spec

-----------------------------------------------------------------------------

NullsQueued == {i \in DOMAIN mQueue : mQueue[i] = Null}
NullHolders == {w \in Workers : wstate[w] = "null"}

\* Where the null item is: nowhere, in the queue, or in one worker's hands.
NullPlace ==
  \/ dtor = "no" /\ NullsQueued = {} /\ NullHolders = {}
  \/ dtor # "no" /\ NullHolders = {} /\ \E n \in DOMAIN mQueue : NullsQueued = {n}
  \/ dtor # "no" /\ NullsQueued = {} /\ \E w \in Workers : NullHolders = {w}

\* What was started is a prefix of what was handed in ...
StartedFirst ==
  /\ Len(started) <= Len(order)
  /\ \A i \in 1..Len(started) : order[i] = started[i]

\* ... and the queue holds the rest, position by position: the items before
\* the null item at n, or before the end, and the items behind it.
QueuedBefore(n) ==
  \A i \in 1..(n - 1) : order[Len(started) + i] = mQueue[i]

QueuedBehind(n) ==
  \A i \in (n + 1)..Len(mQueue) : order[Len(started) + i - 1] = mQueue[i]

QueuedNext ==
  \/ /\ Len(order) = Len(started) + Len(mQueue)
     /\ QueuedBefore(Len(mQueue) + 1)
  \/ \E n \in 1..Len(mQueue) :
       /\ mQueue[n] = Null
       /\ Len(order) = Len(started) + Len(mQueue) - 1
       /\ QueuedBefore(n) /\ QueuedBehind(n)

DueInv == TypeOK /\ RunsTask /\ InLoop /\ NullPlace /\ StartedFirst /\ QueuedNext

\* Handing in a task appends it to the order and to the queue.
LEMMA DueEnqueue ==
  ASSUME DueInv, NEW t \in Tasks, Enqueue(t)
  PROVE  NullPlace' /\ StartedFirst' /\ QueuedNext'
<1>0. TypeOK /\ NullPlace /\ StartedFirst /\ QueuedNext
  BY DEF DueInv
<1>1. /\ Len(mQueue') = Len(mQueue) + 1 /\ Len(mQueue) \in Nat
      /\ \A i \in 1..Len(mQueue) : mQueue'[i] = mQueue[i]
      /\ mQueue'[Len(mQueue) + 1] = t
      /\ DOMAIN mQueue = 1..Len(mQueue) /\ DOMAIN mQueue' = 1..Len(mQueue')
  BY <1>0, PushEffect DEF Enqueue, TypeOK, Q!QTypeOK
<1>2. /\ Len(order') = Len(order) + 1 /\ Len(order) \in Nat
      /\ \A i \in 1..Len(order) : order'[i] = order[i]
      /\ order'[Len(order) + 1] = t
      /\ Len(started) \in Nat
      /\ UNCHANGED <<wstate, started, dtor>>
  BY <1>0 DEF Enqueue, TypeOK
<1>3. NullPlace'
  <2>1. NullHolders' = NullHolders
    BY <1>2 DEF NullHolders
  <2>2. NullsQueued' = NullsQueued /\ NullsQueued \subseteq DOMAIN mQueue
    BY <1>1, PoolAssumption DEF NullsQueued
  <2> QED
    BY <1>0, <1>1, <1>2, <2>1, <2>2 DEF NullPlace
<1>4. StartedFirst'
  BY <1>0, <1>2 DEF StartedFirst
<1>5. QueuedNext'
  <2>1. ASSUME Len(order) = Len(started) + Len(mQueue), QueuedBefore(Len(mQueue) + 1)
        PROVE  QueuedNext'
    <3>1. ASSUME NEW i \in 1..Len(mQueue')
          PROVE  order'[Len(started) + i] = mQueue'[i]
      <4>1. CASE i \in 1..Len(mQueue)
        <5>1. Len(started) + i \in 1..Len(order)
          BY <4>1, <2>1, <1>1, <1>2
        <5>2. order[Len(started) + i] = mQueue[i]
          BY <4>1, <2>1, <1>1 DEF QueuedBefore
        <5> QED
          BY <4>1, <5>1, <5>2, <1>1, <1>2
      <4>2. CASE i = Len(mQueue) + 1
        BY <4>2, <2>1, <1>1, <1>2
      <4> QED
        BY <4>1, <4>2, <1>1
    <3>2. Len(order') = Len(started') + Len(mQueue')
      BY <2>1, <1>1, <1>2
    <3>3. (Len(mQueue') + 1) - 1 = Len(mQueue') /\ started' = started
      BY <1>1, <1>2
    <3>4. QueuedBefore(Len(mQueue) + 1)'
      BY <3>1, <3>3 DEF QueuedBefore
    <3> QED
      BY <3>2, <3>4 DEF QueuedNext
  <2>2. ASSUME NEW n \in 1..Len(mQueue), mQueue[n] = Null,
               Len(order) = Len(started) + Len(mQueue) - 1,
               QueuedBefore(n), QueuedBehind(n)
        PROVE  QueuedNext'
    <3>1. n \in 1..Len(mQueue') /\ mQueue'[n] = Null
      BY <2>2, <1>1
    <3>2. \A i \in 1..(n - 1) : order'[Len(started) + i] = mQueue'[i]
      BY <2>2, <1>1, <1>2 DEF QueuedBefore
    <3>3. ASSUME NEW i \in (n + 1)..Len(mQueue')
          PROVE  order'[Len(started) + i - 1] = mQueue'[i]
      <4>1. CASE i \in (n + 1)..Len(mQueue)
        <5>1. Len(started) + i - 1 \in 1..Len(order)
          BY <4>1, <2>2, <1>1, <1>2
        <5>2. order[Len(started) + i - 1] = mQueue[i]
          BY <4>1, <2>2, <1>1 DEF QueuedBehind
        <5> QED
          BY <4>1, <5>1, <5>2, <1>1, <1>2
      <4>2. CASE i = Len(mQueue) + 1
        BY <4>2, <2>2, <1>1, <1>2
      <4> QED
        BY <4>1, <4>2, <1>1
    <3>4. Len(order') = Len(started') + Len(mQueue') - 1 /\ started' = started
      BY <2>2, <1>1, <1>2
    <3>5. QueuedBefore(n)' /\ QueuedBehind(n)'
      BY <3>2, <3>3, <3>4 DEF QueuedBefore, QueuedBehind
    <3> QED
      BY <3>1, <3>4, <3>5 DEF QueuedNext
  <2> QED
    BY <1>0, <2>1, <2>2 DEF QueuedNext
<1> QED
  BY <1>3, <1>4, <1>5

\* Pushing the null item while none is queued.
LEMMA DuePushNull ==
  ASSUME DueInv, Q!Push(Null), NullsQueued = {}, UNCHANGED <<order, started>>,
         dtor' # "no", NullHolders' = {}
  PROVE  NullPlace' /\ StartedFirst' /\ QueuedNext'
<1>0. TypeOK /\ StartedFirst /\ QueuedNext
  BY DEF DueInv
<1>1. /\ Len(mQueue') = Len(mQueue) + 1 /\ Len(mQueue) \in Nat
      /\ \A i \in 1..Len(mQueue) : mQueue'[i] = mQueue[i]
      /\ mQueue'[Len(mQueue) + 1] = Null
      /\ DOMAIN mQueue = 1..Len(mQueue) /\ DOMAIN mQueue' = 1..Len(mQueue')
  BY <1>0, PushEffect DEF TypeOK, Q!QTypeOK
<1>2. NullPlace'
  <2>1. NullsQueued' = {Len(mQueue) + 1}
    BY <1>1 DEF NullsQueued
  <2> QED
    BY <1>1, <2>1 DEF NullPlace
<1>3. StartedFirst'
  BY <1>0 DEF StartedFirst
<1>4. QueuedNext'
  <2>1. /\ Len(order) = Len(started) + Len(mQueue)
        /\ QueuedBefore(Len(mQueue) + 1)
    BY <1>0, <1>1 DEF QueuedNext, NullsQueued
  <2>2. \A i \in 1..Len(mQueue) : order'[Len(started) + i] = mQueue'[i]
    BY <2>1, <1>1 DEF QueuedBefore
  <2>0. PICK n \in Nat : n = Len(mQueue) + 1
    BY <1>1
  <2>3. n \in 1..Len(mQueue') /\ mQueue'[n] = Null /\ n - 1 = Len(mQueue)
    BY <1>1, <2>0
  <2>4. Len(order') = Len(started') + Len(mQueue') - 1
    BY <2>1, <1>0, <1>1 DEF TypeOK
  <2>5. QueuedBefore(n)' /\ QueuedBehind(n)'
    BY <2>2, <2>3, <1>1 DEF QueuedBefore, QueuedBehind
  <2> QED
    BY <2>3, <2>4, <2>5 DEF QueuedNext
<1> QED
  BY <1>2, <1>3, <1>4

\* Taking the first item moves it from the queue to the worker: a task to the
\* end of what was started, the null item into the worker's hands.
LEMMA DueTake ==
  ASSUME DueInv, NEW w \in Workers, Take(w)
  PROVE  NullPlace' /\ StartedFirst' /\ QueuedNext'
<1>0. TypeOK /\ InLoop /\ NullPlace /\ StartedFirst /\ QueuedNext
  BY DEF DueInv
<1>1. /\ Len(mQueue) \in Nat \ {0} /\ Len(mQueue') = Len(mQueue) - 1
      /\ \A i \in 1..(Len(mQueue) - 1) : mQueue'[i] = mQueue[i + 1]
      /\ Head(mQueue) = mQueue[1]
      /\ DOMAIN mQueue = 1..Len(mQueue) /\ DOMAIN mQueue' = 1..Len(mQueue')
  BY <1>0, PopEffect DEF Take, TypeOK, Q!QTypeOK
<1>2. wstate[w] = "loop" /\ Len(order) \in Nat /\ Len(started) \in Nat
  BY <1>0 DEF Take, Q!PopFront, Q!Active, InLoop, TypeOK
<1>3. UNCHANGED <<order, dtor>>
  BY DEF Take
<1>4. CASE mQueue[1] = Null
  <2>1. wstate' = [wstate EXCEPT ![w] = "null"] /\ started' = started
    BY <1>1, <1>4 DEF Take
  <2>2. NullsQueued = {1} /\ NullHolders = {} /\ dtor # "no"
    BY <1>0, <1>1, <1>4 DEF NullPlace, NullsQueued
  <2>3. NullHolders' = {w}
    BY <2>1, <2>2, <1>0 DEF NullHolders, TypeOK
  <2>4. NullsQueued' = {}
    <3> SUFFICES ASSUME NEW i \in 1..(Len(mQueue) - 1), mQueue[i + 1] = Null
                 PROVE  FALSE
      BY <1>1 DEF NullsQueued
    <3>1. i + 1 \in NullsQueued /\ i + 1 # 1
      BY <1>1 DEF NullsQueued
    <3> QED
      BY <3>1, <2>2
  <2>5. NullPlace'
    BY <2>2, <2>3, <2>4, <1>3 DEF NullPlace
  <2>6. StartedFirst'
    BY <2>1, <1>0, <1>3 DEF StartedFirst
  <2>7. Len(order) = Len(started) + Len(mQueue) - 1 /\ QueuedBehind(1)
    <3>1. CASE Len(order) = Len(started) + Len(mQueue) /\ QueuedBefore(Len(mQueue) + 1)
      <4>1. order[Len(started) + 1] = Null
        BY <3>1, <1>1, <1>4 DEF QueuedBefore
      <4>2. Len(started) + 1 \in 1..Len(order) /\ order \in Seq(Tasks)
        BY <3>1, <1>0, <1>1, <1>2 DEF TypeOK
      <4> QED
        BY <4>1, <4>2, PoolAssumption
    <3>2. ASSUME NEW n \in 1..Len(mQueue), mQueue[n] = Null,
                 Len(order) = Len(started) + Len(mQueue) - 1,
                 QueuedBefore(n), QueuedBehind(n)
          PROVE  Len(order) = Len(started) + Len(mQueue) - 1 /\ QueuedBehind(1)
      BY <3>2, <2>2, <1>1 DEF NullsQueued
    <3> QED
      BY <3>1, <3>2, <1>0 DEF QueuedNext
  <2>8. \A i \in 1..Len(mQueue') : order'[Len(started') + i] = mQueue'[i]
    <3> SUFFICES ASSUME NEW i \in 1..(Len(mQueue) - 1)
                 PROVE  order[Len(started) + i] = mQueue[i + 1]
      BY <1>1, <1>3, <2>1
    <3>1. i + 1 \in (1 + 1)..Len(mQueue) /\ Len(started) + (i + 1) - 1 = Len(started) + i
      BY <1>1, <1>2
    <3> QED
      BY <3>1, <2>7 DEF QueuedBehind
  <2>9. QueuedNext'
    BY <2>1, <2>7, <2>8, <1>1, <1>2, <1>3 DEF QueuedNext, QueuedBefore
  <2> QED
    BY <2>5, <2>6, <2>9
<1>5. CASE mQueue[1] # Null
  <2>1. /\ wstate' = [wstate EXCEPT ![w] = "run"]
        /\ started' = Append(started, mQueue[1])
    BY <1>1, <1>5 DEF Take
  <2>2. /\ Len(started') = Len(started) + 1
        /\ \A i \in 1..Len(started) : started'[i] = started[i]
        /\ started'[Len(started) + 1] = mQueue[1]
    BY <2>1, <1>0 DEF TypeOK
  <2>3. NullHolders' = NullHolders
    BY <2>1, <1>0, <1>2 DEF NullHolders, TypeOK
  <2>4. ASSUME NEW n \in 1..Len(mQueue), NullsQueued = {n}
        PROVE  n - 1 \in DOMAIN mQueue' /\ NullsQueued' = {n - 1}
    <3>1. n - 1 \in 1..(Len(mQueue) - 1) /\ mQueue[n] = Null
      BY <2>4, <1>1, <1>5 DEF NullsQueued
    <3>2. ASSUME NEW i \in 1..(Len(mQueue) - 1)
          PROVE  mQueue'[i] = Null <=> i = n - 1
      <4>1. i + 1 \in DOMAIN mQueue /\ mQueue'[i] = mQueue[i + 1]
        BY <1>1
      <4>2. mQueue[i + 1] = Null <=> i + 1 = n
        BY <4>1, <2>4 DEF NullsQueued
      <4> QED
        BY <4>1, <4>2
    <3> QED
      BY <3>1, <3>2, <1>1 DEF NullsQueued
  <2>5. NullsQueued = {} => NullsQueued' = {}
    <3> SUFFICES ASSUME NullsQueued = {}, NEW i \in 1..(Len(mQueue) - 1)
                 PROVE  mQueue[i + 1] # Null
      BY <1>1 DEF NullsQueued
    <3> QED
      BY <1>1 DEF NullsQueued
  <2>6. NullPlace'
    BY <2>3, <2>4, <2>5, <1>0, <1>1, <1>3 DEF NullPlace
  <2>7. order[Len(started) + 1] = mQueue[1] /\ Len(started) + 1 <= Len(order)
    <3>1. CASE Len(order) = Len(started) + Len(mQueue) /\ QueuedBefore(Len(mQueue) + 1)
      BY <3>1, <1>1, <1>2 DEF QueuedBefore
    <3>2. ASSUME NEW n \in 1..Len(mQueue), mQueue[n] = Null,
                 Len(order) = Len(started) + Len(mQueue) - 1,
                 QueuedBefore(n), QueuedBehind(n)
          PROVE  order[Len(started) + 1] = mQueue[1] /\ Len(started) + 1 <= Len(order)
      <4>1. n # 1 /\ 1 \in 1..(n - 1)
        BY <3>2, <1>1, <1>5
      <4> QED
        BY <4>1, <3>2, <1>1, <1>2 DEF QueuedBefore
    <3> QED
      BY <3>1, <3>2, <1>0 DEF QueuedNext
  <2>8. StartedFirst'
    BY <2>2, <2>7, <1>0, <1>2, <1>3 DEF StartedFirst
  <2>lens. /\ Len(mQueue) \in Nat \ {0} /\ Len(mQueue') = Len(mQueue) - 1
         /\ Len(order) \in Nat /\ Len(started) \in Nat /\ order' = order
    BY <1>1, <1>2, <1>3
  <2>9. QueuedNext'
    <3>1. ASSUME Len(order) = Len(started) + Len(mQueue), QueuedBefore(Len(mQueue) + 1)
          PROVE  QueuedNext'
      <4>1. ASSUME NEW i \in 1..(Len(mQueue) - 1)
            PROVE  order[Len(started) + 1 + i] = mQueue'[i]
        <5>1. i + 1 \in 1..Len(mQueue) /\ Len(started) + 1 + i = Len(started) + (i + 1)
          BY <1>1, <1>2
        <5> QED
          BY <5>1, <3>1, <1>1 DEF QueuedBefore
      <4>2. Len(order') = Len(started') + Len(mQueue')
        BY <3>1, <2>2, <2>lens
      <4>3. QueuedBefore(Len(mQueue) + 1)'
        BY <4>1, <2>2, <2>lens DEF QueuedBefore
      <4> QED
        BY <4>2, <4>3 DEF QueuedNext
    <3>2. ASSUME NEW n \in 1..Len(mQueue), mQueue[n] = Null,
                 Len(order) = Len(started) + Len(mQueue) - 1,
                 QueuedBefore(n), QueuedBehind(n)
          PROVE  QueuedNext'
      <4>0. PICK k \in Nat : k = n - 1 /\ n # 1
        BY <3>2, <1>1, <1>5
      <4>1. k \in 1..Len(mQueue') /\ mQueue'[k] = Null
        BY <4>0, <3>2, <1>1
      <4>2. Len(order') = Len(started') + Len(mQueue') - 1
        BY <3>2, <2>2, <2>lens
      <4>3. QueuedBefore(k)'
        <5> SUFFICES ASSUME NEW i \in 1..(k - 1)
                     PROVE  order[Len(started) + 1 + i] = mQueue'[i]
          BY <2>2, <1>3 DEF QueuedBefore
        <5>1. /\ i + 1 \in 1..(n - 1) /\ i \in 1..(Len(mQueue) - 1)
              /\ Len(started) + 1 + i = Len(started) + (i + 1)
          BY <4>0, <1>1, <1>2
        <5> QED
          BY <5>1, <3>2, <1>1 DEF QueuedBefore
      <4>4. QueuedBehind(k)'
        <5> SUFFICES ASSUME NEW i \in (k + 1)..(Len(mQueue) - 1)
                     PROVE  order[Len(started) + 1 + i - 1] = mQueue'[i]
          BY <2>2, <1>1, <1>3 DEF QueuedBehind
        <5>1. /\ i + 1 \in (n + 1)..Len(mQueue) /\ i \in 1..(Len(mQueue) - 1)
              /\ Len(started) + 1 + i - 1 = Len(started) + (i + 1) - 1
          BY <4>0, <1>1, <1>2
        <5> QED
          BY <5>1, <3>2, <1>1 DEF QueuedBehind
      <4> QED
        BY <4>1, <4>2, <4>3, <4>4 DEF QueuedNext
    <3> QED
      BY <3>1, <3>2, <1>0 DEF QueuedNext
  <2> QED
    BY <2>6, <2>8, <2>9
<1> QED
  BY <1>4, <1>5

\* Every step keeps what the queue holds.
LEMMA DueStep == DueInv /\ [Next]_vars => DueInv'
<1> SUFFICES ASSUME DueInv, [Next]_vars PROVE DueInv'
  OBVIOUS
<1> DEFINE Due == NullPlace /\ StartedFirst /\ QueuedNext
<1>0. TypeOK /\ RunsTask /\ InLoop /\ Due
  BY DEF DueInv
<1>1. TypeOK' /\ RunsTask' /\ InLoop'
  BY <1>0, TypeStep, RunsTaskStep, InLoopStep
<1> SUFFICES Due'
  BY <1>1 DEF DueInv
<1>2. ASSUME UNCHANGED <<mQueue, order, started, dtor>>, NullHolders' = NullHolders
      PROVE  Due'
  BY <1>0, <1>2 DEF NullPlace, NullsQueued, StartedFirst, QueuedNext,
                    QueuedBefore, QueuedBehind
<1>3. CASE UNCHANGED vars
  BY <1>2, <1>3 DEF vars, NullHolders
<1>4. ASSUME NEW t \in Tasks, Enqueue(t) PROVE Due'
  BY <1>4, DueEnqueue
<1>5. ASSUME NEW w \in Workers, Quiet(w) PROVE Due'
  BY <1>0, <1>2, <1>5, QueueSilent
     DEF Quiet, CallWaitAndPop, Sleep, Spurious, NullHolders
<1>6. ASSUME NEW w \in Workers, Take(w) PROVE Due'
  BY <1>6, DueTake
<1>7. ASSUME NEW w \in Workers, FinishItem(w) PROVE Due'
  <2>1. NullHolders' = NullHolders
    BY <1>0, <1>7 DEF FinishItem, NullHolders, TypeOK
  <2> QED
    BY <1>2, <1>7, <2>1 DEF FinishItem
<1>8. ASSUME NEW w \in Workers, PassNullOn(w) PROVE Due'
  <2>1. w \in NullHolders
    BY <1>8 DEF PassNullOn, NullHolders
  <2>2. NullHolders = {w} /\ NullsQueued = {} /\ dtor # "no"
    BY <1>0, <2>1 DEF NullPlace
  <2>3. NullHolders' = {}
    BY <1>0, <1>8, <2>2 DEF PassNullOn, NullHolders, TypeOK
  <2> QED
    BY <1>8, <2>2, <2>3, DuePushNull DEF PassNullOn
<1>9. CASE DestructorPush
  <2>1. NullHolders = {} /\ NullsQueued = {}
    BY <1>0, <1>9 DEF DestructorPush, NullPlace
  <2>2. NullHolders' = {}
    BY <1>9, <2>1 DEF DestructorPush, NullHolders
  <2> QED
    BY <1>9, <2>1, <2>2, DuePushNull DEF DestructorPush
<1>10. CASE DestructorJoined
  <2>1. UNCHANGED <<mQueue, wstate, order, started>> /\ dtor # "no" /\ dtor' # "no"
    BY <1>10 DEF DestructorJoined
  <2>2. NullHolders' = NullHolders /\ NullsQueued' = NullsQueued
    BY <2>1 DEF NullHolders, NullsQueued
  <2>3. NullPlace'
    BY <1>0, <2>1, <2>2 DEF NullPlace
  <2>4. StartedFirst' /\ QueuedNext'
    BY <1>0, <2>1 DEF StartedFirst, QueuedNext, QueuedBefore, QueuedBehind
  <2> QED
    BY <2>3, <2>4
<1> QED
  BY <1>3, <1>4, <1>5, <1>6, <1>7, <1>8, <1>9, <1>10, NextCases

\* The positions say what FifoDispatch says of the sequences.
LEMMA DueFifo == DueInv => FifoDispatch
<1> SUFFICES ASSUME DueInv PROVE FifoDispatch
  OBVIOUS
<1> DEFINE All == Tasks \cup {Null}
           m == Len(mQueue)
           k == Len(started)
<1>0. /\ mQueue \in Seq(All) /\ order \in Seq(All) /\ started \in Seq(All)
      /\ m \in Nat /\ k \in Nat /\ DOMAIN mQueue = 1..m
      /\ StartedFirst /\ QueuedNext
  BY DEF DueInv, TypeOK, Q!QTypeOK
<1>1. CASE Len(order) = k + m /\ QueuedBefore(m + 1)
  <2>1. /\ started \o mQueue \in Seq(All) /\ Len(started \o mQueue) = k + m
        /\ \A i \in 1..k : (started \o mQueue)[i] = started[i]
        /\ \A i \in 1..m : (started \o mQueue)[k + i] = mQueue[i]
    BY <1>0
  <2>2. ASSUME NEW i \in 1..(k + m) PROVE order[i] = (started \o mQueue)[i]
    <3>1. CASE i \in 1..k
      BY <3>1, <2>1, <1>0 DEF StartedFirst
    <3>2. CASE i \notin 1..k
      <4>1. PICK j \in 1..m : i = k + j
        <5>1. i - k \in 1..m /\ i = k + (i - k)
          BY <3>2, <1>0
        <5> QED
          BY <5>1
      <4> QED
        BY <4>1, <2>1, <1>1, <1>0 DEF QueuedBefore
    <3> QED
      BY <3>1, <3>2
  <2>3. order = started \o mQueue
    BY <2>1, <2>2, <1>0, <1>1, SeqEqual
  <2> QED
    BY <2>3 DEF FifoDispatch
<1>2. ASSUME NEW n \in 1..m, mQueue[n] = Null, Len(order) = k + m - 1,
             QueuedBefore(n), QueuedBehind(n)
      PROVE  FifoDispatch
  <2> DEFINE a == SubSeq(mQueue, 1, n - 1)
             b == SubSeq(mQueue, n + 1, m)
             s == started \o a
  <2>0. n \in Nat /\ 1 <= n /\ n <= m
    BY <1>0
  <2>1. /\ a \in Seq(All) /\ Len(a) = n - 1 /\ \A i \in 1..(n - 1) : a[i] = mQueue[i]
    BY <1>0
  <2>2. /\ b \in Seq(All) /\ Len(b) = m - n
        /\ \A i \in 1..(m - n) : b[i] = mQueue[n + i]
    <3>1. \A i \in (n + 1)..m : mQueue[i] \in All
      BY <2>0, <1>0
    <3>2. /\ b \in Seq(All) /\ Len(b) = IF n + 1 <= m THEN m - (n + 1) + 1 ELSE 0
          /\ \A i \in 1..(m - (n + 1) + 1) : b[i] = mQueue[(n + 1) + i - 1]
      BY <3>1, <2>0, <1>0, SubSeqProperties
    <3>3. m - (n + 1) + 1 = m - n /\ \A i \in Int : (n + 1) + i - 1 = n + i
      BY <2>0, <1>0
    <3>4. Len(b) = m - n
      <4> HIDE DEF b, m
      <4> QED
        BY <3>2, <2>0, <1>0
    <3>5. \A i \in 1..(m - n) : b[i] = mQueue[n + i]
      <4> HIDE DEF b, m
      <4> QED
        BY <3>2, <3>3, <2>0, <1>0
    <3> QED
      BY <3>2, <3>4, <3>5
  <2> HIDE DEF a, b
  <2>3. /\ s \in Seq(All) /\ Len(s) = k + n - 1
        /\ \A i \in 1..k : s[i] = started[i]
        /\ \A i \in 1..(n - 1) : s[k + i] = a[i]
    <3>1. /\ s \in Seq(All) /\ Len(s) = Len(started) + Len(a)
          /\ \A i \in 1..(Len(started) + Len(a)) :
               s[i] = IF i <= Len(started) THEN started[i] ELSE a[i - Len(started)]
      BY <2>1, <1>0, ConcatProperties
    <3>2. \A i \in 1..(n - 1) : k + i \in 1..(k + (n - 1)) /\ ~(k + i <= k) /\ k + i - k = i
      BY <2>0, <1>0
    <3> QED
      BY <3>1, <3>2, <2>0, <2>1, <1>0
  <2> HIDE DEF s
  <2>4. /\ s \o b \in Seq(All) /\ Len(s \o b) = k + m - 1
        /\ \A i \in 1..(k + n - 1) : (s \o b)[i] = s[i]
        /\ \A i \in 1..(m - n) : (s \o b)[k + n - 1 + i] = b[i]
    <3> DEFINE c == k + n - 1
    <3>1. /\ s \o b \in Seq(All) /\ Len(s \o b) = c + (m - n)
          /\ \A i \in 1..(c + (m - n)) :
               (s \o b)[i] = IF i <= c THEN s[i] ELSE b[i - c]
      <4>1. /\ s \in Seq(All) /\ b \in Seq(All)
            /\ Len(s) = c /\ Len(b) = m - n
        BY <2>2, <2>3
      <4>2. /\ s \o b \in Seq(All) /\ Len(s \o b) = Len(s) + Len(b)
            /\ \A i \in 1..(Len(s) + Len(b)) :
                 (s \o b)[i] = IF i <= Len(s) THEN s[i] ELSE b[i - Len(s)]
        BY <4>1, ConcatProperties
      <4> HIDE DEF c, m
      <4> QED
        BY <4>1, <4>2
    <3>2. c \in Nat /\ m - n \in Nat /\ c + (m - n) = k + m - 1
      BY <2>0, <1>0
    <3> HIDE DEF c
    <3>3. \A i \in 1..c : (s \o b)[i] = s[i]
      <4>1. \A i \in 1..c : i \in 1..(c + (m - n)) /\ i <= c
        <5> HIDE DEF m
        <5> QED
          BY <3>2
      <4> QED
        BY <3>1, <4>1
    <3>4. ASSUME NEW i \in 1..(m - n) PROVE (s \o b)[c + i] = b[i]
      <4>1. PICK j : j = c + i
        OBVIOUS
      <4>2. j \in 1..(c + (m - n)) /\ ~(j <= c) /\ j - c = i
        BY <4>1, <3>2
      <4>3. (s \o b)[j] = b[j - c]
        BY <4>2, <3>1
      <4> QED
        BY <4>1, <4>2, <4>3
    <3> QED
      BY <3>1, <3>2, <3>3, <3>4 DEF c
  <2>5. ASSUME NEW i \in 1..(k + m - 1) PROVE order[i] = (s \o b)[i]
    <3>1. CASE i \in 1..k
      BY <3>1, <2>3, <2>4, <1>0 DEF StartedFirst
    <3>2. CASE i \in (k + 1)..(k + n - 1)
      <4>1. PICK j \in 1..(n - 1) : i = k + j
        <5>1. i - k \in 1..(n - 1) /\ i = k + (i - k)
          BY <3>2, <1>0
        <5> QED
          BY <5>1
      <4>2. i \in 1..(k + n - 1)
        BY <3>2, <1>0
      <4> QED
        BY <4>1, <4>2, <2>1, <2>3, <2>4, <1>2 DEF QueuedBefore
    <3>3. CASE i \in (k + n)..(k + m - 1)
      <4>1. PICK j \in 1..(m - n) : i = k + n - 1 + j
        <5>1. i - (k + n - 1) \in 1..(m - n) /\ i = k + n - 1 + (i - (k + n - 1))
          BY <3>3, <1>0
        <5> QED
          BY <5>1
      <4>2. n + j \in (n + 1)..m /\ k + (n + j) - 1 = i
        BY <4>1, <1>0
      <4>3. order[i] = mQueue[n + j]
        BY <4>2, <1>2 DEF QueuedBehind
      <4> QED
        BY <4>1, <4>3, <2>2, <2>4
    <3>4. i \in 1..k \/ i \in (k + 1)..(k + n - 1) \/ i \in (k + n)..(k + m - 1)
      <4> HIDE DEF k, m
      <4> QED
        BY <2>0, <1>0
    <3> QED
      BY <3>1, <3>2, <3>3, <3>4
  <2>6. order = s \o b
    BY <2>4, <2>5, <1>0, <1>2, SeqEqual
  <2> QED
    BY <2>6, <1>0, <1>2 DEF FifoDispatch, s, a, b
<1> QED
  BY <1>0, <1>1, <1>2 DEF QueuedNext

\* The two sets of null items have one element between them, or none.
LEMMA DueOneNull == NullPlace => OneNull
<1> SUFFICES ASSUME NullPlace PROVE OneNull
  OBVIOUS
<1>1. Cardinality({}) = 0
  BY FS_EmptySet
<1>2. \A x : Cardinality({x}) = 1
  BY FS_Singleton
<1>3. Cardinality(NullsQueued) + Cardinality(NullHolders) = IF dtor = "no" THEN 0 ELSE 1
  <2>1. CASE NullsQueued = {} /\ NullHolders = {} /\ dtor = "no"
    BY <2>1, <1>1
  <2>2. ASSUME NEW n, NullsQueued = {n}, NullHolders = {}, dtor # "no"
        PROVE  Cardinality(NullsQueued) + Cardinality(NullHolders) = 1
    <3>1. Cardinality(NullsQueued) = 1 /\ Cardinality(NullHolders) = 0
      BY <2>2, <1>1, <1>2
    <3> QED
      BY <3>1
  <2>3. ASSUME NEW w, NullsQueued = {}, NullHolders = {w}, dtor # "no"
        PROVE  Cardinality(NullsQueued) + Cardinality(NullHolders) = 1
    <3>1. Cardinality(NullsQueued) = 0 /\ Cardinality(NullHolders) = 1
      BY <2>3, <1>1, <1>2
    <3> QED
      BY <3>1
  <2> QED
    BY <2>1, <2>2, <2>3 DEF NullPlace
<1> QED
  BY <1>3 DEF OneNull, NullsQueued, NullHolders

\* The queue holds exactly the tasks that are due, in the order in which they
\* were handed in, and one null item from ~thread_pool on, for any number of
\* workers and tasks (Pool.h:24-48).
THEOREM PoolQueue == Spec => []QueueHoldsWhatIsDue
<1>1. Init => DueInv
  <2>1. Init => TypeOK /\ RunsTask
    BY InitTypes
  <2>2. Init => InLoop /\ NullPlace
    BY DEF Init, Q!QInit, InLoop, NullPlace, NullsQueued, NullHolders
  <2>3. Init => StartedFirst /\ QueuedNext
    BY DEF Init, Q!QInit, StartedFirst, QueuedNext, QueuedBefore
  <2> QED
    BY <2>1, <2>2, <2>3 DEF DueInv
<1>2. DueInv => QueueHoldsWhatIsDue
  BY DueFifo, DueOneNull DEF QueueHoldsWhatIsDue, DueInv
<1> QED
  BY <1>1, <1>2, DueStep, PTL DEF Spec

-----------------------------------------------------------------------------

\* The state of TaskPool, as the refinement mapping gives it.
Pending == {mQueue[i] : i \in DOMAIN mQueue} \ {Null}
Running == {workItem[w] : w \in {v \in Workers : wstate[v] = "run"}}
Phase == CASE dtor = "no" -> "live"
           [] dtor = "join" -> "closing"
           [] dtor = "done" -> "gone"

\* Only tasks that were handed in are queued, running or done.
HandedIn == Pending \cup Running \cup done \subseteq Submitted

\* Every task is in one place only: once in the queue, or with one worker, or
\* done.
OnePlace ==
  /\ \A i, j \in 1..Len(mQueue) : mQueue[i] = mQueue[j] /\ mQueue[i] # Null => i = j
  /\ \A v, w \in Workers :
       wstate[v] = "run" /\ wstate[w] = "run" /\ workItem[v] = workItem[w] => v = w
  /\ Pending \cap Running = {} /\ Pending \cap done = {} /\ Running \cap done = {}

OnceInv == DrainInv /\ HandedIn /\ OnePlace

\* The members of Pending and Running, item by item and worker by worker.
Members ==
  /\ DOMAIN mQueue = 1..Len(mQueue) /\ Len(mQueue) \in Nat
  /\ \A x : x \in Pending <=> x # Null /\ \E i \in 1..Len(mQueue) : mQueue[i] = x
  /\ \A x : x \in Running <=> \E w \in Workers : wstate[w] = "run" /\ workItem[w] = x

\* The types are all that Members needs, in any state ...
LEMMA PendingIs == TypeOK => Members
<1> SUFFICES ASSUME TypeOK PROVE Members
  OBVIOUS
<1>1. mQueue \in Seq(Tasks \cup {Null})
  BY DEF TypeOK, Q!QTypeOK
<1>2. DOMAIN mQueue = 1..Len(mQueue) /\ Len(mQueue) \in Nat
  BY <1>1
<1>3. \A x : x \in Pending <=> x # Null /\ \E i \in 1..Len(mQueue) : mQueue[i] = x
  BY <1>2 DEF Pending
<1>4. \A x : x \in Running <=> \E w \in Workers : wstate[w] = "run" /\ workItem[w] = x
  BY DEF Running
<1> QED
  BY <1>2, <1>3, <1>4 DEF Members

\* ... the next one included.
LEMMA PendingIsNext == TypeOK' => Members'
BY PendingIs, PTL

\* Handing in a task adds it to the pending ones; it was nowhere before.
LEMMA OnceEnqueue ==
  ASSUME OnceInv, TypeOK', NEW t \in Tasks, Enqueue(t)
  PROVE  /\ HandedIn' /\ OnePlace'
         /\ t \notin Pending \cup Running \cup done
         /\ Pending' = Pending \cup {t} /\ Running' = Running
<1>0. TypeOK /\ HandedIn /\ OnePlace
  BY DEF OnceInv, DrainInv
<1>1. /\ Len(mQueue') = Len(mQueue) + 1 /\ Len(mQueue) \in Nat
      /\ \A i \in 1..Len(mQueue) : mQueue'[i] = mQueue[i]
      /\ mQueue'[Len(mQueue) + 1] = t
  BY <1>0, PushEffect DEF Enqueue
<1>2. UNCHANGED <<wstate, workItem, done>> /\ t \notin Submitted /\ t # Null
  BY PoolAssumption DEF Enqueue
<1>3. t \notin Pending \cup Running \cup done
  BY <1>0, <1>2 DEF HandedIn
<1>4. Running' = Running
  BY <1>2 DEF Running
<1>5. Pending' = Pending \cup {t}
  <2>1. \A x : x \in Pending' <=> x # Null /\ \E i \in 1..Len(mQueue') : mQueue'[i] = x
    BY PendingIsNext DEF Members
  <2>2. \A x : x \in Pending <=> x # Null /\ \E i \in 1..Len(mQueue) : mQueue[i] = x
    BY <1>0, PendingIs DEF Members
  <2>3. \A i : i \in 1..Len(mQueue') <=> i \in 1..Len(mQueue) \/ i = Len(mQueue) + 1
    BY <1>1
  <2>4. ASSUME NEW x PROVE x \in Pending' <=> x \in Pending \cup {t}
    BY <2>1, <2>2, <2>3, <1>1, <1>2
  <2> QED
    BY <2>4
<1>6. Submitted' = Submitted \cup {t}
  <2>1. /\ order' = Append(order, t) /\ order \in Seq(Tasks) /\ Len(order) \in Nat
        /\ DOMAIN order = 1..Len(order)
    BY <1>0 DEF Enqueue, TypeOK
  <2>2. /\ DOMAIN order' = 1..(Len(order) + 1) /\ order'[Len(order) + 1] = t
        /\ \A i \in 1..Len(order) : order'[i] = order[i]
    BY <2>1
  <2>3. \A i : i \in DOMAIN order' <=> i \in DOMAIN order \/ i = Len(order) + 1
    BY <2>1, <2>2
  <2> QED
    BY <2>1, <2>2, <2>3 DEF Submitted
<1>7. HandedIn'
  BY <1>0, <1>2, <1>4, <1>5, <1>6 DEF HandedIn
<1>8. OnePlace'
  <2>1. ASSUME NEW i \in 1..Len(mQueue'), NEW j \in 1..Len(mQueue'),
               mQueue'[i] = mQueue'[j], mQueue'[i] # Null
        PROVE  i = j
    <3>1. \A h \in 1..Len(mQueue) : mQueue[h] # t
      BY <1>0, <1>2, <1>3, PendingIs DEF Members
    <3> QED
      BY <2>1, <3>1, <1>0, <1>1 DEF OnePlace
  <2>2. /\ Pending' \cap Running' = {} /\ Pending' \cap done' = {}
        /\ Running' \cap done' = {}
    BY <1>0, <1>2, <1>3, <1>4, <1>5 DEF OnePlace
  <2> QED
    BY <2>1, <2>2, <1>0, <1>2 DEF OnePlace
<1> QED
  BY <1>3, <1>4, <1>5, <1>7, <1>8

\* Pushing the null item changes nothing of this.
LEMMA OncePushNull ==
  ASSUME OnceInv, TypeOK', Q!Push(Null), UNCHANGED <<workItem, order, done>>,
         \A w \in Workers : wstate[w] = "run" <=> wstate'[w] = "run"
  PROVE  HandedIn' /\ OnePlace' /\ Pending' = Pending /\ Running' = Running
<1>0. TypeOK /\ HandedIn /\ OnePlace
  BY DEF OnceInv, DrainInv
<1>1. /\ Len(mQueue') = Len(mQueue) + 1 /\ Len(mQueue) \in Nat
      /\ \A i \in 1..Len(mQueue) : mQueue'[i] = mQueue[i]
      /\ mQueue'[Len(mQueue) + 1] = Null
  BY <1>0, PushEffect
<1>2. Running' = Running
  BY DEF Running
<1>3. Pending' = Pending
  <2>1. \A x : x \in Pending' <=> x # Null /\ \E i \in 1..Len(mQueue') : mQueue'[i] = x
    BY PendingIsNext DEF Members
  <2>2. ASSUME NEW x PROVE x \in Pending' <=> x \in Pending
    BY <2>1, <1>0, <1>1, PendingIs DEF Members
  <2> QED
    BY <2>2
<1>4. HandedIn'
  BY <1>0, <1>2, <1>3 DEF HandedIn, Submitted
<1>5. \A i, j \in 1..Len(mQueue') : mQueue'[i] = mQueue'[j] /\ mQueue'[i] # Null => i = j
  BY <1>0, <1>1 DEF OnePlace
<1>6. OnePlace'
  BY <1>0, <1>2, <1>3, <1>5 DEF OnePlace
<1> QED
  BY <1>2, <1>3, <1>4, <1>6

\* Taking an item moves a task from the pending ones to the running ones.
LEMMA OnceTake ==
  ASSUME OnceInv, TypeOK', NEW w \in Workers, Take(w)
  PROVE  /\ HandedIn' /\ OnePlace' /\ wstate[w] = "loop"
         /\ \/ mQueue[1] = Null /\ Pending' = Pending /\ Running' = Running
            \/ /\ mQueue[1] \in Pending
               /\ Pending' = Pending \ {mQueue[1]}
               /\ Running' = Running \cup {mQueue[1]}
<1>0. TypeOK /\ InLoop /\ HandedIn /\ OnePlace
  BY DEF OnceInv, DrainInv
<1>1. /\ Len(mQueue) \in Nat \ {0} /\ Len(mQueue') = Len(mQueue) - 1
      /\ \A i \in 1..(Len(mQueue) - 1) : mQueue'[i] = mQueue[i + 1]
      /\ Head(mQueue) = mQueue[1]
  BY <1>0, PopEffect DEF Take
<1>2. wstate[w] = "loop"
  BY <1>0 DEF Take, Q!PopFront, Q!Active, InLoop
<1>3. /\ UNCHANGED <<order, done>>
      /\ \A v \in Workers \ {w} : wstate'[v] = wstate[v] /\ workItem'[v] = workItem[v]
      /\ workItem'[w] = mQueue[1]
      /\ wstate'[w] = IF mQueue[1] = Null THEN "null" ELSE "run"
  BY <1>0, <1>1 DEF Take, TypeOK
<1>4. ASSUME NEW x, x # Null
      PROVE  x \in Pending' <=> x \in Pending /\ x # mQueue[1]
  <2>1. x \in Pending' <=> \E i \in 1..Len(mQueue') : mQueue'[i] = x
    BY <1>4, PendingIsNext DEF Members
  <2>2. x \in Pending <=> \E i \in 1..Len(mQueue) : mQueue[i] = x
    BY <1>0, <1>4, PendingIs DEF Members
  <2>3. ASSUME NEW i \in 1..Len(mQueue'), mQueue'[i] = x
        PROVE  x \in Pending /\ x # mQueue[1]
    <3>1. i + 1 \in 1..Len(mQueue) /\ mQueue[i + 1] = x /\ i + 1 # 1 /\ 1 \in 1..Len(mQueue)
      BY <2>3, <1>1
    <3>2. x \in Pending
      BY <3>1, <2>2
    <3>3. x # mQueue[1]
      BY <3>1, <1>0, <1>4 DEF OnePlace
    <3> QED
      BY <3>2, <3>3
  <2>4. ASSUME NEW i \in 1..Len(mQueue), mQueue[i] = x, x # mQueue[1]
        PROVE  x \in Pending'
    <3>1. i - 1 \in 1..Len(mQueue') /\ mQueue'[i - 1] = x
      BY <2>4, <1>1
    <3> QED
      BY <3>1, <2>1
  <2> QED
    BY <2>1, <2>2, <2>3, <2>4
<1>5. Null \notin Pending /\ Null \notin Pending'
  BY DEF Pending
<1>6. ASSUME NEW i \in 1..Len(mQueue'), NEW j \in 1..Len(mQueue'),
             mQueue'[i] = mQueue'[j], mQueue'[i] # Null
      PROVE  i = j
  <2>1. /\ i + 1 \in 1..Len(mQueue) /\ j + 1 \in 1..Len(mQueue)
        /\ mQueue[i + 1] = mQueue[j + 1] /\ mQueue[i + 1] # Null
    BY <1>6, <1>1
  <2>2. i + 1 = j + 1
    BY <2>1, <1>0 DEF OnePlace
  <2> QED
    BY <2>2, <1>1
<1>7. \A x : x \in Running' <=> \E v \in Workers : wstate'[v] = "run" /\ workItem'[v] = x
  BY PendingIsNext DEF Members
<1>8. CASE mQueue[1] = Null
  <2>1. Pending' = Pending
    BY <1>4, <1>5, <1>8
  <2>2. Running' = Running
    <3>1. ASSUME NEW x PROVE x \in Running' <=> x \in Running
      BY <1>0, <1>2, <1>3, <1>7, <1>8, PendingIs DEF Members
    <3> QED
      BY <3>1
  <2>3. HandedIn'
    BY <2>1, <2>2, <1>0, <1>3 DEF HandedIn, Submitted
  <2>4. \A u, v \in Workers :
          wstate'[u] = "run" /\ wstate'[v] = "run" /\ workItem'[u] = workItem'[v] => u = v
    BY <1>0, <1>3, <1>8 DEF OnePlace
  <2>5. OnePlace'
    BY <2>1, <2>2, <2>4, <1>0, <1>3, <1>6 DEF OnePlace
  <2> QED
    BY <2>1, <2>2, <2>3, <2>5, <1>2, <1>8
<1>9. CASE mQueue[1] # Null
  <2>1. mQueue[1] \in Pending
    BY <1>0, <1>1, <1>9, PendingIs DEF Members
  <2>2. Pending' = Pending \ {mQueue[1]}
    BY <1>4, <1>5
  <2>3. Running' = Running \cup {mQueue[1]}
    <3>1. ASSUME NEW x PROVE x \in Running' <=> x \in Running \cup {mQueue[1]}
      BY <1>0, <1>2, <1>3, <1>7, <1>9, PendingIs DEF Members
    <3> QED
      BY <3>1
  <2>4. HandedIn'
    BY <2>1, <2>2, <2>3, <1>0, <1>3 DEF HandedIn, Submitted
  <2>5. mQueue[1] \notin Running /\ mQueue[1] \notin done
    BY <2>1, <1>0 DEF OnePlace
  <2>6. ASSUME NEW u \in Workers, NEW v \in Workers, wstate'[u] = "run",
               wstate'[v] = "run", workItem'[u] = workItem'[v]
        PROVE  u = v
    BY <2>5, <2>6, <1>0, <1>3, <1>9, PendingIs DEF Members, OnePlace
  <2>7. OnePlace'
    BY <2>2, <2>3, <2>5, <2>6, <1>0, <1>3, <1>6 DEF OnePlace
  <2> QED
    BY <2>1, <2>2, <2>3, <2>4, <2>7, <1>2
<1> QED
  BY <1>8, <1>9

\* A work item that returns moves its task from the running ones to the done.
LEMMA OnceFinish ==
  ASSUME OnceInv, TypeOK', NEW w \in Workers, FinishItem(w)
  PROVE  /\ HandedIn' /\ OnePlace'
         /\ workItem[w] \in Running /\ Running' = Running \ {workItem[w]}
         /\ done' = done \cup {workItem[w]} /\ Pending' = Pending
<1>0. TypeOK /\ HandedIn /\ OnePlace
  BY DEF OnceInv, DrainInv
<1>1. /\ wstate[w] = "run" /\ wstate' = [wstate EXCEPT ![w] = "loop"]
      /\ done' = done \cup {workItem[w]} /\ UNCHANGED <<mQueue, workItem, order>>
  BY DEF FinishItem
<1>2. \A v \in Workers : wstate'[v] = IF v = w THEN "loop" ELSE wstate[v]
  BY <1>0, <1>1 DEF TypeOK
<1>3. Pending' = Pending /\ workItem[w] \in Running
  BY <1>1 DEF Pending, Running
<1>4. Running' = Running \ {workItem[w]}
  <2>1. \A x : x \in Running' <=> \E v \in Workers : wstate'[v] = "run" /\ workItem'[v] = x
    BY PendingIsNext DEF Members
  <2>2. \A x : x \in Running <=> \E v \in Workers : wstate[v] = "run" /\ workItem[v] = x
    BY <1>0, PendingIs DEF Members
  <2>3. \A v \in Workers \ {w} : wstate[v] = "run" => workItem[v] # workItem[w]
    BY <1>0, <1>1 DEF OnePlace
  <2>4. ASSUME NEW x PROVE x \in Running' <=> x \in Running \ {workItem[w]}
    BY <2>1, <2>2, <2>3, <1>1, <1>2
  <2> QED
    BY <2>4
<1>5. HandedIn'
  BY <1>0, <1>1, <1>3, <1>4 DEF HandedIn, Submitted
<1>6. OnePlace'
  BY <1>0, <1>1, <1>2, <1>3, <1>4 DEF OnePlace
<1> QED
  BY <1>1, <1>3, <1>4, <1>5, <1>6

\* Every step keeps every task in one place.
LEMMA OnceStep == OnceInv /\ [Next]_vars => OnceInv'
<1> SUFFICES ASSUME OnceInv, [Next]_vars PROVE HandedIn' /\ OnePlace'
  BY DrainStep DEF OnceInv
<1>0. TypeOK /\ TypeOK' /\ HandedIn /\ OnePlace
  BY DrainStep DEF OnceInv, DrainInv
<1>1. ASSUME UNCHANGED <<mQueue, wstate, workItem, order, done>>
      PROVE  HandedIn' /\ OnePlace'
  <2>1. Pending' = Pending /\ Running' = Running /\ Submitted' = Submitted
    BY <1>1 DEF Pending, Running, Submitted
  <2>2. HandedIn'
    BY <1>0, <1>1, <2>1 DEF HandedIn
  <2>3. OnePlace'
    BY <1>0, <1>1, <2>1 DEF OnePlace
  <2> QED
    BY <2>2, <2>3
<1>2. CASE UNCHANGED vars
  BY <1>1, <1>2 DEF vars
<1>3. ASSUME NEW t \in Tasks, Enqueue(t) PROVE HandedIn' /\ OnePlace'
  BY <1>0, <1>3, OnceEnqueue
<1>4. ASSUME NEW w \in Workers, Quiet(w) PROVE HandedIn' /\ OnePlace'
  BY <1>0, <1>1, <1>4, QueueSilent DEF Quiet, CallWaitAndPop, Sleep, Spurious
<1>5. ASSUME NEW w \in Workers, Take(w) PROVE HandedIn' /\ OnePlace'
  BY <1>0, <1>5, OnceTake
<1>6. ASSUME NEW w \in Workers, FinishItem(w) PROVE HandedIn' /\ OnePlace'
  BY <1>0, <1>6, OnceFinish
<1>7. ASSUME NEW w \in Workers, PassNullOn(w) PROVE HandedIn' /\ OnePlace'
  <2>1. \A v \in Workers : wstate[v] = "run" <=> wstate'[v] = "run"
    BY <1>0, <1>7 DEF PassNullOn, TypeOK
  <2> QED
    BY <1>0, <1>7, <2>1, OncePushNull DEF PassNullOn
<1>8. CASE DestructorPush
  BY <1>0, <1>8, OncePushNull DEF DestructorPush
<1>9. CASE DestructorJoined
  BY <1>1, <1>9 DEF DestructorJoined
<1> QED
  BY <1>2, <1>3, <1>4, <1>5, <1>6, <1>7, <1>8, <1>9, NextCases

\* A step of the pool is a step of TaskPool, or changes nothing of it.
LEMMA StepImplements ==
  OnceInv /\ [Next]_vars => [Abstract!Next]_(Abstract!vars)
<1> SUFFICES ASSUME OnceInv, [Next]_vars
             PROVE  Abstract!Next \/ UNCHANGED <<Pending, Running, done, early, Phase>>
  BY DEF Abstract!vars, Pending, Running, Phase
<1> USE DEF Phase
<1>0. /\ TypeOK /\ TypeOK' /\ NoNullBefore /\ GoneMeansLeft /\ EarlyGoneFirst
      /\ EarlyAccounted /\ HandedIn /\ OnePlace
  BY DrainStep DEF OnceInv, DrainInv
<1>1. CASE UNCHANGED vars
  BY <1>1 DEF vars, Pending, Running
<1>2. ASSUME NEW t \in Tasks, Enqueue(t),
             dtor = "no" \/ \E w \in Workers : wstate[w] = "run"
      PROVE  Abstract!Next
  <2>1. dtor # "done"
    BY <1>0, <1>2 DEF GoneMeansLeft
  <2>2. /\ t \notin Pending \cup Running \cup done
        /\ Pending' = Pending \cup {t} /\ Running' = Running
    BY <1>0, <1>2, OnceEnqueue
  <2>3. /\ UNCHANGED <<done, dtor>>
        /\ early' = IF dtor = "no" THEN early \cup {t} ELSE early
    BY <1>2 DEF Enqueue
  <2>4. Phase # "gone" /\ Phase' = Phase /\ (Phase = "live" <=> dtor = "no")
    BY <1>0, <2>1, <2>3 DEF TypeOK
  <2>5. Abstract!Submit(t)
    BY <2>2, <2>3, <2>4 DEF Abstract!Submit, Pending, Running
  <2> QED
    BY <2>5 DEF Abstract!Next
<1>3. ASSUME NEW w \in Workers, Quiet(w)
      PROVE  UNCHANGED <<Pending, Running, done, early, Phase>>
  BY <1>0, <1>3, QueueSilent
     DEF Quiet, CallWaitAndPop, Sleep, Spurious, Pending, Running
<1>4. ASSUME NEW w \in Workers, Take(w)
      PROVE  Abstract!Next \/ UNCHANGED <<Pending, Running, done, early, Phase>>
  <2>1. UNCHANGED <<done, early, dtor>>
    BY <1>4 DEF Take
  <2>2. wstate[w] = "loop"
    BY <1>0, <1>4, OnceTake
  <2>3. CASE Pending' = Pending /\ Running' = Running
    BY <2>1, <2>3
  <2>4. CASE /\ mQueue[1] \in Pending
             /\ Pending' = Pending \ {mQueue[1]}
             /\ Running' = Running \cup {mQueue[1]}
    <3>1. Phase # "gone" /\ Phase' = Phase
      BY <1>0, <2>1, <2>2 DEF GoneMeansLeft, TypeOK
    <3>2. mQueue[1] \in Tasks
      BY <1>0, <2>4, PendingIs DEF Members, TypeOK, Q!QTypeOK
    <3>3. PICK t \in Tasks : t = mQueue[1]
      BY <3>2
    <3>4. Abstract!Start(t)
      BY <2>1, <2>4, <3>1, <3>3 DEF Abstract!Start, Pending, Running
    <3> QED
      BY <3>4 DEF Abstract!Next
  <2> QED
    BY <1>0, <1>4, <2>3, <2>4, OnceTake
<1>5. ASSUME NEW w \in Workers, FinishItem(w) PROVE Abstract!Next
  <2>1. /\ workItem[w] \in Running /\ Running' = Running \ {workItem[w]}
        /\ done' = done \cup {workItem[w]} /\ Pending' = Pending
    BY <1>0, <1>5, OnceFinish
  <2>2. UNCHANGED <<early, dtor>> /\ workItem[w] \in Tasks
    BY <1>5 DEF FinishItem, OnceInv, DrainInv, RunsTask
  <2>3. PICK t \in Tasks : t = workItem[w]
    BY <2>2
  <2>4. Abstract!Finish(t)
    BY <2>1, <2>2, <2>3 DEF Abstract!Finish, Pending, Running
  <2> QED
    BY <2>4 DEF Abstract!Next
<1>6. ASSUME NEW w \in Workers, PassNullOn(w)
      PROVE  UNCHANGED <<Pending, Running, done, early, Phase>>
  <2>1. \A v \in Workers : wstate[v] = "run" <=> wstate'[v] = "run"
    BY <1>0, <1>6 DEF PassNullOn, TypeOK
  <2> QED
    BY <1>0, <1>6, <2>1, OncePushNull DEF PassNullOn
<1>7. CASE DestructorPush
  <2>1. Pending' = Pending /\ Running' = Running
    BY <1>0, <1>7, OncePushNull DEF DestructorPush
  <2>2. Phase = "live" /\ Phase' = "closing" /\ UNCHANGED <<done, early>>
    BY <1>7 DEF DestructorPush
  <2>3. Abstract!Close
    BY <2>1, <2>2 DEF Abstract!Close, Pending, Running
  <2> QED
    BY <2>3 DEF Abstract!Next
<1>8. CASE DestructorJoined
  <2>1. /\ \A w \in Workers : wstate[w] = "exit"
        /\ Phase = "closing" /\ Phase' = "gone"
        /\ UNCHANGED <<mQueue, wstate, workItem, done, early>>
    BY <1>8 DEF DestructorJoined
  <2>2. Pending' = Pending /\ Running' = Running /\ Running = {}
    BY <2>1 DEF Pending, Running
  <2>3. Leaving # {}
    BY <2>1, PoolAssumption DEF Leaving
  <2>4. early \subseteq done
    BY <1>0, <2>1, <2>3 DEF EarlyGoneFirst, EarlyAccounted
  <2>5. Abstract!Vanish
    BY <2>1, <2>2, <2>4 DEF Abstract!Vanish, Pending, Running
  <2> QED
    BY <2>5 DEF Abstract!Next
<1> QED
  BY <1>1, <1>2, <1>3, <1>4, <1>5, <1>6, <1>7, <1>8, NextCases

\* The pool implements TaskPool: a task that is handed in is run at most once,
\* and ~thread_pool returns only when nothing runs and every task handed in
\* before it has been run, for any number of workers and tasks.
THEOREM PoolImplements == Spec => ImplementsTaskPool
<1>1. Init => DrainInv
  BY DrainInit
<1>2. Init => HandedIn /\ OnePlace
  BY DEF Init, Q!QInit, HandedIn, OnePlace, Pending, Running
<1>3. Init => Abstract!Init
  BY DEF Init, Q!QInit, Abstract!Init
<1>4. Init => OnceInv
  BY <1>1, <1>2 DEF OnceInv
<1> QED
  BY <1>3, <1>4, OnceStep, StepImplements, PTL
     DEF Spec, ImplementsTaskPool, Abstract!Spec
=============================================================================
