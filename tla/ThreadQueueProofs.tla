-------------------------- MODULE ThreadQueueProofs --------------------------
(***************************************************************************)
(* Proofs about ThreadQueue for any number of threads: NoLostWakeup is     *)
(* inductive together with the types, because every notification that      *)
(* accompanies a Push moves one caller from Waiting to Active, and a       *)
(* caller leaves Active only with a value, on an empty queue, or counted   *)
(* in swallowed.                                                           *)
(***************************************************************************)
EXTENDS ThreadQueue, FiniteSetTheorems, TLAPS

\* The callers that are on their way to the queue are finitely many.
LEMMA ActiveFinite == IsFiniteSet(Active) /\ Cardinality(Active) \in Nat
<1>1. Active \subseteq Callers
  BY DEF Active
<1>2. IsFiniteSet(Active)
  BY <1>1, QueueAssumption, FS_Subset
<1> QED
  BY <1>2, FS_CardinalityType

\* The types are those of QTypeOK, whatever the callers do.
LEMMA QTypeStep == QTypeOK /\ [QNext]_qvars => QTypeOK'
<1> SUFFICES ASSUME QTypeOK, [QNext]_qvars PROVE QTypeOK'
  OBVIOUS
<1> USE DEF QTypeOK, CallStates
<1>1. CASE UNCHANGED qvars
  BY <1>1 DEF qvars
<1>2. ASSUME NEW d \in Data, BoundedPush(d) PROVE QTypeOK'
  <2>1. mQueue' \in Seq(Data)
    BY <1>2 DEF BoundedPush, Push
  <2>2. call' \in [Callers -> CallStates]
    BY <1>2 DEF BoundedPush, Push, NotifyOne, Wake, Waiting
  <2>3. swallowed' \in Nat
    BY <1>2 DEF BoundedPush, Push
  <2> QED
    BY <2>1, <2>2, <2>3
<1>3. ASSUME NEW t \in Callers, TryPop(t) PROVE QTypeOK'
  BY <1>3 DEF TryPop
<1>4. ASSUME NEW t \in Callers, EnterWaitAndPop(t) \/ EnterTimedWaitAndPop(t)
      PROVE QTypeOK'
  BY <1>4 DEF EnterWaitAndPop, EnterTimedWaitAndPop
<1>5. ASSUME NEW t \in Callers, Block(t) PROVE QTypeOK'
  BY <1>5 DEF Block
<1>6. ASSUME NEW t \in Callers, PopFront(t) PROVE QTypeOK'
  BY <1>6 DEF PopFront
<1>7. ASSUME NEW t \in Callers, SpuriousWake(t) PROVE QTypeOK'
  BY <1>7 DEF SpuriousWake, Wake
<1>8. ASSUME NEW t \in Callers, TimeOut(t) \/ TimeOutAfterNotify(t)
      PROVE QTypeOK'
  BY <1>8 DEF TimeOut, TimeOutAfterNotify
<1> QED
  BY <1>1, <1>2, <1>3, <1>4, <1>5, <1>6, <1>7, <1>8 DEF QNext

\* Every variable of the queue keeps its type.
THEOREM QueueTypeCorrect == QSpec => []QTypeOK
<1>1. QInit => QTypeOK
  BY DEF QInit, QTypeOK, CallStates
<1> QED
  BY <1>1, QTypeStep, PTL DEF QSpec

\* How Active, and with it its cardinality, may change in one step.
LEMMA ActiveGrows ==
  ASSUME NEW t \in Callers, t \notin Active, Active' = Active \cup {t}
  PROVE  Cardinality(Active') = Cardinality(Active) + 1
BY ActiveFinite, FS_AddElement

\* One active caller fewer.
LEMMA ActiveShrinks ==
  ASSUME NEW t \in Active, Active' = Active \ {t}
  PROVE  Cardinality(Active') = Cardinality(Active) - 1
BY ActiveFinite, FS_RemoveElement

\* A caller that is woken leaves Waiting and joins Active.
LEMMA WakeMoves ==
  ASSUME QTypeOK, NEW t \in Waiting, Wake(t)
  PROVE  /\ t \in Callers /\ t \notin Active
         /\ Active' = Active \cup {t}
BY DEF QTypeOK, CallStates, Waiting, Active, Wake

\* Every step keeps NoLostWakeup.
LEMMA NoLostWakeupStep ==
  QTypeOK /\ NoLostWakeup /\ [QNext]_qvars => NoLostWakeup'
<1> SUFFICES ASSUME QTypeOK, NoLostWakeup, [QNext]_qvars, Waiting' # {}
             PROVE  Len(mQueue') <= Cardinality(Active') + swallowed'
  BY DEF NoLostWakeup
<1>0. /\ QTypeOK'
      /\ Cardinality(Active) \in Nat /\ swallowed \in Nat /\ Len(mQueue) \in Nat
  BY QTypeStep, ActiveFinite DEF QTypeOK
<1>a. Waiting # {} => Len(mQueue) <= Cardinality(Active) + swallowed
  BY DEF NoLostWakeup
<1>1. CASE UNCHANGED qvars
  <2>1. Waiting' = Waiting /\ Active' = Active
    BY <1>1 DEF qvars, Waiting, Active
  <2> QED
    BY <1>1, <2>1, <1>a DEF qvars
<1>2. ASSUME NEW d \in Data, BoundedPush(d)
      PROVE  Len(mQueue') <= Cardinality(Active') + swallowed'
  <2>1. Len(mQueue') = Len(mQueue) + 1 /\ swallowed' = swallowed
    BY <1>2 DEF BoundedPush, Push, QTypeOK
  <2>2. NotifyOne
    BY <1>2 DEF BoundedPush, Push
  <2>3. CASE Waiting = {} /\ UNCHANGED call
    BY <2>3 DEF Waiting
  <2>4. ASSUME NEW t \in Waiting, Wake(t)
        PROVE  Len(mQueue') <= Cardinality(Active') + swallowed'
    <3>1. Cardinality(Active') = Cardinality(Active) + 1
      BY <2>4, WakeMoves, ActiveGrows
    <3> QED
      BY <3>1, <2>1, <1>0, <1>a
  <2> QED
    BY <2>2, <2>3, <2>4 DEF NotifyOne
<1>3. ASSUME NEW t \in Callers, TryPop(t)
      PROVE  Len(mQueue') <= Cardinality(Active') + swallowed'
  <2>1. Waiting' = Waiting /\ Active' = Active /\ swallowed' = swallowed
    BY <1>3 DEF TryPop, Waiting, Active
  <2>2. Len(mQueue') = Len(mQueue) - 1
    BY <1>3 DEF TryPop, QTypeOK
  <2> QED
    BY <2>1, <2>2, <1>0, <1>a
<1>4. ASSUME NEW t \in Callers, EnterWaitAndPop(t) \/ EnterTimedWaitAndPop(t)
      PROVE  Len(mQueue') <= Cardinality(Active') + swallowed'
  <2>1. /\ Waiting' = Waiting /\ t \notin Active /\ Active' = Active \cup {t}
        /\ mQueue' = mQueue /\ swallowed' = swallowed
    BY <1>4 DEF EnterWaitAndPop, EnterTimedWaitAndPop, Waiting, Active,
                QTypeOK, CallStates
  <2>2. Cardinality(Active') = Cardinality(Active) + 1
    BY <2>1, ActiveGrows
  <2> QED
    BY <2>1, <2>2, <1>0, <1>a
<1>5. ASSUME NEW t \in Callers, Block(t)
      PROVE  Len(mQueue') <= Cardinality(Active') + swallowed'
  <2>1. Len(mQueue') = 0 /\ swallowed' = swallowed
    BY <1>5 DEF Block
  <2>2. Active' \subseteq Callers
    BY DEF Active
  <2>3. Cardinality(Active') \in Nat
    BY <2>2, QueueAssumption, FS_Subset, FS_CardinalityType
  <2> QED
    BY <2>1, <2>3, <1>0
<1>6. ASSUME NEW t \in Callers, PopFront(t)
      PROVE  Len(mQueue') <= Cardinality(Active') + swallowed'
  <2>1. /\ Waiting' = Waiting /\ t \in Active /\ Active' = Active \ {t}
        /\ swallowed' = swallowed
    BY <1>6 DEF PopFront, Waiting, Active, QTypeOK, CallStates
  <2>2. Len(mQueue') = Len(mQueue) - 1
    BY <1>6 DEF PopFront, QTypeOK
  <2>3. Cardinality(Active') = Cardinality(Active) - 1
    BY <2>1, ActiveShrinks
  <2> QED
    BY <2>1, <2>2, <2>3, <1>0, <1>a
<1>7. ASSUME NEW t \in Callers, SpuriousWake(t)
      PROVE  Len(mQueue') <= Cardinality(Active') + swallowed'
  <2>1. t \in Waiting /\ Wake(t) /\ mQueue' = mQueue /\ swallowed' = swallowed
    BY <1>7 DEF SpuriousWake
  <2>2. Cardinality(Active') = Cardinality(Active) + 1
    BY <2>1, WakeMoves, ActiveGrows
  <2> QED
    BY <2>1, <2>2, <1>0, <1>a
<1>8. ASSUME NEW t \in Callers, TimeOut(t)
      PROVE  Len(mQueue') <= Cardinality(Active') + swallowed'
  <2>1. /\ t \in Waiting /\ Active' = Active
        /\ mQueue' = mQueue /\ swallowed' = swallowed
    BY <1>8 DEF TimeOut, Waiting, Active, QTypeOK, CallStates
  <2> QED
    BY <2>1, <1>0, <1>a
<1>9. ASSUME NEW t \in Callers, TimeOutAfterNotify(t)
      PROVE  Len(mQueue') <= Cardinality(Active') + swallowed'
  <2>1. /\ Waiting' = Waiting /\ t \in Active /\ Active' = Active \ {t}
        /\ mQueue' = mQueue /\ swallowed' = swallowed + 1
    BY <1>9 DEF TimeOutAfterNotify, Waiting, Active, QTypeOK, CallStates
  <2>2. Cardinality(Active') = Cardinality(Active) - 1
    BY <2>1, ActiveShrinks
  <2> QED
    BY <2>1, <2>2, <1>0, <1>a
<1> QED
  BY <1>1, <1>2, <1>3, <1>4, <1>5, <1>6, <1>7, <1>8, <1>9 DEF QNext

\* A wakeup of ThreadQueue is only ever lost to a timed WaitAndPop that then
\* reports a timeout, for any number of threads and any length of the queue.
THEOREM QueueNoLostWakeup == QSpec => []NoLostWakeup
<1>1. QInit => QTypeOK /\ NoLostWakeup
  BY DEF QInit, QTypeOK, CallStates, NoLostWakeup, Waiting
<1>2. QTypeOK /\ NoLostWakeup /\ [QNext]_qvars => (QTypeOK /\ NoLostWakeup)'
  BY QTypeStep, NoLostWakeupStep
<1> QED
  BY <1>1, <1>2, PTL DEF QSpec
=============================================================================
