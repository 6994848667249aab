SPECIFICATION FairSpec
CONSTANTS
  Workers = {w1, w2}
  Tasks = {t1, t2, t3}
  Null = Null
INVARIANTS TypeOK QueueHoldsWhatIsDue DrainedWhenGone
PROPERTIES DestructorReturns EarlyTasksRun ImplementsTaskPool
CHECK_DEADLOCK FALSE
