SPECIFICATION FairSpec
CONSTANTS
  None = None
  Workers = {w1, w2}
  Tasks = {t1, t2, t3}
CHECK_DEADLOCK FALSE
PROPERTY ScheduledTaskRuns
INVARIANTS EmptyMeansDone NothingRunsAfterDrop
