SPECIFICATION SchedSpec
CONSTANTS
  w1 = w1  w2 = w2
  t1 = t1  t2 = t2  t3 = t3
  Threads = {w1, w2}
  Runnables = {t1, t2, t3}
  ExecutorOf <- MCExecutor
  MaxLen = 3
  Priorities = {0, 1}
  Kinds = {"static", "dynamic", "fifo"}
  MaxAttempts = 2
  MaxChanges = 2
  Nothing = Nothing
SYMMETRY MCSymmetry
PROPERTIES HighestFirst RoundRobin
