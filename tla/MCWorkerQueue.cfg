CONSTANTS
  j1 = j1
  j2 = j2
  Job = {j1, j2}
  Worker = {w1, w2}
  NoJob = NoJob
  NoWorker = NoWorker
  LateBound = 1
  TouchBound = 1
  Outcome = {"return", "retryable", "nothing to do", "error", "connection lost"}
  QueueBound = 1
SPECIFICATION MCSpec
CHECK_DEADLOCK FALSE
INVARIANTS Served EffectsOnce
PROPERTIES EndIsFinal EveryJobEnds
