\* Two workers, two operations of two stages.
SPECIFICATION FairSpec
CONSTANTS
  w1 = w1
  w2 = w2
  Worker = {w1, w2}
  NoWorker = NoWorker
  Op = {1, 2}
  Last = 2
  TTL = 1
  StageTime = 1
  MaxCrashes = 1
INVARIANTS AloneUnlessBatched ReadyIsBuilt
PROPERTIES NothingIsUndone EveryOperationEnds
