\* Batches of two runs: partial claims, lock waits, one commit for both.
SPECIFICATION Spec
CONSTANTS
  Run = {1, 2}
  Scheduler = {s1}
  Reconciler = {w1, w2}
  Caller = {c1}
  NoWorker = NoWorker
  NoRun = NoRun
  MaxAttempts = 1
  MaxFaults = 0
  AcceptedStaleAge = 0
  SubmittedStaleAge = 0
  TimeoutAge = 0
  MaxAge = 1
SYMMETRY WorkerSymmetry
PROPERTIES RefinesLifecycle
