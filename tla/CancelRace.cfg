\* The cancel of a queued run against its dispatch.
SPECIFICATION Spec
CONSTANTS
  Run = {1}
  Scheduler = {s1}
  Reconciler = {w1}
  Caller = {c1}
  NoWorker = NoWorker
  NoRun = NoRun
  MaxAttempts = 1
  MaxFaults = 0
  AcceptedStaleAge = 1
  SubmittedStaleAge = 1
  TimeoutAge = 1
  MaxAge = 2
INVARIANTS CancelledJobIsStopped
