\* What the documents promise of a cancel of an accepted or running run.
SPECIFICATION FairSpec
CONSTANTS
  Run = {1}
  Scheduler = {s1}
  Reconciler = {w1, w2}
  Caller = {c1}
  NoWorker = NoWorker
  NoRun = NoRun
  MaxAttempts = 2
  MaxFaults = 1
  AcceptedStaleAge = 0
  SubmittedStaleAge = 0
  TimeoutAge = 0
  MaxAge = 1
PROPERTIES CancelSettles
