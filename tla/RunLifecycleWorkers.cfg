\* One run under two schedulers, two reconcilers, a cancel request and a fault: what
\* its rows and jobs keep to, and that it is settled or stranded in the end.
SPECIFICATION FairSpec
CONSTANTS
  Run = {1}
  Scheduler = {s1, s2}
  Reconciler = {w1, w2}
  Caller = {c1}
  NoWorker = NoWorker
  NoRun = NoRun
  MaxAttempts = 2
  MaxFaults = 1
  AcceptedStaleAge = 0
  SubmittedStaleAge = 0
  TimeoutAge = 1
  MaxAge = 2
INVARIANTS IInv DuplicateNeedsFault TimedOutJobIsStopped SuccessIsEmrs UsageMatchesOutcome
PROPERTIES RunsSettleOrStrand CancelSettlesOrStrands
