\* One task of every kind, with a key of its own or without, and a task that
\* cancels its run; two tries of two requests each, a death.
SPECIFICATION FairClients
CONSTANTS
  t1 = t1
  c1 = c1
  b1 = b1
  b2 = b2
  Task = {t1}
  Canceller = {c1}
  Request <- Requests
  Key <- Keys
  GivenKey <- GivenKeys
  Plans <- KindsAndKeys
  Body = {b1, b2}
  NoRequest = NoRequest
  NoKey = NoKey
  Target <- OfTheFirst
  MaxTries = 2
  MaxSends = 2
  MaxMisses = 1
  Deadline = 1
  MaxDeaths = 1
  Reached = {"accepted", "succeeded", "cancelled"}
INVARIANTS ClientTypeOK OneRunPerKey OutcomeIsTheRuns
PROPERTIES EveryTaskEnds
CHECK_DEADLOCK FALSE
