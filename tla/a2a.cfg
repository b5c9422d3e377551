SPECIFICATION FairSpec
CONSTANTS
  t1 = t1
  t2 = t2
  s1 = s1
  Ids <- TwoIds
  MaxTasks = 1
  Subs <- OneSub
  SubsPerTask = 1
  MaxFailures = 2
  Subscribed <- Notified
  Expirable <- OneSub
  Steered <- OneId
  MaxHistory = 3
  MaxAttempts = 2
  MaxQueueSize = 1
  MaxInFlight = 1
  Watched <- TwoJobs
INVARIANTS TypeOK ServedIsTerminal Accounted AckedIsOver
PROPERTIES NeverRequeued DeliveriesSettle
CHECK_DEADLOCK FALSE
