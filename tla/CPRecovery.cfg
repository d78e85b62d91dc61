CONSTANTS
  pod = pod  model = model  n1 = n1  n2 = n2  t1 = t1  t2 = t2
  NoNode = NoNode  NoDep = NoDep
  Dep = {pod}
  Node = {n1}
  Thread = {t1}
  Gpus <- OneGpu
  Need <- OneEach
  Inference = {}
  Offer = {"create", "process", "fail", "cleanup", "delete", "edit"}
  MaxRequests = 2
  RetryLimit = 2
  ReassignLimit = 2
  MaxAttempts = 2
  MaxRetry = 2
  HealthThreshold = 2
  MaxCrashes = 2
  LateReports = FALSE
SPECIFICATION FairSpec
INVARIANTS StoppedHasNoLiveLease
PROPERTIES LeakedHoldSelfCorrects EveryRequestResolves
CHECK_DEADLOCK FALSE
