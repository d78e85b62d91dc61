CONSTANTS
  pod = pod  model = model  n1 = n1  n2 = n2  t1 = t1  t2 = t2
  NoNode = NoNode  NoDep = NoDep
  Dep = {pod, model}
  Node = {n1}
  Thread = {t1, t2}
  Gpus <- OneGpu
  Need <- OneEach
  Inference = {}
  Offer = {"create", "process", "cleanup", "fail"}
  MaxRequests = 2
  RetryLimit = 1
  ReassignLimit = 1
  MaxAttempts = 2
  MaxRetry = 1
  HealthThreshold = 2
  MaxCrashes = 1
  LateReports = FALSE
SPECIFICATION Spec
SYMMETRY ConcurrentSymmetry
INVARIANTS NodeNotOversubscribed
CHECK_DEADLOCK FALSE
