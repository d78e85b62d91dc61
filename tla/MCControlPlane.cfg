CONSTANTS
  pod = pod  model = model  n1 = n1  n2 = n2  t1 = t1  t2 = t2
  NoNode = NoNode  NoDep = NoDep
  Dep = {model}
  Node = {n1, n2}
  Thread = {t1}
  Gpus <- OneGpu
  Need <- OneEach
  Inference = {model}
  Offer <- AllHandlers
  MaxRequests = 2
  RetryLimit = 2
  ReassignLimit = 2
  MaxAttempts = 2
  MaxRetry = 2
  HealthThreshold = 2
  MaxCrashes = 0
  LateReports = FALSE
SPECIFICATION Spec
SYMMETRY NodeSymmetry
INVARIANTS TypeOK OwnsWhatItShows PendingHasDelivery
PROPERTIES TerminalAbsorbing
CHECK_DEADLOCK FALSE
