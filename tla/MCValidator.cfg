SPECIFICATION Spec
CONSTANTS
  m1 = m1  h1 = h1
  FluxNode = {n1, n2}
  FluxHotkey = {h1}
  NodeOwner <- OneOwner
  Model = {m1}
  Gpus = 2
  MaxTarget = 2
  Cooldown = 1
  RankCount = 2
  MaxFluxEvents = 3
  EarlyAdmin = FALSE
  Miner = {m1}
  Probe = {p1, p2}
  ProbeOf <- OneMiner
  CanaryProbe = {p2}
  Submitter = {s1}
  MaxEpoch = 1
  MaxScoreFaults = 1
  Ticker = {worker, admin}
  MaxBurn = 2
  Reserve = 1
  Buffer = 0
  MinPayout = 1
  MaxSentIn = 3
  MaxEmitted = 1
  MaxWalletEvents = 1
  MaxAttempts = 2
  MaxDeliveries = 9
  MaxAutoRetries = 2
  MaxBuilderFaults = 2
  MaxCalls = 1
  OperatorBeside = FALSE
INVARIANTS ScoringSafety WalletSafety
   
CHECK_DEADLOCK FALSE
