SPECIFICATION Spec
CONSTANTS
  MaxBlock = 5
  Confirmations = 1
  BlocksPerTick = 1
  FallbackBlocks = 1
  FirstBack = 2
  StrandedAfter = 2
  ResumeBehind = 1
  HasFallback = TRUE
  MaxScanFaults = 1
  Request = {r1, r2, r3}
  Backend = {b1, b2}
  StreamRequest = {r1}
  PrivateRequest = {r3}
  Worst <- OneCent
  InitialCredit = 1
  OtherDebits = {1}
  MaxInfFaults = 1
  Session = {s1}
  Handler = {h1, h2}
  NoEvent = NoEvent
  Price = 2
  RefundsListed = TRUE
  MaxEvents = 4
  MaxStripeFaults = 2
  Row = {w1, w2}
  Subject = {"ledger", "drift", "rental", "watcher", "review"}
  FirstRunLookback = 1
  Overlap = 2
  UnbilledAfter = 2
  EmptyGrace = 2
  WatcherStall = 2
  WaitingAfter = 1
  RealertAfter = 2
  RealertWaiting = 3
  SentRetention = 4
  MaxClock = 6
  MaxMonitorFaults = 1
INVARIANTS ScanSafety InferenceSafety MonitorSafety
PROPERTIES StripeSafety MoneyProgress
CHECK_DEADLOCK FALSE
