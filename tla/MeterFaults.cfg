\* The same customer, and one crash, failed cycle or machine that goes away.
SPECIFICATION FairSpec
CONSTANTS
  pod = pod
  model = model
  Dep = {pod, model}
  Rental = {pod}
  Saved = {pod}
  AutoResume = {pod, model}
  HourlyCents <- Rates
  Cent = 2
  TicksPerHour = 2
  StorageParts = 1
  Retention = 1
  Grace = 1
  MaxCycle = 2
  TopUps = {3}
  MaxTime = 2
  MaxCredit = 6
  MaxFaults = 1
  ReportsBesideMeter = FALSE
  NoDep = NoDep
INVARIANTS NeverOvercharged
PROPERTIES FlaggedComesBack
CHECK_DEADLOCK FALSE
