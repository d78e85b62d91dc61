\* A saved pod and a private model of one customer, nothing fails.
SPECIFICATION Spec
CONSTANTS
  pod = pod
  model = model
  Dep = {pod, model}
  Rental = {pod}
  Saved = {pod}
  AutoResume = {pod, model}
  HourlyCents <- Rates
  Cent = 2
  TicksPerHour = 2
  StorageParts = 1
  Retention = 1
  Grace = 1
  MaxCycle = 2
  TopUps = {3}
  MaxTime = 3
  MaxCredit = 6
  MaxFaults = 0
  ReportsBesideMeter = FALSE
  NoDep = NoDep
INVARIANTS UsageConserved NeverOvercharged SuspensionSound
PROPERTIES OnlyStorageOverdraws
CHECK_DEADLOCK FALSE
