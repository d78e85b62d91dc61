CONSTANTS
  worker = worker
  route = route
  Free = Free
  Blocked = Blocked
  Claimer = {worker, route}
  Worker = worker
  MaxDeliveries = 2
  ClaimLimit = 2
  MaxAttempts = 2
  RetryLimit = 3
  MaxFaults = 2
  NatsFaults = 1
  SlowHandlers = FALSE
SPECIFICATION MCSpec
INVARIANTS TypeOK SingleClaimant CompletedWasApplied RowsAgree
PROPERTIES SettledIsFinal ImplementsQueue DurableSettles
CHECK_DEADLOCK FALSE
