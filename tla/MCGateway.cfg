SPECIFICATION Spec
CONSTANTS
  Writer = {w1, w2}
  Gateway = {g1, g2}
  Nobody = Nobody
  Batch = 2
  MaxEventIds = 2
  MaxHookEdits = 1
  MaxHookFaults = 1
  MaxTarget = 2
  FailuresBeforePause = 2
  MaxMembers = 3
  MaxFleetEdits = 1
  MaxFleetFaults = 1
  Alert = {a1, a2}
  Creator = {c1, c2}
  Machine = {m1, m2}
  NoOne = NoOne
  MaxFree = 2
  MaxWaiting = 1
  Customer = {u1, u2}
  Sweeper = {s1, s2}
  MaxNoticeIds = 3
  Untimely = FALSE
  MaxSweeps = 4
  Registrar = {r1, r2}
  TakenNames = {1}
  MaxNames = 4
  MaxLedger = 3
  MaxEdits = 2
  Fetcher = {f1, f2}
  MaxAdminChanges = 2
  KeyId = {k1, k2}
  Scope = {"keys", "deployments"}
  MaxLimit = 2
  Attempt = {t1, t2, t3}
  Body <- TwoBodies
  MaxDeletes = 1
  MaxRentals = 2
  KeyRental = {d1, d2, d3}
  Creation = {r1, r2}
  MaxActive = 1
  SpendLimit = 1
  MaxSpend = 1
  MaxKeyEvents = 1
  Server = {v1}
  MaxReadyChecks = 2
PROPERTIES WebhookSafety  NoticeSafety AccountSafety GatewayProgress
CHECK_DEADLOCK FALSE
