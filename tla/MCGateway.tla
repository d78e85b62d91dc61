------------------------------ MODULE MCGateway ------------------------------
(***************************************************************************)
(* The gateway around the rentals: account events and webhooks, fleets,    *)
(* customer notices, accounts, API keys, their limits and idempotent       *)
(* creates, and the provisioning of provider servers.  The parts share no variable: `focus` *)
(* says which one moves, so one run covers the sum of their states and not *)
(* their product.                                                          *)
(***************************************************************************)
EXTENDS Webhooks, Fleets, Notices, Accounts, ApiKeys, KeyLimits, Provisioning

VARIABLE focus

noticeVars == <<alertVars, stopVars, creditVars>>
accountVars == <<signVars, profileVars, adminVars, keyVars, limitVars, idemVars, provisionVars>>
vars == <<focus, hookVars, fleetVars, noticeVars, accountVars>>

TwoBodies == [a \in Attempt |-> IF a = (CHOOSE x \in Attempt : TRUE) THEN 1 ELSE 2]
OneWriter == CHOOSE w \in Writer : TRUE      \* two at once matter to the feed only

Init ==
  /\ focus \in {"feed", "webhook", "fleet", "alerts", "stopped", "credit",
                "signup", "profile", "admins", "keys", "limits", "idem", "provision"}
  /\ HookInit /\ FleetInit /\ AlertInit /\ StopInit /\ CreditInit
  /\ SignInit /\ ProfileInit /\ AdminInit /\ KeyInit /\ LimitInit /\ IdemInit /\ ProvisionInit

\* The notices' three sweeps.
NoticeStep ==
  \/ focus = "alerts" /\ AlertNext /\ UNCHANGED <<stopVars, creditVars>>
  \/ focus = "stopped" /\ StopNext /\ UNCHANGED <<alertVars, creditVars>>
  \/ focus = "credit" /\ CreditNext /\ UNCHANGED <<alertVars, stopVars>>

AccountStep ==
  \/ focus = "signup" /\ SignNext /\ UNCHANGED <<profileVars, adminVars, keyVars, limitVars, idemVars, provisionVars>>
  \/ focus = "profile" /\ ProfileNext /\ UNCHANGED <<signVars, adminVars, keyVars, limitVars, idemVars, provisionVars>>
  \/ focus = "admins" /\ AdminNext /\ UNCHANGED <<signVars, profileVars, keyVars, limitVars, idemVars, provisionVars>>
  \/ focus = "keys" /\ KeyNext /\ UNCHANGED <<signVars, profileVars, adminVars, limitVars, idemVars, provisionVars>>
  \/ focus = "limits" /\ LimitNext /\ UNCHANGED <<signVars, profileVars, adminVars, keyVars, idemVars, provisionVars>>
  \/ focus = "idem" /\ IdemNext /\ UNCHANGED <<signVars, profileVars, adminVars, keyVars, limitVars, provisionVars>>
  \/ focus = "provision" /\ ProvisionNext /\ UNCHANGED <<signVars, profileVars, adminVars, keyVars, limitVars, idemVars>>

Next ==
  /\ UNCHANGED focus
  /\ \/ focus = "feed" /\ (EventWritten \/ ListEvents) /\ UNCHANGED <<fleetVars, noticeVars, accountVars>>
     \/ focus = "webhook" /\ (AddEvent(OneWriter) \/ EndTransaction(OneWriter) \/ DeliveryNext) /\ UNCHANGED <<fleetVars, noticeVars, accountVars>>
     \/ focus = "fleet" /\ FleetNext /\ UNCHANGED <<hookVars, noticeVars, accountVars>>
     \/ NoticeStep /\ UNCHANGED <<hookVars, fleetVars, accountVars>>
     \/ AccountStep /\ UNCHANGED <<hookVars, fleetVars, noticeVars>>

\* Each part's fairness, while it is the one that moves.  The subscripts name only what the
\* steps always change, which keeps the check of the graph short.
Fairness ==
  /\ WF_hook(focus = "webhook" /\ BackoffEnds) /\ WF_hook(focus = "webhook" /\ FailingAges)
  /\ \A g \in Gateway :
       /\ WF_<<turn, leads>>(focus = "webhook" /\ (AcquireLock(g) \/ LosesLock(g) \/ ReleaseLock(g) \/ SubmitDue(g)))
       /\ WF_turn(focus = "webhook" /\ (TurnedOff(g) \/ PassOver(g) \/ PostEvent(g) \/ RecordProgress(g)
                                        \/ RecordFailure(g) \/ (turn[g].batch = {} /\ EndTurn(g))))
       /\ SF_turn(focus = "webhook" /\ (PassOver(g) \/ PostEvent(g)))
  /\ WF_<<fleet, member, fleetPass>>(focus = "fleet" /\ ReconcileLocked) /\ WF_fleetPass(focus = "fleet" /\ PassStep)
  /\ WF_forecastOf(focus = "credit" /\ Forecast) /\ WF_forecastOf(focus = "credit" /\ LowCreditOnce)
  /\ \A r \in Registrar : WF_signVars(focus = "signup" /\ SignStep(r))
  /\ WF_sweep(focus = "limits" /\ SweepSteps)
  /\ \A s \in Server : WF_provisionVars(focus = "provision" /\ JobStep(s))

Spec == Init /\ [][Next]_vars /\ Fairness

\* A profile edit without an entry meanwhile keeps the balance, a removed admin has no
\* key, keys never broaden or outgrow their limits, retries rent once, and a server's status is the machine's.
AccountSafety ==
  /\ [](/\ AccountsTypeOK /\ ApiKeysTypeOK /\ LimitTypeOK /\ ProvisionTypeOK /\ EditKeepsBalance /\ RemovedHasNoKey
        /\ NoBroaderThanRoot /\ OvershootBounded /\ RetryRentsOnce /\ RunningIsReady)
  /\ DeletedStaysGone

\* Events reach the endpoint (Webhooks), fleets fill (Fleets), low credit is told of
\* (Notices), a key's spend stops (KeyLimits), sign-ups end (Accounts) and provisioning ends (Provisioning).  Only the part
\* in focus moves, so the six properties are one.
GatewayProgress ==
  []<>(/\ AllDelivered /\ FleetFull /\ LowTold /\ KeySpendStopped /\ JobsOver
       /\ focus = "signup" => AllSignedUp)
=============================================================================
