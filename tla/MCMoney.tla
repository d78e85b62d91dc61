------------------------------- MODULE MCMoney -------------------------------
(***************************************************************************)
(* The gateway's money beside the ledger: the deposit watcher's scans,     *)
(* paid inference, card payments and the billing monitor.  The modules     *)
(* share no variable: `focus` says which one moves, so one run covers the  *)
(* sum of their states and not their product.                              *)
(***************************************************************************)
EXTENDS DepositWatcher, Inference, Stripe, Monitor

VARIABLE focus

vars == <<focus, scanVars, infVars, stripeVars, monitorVars>>

OneCent == [r \in Request |-> 1]

Init ==
  /\ focus \in {"scan", "inference", "stripe", "monitor"}
  /\ ScanInit /\ InfInit /\ StripeInit /\ MonitorInit
  /\ focus # "scan" => chain = "evm"                  \* the choices of a part that does not move are one
  /\ focus # "monitor" => subject = CHOOSE s \in Subject : TRUE

Next ==
  /\ UNCHANGED focus
  /\ \/ focus = "scan" /\ ScanNext /\ UNCHANGED <<infVars, stripeVars, monitorVars>>
     \/ focus = "inference" /\ InfNext /\ UNCHANGED <<scanVars, stripeVars, monitorVars>>
     \/ focus = "stripe" /\ StripeNext /\ UNCHANGED <<scanVars, infVars, monitorVars>>
     \/ focus = "monitor" /\ MonitorNext /\ UNCHANGED <<scanVars, infVars, stripeVars>>

\* Each part's fairness, while it is the one that moves, and blocks that keep coming.
Fairness ==
  /\ WF_scanVars(focus = "scan" /\ Mine) /\ WF_scanVars(focus = "scan" /\ (StartEvmScan \/ StartBittensorScan))
  /\ WF_scanVars(focus = "scan" /\ HandlePayment) /\ WF_scanVars(focus = "scan" /\ FinishScan)
  /\ \A r \in Request :
       /\ WF_infVars(focus = "inference" /\ (BalanceGate(r) \/ SelectHealthyDeployments(r) \/ ReserveInferenceBudget(r)))
       /\ WF_infVars(focus = "inference" /\ (UpstreamFails(r) \/ UpstreamSucceeds(r)))
       /\ WF_infVars(focus = "inference" /\ ChargeInferenceTokens(r))
       /\ WF_infVars(focus = "inference" /\ ReleaseInferenceBudget(r))
       /\ WF_infVars(focus = "inference" /\ HoldExpires(r) /\ ~InFlight(r))
  /\ \A h \in Handler :
       WF_stripeVars(focus = "stripe" /\ (SetStripePaymentIntent(h) \/ CompleteAndCredit(h)
                                          \/ ResolveRefund(h) \/ ReverseStripeTopup(h)))
  /\ WF_stripeVars(focus = "stripe" /\ \E h \in Handler : StripeWebhook(h))

Spec == Init /\ [][Next]_vars /\ Fairness

\* Every payment that stays in the chain is handled (DepositWatcher), every
\* hold ends (Inference), and every captured card payment is credited (Stripe).
MoneyProgress == (focus = "scan" => EveryPaymentHandled) /\ HoldsEnd /\ PaidIsCredited
=============================================================================
