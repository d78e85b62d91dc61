----------------------------- MODULE MCValidator -----------------------------
(***************************************************************************)
(* The validator's parts and the image builder.  They share no variable,   *)
(* so one run checks each in turn: `focus` says which one moves, and the   *)
(* states are the sum of the parts' states, not their product.             *)
(***************************************************************************)
EXTENDS Flux, Scoring, ManagedWallets, Builder

CONSTANTS m1, h1

VARIABLE focus

vars == <<focus, fluxVars, scoreVars, walletVars, builderVars>>

OneMiner == [p \in Probe |-> m1]
OneOwner == [n \in FluxNode |-> h1]

Init ==
  /\ focus \in {"catalog", "ranks", "scoring", "wallets", "builder"}
  /\ FluxInit /\ ScoringInit /\ WalletInit /\ BuilderInit

Next ==
  /\ UNCHANGED focus
  /\ \/ focus = "catalog" /\ CatalogNext /\ UNCHANGED <<scoreVars, walletVars, builderVars>>
     \/ focus = "ranks" /\ DistributedNext /\ UNCHANGED <<scoreVars, walletVars, builderVars>>
     \/ focus = "scoring" /\ ScoringNext /\ UNCHANGED <<fluxVars, walletVars, builderVars>>
     \/ focus = "wallets" /\ WalletNext /\ UNCHANGED <<fluxVars, scoreVars, builderVars>>
     \/ focus = "builder" /\ BuilderNext /\ UNCHANGED <<fluxVars, scoreVars, walletVars>>

\* Each part's fairness, while it is the one that moves.
Fairness ==
  /\ WF_fluxVars(focus = "catalog" /\ PassSteps) /\ WF_fluxVars(focus = "catalog" /\ CooldownPasses)
  /\ WF_fluxVars(focus = "ranks" /\ DistributedSteps)
  /\ WF_scoreVars(focus = "scoring" /\ AuditSteps) /\ WF_scoreVars(focus = "scoring" /\ BufferPasses)
  /\ \A k \in Ticker : WF_walletVars(focus = "wallets" /\ Ticks(k))
  /\ WF_builderVars(focus = "builder" /\ WorkerStep) /\ WF_builderVars(focus = "builder" /\ CallStep)
  /\ WF_builderVars(focus = "builder" /\ bw.pc = "down" /\ RequeueStale)

Spec == Init /\ [][Next]_vars /\ Fairness

\* Each part gets its work done: deficits are filled and broken replicas taken
\* down (Flux), a closed epoch is reported (Scoring), a funded wallet is
\* registered or given up (ManagedWallets), and a build ends (Builder).
ValidatorProgress ==
  /\ focus = "catalog" => DeficitsFill
  /\ focus = "ranks" => PartialReplicaGoes
  /\ focus = "scoring" => ClosedEpochReported
  /\ focus = "wallets" => FundedMovesOn
  /\ focus = "builder" => EveryBuildEnds
=============================================================================
