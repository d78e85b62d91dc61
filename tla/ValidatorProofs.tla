-------------------------- MODULE ValidatorProofs ---------------------------
(***************************************************************************)
(* What holds of the validator's parts and of the image builder for every  *)
(* value of the constants: a managed wallet is listed only with its neuron *)
(* and its payouts count only alpha that was sent, whatever the tickers do *)
(* beside each other; an epoch's report replays the weights published for  *)
(* it; Flux starts no replica its pass found no deficit for, and loses no  *)
(* GPU; a build's stages run in order, and no build in progress is         *)
(* forgotten.                                                              *)
(***************************************************************************)
EXTENDS ManagedWallets, Scoring, Flux, Builder, TotalsProofs, FiniteSetTheorems, SequenceTheorems, TLAPS

(***************************************************************************)
(* Managed wallets: the inductive invariant.                               *)
(***************************************************************************)

\* Where a ticker can be, and the targets check_funding hands on.
TickPc == {"idle", "balance", "fund", "reg", "plan", "requote", "adopt", "mark", "register", "raised",
           "uid", "settleReg", "act", "whitelist", "activate", "pay", "stake", "record", "transfer",
           "sent", "unsure", "credit"}
TickTarget == {"none", "funded", "funding_expired"}

WalletShape ==
  /\ app \in [kind : {"none", "own", "managed"}, status : {"none", "pending", "approved", "rejected"}]
  /\ approving \in BOOLEAN /\ late \in BOOLEAN /\ cut \in BOOLEAN /\ stuck \in BOOLEAN /\ neuron \in BOOLEAN
  /\ wallet \in [state : WalletState, required : Nat, funded : 0..MaxSentIn, uid : BOOLEAN, paid : Nat]
  /\ submitting \subseteq Ticker /\ listed \subseteq {"own", "managed", "empty"}
  /\ tick \in [Ticker -> [pc : TickPc, target : TickTarget, amount : Nat]]
  /\ walletEvents \in 0..MaxWalletEvents

\* The coldkey holds no more TAO than was sent to it, and a funding to be recorded was read there.
TaoCounts ==
  /\ burn \in 1..MaxBurn /\ sentIn \in 0..MaxSentIn /\ balance \in 0..sentIn
  /\ \A k \in Ticker : tick[k].pc = "fund" => tick[k].amount <= MaxSentIn

\* Alpha that was earned is staked or sent; what tickers are about to count was sent and is not
\* counted yet.
Due == [k \in Ticker |-> IF tick[k].pc \in {"sent", "credit"} THEN tick[k].amount ELSE 0]
AlphaCounts ==
  /\ emitted \in 0..MaxEmitted /\ stake \in Nat /\ sentOut \in Nat /\ stake + sentOut = emitted
  /\ wallet.paid + Total(Ticker, Due) <= sentOut

\* Whoever is about to settle, list or activate the registration has a neuron, which stays.
NeuronBehind ==
  /\ ListedHasNeuron
  /\ wallet.state = "suspended" => neuron /\ wallet.uid
  /\ \A k \in Ticker : tick[k].pc \in {"adopt", "settleReg", "whitelist", "activate"} => neuron

WalletInv == WalletShape /\ TaoCounts /\ AlphaCounts /\ NeuronBehind

\* A ticker that goes on is somewhere a ticker can be.
LEMMA PlanShape ==
  ASSUME WalletShape, NEW k \in Ticker, NEW pc \in TickPc, NEW into \in TickTarget, NEW amount \in Nat,
         Plan(k, pc, into, amount)
  PROVE  tick' \in [Ticker -> [pc : TickPc, target : TickTarget, amount : Nat]]
BY DEF Plan, WalletShape

\* Events stay within their bound.
LEMMA EventsBounded ==
  ASSUME WalletShape, Fails \/ Occurs \/ Fine
  PROVE  walletEvents' \in 0..MaxWalletEvents
BY WalletAssumption DEF Fails, Occurs, Fine, WalletShape

\* What the chain and the rows say of TAO is a number.
LEMMA TaoNumbers ==
  ASSUME WalletInv
  PROVE  /\ balance \in Nat /\ balance <= MaxSentIn /\ burn \in Nat /\ Spendable \in Nat
         /\ \A k \in Ticker : tick[k].amount \in Nat
BY WalletAssumption DEF WalletInv, WalletShape, TaoCounts, Spendable

\* Every step keeps the types.
LEMMA ShapeKept ==
  ASSUME WalletInv, WalletNext
  PROVE  WalletShape'
<1> USE WalletAssumption
<1>1. CASE SubmitApplication
  BY <1>1 DEF keepSteps, keepTicks, Occurs, chain, door, SubmitApplication, ReviewVerdict, RulesVerdict, WalletInv, WalletShape, WalletState, TickPc, TickTarget
<1>2. CASE ApproveApplication
  BY <1>2 DEF keepSteps, keepTicks, Occurs, chain, door, ApproveApplication, AppHotkey, WalletInv, WalletShape, WalletState, TickPc, TickTarget
<1>3. CASE RejectApplication
  BY <1>3 DEF keepSteps, keepTicks, Occurs, chain, door, RejectApplication, WalletInv, WalletShape, WalletState, TickPc, TickTarget
<1>4. CASE ProvisionForApplication
  <2>1. wallet' \in [state : WalletState, required : Nat, funded : 0..MaxSentIn, uid : BOOLEAN, paid : Nat]
    <3>1. CASE wallet' = wallet
      BY <3>1 DEF WalletInv, WalletShape
    <3>2. CASE wallet' = [NoWallet EXCEPT !.state = "awaiting_funding", !.required = Quote]
      <4>1. Quote \in Nat
        BY TaoNumbers DEF Quote
      <4>2. wallet' = [state |-> "awaiting_funding", required |-> Quote, funded |-> 0, uid |-> FALSE, paid |-> 0]
        BY <3>2 DEF NoWallet
      <4> QED
        BY <4>1, <4>2 DEF WalletState
    <3> QED
      BY <1>4, <3>1, <3>2 DEF ProvisionForApplication
  <2> QED
    BY <1>4, <2>1 DEF ProvisionForApplication, keepTicks, keepSteps, chain, WalletInv, WalletShape
<1>5. CASE RemoveFromWhitelist
  BY <1>5 DEF keepSteps, keepTicks, Occurs, chain, door, RemoveFromWhitelist, WalletInv, WalletShape, WalletState, TickPc, TickTarget
<1>6. CASE ProviderSends
  BY <1>6 DEF keepSteps, keepTicks, Occurs, chain, door, ProviderSends, WalletInv, WalletShape, WalletState, TickPc, TickTarget
<1>7. CASE BurnMoves
  BY <1>7 DEF keepSteps, keepTicks, Occurs, chain, door, BurnMoves, WalletInv, WalletShape, WalletState, TickPc, TickTarget
<1>8. CASE FundingWindowPasses
  BY <1>8 DEF keepSteps, keepTicks, Occurs, chain, door, FundingWindowPasses, WalletInv, WalletShape, WalletState, TickPc, TickTarget
<1>9. CASE Emission
  BY <1>9 DEF keepSteps, keepTicks, Occurs, chain, door, Emission, WalletInv, WalletShape, WalletState, TickPc, TickTarget
<1>10. CASE ValidatorDies
  <2>1. tick' \in [Ticker -> [pc : TickPc, target : TickTarget, amount : Nat]]
    BY <1>10 DEF ValidatorDies, IdleTick, TickPc, TickTarget
  <2>2. stuck' \in BOOLEAN /\ cut' \in BOOLEAN /\ approving' \in BOOLEAN
    BY <1>10 DEF ValidatorDies, HasInflightPayout, WalletInv, WalletShape
  <2> QED
    BY <1>10, <2>1, <2>2, EventsBounded DEF ValidatorDies, chain, WalletInv, WalletShape
<1>11. ASSUME NEW k \in Ticker, TickFunding(k) PROVE WalletShape'
  BY <1>11 DEF Plan, Keep, Go, TickAt, Fails, Fine, Occurs, keepRows, keepMost, chain, door, TickFunding, WalletInv, WalletShape, WalletState, TickPc, TickTarget
<1>12. ASSUME NEW k \in Ticker, CheckFunding(k) PROVE WalletShape'
  <2>1. FundingTarget(tick[k].amount) \in {"funded", "funding_expired", "awaiting_funding"}
    BY DEF FundingTarget
  <2>2. tick' \in [Ticker -> [pc : TickPc, target : TickTarget, amount : Nat]]
    <3>1. CASE Go(k, "reg")
      BY <3>1, PlanShape DEF Go, Keep, TickPc, TickTarget, WalletInv
    <3>2. CASE Plan(k, "fund", FundingTarget(tick[k].amount), balance) /\ FundingTarget(tick[k].amount) # "awaiting_funding"
      BY <2>1, <3>2, PlanShape, TaoNumbers DEF TickPc, TickTarget, WalletInv
    <3> QED
      BY <1>12, <3>1, <3>2 DEF CheckFunding
  <2> QED
    BY <1>12, <2>2, EventsBounded DEF CheckFunding, keepRows, door, chain, WalletInv, WalletShape, Fine, Fails
<1>13. ASSUME NEW k \in Ticker, RecordFunding(k) PROVE WalletShape'
  <2>1. tick[k].amount \in 0..MaxSentIn
    BY <1>13 DEF RecordFunding, TickAt, WalletInv, WalletShape, TaoCounts
  <2>2. wallet' \in [state : WalletState, required : Nat, funded : 0..MaxSentIn, uid : BOOLEAN, paid : Nat]
    BY <1>13, <2>1 DEF RecordFunding, WalletInv, WalletShape, TickTarget, WalletState
  <2>3. tick' \in [Ticker -> [pc : TickPc, target : TickTarget, amount : Nat]]
    BY <1>13, PlanShape DEF RecordFunding, Go, Keep, TickPc, TickTarget, WalletInv
  <2> QED
    BY <1>13, <2>2, <2>3, EventsBounded DEF RecordFunding, keepMost, door, chain, WalletInv, WalletShape, Fine, Fails
<1>14. ASSUME NEW k \in Ticker, TickRegistration(k) PROVE WalletShape'
  BY <1>14 DEF Plan, Keep, Go, TickAt, Fails, Fine, Occurs, keepRows, keepMost, chain, door, TickRegistration, WalletInv, WalletShape, WalletState, TickPc, TickTarget
<1>15. ASSUME NEW k \in Ticker, PlanRegistration(k) PROVE WalletShape'
  <2>1. tick' \in [Ticker -> [pc : TickPc, target : TickTarget, amount : Nat]]
    <3>1. ASSUME NEW pc \in {"adopt", "mark", "act"}, Go(k, pc) PROVE tick' \in [Ticker -> [pc : TickPc, target : TickTarget, amount : Nat]]
      BY <3>1, PlanShape DEF Go, Keep, TickPc, TickTarget, WalletInv
    <3>2. CASE burn > Spendable /\ Keep(k, "requote", tick[k].amount + burn - Spendable)
      <4>1. tick[k].amount + burn - Spendable \in Nat
        BY <3>2, TaoNumbers
      <4> QED
        BY <3>2, <4>1, PlanShape DEF Keep, TickPc, TickTarget, WalletInv
    <3> QED
      BY <1>15, <3>1, <3>2 DEF PlanRegistration
  <2> QED
    BY <1>15, <2>1, EventsBounded DEF PlanRegistration, keepRows, door, chain, WalletInv, WalletShape, Fine, Fails
<1>16. ASSUME NEW k \in Ticker, Requote(k) PROVE WalletShape'
  BY <1>16 DEF Plan, Keep, Go, TickAt, Fails, Fine, Occurs, keepRows, keepMost, chain, door, Requote, WalletInv, WalletShape, WalletState, TickPc, TickTarget
<1>17. ASSUME NEW k \in Ticker, AdoptNeuron(k) PROVE WalletShape'
  BY <1>17 DEF Plan, Keep, Go, TickAt, Fails, Fine, Occurs, keepRows, keepMost, chain, door, AdoptNeuron, Advanced, WalletInv, WalletShape, WalletState, TickPc, TickTarget
<1>18. ASSUME NEW k \in Ticker, MarkRegistering(k) PROVE WalletShape'
  BY <1>18 DEF Plan, Keep, Go, TickAt, Fails, Fine, Occurs, keepRows, keepMost, chain, door, MarkRegistering, Advanced, WalletInv, WalletShape, WalletState, TickPc, TickTarget
<1>19. ASSUME NEW k \in Ticker, RegisterExtrinsic(k) PROVE WalletShape'
  <2>1. \E pc \in TickPc, amount \in Nat : Plan(k, pc, "none", amount)
    BY <1>19, TaoNumbers DEF RegisterExtrinsic, Go, Keep, TickPc
  <2>2. tick' \in [Ticker -> [pc : TickPc, target : TickTarget, amount : Nat]]
    BY <2>1, PlanShape DEF TickTarget, WalletInv
  <2> QED
    BY <1>19, <2>2, EventsBounded DEF RegisterExtrinsic, keepRows, door, chain, WalletInv, WalletShape, Fine, Fails
<1>20. ASSUME NEW k \in Ticker, RegisterRaised(k) PROVE WalletShape'
  BY <1>20 DEF Plan, Keep, Go, TickAt, Fails, Fine, Occurs, keepRows, keepMost, chain, door, RegisterRaised, Advanced, WalletInv, WalletShape, WalletState, TickPc, TickTarget
<1>21. ASSUME NEW k \in Ticker, ConfirmRegistration(k) PROVE WalletShape'
  <2>1. \E pc \in TickPc, amount \in Nat : Plan(k, pc, "none", amount)
    BY <1>21, TaoNumbers DEF ConfirmRegistration, Go, Keep, TickPc
  <2>2. tick' \in [Ticker -> [pc : TickPc, target : TickTarget, amount : Nat]]
    BY <2>1, PlanShape DEF TickTarget, WalletInv
  <2> QED
    BY <1>21, <2>2, EventsBounded DEF ConfirmRegistration, keepRows, door, chain, WalletInv, WalletShape, Fine, Fails
<1>22. ASSUME NEW k \in Ticker, SettleRegistered(k) PROVE WalletShape'
  BY <1>22 DEF Plan, Keep, Go, TickAt, Fails, Fine, Occurs, keepRows, keepMost, chain, door, SettleRegistered, WalletInv, WalletShape, WalletState, TickPc, TickTarget
<1>23. ASSUME NEW k \in Ticker, ListRegistered(k) PROVE WalletShape'
  BY <1>23 DEF Plan, Keep, Go, TickAt, Fails, Fine, Occurs, keepRows, keepMost, chain, door, ListRegistered, Activates, WalletInv, WalletShape, WalletState, TickPc, TickTarget
<1>24. ASSUME NEW k \in Ticker, WhitelistNeuron(k) PROVE WalletShape'
  <2>1. \E pc \in TickPc, amount \in Nat : Plan(k, pc, "none", amount)
    BY <1>24, TaoNumbers DEF WhitelistNeuron, Go, Keep, TickPc
  <2>2. tick' \in [Ticker -> [pc : TickPc, target : TickTarget, amount : Nat]]
    BY <2>1, PlanShape DEF TickTarget, WalletInv
  <2> QED
    BY <1>24, <2>2, EventsBounded DEF WhitelistNeuron, keepRows, door, chain, WalletInv, WalletShape, Fine, Fails
<1>25. ASSUME NEW k \in Ticker, ActivateOne(k) PROVE WalletShape'
  BY <1>25 DEF Plan, Keep, Go, TickAt, Fails, Fine, Occurs, keepRows, keepMost, chain, door, ActivateOne, Advanced, WalletInv, WalletShape, WalletState, TickPc, TickTarget
<1>26. ASSUME NEW k \in Ticker, TickPayouts(k) PROVE WalletShape'
  BY <1>26 DEF Plan, Keep, Go, TickAt, Fails, Fine, Occurs, keepRows, keepMost, chain, door, TickPayouts, HasInflightPayout, WalletInv, WalletShape, WalletState, TickPc, TickTarget
<1>27. ASSUME NEW k \in Ticker, PlanPayout(k) PROVE WalletShape'
  <2>1. tick' \in [Ticker -> [pc : TickPc, target : TickTarget, amount : Nat]]
    <3>1. CASE Go(k, "idle")
      BY <3>1, PlanShape DEF Go, Keep, TickPc, TickTarget, WalletInv
    <3>2. CASE Keep(k, "record", stake)
      BY <3>2, PlanShape DEF Keep, TickPc, TickTarget, WalletInv, AlphaCounts
    <3> QED
      BY <1>27, <3>1, <3>2 DEF PlanPayout
  <2> QED
    BY <1>27, <2>1, EventsBounded DEF PlanPayout, keepRows, door, chain, WalletInv, WalletShape, Fine, Fails
<1>28. ASSUME NEW k \in Ticker, RecordSubmitting(k) PROVE WalletShape'
  BY <1>28 DEF Plan, Keep, Go, TickAt, Fails, Fine, Occurs, keepRows, keepMost, chain, door, RecordSubmitting, WalletInv, WalletShape, WalletState, TickPc, TickTarget
<1>29. ASSUME NEW k \in Ticker, TransferAlpha(k) PROVE WalletShape'
  BY <1>29 DEF Plan, Keep, Go, TickAt, Fails, Fine, Occurs, keepRows, keepMost, chain, door, TransferAlpha, WalletInv, WalletShape, WalletState, TickPc, TickTarget
<1>30. ASSUME NEW k \in Ticker, SettlePayout(k) PROVE WalletShape'
  BY <1>30 DEF Plan, Keep, Go, TickAt, Fails, Fine, Occurs, keepRows, keepMost, chain, door, SettlePayout, WalletInv, WalletShape, WalletState, TickPc, TickTarget
<1>31. ASSUME NEW k \in Ticker, CreditManagedPayout(k) PROVE WalletShape'
  BY <1>31 DEF Plan, Keep, Go, TickAt, Fails, Fine, Occurs, keepRows, keepMost, chain, door, CreditManagedPayout, WalletInv, WalletShape, WalletState, TickPc, TickTarget
<1>32. ASSUME NEW k \in Ticker, Ticks(k) PROVE WalletShape'
  BY <1>32, <1>11, <1>12, <1>13, <1>14, <1>15, <1>16, <1>17, <1>18, <1>19, <1>20, <1>21, <1>22, <1>23, <1>24, <1>25, <1>26, <1>27, <1>28, <1>29, <1>30, <1>31 DEF Ticks
<1> QED
  BY <1>1, <1>2, <1>3, <1>4, <1>5, <1>6, <1>7, <1>8, <1>9, <1>10, <1>32 DEF WalletNext

\* Every step keeps the TAO counts.
LEMMA TaoKept ==
  ASSUME WalletInv, WalletNext
  PROVE  TaoCounts'
<1> USE WalletAssumption
<1>1. CASE SubmitApplication
  BY <1>1 DEF keepSteps, keepTicks, Occurs, chain, door, SubmitApplication, ReviewVerdict, RulesVerdict, WalletInv, WalletShape, TaoCounts
<1>2. CASE ApproveApplication
  BY <1>2 DEF keepSteps, keepTicks, Occurs, chain, door, ApproveApplication, AppHotkey, WalletInv, WalletShape, TaoCounts
<1>3. CASE RejectApplication
  BY <1>3 DEF keepSteps, keepTicks, Occurs, chain, door, RejectApplication, WalletInv, WalletShape, TaoCounts
<1>4. CASE ProvisionForApplication
  BY <1>4 DEF keepSteps, keepTicks, Occurs, chain, door, ProvisionForApplication, Quote, NoWallet, WalletInv, WalletShape, TaoCounts
<1>5. CASE RemoveFromWhitelist
  BY <1>5 DEF keepSteps, keepTicks, Occurs, chain, door, RemoveFromWhitelist, WalletInv, WalletShape, TaoCounts
<1>6. CASE ProviderSends
  BY <1>6 DEF keepSteps, keepTicks, Occurs, chain, door, ProviderSends, WalletInv, WalletShape, TaoCounts
<1>7. CASE BurnMoves
  BY <1>7 DEF keepSteps, keepTicks, Occurs, chain, door, BurnMoves, WalletInv, WalletShape, TaoCounts
<1>8. CASE FundingWindowPasses
  BY <1>8 DEF keepSteps, keepTicks, Occurs, chain, door, FundingWindowPasses, WalletInv, WalletShape, TaoCounts
<1>9. CASE Emission
  BY <1>9 DEF keepSteps, keepTicks, Occurs, chain, door, Emission, WalletInv, WalletShape, TaoCounts
<1>10. CASE ValidatorDies
  BY <1>10 DEF keepSteps, keepTicks, Occurs, chain, door, ValidatorDies, Fails, HasInflightPayout, IdleTick, WalletInv, WalletShape, TaoCounts
<1>11. ASSUME NEW k \in Ticker, TickFunding(k) PROVE TaoCounts'
  BY <1>11 DEF Plan, Keep, Go, TickAt, Fails, Fine, Occurs, keepRows, keepMost, chain, door, TickFunding, WalletInv, WalletShape, TaoCounts
<1>12. ASSUME NEW k \in Ticker, CheckFunding(k) PROVE TaoCounts'
  BY <1>12 DEF Plan, Keep, Go, TickAt, Fails, Fine, Occurs, keepRows, keepMost, chain, door, CheckFunding, FundingTarget, WalletInv, WalletShape, TaoCounts
<1>13. ASSUME NEW k \in Ticker, RecordFunding(k) PROVE TaoCounts'
  BY <1>13 DEF Plan, Keep, Go, TickAt, Fails, Fine, Occurs, keepRows, keepMost, chain, door, RecordFunding, WalletInv, WalletShape, TaoCounts
<1>14. ASSUME NEW k \in Ticker, TickRegistration(k) PROVE TaoCounts'
  BY <1>14 DEF Plan, Keep, Go, TickAt, Fails, Fine, Occurs, keepRows, keepMost, chain, door, TickRegistration, WalletInv, WalletShape, TaoCounts
<1>15. ASSUME NEW k \in Ticker, PlanRegistration(k) PROVE TaoCounts'
  BY <1>15 DEF Plan, Keep, Go, TickAt, Fails, Fine, Occurs, keepRows, keepMost, chain, door, PlanRegistration, Spendable, WalletInv, WalletShape, TaoCounts
<1>16. ASSUME NEW k \in Ticker, Requote(k) PROVE TaoCounts'
  BY <1>16 DEF Plan, Keep, Go, TickAt, Fails, Fine, Occurs, keepRows, keepMost, chain, door, Requote, WalletInv, WalletShape, TaoCounts
<1>17. ASSUME NEW k \in Ticker, AdoptNeuron(k) PROVE TaoCounts'
  BY <1>17 DEF Plan, Keep, Go, TickAt, Fails, Fine, Occurs, keepRows, keepMost, chain, door, AdoptNeuron, Advanced, WalletInv, WalletShape, TaoCounts
<1>18. ASSUME NEW k \in Ticker, MarkRegistering(k) PROVE TaoCounts'
  BY <1>18 DEF Plan, Keep, Go, TickAt, Fails, Fine, Occurs, keepRows, keepMost, chain, door, MarkRegistering, Advanced, WalletInv, WalletShape, TaoCounts
<1>19. ASSUME NEW k \in Ticker, RegisterExtrinsic(k) PROVE TaoCounts'
  BY <1>19 DEF Plan, Keep, Go, TickAt, Fails, Fine, Occurs, keepRows, keepMost, chain, door, RegisterExtrinsic, WalletInv, WalletShape, TaoCounts
<1>20. ASSUME NEW k \in Ticker, RegisterRaised(k) PROVE TaoCounts'
  BY <1>20 DEF Plan, Keep, Go, TickAt, Fails, Fine, Occurs, keepRows, keepMost, chain, door, RegisterRaised, Advanced, WalletInv, WalletShape, TaoCounts
<1>21. ASSUME NEW k \in Ticker, ConfirmRegistration(k) PROVE TaoCounts'
  BY <1>21 DEF Plan, Keep, Go, TickAt, Fails, Fine, Occurs, keepRows, keepMost, chain, door, ConfirmRegistration, WalletInv, WalletShape, TaoCounts
<1>22. ASSUME NEW k \in Ticker, SettleRegistered(k) PROVE TaoCounts'
  BY <1>22 DEF Plan, Keep, Go, TickAt, Fails, Fine, Occurs, keepRows, keepMost, chain, door, SettleRegistered, WalletInv, WalletShape, TaoCounts
<1>23. ASSUME NEW k \in Ticker, ListRegistered(k) PROVE TaoCounts'
  BY <1>23 DEF Plan, Keep, Go, TickAt, Fails, Fine, Occurs, keepRows, keepMost, chain, door, ListRegistered, Activates, WalletInv, WalletShape, TaoCounts
<1>24. ASSUME NEW k \in Ticker, WhitelistNeuron(k) PROVE TaoCounts'
  BY <1>24 DEF Plan, Keep, Go, TickAt, Fails, Fine, Occurs, keepRows, keepMost, chain, door, WhitelistNeuron, WalletInv, WalletShape, TaoCounts
<1>25. ASSUME NEW k \in Ticker, ActivateOne(k) PROVE TaoCounts'
  BY <1>25 DEF Plan, Keep, Go, TickAt, Fails, Fine, Occurs, keepRows, keepMost, chain, door, ActivateOne, Advanced, WalletInv, WalletShape, TaoCounts
<1>26. ASSUME NEW k \in Ticker, TickPayouts(k) PROVE TaoCounts'
  BY <1>26 DEF Plan, Keep, Go, TickAt, Fails, Fine, Occurs, keepRows, keepMost, chain, door, TickPayouts, HasInflightPayout, WalletInv, WalletShape, TaoCounts
<1>27. ASSUME NEW k \in Ticker, PlanPayout(k) PROVE TaoCounts'
  BY <1>27 DEF Plan, Keep, Go, TickAt, Fails, Fine, Occurs, keepRows, keepMost, chain, door, PlanPayout, WalletInv, WalletShape, TaoCounts
<1>28. ASSUME NEW k \in Ticker, RecordSubmitting(k) PROVE TaoCounts'
  BY <1>28 DEF Plan, Keep, Go, TickAt, Fails, Fine, Occurs, keepRows, keepMost, chain, door, RecordSubmitting, WalletInv, WalletShape, TaoCounts
<1>29. ASSUME NEW k \in Ticker, TransferAlpha(k) PROVE TaoCounts'
  BY <1>29 DEF Plan, Keep, Go, TickAt, Fails, Fine, Occurs, keepRows, keepMost, chain, door, TransferAlpha, WalletInv, WalletShape, TaoCounts
<1>30. ASSUME NEW k \in Ticker, SettlePayout(k) PROVE TaoCounts'
  BY <1>30 DEF Plan, Keep, Go, TickAt, Fails, Fine, Occurs, keepRows, keepMost, chain, door, SettlePayout, WalletInv, WalletShape, TaoCounts
<1>31. ASSUME NEW k \in Ticker, CreditManagedPayout(k) PROVE TaoCounts'
  BY <1>31 DEF Plan, Keep, Go, TickAt, Fails, Fine, Occurs, keepRows, keepMost, chain, door, CreditManagedPayout, WalletInv, WalletShape, TaoCounts
<1>32. ASSUME NEW k \in Ticker, Ticks(k) PROVE TaoCounts'
  BY <1>32, <1>11, <1>12, <1>13, <1>14, <1>15, <1>16, <1>17, <1>18, <1>19, <1>20, <1>21, <1>22, <1>23, <1>24, <1>25, <1>26, <1>27, <1>28, <1>29, <1>30, <1>31 DEF Ticks
<1> QED
  BY <1>1, <1>2, <1>3, <1>4, <1>5, <1>6, <1>7, <1>8, <1>9, <1>10, <1>32 DEF WalletNext

\* Every step keeps a neuron behind what is listed.
LEMMA NeuronKept ==
  ASSUME WalletInv, WalletNext
  PROVE  NeuronBehind'
<1> USE WalletAssumption
<1>1. CASE SubmitApplication
  BY <1>1 DEF keepSteps, keepTicks, Occurs, chain, door, SubmitApplication, ReviewVerdict, RulesVerdict, WalletInv, WalletShape, NeuronBehind, ListedHasNeuron
<1>2. CASE ApproveApplication
  BY <1>2 DEF keepSteps, keepTicks, Occurs, chain, door, ApproveApplication, AppHotkey, WalletInv, WalletShape, NeuronBehind, ListedHasNeuron
<1>3. CASE RejectApplication
  BY <1>3 DEF keepSteps, keepTicks, Occurs, chain, door, RejectApplication, WalletInv, WalletShape, NeuronBehind, ListedHasNeuron
<1>4. CASE ProvisionForApplication
  BY <1>4 DEF keepSteps, keepTicks, Occurs, chain, door, ProvisionForApplication, Quote, NoWallet, WalletInv, WalletShape, NeuronBehind, ListedHasNeuron
<1>5. CASE RemoveFromWhitelist
  BY <1>5 DEF keepSteps, keepTicks, Occurs, chain, door, RemoveFromWhitelist, WalletInv, WalletShape, NeuronBehind, ListedHasNeuron
<1>6. CASE ProviderSends
  BY <1>6 DEF keepSteps, keepTicks, Occurs, chain, door, ProviderSends, WalletInv, WalletShape, NeuronBehind, ListedHasNeuron
<1>7. CASE BurnMoves
  BY <1>7 DEF keepSteps, keepTicks, Occurs, chain, door, BurnMoves, WalletInv, WalletShape, NeuronBehind, ListedHasNeuron
<1>8. CASE FundingWindowPasses
  BY <1>8 DEF keepSteps, keepTicks, Occurs, chain, door, FundingWindowPasses, WalletInv, WalletShape, NeuronBehind, ListedHasNeuron
<1>9. CASE Emission
  BY <1>9 DEF keepSteps, keepTicks, Occurs, chain, door, Emission, WalletInv, WalletShape, NeuronBehind, ListedHasNeuron
<1>10. CASE ValidatorDies
  BY <1>10 DEF keepSteps, keepTicks, Occurs, chain, door, ValidatorDies, Fails, HasInflightPayout, IdleTick, WalletInv, WalletShape, NeuronBehind, ListedHasNeuron
<1>11. ASSUME NEW k \in Ticker, TickFunding(k) PROVE NeuronBehind'
  BY <1>11 DEF Plan, Keep, Go, TickAt, Fails, Fine, Occurs, keepRows, keepMost, chain, door, TickFunding, WalletInv, WalletShape, NeuronBehind, ListedHasNeuron
<1>12. ASSUME NEW k \in Ticker, CheckFunding(k) PROVE NeuronBehind'
  BY <1>12 DEF Plan, Keep, Go, TickAt, Fails, Fine, Occurs, keepRows, keepMost, chain, door, CheckFunding, FundingTarget, WalletInv, WalletShape, NeuronBehind, ListedHasNeuron
<1>13. ASSUME NEW k \in Ticker, RecordFunding(k) PROVE NeuronBehind'
  <2>1. tick[k].target \in TickTarget
    BY DEF WalletInv, WalletShape
  <2> QED
    BY <1>13, <2>1 DEF RecordFunding, Go, Keep, Plan, TickAt, keepMost, chain, TickTarget, WalletInv, WalletShape, NeuronBehind, ListedHasNeuron
<1>14. ASSUME NEW k \in Ticker, TickRegistration(k) PROVE NeuronBehind'
  BY <1>14 DEF Plan, Keep, Go, TickAt, Fails, Fine, Occurs, keepRows, keepMost, chain, door, TickRegistration, WalletInv, WalletShape, NeuronBehind, ListedHasNeuron
<1>15. ASSUME NEW k \in Ticker, PlanRegistration(k) PROVE NeuronBehind'
  BY <1>15 DEF Plan, Keep, Go, TickAt, Fails, Fine, Occurs, keepRows, keepMost, chain, door, PlanRegistration, Spendable, WalletInv, WalletShape, NeuronBehind, ListedHasNeuron
<1>16. ASSUME NEW k \in Ticker, Requote(k) PROVE NeuronBehind'
  BY <1>16 DEF Plan, Keep, Go, TickAt, Fails, Fine, Occurs, keepRows, keepMost, chain, door, Requote, WalletInv, WalletShape, NeuronBehind, ListedHasNeuron
<1>17. ASSUME NEW k \in Ticker, AdoptNeuron(k) PROVE NeuronBehind'
  BY <1>17 DEF Plan, Keep, Go, TickAt, Fails, Fine, Occurs, keepRows, keepMost, chain, door, AdoptNeuron, Advanced, WalletInv, WalletShape, NeuronBehind, ListedHasNeuron
<1>18. ASSUME NEW k \in Ticker, MarkRegistering(k) PROVE NeuronBehind'
  BY <1>18 DEF Plan, Keep, Go, TickAt, Fails, Fine, Occurs, keepRows, keepMost, chain, door, MarkRegistering, Advanced, WalletInv, WalletShape, NeuronBehind, ListedHasNeuron
<1>19. ASSUME NEW k \in Ticker, RegisterExtrinsic(k) PROVE NeuronBehind'
  BY <1>19 DEF Plan, Keep, Go, TickAt, Fails, Fine, Occurs, keepRows, keepMost, chain, door, RegisterExtrinsic, WalletInv, WalletShape, NeuronBehind, ListedHasNeuron
<1>20. ASSUME NEW k \in Ticker, RegisterRaised(k) PROVE NeuronBehind'
  BY <1>20 DEF Plan, Keep, Go, TickAt, Fails, Fine, Occurs, keepRows, keepMost, chain, door, RegisterRaised, Advanced, WalletInv, WalletShape, NeuronBehind, ListedHasNeuron
<1>21. ASSUME NEW k \in Ticker, ConfirmRegistration(k) PROVE NeuronBehind'
  BY <1>21 DEF Plan, Keep, Go, TickAt, Fails, Fine, Occurs, keepRows, keepMost, chain, door, ConfirmRegistration, WalletInv, WalletShape, NeuronBehind, ListedHasNeuron
<1>22. ASSUME NEW k \in Ticker, SettleRegistered(k) PROVE NeuronBehind'
  BY <1>22 DEF Plan, Keep, Go, TickAt, Fails, Fine, Occurs, keepRows, keepMost, chain, door, SettleRegistered, WalletInv, WalletShape, NeuronBehind, ListedHasNeuron
<1>23. ASSUME NEW k \in Ticker, ListRegistered(k) PROVE NeuronBehind'
  BY <1>23 DEF Plan, Keep, Go, TickAt, Fails, Fine, Occurs, keepRows, keepMost, chain, door, ListRegistered, Activates, WalletInv, WalletShape, NeuronBehind, ListedHasNeuron
<1>24. ASSUME NEW k \in Ticker, WhitelistNeuron(k) PROVE NeuronBehind'
  BY <1>24 DEF Plan, Keep, Go, TickAt, Fails, Fine, Occurs, keepRows, keepMost, chain, door, WhitelistNeuron, WalletInv, WalletShape, NeuronBehind, ListedHasNeuron
<1>25. ASSUME NEW k \in Ticker, ActivateOne(k) PROVE NeuronBehind'
  <2>1. wallet.state \in WalletState /\ neuron' = neuron /\ listed' = listed
    BY <1>25 DEF ActivateOne, keepMost, chain, WalletInv, WalletShape
  <2>2. CanTransition(wallet.state, "active") => wallet.state \in {"registered", "active", "suspended"}
    BY <2>1 DEF CanTransition, ValidTransitions, WalletState
  <2>3. wallet'.state \in {"registered", "active", "suspended"} => neuron' /\ wallet'.uid
    BY <1>25, <2>1, <2>2 DEF ActivateOne, Advanced, WalletInv, WalletShape, NeuronBehind, ListedHasNeuron
  <2> QED
    BY <1>25, <2>1, <2>3 DEF ActivateOne, Go, Keep, Plan, TickAt, WalletInv, WalletShape, NeuronBehind, ListedHasNeuron
<1>26. ASSUME NEW k \in Ticker, TickPayouts(k) PROVE NeuronBehind'
  BY <1>26 DEF Plan, Keep, Go, TickAt, Fails, Fine, Occurs, keepRows, keepMost, chain, door, TickPayouts, HasInflightPayout, WalletInv, WalletShape, NeuronBehind, ListedHasNeuron
<1>27. ASSUME NEW k \in Ticker, PlanPayout(k) PROVE NeuronBehind'
  BY <1>27 DEF Plan, Keep, Go, TickAt, Fails, Fine, Occurs, keepRows, keepMost, chain, door, PlanPayout, WalletInv, WalletShape, NeuronBehind, ListedHasNeuron
<1>28. ASSUME NEW k \in Ticker, RecordSubmitting(k) PROVE NeuronBehind'
  BY <1>28 DEF Plan, Keep, Go, TickAt, Fails, Fine, Occurs, keepRows, keepMost, chain, door, RecordSubmitting, WalletInv, WalletShape, NeuronBehind, ListedHasNeuron
<1>29. ASSUME NEW k \in Ticker, TransferAlpha(k) PROVE NeuronBehind'
  BY <1>29 DEF Plan, Keep, Go, TickAt, Fails, Fine, Occurs, keepRows, keepMost, chain, door, TransferAlpha, WalletInv, WalletShape, NeuronBehind, ListedHasNeuron
<1>30. ASSUME NEW k \in Ticker, SettlePayout(k) PROVE NeuronBehind'
  BY <1>30 DEF Plan, Keep, Go, TickAt, Fails, Fine, Occurs, keepRows, keepMost, chain, door, SettlePayout, WalletInv, WalletShape, NeuronBehind, ListedHasNeuron
<1>31. ASSUME NEW k \in Ticker, CreditManagedPayout(k) PROVE NeuronBehind'
  BY <1>31 DEF Plan, Keep, Go, TickAt, Fails, Fine, Occurs, keepRows, keepMost, chain, door, CreditManagedPayout, WalletInv, WalletShape, NeuronBehind, ListedHasNeuron
<1>32. ASSUME NEW k \in Ticker, Ticks(k) PROVE NeuronBehind'
  BY <1>32, <1>11, <1>12, <1>13, <1>14, <1>15, <1>16, <1>17, <1>18, <1>19, <1>20, <1>21, <1>22, <1>23, <1>24, <1>25, <1>26, <1>27, <1>28, <1>29, <1>30, <1>31 DEF Ticks
<1> QED
  BY <1>1, <1>2, <1>3, <1>4, <1>5, <1>6, <1>7, <1>8, <1>9, <1>10, <1>32 DEF WalletNext

\* What k's move does to what is due: the difference of its own share.
LEMMA DueMoves ==
  ASSUME WalletInv, NEW k \in Ticker, NEW pc, NEW into, NEW amount \in Nat, Plan(k, pc, into, amount)
  PROVE  /\ Total(Ticker, Due) \in Nat /\ Total(Ticker, Due)' \in Nat
         /\ Total(Ticker, Due)' + Due[k] = Total(Ticker, Due)
                                            + (IF pc \in {"sent", "credit"} THEN amount ELSE 0)
<1> DEFINE f == Due
           g == Due'
<1>1. \A j \in Ticker : f[j] \in Nat /\ g[j] \in Nat
  BY DEF Due, Plan, WalletInv, WalletShape
<1>2. \A j \in Ticker \ {k} : f[j] = g[j]
  BY DEF Due, Plan, WalletInv, WalletShape
<1>3. g[k] = IF pc \in {"sent", "credit"} THEN amount ELSE 0
  BY DEF Due, Plan, WalletInv, WalletShape
<1>4. IsFiniteSet(Ticker)
  BY WalletAssumption
<1> HIDE DEF f, g
<1>5. /\ Total(Ticker, f) \in Nat /\ Total(Ticker, g) \in Nat
      /\ Total(Ticker, g) + f[k] = Total(Ticker, f) + g[k]
  BY <1>1, <1>2, <1>4, TotalChange
<1> QED
  BY <1>3, <1>5 DEF f, g, Total, Units

\* A ticker that neither sends nor counts leaves what is due alone.
LEMMA DueStays ==
  ASSUME WalletInv, NEW k \in Ticker, NEW pc, pc \notin {"sent", "credit"}, NEW into, NEW amount \in Nat,
         Plan(k, pc, into, amount), tick[k].pc \notin {"sent", "credit"}
  PROVE  Total(Ticker, Due)' = Total(Ticker, Due) /\ Total(Ticker, Due) \in Nat
<1>1. Due[k] = 0
  BY DEF Due
<1> QED
  BY <1>1, DueMoves

\* Nobody moves, nothing changes.
LEMMA DueSame ==
  ASSUME WalletInv, tick' = tick
  PROVE  Total(Ticker, Due)' = Total(Ticker, Due)
BY DEF Due, Total, Units

\* A step that leaves alpha, the paid total and what is due alone keeps the count.
LEMMA AlphaStays ==
  ASSUME WalletInv, UNCHANGED <<emitted, stake, sentOut>>, wallet'.paid = wallet.paid,
         Total(Ticker, Due)' = Total(Ticker, Due)
  PROVE  AlphaCounts'
BY DEF WalletInv, AlphaCounts

\* What the tickers are about to write adds up to a number.
LEMMA TotalsAreNumbers == ASSUME WalletInv PROVE Total(Ticker, Due) \in Nat
<1>1. \A k \in Ticker : Due[k] \in Nat
  BY DEF Due, WalletInv, WalletShape
<1>2. IsFiniteSet(Ticker)
  BY WalletAssumption
<1> QED
  BY <1>1, <1>2, TotalType

\* Every step keeps the count of alpha: no payout is counted that was not sent.
LEMMA AlphaKept ==
  ASSUME WalletInv, WalletNext
  PROVE  AlphaCounts'
<1> USE WalletAssumption
<1>1. CASE SubmitApplication
  BY <1>1, DueSame, AlphaStays DEF keepSteps, keepTicks, Occurs, chain, door, SubmitApplication
<1>2. CASE ApproveApplication
  BY <1>2, DueSame, AlphaStays DEF keepSteps, keepTicks, Occurs, chain, door, ApproveApplication
<1>3. CASE RejectApplication
  BY <1>3, DueSame, AlphaStays DEF keepSteps, keepTicks, Occurs, chain, door, RejectApplication
<1>4. CASE ProvisionForApplication
  <2>1. wallet'.paid = wallet.paid
    BY <1>4 DEF ProvisionForApplication, NoWallet, WalletInv, WalletShape
  <2> QED
    BY <1>4, <2>1, DueSame, AlphaStays DEF ProvisionForApplication, keepTicks, keepSteps, chain
<1>5. CASE RemoveFromWhitelist
  BY <1>5, DueSame, AlphaStays DEF keepSteps, keepTicks, Occurs, chain, door, RemoveFromWhitelist
<1>6. CASE ProviderSends
  BY <1>6, DueSame, AlphaStays DEF keepSteps, keepTicks, Occurs, chain, door, ProviderSends
<1>7. CASE BurnMoves
  BY <1>7, DueSame, AlphaStays DEF keepSteps, keepTicks, Occurs, chain, door, BurnMoves
<1>8. CASE FundingWindowPasses
  BY <1>8, DueSame, AlphaStays DEF keepSteps, keepTicks, Occurs, chain, door, FundingWindowPasses
<1>9. CASE Emission
  BY <1>9, DueSame, TotalsAreNumbers DEF Emission, keepTicks, keepSteps, door, WalletInv, WalletShape, AlphaCounts
<1>10. CASE ValidatorDies
  <2>1. Units(Ticker, Due') = {}
    BY <1>10 DEF ValidatorDies, IdleTick, Due, Units
  <2>2. Total(Ticker, Due)' = 0
    BY <2>1, FS_EmptySet DEF Total
  <2> QED
    BY <1>10, <2>2, TotalsAreNumbers DEF ValidatorDies, chain, WalletInv, WalletShape, AlphaCounts
<1>11. ASSUME NEW k \in Ticker, TickFunding(k) PROVE AlphaCounts'
  <2>1. \E pc \in TickPc \ {"sent", "credit"}, into \in TickTarget \cup WalletState, amount \in Nat : Plan(k, pc, into, amount)
    BY <1>11, TaoNumbers DEF TickFunding, Go, Keep, TickPc, TickTarget, WalletInv, WalletShape
  <2>2. tick[k].pc \notin {"sent", "credit"} /\ UNCHANGED <<emitted, stake, sentOut>> /\ wallet'.paid = wallet.paid
    BY <1>11 DEF TickFunding, TickAt, keepRows, keepMost, chain, WalletInv, WalletShape
  <2> QED
    BY <2>1, <2>2, DueStays, AlphaStays
<1>12. ASSUME NEW k \in Ticker, CheckFunding(k) PROVE AlphaCounts'
  <2>1. \E pc \in TickPc \ {"sent", "credit"}, into \in TickTarget \cup WalletState, amount \in Nat : Plan(k, pc, into, amount)
    BY <1>12, TaoNumbers DEF CheckFunding, Go, Keep, TickPc, TickTarget, FundingTarget, WalletState
  <2>2. tick[k].pc \notin {"sent", "credit"} /\ UNCHANGED <<emitted, stake, sentOut>> /\ wallet'.paid = wallet.paid
    BY <1>12 DEF CheckFunding, TickAt, keepRows, keepMost, chain, WalletInv, WalletShape
  <2> QED
    BY <2>1, <2>2, DueStays, AlphaStays
<1>13. ASSUME NEW k \in Ticker, RecordFunding(k) PROVE AlphaCounts'
  <2>1. \E pc \in TickPc \ {"sent", "credit"}, into \in TickTarget \cup WalletState, amount \in Nat : Plan(k, pc, into, amount)
    BY <1>13, TaoNumbers DEF RecordFunding, Go, Keep, TickPc, TickTarget
  <2>2. tick[k].pc \notin {"sent", "credit"} /\ UNCHANGED <<emitted, stake, sentOut>> /\ wallet'.paid = wallet.paid
    BY <1>13 DEF RecordFunding, TickAt, keepRows, keepMost, chain, WalletInv, WalletShape
  <2> QED
    BY <2>1, <2>2, DueStays, AlphaStays
<1>14. ASSUME NEW k \in Ticker, TickRegistration(k) PROVE AlphaCounts'
  <2>1. \E pc \in TickPc \ {"sent", "credit"}, into \in TickTarget \cup WalletState, amount \in Nat : Plan(k, pc, into, amount)
    BY <1>14, TaoNumbers DEF TickRegistration, Go, Keep, TickPc, TickTarget, WalletInv, WalletShape
  <2>2. tick[k].pc \notin {"sent", "credit"} /\ UNCHANGED <<emitted, stake, sentOut>> /\ wallet'.paid = wallet.paid
    BY <1>14 DEF TickRegistration, TickAt, keepRows, keepMost, chain, WalletInv, WalletShape
  <2> QED
    BY <2>1, <2>2, DueStays, AlphaStays
<1>15. ASSUME NEW k \in Ticker, PlanRegistration(k) PROVE AlphaCounts'
  <2>1. \E pc \in TickPc \ {"sent", "credit"}, into \in TickTarget, amount \in Nat : Plan(k, pc, into, amount)
    <3>1. ASSUME NEW pc \in {"adopt", "mark", "act"}, Go(k, pc) PROVE \E qc \in TickPc \ {"sent", "credit"}, into \in TickTarget, amount \in Nat : Plan(k, qc, into, amount)
      BY <3>1 DEF Go, Keep, TickPc, TickTarget
    <3>2. CASE burn > Spendable /\ Keep(k, "requote", tick[k].amount + burn - Spendable)
      <4>1. tick[k].amount + burn - Spendable \in Nat
        BY <3>2, TaoNumbers
      <4> QED
        BY <3>2, <4>1 DEF Keep, TickPc, TickTarget
    <3> QED
      BY <1>15, <3>1, <3>2 DEF PlanRegistration
  <2>2. tick[k].pc \notin {"sent", "credit"} /\ UNCHANGED <<emitted, stake, sentOut>> /\ wallet'.paid = wallet.paid
    BY <1>15 DEF PlanRegistration, TickAt, keepRows, keepMost, chain, WalletInv, WalletShape
  <2> QED
    BY <2>1, <2>2, DueStays, AlphaStays
<1>16. ASSUME NEW k \in Ticker, Requote(k) PROVE AlphaCounts'
  <2>1. \E pc \in TickPc \ {"sent", "credit"}, into \in TickTarget \cup WalletState, amount \in Nat : Plan(k, pc, into, amount)
    BY <1>16, TaoNumbers DEF Requote, Go, Keep, TickPc, TickTarget
  <2>2. tick[k].pc \notin {"sent", "credit"} /\ UNCHANGED <<emitted, stake, sentOut>> /\ wallet'.paid = wallet.paid
    BY <1>16 DEF Requote, TickAt, keepRows, keepMost, chain, WalletInv, WalletShape
  <2> QED
    BY <2>1, <2>2, DueStays, AlphaStays
<1>17. ASSUME NEW k \in Ticker, AdoptNeuron(k) PROVE AlphaCounts'
  <2>1. \E pc \in TickPc \ {"sent", "credit"}, into \in TickTarget \cup WalletState, amount \in Nat : Plan(k, pc, into, amount)
    BY <1>17, TaoNumbers DEF AdoptNeuron, Go, Keep, TickPc, TickTarget
  <2>2. tick[k].pc \notin {"sent", "credit"} /\ UNCHANGED <<emitted, stake, sentOut>> /\ wallet'.paid = wallet.paid
    BY <1>17 DEF AdoptNeuron, TickAt, keepRows, keepMost, chain, Advanced, WalletInv, WalletShape
  <2> QED
    BY <2>1, <2>2, DueStays, AlphaStays
<1>18. ASSUME NEW k \in Ticker, MarkRegistering(k) PROVE AlphaCounts'
  <2>1. \E pc \in TickPc \ {"sent", "credit"}, into \in TickTarget \cup WalletState, amount \in Nat : Plan(k, pc, into, amount)
    BY <1>18, TaoNumbers DEF MarkRegistering, Go, Keep, TickPc, TickTarget
  <2>2. tick[k].pc \notin {"sent", "credit"} /\ UNCHANGED <<emitted, stake, sentOut>> /\ wallet'.paid = wallet.paid
    BY <1>18 DEF MarkRegistering, TickAt, keepRows, keepMost, chain, Advanced, WalletInv, WalletShape
  <2> QED
    BY <2>1, <2>2, DueStays, AlphaStays
<1>19. ASSUME NEW k \in Ticker, RegisterExtrinsic(k) PROVE AlphaCounts'
  <2>1. \E pc \in TickPc \ {"sent", "credit"}, into \in TickTarget \cup WalletState, amount \in Nat : Plan(k, pc, into, amount)
    BY <1>19, TaoNumbers DEF RegisterExtrinsic, Go, Keep, TickPc, TickTarget
  <2>2. tick[k].pc \notin {"sent", "credit"} /\ UNCHANGED <<emitted, stake, sentOut>> /\ wallet'.paid = wallet.paid
    BY <1>19 DEF RegisterExtrinsic, TickAt, keepRows, keepMost, chain, WalletInv, WalletShape
  <2> QED
    BY <2>1, <2>2, DueStays, AlphaStays
<1>20. ASSUME NEW k \in Ticker, RegisterRaised(k) PROVE AlphaCounts'
  <2>1. \E pc \in TickPc \ {"sent", "credit"}, into \in TickTarget \cup WalletState, amount \in Nat : Plan(k, pc, into, amount)
    BY <1>20, TaoNumbers DEF RegisterRaised, Go, Keep, TickPc, TickTarget
  <2>2. tick[k].pc \notin {"sent", "credit"} /\ UNCHANGED <<emitted, stake, sentOut>> /\ wallet'.paid = wallet.paid
    BY <1>20 DEF RegisterRaised, TickAt, keepRows, keepMost, chain, Advanced, WalletInv, WalletShape
  <2> QED
    BY <2>1, <2>2, DueStays, AlphaStays
<1>21. ASSUME NEW k \in Ticker, ConfirmRegistration(k) PROVE AlphaCounts'
  <2>1. \E pc \in TickPc \ {"sent", "credit"}, into \in TickTarget \cup WalletState, amount \in Nat : Plan(k, pc, into, amount)
    BY <1>21, TaoNumbers DEF ConfirmRegistration, Go, Keep, TickPc, TickTarget
  <2>2. tick[k].pc \notin {"sent", "credit"} /\ UNCHANGED <<emitted, stake, sentOut>> /\ wallet'.paid = wallet.paid
    BY <1>21 DEF ConfirmRegistration, TickAt, keepRows, keepMost, chain, WalletInv, WalletShape
  <2> QED
    BY <2>1, <2>2, DueStays, AlphaStays
<1>22. ASSUME NEW k \in Ticker, SettleRegistered(k) PROVE AlphaCounts'
  <2>1. \E pc \in TickPc \ {"sent", "credit"}, into \in TickTarget \cup WalletState, amount \in Nat : Plan(k, pc, into, amount)
    BY <1>22, TaoNumbers DEF SettleRegistered, Go, Keep, TickPc, TickTarget
  <2>2. tick[k].pc \notin {"sent", "credit"} /\ UNCHANGED <<emitted, stake, sentOut>> /\ wallet'.paid = wallet.paid
    BY <1>22 DEF SettleRegistered, TickAt, keepRows, keepMost, chain, WalletInv, WalletShape
  <2> QED
    BY <2>1, <2>2, DueStays, AlphaStays
<1>23. ASSUME NEW k \in Ticker, ListRegistered(k) PROVE AlphaCounts'
  <2>1. \E pc \in TickPc \ {"sent", "credit"}, into \in TickTarget \cup WalletState, amount \in Nat : Plan(k, pc, into, amount)
    BY <1>23, TaoNumbers DEF ListRegistered, Go, Keep, TickPc, TickTarget
  <2>2. tick[k].pc \notin {"sent", "credit"} /\ UNCHANGED <<emitted, stake, sentOut>> /\ wallet'.paid = wallet.paid
    BY <1>23 DEF ListRegistered, TickAt, keepRows, keepMost, chain, WalletInv, WalletShape
  <2> QED
    BY <2>1, <2>2, DueStays, AlphaStays
<1>24. ASSUME NEW k \in Ticker, WhitelistNeuron(k) PROVE AlphaCounts'
  <2>1. \E pc \in TickPc \ {"sent", "credit"}, into \in TickTarget \cup WalletState, amount \in Nat : Plan(k, pc, into, amount)
    BY <1>24, TaoNumbers DEF WhitelistNeuron, Go, Keep, TickPc, TickTarget
  <2>2. tick[k].pc \notin {"sent", "credit"} /\ UNCHANGED <<emitted, stake, sentOut>> /\ wallet'.paid = wallet.paid
    BY <1>24 DEF WhitelistNeuron, TickAt, keepRows, keepMost, chain, WalletInv, WalletShape
  <2> QED
    BY <2>1, <2>2, DueStays, AlphaStays
<1>25. ASSUME NEW k \in Ticker, ActivateOne(k) PROVE AlphaCounts'
  <2>1. \E pc \in TickPc \ {"sent", "credit"}, into \in TickTarget \cup WalletState, amount \in Nat : Plan(k, pc, into, amount)
    BY <1>25, TaoNumbers DEF ActivateOne, Go, Keep, TickPc, TickTarget
  <2>2. tick[k].pc \notin {"sent", "credit"} /\ UNCHANGED <<emitted, stake, sentOut>> /\ wallet'.paid = wallet.paid
    BY <1>25 DEF ActivateOne, TickAt, keepRows, keepMost, chain, Advanced, WalletInv, WalletShape
  <2> QED
    BY <2>1, <2>2, DueStays, AlphaStays
<1>26. ASSUME NEW k \in Ticker, TickPayouts(k) PROVE AlphaCounts'
  <2>1. \E pc \in TickPc \ {"sent", "credit"}, into \in TickTarget \cup WalletState, amount \in Nat : Plan(k, pc, into, amount)
    BY <1>26, TaoNumbers DEF TickPayouts, Go, Keep, TickPc, TickTarget
  <2>2. tick[k].pc \notin {"sent", "credit"} /\ UNCHANGED <<emitted, stake, sentOut>> /\ wallet'.paid = wallet.paid
    BY <1>26 DEF TickPayouts, TickAt, keepRows, keepMost, chain, WalletInv, WalletShape
  <2> QED
    BY <2>1, <2>2, DueStays, AlphaStays
<1>27. ASSUME NEW k \in Ticker, PlanPayout(k) PROVE AlphaCounts'
  <2>1. \E pc \in TickPc \ {"sent", "credit"}, into \in TickTarget \cup WalletState, amount \in Nat : Plan(k, pc, into, amount)
    BY <1>27, TaoNumbers DEF PlanPayout, Go, Keep, TickPc, TickTarget, WalletInv, AlphaCounts
  <2>2. tick[k].pc \notin {"sent", "credit"} /\ UNCHANGED <<emitted, stake, sentOut>> /\ wallet'.paid = wallet.paid
    BY <1>27 DEF PlanPayout, TickAt, keepRows, keepMost, chain, WalletInv, WalletShape
  <2> QED
    BY <2>1, <2>2, DueStays, AlphaStays
<1>28. ASSUME NEW k \in Ticker, RecordSubmitting(k) PROVE AlphaCounts'
  <2>1. \E pc \in TickPc \ {"sent", "credit"}, into \in TickTarget \cup WalletState, amount \in Nat : Plan(k, pc, into, amount)
    BY <1>28, TaoNumbers DEF RecordSubmitting, Go, Keep, TickPc, TickTarget
  <2>2. tick[k].pc \notin {"sent", "credit"} /\ UNCHANGED <<emitted, stake, sentOut>> /\ wallet'.paid = wallet.paid
    BY <1>28 DEF RecordSubmitting, TickAt, keepRows, keepMost, chain, WalletInv, WalletShape
  <2> QED
    BY <2>1, <2>2, DueStays, AlphaStays
<1>29. ASSUME NEW k \in Ticker, TransferAlpha(k) PROVE AlphaCounts'
  <2> DEFINE amount == tick[k].amount
  <2>1. amount \in Nat /\ tick[k].pc = "transfer"
    BY <1>29 DEF TransferAlpha, TickAt, WalletInv, WalletShape
  <2>2. Due[k] = 0
    BY <2>1 DEF Due
  <2>3. CASE stake' = stake /\ sentOut' = sentOut /\ Keep(k, "unsure", amount)
    <3>1. Total(Ticker, Due)' = Total(Ticker, Due)
      BY <2>1, <2>3, DueStays DEF Keep
    <3> QED
      BY <1>29, <2>3, <3>1, AlphaStays DEF TransferAlpha, keepRows
  <2>4. CASE stake >= amount /\ stake' = stake - amount /\ sentOut' = sentOut + amount /\ Keep(k, "sent", amount)
    <3>1. Total(Ticker, Due)' = Total(Ticker, Due) + amount
      BY <2>1, <2>2, <2>4, DueMoves DEF Keep
    <3> QED
      BY <1>29, <2>1, <2>4, <3>1, TotalsAreNumbers DEF TransferAlpha, keepRows, WalletInv, WalletShape, AlphaCounts
  <2>5. CASE stake >= amount /\ stake' = stake - amount /\ sentOut' = sentOut + amount /\ Keep(k, "unsure", amount)
    <3>1. Total(Ticker, Due)' = Total(Ticker, Due)
      BY <2>1, <2>5, DueStays DEF Keep
    <3> QED
      BY <1>29, <2>1, <2>5, <3>1, TotalsAreNumbers DEF TransferAlpha, keepRows, WalletInv, WalletShape, AlphaCounts
  <2> QED
    BY <1>29, <2>3, <2>4, <2>5 DEF TransferAlpha
<1>30. ASSUME NEW k \in Ticker, SettlePayout(k) PROVE AlphaCounts'
  <2>1. tick[k].amount \in Nat /\ Due[k] \in Nat
    BY <1>30 DEF WalletInv, WalletShape, Due
  <2>2. CASE tick[k].pc = "sent"
    <3>1. Keep(k, "credit", tick[k].amount) /\ Due[k] = tick[k].amount
      BY <1>30, <2>2 DEF SettlePayout, TickAt, Due
    <3>2. Total(Ticker, Due)' = Total(Ticker, Due)
      BY <2>1, <3>1, DueMoves DEF Keep
    <3> QED
      BY <1>30, <3>2, AlphaStays DEF SettlePayout, chain
  <2>3. CASE tick[k].pc = "unsure"
    <3>1. Go(k, "idle")
      BY <1>30, <2>3 DEF SettlePayout, TickAt
    <3>2. Total(Ticker, Due)' = Total(Ticker, Due)
      BY <2>3, <3>1, DueStays DEF Go, Keep
    <3> QED
      BY <1>30, <3>2, AlphaStays DEF SettlePayout, chain
  <2> QED
    BY <1>30, <2>2, <2>3 DEF SettlePayout
<1>31. ASSUME NEW k \in Ticker, CreditManagedPayout(k) PROVE AlphaCounts'
  <2>1. tick[k].amount \in Nat /\ Due[k] = tick[k].amount /\ Go(k, "idle")
    BY <1>31 DEF CreditManagedPayout, TickAt, WalletInv, WalletShape, Due
  <2>2. Total(Ticker, Due)' + tick[k].amount = Total(Ticker, Due) /\ Total(Ticker, Due)' \in Nat
    BY <2>1, DueMoves DEF Go, Keep
  <2>3. wallet'.paid = wallet.paid + tick[k].amount
    BY <1>31 DEF CreditManagedPayout, WalletInv, WalletShape
  <2> QED
    BY <1>31, <2>1, <2>2, <2>3, TotalsAreNumbers DEF CreditManagedPayout, keepMost, chain, WalletInv, WalletShape, AlphaCounts
<1>32. ASSUME NEW k \in Ticker, Ticks(k) PROVE AlphaCounts'
  BY <1>32, <1>11, <1>12, <1>13, <1>14, <1>15, <1>16, <1>17, <1>18, <1>19, <1>20, <1>21, <1>22, <1>23, <1>24, <1>25, <1>26, <1>27, <1>28, <1>29, <1>30, <1>31 DEF Ticks
<1> QED
  BY <1>1, <1>2, <1>3, <1>4, <1>5, <1>6, <1>7, <1>8, <1>9, <1>10, <1>32 DEF WalletNext

\* At the start no wallet owes or holds anything.
LEMMA WalletInvInit == WalletInit => WalletInv
<1> SUFFICES ASSUME WalletInit PROVE WalletInv
  OBVIOUS
<1> USE WalletAssumption
<1>1. WalletShape
  <2>1. wallet \in [state : WalletState, required : Nat, funded : 0..MaxSentIn, uid : BOOLEAN, paid : Nat]
    BY DEF WalletInit, NoWallet, WalletState
  <2>2. tick \in [Ticker -> [pc : TickPc, target : TickTarget, amount : Nat]]
    BY DEF WalletInit, IdleTick, TickPc, TickTarget
  <2>3. approving \in BOOLEAN /\ late \in BOOLEAN /\ cut \in BOOLEAN /\ stuck \in BOOLEAN /\ neuron \in BOOLEAN
    BY Zenon DEF WalletInit
  <2> QED
    BY <2>1, <2>2, <2>3 DEF WalletInit, WalletShape
<1>2. TaoCounts /\ NeuronBehind
  BY DEF WalletInit, TaoCounts, NeuronBehind, ListedHasNeuron, NoWallet, IdleTick
<1>3. Units(Ticker, Due) = {}
  BY DEF WalletInit, IdleTick, Due, Units
<1>4. AlphaCounts
  BY <1>3, FS_EmptySet DEF WalletInit, AlphaCounts, Total, NoWallet
<1> QED
  BY <1>1, <1>2, <1>4 DEF WalletInv

\* Every step keeps WalletInv.
LEMMA WalletInvKept == WalletInv /\ [WalletNext]_walletVars => WalletInv'
<1> SUFFICES ASSUME WalletInv, [WalletNext]_walletVars PROVE WalletInv'
  OBVIOUS
<1>1. CASE WalletNext
  BY <1>1, ShapeKept, TaoKept, AlphaKept, NeuronKept DEF WalletInv
<1>2. CASE UNCHANGED walletVars
  <2>1. UNCHANGED <<tick, wallet, emitted, stake, sentOut>>
    BY <1>2 DEF walletVars, chain
  <2>2. AlphaCounts'
    BY <2>1, DueSame, AlphaStays
  <2>3. WalletShape' /\ TaoCounts' /\ NeuronBehind'
    BY <1>2 DEF walletVars, chain, WalletInv, WalletShape, TaoCounts, NeuronBehind, ListedHasNeuron
  <2> QED
    BY <2>2, <2>3 DEF WalletInv
<1> QED
  BY <1>1, <1>2

\* "A wallet is only whitelisted after its neuron is confirmed on chain" and total_paid_alpha counts only
\* alpha that left the coldkey (managed_wallets.py), for any number of tickers beside each other, any
\* prices, buffers and payout minimum, and any number of failing calls and deaths.
THEOREM WalletSafetyHolds == WalletSpec => []WalletSafety
<1>1. WalletInit => WalletInv
  BY WalletInvInit
<1>2. WalletInv /\ [WalletNext]_walletVars => WalletInv'
  BY WalletInvKept
<1>3. WalletInv => WalletSafety
  <2> SUFFICES ASSUME WalletInv PROVE WalletSafety
    OBVIOUS
  <2>1. PaidIsSent /\ wallet.paid \in 0..MaxEmitted /\ balance \in 0..MaxSentIn /\ stake \in 0..MaxEmitted
    BY TotalsAreNumbers, WalletAssumption DEF WalletInv, WalletShape, TaoCounts, AlphaCounts, PaidIsSent
  <2>2. WalletTypeOK
    BY <2>1 DEF WalletInv, WalletShape, TaoCounts, TickTarget, WalletState, WalletTypeOK
  <2> QED
    BY <2>1, <2>2 DEF WalletInv, NeuronBehind, WalletSafety
<1> QED
  BY <1>1, <1>2, <1>3, PTL DEF WalletSpec

(***************************************************************************)
(* Scoring: the inductive invariant.                                       *)
(***************************************************************************)

Vector == [Miner -> Nat]
SubmitPc == {"idle", "add", "score", "card"}
PublishPc == {"idle", "cards", "snap", "history", "commit", "report", "mark"}

\* Challenges, their results, and the calls and the canary that bring them.
ProbingShape ==
  /\ issued \subseteq Probe /\ results \in [Probe -> Nat]
  /\ canary \in (issued \cap CanaryProbe) \cup {NoCanary}
  /\ submission \in [Submitter -> [pc : SubmitPc, p : Probe \cup {"none"}, score : Nat]]
  /\ \A s \in Submitter : submission[s].pc # "idle" => submission[s].p \in issued

\* The worker and the admin, and what they publish.
PublishingShape ==
  /\ publisher \in [Publisher -> [pc : PublishPc, e : 0..MaxEpoch, w : Vector]]
  /\ publisher["worker"].pc # "idle" => publisher["worker"].e \in Epoch
  /\ card \in Vector /\ snapshot \in Vector /\ weights \in Vector /\ snapBy \in Publisher
  /\ epoch \in 0..MaxEpoch /\ audited \in 0..MaxEpoch

\* What is kept per epoch.
RecordShape ==
  /\ history \in [Epoch -> SUBSET Vector] /\ lost \subseteq Epoch
  /\ report \in [Epoch -> [rows : SUBSET Vector, snap : Vector, by : Publisher, done : BOOLEAN]]

\* The world around.
WorldShape ==
  /\ allowed \subseteq Miner /\ onChain \subseteq Miner /\ metagraph \subseteq Miner
  /\ due \in BOOLEAN /\ scoreFaults \in 0..MaxScoreFaults

ScoringShape == ProbingShape /\ PublishingShape /\ RecordShape /\ WorldShape

\* The calls that found no result for p and are about to add theirs, and the canary that will.
Adding(p) == {s \in Submitter : submission[s].pc = "add" /\ submission[s].p = p}
OutFor(p) == IF canary = p /\ canary # NoCanary THEN 1 ELSE 0
ResultsBounded ==
  \A p \in Probe :
    /\ results[p] + Cardinality(Adding(p)) + OutFor(p) <= Cardinality(Submitter) + 1
    /\ p \notin issued => results[p] = 0

\* From its snapshot to its report the worker holds the weights of the latest snapshot, unless an admin's
\* is later, and from the history on, the epoch has them unless their write failed.
WorkerPublishes ==
  LET worker == publisher["worker"] IN
  /\ worker.pc \in {"history", "commit", "report"} /\ snapBy = "worker" => snapshot = worker.w
  /\ worker.pc \in {"commit", "report"} /\ worker.e \notin lost => worker.w \in history[worker.e]

ScoringInv == ScoringShape /\ ResultsBounded /\ WorkerPublishes /\ ReportReplays

\* A miner's score is a number: it has finitely many results.
LEMMA ScoreIsNumber ==
  ASSUME ScoringShape, NEW m
  PROVE  ResultsOf(m) \in Nat
<1> DEFINE P == {p \in Probe : ProbeOf[p] = m}
<1>1. IsFiniteSet(P)
  BY ScoringAssumption, FS_Subset
<1>2. \A p \in P : results[p] \in Nat
  BY DEF ScoringShape, ProbingShape
<1> HIDE DEF P
<1>3. Total(P, results) \in Nat
  BY <1>1, <1>2, TotalType
<1> QED
  BY <1>3 DEF P, ResultsOf

\* A vector of scores is a vector.
LEMMA Vectors ==
  ASSUME ScoringShape
  PROVE  /\ NoWeights \in Vector /\ [m \in Miner |-> Scored(m)] \in Vector
         /\ \A w \in Vector : \A known : SetWeights(w, known) \in Vector
<1>1. \A m \in Miner : Scored(m) \in Nat
  BY ScoreIsNumber DEF Scored
<1> QED
  BY <1>1 DEF Vector, NoWeights, SetWeights

\* Every step keeps the types of probes and calls.
LEMMA ProbingKept ==
  ASSUME ScoringInv, ScoringNext
  PROVE  ProbingShape'
<1> USE ScoringAssumption
<1>1. CASE CreateProbe
  BY <1>1 DEF Submits, PublisherAt, GoesTo, Rests, NoTrouble, Trouble, probing, clockwork, records, CreateProbe, ScoringInv, ScoringShape, ProbingShape, SubmitPc, IdleSubmit, NoCanary
<1>2. CASE CanaryStarts
  BY <1>2 DEF Submits, PublisherAt, GoesTo, Rests, NoTrouble, Trouble, probing, clockwork, records, CanaryStarts, ScoringInv, ScoringShape, ProbingShape, SubmitPc, IdleSubmit, NoCanary
<1>3. CASE CanaryEnds
  <2>1. canary \in Probe /\ results' = [results EXCEPT ![canary] = @ + 1]
    BY <1>3 DEF CanaryEnds, ScoringInv, ScoringShape, ProbingShape
  <2>2. results' \in [Probe -> Nat]
    BY <2>1 DEF ScoringInv, ScoringShape, ProbingShape
  <2> QED
    BY <1>3, <2>2 DEF CanaryEnds, ScoringInv, ScoringShape, ProbingShape
<1>4. CASE AuditStarts
  BY <1>4 DEF Submits, PublisherAt, GoesTo, Rests, NoTrouble, Trouble, probing, clockwork, records, AuditStarts, ScoringInv, ScoringShape, ProbingShape, SubmitPc, IdleSubmit, NoCanary
<1>5. CASE PublishCards("worker")
  BY <1>5 DEF Submits, PublisherAt, GoesTo, Rests, NoTrouble, Trouble, probing, clockwork, records, PublishCards, ScoringInv, ScoringShape, ProbingShape, SubmitPc, IdleSubmit, NoCanary
<1>6. CASE SaveSnapshot("worker")
  BY <1>6 DEF Submits, PublisherAt, GoesTo, Rests, NoTrouble, Trouble, probing, clockwork, records, SaveSnapshot, ScoringInv, ScoringShape, ProbingShape, SubmitPc, IdleSubmit, NoCanary
<1>7. CASE SaveHistory
  BY <1>7 DEF Submits, PublisherAt, GoesTo, Rests, NoTrouble, Trouble, probing, clockwork, records, SaveHistory, ScoringInv, ScoringShape, ProbingShape, SubmitPc, IdleSubmit, NoCanary
<1>8. CASE CommitWeights("worker")
  BY <1>8 DEF Submits, PublisherAt, GoesTo, Rests, NoTrouble, Trouble, probing, clockwork, records, CommitWeights, ScoringInv, ScoringShape, ProbingShape, SubmitPc, IdleSubmit, NoCanary
<1>9. CASE GenerateAuditReport
  BY <1>9 DEF Submits, PublisherAt, GoesTo, Rests, NoTrouble, Trouble, probing, clockwork, records, GenerateAuditReport, ScoringInv, ScoringShape, ProbingShape, SubmitPc, IdleSubmit, NoCanary
<1>10. CASE MarkAudited
  BY <1>10 DEF Submits, PublisherAt, GoesTo, Rests, NoTrouble, Trouble, probing, clockwork, records, MarkAudited, ScoringInv, ScoringShape, ProbingShape, SubmitPc, IdleSubmit, NoCanary
<1>11. CASE AdminStarts
  BY <1>11 DEF Submits, PublisherAt, GoesTo, Rests, NoTrouble, Trouble, probing, clockwork, records, AdminStarts, ScoringInv, ScoringShape, ProbingShape, SubmitPc, IdleSubmit, NoCanary
<1>12. CASE PublishCards("admin")
  BY <1>12 DEF Submits, PublisherAt, GoesTo, Rests, NoTrouble, Trouble, probing, clockwork, records, PublishCards, ScoringInv, ScoringShape, ProbingShape, SubmitPc, IdleSubmit, NoCanary
<1>13. CASE SaveSnapshot("admin")
  BY <1>13 DEF Submits, PublisherAt, GoesTo, Rests, NoTrouble, Trouble, probing, clockwork, records, SaveSnapshot, ScoringInv, ScoringShape, ProbingShape, SubmitPc, IdleSubmit, NoCanary
<1>14. CASE CommitWeights("admin")
  BY <1>14 DEF Submits, PublisherAt, GoesTo, Rests, NoTrouble, Trouble, probing, clockwork, records, CommitWeights, ScoringInv, ScoringShape, ProbingShape, SubmitPc, IdleSubmit, NoCanary
<1>15. CASE EpochCloses
  BY <1>15 DEF Submits, PublisherAt, GoesTo, Rests, NoTrouble, Trouble, probing, clockwork, records, EpochCloses, ScoringInv, ScoringShape, ProbingShape, SubmitPc, IdleSubmit, NoCanary
<1>16. CASE BufferPasses
  BY <1>16 DEF Submits, PublisherAt, GoesTo, Rests, NoTrouble, Trouble, probing, clockwork, records, BufferPasses, ScoringInv, ScoringShape, ProbingShape, SubmitPc, IdleSubmit, NoCanary
<1>17. CASE WhitelistEdited
  BY <1>17 DEF Submits, PublisherAt, GoesTo, Rests, NoTrouble, Trouble, probing, clockwork, records, WhitelistEdited, ScoringInv, ScoringShape, ProbingShape, SubmitPc, IdleSubmit, NoCanary
<1>18. CASE NeuronPruned
  BY <1>18 DEF Submits, PublisherAt, GoesTo, Rests, NoTrouble, Trouble, probing, clockwork, records, NeuronPruned, ScoringInv, ScoringShape, ProbingShape, SubmitPc, IdleSubmit, NoCanary
<1>19. CASE SyncMetagraph
  BY <1>19 DEF Submits, PublisherAt, GoesTo, Rests, NoTrouble, Trouble, probing, clockwork, records, SyncMetagraph, ScoringInv, ScoringShape, ProbingShape, SubmitPc, IdleSubmit, NoCanary
<1>20. CASE ScoringRestarts
  BY <1>20 DEF Submits, PublisherAt, GoesTo, Rests, NoTrouble, Trouble, probing, clockwork, records, ScoringRestarts, ScoringInv, ScoringShape, ProbingShape, SubmitPc, IdleSubmit, NoCanary
<1>21. ASSUME NEW s \in Submitter, SubmitChecks(s) PROVE ProbingShape'
  <2>1. PICK p \in issued : submission' = [submission EXCEPT ![s] = [pc |-> "add", p |-> p, score |-> 0]]
    BY <1>21 DEF SubmitChecks
  <2>2. submission' \in [Submitter -> [pc : SubmitPc, p : Probe \cup {"none"}, score : Nat]]
    BY <2>1 DEF ScoringInv, ScoringShape, ProbingShape, SubmitPc
  <2> QED
    BY <1>21, <2>1, <2>2 DEF SubmitChecks, ScoringInv, ScoringShape, ProbingShape
<1>22. ASSUME NEW s \in Submitter, AddResult(s) PROVE ProbingShape'
  <2>1. submission[s].p \in Probe
    BY <1>22 DEF AddResult, ScoringInv, ScoringShape, ProbingShape
  <2>2. results' \in [Probe -> Nat]
    BY <1>22, <2>1 DEF AddResult, ScoringInv, ScoringShape, ProbingShape
  <2>3. submission' \in [Submitter -> [pc : SubmitPc, p : Probe \cup {"none"}, score : Nat]]
    BY <1>22 DEF AddResult, Submits, ScoringInv, ScoringShape, ProbingShape, SubmitPc
  <2> QED
    BY <1>22, <2>2, <2>3 DEF AddResult, Submits, ScoringInv, ScoringShape, ProbingShape
<1>23. ASSUME NEW s \in Submitter, ComputeScore(s) PROVE ProbingShape'
  <2> DEFINE score == ResultsOf(ProbeOf[submission[s].p])
  <2>1. score \in Nat
    BY ScoreIsNumber DEF ScoringInv
  <2> HIDE DEF score
  <2>2. submission' = [submission EXCEPT ![s].pc = "card", ![s].score = score]
    BY <1>23 DEF ComputeScore, score
  <2>3. submission' \in [Submitter -> [pc : SubmitPc, p : Probe \cup {"none"}, score : Nat]]
    BY <2>1, <2>2 DEF ScoringInv, ScoringShape, ProbingShape, SubmitPc
  <2> QED
    BY <1>23, <2>2, <2>3 DEF ComputeScore, ScoringInv, ScoringShape, ProbingShape
<1>24. ASSUME NEW s \in Submitter, SaveScorecard(s) PROVE ProbingShape'
  BY <1>24 DEF Submits, PublisherAt, GoesTo, Rests, NoTrouble, Trouble, probing, clockwork, records, SaveScorecard, ScoringInv, ScoringShape, ProbingShape, SubmitPc, IdleSubmit, NoCanary
<1> QED
  BY <1>1, <1>2, <1>3, <1>4, <1>5, <1>6, <1>7, <1>8, <1>9, <1>10, <1>11, <1>12, <1>13, <1>14, <1>15, <1>16, <1>17, <1>18, <1>19, <1>20, <1>21, <1>22, <1>23, <1>24 DEF ScoringNext, AuditSteps

\* Every step keeps the types of what is published.
LEMMA PublishingKept ==
  ASSUME ScoringInv, ScoringNext
  PROVE  PublishingShape'
<1> USE ScoringAssumption
<1>1. CASE CreateProbe
  BY <1>1 DEF Submits, PublisherAt, GoesTo, Rests, NoTrouble, Trouble, probing, clockwork, records, CreateProbe, ScoringInv, ScoringShape, PublishingShape, Publisher, PublishPc, Epoch
<1>2. CASE CanaryStarts
  BY <1>2 DEF Submits, PublisherAt, GoesTo, Rests, NoTrouble, Trouble, probing, clockwork, records, CanaryStarts, ScoringInv, ScoringShape, PublishingShape, Publisher, PublishPc, Epoch
<1>3. CASE CanaryEnds
  BY <1>3 DEF Submits, PublisherAt, GoesTo, Rests, NoTrouble, Trouble, probing, clockwork, records, CanaryEnds, ScoringInv, ScoringShape, PublishingShape, Publisher, PublishPc, Epoch
<1>4. CASE AuditStarts
  <2>1. publisher' \in [Publisher -> [pc : PublishPc, e : 0..MaxEpoch, w : Vector]]
    BY <1>4, Vectors DEF AuditStarts, GoesTo, Rests, IdlePublish, PublisherAt, ScoringInv, ScoringShape, PublishingShape, Publisher, PublishPc, Epoch
  <2>2. publisher'["worker"].pc # "idle" => publisher'["worker"].e \in Epoch
    BY <1>4 DEF AuditStarts, GoesTo, Rests, IdlePublish, PublisherAt, AuditDue, ScoringInv, ScoringShape, PublishingShape, Publisher, PublishPc, Epoch
  <2>3. card' \in Vector /\ snapshot' \in Vector /\ weights' \in Vector
    BY <1>4, Vectors DEF AuditStarts, ScoringInv, ScoringShape, PublishingShape, Publisher, probing, clockwork, records
  <2>4. snapBy' \in Publisher /\ epoch' \in 0..MaxEpoch /\ audited' \in 0..MaxEpoch
    BY <1>4 DEF AuditStarts, probing, clockwork, records, PublisherAt, ScoringInv, ScoringShape, PublishingShape, Publisher, PublishPc, Epoch
  <2> QED
    BY <2>1, <2>2, <2>3, <2>4 DEF PublishingShape
<1>5. CASE PublishCards("worker")
  <2>1. publisher' \in [Publisher -> [pc : PublishPc, e : 0..MaxEpoch, w : Vector]]
    BY <1>5, Vectors DEF PublishCards, GoesTo, Rests, IdlePublish, PublisherAt, ScoringInv, ScoringShape, PublishingShape, Publisher, PublishPc, Epoch
  <2>2. publisher'["worker"].pc # "idle" => publisher'["worker"].e \in Epoch
    BY <1>5 DEF PublishCards, GoesTo, Rests, IdlePublish, PublisherAt, AuditDue, ScoringInv, ScoringShape, PublishingShape, Publisher, PublishPc, Epoch
  <2>3. card' \in Vector /\ snapshot' \in Vector /\ weights' \in Vector
    BY <1>5, Vectors DEF PublishCards, ScoringInv, ScoringShape, PublishingShape, Publisher, probing, clockwork, records, Vector
  <2>4. snapBy' \in Publisher /\ epoch' \in 0..MaxEpoch /\ audited' \in 0..MaxEpoch
    BY <1>5 DEF PublishCards, probing, clockwork, records, PublisherAt, ScoringInv, ScoringShape, PublishingShape, Publisher, PublishPc, Epoch
  <2> QED
    BY <2>1, <2>2, <2>3, <2>4 DEF PublishingShape
<1>6. CASE SaveSnapshot("worker")
  <2>1. publisher' \in [Publisher -> [pc : PublishPc, e : 0..MaxEpoch, w : Vector]]
    BY <1>6, Vectors DEF SaveSnapshot, GoesTo, Rests, IdlePublish, PublisherAt, ScoringInv, ScoringShape, PublishingShape, Publisher, PublishPc, Epoch
  <2>2. publisher'["worker"].pc # "idle" => publisher'["worker"].e \in Epoch
    BY <1>6 DEF SaveSnapshot, GoesTo, Rests, IdlePublish, PublisherAt, AuditDue, ScoringInv, ScoringShape, PublishingShape, Publisher, PublishPc, Epoch
  <2>3. card' \in Vector /\ snapshot' \in Vector /\ weights' \in Vector
    BY <1>6, Vectors DEF SaveSnapshot, ScoringInv, ScoringShape, PublishingShape, Publisher, probing, clockwork, records
  <2>4. snapBy' \in Publisher /\ epoch' \in 0..MaxEpoch /\ audited' \in 0..MaxEpoch
    BY <1>6 DEF SaveSnapshot, probing, clockwork, records, PublisherAt, ScoringInv, ScoringShape, PublishingShape, Publisher, PublishPc, Epoch
  <2> QED
    BY <2>1, <2>2, <2>3, <2>4 DEF PublishingShape
<1>7. CASE SaveHistory
  <2>1. publisher' \in [Publisher -> [pc : PublishPc, e : 0..MaxEpoch, w : Vector]]
    BY <1>7, Vectors DEF SaveHistory, GoesTo, Rests, IdlePublish, PublisherAt, ScoringInv, ScoringShape, PublishingShape, Publisher, PublishPc, Epoch
  <2>2. publisher'["worker"].pc # "idle" => publisher'["worker"].e \in Epoch
    BY <1>7 DEF SaveHistory, GoesTo, Rests, IdlePublish, PublisherAt, AuditDue, ScoringInv, ScoringShape, PublishingShape, Publisher, PublishPc, Epoch
  <2>3. card' \in Vector /\ snapshot' \in Vector /\ weights' \in Vector
    BY <1>7, Vectors DEF SaveHistory, ScoringInv, ScoringShape, PublishingShape, Publisher, probing, clockwork, records
  <2>4. snapBy' \in Publisher /\ epoch' \in 0..MaxEpoch /\ audited' \in 0..MaxEpoch
    BY <1>7 DEF SaveHistory, probing, clockwork, records, PublisherAt, ScoringInv, ScoringShape, PublishingShape, Publisher, PublishPc, Epoch
  <2> QED
    BY <2>1, <2>2, <2>3, <2>4 DEF PublishingShape
<1>8. CASE CommitWeights("worker")
  <2>1. publisher' \in [Publisher -> [pc : PublishPc, e : 0..MaxEpoch, w : Vector]]
    BY <1>8, Vectors DEF CommitWeights, GoesTo, Rests, IdlePublish, PublisherAt, ScoringInv, ScoringShape, PublishingShape, Publisher, PublishPc, Epoch
  <2>2. publisher'["worker"].pc # "idle" => publisher'["worker"].e \in Epoch
    BY <1>8 DEF CommitWeights, GoesTo, Rests, IdlePublish, PublisherAt, AuditDue, ScoringInv, ScoringShape, PublishingShape, Publisher, PublishPc, Epoch
  <2>3. card' \in Vector /\ snapshot' \in Vector /\ weights' \in Vector
    BY <1>8, Vectors DEF CommitWeights, ScoringInv, ScoringShape, PublishingShape, Publisher, probing, clockwork, records
  <2>4. snapBy' \in Publisher /\ epoch' \in 0..MaxEpoch /\ audited' \in 0..MaxEpoch
    BY <1>8 DEF CommitWeights, probing, clockwork, records, PublisherAt, ScoringInv, ScoringShape, PublishingShape, Publisher, PublishPc, Epoch
  <2> QED
    BY <2>1, <2>2, <2>3, <2>4 DEF PublishingShape
<1>9. CASE GenerateAuditReport
  <2>1. publisher' \in [Publisher -> [pc : PublishPc, e : 0..MaxEpoch, w : Vector]]
    BY <1>9, Vectors DEF GenerateAuditReport, GoesTo, Rests, IdlePublish, PublisherAt, ScoringInv, ScoringShape, PublishingShape, Publisher, PublishPc, Epoch
  <2>2. publisher'["worker"].pc # "idle" => publisher'["worker"].e \in Epoch
    BY <1>9 DEF GenerateAuditReport, GoesTo, Rests, IdlePublish, PublisherAt, AuditDue, ScoringInv, ScoringShape, PublishingShape, Publisher, PublishPc, Epoch
  <2>3. card' \in Vector /\ snapshot' \in Vector /\ weights' \in Vector
    BY <1>9, Vectors DEF GenerateAuditReport, ScoringInv, ScoringShape, PublishingShape, Publisher, probing, clockwork, records
  <2>4. snapBy' \in Publisher /\ epoch' \in 0..MaxEpoch /\ audited' \in 0..MaxEpoch
    BY <1>9 DEF GenerateAuditReport, probing, clockwork, records, PublisherAt, ScoringInv, ScoringShape, PublishingShape, Publisher, PublishPc, Epoch
  <2> QED
    BY <2>1, <2>2, <2>3, <2>4 DEF PublishingShape
<1>10. CASE MarkAudited
  <2>1. publisher' \in [Publisher -> [pc : PublishPc, e : 0..MaxEpoch, w : Vector]]
    BY <1>10, Vectors DEF MarkAudited, GoesTo, Rests, IdlePublish, PublisherAt, ScoringInv, ScoringShape, PublishingShape, Publisher, PublishPc, Epoch
  <2>2. publisher'["worker"].pc # "idle" => publisher'["worker"].e \in Epoch
    BY <1>10 DEF MarkAudited, GoesTo, Rests, IdlePublish, PublisherAt, AuditDue, ScoringInv, ScoringShape, PublishingShape, Publisher, PublishPc, Epoch
  <2>3. card' \in Vector /\ snapshot' \in Vector /\ weights' \in Vector
    BY <1>10, Vectors DEF MarkAudited, ScoringInv, ScoringShape, PublishingShape, Publisher, probing, clockwork, records
  <2>4. snapBy' \in Publisher /\ epoch' \in 0..MaxEpoch /\ audited' \in 0..MaxEpoch
    BY <1>10 DEF MarkAudited, probing, clockwork, records, PublisherAt, ScoringInv, ScoringShape, PublishingShape, Publisher, PublishPc, Epoch
  <2> QED
    BY <2>1, <2>2, <2>3, <2>4 DEF PublishingShape
<1>11. CASE AdminStarts
  <2>1. publisher' \in [Publisher -> [pc : PublishPc, e : 0..MaxEpoch, w : Vector]]
    BY <1>11, Vectors DEF AdminStarts, GoesTo, Rests, IdlePublish, PublisherAt, ScoringInv, ScoringShape, PublishingShape, Publisher, PublishPc, Epoch
  <2>2. publisher'["worker"].pc # "idle" => publisher'["worker"].e \in Epoch
    BY <1>11 DEF AdminStarts, GoesTo, Rests, IdlePublish, PublisherAt, AuditDue, ScoringInv, ScoringShape, PublishingShape, Publisher, PublishPc, Epoch
  <2>3. card' \in Vector /\ snapshot' \in Vector /\ weights' \in Vector
    BY <1>11, Vectors DEF AdminStarts, ScoringInv, ScoringShape, PublishingShape, Publisher, probing, clockwork, records
  <2>4. snapBy' \in Publisher /\ epoch' \in 0..MaxEpoch /\ audited' \in 0..MaxEpoch
    BY <1>11 DEF AdminStarts, probing, clockwork, records, PublisherAt, ScoringInv, ScoringShape, PublishingShape, Publisher, PublishPc, Epoch
  <2> QED
    BY <2>1, <2>2, <2>3, <2>4 DEF PublishingShape
<1>12. CASE PublishCards("admin")
  <2>1. publisher' \in [Publisher -> [pc : PublishPc, e : 0..MaxEpoch, w : Vector]]
    BY <1>12, Vectors DEF PublishCards, GoesTo, Rests, IdlePublish, PublisherAt, ScoringInv, ScoringShape, PublishingShape, Publisher, PublishPc, Epoch
  <2>2. publisher'["worker"].pc # "idle" => publisher'["worker"].e \in Epoch
    BY <1>12 DEF PublishCards, GoesTo, Rests, IdlePublish, PublisherAt, AuditDue, ScoringInv, ScoringShape, PublishingShape, Publisher, PublishPc, Epoch
  <2>3. card' \in Vector /\ snapshot' \in Vector /\ weights' \in Vector
    BY <1>12, Vectors DEF PublishCards, ScoringInv, ScoringShape, PublishingShape, Publisher, probing, clockwork, records, Vector
  <2>4. snapBy' \in Publisher /\ epoch' \in 0..MaxEpoch /\ audited' \in 0..MaxEpoch
    BY <1>12 DEF PublishCards, probing, clockwork, records, PublisherAt, ScoringInv, ScoringShape, PublishingShape, Publisher, PublishPc, Epoch
  <2> QED
    BY <2>1, <2>2, <2>3, <2>4 DEF PublishingShape
<1>13. CASE SaveSnapshot("admin")
  <2>1. publisher' \in [Publisher -> [pc : PublishPc, e : 0..MaxEpoch, w : Vector]]
    BY <1>13, Vectors DEF SaveSnapshot, GoesTo, Rests, IdlePublish, PublisherAt, ScoringInv, ScoringShape, PublishingShape, Publisher, PublishPc, Epoch
  <2>2. publisher'["worker"].pc # "idle" => publisher'["worker"].e \in Epoch
    BY <1>13 DEF SaveSnapshot, GoesTo, Rests, IdlePublish, PublisherAt, AuditDue, ScoringInv, ScoringShape, PublishingShape, Publisher, PublishPc, Epoch
  <2>3. card' \in Vector /\ snapshot' \in Vector /\ weights' \in Vector
    BY <1>13, Vectors DEF SaveSnapshot, ScoringInv, ScoringShape, PublishingShape, Publisher, probing, clockwork, records
  <2>4. snapBy' \in Publisher /\ epoch' \in 0..MaxEpoch /\ audited' \in 0..MaxEpoch
    BY <1>13 DEF SaveSnapshot, probing, clockwork, records, PublisherAt, ScoringInv, ScoringShape, PublishingShape, Publisher, PublishPc, Epoch
  <2> QED
    BY <2>1, <2>2, <2>3, <2>4 DEF PublishingShape
<1>14. CASE CommitWeights("admin")
  <2>1. publisher' \in [Publisher -> [pc : PublishPc, e : 0..MaxEpoch, w : Vector]]
    BY <1>14, Vectors DEF CommitWeights, GoesTo, Rests, IdlePublish, PublisherAt, ScoringInv, ScoringShape, PublishingShape, Publisher, PublishPc, Epoch
  <2>2. publisher'["worker"].pc # "idle" => publisher'["worker"].e \in Epoch
    BY <1>14 DEF CommitWeights, GoesTo, Rests, IdlePublish, PublisherAt, AuditDue, ScoringInv, ScoringShape, PublishingShape, Publisher, PublishPc, Epoch
  <2>3. card' \in Vector /\ snapshot' \in Vector /\ weights' \in Vector
    BY <1>14, Vectors DEF CommitWeights, ScoringInv, ScoringShape, PublishingShape, Publisher, probing, clockwork, records
  <2>4. snapBy' \in Publisher /\ epoch' \in 0..MaxEpoch /\ audited' \in 0..MaxEpoch
    BY <1>14 DEF CommitWeights, probing, clockwork, records, PublisherAt, ScoringInv, ScoringShape, PublishingShape, Publisher, PublishPc, Epoch
  <2> QED
    BY <2>1, <2>2, <2>3, <2>4 DEF PublishingShape
<1>15. CASE EpochCloses
  BY <1>15 DEF Submits, PublisherAt, GoesTo, Rests, NoTrouble, Trouble, probing, clockwork, records, EpochCloses, ScoringInv, ScoringShape, PublishingShape, Publisher, PublishPc, Epoch
<1>16. CASE BufferPasses
  BY <1>16 DEF Submits, PublisherAt, GoesTo, Rests, NoTrouble, Trouble, probing, clockwork, records, BufferPasses, ScoringInv, ScoringShape, PublishingShape, Publisher, PublishPc, Epoch
<1>17. CASE WhitelistEdited
  BY <1>17 DEF Submits, PublisherAt, GoesTo, Rests, NoTrouble, Trouble, probing, clockwork, records, WhitelistEdited, ScoringInv, ScoringShape, PublishingShape, Publisher, PublishPc, Epoch
<1>18. CASE NeuronPruned
  BY <1>18 DEF Submits, PublisherAt, GoesTo, Rests, NoTrouble, Trouble, probing, clockwork, records, NeuronPruned, ScoringInv, ScoringShape, PublishingShape, Publisher, PublishPc, Epoch
<1>19. CASE SyncMetagraph
  BY <1>19 DEF Submits, PublisherAt, GoesTo, Rests, NoTrouble, Trouble, probing, clockwork, records, SyncMetagraph, ScoringInv, ScoringShape, PublishingShape, Publisher, PublishPc, Epoch
<1>20. CASE ScoringRestarts
  <2>1. publisher' \in [Publisher -> [pc : PublishPc, e : 0..MaxEpoch, w : Vector]]
    BY <1>20, Vectors DEF ScoringRestarts, GoesTo, Rests, IdlePublish, PublisherAt, ScoringInv, ScoringShape, PublishingShape, Publisher, PublishPc, Epoch
  <2>2. publisher'["worker"].pc # "idle" => publisher'["worker"].e \in Epoch
    BY <1>20 DEF ScoringRestarts, GoesTo, Rests, IdlePublish, PublisherAt, AuditDue, ScoringInv, ScoringShape, PublishingShape, Publisher, PublishPc, Epoch
  <2>3. card' \in Vector /\ snapshot' \in Vector /\ weights' \in Vector
    BY <1>20, Vectors DEF ScoringRestarts, ScoringInv, ScoringShape, PublishingShape, Publisher, probing, clockwork, records
  <2>4. snapBy' \in Publisher /\ epoch' \in 0..MaxEpoch /\ audited' \in 0..MaxEpoch
    BY <1>20 DEF ScoringRestarts, probing, clockwork, records, PublisherAt, ScoringInv, ScoringShape, PublishingShape, Publisher, PublishPc, Epoch
  <2> QED
    BY <2>1, <2>2, <2>3, <2>4 DEF PublishingShape
<1>21. ASSUME NEW s \in Submitter, SubmitChecks(s) PROVE PublishingShape'
  BY <1>21 DEF Submits, PublisherAt, GoesTo, Rests, NoTrouble, Trouble, probing, clockwork, records, SubmitChecks, ScoringInv, ScoringShape, PublishingShape, Publisher, PublishPc, Epoch
<1>22. ASSUME NEW s \in Submitter, AddResult(s) PROVE PublishingShape'
  BY <1>22 DEF Submits, PublisherAt, GoesTo, Rests, NoTrouble, Trouble, probing, clockwork, records, AddResult, ScoringInv, ScoringShape, PublishingShape, Publisher, PublishPc, Epoch
<1>23. ASSUME NEW s \in Submitter, ComputeScore(s) PROVE PublishingShape'
  BY <1>23 DEF Submits, PublisherAt, GoesTo, Rests, NoTrouble, Trouble, probing, clockwork, records, ComputeScore, ScoringInv, ScoringShape, PublishingShape, Publisher, PublishPc, Epoch
<1>24. ASSUME NEW s \in Submitter, SaveScorecard(s) PROVE PublishingShape'
  <2>1. card' \in Vector
    BY <1>24 DEF SaveScorecard, Vector, ScoringInv, ScoringShape, PublishingShape, ProbingShape
  <2> QED
    BY <1>24, <2>1 DEF SaveScorecard, clockwork, ScoringInv, ScoringShape, PublishingShape
<1> QED
  BY <1>1, <1>2, <1>3, <1>4, <1>5, <1>6, <1>7, <1>8, <1>9, <1>10, <1>11, <1>12, <1>13, <1>14, <1>15, <1>16, <1>17, <1>18, <1>19, <1>20, <1>21, <1>22, <1>23, <1>24 DEF ScoringNext, AuditSteps

\* Every step keeps the types of an epoch's records.
LEMMA RecordsKept ==
  ASSUME ScoringInv, ScoringNext
  PROVE  RecordShape'
<1> USE ScoringAssumption
<1>1. CASE CreateProbe
  BY <1>1 DEF Submits, PublisherAt, GoesTo, Rests, NoTrouble, Trouble, probing, clockwork, records, CreateProbe, ScoringInv, ScoringShape, RecordShape, PublishingShape, Publisher, HistoryRows, NoReport
<1>2. CASE CanaryStarts
  BY <1>2 DEF Submits, PublisherAt, GoesTo, Rests, NoTrouble, Trouble, probing, clockwork, records, CanaryStarts, ScoringInv, ScoringShape, RecordShape, PublishingShape, Publisher, HistoryRows, NoReport
<1>3. CASE CanaryEnds
  BY <1>3 DEF Submits, PublisherAt, GoesTo, Rests, NoTrouble, Trouble, probing, clockwork, records, CanaryEnds, ScoringInv, ScoringShape, RecordShape, PublishingShape, Publisher, HistoryRows, NoReport
<1>4. CASE AuditStarts
  BY <1>4 DEF Submits, PublisherAt, GoesTo, Rests, NoTrouble, Trouble, probing, clockwork, records, AuditStarts, ScoringInv, ScoringShape, RecordShape, PublishingShape, Publisher, HistoryRows, NoReport
<1>5. CASE PublishCards("worker")
  BY <1>5 DEF Submits, PublisherAt, GoesTo, Rests, NoTrouble, Trouble, probing, clockwork, records, PublishCards, ScoringInv, ScoringShape, RecordShape, PublishingShape, Publisher, HistoryRows, NoReport
<1>6. CASE SaveSnapshot("worker")
  BY <1>6 DEF Submits, PublisherAt, GoesTo, Rests, NoTrouble, Trouble, probing, clockwork, records, SaveSnapshot, ScoringInv, ScoringShape, RecordShape, PublishingShape, Publisher, HistoryRows, NoReport
<1>7. CASE SaveHistory
  BY <1>7 DEF Submits, PublisherAt, GoesTo, Rests, NoTrouble, Trouble, probing, clockwork, records, SaveHistory, ScoringInv, ScoringShape, RecordShape, PublishingShape, Publisher, HistoryRows, NoReport
<1>8. CASE CommitWeights("worker")
  BY <1>8 DEF Submits, PublisherAt, GoesTo, Rests, NoTrouble, Trouble, probing, clockwork, records, CommitWeights, ScoringInv, ScoringShape, RecordShape, PublishingShape, Publisher, HistoryRows, NoReport
<1>9. CASE GenerateAuditReport
  <2>1. report' \in [Epoch -> [rows : SUBSET Vector, snap : Vector, by : Publisher, done : BOOLEAN]]
    <3> DEFINE new == [rows |-> history[publisher["worker"].e], snap |-> snapshot, by |-> snapBy, done |-> TRUE]
    <3>1. publisher["worker"].e \in Epoch
      BY <1>9 DEF GenerateAuditReport, PublisherAt, ScoringInv, ScoringShape, PublishingShape
    <3>2. new \in [rows : SUBSET Vector, snap : Vector, by : Publisher, done : BOOLEAN]
      BY <3>1 DEF ScoringInv, ScoringShape, PublishingShape, RecordShape
    <3>3. report' = report \/ report' = [report EXCEPT ![publisher["worker"].e] = new]
      BY <1>9 DEF GenerateAuditReport
    <3> HIDE DEF new
    <3> QED
      BY <3>2, <3>3 DEF ScoringInv, ScoringShape, RecordShape
  <2> QED
    BY <1>9, <2>1 DEF GenerateAuditReport, ScoringInv, ScoringShape, RecordShape
<1>10. CASE MarkAudited
  BY <1>10 DEF Submits, PublisherAt, GoesTo, Rests, NoTrouble, Trouble, probing, clockwork, records, MarkAudited, ScoringInv, ScoringShape, RecordShape, PublishingShape, Publisher, HistoryRows, NoReport
<1>11. CASE AdminStarts
  BY <1>11 DEF Submits, PublisherAt, GoesTo, Rests, NoTrouble, Trouble, probing, clockwork, records, AdminStarts, ScoringInv, ScoringShape, RecordShape, PublishingShape, Publisher, HistoryRows, NoReport
<1>12. CASE PublishCards("admin")
  BY <1>12 DEF Submits, PublisherAt, GoesTo, Rests, NoTrouble, Trouble, probing, clockwork, records, PublishCards, ScoringInv, ScoringShape, RecordShape, PublishingShape, Publisher, HistoryRows, NoReport
<1>13. CASE SaveSnapshot("admin")
  BY <1>13 DEF Submits, PublisherAt, GoesTo, Rests, NoTrouble, Trouble, probing, clockwork, records, SaveSnapshot, ScoringInv, ScoringShape, RecordShape, PublishingShape, Publisher, HistoryRows, NoReport
<1>14. CASE CommitWeights("admin")
  BY <1>14 DEF Submits, PublisherAt, GoesTo, Rests, NoTrouble, Trouble, probing, clockwork, records, CommitWeights, ScoringInv, ScoringShape, RecordShape, PublishingShape, Publisher, HistoryRows, NoReport
<1>15. CASE EpochCloses
  BY <1>15 DEF Submits, PublisherAt, GoesTo, Rests, NoTrouble, Trouble, probing, clockwork, records, EpochCloses, ScoringInv, ScoringShape, RecordShape, PublishingShape, Publisher, HistoryRows, NoReport
<1>16. CASE BufferPasses
  BY <1>16 DEF Submits, PublisherAt, GoesTo, Rests, NoTrouble, Trouble, probing, clockwork, records, BufferPasses, ScoringInv, ScoringShape, RecordShape, PublishingShape, Publisher, HistoryRows, NoReport
<1>17. CASE WhitelistEdited
  BY <1>17 DEF Submits, PublisherAt, GoesTo, Rests, NoTrouble, Trouble, probing, clockwork, records, WhitelistEdited, ScoringInv, ScoringShape, RecordShape, PublishingShape, Publisher, HistoryRows, NoReport
<1>18. CASE NeuronPruned
  BY <1>18 DEF Submits, PublisherAt, GoesTo, Rests, NoTrouble, Trouble, probing, clockwork, records, NeuronPruned, ScoringInv, ScoringShape, RecordShape, PublishingShape, Publisher, HistoryRows, NoReport
<1>19. CASE SyncMetagraph
  BY <1>19 DEF Submits, PublisherAt, GoesTo, Rests, NoTrouble, Trouble, probing, clockwork, records, SyncMetagraph, ScoringInv, ScoringShape, RecordShape, PublishingShape, Publisher, HistoryRows, NoReport
<1>20. CASE ScoringRestarts
  BY <1>20 DEF Submits, PublisherAt, GoesTo, Rests, NoTrouble, Trouble, probing, clockwork, records, ScoringRestarts, ScoringInv, ScoringShape, RecordShape, PublishingShape, Publisher, HistoryRows, NoReport
<1>21. ASSUME NEW s \in Submitter, SubmitChecks(s) PROVE RecordShape'
  BY <1>21 DEF Submits, PublisherAt, GoesTo, Rests, NoTrouble, Trouble, probing, clockwork, records, SubmitChecks, ScoringInv, ScoringShape, RecordShape, PublishingShape, Publisher, HistoryRows, NoReport
<1>22. ASSUME NEW s \in Submitter, AddResult(s) PROVE RecordShape'
  BY <1>22 DEF Submits, PublisherAt, GoesTo, Rests, NoTrouble, Trouble, probing, clockwork, records, AddResult, ScoringInv, ScoringShape, RecordShape, PublishingShape, Publisher, HistoryRows, NoReport
<1>23. ASSUME NEW s \in Submitter, ComputeScore(s) PROVE RecordShape'
  BY <1>23 DEF Submits, PublisherAt, GoesTo, Rests, NoTrouble, Trouble, probing, clockwork, records, ComputeScore, ScoringInv, ScoringShape, RecordShape, PublishingShape, Publisher, HistoryRows, NoReport
<1>24. ASSUME NEW s \in Submitter, SaveScorecard(s) PROVE RecordShape'
  BY <1>24 DEF Submits, PublisherAt, GoesTo, Rests, NoTrouble, Trouble, probing, clockwork, records, SaveScorecard, ScoringInv, ScoringShape, RecordShape, PublishingShape, Publisher, HistoryRows, NoReport
<1> QED
  BY <1>1, <1>2, <1>3, <1>4, <1>5, <1>6, <1>7, <1>8, <1>9, <1>10, <1>11, <1>12, <1>13, <1>14, <1>15, <1>16, <1>17, <1>18, <1>19, <1>20, <1>21, <1>22, <1>23, <1>24 DEF ScoringNext, AuditSteps

\* Every step keeps the types of the world.
LEMMA WorldKept ==
  ASSUME ScoringInv, ScoringNext
  PROVE  WorldShape'
<1> USE ScoringAssumption
<1>1. CASE CreateProbe
  BY <1>1 DEF Submits, PublisherAt, GoesTo, Rests, NoTrouble, Trouble, probing, clockwork, records, CreateProbe, ScoringInv, ScoringShape, WorldShape
<1>2. CASE CanaryStarts
  BY <1>2 DEF Submits, PublisherAt, GoesTo, Rests, NoTrouble, Trouble, probing, clockwork, records, CanaryStarts, ScoringInv, ScoringShape, WorldShape
<1>3. CASE CanaryEnds
  BY <1>3 DEF Submits, PublisherAt, GoesTo, Rests, NoTrouble, Trouble, probing, clockwork, records, CanaryEnds, ScoringInv, ScoringShape, WorldShape
<1>4. CASE AuditStarts
  BY <1>4 DEF Submits, PublisherAt, GoesTo, Rests, NoTrouble, Trouble, probing, clockwork, records, AuditStarts, ScoringInv, ScoringShape, WorldShape
<1>5. CASE PublishCards("worker")
  BY <1>5 DEF Submits, PublisherAt, GoesTo, Rests, NoTrouble, Trouble, probing, clockwork, records, PublishCards, ScoringInv, ScoringShape, WorldShape
<1>6. CASE SaveSnapshot("worker")
  BY <1>6 DEF Submits, PublisherAt, GoesTo, Rests, NoTrouble, Trouble, probing, clockwork, records, SaveSnapshot, ScoringInv, ScoringShape, WorldShape
<1>7. CASE SaveHistory
  BY <1>7 DEF Submits, PublisherAt, GoesTo, Rests, NoTrouble, Trouble, probing, clockwork, records, SaveHistory, ScoringInv, ScoringShape, WorldShape
<1>8. CASE CommitWeights("worker")
  BY <1>8 DEF Submits, PublisherAt, GoesTo, Rests, NoTrouble, Trouble, probing, clockwork, records, CommitWeights, ScoringInv, ScoringShape, WorldShape
<1>9. CASE GenerateAuditReport
  BY <1>9 DEF Submits, PublisherAt, GoesTo, Rests, NoTrouble, Trouble, probing, clockwork, records, GenerateAuditReport, ScoringInv, ScoringShape, WorldShape
<1>10. CASE MarkAudited
  BY <1>10 DEF Submits, PublisherAt, GoesTo, Rests, NoTrouble, Trouble, probing, clockwork, records, MarkAudited, ScoringInv, ScoringShape, WorldShape
<1>11. CASE AdminStarts
  BY <1>11 DEF Submits, PublisherAt, GoesTo, Rests, NoTrouble, Trouble, probing, clockwork, records, AdminStarts, ScoringInv, ScoringShape, WorldShape
<1>12. CASE PublishCards("admin")
  BY <1>12 DEF Submits, PublisherAt, GoesTo, Rests, NoTrouble, Trouble, probing, clockwork, records, PublishCards, ScoringInv, ScoringShape, WorldShape
<1>13. CASE SaveSnapshot("admin")
  BY <1>13 DEF Submits, PublisherAt, GoesTo, Rests, NoTrouble, Trouble, probing, clockwork, records, SaveSnapshot, ScoringInv, ScoringShape, WorldShape
<1>14. CASE CommitWeights("admin")
  BY <1>14 DEF Submits, PublisherAt, GoesTo, Rests, NoTrouble, Trouble, probing, clockwork, records, CommitWeights, ScoringInv, ScoringShape, WorldShape
<1>15. CASE EpochCloses
  BY <1>15 DEF Submits, PublisherAt, GoesTo, Rests, NoTrouble, Trouble, probing, clockwork, records, EpochCloses, ScoringInv, ScoringShape, WorldShape
<1>16. CASE BufferPasses
  BY <1>16 DEF Submits, PublisherAt, GoesTo, Rests, NoTrouble, Trouble, probing, clockwork, records, BufferPasses, ScoringInv, ScoringShape, WorldShape
<1>17. CASE WhitelistEdited
  <2>1. scoreFaults' \in 0..MaxScoreFaults
    BY <1>17 DEF WhitelistEdited, Trouble, ScoringInv, ScoringShape, WorldShape
  <2>2. allowed' \subseteq Miner
    BY <1>17 DEF WhitelistEdited, ScoringInv, ScoringShape, WorldShape
  <2> QED
    BY <1>17, <2>1, <2>2 DEF WhitelistEdited, ScoringInv, ScoringShape, WorldShape
<1>18. CASE NeuronPruned
  <2>1. scoreFaults' \in 0..MaxScoreFaults
    BY <1>18 DEF NeuronPruned, Trouble, ScoringInv, ScoringShape, WorldShape
  <2> QED
    BY <1>18, <2>1 DEF NeuronPruned, ScoringInv, ScoringShape, WorldShape
<1>19. CASE SyncMetagraph
  BY <1>19 DEF Submits, PublisherAt, GoesTo, Rests, NoTrouble, Trouble, probing, clockwork, records, SyncMetagraph, ScoringInv, ScoringShape, WorldShape
<1>20. CASE ScoringRestarts
  BY <1>20 DEF Submits, PublisherAt, GoesTo, Rests, NoTrouble, Trouble, probing, clockwork, records, ScoringRestarts, ScoringInv, ScoringShape, WorldShape
<1>21. ASSUME NEW s \in Submitter, SubmitChecks(s) PROVE WorldShape'
  BY <1>21 DEF Submits, PublisherAt, GoesTo, Rests, NoTrouble, Trouble, probing, clockwork, records, SubmitChecks, ScoringInv, ScoringShape, WorldShape
<1>22. ASSUME NEW s \in Submitter, AddResult(s) PROVE WorldShape'
  BY <1>22 DEF Submits, PublisherAt, GoesTo, Rests, NoTrouble, Trouble, probing, clockwork, records, AddResult, ScoringInv, ScoringShape, WorldShape
<1>23. ASSUME NEW s \in Submitter, ComputeScore(s) PROVE WorldShape'
  BY <1>23 DEF Submits, PublisherAt, GoesTo, Rests, NoTrouble, Trouble, probing, clockwork, records, ComputeScore, ScoringInv, ScoringShape, WorldShape
<1>24. ASSUME NEW s \in Submitter, SaveScorecard(s) PROVE WorldShape'
  BY <1>24 DEF Submits, PublisherAt, GoesTo, Rests, NoTrouble, Trouble, probing, clockwork, records, SaveScorecard, ScoringInv, ScoringShape, WorldShape
<1> QED
  BY <1>1, <1>2, <1>3, <1>4, <1>5, <1>6, <1>7, <1>8, <1>9, <1>10, <1>11, <1>12, <1>13, <1>14, <1>15, <1>16, <1>17, <1>18, <1>19, <1>20, <1>21, <1>22, <1>23, <1>24 DEF ScoringNext, AuditSteps

\* Every step keeps the worker's weights with its snapshot and its epoch.
LEMMA WorkerKept ==
  ASSUME ScoringInv, ScoringNext
  PROVE  WorkerPublishes'
<1> USE ScoringAssumption
<1>1. CASE CreateProbe
  BY <1>1 DEF Submits, PublisherAt, GoesTo, Rests, NoTrouble, Trouble, probing, clockwork, records, CreateProbe, ScoringInv, ScoringShape, RecordShape, PublishingShape, Publisher, WorkerPublishes, IdlePublish
<1>2. CASE CanaryStarts
  BY <1>2 DEF Submits, PublisherAt, GoesTo, Rests, NoTrouble, Trouble, probing, clockwork, records, CanaryStarts, ScoringInv, ScoringShape, RecordShape, PublishingShape, Publisher, WorkerPublishes, IdlePublish
<1>3. CASE CanaryEnds
  BY <1>3 DEF Submits, PublisherAt, GoesTo, Rests, NoTrouble, Trouble, probing, clockwork, records, CanaryEnds, ScoringInv, ScoringShape, RecordShape, PublishingShape, Publisher, WorkerPublishes, IdlePublish
<1>4. CASE AuditStarts
  BY <1>4 DEF Submits, PublisherAt, GoesTo, Rests, NoTrouble, Trouble, probing, clockwork, records, AuditStarts, ScoringInv, ScoringShape, RecordShape, PublishingShape, Publisher, WorkerPublishes, IdlePublish
<1>5. CASE PublishCards("worker")
  BY <1>5 DEF Submits, PublisherAt, GoesTo, Rests, NoTrouble, Trouble, probing, clockwork, records, PublishCards, ScoringInv, ScoringShape, RecordShape, PublishingShape, Publisher, WorkerPublishes, IdlePublish
<1>6. CASE SaveSnapshot("worker")
  BY <1>6 DEF Submits, PublisherAt, GoesTo, Rests, NoTrouble, Trouble, probing, clockwork, records, SaveSnapshot, ScoringInv, ScoringShape, RecordShape, PublishingShape, Publisher, WorkerPublishes, IdlePublish
<1>7. CASE SaveHistory
  <2> DEFINE worker == publisher["worker"]
  <2>1. worker.e \in Epoch /\ worker.pc = "history"
    BY <1>7 DEF SaveHistory, PublisherAt, ScoringInv, ScoringShape, PublishingShape
  <2>2. publisher'["worker"] = [worker EXCEPT !.pc = "commit"] /\ snapshot' = snapshot /\ snapBy' = snapBy
    BY <1>7 DEF SaveHistory, GoesTo, ScoringInv, ScoringShape, PublishingShape, Publisher
  <2>3. worker.e \in lost' \/ worker.w \in history'[worker.e]
    BY <1>7, <2>1 DEF SaveHistory, HistoryRows, ScoringInv, ScoringShape, RecordShape
  <2> QED
    BY <2>1, <2>2, <2>3 DEF ScoringInv, ScoringShape, WorkerPublishes, PublishingShape, Publisher
<1>8. CASE CommitWeights("worker")
  BY <1>8 DEF Submits, PublisherAt, GoesTo, Rests, NoTrouble, Trouble, probing, clockwork, records, CommitWeights, ScoringInv, ScoringShape, RecordShape, PublishingShape, Publisher, WorkerPublishes, IdlePublish
<1>9. CASE GenerateAuditReport
  BY <1>9 DEF Submits, PublisherAt, GoesTo, Rests, NoTrouble, Trouble, probing, clockwork, records, GenerateAuditReport, ScoringInv, ScoringShape, RecordShape, PublishingShape, Publisher, WorkerPublishes, IdlePublish
<1>10. CASE MarkAudited
  BY <1>10 DEF Submits, PublisherAt, GoesTo, Rests, NoTrouble, Trouble, probing, clockwork, records, MarkAudited, ScoringInv, ScoringShape, RecordShape, PublishingShape, Publisher, WorkerPublishes, IdlePublish
<1>11. CASE AdminStarts
  BY <1>11 DEF Submits, PublisherAt, GoesTo, Rests, NoTrouble, Trouble, probing, clockwork, records, AdminStarts, ScoringInv, ScoringShape, RecordShape, PublishingShape, Publisher, WorkerPublishes, IdlePublish
<1>12. CASE PublishCards("admin")
  BY <1>12 DEF Submits, PublisherAt, GoesTo, Rests, NoTrouble, Trouble, probing, clockwork, records, PublishCards, ScoringInv, ScoringShape, RecordShape, PublishingShape, Publisher, WorkerPublishes, IdlePublish
<1>13. CASE SaveSnapshot("admin")
  BY <1>13 DEF Submits, PublisherAt, GoesTo, Rests, NoTrouble, Trouble, probing, clockwork, records, SaveSnapshot, ScoringInv, ScoringShape, RecordShape, PublishingShape, Publisher, WorkerPublishes, IdlePublish
<1>14. CASE CommitWeights("admin")
  BY <1>14 DEF Submits, PublisherAt, GoesTo, Rests, NoTrouble, Trouble, probing, clockwork, records, CommitWeights, ScoringInv, ScoringShape, RecordShape, PublishingShape, Publisher, WorkerPublishes, IdlePublish
<1>15. CASE EpochCloses
  BY <1>15 DEF Submits, PublisherAt, GoesTo, Rests, NoTrouble, Trouble, probing, clockwork, records, EpochCloses, ScoringInv, ScoringShape, RecordShape, PublishingShape, Publisher, WorkerPublishes, IdlePublish
<1>16. CASE BufferPasses
  BY <1>16 DEF Submits, PublisherAt, GoesTo, Rests, NoTrouble, Trouble, probing, clockwork, records, BufferPasses, ScoringInv, ScoringShape, RecordShape, PublishingShape, Publisher, WorkerPublishes, IdlePublish
<1>17. CASE WhitelistEdited
  BY <1>17 DEF Submits, PublisherAt, GoesTo, Rests, NoTrouble, Trouble, probing, clockwork, records, WhitelistEdited, ScoringInv, ScoringShape, RecordShape, PublishingShape, Publisher, WorkerPublishes, IdlePublish
<1>18. CASE NeuronPruned
  BY <1>18 DEF Submits, PublisherAt, GoesTo, Rests, NoTrouble, Trouble, probing, clockwork, records, NeuronPruned, ScoringInv, ScoringShape, RecordShape, PublishingShape, Publisher, WorkerPublishes, IdlePublish
<1>19. CASE SyncMetagraph
  BY <1>19 DEF Submits, PublisherAt, GoesTo, Rests, NoTrouble, Trouble, probing, clockwork, records, SyncMetagraph, ScoringInv, ScoringShape, RecordShape, PublishingShape, Publisher, WorkerPublishes, IdlePublish
<1>20. CASE ScoringRestarts
  BY <1>20 DEF Submits, PublisherAt, GoesTo, Rests, NoTrouble, Trouble, probing, clockwork, records, ScoringRestarts, ScoringInv, ScoringShape, RecordShape, PublishingShape, Publisher, WorkerPublishes, IdlePublish
<1>21. ASSUME NEW s \in Submitter, SubmitChecks(s) PROVE WorkerPublishes'
  BY <1>21 DEF Submits, PublisherAt, GoesTo, Rests, NoTrouble, Trouble, probing, clockwork, records, SubmitChecks, ScoringInv, ScoringShape, RecordShape, PublishingShape, Publisher, WorkerPublishes, IdlePublish
<1>22. ASSUME NEW s \in Submitter, AddResult(s) PROVE WorkerPublishes'
  BY <1>22 DEF Submits, PublisherAt, GoesTo, Rests, NoTrouble, Trouble, probing, clockwork, records, AddResult, ScoringInv, ScoringShape, RecordShape, PublishingShape, Publisher, WorkerPublishes, IdlePublish
<1>23. ASSUME NEW s \in Submitter, ComputeScore(s) PROVE WorkerPublishes'
  BY <1>23 DEF Submits, PublisherAt, GoesTo, Rests, NoTrouble, Trouble, probing, clockwork, records, ComputeScore, ScoringInv, ScoringShape, RecordShape, PublishingShape, Publisher, WorkerPublishes, IdlePublish
<1>24. ASSUME NEW s \in Submitter, SaveScorecard(s) PROVE WorkerPublishes'
  BY <1>24 DEF Submits, PublisherAt, GoesTo, Rests, NoTrouble, Trouble, probing, clockwork, records, SaveScorecard, ScoringInv, ScoringShape, RecordShape, PublishingShape, Publisher, WorkerPublishes, IdlePublish
<1> QED
  BY <1>1, <1>2, <1>3, <1>4, <1>5, <1>6, <1>7, <1>8, <1>9, <1>10, <1>11, <1>12, <1>13, <1>14, <1>15, <1>16, <1>17, <1>18, <1>19, <1>20, <1>21, <1>22, <1>23, <1>24 DEF ScoringNext, AuditSteps

\* Every step keeps the reports true to their epoch's rows.
LEMMA ReplaysKept ==
  ASSUME ScoringInv, ScoringNext
  PROVE  ReportReplays'
<1> USE ScoringAssumption
<1>1. CASE CreateProbe
  BY <1>1 DEF Submits, PublisherAt, GoesTo, Rests, NoTrouble, Trouble, probing, clockwork, records, CreateProbe, ScoringInv, ScoringShape, ReportReplays
<1>2. CASE CanaryStarts
  BY <1>2 DEF Submits, PublisherAt, GoesTo, Rests, NoTrouble, Trouble, probing, clockwork, records, CanaryStarts, ScoringInv, ScoringShape, ReportReplays
<1>3. CASE CanaryEnds
  BY <1>3 DEF Submits, PublisherAt, GoesTo, Rests, NoTrouble, Trouble, probing, clockwork, records, CanaryEnds, ScoringInv, ScoringShape, ReportReplays
<1>4. CASE AuditStarts
  BY <1>4 DEF Submits, PublisherAt, GoesTo, Rests, NoTrouble, Trouble, probing, clockwork, records, AuditStarts, ScoringInv, ScoringShape, ReportReplays
<1>5. CASE PublishCards("worker")
  BY <1>5 DEF Submits, PublisherAt, GoesTo, Rests, NoTrouble, Trouble, probing, clockwork, records, PublishCards, ScoringInv, ScoringShape, ReportReplays
<1>6. CASE SaveSnapshot("worker")
  BY <1>6 DEF Submits, PublisherAt, GoesTo, Rests, NoTrouble, Trouble, probing, clockwork, records, SaveSnapshot, ScoringInv, ScoringShape, ReportReplays
<1>7. CASE SaveHistory
  BY <1>7 DEF Submits, PublisherAt, GoesTo, Rests, NoTrouble, Trouble, probing, clockwork, records, SaveHistory, ScoringInv, ScoringShape, ReportReplays
<1>8. CASE CommitWeights("worker")
  BY <1>8 DEF Submits, PublisherAt, GoesTo, Rests, NoTrouble, Trouble, probing, clockwork, records, CommitWeights, ScoringInv, ScoringShape, ReportReplays
<1>9. CASE GenerateAuditReport
  <2> DEFINE worker == publisher["worker"]
  <2>1. worker.e \in Epoch /\ worker.pc = "report" /\ UNCHANGED <<history, lost>>
    BY <1>9 DEF GenerateAuditReport, PublisherAt, ScoringInv, ScoringShape, PublishingShape
  <2>2. CASE report' = report
    BY <2>1, <2>2 DEF ScoringInv, ReportReplays
  <2>3. CASE report' = [report EXCEPT ![worker.e] = [rows |-> history[worker.e], snap |-> snapshot, by |-> snapBy, done |-> TRUE]]
    <3>1. worker.e \notin lost /\ snapBy = "worker" => snapshot \in history[worker.e]
      BY <2>1 DEF ScoringInv, WorkerPublishes
    <3>2. report'[worker.e] = [rows |-> history[worker.e], snap |-> snapshot, by |-> snapBy, done |-> TRUE]
      BY <2>1, <2>3 DEF ScoringInv, ScoringShape, RecordShape
    <3>3. \A e \in Epoch \ {worker.e} : report'[e] = report[e]
      BY <2>1, <2>3 DEF ScoringInv, ScoringShape, RecordShape
    <3> QED
      BY <2>1, <3>1, <3>2, <3>3 DEF ScoringInv, ReportReplays
  <2> QED
    BY <1>9, <2>2, <2>3 DEF GenerateAuditReport
<1>10. CASE MarkAudited
  BY <1>10 DEF Submits, PublisherAt, GoesTo, Rests, NoTrouble, Trouble, probing, clockwork, records, MarkAudited, ScoringInv, ScoringShape, ReportReplays
<1>11. CASE AdminStarts
  BY <1>11 DEF Submits, PublisherAt, GoesTo, Rests, NoTrouble, Trouble, probing, clockwork, records, AdminStarts, ScoringInv, ScoringShape, ReportReplays
<1>12. CASE PublishCards("admin")
  BY <1>12 DEF Submits, PublisherAt, GoesTo, Rests, NoTrouble, Trouble, probing, clockwork, records, PublishCards, ScoringInv, ScoringShape, ReportReplays
<1>13. CASE SaveSnapshot("admin")
  BY <1>13 DEF Submits, PublisherAt, GoesTo, Rests, NoTrouble, Trouble, probing, clockwork, records, SaveSnapshot, ScoringInv, ScoringShape, ReportReplays
<1>14. CASE CommitWeights("admin")
  BY <1>14 DEF Submits, PublisherAt, GoesTo, Rests, NoTrouble, Trouble, probing, clockwork, records, CommitWeights, ScoringInv, ScoringShape, ReportReplays
<1>15. CASE EpochCloses
  BY <1>15 DEF Submits, PublisherAt, GoesTo, Rests, NoTrouble, Trouble, probing, clockwork, records, EpochCloses, ScoringInv, ScoringShape, ReportReplays
<1>16. CASE BufferPasses
  BY <1>16 DEF Submits, PublisherAt, GoesTo, Rests, NoTrouble, Trouble, probing, clockwork, records, BufferPasses, ScoringInv, ScoringShape, ReportReplays
<1>17. CASE WhitelistEdited
  BY <1>17 DEF Submits, PublisherAt, GoesTo, Rests, NoTrouble, Trouble, probing, clockwork, records, WhitelistEdited, ScoringInv, ScoringShape, ReportReplays
<1>18. CASE NeuronPruned
  BY <1>18 DEF Submits, PublisherAt, GoesTo, Rests, NoTrouble, Trouble, probing, clockwork, records, NeuronPruned, ScoringInv, ScoringShape, ReportReplays
<1>19. CASE SyncMetagraph
  BY <1>19 DEF Submits, PublisherAt, GoesTo, Rests, NoTrouble, Trouble, probing, clockwork, records, SyncMetagraph, ScoringInv, ScoringShape, ReportReplays
<1>20. CASE ScoringRestarts
  BY <1>20 DEF Submits, PublisherAt, GoesTo, Rests, NoTrouble, Trouble, probing, clockwork, records, ScoringRestarts, ScoringInv, ScoringShape, ReportReplays
<1>21. ASSUME NEW s \in Submitter, SubmitChecks(s) PROVE ReportReplays'
  BY <1>21 DEF Submits, PublisherAt, GoesTo, Rests, NoTrouble, Trouble, probing, clockwork, records, SubmitChecks, ScoringInv, ScoringShape, ReportReplays
<1>22. ASSUME NEW s \in Submitter, AddResult(s) PROVE ReportReplays'
  BY <1>22 DEF Submits, PublisherAt, GoesTo, Rests, NoTrouble, Trouble, probing, clockwork, records, AddResult, ScoringInv, ScoringShape, ReportReplays
<1>23. ASSUME NEW s \in Submitter, ComputeScore(s) PROVE ReportReplays'
  BY <1>23 DEF Submits, PublisherAt, GoesTo, Rests, NoTrouble, Trouble, probing, clockwork, records, ComputeScore, ScoringInv, ScoringShape, ReportReplays
<1>24. ASSUME NEW s \in Submitter, SaveScorecard(s) PROVE ReportReplays'
  BY <1>24 DEF Submits, PublisherAt, GoesTo, Rests, NoTrouble, Trouble, probing, clockwork, records, SaveScorecard, ScoringInv, ScoringShape, ReportReplays
<1> QED
  BY <1>1, <1>2, <1>3, <1>4, <1>5, <1>6, <1>7, <1>8, <1>9, <1>10, <1>11, <1>12, <1>13, <1>14, <1>15, <1>16, <1>17, <1>18, <1>19, <1>20, <1>21, <1>22, <1>23, <1>24 DEF ScoringNext, AuditSteps

\* Those who add are some of the calls.
LEMMA AddingType ==
  ASSUME NEW p
  PROVE  /\ IsFiniteSet(Adding(p)) /\ Cardinality(Adding(p)) \in Nat /\ Cardinality(Submitter) \in Nat
         /\ Cardinality(Adding(p)) <= Cardinality(Submitter)
<1>1. Adding(p) \subseteq Submitter
  BY DEF Adding
<1>2. IsFiniteSet(Submitter)
  BY ScoringAssumption
<1> QED
  BY <1>1, <1>2, FS_Subset, FS_CardinalityType

\* A step that takes nobody in or out of the calls about to add keeps the bound.
LEMMA BoundStays ==
  ASSUME ScoringInv, \A p \in Probe : Adding(p)' = Adding(p), results' = results, canary' = canary,
         issued \subseteq issued'
  PROVE  ResultsBounded'
BY DEF ScoringInv, ResultsBounded, OutFor

\* Every step keeps the number of results within the number of calls.
LEMMA BoundKept ==
  ASSUME ScoringInv, ScoringNext
  PROVE  ResultsBounded'
<1> USE ScoringAssumption
<1>1. CASE CreateProbe
  <2>1. UNCHANGED <<submission, results, canary>> /\ issued \subseteq issued'
    BY <1>1 DEF CreateProbe, probing, clockwork, records
  <2>2. \A p \in Probe : Adding(p)' = Adding(p)
    BY <2>1 DEF Adding
  <2> QED
    BY <2>1, <2>2, BoundStays
<1>2. CASE CanaryStarts
  <2>1. UNCHANGED <<submission, results>> /\ canary = NoCanary
    BY <1>2 DEF CanaryStarts
  <2>2. PICK c \in CanaryProbe \ issued : issued' = issued \cup {c} /\ canary' = c
    BY <1>2 DEF CanaryStarts
  <2>3. \A p \in Probe : Adding(p)' = Adding(p)
    BY <2>1 DEF Adding
  <2>4. ASSUME NEW p \in Probe, p # c PROVE results[p] + Cardinality(Adding(p)) + OutFor(p)' <= Cardinality(Submitter) + 1
    <3>1. OutFor(p)' = 0 /\ OutFor(p) = 0
      BY <2>1, <2>2, <2>4 DEF OutFor
    <3> QED
      BY <3>1 DEF ScoringInv, ResultsBounded
  <2>5. c \in Probe => results[c] + Cardinality(Adding(c)) + OutFor(c)' <= Cardinality(Submitter) + 1
    <3>1. c \in Probe => results[c] = 0
      BY <2>2 DEF ScoringInv, ResultsBounded
    <3>2. OutFor(c)' \in {0, 1}
      BY DEF OutFor
    <3> QED
      BY <3>1, <3>2, AddingType
  <2> QED
    BY <2>1, <2>2, <2>3, <2>4, <2>5 DEF ScoringInv, ResultsBounded
<1>3. CASE CanaryEnds
  <2>1. canary \in issued /\ canary \in Probe /\ results' = [results EXCEPT ![canary] = @ + 1] /\ canary' = NoCanary /\ canary # NoCanary
    BY <1>3 DEF CanaryEnds, ScoringInv, ScoringShape, ProbingShape
  <2>2. submission' = submission /\ issued' = issued
    BY <1>3 DEF CanaryEnds
  <2>3. \A p \in Probe : Adding(p)' = Adding(p)
    BY <2>2 DEF Adding
  <2>4. OutFor(canary) = 1 /\ \A p \in Probe : OutFor(p)' = 0 /\ OutFor(p) \in {0, 1}
    BY <2>1 DEF OutFor
  <2>5. ASSUME NEW p \in Probe PROVE results'[p] + Cardinality(Adding(p)) + 0 <= Cardinality(Submitter) + 1
    <3>1. results[p] \in Nat /\ results[p] + Cardinality(Adding(p)) + OutFor(p) <= Cardinality(Submitter) + 1
      BY DEF ScoringInv, ScoringShape, ProbingShape, ResultsBounded
    <3>2. results'[p] = IF p = canary THEN results[p] + 1 ELSE results[p]
      BY <2>1 DEF ScoringInv, ScoringShape, ProbingShape
    <3> QED
      BY <2>4, <3>1, <3>2, AddingType
  <2>6. \A p \in Probe : p \notin issued => results'[p] = 0
    BY <2>1 DEF ScoringInv, ScoringShape, ProbingShape, ResultsBounded
  <2> QED
    BY <2>2, <2>3, <2>4, <2>5, <2>6 DEF ResultsBounded
<1>4. CASE AuditStarts
  <2>1. UNCHANGED <<submission, results, canary>> /\ issued \subseteq issued'
    BY <1>4 DEF AuditStarts, probing, clockwork, records
  <2>2. \A p \in Probe : Adding(p)' = Adding(p)
    BY <2>1 DEF Adding
  <2> QED
    BY <2>1, <2>2, BoundStays
<1>5. CASE PublishCards("worker")
  <2>1. UNCHANGED <<submission, results, canary>> /\ issued \subseteq issued'
    BY <1>5 DEF PublishCards, probing, clockwork, records
  <2>2. \A p \in Probe : Adding(p)' = Adding(p)
    BY <2>1 DEF Adding
  <2> QED
    BY <2>1, <2>2, BoundStays
<1>6. CASE SaveSnapshot("worker")
  <2>1. UNCHANGED <<submission, results, canary>> /\ issued \subseteq issued'
    BY <1>6 DEF SaveSnapshot, probing, clockwork, records
  <2>2. \A p \in Probe : Adding(p)' = Adding(p)
    BY <2>1 DEF Adding
  <2> QED
    BY <2>1, <2>2, BoundStays
<1>7. CASE SaveHistory
  <2>1. UNCHANGED <<submission, results, canary>> /\ issued \subseteq issued'
    BY <1>7 DEF SaveHistory, probing, clockwork, records
  <2>2. \A p \in Probe : Adding(p)' = Adding(p)
    BY <2>1 DEF Adding
  <2> QED
    BY <2>1, <2>2, BoundStays
<1>8. CASE CommitWeights("worker")
  <2>1. UNCHANGED <<submission, results, canary>> /\ issued \subseteq issued'
    BY <1>8 DEF CommitWeights, probing, clockwork, records
  <2>2. \A p \in Probe : Adding(p)' = Adding(p)
    BY <2>1 DEF Adding
  <2> QED
    BY <2>1, <2>2, BoundStays
<1>9. CASE GenerateAuditReport
  <2>1. UNCHANGED <<submission, results, canary>> /\ issued \subseteq issued'
    BY <1>9 DEF GenerateAuditReport, probing, clockwork, records
  <2>2. \A p \in Probe : Adding(p)' = Adding(p)
    BY <2>1 DEF Adding
  <2> QED
    BY <2>1, <2>2, BoundStays
<1>10. CASE MarkAudited
  <2>1. UNCHANGED <<submission, results, canary>> /\ issued \subseteq issued'
    BY <1>10 DEF MarkAudited, probing, clockwork, records
  <2>2. \A p \in Probe : Adding(p)' = Adding(p)
    BY <2>1 DEF Adding
  <2> QED
    BY <2>1, <2>2, BoundStays
<1>11. CASE AdminStarts
  <2>1. UNCHANGED <<submission, results, canary>> /\ issued \subseteq issued'
    BY <1>11 DEF AdminStarts, probing, clockwork, records
  <2>2. \A p \in Probe : Adding(p)' = Adding(p)
    BY <2>1 DEF Adding
  <2> QED
    BY <2>1, <2>2, BoundStays
<1>12. CASE PublishCards("admin")
  <2>1. UNCHANGED <<submission, results, canary>> /\ issued \subseteq issued'
    BY <1>12 DEF PublishCards, probing, clockwork, records
  <2>2. \A p \in Probe : Adding(p)' = Adding(p)
    BY <2>1 DEF Adding
  <2> QED
    BY <2>1, <2>2, BoundStays
<1>13. CASE SaveSnapshot("admin")
  <2>1. UNCHANGED <<submission, results, canary>> /\ issued \subseteq issued'
    BY <1>13 DEF SaveSnapshot, probing, clockwork, records
  <2>2. \A p \in Probe : Adding(p)' = Adding(p)
    BY <2>1 DEF Adding
  <2> QED
    BY <2>1, <2>2, BoundStays
<1>14. CASE CommitWeights("admin")
  <2>1. UNCHANGED <<submission, results, canary>> /\ issued \subseteq issued'
    BY <1>14 DEF CommitWeights, probing, clockwork, records
  <2>2. \A p \in Probe : Adding(p)' = Adding(p)
    BY <2>1 DEF Adding
  <2> QED
    BY <2>1, <2>2, BoundStays
<1>15. CASE EpochCloses
  <2>1. UNCHANGED <<submission, results, canary>> /\ issued \subseteq issued'
    BY <1>15 DEF EpochCloses, probing, clockwork, records
  <2>2. \A p \in Probe : Adding(p)' = Adding(p)
    BY <2>1 DEF Adding
  <2> QED
    BY <2>1, <2>2, BoundStays
<1>16. CASE BufferPasses
  <2>1. UNCHANGED <<submission, results, canary>> /\ issued \subseteq issued'
    BY <1>16 DEF BufferPasses, probing, clockwork, records
  <2>2. \A p \in Probe : Adding(p)' = Adding(p)
    BY <2>1 DEF Adding
  <2> QED
    BY <2>1, <2>2, BoundStays
<1>17. CASE WhitelistEdited
  <2>1. UNCHANGED <<submission, results, canary>> /\ issued \subseteq issued'
    BY <1>17 DEF WhitelistEdited, probing, clockwork, records
  <2>2. \A p \in Probe : Adding(p)' = Adding(p)
    BY <2>1 DEF Adding
  <2> QED
    BY <2>1, <2>2, BoundStays
<1>18. CASE NeuronPruned
  <2>1. UNCHANGED <<submission, results, canary>> /\ issued \subseteq issued'
    BY <1>18 DEF NeuronPruned, probing, clockwork, records
  <2>2. \A p \in Probe : Adding(p)' = Adding(p)
    BY <2>1 DEF Adding
  <2> QED
    BY <2>1, <2>2, BoundStays
<1>19. CASE SyncMetagraph
  <2>1. UNCHANGED <<submission, results, canary>> /\ issued \subseteq issued'
    BY <1>19 DEF SyncMetagraph, probing, clockwork, records
  <2>2. \A p \in Probe : Adding(p)' = Adding(p)
    BY <2>1 DEF Adding
  <2> QED
    BY <2>1, <2>2, BoundStays
<1>20. CASE ScoringRestarts
  <2>1. \A p \in Probe : Adding(p)' = {} /\ OutFor(p)' = 0
    BY <1>20 DEF ScoringRestarts, IdleSubmit, Adding, OutFor
  <2>2. Cardinality({}) = 0
    BY FS_EmptySet
  <2>3. ASSUME NEW p \in Probe PROVE results[p] <= Cardinality(Submitter) + 1 /\ results[p] \in Nat
    BY AddingType DEF ScoringInv, ScoringShape, ProbingShape, ResultsBounded, OutFor
  <2>4. results' = results /\ issued' = issued
    BY <1>20 DEF ScoringRestarts
  <2>5. Cardinality(Submitter) \in Nat
    BY AddingType
  <2> QED
    BY <2>1, <2>2, <2>3, <2>4, <2>5 DEF ScoringInv, ResultsBounded
<1>21. ASSUME NEW s \in Submitter, SubmitChecks(s) PROVE ResultsBounded'
  <2>1. PICK c \in issued : results[c] = 0 /\ submission' = [submission EXCEPT ![s] = [pc |-> "add", p |-> c, score |-> 0]]
    BY <1>21 DEF SubmitChecks
  <2>2. UNCHANGED <<results, canary, issued>> /\ submission[s].pc = "idle"
    BY <1>21 DEF SubmitChecks
  <2>3. \A p \in Probe : p # c => Adding(p)' = Adding(p)
    BY <2>1, <2>2 DEF Adding, ScoringInv, ScoringShape, ProbingShape
  <2>4. Adding(c)' \subseteq Submitter
    BY DEF Adding
  <2>5. Cardinality(Adding(c)') <= Cardinality(Submitter) /\ Cardinality(Adding(c)') \in Nat /\ Cardinality(Submitter) \in Nat
    <3>1. IsFiniteSet(Submitter)
      BY ScoringAssumption
    <3> QED
      BY <2>4, <3>1, FS_Subset, FS_CardinalityType
  <2>6. OutFor(c) \in {0, 1} /\ \A p \in Probe : OutFor(p)' = OutFor(p)
    BY <2>2 DEF OutFor
  <2> QED
    BY <2>1, <2>2, <2>3, <2>5, <2>6 DEF ScoringInv, ResultsBounded
<1>22. ASSUME NEW s \in Submitter, AddResult(s) PROVE ResultsBounded'
  <2>1. PICK c \in issued : c = submission[s].p
    BY <1>22 DEF AddResult, ScoringInv, ScoringShape, ProbingShape
  <2>2. c \in Probe /\ s \in Adding(c)
    BY <1>22, <2>1 DEF AddResult, Adding, ScoringInv, ScoringShape, ProbingShape
  <2>3. results' = [results EXCEPT ![c] = @ + 1] /\ UNCHANGED <<issued, canary>>
    BY <1>22, <2>1 DEF AddResult
  <2>4. Adding(c)' = Adding(c) \ {s} /\ \A p \in Probe : p # c => Adding(p)' = Adding(p)
    BY <1>22, <2>1 DEF AddResult, Submits, Adding, ScoringInv, ScoringShape, ProbingShape
  <2>5. Cardinality(Adding(c)') = Cardinality(Adding(c)) - 1 /\ Cardinality(Adding(c)) \in Nat
    <3>1. IsFiniteSet(Adding(c)) /\ Cardinality(Adding(c)) \in Nat
      BY AddingType
    <3>2. Cardinality(Adding(c) \ {s}) = Cardinality(Adding(c)) - 1
      BY <2>2, <3>1, FS_RemoveElement
    <3> QED
      BY <2>4, <3>1, <3>2
  <2>6. \A p \in Probe : OutFor(p)' = OutFor(p) /\ OutFor(p) \in {0, 1}
    BY <2>3 DEF OutFor
  <2>7. ASSUME NEW p \in Probe PROVE results'[p] + Cardinality(Adding(p)') + OutFor(p) <= Cardinality(Submitter) + 1
    <3>1. results[p] \in Nat /\ results[p] + Cardinality(Adding(p)) + OutFor(p) <= Cardinality(Submitter) + 1
      BY DEF ScoringInv, ScoringShape, ProbingShape, ResultsBounded
    <3>2. results'[p] = IF p = c THEN results[p] + 1 ELSE results[p]
      BY <2>3 DEF ScoringInv, ScoringShape, ProbingShape
    <3>3. CASE p = c
      <4>1. results'[c] = results[c] + 1 /\ results[c] \in Nat
        BY <3>1, <3>2, <3>3
      <4>2. results[c] + Cardinality(Adding(c)) + OutFor(c) <= Cardinality(Submitter) + 1
        BY <3>1, <3>3
      <4>3. OutFor(c) \in Nat /\ Cardinality(Submitter) \in Nat
        BY <2>2, <2>6, AddingType
      <4> QED
        BY <2>5, <3>3, <4>1, <4>2, <4>3
    <3>4. CASE p # c
      BY <2>4, <3>1, <3>2, <3>4
    <3> QED
      BY <3>3, <3>4
  <2>8. \A p \in Probe : p \notin issued => results'[p] = 0
    BY <2>2, <2>3 DEF ScoringInv, ScoringShape, ProbingShape, ResultsBounded
  <2> QED
    BY <2>3, <2>6, <2>7, <2>8 DEF ResultsBounded
<1>23. ASSUME NEW s \in Submitter, ComputeScore(s) PROVE ResultsBounded'
  <2>1. UNCHANGED <<results, canary, issued>>
    BY <1>23 DEF ComputeScore
  <2>2. \A p \in Probe : Adding(p)' = Adding(p)
    BY <1>23 DEF ComputeScore, Adding, IdleSubmit, ScoringInv, ScoringShape, ProbingShape
  <2> QED
    BY <2>1, <2>2, BoundStays
<1>24. ASSUME NEW s \in Submitter, SaveScorecard(s) PROVE ResultsBounded'
  <2>1. UNCHANGED <<results, canary, issued>>
    BY <1>24 DEF SaveScorecard
  <2>2. \A p \in Probe : Adding(p)' = Adding(p)
    BY <1>24 DEF SaveScorecard, Adding, IdleSubmit, ScoringInv, ScoringShape, ProbingShape
  <2> QED
    BY <2>1, <2>2, BoundStays
<1> QED
  BY <1>1, <1>2, <1>3, <1>4, <1>5, <1>6, <1>7, <1>8, <1>9, <1>10, <1>11, <1>12, <1>13, <1>14, <1>15, <1>16, <1>17, <1>18, <1>19, <1>20, <1>21, <1>22, <1>23, <1>24 DEF ScoringNext, AuditSteps

\* At the start nothing is probed or scored.
LEMMA ScoringInvInit == ScoringInit => ScoringInv
<1> SUFFICES ASSUME ScoringInit PROVE ScoringInv
  OBVIOUS
<1> USE ScoringAssumption
<1>1. NoWeights \in Vector
  BY DEF NoWeights, Vector
<1>2. ProbingShape
  BY DEF ScoringInit, ProbingShape, IdleSubmit, SubmitPc
<1>3. PublishingShape
  <2>1. publisher \in [Publisher -> [pc : PublishPc, e : 0..MaxEpoch, w : Vector]]
    BY <1>1 DEF ScoringInit, IdlePublish, PublishPc
  <2>2. publisher["worker"].pc = "idle"
    BY DEF ScoringInit, IdlePublish, Publisher
  <2> QED
    BY <1>1, <2>1, <2>2 DEF ScoringInit, PublishingShape, Publisher
<1>4. RecordShape /\ WorldShape
  <2>1. NoReport \in [rows : SUBSET Vector, snap : Vector, by : Publisher, done : BOOLEAN]
    BY <1>1 DEF NoReport, Publisher
  <2>2. RecordShape
    BY <2>1 DEF ScoringInit, RecordShape
  <2>3. due \in BOOLEAN
    BY Zenon DEF ScoringInit
  <2> QED
    BY <2>2, <2>3 DEF ScoringInit, WorldShape
<1>5. WorkerPublishes /\ ReportReplays
  BY DEF ScoringInit, WorkerPublishes, ReportReplays, IdlePublish, NoReport, Publisher
<1>6. ResultsBounded
  <2>1. \A p \in Probe : Adding(p) = {} /\ OutFor(p) = 0 /\ results[p] = 0
    BY DEF ScoringInit, Adding, OutFor, IdleSubmit
  <2>2. Cardinality({}) = 0 /\ Cardinality(Submitter) \in Nat
    BY FS_EmptySet, FS_CardinalityType
  <2> QED
    BY <2>1, <2>2 DEF ResultsBounded
<1> QED
  BY <1>2, <1>3, <1>4, <1>5, <1>6 DEF ScoringInv, ScoringShape

\* Every step keeps ScoringInv.
LEMMA ScoringInvKept == ScoringInv /\ [ScoringNext]_scoreVars => ScoringInv'
<1> SUFFICES ASSUME ScoringInv, [ScoringNext]_scoreVars PROVE ScoringInv'
  OBVIOUS
<1>1. CASE ScoringNext
  BY <1>1, ProbingKept, PublishingKept, RecordsKept, WorldKept, WorkerKept, ReplaysKept, BoundKept
  DEF ScoringInv, ScoringShape
<1>2. CASE UNCHANGED scoreVars
  <2>1. \A p \in Probe : Adding(p)' = Adding(p)
    BY <1>2 DEF scoreVars, Adding
  <2>2. ResultsBounded'
    BY <1>2, <2>1, BoundStays DEF scoreVars
  <2>3. ScoringShape'
    BY <1>2 DEF scoreVars, ScoringInv, ScoringShape, ProbingShape, PublishingShape, RecordShape, WorldShape
  <2>4. WorkerPublishes' /\ ReportReplays'
    BY <1>2 DEF scoreVars, ScoringInv, WorkerPublishes, ReportReplays
  <2> QED
    BY <2>2, <2>3, <2>4 DEF ScoringInv
<1> QED
  BY <1>1, <1>2

\* "The exact scorecards the weight snapshot was built from" (the audit report): for any miners, challenges
\* and calls, and any number of failing writes, admin publications and restarts; and a challenge gets at
\* most one result per call and its canary's.
THEOREM ScoringSafetyHolds == ScoringSpec => []ScoringSafety
<1>1. ScoringInit => ScoringInv
  BY ScoringInvInit
<1>2. ScoringInv /\ [ScoringNext]_scoreVars => ScoringInv'
  BY ScoringInvKept
<1>3. ScoringInv => ScoringSafety
  <2> SUFFICES ASSUME ScoringInv PROVE ScoringSafety
    OBVIOUS
  <2>1. ASSUME NEW p \in Probe PROVE results[p] \in 0..(Cardinality(Submitter) + 1)
    BY AddingType DEF ScoringInv, ScoringShape, ProbingShape, ResultsBounded, OutFor
  <2>2. results \in [Probe -> 0..(Cardinality(Submitter) + 1)]
    BY <2>1 DEF ScoringInv, ScoringShape, ProbingShape
  <2>3. \A e \in Epoch : history[e] \subseteq Vector /\ report[e].done \in BOOLEAN
    BY DEF ScoringInv, ScoringShape, RecordShape
  <2>4. ScoringTypeOK
    BY <2>2, <2>3
    DEF ScoringInv, ScoringShape, ProbingShape, PublishingShape, RecordShape, WorldShape, Vector, ScoringTypeOK
  <2> QED
    BY <2>4 DEF ScoringInv, ScoringSafety
<1> QED
  BY <1>1, <1>2, <1>3, PTL DEF ScoringSpec

(***************************************************************************)
(* Flux: what the catalogue is filled with.                                *)
(***************************************************************************)

\* A set that holds 0 and with each number the next holds all of them.
LEMMA AllNumbers ==
  ASSUME NEW S, 0 \in S, \A n \in Nat : n \in S => n + 1 \in S
  PROVE  \A n \in Nat : n \in S
<1> DEFINE D == {n \in Nat : n \notin S}
           x == Min(D)
<1>1. SUFFICES ASSUME D # {} PROVE FALSE
  BY <1>1
<1>2. x \in D /\ \A y \in D : x <= y
  BY <1>1, MinOfNaturals
<1>3. x \in Nat /\ x \notin S
  BY <1>2
<1> HIDE DEF x
<1>4. x - 1 \in Nat /\ x - 1 + 1 = x
  BY <1>3
<1>5. x - 1 \notin D
  BY <1>2, <1>3, <1>4
<1> QED
  BY <1>3, <1>4, <1>5

\* The largest deficit is one of the deficits.
LEMMA GrownIs ==
  ASSUME public \subseteq Model, IsFiniteSet(Model),
         NEW rem \in [Model -> 0 .. MaxTarget], NEW have \in [Model -> Nat], MaxTarget \in Nat
  PROVE  /\ Grown(have, rem) \in [Model -> Nat]
         /\ \A m \in Model : Grown(have, rem)[m] = have[m] \/ rem[m] > 0
<1> DEFINE deficit(m) == rem[m] - have[m]
           short == {m \in public : deficit(m) > 0}
           next == CHOOSE m \in short : \A x \in short : deficit(m) >= deficit(x)
<1>1. CASE short = {}
  BY <1>1 DEF Grown
<1>2. CASE short # {}
  <2> DEFINE V == {deficit(m) : m \in short}
  <2>1. V \in SUBSET Nat /\ V # {} /\ \A v \in V : v <= MaxTarget
    <3>1. \A m \in short : deficit(m) \in Nat /\ deficit(m) <= MaxTarget
      OBVIOUS
    <3> HIDE DEF deficit, short
    <3> QED
      BY <1>2, <3>1
  <2>2. Max(V) \in V /\ \A v \in V : v <= Max(V)
    BY <2>1, MaxOfNaturals
  <2>3. PICK m \in short : deficit(m) = Max(V)
    BY <2>2
  <2>4. \A x \in short : deficit(m) >= deficit(x)
    <3>1. \A x \in short : deficit(x) \in V /\ deficit(x) \in Nat
      BY <2>1
    <3> HIDE DEF deficit, short, V
    <3> QED
      BY <2>2, <2>3, <3>1
  <2>5. next \in short
    <3> HIDE DEF deficit, short
    <3> QED
      BY <2>4
  <2>6. next \in Model /\ rem[next] > 0
    BY <2>5
  <2>7. Grown(have, rem) = [have EXCEPT ![next] = @ + 1]
    BY <1>2 DEF Grown
  <2> HIDE DEF next
  <2> QED
    BY <2>6, <2>7
<1> QED
  BY <1>1, <1>2

Kept(kept) == [m \in Model |-> IF m \in kept THEN 1 ELSE 0]

\* The steps of Filled exist, for any number of GPUs.
LEMMA StepsExist ==
  ASSUME NEW kept, NEW rem
  PROVE  \A room \in Nat : \E step : step = [c \in 0 .. room |-> IF c = 0 THEN Kept(kept) ELSE Grown(step[c - 1], rem)]
<1> DEFINE Good == {room \in Nat : \E step : step = [c \in 0 .. room |-> IF c = 0 THEN Kept(kept) ELSE Grown(step[c - 1], rem)]}
<1>1. 0 \in Good
  <2> DEFINE s == [c \in 0 .. 0 |-> Kept(kept)]
  <2>1. s = [c \in 0 .. 0 |-> IF c = 0 THEN Kept(kept) ELSE Grown(s[c - 1], rem)]
    OBVIOUS
  <2> QED
    BY <2>1
<1>2. ASSUME NEW n \in Nat, n \in Good PROVE n + 1 \in Good
  <2>1. PICK s : s = [c \in 0 .. n |-> IF c = 0 THEN Kept(kept) ELSE Grown(s[c - 1], rem)]
    BY <1>2
  <2> DEFINE t == [c \in 0 .. n + 1 |-> IF c = n + 1 THEN Grown(s[n], rem) ELSE s[c]]
             u == [c \in 0 .. n + 1 |-> IF c = 0 THEN Kept(kept) ELSE Grown(t[c - 1], rem)]
  <2>2. \A c \in 0 .. n : s[c] = IF c = 0 THEN Kept(kept) ELSE Grown(s[c - 1], rem)
    BY <2>1
  <2>3. \A c \in 0 .. n : t[c] = s[c]
    OBVIOUS
  <2>4. \A c \in 0 .. n + 1 : t[c] = u[c]
    <3> SUFFICES ASSUME NEW c \in 0 .. n + 1 PROVE t[c] = u[c]
      OBVIOUS
    <3>1. CASE c = n + 1
      <4>1. c - 1 = n /\ c # 0 /\ n \in 0 .. n
        BY <3>1
      <4>2. t[c] = Grown(s[n], rem) /\ u[c] = Grown(t[c - 1], rem)
        BY <3>1, <4>1
      <4> QED
        BY <2>3, <4>1, <4>2
    <3>2. CASE c # n + 1 /\ c # 0
      <4>1. c - 1 \in 0 .. n /\ c \in 0 .. n
        BY <3>2
      <4>2. t[c] = s[c] /\ u[c] = Grown(t[c - 1], rem)
        BY <2>3, <3>2, <4>1
      <4> QED
        BY <2>2, <2>3, <3>2, <4>1, <4>2
    <3>3. CASE c # n + 1 /\ c = 0
      <4>1. c \in 0 .. n
        BY <3>3
      <4>2. t[c] = s[c] /\ u[c] = Kept(kept)
        BY <2>3, <3>3, <4>1
      <4> QED
        BY <2>2, <3>3, <4>1, <4>2
    <3> QED
      BY <3>1, <3>2, <3>3
  <2>5. t = u
    <3>1. t = [c \in 0 .. n + 1 |-> t[c]] /\ u = [c \in 0 .. n + 1 |-> u[c]]
      OBVIOUS
    <3> HIDE DEF t, u
    <3> QED
      BY <2>4, <3>1
  <2> HIDE DEF t
  <2> QED
    BY <2>5
<1> HIDE DEF Good
<1>3. \A n \in Nat : n \in Good
  BY <1>1, <1>2, AllNumbers
<1> QED
  BY <1>3 DEF Good

\* Beyond what is kept, the catalogue is filled only with models that lack a replica.
LEMMA FilledIs ==
  ASSUME public \subseteq Model, IsFiniteSet(Model), MaxTarget \in Nat,
         NEW kept, NEW rem \in [Model -> 0 .. MaxTarget], NEW room \in Nat
  PROVE  /\ Filled(kept, rem, room) \subseteq Model
         /\ \A m \in Filled(kept, rem, room) : m \in kept \/ rem[m] > 0
<1> DEFINE step == CHOOSE step : step = [c \in 0 .. room |-> IF c = 0 THEN Kept(kept) ELSE Grown(step[c - 1], rem)]
<1>1. step = [c \in 0 .. room |-> IF c = 0 THEN Kept(kept) ELSE Grown(step[c - 1], rem)]
  BY StepsExist
<1>2. Filled(kept, rem, room) = {m \in Model : step[room][m] > 0}
  BY DEF Filled, Kept
<1> HIDE DEF step
<1> DEFINE S == {c \in Nat : c <= room => step[c] \in [Model -> Nat] /\ \A m \in Model : step[c][m] > 0 => m \in kept \/ rem[m] > 0}
<1>3. 0 \in S
  <2>1. step[0] = Kept(kept)
    BY <1>1
  <2> QED
    BY <2>1 DEF Kept
<1>4. ASSUME NEW n \in Nat, n \in S PROVE n + 1 \in S
  <2> SUFFICES ASSUME n + 1 <= room
               PROVE  step[n + 1] \in [Model -> Nat] /\ \A m \in Model : step[n + 1][m] > 0 => m \in kept \/ rem[m] > 0
    OBVIOUS
  <2>1. step[n] \in [Model -> Nat] /\ \A m \in Model : step[n][m] > 0 => m \in kept \/ rem[m] > 0
    BY <1>4
  <2>2. step[n + 1] = Grown(step[n], rem)
    <3>1. n + 1 \in 0 .. room /\ n + 1 # 0 /\ n + 1 - 1 = n
      OBVIOUS
    <3> QED
      BY <1>1, <3>1
  <2> QED
    BY <2>1, <2>2, GrownIs
<1> HIDE DEF S
<1>5. room \in S
  BY <1>3, <1>4, AllNumbers
<1> QED
  BY <1>2, <1>5 DEF S

(***************************************************************************)
(* Flux: the inductive invariant.                                          *)
(***************************************************************************)

LEMMA LargerIs == \A a, b \in Int : /\ Larger(a, b) \in {a, b} /\ Larger(a, b) >= a /\ Larger(a, b) >= b
                                   /\ Smaller(a, b) \in {a, b} /\ Smaller(a, b) <= a /\ Smaller(a, b) <= b
BY DEF Larger, Smaller

NodeSplit == [known : BOOLEAN, inf : 0 .. Gpus, rent : 0 .. Gpus, idle : 0 .. Gpus, serves : SUBSET Model]
RowState == {"none", "live", "failed", "terminated"}
PassRow == [pc : {"idle", "hotkeys", "nodes", "apply"}, hs : SUBSET FluxHotkey, ns : SUBSET FluxNode,
            rem : [Model -> 0 .. MaxTarget], n : FluxNode \cup {"none"}, kill : SUBSET Model, make : SUBSET Model]
RunRow == [pc : {"idle", "kill", "plan", "place"}, kill : SUBSET FluxNode, then : {"idle", "plan"},
           busy : SUBSET FluxNode, place : Seq(FluxNode), rep : 0 .. 2]

CatalogTypes ==
  /\ fx \in [FluxNode -> NodeSplit] /\ target \in [Model -> -1 .. MaxTarget] /\ wanted \in [Model -> 0 .. MaxTarget]
  /\ dep \in [FluxNode -> [Model -> RowState]] /\ cool \in [FluxHotkey -> [Model -> 0 .. Cooldown]]
  /\ public \subseteq Model /\ fresh \subseteq FluxNode /\ rented \in [FluxNode -> 0 .. Gpus]
  /\ pass \in PassRow /\ fluxEvents \in 0 .. MaxFluxEvents

RankTypes ==
  /\ rank \in [FluxNode -> [st : {"none", "live", "failed"}, rep : 0 .. 2]]
  /\ drun \in RunRow /\ (drun.pc = "place" => Len(drun.place) > 0)

PoolsAddUp == \A n \in FluxNode : fx[n].known => fx[n].inf + fx[n].rent + fx[n].idle = Gpus

InPass == pass.pc \in {"nodes", "apply"}

\* A pass works with targets, and splits only nodes it knows.
PassReady ==
  /\ pass.pc # "idle" => \A m \in Model : target[m] >= 0
  /\ InPass => \A n \in pass.ns : fx[n].known

\* What this node is about to be given.
Coming(m) == IF pass.pc = "apply" /\ m \in pass.make THEN 1 ELSE 0

\* While a hotkey's nodes are gone through, the deficit handed on and what is about to be
\* started are at most what the hotkey still lacks.
HandedOn(h) ==
  /\ pass.ns \subseteq NodesOf(h)
  /\ \A m \in Model : pass.rem[m] + Coming(m) <= Larger(0, target[m] - LiveCount(h, m))
  /\ pass.pc = "apply" => pass.n \in NodesOf(h) /\ \A m \in pass.make : dep[pass.n][m] # "live"
DeficitHandedOn == InPass => \E h \in FluxHotkey : HandedOn(h)

FluxInv == CatalogTypes /\ RankTypes /\ PoolsAddUp /\ PassReady /\ DeficitHandedOn

LEMMA FluxInvInit == FluxInit => FluxInv
<1> SUFFICES ASSUME FluxInit PROVE FluxInv
  OBVIOUS
<1> USE FluxAssumption
<1>1. NoState \in NodeSplit /\ ~NoState.known
  BY DEF NoState, NodeSplit
<1>2. NoPass \in PassRow /\ NoPass.pc = "idle"
  BY DEF NoPass, PassRow
<1>3. NoRun \in RunRow /\ NoRun.pc = "idle"
  BY DEF NoRun, RunRow
<1>4. NoRow \in [st : {"none", "live", "failed"}, rep : 0 .. 2]
  BY DEF NoRow
<1>5. CatalogTypes
  BY <1>1, <1>2 DEF FluxInit, CatalogTypes, RowState
<1>6. RankTypes
  BY <1>3, <1>4 DEF FluxInit, RankTypes
<1>7. PoolsAddUp
  BY <1>1 DEF FluxInit, PoolsAddUp
<1>8. PassReady /\ DeficitHandedOn
  BY <1>2 DEF FluxInit, PassReady, DeficitHandedOn, InPass
<1> QED
  BY <1>5, <1>6, <1>7, <1>8 DEF FluxInv

\* How many replicas of a model a hotkey runs, as its rows change.
LiveSet(h, m) == {n \in NodesOf(h) : dep[n][m] = "live"}

LEMMA LiveCounts ==
  /\ \A h, m : LiveCount(h, m) = Cardinality(LiveSet(h, m)) /\ IsFiniteSet(LiveSet(h, m)) /\ LiveCount(h, m) \in Nat
  /\ (\A h, m : LiveCount(h, m) = Cardinality(LiveSet(h, m)) /\ IsFiniteSet(LiveSet(h, m)) /\ LiveCount(h, m) \in Nat)'
<1>1. \A h : IsFiniteSet(NodesOf(h))
  BY FluxAssumption, FS_Subset DEF NodesOf
<1>2. \A h, m : IsFiniteSet(LiveSet(h, m)) /\ IsFiniteSet(LiveSet(h, m)')
  <2> SUFFICES ASSUME NEW h, NEW m PROVE IsFiniteSet(LiveSet(h, m)) /\ IsFiniteSet(LiveSet(h, m)')
    OBVIOUS
  <2>1. LiveSet(h, m) \subseteq NodesOf(h) /\ LiveSet(h, m)' \subseteq NodesOf(h)
    BY DEF LiveSet, NodesOf
  <2> QED
    BY <1>1, <2>1, FS_Subset
<1>3. \A h, m : LiveCount(h, m) = Cardinality(LiveSet(h, m)) /\ LiveCount(h, m)' = Cardinality(LiveSet(h, m)')
  BY DEF LiveCount, LiveSet
<1>4. \A h, m : Cardinality(LiveSet(h, m)) \in Nat /\ Cardinality(LiveSet(h, m)') \in Nat
  BY <1>2, FS_CardinalityType
<1> QED
  BY <1>2, <1>3, <1>4

LEMMA FewerLive ==
  ASSUME NEW h, NEW m, LiveSet(h, m)' \subseteq LiveSet(h, m)
  PROVE  LiveCount(h, m)' <= LiveCount(h, m)
<1>1. IsFiniteSet(LiveSet(h, m)) /\ LiveCount(h, m) = Cardinality(LiveSet(h, m)) /\ LiveCount(h, m)' = Cardinality(LiveSet(h, m)')
  BY LiveCounts
<1> QED
  BY <1>1, FS_Subset

LEMMA OneMoreLive ==
  ASSUME NEW h, NEW m, NEW n, LiveSet(h, m)' \subseteq LiveSet(h, m) \cup {n}
  PROVE  LiveCount(h, m)' <= LiveCount(h, m) + 1
<1>1. IsFiniteSet(LiveSet(h, m)) /\ LiveCount(h, m) = Cardinality(LiveSet(h, m)) /\ LiveCount(h, m)' = Cardinality(LiveSet(h, m)')
      /\ LiveCount(h, m) \in Nat /\ LiveCount(h, m)' \in Nat
  BY LiveCounts
<1>2. IsFiniteSet(LiveSet(h, m) \cup {n}) /\ (Cardinality(LiveSet(h, m) \cup {n}) = Cardinality(LiveSet(h, m))
                                          \/ Cardinality(LiveSet(h, m) \cup {n}) = Cardinality(LiveSet(h, m)) + 1)
  BY <1>1, FS_AddElement
<1>3. Cardinality(LiveSet(h, m)') <= Cardinality(LiveSet(h, m) \cup {n})
  BY <1>2, FS_Subset
<1>4. Cardinality(LiveSet(h, m) \cup {n}) \in Nat
  BY <1>2, FS_CardinalityType
<1> QED
  BY <1>1, <1>2, <1>3, <1>4

\* A row that failed leaves more to be started.
LEMMA NoneStarted ==
  ASSUME FluxInv, UNCHANGED <<pass, target>>,
         \A n \in FluxNode, m \in Model : dep'[n][m] = "live" => dep[n][m] = "live"
  PROVE  DeficitHandedOn'
<1> SUFFICES ASSUME InPass PROVE \E h \in FluxHotkey : HandedOn(h)'
  BY DEF DeficitHandedOn, InPass
<1>1. PICK h \in FluxHotkey : HandedOn(h)
  BY DEF FluxInv, DeficitHandedOn
<1>2. ASSUME NEW m \in Model PROVE pass.rem[m] + Coming(m) <= Larger(0, target[m] - LiveCount(h, m)')
  <2>1. LiveSet(h, m)' \subseteq LiveSet(h, m)
    BY DEF LiveSet, NodesOf
  <2>2. LiveCount(h, m)' <= LiveCount(h, m) /\ LiveCount(h, m)' \in Nat /\ LiveCount(h, m) \in Nat
    BY <2>1, FewerLive, LiveCounts
  <2>3. target[m] \in Int /\ pass.rem[m] \in Nat
    BY FluxAssumption DEF FluxInv, CatalogTypes, PassRow
  <2>4. pass.rem[m] + Coming(m) <= Larger(0, target[m] - LiveCount(h, m)) /\ Coming(m) \in Nat
    BY <1>1 DEF HandedOn, Coming
  <2> HIDE DEF LiveCount, Coming
  <2> QED
    BY <2>2, <2>3, <2>4 DEF Larger
<1>3. \A m \in Model : Coming(m)' = Coming(m)
  BY DEF Coming
<1>4. pass.pc = "apply" => pass.n \in NodesOf(h) /\ \A m \in pass.make : dep'[pass.n][m] # "live"
  <2>1. pass.make \subseteq Model /\ NodesOf(h) \subseteq FluxNode
    BY DEF FluxInv, CatalogTypes, PassRow, NodesOf
  <2> QED
    BY <1>1, <2>1 DEF HandedOn
<1> QED
  BY <1>1, <1>2, <1>3, <1>4 DEF HandedOn, NodesOf

\* Nothing is started but by a pass that writes what it decided.
NoStart == \A n \in FluxNode, m \in Model : dep'[n][m] = "live" => dep[n][m] = "live"

\* What a step that starts no replica is: the deficit stays handed on and nothing is asked.
Started(h, m) == \E n \in NodesOf(h) : dep[n][m] # "live" /\ dep'[n][m] = "live"
OnlyDeficit == \A h \in FluxHotkey, m \in Model : Started(h, m) => LiveCount(h, m) < target[m]

LEMMA NothingAsked == NoStart => OnlyDeficit
BY DEF NoStart, OnlyDeficit, Started, NodesOf

\* What changes around a pass.
Around == \/ ReplicaFails \/ DemandMoves \/ CatalogEdited \/ NodeGoesStale \/ NodeReturns
          \/ RentalStarts \/ RentalEnds \/ CooldownPasses

LEMMA AroundKeeps ==
  ASSUME FluxInv, Around
  PROVE  FluxInv' /\ NoStart
<1> USE FluxAssumption
<1>1. UNCHANGED <<fx, target, pass, rank, drun>>
  BY DEF Around, ReplicaFails, DemandMoves, CatalogEdited, NodeGoesStale, NodeReturns, RentalStarts, RentalEnds,
         CooldownPasses, distributed
<1>2. /\ dep' \in [FluxNode -> [Model -> RowState]] /\ NoStart
  <2>1. CASE ReplicaFails
    <3>1. PICK n \in FluxNode, m \in Model : dep' = [dep EXCEPT ![n][m] = "failed"]
      BY <2>1 DEF ReplicaFails
    <3> QED
      BY <3>1 DEF FluxInv, CatalogTypes, RowState, NoStart
  <2>2. CASE UNCHANGED dep
    BY <2>2 DEF FluxInv, CatalogTypes, NoStart
  <2> QED
    BY <2>1, <2>2 DEF Around, DemandMoves, CatalogEdited, NodeGoesStale, NodeReturns, RentalStarts, RentalEnds,
         CooldownPasses
<1>3. cool' \in [FluxHotkey -> [Model -> 0 .. Cooldown]]
  <2>1. CASE ReplicaFails
    <3>1. PICK n \in FluxNode, m \in Model : cool' = [cool EXCEPT ![NodeOwner[n]][m] = Cooldown]
      BY <2>1 DEF ReplicaFails
    <3> QED
      BY <3>1 DEF FluxInv, CatalogTypes
  <2>2. CASE CooldownPasses
    <3>1. cool' = [h \in FluxHotkey |-> [m \in Model |-> Larger(0, cool[h][m] - 1)]]
      BY <2>2 DEF CooldownPasses
    <3>2. \A h \in FluxHotkey, m \in Model : cool[h][m] \in 0 .. Cooldown
      BY DEF FluxInv, CatalogTypes
    <3>3. \A x \in 0 .. Cooldown : Larger(0, x - 1) \in 0 .. Cooldown
      BY DEF Larger
    <3> QED
      BY <3>1, <3>2, <3>3
  <2>3. CASE UNCHANGED cool
    BY <2>3 DEF FluxInv, CatalogTypes
  <2> QED
    BY <2>1, <2>2, <2>3 DEF Around, DemandMoves, CatalogEdited, NodeGoesStale, NodeReturns, RentalStarts, RentalEnds
<1>4. wanted' \in [Model -> 0 .. MaxTarget]
  <2>1. CASE DemandMoves
    BY <2>1 DEF DemandMoves, FluxInv, CatalogTypes
  <2>2. CASE UNCHANGED wanted
    BY <2>2 DEF FluxInv, CatalogTypes
  <2> QED
    BY <2>1, <2>2 DEF Around, ReplicaFails, CatalogEdited, NodeGoesStale, NodeReturns, RentalStarts, RentalEnds, CooldownPasses
<1>5. public' \subseteq Model /\ fresh' \subseteq FluxNode
  BY DEF Around, ReplicaFails, DemandMoves, CatalogEdited, NodeGoesStale, NodeReturns, RentalStarts, RentalEnds,
         CooldownPasses, FluxInv, CatalogTypes
<1>6. rented' \in [FluxNode -> 0 .. Gpus]
  <2>1. CASE RentalStarts
    <3>1. PICK n \in FluxNode : rented[n] + Cardinality(LiveOn(n)) < Gpus /\ rented' = [rented EXCEPT ![n] = @ + 1]
      BY <2>1 DEF RentalStarts
    <3>2. Cardinality(LiveOn(n)) \in Nat
      BY FS_Subset, FS_CardinalityType DEF LiveOn
    <3>3. rented[n] + 1 \in 0 .. Gpus
      BY <3>1, <3>2 DEF FluxInv, CatalogTypes
    <3> QED
      BY <3>1, <3>3 DEF FluxInv, CatalogTypes
  <2>2. CASE RentalEnds
    BY <2>2 DEF RentalEnds, FluxInv, CatalogTypes
  <2>3. CASE UNCHANGED rented
    BY <2>3 DEF FluxInv, CatalogTypes
  <2> QED
    BY <2>1, <2>2, <2>3 DEF Around, ReplicaFails, DemandMoves, CatalogEdited, NodeGoesStale, NodeReturns, CooldownPasses
<1>7. fluxEvents' \in 0 .. MaxFluxEvents
  <2>1. Happens \/ Quiet
    BY DEF Around, ReplicaFails, DemandMoves, CatalogEdited, NodeGoesStale, NodeReturns, RentalStarts, RentalEnds,
         CooldownPasses
  <2> QED
    BY <2>1 DEF Happens, Quiet, FluxInv, CatalogTypes
<1>8. CatalogTypes'
  BY <1>1, <1>2, <1>3, <1>4, <1>5, <1>6, <1>7 DEF FluxInv, CatalogTypes
<1>9. RankTypes' /\ PoolsAddUp' /\ PassReady'
  BY <1>1 DEF FluxInv, RankTypes, PoolsAddUp, PassReady, InPass
<1>10. DeficitHandedOn'
  BY <1>1, <1>2, NoneStarted DEF NoStart
<1> QED
  BY <1>2, <1>8, <1>9, <1>10 DEF FluxInv

\* A run that is given what it places.
LEMMA PlaceGiven ==
  ASSUME NEW Q, NEW r \in [pc : {"idle", "kill", "plan", "place"}, kill : SUBSET FluxNode, then : {"idle", "plan"},
                           busy : SUBSET FluxNode, place : Q, rep : 0 .. 2],
         NEW q \in Q
  PROVE  LET R == [pc : {"idle", "kill", "plan", "place"}, kill : SUBSET FluxNode, then : {"idle", "plan"},
                   busy : SUBSET FluxNode, place : Q, rep : 0 .. 2]
             s == [r EXCEPT !.place = q]
         IN /\ s \in R /\ s.place = q
            /\ \A v \in 0 .. 2 : LET t == [r EXCEPT !.pc = "place", !.place = q, !.rep = v] IN t \in R /\ t.place = q
OBVIOUS

LEMMA RestGiven ==
  ASSUME NEW r \in RunRow, NEW q \in Seq(FluxNode)
  PROVE  [r EXCEPT !.place = q] \in RunRow /\ [r EXCEPT !.place = q].place = q
<1> DEFINE Q == Seq(FluxNode)
<1>1. r \in [pc : {"idle", "kill", "plan", "place"}, kill : SUBSET FluxNode, then : {"idle", "plan"},
             busy : SUBSET FluxNode, place : Q, rep : 0 .. 2] /\ q \in Q
  BY DEF RunRow
<1> HIDE DEF Q
<1>2. LET s == [r EXCEPT !.place = q]
      IN s \in [pc : {"idle", "kill", "plan", "place"}, kill : SUBSET FluxNode, then : {"idle", "plan"},
                busy : SUBSET FluxNode, place : Q, rep : 0 .. 2] /\ s.place = q
  BY <1>1
<1> QED
  BY <1>2 DEF Q, RunRow

\* The replicas that span nodes leave the catalogue's alone.
LEMMA DistributedKeeps ==
  ASSUME FluxInv, DistributedSteps \/ RankFails \/ BigModelEdited
  PROVE  FluxInv' /\ NoStart
<1> USE FluxAssumption
<1>1. UNCHANGED <<fx, target, dep, cool, wanted, public, fresh, rented, pass>>
  BY DEF DistributedSteps, DistributedReads, TeardownRank, PlanReplica, CreateRank, RankFails, BigModelEdited, single
<1>2. fluxEvents' \in 0 .. MaxFluxEvents
  <2>1. Happens \/ Quiet
    BY DEF DistributedSteps, DistributedReads, TeardownRank, PlanReplica, CreateRank, RankFails, BigModelEdited
  <2> QED
    BY <2>1 DEF Happens, Quiet, FluxInv, CatalogTypes
<1>3. CatalogTypes'
  BY <1>1, <1>2 DEF FluxInv, CatalogTypes
<1>4. PoolsAddUp' /\ PassReady' /\ NoStart
  BY <1>1 DEF FluxInv, PoolsAddUp, PassReady, InPass, NoStart
<1>5. DeficitHandedOn'
  BY <1>1, <1>4, NoneStarted DEF NoStart
<1>6. NoRun \in RunRow /\ NoRun.pc = "idle"
  BY DEF NoRun, RunRow
<1>7. drun \in RunRow /\ rank \in [FluxNode -> [st : {"none", "live", "failed"}, rep : 0 .. 2]]
  BY DEF FluxInv, RankTypes
<1>8. RankTypes'
  <2>1. CASE DistributedReads
    <3> DEFINE kill == IF bigListed THEN {n \in Ranked : ~Whole(rank[n].rep)} ELSE Ranked
               then == IF bigListed /\ ~\E r \in Replicas : Whole(r) THEN "plan" ELSE "idle"
    <3>1. kill \subseteq FluxNode /\ then \in {"idle", "plan"} /\ Ranked \subseteq FluxNode
      BY DEF Ranked
    <3>2. UNCHANGED rank /\ drun' = [NoRun EXCEPT !.pc = IF kill # {} THEN "kill" ELSE then,
                                                  !.kill = kill, !.then = then, !.busy = Ranked]
      BY <2>1 DEF DistributedReads
    <3> HIDE DEF kill, then
    <3>3. drun' \in RunRow /\ drun'.pc # "place"
      BY <1>6, <3>1, <3>2 DEF RunRow
    <3> QED
      BY <1>7, <3>2, <3>3 DEF RankTypes
  <2>2. CASE TeardownRank
    <3>1. PICK n \in drun.kill : /\ rank' = [rank EXCEPT ![n] = NoRow]
                                 /\ drun' = [drun EXCEPT !.kill = @ \ {n}, !.pc = IF drun.kill = {n} THEN drun.then ELSE "kill"]
      BY <2>2 DEF TeardownRank, Retired
    <3>2. NoRow \in [st : {"none", "live", "failed"}, rep : 0 .. 2]
      BY DEF NoRow
    <3>3. drun' \in RunRow /\ drun'.pc # "place"
      BY <1>7, <3>1 DEF RunRow
    <3> QED
      BY <1>7, <3>1, <3>2, <3>3 DEF RankTypes
  <2>3. CASE PlanReplica
    <3>1. CASE drun' = NoRun
      BY <1>6, <1>7, <2>3, <3>1 DEF RankTypes, PlanReplica
    <3>2. ASSUME NEW order \in [1 .. RankCount -> FluxNode],
                 drun' = [NoRun EXCEPT !.pc = "place", !.place = order, !.rep = IF 1 \in Replicas THEN 2 ELSE 1]
          PROVE  RankTypes'
      <4>1. order \in Seq(FluxNode) /\ Len(order) = RankCount
        OBVIOUS
      <4>2. drun' \in RunRow /\ drun'.place = order
        <5>1. (IF 1 \in Replicas THEN 2 ELSE 1) \in 0 .. 2
          OBVIOUS
        <5> QED
          BY <1>6, <3>2, <4>1, <5>1, PlaceGiven DEF RunRow
      <4>3. Len(drun'.place) > 0
        BY <4>1, <4>2
      <4> QED
        BY <1>7, <2>3, <4>2, <4>3 DEF RankTypes, PlanReplica
    <3> QED
      BY <2>3, <3>1, <3>2 DEF PlanReplica
  <2>4. CASE CreateRank
    <3>1. drun.pc = "place" /\ Len(drun.place) > 0 /\ drun.place \in Seq(FluxNode) /\ drun.rep \in 0 .. 2
      BY <1>7, <2>4 DEF CreateRank, FluxInv, RankTypes, RunRow
    <3> DEFINE n == Head(drun.place)
    <3>2. /\ rank' = [rank EXCEPT ![n] = [st |-> "live", rep |-> drun.rep]]
          /\ drun' = IF Len(drun.place) = 1 THEN NoRun ELSE [drun EXCEPT !.place = Tail(drun.place)]
      BY <2>4 DEF CreateRank
    <3>3. Tail(drun.place) \in Seq(FluxNode) /\ Len(Tail(drun.place)) = Len(drun.place) - 1
      BY <3>1
    <3> HIDE DEF n
    <3>4. rank' \in [FluxNode -> [st : {"none", "live", "failed"}, rep : 0 .. 2]]
      BY <1>7, <3>1, <3>2
    <3>5. CASE Len(drun.place) = 1
      BY <1>6, <3>2, <3>4, <3>5 DEF RankTypes
    <3>6. CASE Len(drun.place) # 1
      <4> DEFINE rest == Tail(drun.place)
      <4>0. rest \in Seq(FluxNode) /\ drun' = [drun EXCEPT !.place = rest]
        BY <3>2, <3>3, <3>6
      <4> HIDE DEF rest
      <4>1. drun' \in RunRow /\ drun'.place = rest
        BY <1>7, <4>0, RestGiven
      <4>2. Len(rest) > 0
        <5> DEFINE k == Len(drun.place)
        <5>1. k \in Nat /\ k > 0 /\ k # 1 /\ Len(rest) = k - 1
          BY <3>1, <3>3, <3>6 DEF rest
        <5> HIDE DEF k
        <5> QED
          BY <5>1
      <4> QED
        BY <3>4, <4>1, <4>2 DEF RankTypes
    <3> QED
      BY <3>5, <3>6
  <2>5. CASE RankFails
    BY <1>7, <2>5 DEF RankFails, FluxInv, RankTypes, Ranked
  <2>6. CASE BigModelEdited
    BY <2>6 DEF BigModelEdited, FluxInv, RankTypes
  <2> QED
    BY <2>1, <2>2, <2>3, <2>4, <2>5, <2>6 DEF DistributedSteps
<1> QED
  BY <1>3, <1>4, <1>5, <1>8 DEF FluxInv

\* A restart forgets the pass.
LEMMA RestartKeeps ==
  ASSUME FluxInv, FluxRestarts
  PROVE  FluxInv' /\ NoStart
<1> USE FluxAssumption
<1>1. NoState \in NodeSplit /\ ~NoState.known
  BY DEF NoState, NodeSplit
<1>2. NoPass \in PassRow /\ NoPass.pc = "idle"
  BY DEF NoPass, PassRow
<1>3. NoRun \in RunRow /\ NoRun.pc = "idle"
  BY DEF NoRun, RunRow
<1>4. CatalogTypes'
  BY <1>1, <1>2 DEF FluxRestarts, Happens, FluxInv, CatalogTypes
<1>5. RankTypes'
  BY <1>3 DEF FluxRestarts, FluxInv, RankTypes
<1>6. PoolsAddUp'
  BY <1>1 DEF FluxRestarts, PoolsAddUp
<1>7. PassReady' /\ DeficitHandedOn' /\ NoStart
  BY <1>2 DEF FluxRestarts, PassReady, DeficitHandedOn, InPass, NoStart
<1> QED
  BY <1>4, <1>5, <1>6, <1>7 DEF FluxInv

\* What a node is split into, once demand has said what it needs: idle GPUs move, none is lost.
LEMMA SplitIs ==
  ASSUME NEW s \in NodeSplit, s.inf + s.rent + s.idle = Gpus, NEW flex \in 0 .. FlexPool
  PROVE  LET t == Split(s, flex) IN t \in NodeSplit /\ t.known = s.known /\ t.inf + t.rent + t.idle = Gpus /\ t.serves = s.serves
<1> USE FluxAssumption
<1> DEFINE add == Smaller(Larger(0, InferenceFloor + flex - s.inf), s.idle)
           left == s.idle - add
           more == Smaller(Larger(0, RentalFloor + FlexPool - flex - s.rent), left)
<1>1. s.inf \in 0 .. Gpus /\ s.rent \in 0 .. Gpus /\ s.idle \in 0 .. Gpus /\ Gpus \in Nat
  BY DEF NodeSplit
<1>2. FlexPool \in Nat /\ flex \in Nat
  <2>1. FlexPool \in Nat
    BY DEF FlexPool, Larger, InferenceFloor, RentalFloor
  <2> QED
    BY <2>1
<1>3. add \in Nat /\ add <= s.idle
  BY <1>1, <1>2 DEF Larger, Smaller, InferenceFloor
<1>4. left \in Nat
  BY <1>1, <1>3
<1> HIDE DEF add
<1>5. more \in Nat /\ more <= left
  BY <1>1, <1>2, <1>4 DEF Larger, Smaller, RentalFloor
<1> HIDE DEF more
<1>6. Split(s, flex) = [s EXCEPT !.inf = @ + add, !.rent = @ + more, !.idle = left - more]
  BY DEF Split, add, more
<1>7. s.inf + add \in 0 .. Gpus /\ s.rent + more \in 0 .. Gpus /\ left - more \in 0 .. Gpus
      /\ (s.inf + add) + (s.rent + more) + (left - more) = Gpus
  BY <1>1, <1>3, <1>4, <1>5
<1> QED
  BY <1>6, <1>7 DEF NodeSplit

\* A pass starts: nodes are bootstrapped from their rows, targets set from demand.
LEMMA PassStartsKeeps ==
  ASSUME FluxInv, PassStarts
  PROVE  FluxInv' /\ NoStart
<1> USE FluxAssumption
<1>1. /\ fx' = [n \in FluxNode |-> CASE n \notin fresh -> NoState
                                     [] n \in fresh /\ ~fx[n].known -> Bootstrapped(n)
                                     [] OTHER -> fx[n]]
      /\ target' = ReplicaTargets
      /\ pass' = [NoPass EXCEPT !.pc = "hotkeys", !.hs = {NodeOwner[n] : n \in fresh}]
      /\ UNCHANGED <<fluxEvents, dep, cool, wanted, public, fresh, rented, rank, drun>>
  BY DEF PassStarts, Quiet, distributed
<1>2. \A n \in FluxNode : Bootstrapped(n) \in NodeSplit
                          /\ Bootstrapped(n).inf + Bootstrapped(n).rent + Bootstrapped(n).idle = Gpus
  <2> SUFFICES ASSUME NEW n \in FluxNode
               PROVE  Bootstrapped(n) \in NodeSplit /\ Bootstrapped(n).inf + Bootstrapped(n).rent + Bootstrapped(n).idle = Gpus
    OBVIOUS
  <2> DEFINE gone == Smaller(Gpus, rented[n] + Cardinality(LiveOn(n)))
  <2>1. Cardinality(LiveOn(n)) \in Nat
    BY FS_Subset, FS_CardinalityType DEF LiveOn
  <2>2. rented[n] \in Nat
    BY DEF FluxInv, CatalogTypes
  <2>3. gone \in 0 .. Gpus
    BY <2>1, <2>2 DEF Smaller
  <2>4. Bootstrapped(n) = [NoState EXCEPT !.known = TRUE, !.rent = Gpus - (Gpus - gone), !.idle = Gpus - gone]
    BY DEF Bootstrapped
  <2> HIDE DEF gone
  <2>5. Gpus - (Gpus - gone) = gone /\ Gpus - gone \in 0 .. Gpus /\ 0 + gone + (Gpus - gone) = Gpus /\ 0 \in 0 .. Gpus
    BY <2>3
  <2> DEFINE left == Gpus - gone
  <2>6. Bootstrapped(n) = [known |-> TRUE, inf |-> 0, rent |-> gone, idle |-> left, serves |-> {}]
    BY <2>4, <2>5 DEF NoState
  <2> HIDE DEF left
  <2>7. left \in 0 .. Gpus /\ 0 + gone + left = Gpus
    BY <2>5 DEF left
  <2> QED
    BY <2>3, <2>5, <2>6, <2>7 DEF NodeSplit
<1>3. \A n \in FluxNode : fx'[n] = NoState \/ fx'[n] = Bootstrapped(n) \/ fx'[n] = fx[n]
  BY <1>1
<1>4. NoState \in NodeSplit /\ ~NoState.known
  BY DEF NoState, NodeSplit
<1>5. fx' \in [FluxNode -> NodeSplit]
  <2>1. fx' = [n \in FluxNode |-> fx'[n]]
    BY <1>1
  <2>2. \A n \in FluxNode : fx'[n] \in NodeSplit
    BY <1>2, <1>3, <1>4 DEF FluxInv, CatalogTypes
  <2> QED
    BY <2>1, <2>2
<1>6. PoolsAddUp'
  BY <1>2, <1>3, <1>4 DEF FluxInv, PoolsAddUp
<1>7. target' \in [Model -> -1 .. MaxTarget] /\ \A m \in Model : target'[m] >= 0
  <2>1. \A m \in Model : wanted[m] \in 0 .. MaxTarget
    BY DEF FluxInv, CatalogTypes
  <2> QED
    BY <1>1, <2>1 DEF ReplicaTargets
<1>8. pass' \in PassRow /\ pass'.pc = "hotkeys"
  <2>1. {NodeOwner[n] : n \in fresh} \subseteq FluxHotkey
    BY DEF FluxInv, CatalogTypes
  <2>2. NoPass \in PassRow
    BY DEF NoPass, PassRow
  <2> QED
    BY <1>1, <2>1, <2>2 DEF PassRow
<1>9. CatalogTypes' /\ RankTypes'
  BY <1>1, <1>5, <1>7, <1>8 DEF FluxInv, CatalogTypes, RankTypes
<1>10. PassReady' /\ DeficitHandedOn' /\ NoStart
  BY <1>1, <1>7, <1>8 DEF PassReady, DeficitHandedOn, InPass, NoStart
<1> QED
  BY <1>6, <1>9, <1>10 DEF FluxInv

\* The admin's call: after the first pass there are targets.
LEMMA AdminRebalanceKeeps ==
  ASSUME FluxInv, EarlyAdmin = FALSE, AdminRebalance
  PROVE  FluxInv' /\ NoStart
<1>1. /\ \A m \in Model : target[m] >= 0
      /\ UNCHANGED <<fx, target, dep, cool, wanted, public, fresh, rented, rank, drun>>
      /\ fluxEvents < MaxFluxEvents /\ fluxEvents' = fluxEvents + 1
  BY DEF AdminRebalance, Happens, distributed
<1>2. PICK h \in FluxHotkey : pass' = [NoPass EXCEPT !.pc = "hotkeys", !.hs = {h}]
  BY DEF AdminRebalance
<1>3. NoPass \in PassRow
  BY FluxAssumption DEF NoPass, PassRow
<1>4. pass' \in PassRow /\ pass'.pc = "hotkeys"
  BY <1>2, <1>3 DEF PassRow
<1>5. fluxEvents' \in 0 .. MaxFluxEvents
  BY <1>1, FluxAssumption DEF FluxInv, CatalogTypes
<1>6. CatalogTypes' /\ RankTypes' /\ PoolsAddUp'
  BY <1>1, <1>4, <1>5 DEF FluxInv, CatalogTypes, RankTypes, PoolsAddUp
<1> QED
  BY <1>1, <1>4, <1>6 DEF FluxInv, PassReady, DeficitHandedOn, InPass, NoStart

\* A hotkey's turn: what is handed on is what the hotkey lacks.
LEMMA HotkeyStartsKeeps ==
  ASSUME FluxInv, NEW h \in FluxHotkey, HotkeyStarts(h)
  PROVE  FluxInv' /\ NoStart
<1> USE FluxAssumption
<1> DEFINE rem == [m \in Model |-> Larger(0, target[m] - LiveCount(h, m))]
           ns == {n \in NodesOf(h) : fx[n].known}
<1>1. /\ pass.pc = "hotkeys"
      /\ pass' = [pass EXCEPT !.pc = "nodes", !.hs = @ \ {h}, !.ns = ns, !.rem = rem]
      /\ UNCHANGED <<fluxEvents, fx, target, dep, cool, wanted, public, fresh, rented, rank, drun>>
  BY DEF HotkeyStarts, Quiet, distributed
<1>2. \A m \in Model : LiveCount(h, m) \in Nat /\ target[m] \in -1 .. MaxTarget /\ rem[m] = Larger(0, target[m] - LiveCount(h, m))
  BY LiveCounts DEF FluxInv, CatalogTypes
<1>3. rem \in [Model -> 0 .. MaxTarget]
  <2> SUFFICES ASSUME NEW m \in Model PROVE Larger(0, target[m] - LiveCount(h, m)) \in 0 .. MaxTarget
    OBVIOUS
  <2> QED
    BY <1>2 DEF Larger
<1>4. ns \subseteq FluxNode /\ ns \subseteq NodesOf(h) /\ \A n \in ns : fx[n].known
  BY DEF NodesOf
<1> HIDE DEF rem, ns
<1>5. pass' \in PassRow /\ pass'.pc = "nodes" /\ pass'.ns = ns /\ pass'.rem = rem
  BY <1>1, <1>3, <1>4 DEF FluxInv, CatalogTypes, PassRow
<1>6. CatalogTypes' /\ RankTypes' /\ PoolsAddUp' /\ NoStart
  BY <1>1, <1>5 DEF FluxInv, CatalogTypes, RankTypes, PoolsAddUp, NoStart
<1>7. PassReady'
  BY <1>1, <1>4, <1>5 DEF FluxInv, PassReady, InPass
<1>8. HandedOn(h)'
  <2>1. \A m \in Model : Coming(m)' = 0
    BY <1>5 DEF Coming
  <2>2. \A m \in Model : LiveCount(h, m)' = LiveCount(h, m)
    BY <1>1 DEF LiveCount, NodesOf
  <2>3. \A m \in Model : rem[m] \in Nat /\ rem[m] + 0 <= Larger(0, target[m] - LiveCount(h, m))
    BY <1>2, <1>3
  <2> HIDE DEF Coming
  <2> QED
    BY <1>1, <1>4, <1>5, <2>1, <2>2, <2>3 DEF HandedOn, NodesOf
<1> QED
  BY <1>6, <1>7, <1>8 DEF FluxInv, DeficitHandedOn

LEMMA HotkeyEndsKeeps ==
  ASSUME FluxInv, HotkeyEnds
  PROVE  FluxInv' /\ NoStart
<1>1. /\ pass.pc = "nodes" /\ pass' = (IF pass.hs = {} THEN NoPass ELSE [pass EXCEPT !.pc = "hotkeys"])
      /\ UNCHANGED <<fluxEvents, fx, target, dep, cool, wanted, public, fresh, rented, rank, drun>>
  BY DEF HotkeyEnds, Quiet, distributed
<1>2. NoPass \in PassRow /\ NoPass.pc = "idle"
  BY FluxAssumption DEF NoPass, PassRow
<1>3. pass' \in PassRow /\ pass'.pc \in {"idle", "hotkeys"}
  BY <1>1, <1>2 DEF FluxInv, CatalogTypes, PassRow
<1>4. CatalogTypes' /\ RankTypes' /\ PoolsAddUp' /\ NoStart
  BY <1>1, <1>3 DEF FluxInv, CatalogTypes, RankTypes, PoolsAddUp, NoStart
<1>5. \A m \in Model : target[m] >= 0
  BY <1>1 DEF FluxInv, PassReady
<1> QED
  BY <1>1, <1>3, <1>4, <1>5 DEF FluxInv, PassReady, DeficitHandedOn, InPass

\* A node is decided on: what it is to start comes out of the deficit handed on.
LEMMA RebalanceNodeKeeps ==
  ASSUME FluxInv, NEW n \in FluxNode, RebalanceNode(n)
  PROVE  FluxInv' /\ NoStart
<1> USE FluxAssumption
<1>1. PICK flex \in 0 .. FlexPool, kept \in SUBSET (LiveOn(n) \cap public) :
        LET s == Split(fx[n], flex)
            pins == LiveOn(n) \cap public
            known == \A m \in Model : target[m] >= 0
            models == Assigned(kept, pass.rem, s.inf - Cardinality(kept), known)
        IN /\ Cardinality(kept) = Smaller(s.inf, Cardinality(pins))
           /\ fx' = [fx EXCEPT ![n] = [s EXCEPT !.serves = models]]
           /\ pass' = [pass EXCEPT !.pc = "apply", !.ns = @ \ {n}, !.n = n,
                         !.rem = LeftOver(@, models \ LiveOn(n)),
                         !.kill = LiveOn(n) \ models,
                         !.make = {m \in models \ Serving(n) : cool[NodeOwner[n]][m] = 0}]
  BY DEF RebalanceNode
<1> DEFINE s == Split(fx[n], flex)
           models == Filled(kept, pass.rem, s.inf - Cardinality(kept))
           rem == LeftOver(pass.rem, models \ LiveOn(n))
           make == {m \in models \ LiveOn(n) : cool[NodeOwner[n]][m] = 0}
           kill == LiveOn(n) \ models
<1>2. /\ pass.pc = "nodes" /\ n \in pass.ns
      /\ UNCHANGED <<fluxEvents, target, dep, cool, wanted, public, fresh, rented, rank, drun>>
  BY DEF RebalanceNode, Quiet, distributed
<1>3. (\A m \in Model : target[m] >= 0) /\ fx[n].known
  BY <1>2 DEF FluxInv, PassReady, InPass
<1>4. /\ Cardinality(kept) = Smaller(s.inf, Cardinality(LiveOn(n) \cap public))
      /\ fx' = [fx EXCEPT ![n] = [s EXCEPT !.serves = models]]
      /\ pass' = [pass EXCEPT !.pc = "apply", !.ns = @ \ {n}, !.n = n, !.rem = rem, !.kill = kill, !.make = make]
  BY <1>1, <1>3 DEF Assigned, Serving
<1>5. s \in NodeSplit /\ s.known = fx[n].known /\ s.inf + s.rent + s.idle = Gpus
  <2>1. fx[n] \in NodeSplit /\ fx[n].inf + fx[n].rent + fx[n].idle = Gpus
    BY <1>3 DEF FluxInv, CatalogTypes, PoolsAddUp
  <2> QED
    BY <2>1, SplitIs
<1>6. pass.rem \in [Model -> 0 .. MaxTarget] /\ pass.ns \subseteq FluxNode /\ public \subseteq Model /\ pass \in PassRow
  BY DEF FluxInv, CatalogTypes, PassRow
<1>7. s.inf - Cardinality(kept) \in Nat
  <2>1. LiveOn(n) \cap public \subseteq Model /\ kept \subseteq Model
    BY DEF LiveOn
  <2>2. Cardinality(LiveOn(n) \cap public) \in Nat
    BY <2>1, FS_Subset, FS_CardinalityType
  <2>3. s.inf \in Nat
    BY <1>5 DEF NodeSplit
  <2> HIDE DEF s
  <2>4. Cardinality(kept) \in Nat /\ Cardinality(kept) <= s.inf
    BY <1>4, <2>2, <2>3 DEF Smaller
  <2> QED
    BY <2>3, <2>4
<1>8. models \subseteq Model /\ \A m \in models : m \in kept \/ pass.rem[m] > 0
  <2> DEFINE room == s.inf - Cardinality(kept)
  <2>1. room \in Nat
    BY <1>7
  <2> HIDE DEF room, s
  <2>2. Filled(kept, pass.rem, room) \subseteq Model /\ \A m \in Filled(kept, pass.rem, room) : m \in kept \/ pass.rem[m] > 0
    BY <1>6, <2>1, FilledIs
  <2> QED
    BY <2>2 DEF room
<1> HIDE DEF s, models
<1>9. LiveOn(n) \subseteq Model /\ kept \subseteq LiveOn(n)
  BY DEF LiveOn
<1>10. \A m \in models \ LiveOn(n) : pass.rem[m] > 0
  BY <1>8, <1>9
<1>11. \A m \in Model : pass.rem[m] \in 0 .. MaxTarget /\ rem[m] = IF m \in models \ LiveOn(n) THEN Larger(0, pass.rem[m] - 1) ELSE pass.rem[m]
  BY <1>6 DEF LeftOver
<1>21. rem = [m \in Model |-> rem[m]]
  BY DEF LeftOver
<1> HIDE DEF rem
<1>22. \A x \in Nat : x > 0 => Larger(0, x - 1) = x - 1
  BY DEF Larger
<1>12. \A m \in Model : rem[m] = IF m \in models \ LiveOn(n) THEN pass.rem[m] - 1 ELSE pass.rem[m]
  BY <1>10, <1>11, <1>22
<1>13. rem \in [Model -> 0 .. MaxTarget]
  <2>1. \A m \in Model : rem[m] \in 0 .. MaxTarget
    BY <1>10, <1>11, <1>12
  <2> QED
    BY <1>21, <2>1
<1>14. make \subseteq models \ LiveOn(n) /\ make \subseteq Model /\ kill \subseteq Model
  BY <1>8, <1>9
<1> HIDE DEF make, kill
<1>15. /\ pass' \in PassRow /\ pass'.pc = "apply" /\ pass'.ns = pass.ns \ {n} /\ pass'.n = n /\ pass'.rem = rem /\ pass'.make = make
  BY <1>4, <1>6, <1>13, <1>14 DEF PassRow
<1>16. fx' \in [FluxNode -> NodeSplit] /\ PoolsAddUp'
  <2> DEFINE t == [s EXCEPT !.serves = models]
  <2>1. t \in NodeSplit /\ t.inf = s.inf /\ t.rent = s.rent /\ t.idle = s.idle /\ t.known = s.known
    BY <1>5, <1>8 DEF NodeSplit
  <2>2. fx' = [fx EXCEPT ![n] = t] /\ fx \in [FluxNode -> NodeSplit]
    BY <1>4 DEF FluxInv, CatalogTypes
  <2> HIDE DEF t
  <2>3. \A x \in FluxNode : fx'[x] = IF x = n THEN t ELSE fx[x]
    BY <2>2
  <2>4. PoolsAddUp'
    BY <1>5, <2>1, <2>3 DEF FluxInv, PoolsAddUp
  <2> QED
    BY <2>1, <2>2, <2>4
<1>17. CatalogTypes' /\ RankTypes' /\ NoStart
  BY <1>2, <1>15, <1>16 DEF FluxInv, CatalogTypes, RankTypes, NoStart
<1>18. PassReady'
  <2>1. \A x \in pass.ns \ {n} : fx'[x].known
    BY <1>2, <1>4, <1>6 DEF FluxInv, PassReady, InPass, CatalogTypes
  <2> QED
    BY <1>2, <1>3, <1>15, <2>1 DEF PassReady
<1>19. PICK h \in FluxHotkey : HandedOn(h)
  BY <1>2 DEF FluxInv, DeficitHandedOn, InPass
<1>20. HandedOn(h)'
  <2>1. pass'.ns \subseteq NodesOf(h) /\ n \in NodesOf(h)
    BY <1>2, <1>15, <1>19 DEF HandedOn
  <2>2. \A m \in make : dep[n][m] # "live"
    BY <1>14 DEF LiveOn
  <2>3. \A m \in Model : LiveCount(h, m)' = LiveCount(h, m)
    BY <1>2 DEF LiveCount, NodesOf
  <2>4. \A m \in Model : pass.rem[m] + 0 <= Larger(0, target[m] - LiveCount(h, m))
    BY <1>2, <1>19 DEF HandedOn, Coming
  <2>5. \A m \in Model : Coming(m)' = IF m \in make THEN 1 ELSE 0
    BY <1>15 DEF Coming
  <2>6. \A m \in Model : rem[m] + (IF m \in make THEN 1 ELSE 0) <= pass.rem[m] /\ rem[m] \in Nat
    BY <1>10, <1>11, <1>12, <1>13, <1>14
  <2>7. \A m \in Model : Larger(0, target[m] - LiveCount(h, m)) \in Nat
    <3>1. \A m \in Model : target[m] \in Int /\ LiveCount(h, m) \in Nat
      BY LiveCounts DEF FluxInv, CatalogTypes
    <3> HIDE DEF LiveCount
    <3> QED
      BY <3>1 DEF Larger
  <2>8. \A m \in Model : pass'.rem[m] + Coming(m)' <= Larger(0, target[m] - LiveCount(h, m))
    <3> SUFFICES ASSUME NEW m \in Model PROVE rem[m] + (IF m \in make THEN 1 ELSE 0) <= Larger(0, target[m] - LiveCount(h, m))
      BY <1>15, <2>5
    <3> DEFINE a == rem[m]
               b == IF m \in make THEN 1 ELSE 0
               c == pass.rem[m]
               d == Larger(0, target[m] - LiveCount(h, m))
    <3>1. a \in Nat /\ b \in Nat /\ c \in Nat /\ d \in Nat /\ a + b <= c /\ c + 0 <= d
      BY <1>11, <2>4, <2>6, <2>7
    <3> HIDE DEF a, b, c, d
    <3>2. a + b <= d
      BY <3>1
    <3> QED
      BY <3>2 DEF a, b, d
  <2> QED
    BY <1>2, <1>15, <2>1, <2>2, <2>3, <2>8 DEF HandedOn, NodesOf
<1> QED
  BY <1>16, <1>17, <1>18, <1>20 DEF FluxInv, DeficitHandedOn

\* What was decided is written: each start was still lacking.
LEMMA ApplyNodeKeeps ==
  ASSUME FluxInv, ApplyNode
  PROVE  FluxInv' /\ OnlyDeficit
<1> USE FluxAssumption
<1> DEFINE n == pass.n
           gone == {m \in pass.kill : dep[n][m] = "live"}
<1>1. /\ pass.pc = "apply"
      /\ dep' = [dep EXCEPT ![n] = [m \in Model |-> CASE m \in gone -> "terminated"
                                                      [] m \in pass.make -> "live"
                                                      [] OTHER -> dep[n][m]]]
      /\ cool' = [cool EXCEPT ![NodeOwner[n]] = [m \in Model |-> IF m \in gone THEN Cooldown ELSE @[m]]]
      /\ pass' = [pass EXCEPT !.pc = "nodes", !.n = "none", !.kill = {}, !.make = {}]
      /\ UNCHANGED <<fluxEvents, fx, target, wanted, public, fresh, rented, rank, drun>>
  BY DEF ApplyNode, Quiet, distributed
<1>2. PICK h \in FluxHotkey : HandedOn(h)
  BY <1>1 DEF FluxInv, DeficitHandedOn, InPass
<1>3. n \in NodesOf(h) /\ n \in FluxNode /\ NodeOwner[n] = h /\ \A m \in pass.make : dep[n][m] # "live"
  BY <1>1, <1>2 DEF HandedOn, NodesOf
<1>4. \A x \in FluxNode, m \in Model :
        dep'[x][m] = IF x # n THEN dep[x][m]
                     ELSE IF m \in gone THEN "terminated" ELSE IF m \in pass.make THEN "live" ELSE dep[n][m]
  BY <1>1, <1>3 DEF FluxInv, CatalogTypes
<1>5. dep' \in [FluxNode -> [Model -> RowState]]
  <2> DEFINE row == [m \in Model |-> CASE m \in gone -> "terminated" [] m \in pass.make -> "live" [] OTHER -> dep[n][m]]
  <2>1. \A m \in Model : dep[n][m] \in RowState
    BY <1>3 DEF FluxInv, CatalogTypes
  <2>2. row \in [Model -> RowState]
    BY <2>1 DEF RowState
  <2>3. dep' = [dep EXCEPT ![n] = row] /\ dep \in [FluxNode -> [Model -> RowState]]
    BY <1>1 DEF FluxInv, CatalogTypes
  <2> HIDE DEF row
  <2> QED
    BY <2>2, <2>3
<1>6. cool' \in [FluxHotkey -> [Model -> 0 .. Cooldown]]
  <2> DEFINE row == [m \in Model |-> IF m \in gone THEN Cooldown ELSE cool[NodeOwner[n]][m]]
  <2>1. row \in [Model -> 0 .. Cooldown]
    BY <1>3 DEF FluxInv, CatalogTypes
  <2>2. cool' = [cool EXCEPT ![NodeOwner[n]] = row] /\ cool \in [FluxHotkey -> [Model -> 0 .. Cooldown]]
    BY <1>1, <1>3 DEF FluxInv, CatalogTypes
  <2> HIDE DEF row
  <2> QED
    BY <2>1, <2>2
<1>7. pass' \in PassRow /\ pass'.pc = "nodes" /\ pass'.ns = pass.ns /\ pass'.rem = pass.rem
  BY <1>1 DEF FluxInv, CatalogTypes, PassRow
<1>8. CatalogTypes' /\ RankTypes' /\ PoolsAddUp'
  BY <1>1, <1>5, <1>6, <1>7 DEF FluxInv, CatalogTypes, RankTypes, PoolsAddUp
<1>9. PassReady'
  BY <1>1, <1>7 DEF FluxInv, PassReady, InPass
<1>10. \A m \in Model : /\ target[m] \in Int /\ pass.rem[m] \in Nat /\ LiveCount(h, m) \in Nat /\ LiveCount(h, m)' \in Nat
                        /\ pass.rem[m] + (IF m \in pass.make THEN 1 ELSE 0) <= Larger(0, target[m] - LiveCount(h, m))
  <2>1. \A m \in Model : LiveCount(h, m) \in Nat /\ LiveCount(h, m)' \in Nat
    BY LiveCounts
  <2>2. \A m \in Model : target[m] \in Int /\ pass.rem[m] \in Nat
    BY DEF FluxInv, CatalogTypes, PassRow
  <2>3. \A m \in Model : pass.rem[m] + (IF m \in pass.make THEN 1 ELSE 0) <= Larger(0, target[m] - LiveCount(h, m))
    BY <1>1, <1>2 DEF HandedOn, Coming
  <2> QED
    BY <2>1, <2>2, <2>3
<1>11. \A m \in Model : m \in pass.make => LiveCount(h, m) < target[m] /\ pass.rem[m] <= target[m] - LiveCount(h, m) - 1
  <2> SUFFICES ASSUME NEW m \in Model, m \in pass.make PROVE LiveCount(h, m) < target[m] /\ pass.rem[m] <= target[m] - LiveCount(h, m) - 1
    OBVIOUS
  <2> DEFINE l == LiveCount(h, m)
  <2>1. target[m] \in Int /\ pass.rem[m] \in Nat /\ l \in Nat /\ pass.rem[m] + 1 <= Larger(0, target[m] - l)
    BY <1>10
  <2> HIDE DEF l
  <2>2. l < target[m] /\ pass.rem[m] <= target[m] - l - 1
    BY <2>1 DEF Larger
  <2> QED
    BY <2>2 DEF l
<1>12. HandedOn(h)'
  <2>1. \A m \in Model : Coming(m)' = 0
    BY <1>7 DEF Coming
  <2>2. ASSUME NEW m \in Model PROVE pass.rem[m] + 0 <= Larger(0, target[m] - LiveCount(h, m)')
    <3> DEFINE l == LiveCount(h, m)
               k == LiveCount(h, m)'
    <3>0. l \in Nat /\ k \in Nat /\ target[m] \in Int /\ pass.rem[m] \in Nat
      BY <1>10
    <3>1. CASE m \in pass.make
      <4>1. LiveSet(h, m)' \subseteq LiveSet(h, m) \cup {n}
        BY <1>4 DEF LiveSet, NodesOf
      <4>2. k <= l + 1
        BY <4>1, OneMoreLive
      <4>3. pass.rem[m] <= target[m] - l - 1
        BY <1>11, <3>1
      <4> HIDE DEF l, k
      <4>4. pass.rem[m] + 0 <= Larger(0, target[m] - k)
        BY <3>0, <4>2, <4>3 DEF Larger
      <4> QED
        BY <4>4 DEF k
    <3>2. CASE m \notin pass.make
      <4>1. LiveSet(h, m)' \subseteq LiveSet(h, m)
        BY <1>4, <3>2 DEF LiveSet, NodesOf
      <4>2. k <= l
        BY <4>1, FewerLive
      <4>3. pass.rem[m] + 0 <= Larger(0, target[m] - l)
        BY <1>10, <3>2
      <4> HIDE DEF l, k
      <4>4. pass.rem[m] + 0 <= Larger(0, target[m] - k)
        BY <3>0, <4>2, <4>3 DEF Larger
      <4> QED
        BY <4>4 DEF k
    <3> QED
      BY <3>1, <3>2
  <2>3. pass.ns \subseteq NodesOf(h)
    BY <1>2 DEF HandedOn
  <2> QED
    BY <1>1, <1>7, <2>1, <2>2, <2>3 DEF HandedOn, NodesOf
<1>13. OnlyDeficit
  <2> SUFFICES ASSUME NEW g \in FluxHotkey, NEW m \in Model, NEW x \in NodesOf(g), dep[x][m] # "live", dep'[x][m] = "live"
               PROVE  LiveCount(g, m) < target[m]
    BY DEF OnlyDeficit, Started
  <2>1. x \in FluxNode /\ NodeOwner[x] = g
    BY DEF NodesOf
  <2>2. x = n /\ m \in pass.make
    BY <1>4, <2>1
  <2> QED
    BY <1>3, <1>11, <2>1, <2>2
<1> QED
  BY <1>8, <1>9, <1>12, <1>13 DEF FluxInv, DeficitHandedOn

\* Every step, of the catalogue and of the replicas that span nodes.
LEMMA FluxInvStep ==
  ASSUME FluxInv, EarlyAdmin = FALSE, [CatalogNext \/ DistributedNext]_fluxVars
  PROVE  FluxInv' /\ OnlyDeficit
<1>1. CASE UNCHANGED fluxVars
  <2>1. UNCHANGED <<fx, target, dep, cool, wanted, public, fresh, rented, pass, rank, drun, bigListed, fluxEvents>>
    BY <1>1 DEF fluxVars
  <2>2. NoStart
    BY <2>1 DEF NoStart
  <2>3. DeficitHandedOn'
    BY <2>1, <2>2, NoneStarted DEF NoStart
  <2> QED
    BY <2>1, <2>2, <2>3, NothingAsked DEF FluxInv, CatalogTypes, RankTypes, PoolsAddUp, PassReady, InPass
<1>2. CASE PassSteps
  <2>1. CASE PassStarts \/ HotkeyEnds
    BY <2>1, PassStartsKeeps, HotkeyEndsKeeps, NothingAsked
  <2>2. CASE ApplyNode
    BY <2>2, ApplyNodeKeeps
  <2>3. CASE \E h \in FluxHotkey : HotkeyStarts(h)
    BY <2>3, HotkeyStartsKeeps, NothingAsked
  <2>4. CASE \E n \in FluxNode : RebalanceNode(n)
    BY <2>4, RebalanceNodeKeeps, NothingAsked
  <2> QED
    BY <1>2, <2>1, <2>2, <2>3, <2>4 DEF PassSteps
<1>3. CASE AdminRebalance
  BY <1>3, AdminRebalanceKeeps, NothingAsked
<1>4. CASE Around
  BY <1>4, AroundKeeps, NothingAsked
<1>5. CASE FluxRestarts
  BY <1>5, RestartKeeps, NothingAsked
<1>6. CASE DistributedSteps \/ RankFails \/ BigModelEdited
  BY <1>6, DistributedKeeps, NothingAsked
<1> QED
  BY <1>1, <1>2, <1>3, <1>4, <1>5, <1>6 DEF CatalogNext, DistributedNext, Around

LEMMA FluxTypes == FluxInv => FluxTypeOK
<1> SUFFICES ASSUME FluxInv PROVE FluxTypeOK
  OBVIOUS
<1>1. \A n \in FluxNode : fx[n] \in NodeSplit /\ rank[n] \in [st : {"none", "live", "failed"}, rep : 0 .. 2]
  BY DEF FluxInv, CatalogTypes, RankTypes
<1> QED
  BY <1>1 DEF FluxInv, CatalogTypes, PoolsAddUp, NodeSplit, RowState, FluxTypeOK

\* The pools of a node always add up to its GPUs, and a pass starts a replica only of a model
\* the hotkey runs too few of, although replicas fail and the catalogue, demand, rentals and
\* inventories change between its reads and its writes; the admin does not rebalance before
\* the first pass has set targets (rebalance_all_miners, _reconcile_catalog_deployments).
THEOREM FluxSafetyHolds ==
  ASSUME EarlyAdmin = FALSE
  PROVE  FluxSpec => FluxSafety
<1>1. FluxInv /\ [CatalogNext \/ DistributedNext]_fluxVars => FluxInv'
  BY FluxInvStep
<1>2. FluxInv /\ [CatalogNext \/ DistributedNext]_fluxVars =>
        [\A h \in FluxHotkey, m \in Model :
           (\E n \in NodesOf(h) : dep[n][m] # "live" /\ dep'[n][m] = "live")
              => LiveCount(h, m) < target[m]]_fluxVars
  BY FluxInvStep DEF OnlyDeficit, Started
<1> QED
  BY FluxInvInit, <1>1, <1>2, FluxTypes, PTL DEF FluxSpec, FluxSafety, StartsOnlyDeficit

(***************************************************************************)
(* The image builder: the inductive invariant.                             *)
(***************************************************************************)

\* A stage that runs may run only after the ones it builds on.
ReadyFor(a, s) == s \in Stages => \A e \in EarlierStages(s) : <<a, e>> \in stagesRun

\* Where the worker and a call can be, and what a delivery can say.
WorkerPc == {"idle", "next", "down", "init", "create", "announce", "advance", "mark", "run", "report",
             "queue", "follow", "publish", "succeed", "fail", "failjob", "backbuild", "backjob",
             "redeliver", "exhaust", "done"}
CallPc == {"none", "accept", "canceljob", "cleanup", "recover", "reaccept", "reprogress", "recovered"}
Delivery == [subject : {"accepted", "progress"}, attempt : Attempt, stage : JobStage,
             st : {"pending", "processing"}]

WorkerTypes ==
  /\ bw \in [pc : WorkerPc, batch : SUBSET Nat, d : Nat, b : BuildRow, j : JobRow,
             err : {"none"} \cup StageErrors]
QueueTypes == queue \in Seq(Delivery) /\ Len(queue) <= MaxDeliveries /\ bw.batch \subseteq Numbered
CallTypes == caller \in [pc : CallPc, b : BuildRow, j : JobRow, a : 0..MaxAttempts]
RowTypes ==
  /\ build \in BuildRow /\ build.retries < MaxAttempts
  /\ job \in [Attempt -> JobRow] /\ latestJob \in 0..MaxAttempts
  /\ stagesRun \subseteq Attempt \X Stages /\ builderFaults \in 0..MaxBuilderFaults /\ calls \in 0..MaxCalls

\* A job is at a stage until it is over, and what it waits for has run.
Active(j) == j.st \in {"queued", "running"} /\ j.stage \in Stages /\ ~j.fin
JobsInStage ==
  /\ \A a \in Attempt : \/ job[a] = NoJob
                        \/ Active(job[a]) /\ ReadyFor(a, job[a].stage)
                        \/ job[a].st \in {"succeeded", "failed", "cancelled"} /\ job[a].stage = job[a].st
  /\ \A a \in Attempt : job[a] # NoJob => a <= build.retries + 1
  /\ latestJob # 0 => job[latestJob] # NoJob

\* A delivery is of an attempt that was asked for, and names a stage it may run - or its job is over.
DeliveriesInStage ==
  \A d \in Numbered :
    /\ queue[d].attempt <= build.retries + 1
    /\ ReadyFor(queue[d].attempt, queue[d].stage)
    /\ queue[d].subject = "progress" /\ queue[d].stage \notin Stages => JobIsOver(job[queue[d].attempt])

\* Nothing is there before the build is.
NothingBefore ==
  build.status = "none" => /\ build = NoBuild /\ latestJob = 0 /\ queue = <<>> /\ caller.pc \in {"none", "recover", "recovered"}
                           /\ \A a \in Attempt : job[a] = NoJob

\* What a call under way has read still holds: the worker waits for it to end.
CallHolds ==
  /\ caller.pc # "none" => bw.pc \in {"idle", "down"}
  /\ caller.pc = "accept" =>
       /\ caller.a \in Attempt /\ job[caller.a] = NoJob /\ caller.a <= build.retries + 1
       /\ build.status = "accepted" /\ (caller.a = 1 => latestJob = 0)
  /\ caller.pc = "canceljob" => build.status = "cancelled" /\ caller.a \in Attempt
  /\ caller.pc = "cleanup" => caller.b = build
  /\ caller.pc = "reaccept" => caller.a = build.retries + 1 
  /\ caller.pc = "reprogress" =>
       /\ caller.a \in Attempt /\ caller.a <= build.retries + 1
       /\ caller.j.stage \in Stages /\ ReadyFor(caller.a, caller.j.stage)

\* The worker holds a delivery of a build that is to be built.
InHand == bw.pc \notin {"idle", "next", "down"}
AtStage == {"mark", "run", "report", "queue", "follow", "publish"}
HandRow ==
  /\ bw.d \in Numbered
  /\ build.status # "cancelled" /\ bw.b.status \notin {"none", "cancelled"}
  /\ bw.b.retries = build.retries
HandAt ==
  /\ bw.pc \in {"init", "create"} => ev.subject = "accepted"
  /\ bw.pc = "create" => job[ev.attempt] = NoJob
  /\ bw.pc = "advance" => ev.subject = "progress"
  /\ bw.pc = "announce" => bw.j = job[ev.attempt] /\ bw.j # NoJob
  /\ bw.pc \in AtStage =>
       /\ ev.stage \in Stages /\ latestJob = ev.attempt /\ job[ev.attempt] = bw.j /\ Active(bw.j)
  /\ bw.pc \in {"report", "queue", "publish"} => <<ev.attempt, bw.j.stage>> \in stagesRun
  /\ bw.pc \in {"fail", "failjob"} /\ bw.err = "retryable" => ev.stage \in Stages /\ Active(job[ev.attempt])
  /\ bw.pc \in {"failjob", "exhaust"} => build.status = "failed" /\ bw.b.status = "failed"
  /\ bw.pc \in {"backbuild", "backjob"} =>
       /\ ev.stage \in Stages /\ latestJob = ev.attempt /\ job[ev.attempt].st = "failed" /\ ~job[ev.attempt].fin
       /\ \A d \in Numbered : queue[d].attempt = ev.attempt /\ queue[d].subject = "progress" => queue[d].stage \in Stages
  /\ bw.pc = "succeed" => build.status = "published"
  /\ bw.pc \in {"exhaust", "redeliver", "done"} => job[ev.attempt] # NoJob
HandHolds == InHand => HandRow /\ HandAt

\* A build in progress goes on: from its first delivery, its latest job, or a delivery without a job.
BuildGoesOn ==
  build.status \in InProgress =>
    \/ latestJob = 0 /\ build.status = "accepted"
    \/ latestJob # 0 /\ Active(job[latestJob])
    \/ LostInRetry
    \/ \E d \in Numbered : queue[d].subject = "accepted" /\ job[queue[d].attempt] = NoJob
    \/ caller.pc = "accept"

\* What every step keeps of the rows and the deliveries, whoever takes it.
RowsInv == RowTypes /\ StagesInOrder /\ JobsInStage /\ DeliveriesInStage /\ NothingBefore

BuilderInv ==
  /\ RowsInv /\ WorkerTypes /\ QueueTypes /\ CallTypes
  /\ CallHolds /\ HandHolds /\ BuildGoesOn

\* A queue numbers its deliveries.
LEMMA QueueIs ==
  ASSUME QueueTypes
  PROVE  /\ Len(queue) \in Nat /\ Numbered = 1..Len(queue)
         /\ \A d \in Numbered : queue[d] \in Delivery
BY LenProperties, ElementOfSeq DEF QueueTypes, Numbered

\* What is left of a sequence without one of its elements, and where each of them came from.
LEMMA RemoveAtIs ==
  ASSUME NEW S, NEW s \in Seq(S), NEW i \in 1..Len(s)
  PROVE  /\ RemoveAt(s, i) \in Seq(S) /\ Len(RemoveAt(s, i)) = Len(s) - 1
         /\ \A k \in 1..Len(s) - 1 : RemoveAt(s, i)[k] = IF k < i THEN s[k] ELSE s[k + 1]
<1> DEFINE x == SubSeq(s, 1, i - 1)
           y == SubSeq(s, i + 1, Len(s))
<1>1. Len(s) \in Nat /\ i \in Nat /\ i >= 1 /\ i <= Len(s)
  BY LenProperties
<1>2. \A k \in 1..Len(s) : s[k] \in S
  BY ElementOfSeq
<1>3. x \in Seq(S) /\ Len(x) = i - 1 /\ \A k \in 1..i - 1 : x[k] = s[k]
  <2>1. \A k \in 1..i - 1 : s[k] \in S
    BY <1>1, <1>2
  <2>2. /\ x \in Seq(S) /\ Len(x) = IF 1 <= i - 1 THEN i - 1 - 1 + 1 ELSE 0
        /\ \A k \in 1..i - 1 - 1 + 1 : x[k] = s[1 + k - 1]
    BY <1>1, <2>1, SubSeqProperties
  <2> QED
    BY <1>1, <2>2
<1>4. y \in Seq(S) /\ Len(y) = Len(s) - i /\ \A k \in 1..Len(s) - i : y[k] = s[i + k]
  <2>1. \A k \in i + 1..Len(s) : s[k] \in S
    BY <1>1, <1>2
  <2>2. /\ y \in Seq(S) /\ Len(y) = IF i + 1 <= Len(s) THEN Len(s) - (i + 1) + 1 ELSE 0
        /\ \A k \in 1..Len(s) - (i + 1) + 1 : y[k] = s[i + 1 + k - 1]
    BY <1>1, <2>1, SubSeqProperties
  <2> QED
    BY <1>1, <2>2
<1>5. RemoveAt(s, i) = x \o y
  BY DEF RemoveAt
<1> HIDE DEF x, y
<1>6. /\ x \o y \in Seq(S) /\ Len(x \o y) = Len(x) + Len(y)
      /\ \A k \in 1..Len(x) + Len(y) : (x \o y)[k] = IF k <= Len(x) THEN x[k] ELSE y[k - Len(x)]
  BY <1>3, <1>4, ConcatProperties
<1>7. ASSUME NEW k \in 1..Len(s) - 1 PROVE RemoveAt(s, i)[k] = IF k < i THEN s[k] ELSE s[k + 1]
  <2>1. CASE k < i
    BY <1>1, <1>3, <1>4, <1>5, <1>6, <2>1
  <2>2. CASE ~(k < i)
    <3>1. (x \o y)[k] = y[k - (i - 1)] /\ k - (i - 1) \in 1..Len(s) - i
      BY <1>1, <1>3, <1>4, <1>6, <2>2
    <3>2. y[k - (i - 1)] = s[i + (k - (i - 1))] /\ i + (k - (i - 1)) = k + 1
      BY <1>1, <1>4, <3>1
    <3> QED
      BY <1>1, <1>5, <2>2, <3>1, <3>2
  <2> QED
    BY <2>1, <2>2
<1> QED
  BY <1>1, <1>3, <1>4, <1>5, <1>6, <1>7

\* What has run stays run.
LEMMA ReadyKept ==
  ASSUME stagesRun \subseteq stagesRun', NEW a, NEW s, ReadyFor(a, s)
  PROVE  ReadyFor(a, s)'
BY DEF ReadyFor, EarlierStages, Stages

\* Jobs stay in their stage while they are not written.
LEMMA JobsKept ==
  ASSUME RowTypes, JobsInStage, UNCHANGED <<job, latestJob>>, stagesRun \subseteq stagesRun',
         build'.retries \in Nat, build.retries <= build'.retries
  PROVE  JobsInStage'
<1>1. build.retries \in Nat
  BY DEF RowTypes, BuildRow
<1>2. ASSUME NEW a \in Attempt PROVE a \in Nat
  BY BuilderAssumption DEF Attempt
<1>3. ASSUME NEW a \in Attempt, Active(job[a]), ReadyFor(a, job[a].stage)
      PROVE Active(job'[a]) /\ ReadyFor(a, job[a].stage)'
  <2>1. job'[a] = job[a]
    OBVIOUS
  <2> QED
    BY <1>3, <2>1, ReadyKept
<1>4. ASSUME NEW a \in Attempt
      PROVE \/ job'[a] = NoJob
            \/ Active(job'[a]) /\ ReadyFor(a, job[a].stage)'
            \/ job'[a].st \in {"succeeded", "failed", "cancelled"} /\ job'[a].stage = job'[a].st
  BY <1>3 DEF JobsInStage
<1>5. ASSUME NEW a \in Attempt, job'[a] # NoJob PROVE a <= build'.retries + 1
  BY <1>1, <1>2, <1>5 DEF JobsInStage
<1>6. latestJob' # 0 => job'[latestJob'] # NoJob
  BY DEF JobsInStage
<1> QED
  BY <1>4, <1>5, <1>6 DEF JobsInStage

\* Deliveries stay in their stage when each says what one of them said, and no job that is over starts again behind them.
LEMMA DeliveriesKept ==
  ASSUME RowTypes, QueueTypes, DeliveriesInStage, stagesRun \subseteq stagesRun',
         build'.retries \in Nat, build.retries <= build'.retries,
         \A d \in DOMAIN queue' : \E x \in Numbered :
            /\ queue'[d].subject = queue[x].subject /\ queue'[d].attempt = queue[x].attempt
            /\ queue'[d].stage = queue[x].stage,
         \A x \in Numbered :
            queue[x].subject = "progress" /\ queue[x].stage \notin Stages /\ JobIsOver(job[queue[x].attempt])
            => JobIsOver(job'[queue[x].attempt])
  PROVE  DeliveriesInStage'
<1>1. SUFFICES ASSUME NEW d \in DOMAIN queue'
               PROVE  /\ queue'[d].attempt <= build'.retries + 1
                      /\ ReadyFor(queue[d].attempt, queue[d].stage)'
                      /\ queue'[d].subject = "progress" /\ queue'[d].stage \notin Stages => JobIsOver(job'[queue'[d].attempt])
  BY DEF DeliveriesInStage, Numbered
<1>2. PICK x \in Numbered : /\ queue'[d].subject = queue[x].subject /\ queue'[d].attempt = queue[x].attempt
                            /\ queue'[d].stage = queue[x].stage
  OBVIOUS
<1>3. build.retries \in Nat /\ queue[x].attempt \in Nat
  BY QueueIs, BuilderAssumption DEF RowTypes, BuildRow, Delivery, Attempt
<1>4. /\ queue[x].attempt <= build.retries + 1 /\ ReadyFor(queue[x].attempt, queue[x].stage)
      /\ queue[x].subject = "progress" /\ queue[x].stage \notin Stages => JobIsOver(job[queue[x].attempt])
  BY DEF DeliveriesInStage
<1>5. queue'[d].attempt <= build'.retries + 1
  BY <1>2, <1>3, <1>4
<1>6. ReadyFor(queue[d].attempt, queue[d].stage)'
  BY <1>2, <1>4 DEF ReadyFor, EarlierStages, Stages
<1> QED
  BY <1>2, <1>4, <1>5, <1>6

\* A step that writes the build's row alone, within its attempts.
LEMMA SavesBuild ==
  ASSUME RowsInv, QueueTypes, build' \in BuildRow, build'.retries < MaxAttempts, build.retries <= build'.retries,
         build'.status # "none", UNCHANGED <<job, latestJob, queue, stagesRun, builderFaults>>,
         calls' \in 0..MaxCalls
  PROVE  RowsInv'
<1>1. RowTypes'
  BY DEF RowsInv, RowTypes
<1>2. build'.retries \in Nat
  BY DEF BuildRow
<1>3. StagesInOrder'
  BY DEF RowsInv, StagesInOrder
<1>4. JobsInStage'
  BY <1>2, JobsKept DEF RowsInv
<1>5. DeliveriesInStage'
  <2>1. \A d \in DOMAIN queue' : d \in Numbered /\ queue'[d] = queue[d]
    BY DEF Numbered
  <2> QED
    BY <1>2, <2>1, DeliveriesKept DEF RowsInv
<1> QED
  BY <1>1, <1>3, <1>4, <1>5 DEF RowsInv, NothingBefore

\* A step that writes a job's row alone.
LEMMA SavesJob ==
  ASSUME RowsInv, QueueTypes, NEW a \in Attempt, NEW j \in JobRow, SaveJob(a, j), a <= build.retries + 1,
         (Active(j) /\ ReadyFor(a, j.stage)) \/ (j.st \in {"succeeded", "failed", "cancelled"} /\ j.stage = j.st),
         JobIsOver(j) \/ \A x \in Numbered : queue[x].attempt = a /\ queue[x].subject = "progress" => queue[x].stage \in Stages,
         build.status # "none", UNCHANGED <<build, queue, stagesRun, builderFaults>>, calls' = calls
  PROVE  RowsInv'
<1>1. job \in [Attempt -> JobRow] /\ job' = [job EXCEPT ![a] = j] /\ latestJob' = a
  BY DEF RowsInv, RowTypes, SaveJob
<1>2. a \in 1..MaxAttempts /\ build.retries \in Nat
  BY DEF Attempt, RowsInv, RowTypes, BuildRow
<1>3. RowTypes'
  BY <1>1, <1>2, BuilderAssumption DEF RowsInv, RowTypes
<1>4. job'[a] = j /\ \A x \in Attempt : x # a => job'[x] = job[x]
  BY <1>1
<1>5. j # NoJob
  BY DEF NoJob, Active
<1>6. JobsInStage'
  <2>1. ASSUME NEW x \in Attempt
        PROVE  \/ job'[x] = NoJob
               \/ Active(job'[x]) /\ ReadyFor(x, job'[x].stage)
               \/ job'[x].st \in {"succeeded", "failed", "cancelled"} /\ job'[x].stage = job'[x].st
    BY <1>4 DEF RowsInv, JobsInStage
  <2>2. ASSUME NEW x \in Attempt, job'[x] # NoJob PROVE x <= build.retries + 1
    BY <1>4, <2>2 DEF RowsInv, JobsInStage
  <2>3. \A x \in Attempt : ReadyFor(x, job'[x].stage) <=> ReadyFor(x, job[x].stage)'
    BY DEF ReadyFor
  <2> QED
    BY <1>1, <1>4, <1>5, <2>1, <2>2, <2>3 DEF JobsInStage
<1>7. DeliveriesInStage'
  <2>1. ASSUME NEW x \in Numbered, queue[x].subject = "progress", queue[x].stage \notin Stages, JobIsOver(job[queue[x].attempt])
        PROVE  JobIsOver(job'[queue[x].attempt])
    <3>1. queue[x].attempt \in Attempt
      BY QueueIs DEF Delivery
    <3> QED
      BY <1>4, <2>1, <3>1
  <2>2. \A d \in DOMAIN queue' : d \in Numbered /\ queue'[d] = queue[d]
    BY DEF Numbered
  <2> QED
    BY <1>2, <2>1, <2>2, DeliveriesKept DEF RowsInv
<1> QED
  BY <1>3, <1>6, <1>7 DEF RowsInv, StagesInOrder, NothingBefore

\* A step that writes no row and leaves no delivery that was not there.
LEMMA KeepsRows ==
  ASSUME RowsInv, QueueTypes, UNCHANGED <<build, job, latestJob, stagesRun>>,
         builderFaults' \in 0..MaxBuilderFaults, calls' \in 0..MaxCalls,
         build.status = "none" => queue' = queue /\ caller'.pc \in {"none", "recover", "recovered"},
         \A d \in DOMAIN queue' : \E x \in Numbered :
            /\ queue'[d].subject = queue[x].subject /\ queue'[d].attempt = queue[x].attempt
            /\ queue'[d].stage = queue[x].stage
  PROVE  RowsInv'
<1>1. RowTypes'
  BY DEF RowsInv, RowTypes
<1>2. build.retries \in Nat
  BY DEF RowsInv, RowTypes, BuildRow
<1>3. JobsInStage'
  BY <1>2, JobsKept DEF RowsInv
<1>4. DeliveriesInStage'
  BY <1>2, DeliveriesKept DEF RowsInv
<1> QED
  BY <1>1, <1>3, <1>4 DEF RowsInv, StagesInOrder, NothingBefore

\* A step that publishes a delivery its reader may act on.
LEMMA Puts ==
  ASSUME RowsInv, QueueTypes, NEW x \in Delivery, Room, queue' = Put(x),
         UNCHANGED <<build, job, latestJob, stagesRun, builderFaults, calls>>, bw'.batch = bw.batch,
         build.status # "none", x.attempt <= build.retries + 1, ReadyFor(x.attempt, x.stage),
         x.subject = "progress" /\ x.stage \notin Stages => JobIsOver(job[x.attempt])
  PROVE  /\ RowsInv' /\ QueueTypes'
         /\ \A d \in Numbered : d \in DOMAIN queue' /\ queue'[d] = queue[d]
         /\ \E d \in DOMAIN queue' : queue'[d] = x
<1>1. /\ queue' \in Seq(Delivery) /\ Len(queue') = Len(queue) + 1
      /\ \A d \in 1..Len(queue) : queue'[d] = queue[d]
      /\ queue'[Len(queue) + 1] = x
  BY AppendProperties DEF QueueTypes, Put
<1>2. Len(queue) \in Nat /\ Numbered = 1..Len(queue)
  BY QueueIs
<1>3. DOMAIN queue' = 1..Len(queue) + 1
  BY <1>1, LenProperties
<1>4. QueueTypes'
  BY <1>1, <1>2, <1>3, BuilderAssumption DEF QueueTypes, Room, Numbered
<1>5. DeliveriesInStage'
  <2>1. SUFFICES ASSUME NEW d \in DOMAIN queue'
                 PROVE  /\ queue'[d].attempt <= build.retries + 1
                        /\ ReadyFor(queue'[d].attempt, queue'[d].stage)
                        /\ queue'[d].subject = "progress" /\ queue'[d].stage \notin Stages => JobIsOver(job[queue'[d].attempt])
    BY DEF DeliveriesInStage, Numbered, ReadyFor
  <2>2. CASE d \in Numbered
    BY <1>1, <1>2, <2>2 DEF RowsInv, DeliveriesInStage
  <2>3. CASE d = Len(queue) + 1
    BY <1>1, <2>3
  <2> QED
    BY <1>2, <1>3, <2>2, <2>3
<1>6. JobsInStage'
  BY JobsKept DEF RowsInv, RowTypes, BuildRow
<1> QED
  BY <1>1, <1>2, <1>3, <1>4, <1>5, <1>6 DEF RowsInv, RowTypes, StagesInOrder, NothingBefore

\* A step that settles a delivery: the others are still there, and the batch follows them.
LEMMA Removes ==
  ASSUME RowsInv, QueueTypes, NEW i \in Numbered, queue' = RemoveAt(queue, i),
         UNCHANGED <<build, job, latestJob, stagesRun, builderFaults, calls, caller>>, bw'.batch = Without(bw.batch, i)
  PROVE  /\ RowsInv' /\ QueueTypes'
         /\ \A d \in Numbered \ {i} : \E x \in DOMAIN queue' : queue'[x] = queue[d]
<1>1. Len(queue) \in Nat /\ Numbered = 1..Len(queue)
  BY QueueIs
<1>2. /\ queue' \in Seq(Delivery) /\ Len(queue') = Len(queue) - 1
      /\ \A k \in 1..Len(queue) - 1 : queue'[k] = IF k < i THEN queue[k] ELSE queue[k + 1]
  BY <1>1, RemoveAtIs DEF QueueTypes
<1>3. DOMAIN queue' = 1..Len(queue) - 1
  BY <1>2, LenProperties
<1>4. bw'.batch \subseteq DOMAIN queue'
  <2>1. SUFFICES ASSUME NEW x \in bw.batch \ {i} PROVE (IF x > i THEN x - 1 ELSE x) \in 1..Len(queue) - 1
    BY <1>3 DEF Without
  <2>2. x \in 1..Len(queue) /\ i \in 1..Len(queue)
    BY <1>1 DEF QueueTypes
  <2> QED
    BY <1>1, <2>1, <2>2
<1>5. QueueTypes'
  BY <1>1, <1>2, <1>4, BuilderAssumption DEF QueueTypes, Numbered
<1>6. ASSUME NEW d \in Numbered \ {i} PROVE \E x \in DOMAIN queue' : queue'[x] = queue[d]
  <2>1. CASE d < i
    BY <1>1, <1>2, <1>3, <2>1
  <2>2. CASE d > i
    <3>1. d - 1 \in 1..Len(queue) - 1 /\ ~(d - 1 < i) /\ d - 1 + 1 = d
      BY <1>1, <2>2
    <3> QED
      BY <1>2, <1>3, <3>1
  <2> QED
    BY <1>1, <2>1, <2>2
<1>7. ASSUME NEW d \in DOMAIN queue' PROVE \E x \in Numbered : queue'[d] = queue[x]
  <2>1. d \in 1..Len(queue) - 1 /\ d \in Numbered /\ d + 1 \in Numbered
    BY <1>1, <1>3
  <2> QED
    BY <1>2, <2>1
<1>8. build.status # "none"
  BY <1>1, EmptySeq DEF RowsInv, NothingBefore, Numbered
<1>9. RowsInv'
  <2>1. builderFaults' \in 0..MaxBuilderFaults /\ calls' \in 0..MaxCalls
    BY DEF RowsInv, RowTypes
  <2> QED
    BY <1>7, <1>8, <2>1, KeepsRows
<1> QED
  BY <1>5, <1>6, <1>9

\* A step that only marks deliveries pending or processing.
LEMMA MarksDeliveries ==
  ASSUME QueueTypes, queue' = [d \in Numbered |-> queue'[d]],
         \A d \in Numbered : \E m \in {"pending", "processing"} :
            queue'[d] = [queue[d] EXCEPT !.st = m] \/ queue'[d] = queue[d]
  PROVE  /\ queue' \in Seq(Delivery) /\ Len(queue') = Len(queue) /\ DOMAIN queue' = Numbered
         /\ \A d \in Numbered : /\ queue'[d].subject = queue[d].subject /\ queue'[d].attempt = queue[d].attempt
                                /\ queue'[d].stage = queue[d].stage
<1>1. Len(queue) \in Nat /\ Numbered = 1..Len(queue) /\ \A d \in Numbered : queue[d] \in Delivery
  BY QueueIs
<1>2. ASSUME NEW d \in Numbered
      PROVE  /\ queue'[d] \in Delivery
             /\ queue'[d].subject = queue[d].subject /\ queue'[d].attempt = queue[d].attempt
             /\ queue'[d].stage = queue[d].stage
  BY <1>1 DEF Delivery
<1>3. queue' \in [1..Len(queue) -> Delivery]
  BY <1>1, <1>2
<1>4. queue' \in Seq(Delivery)
  BY <1>1, <1>3, SeqDef
<1>5. Len(queue') = Len(queue) /\ DOMAIN queue' = Numbered
  BY <1>1, <1>3, <1>4, LenProperties
<1> QED
  BY <1>2, <1>4, <1>5

\* What the worker holds while it handles a delivery.
LEMMA Hand ==
  ASSUME OperatorBeside = FALSE, BuilderInv, NEW pc \in WorkerPc \ {"idle", "next", "down"}, Turn(pc)
  PROVE  /\ bw.pc = pc /\ bw.d \in Numbered /\ caller.pc = "none"
         /\ ev \in Delivery /\ ev.attempt \in Attempt /\ ev.attempt <= build.retries + 1
         /\ ReadyFor(ev.attempt, ev.stage)
         /\ build \in BuildRow /\ bw.b \in BuildRow /\ bw.j \in JobRow /\ bw.b.retries = build.retries
         /\ build.status \notin {"none", "cancelled"} /\ bw.b.status \notin {"none", "cancelled"}
         /\ build.retries < MaxAttempts /\ build.retries \in Nat /\ HandAt
         /\ ev.attempt \in Nat \ {0} /\ job[ev.attempt] \in JobRow /\ InHand
<1>1. bw.pc = pc /\ caller.pc = "none" /\ InHand
  BY DEF Turn, MayWork, InHand
<1>2. bw.d \in Numbered /\ build.status # "cancelled" /\ bw.b.status \notin {"none", "cancelled"}
      /\ bw.b.retries = build.retries
  BY <1>1 DEF BuilderInv, HandHolds, HandRow
<1>3. ev \in Delivery /\ ev.attempt <= build.retries + 1 /\ ReadyFor(ev.attempt, ev.stage)
  BY <1>2, QueueIs DEF BuilderInv, RowsInv, DeliveriesInStage, ev
<1>4. build.status # "none"
  BY <1>2, QueueIs, EmptySeq DEF BuilderInv, RowsInv, NothingBefore
<1>5. build \in BuildRow /\ bw.b \in BuildRow /\ bw.j \in JobRow /\ build.retries < MaxAttempts
  BY DEF BuilderInv, RowsInv, RowTypes, WorkerTypes
<1>6. build.retries \in Nat /\ ev.attempt \in Attempt
  BY <1>3, <1>5 DEF BuildRow, Delivery
<1>7. ev.attempt \in Nat \ {0} /\ job[ev.attempt] \in JobRow
  BY <1>6, BuilderAssumption DEF Attempt, BuilderInv, RowsInv, RowTypes
<1> QED
  BY <1>1, <1>2, <1>3, <1>4, <1>5, <1>6, <1>7 DEF BuilderInv, HandHolds

\* The calls stand still while the worker moves, and the queue while it only writes rows.
LEMMA WorkerMoves ==
  ASSUME BuilderInv, caller.pc = "none", UNCHANGED caller, RowsInv', WorkerTypes', QueueTypes', HandHolds', BuildGoesOn'
  PROVE  BuilderInv'
BY DEF BuilderInv, CallTypes, CallHolds

LEMMA QueueStands ==
  ASSUME QueueTypes, UNCHANGED queue, bw'.batch \subseteq bw.batch
  PROVE  QueueTypes' /\ DOMAIN queue' = Numbered
BY DEF QueueTypes, Numbered

\* What is left to show of a step that only moves the worker, or only writes the build's row, or a job's.
LEMMA OnlyMoves ==
  ASSUME OperatorBeside = FALSE, BuilderInv, NEW pc \in WorkerPc \ {"idle", "next", "down"}, Turn(pc),
         UNCHANGED <<build, job, latestJob, queue, stagesRun, calls, caller>>, builderFaults' \in 0..MaxBuilderFaults,
         WorkerTypes', bw'.d = bw.d, bw'.batch = bw.batch, bw'.b = bw.b, HandAt'
  PROVE  BuilderInv'
<1>1. caller.pc = "none" /\ bw.d \in Numbered /\ build.status # "cancelled"
      /\ bw.b.status \notin {"none", "cancelled"} /\ bw.b.retries = build.retries
  BY Hand
<1>2. QueueTypes' /\ DOMAIN queue' = Numbered
  BY QueueStands DEF BuilderInv
<1>3. calls \in 0..MaxCalls /\ \A d \in DOMAIN queue' : d \in Numbered /\ queue'[d] = queue[d]
  BY <1>2 DEF BuilderInv, RowsInv, RowTypes
<1>4. RowsInv'
  BY <1>1, <1>3, KeepsRows DEF BuilderInv
<1>5. HandHolds'
  BY <1>1, <1>2 DEF HandHolds, HandRow, Numbered
<1>6. BuildGoesOn'
  BY DEF BuilderInv, BuildGoesOn, LostInRetry, Numbered
<1> QED
  BY <1>1, <1>2, <1>4, <1>5, <1>6, WorkerMoves

LEMMA WritesBuild ==
  ASSUME OperatorBeside = FALSE, BuilderInv, NEW pc \in WorkerPc \ {"idle", "next", "down"}, Turn(pc),
         build' \in BuildRow, build'.retries = build.retries, build'.status \notin {"none", "cancelled"},
         UNCHANGED <<job, latestJob, queue, stagesRun, builderFaults, calls, caller>>,
         WorkerTypes', bw'.d = bw.d, bw'.batch = bw.batch, bw'.b.retries = bw.b.retries,
         bw'.b.status \notin {"none", "cancelled"}, HandAt', BuildGoesOn'
  PROVE  BuilderInv'
<1>1. caller.pc = "none" /\ bw.d \in Numbered /\ bw.b.retries = build.retries
      /\ build.retries < MaxAttempts /\ build.retries \in Nat
  BY Hand
<1>2. QueueTypes' /\ DOMAIN queue' = Numbered
  BY QueueStands DEF BuilderInv
<1>3. calls' \in 0..MaxCalls
  BY DEF BuilderInv, RowsInv, RowTypes
<1>4. RowsInv'
  BY <1>1, <1>3, SavesBuild DEF BuilderInv
<1>5. HandHolds'
  BY <1>1, <1>2 DEF HandHolds, HandRow, Numbered
<1> QED
  BY <1>1, <1>2, <1>4, <1>5, WorkerMoves

LEMMA WritesJob ==
  ASSUME OperatorBeside = FALSE, BuilderInv, NEW pc \in WorkerPc \ {"idle", "next", "down"}, Turn(pc),
         NEW j \in JobRow, SaveJob(ev.attempt, j),
         (Active(j) /\ ReadyFor(ev.attempt, j.stage)) \/ (j.st \in {"succeeded", "failed", "cancelled"} /\ j.stage = j.st),
         JobIsOver(j) \/ \A x \in Numbered : queue[x].attempt = ev.attempt /\ queue[x].subject = "progress"
                                           => queue[x].stage \in Stages,
         UNCHANGED <<build, queue, stagesRun, builderFaults, calls, caller>>,
         WorkerTypes', bw'.d = bw.d, bw'.batch = bw.batch, bw'.b = bw.b, HandAt', BuildGoesOn'
  PROVE  BuilderInv'
<1>1. caller.pc = "none" /\ bw.d \in Numbered /\ bw.b.retries = build.retries
      /\ build.status \notin {"none", "cancelled"} /\ bw.b.status \notin {"none", "cancelled"}
      /\ ev.attempt \in Attempt /\ ev.attempt <= build.retries + 1
  BY Hand
<1>2. QueueTypes' /\ DOMAIN queue' = Numbered
  BY QueueStands DEF BuilderInv
<1>4. RowsInv'
  BY <1>1, SavesJob DEF BuilderInv
<1>5. HandHolds'
  BY <1>1, <1>2 DEF HandHolds, HandRow, Numbered
<1> QED
  BY <1>1, <1>2, <1>4, <1>5, WorkerMoves

\* The latest job is at a stage, or lost there: the build goes on.
LEMMA GoesOnWithJob ==
  ASSUME latestJob' # 0, Active(job'[latestJob']) \/ (job'[latestJob'].st = "failed" /\ ~job'[latestJob'].fin)
  PROVE  BuildGoesOn'
BY DEF BuildGoesOn, LostInRetry

\* The build's row follows the stage its job is at.
LEMMA MarkStageKeeps ==
  ASSUME OperatorBeside = FALSE, BuilderInv, MarkStage
  PROVE  BuilderInv'
<1> DEFINE b == [bw.b EXCEPT !.status = bw.j.stage]
<1>1. Turn("mark") /\ build' = b /\ bw' = [bw EXCEPT !.pc = "run", !.b = b]
      /\ UNCHANGED <<job, latestJob, queue, stagesRun, builderFaults, calls, caller>>
  BY DEF MarkStage, SaveBuild, KeepJobs, KeepRest, to
<1>2. /\ bw.pc = "mark" /\ bw.d \in Numbered /\ caller.pc = "none" /\ ev \in Delivery /\ HandAt
      /\ ev.attempt \in Attempt /\ ev.attempt \in Nat \ {0} /\ ev.attempt <= build.retries + 1
      /\ job[ev.attempt] \in JobRow /\ bw.b \in BuildRow /\ bw.j \in JobRow
      /\ bw.b.retries = build.retries /\ build.retries < MaxAttempts /\ build.retries \in Nat
      /\ build.status \notin {"none", "cancelled"} /\ bw.b.status \notin {"none", "cancelled"}
  BY <1>1, Hand DEF WorkerPc
<1>3. ev.stage \in Stages /\ latestJob = ev.attempt /\ job[ev.attempt] = bw.j /\ Active(bw.j)
  BY <1>2 DEF HandAt, AtStage
<1>4. b \in BuildRow /\ b.retries = build.retries /\ b.status = bw.j.stage /\ b.status \notin {"none", "cancelled"}
  BY <1>2, <1>3, BuilderAssumption DEF BuildRow, Active, InProgress, Ended, Stages
<1> HIDE DEF b
<1>5. /\ bw'.pc = "run" /\ bw'.b = b /\ bw'.d = bw.d /\ bw'.j = bw.j /\ bw'.batch = bw.batch /\ bw'.err = bw.err
      /\ WorkerTypes'
  BY <1>1, <1>2, <1>4 DEF BuilderInv, WorkerTypes, WorkerPc
<1>6. ev' = ev
  BY <1>1, <1>5 DEF ev
<1>7. HandAt'
  <2>1. ev'.stage \in Stages /\ latestJob' = ev'.attempt /\ job'[ev'.attempt] = bw'.j /\ Active(bw'.j)
    BY <1>1, <1>2, <1>3, <1>4, <1>5, <1>6 DEF Numbered, InProgress
  <2> QED
    BY <1>5, <2>1 DEF HandAt, AtStage
<1>8. BuildGoesOn'
  BY <1>1, <1>2, <1>3, <1>4, GoesOnWithJob
<1> QED
  BY <1>1, <1>2, <1>4, <1>5, <1>7, <1>8, WritesBuild DEF WorkerPc

\* The build's row follows the job to its next stage.
LEMMA BuildFollowsJobKeeps ==
  ASSUME OperatorBeside = FALSE, BuilderInv, BuildFollowsJob
  PROVE  BuilderInv'
<1> DEFINE b == [bw.b EXCEPT !.status = bw.j.stage]
<1>1. Turn("follow") /\ build' = b /\ bw' = [bw EXCEPT !.pc = "announce"]
      /\ UNCHANGED <<job, latestJob, queue, stagesRun, builderFaults, calls, caller>>
  BY DEF BuildFollowsJob, SaveBuild, KeepJobs, KeepRest, to
<1>2. /\ bw.pc = "follow" /\ bw.d \in Numbered /\ caller.pc = "none" /\ ev \in Delivery /\ HandAt
      /\ ev.attempt \in Attempt /\ ev.attempt \in Nat \ {0} /\ ev.attempt <= build.retries + 1
      /\ job[ev.attempt] \in JobRow /\ bw.b \in BuildRow /\ bw.j \in JobRow
      /\ bw.b.retries = build.retries /\ build.retries < MaxAttempts /\ build.retries \in Nat
      /\ build.status \notin {"none", "cancelled"} /\ bw.b.status \notin {"none", "cancelled"}
  BY <1>1, Hand DEF WorkerPc
<1>3. ev.stage \in Stages /\ latestJob = ev.attempt /\ job[ev.attempt] = bw.j /\ Active(bw.j)
  BY <1>2 DEF HandAt, AtStage
<1>4. b \in BuildRow /\ b.retries = build.retries /\ b.status = bw.j.stage /\ b.status \notin {"none", "cancelled"}
  BY <1>2, <1>3, BuilderAssumption DEF BuildRow, Active, InProgress, Ended, Stages
<1> HIDE DEF b
<1>5. /\ bw'.pc = "announce" /\ bw'.b = bw.b /\ bw'.d = bw.d /\ bw'.j = bw.j /\ bw'.batch = bw.batch /\ bw'.err = bw.err
      /\ WorkerTypes'
  BY <1>1, <1>2, <1>4 DEF BuilderInv, WorkerTypes, WorkerPc
<1>6. ev' = ev
  BY <1>1, <1>5 DEF ev
<1>7. HandAt'
  <2>1. bw'.j = job'[ev'.attempt] /\ bw'.j # NoJob
    BY <1>1, <1>2, <1>3, <1>4, <1>5, <1>6 DEF Numbered, InProgress, Active, NoJob
  <2> QED
    BY <1>5, <2>1 DEF HandAt, AtStage
<1>8. BuildGoesOn'
  BY <1>1, <1>2, <1>3, <1>4, GoesOnWithJob
<1> QED
  BY <1>1, <1>2, <1>4, <1>5, <1>7, <1>8, WritesBuild DEF WorkerPc

\* A published build is no more in progress.
LEMMA PublishBuildKeeps ==
  ASSUME OperatorBeside = FALSE, BuilderInv, PublishBuild
  PROVE  BuilderInv'
<1> DEFINE b == [bw.b EXCEPT !.status = "published", !.retries = AtLeast(@, ev.attempt - 1)]
<1>1. Turn("publish") /\ build' = b /\ bw' = [bw EXCEPT !.pc = "succeed"]
      /\ UNCHANGED <<job, latestJob, queue, stagesRun, builderFaults, calls, caller>>
  BY DEF PublishBuild, SaveBuild, KeepJobs, KeepRest, to
<1>2. /\ bw.pc = "publish" /\ bw.d \in Numbered /\ caller.pc = "none" /\ ev \in Delivery /\ HandAt
      /\ ev.attempt \in Attempt /\ ev.attempt \in Nat \ {0} /\ ev.attempt <= build.retries + 1
      /\ job[ev.attempt] \in JobRow /\ bw.b \in BuildRow /\ bw.j \in JobRow
      /\ bw.b.retries = build.retries /\ build.retries < MaxAttempts /\ build.retries \in Nat
      /\ build.status \notin {"none", "cancelled"} /\ bw.b.status \notin {"none", "cancelled"}
  BY <1>1, Hand DEF WorkerPc
<1>3. ev.stage \in Stages /\ latestJob = ev.attempt /\ job[ev.attempt] = bw.j /\ Active(bw.j)
  BY <1>2 DEF HandAt, AtStage
<1>4. b \in BuildRow /\ b.retries = build.retries /\ b.status = "published" /\ b.status \notin {"none", "cancelled"}
  <2> DEFINE r == AtLeast(bw.b.retries, ev.attempt - 1)
  <2>1. r = bw.b.retries /\ r \in 0..MaxAttempts
    BY <1>2 DEF AtLeast, BuildRow
  <2>2. b = [bw.b EXCEPT !.status = "published", !.retries = r]
    OBVIOUS
  <2> HIDE DEF r, b
  <2> QED
    BY <1>2, <2>1, <2>2 DEF BuildRow, Ended
<1> HIDE DEF b
<1>5. /\ bw'.pc = "succeed" /\ bw'.b = bw.b /\ bw'.d = bw.d /\ bw'.j = bw.j /\ bw'.batch = bw.batch /\ bw'.err = bw.err
      /\ WorkerTypes'
  BY <1>1, <1>2, <1>4 DEF BuilderInv, WorkerTypes, WorkerPc
<1>6. ev' = ev
  BY <1>1, <1>5 DEF ev
<1>7. HandAt'
  <2>1. build'.status = "published"
    BY <1>1, <1>2, <1>3, <1>4, <1>5, <1>6 DEF Numbered, InProgress
  <2> QED
    BY <1>5, <2>1 DEF HandAt, AtStage
<1>8. BuildGoesOn'
  BY <1>1, <1>2, <1>3, <1>4 DEF BuildGoesOn, InProgress, Stages
<1> QED
  BY <1>1, <1>2, <1>4, <1>5, <1>7, <1>8, WritesBuild DEF WorkerPc

\* A failing stage fails its build first.
LEMMA FailBuildKeeps ==
  ASSUME OperatorBeside = FALSE, BuilderInv, FailBuild
  PROVE  BuilderInv'
<1> DEFINE b == [bw.b EXCEPT !.status = "failed", !.retries = AtLeast(@, ev.attempt - 1)]
<1>1. Turn("fail") /\ build' = b /\ bw' = [bw EXCEPT !.pc = "failjob", !.b = b]
      /\ UNCHANGED <<job, latestJob, queue, stagesRun, builderFaults, calls, caller>>
  BY DEF FailBuild, SaveBuild, KeepJobs, KeepRest, to
<1>2. /\ bw.pc = "fail" /\ bw.d \in Numbered /\ caller.pc = "none" /\ ev \in Delivery /\ HandAt
      /\ ev.attempt \in Attempt /\ ev.attempt \in Nat \ {0} /\ ev.attempt <= build.retries + 1
      /\ job[ev.attempt] \in JobRow /\ bw.b \in BuildRow /\ bw.j \in JobRow
      /\ bw.b.retries = build.retries /\ build.retries < MaxAttempts /\ build.retries \in Nat
      /\ build.status \notin {"none", "cancelled"} /\ bw.b.status \notin {"none", "cancelled"}
  BY <1>1, Hand DEF WorkerPc
<1>3. bw.err = "retryable" => ev.stage \in Stages /\ Active(job[ev.attempt])
  BY <1>2 DEF HandAt, AtStage
<1>4. b \in BuildRow /\ b.retries = build.retries /\ b.status = "failed" /\ b.status \notin {"none", "cancelled"}
  <2> DEFINE r == AtLeast(bw.b.retries, ev.attempt - 1)
  <2>1. r = bw.b.retries /\ r \in 0..MaxAttempts
    BY <1>2 DEF AtLeast, BuildRow
  <2>2. b = [bw.b EXCEPT !.status = "failed", !.retries = r]
    OBVIOUS
  <2> HIDE DEF r, b
  <2> QED
    BY <1>2, <2>1, <2>2 DEF BuildRow, Ended
<1> HIDE DEF b
<1>5. /\ bw'.pc = "failjob" /\ bw'.b = b /\ bw'.d = bw.d /\ bw'.j = bw.j /\ bw'.batch = bw.batch /\ bw'.err = bw.err
      /\ WorkerTypes'
  BY <1>1, <1>2, <1>4 DEF BuilderInv, WorkerTypes, WorkerPc
<1>6. ev' = ev
  BY <1>1, <1>5 DEF ev
<1>7. HandAt'
  <2>1. /\ bw'.err = "retryable" => ev'.stage \in Stages /\ Active(job'[ev'.attempt])
        /\ build'.status = "failed" /\ bw'.b.status = "failed"
    BY <1>1, <1>2, <1>3, <1>4, <1>5, <1>6 DEF Numbered, InProgress
  <2> QED
    BY <1>5, <2>1 DEF HandAt, AtStage
<1>8. BuildGoesOn'
  BY <1>1, <1>2, <1>3, <1>4 DEF BuildGoesOn, InProgress, Stages
<1> QED
  BY <1>1, <1>2, <1>4, <1>5, <1>7, <1>8, WritesBuild DEF WorkerPc

\* A retry puts the build back to the delivery's stage before its job: LostInRetry until the job follows.
LEMMA RetryBuildRowKeeps ==
  ASSUME OperatorBeside = FALSE, BuilderInv, RetryBuildRow
  PROVE  BuilderInv'
<1> DEFINE b == [bw.b EXCEPT !.status = ev.stage]
<1>1. Turn("backbuild") /\ build' = b /\ bw' = [bw EXCEPT !.pc = "backjob"]
      /\ UNCHANGED <<job, latestJob, queue, stagesRun, builderFaults, calls, caller>>
  BY DEF RetryBuildRow, SaveBuild, KeepJobs, KeepRest, to
<1>2. /\ bw.pc = "backbuild" /\ bw.d \in Numbered /\ caller.pc = "none" /\ ev \in Delivery /\ HandAt
      /\ ev.attempt \in Attempt /\ ev.attempt \in Nat \ {0} /\ ev.attempt <= build.retries + 1
      /\ job[ev.attempt] \in JobRow /\ bw.b \in BuildRow /\ bw.j \in JobRow
      /\ bw.b.retries = build.retries /\ build.retries < MaxAttempts /\ build.retries \in Nat
      /\ build.status \notin {"none", "cancelled"} /\ bw.b.status \notin {"none", "cancelled"}
  BY <1>1, Hand DEF WorkerPc
<1>3. /\ ev.stage \in Stages /\ latestJob = ev.attempt /\ job[ev.attempt].st = "failed" /\ ~job[ev.attempt].fin
      /\ \A d \in Numbered : queue[d].attempt = ev.attempt /\ queue[d].subject = "progress" => queue[d].stage \in Stages
  BY <1>2 DEF HandAt, AtStage
<1>4. b \in BuildRow /\ b.retries = build.retries /\ b.status = ev.stage /\ b.status \notin {"none", "cancelled"}
  BY <1>2, <1>3, BuilderAssumption DEF BuildRow, Active, InProgress, Ended, Stages
<1> HIDE DEF b
<1>5. /\ bw'.pc = "backjob" /\ bw'.b = bw.b /\ bw'.d = bw.d /\ bw'.j = bw.j /\ bw'.batch = bw.batch /\ bw'.err = bw.err
      /\ WorkerTypes'
  BY <1>1, <1>2, <1>4 DEF BuilderInv, WorkerTypes, WorkerPc
<1>6. ev' = ev
  BY <1>1, <1>5 DEF ev
<1>7. HandAt'
  <2>1. /\ ev'.stage \in Stages /\ latestJob' = ev'.attempt /\ job'[ev'.attempt].st = "failed" /\ ~job'[ev'.attempt].fin
        /\ \A d \in Numbered' : queue'[d].attempt = ev'.attempt /\ queue'[d].subject = "progress" => queue'[d].stage \in Stages
    BY <1>1, <1>2, <1>3, <1>4, <1>5, <1>6 DEF Numbered, InProgress
  <2> QED
    BY <1>5, <2>1 DEF HandAt, AtStage
<1>8. BuildGoesOn'
  BY <1>1, <1>2, <1>3, <1>4, GoesOnWithJob
<1> QED
  BY <1>1, <1>2, <1>4, <1>5, <1>7, <1>8, WritesBuild DEF WorkerPc

\* A failure that is not retried is written once more.
LEMMA ExhaustRetriesKeeps ==
  ASSUME OperatorBeside = FALSE, BuilderInv, ExhaustRetries
  PROVE  BuilderInv'
<1>1. Turn("exhaust") /\ build' = bw.b /\ bw' = [bw EXCEPT !.pc = "done"]
      /\ UNCHANGED <<job, latestJob, queue, stagesRun, builderFaults, calls, caller>>
  BY DEF ExhaustRetries, SaveBuild, KeepJobs, KeepRest, to
<1>2. /\ bw.pc = "exhaust" /\ bw.d \in Numbered /\ caller.pc = "none" /\ ev \in Delivery /\ HandAt
      /\ ev.attempt \in Attempt /\ ev.attempt \in Nat \ {0} /\ ev.attempt <= build.retries + 1
      /\ job[ev.attempt] \in JobRow /\ bw.b \in BuildRow /\ bw.j \in JobRow
      /\ bw.b.retries = build.retries /\ build.retries < MaxAttempts /\ build.retries \in Nat
      /\ build.status \notin {"none", "cancelled"} /\ bw.b.status \notin {"none", "cancelled"}
  BY <1>1, Hand DEF WorkerPc
<1>3. build.status = "failed" /\ bw.b.status = "failed" /\ job[ev.attempt] # NoJob
  BY <1>2 DEF HandAt
<1>4. /\ bw'.pc = "done" /\ bw'.b = bw.b /\ bw'.d = bw.d /\ bw'.batch = bw.batch /\ WorkerTypes'
  BY <1>1, <1>2 DEF BuilderInv, WorkerTypes, WorkerPc
<1>5. HandAt'
  BY <1>1, <1>3, <1>4 DEF HandAt, AtStage, ev
<1>6. BuildGoesOn'
  BY <1>1, <1>3 DEF BuildGoesOn, InProgress, Stages
<1> QED
  BY <1>1, <1>2, <1>3, <1>4, <1>5, <1>6, WritesBuild DEF WorkerPc

\* While a job is not over, its deliveries name stages it may run.
LEMMA NoneBehind ==
  ASSUME RowsInv, NEW a \in Attempt, Active(job[a]) \/ job[a] = NoJob
  PROVE  \A x \in Numbered : queue[x].attempt = a /\ queue[x].subject = "progress" => queue[x].stage \in Stages
BY DEF RowsInv, DeliveriesInStage, JobIsOver, Active, NoJob

\* The stages are run from the first, each behind the one it builds on.
LEMMA NextStageReady ==
  ASSUME NEW a, NEW s \in Stages, ReadyFor(a, s), <<a, s>> \in stagesRun
  PROVE  NextStage(s) \in Stages /\ ReadyFor(a, NextStage(s))
BY DEF NextStage, ReadyFor, EarlierStages, Stages

\* An active job may run the stage it is at.
LEMMA ActiveReady ==
  ASSUME RowsInv, NEW a \in Attempt, Active(job[a])
  PROVE  ReadyFor(a, job[a].stage) /\ job[a].stage \in Stages
BY DEF RowsInv, JobsInStage, Active, NoJob

\* A job starts at the first stage.
LEMMA CreateJobKeeps ==
  ASSUME OperatorBeside = FALSE, BuilderInv, CreateJob
  PROVE  BuilderInv'
<1> DEFINE j == [st |-> "queued", stage |-> "staging", fin |-> FALSE]
<1>1. Turn("create") /\ SaveJob(ev.attempt, j) /\ bw' = [bw EXCEPT !.pc = "announce", !.j = j]
      /\ UNCHANGED <<build, queue, stagesRun, builderFaults, calls, caller>>
  BY DEF CreateJob, KeepRest, to
<1>2. /\ bw.pc = "create" /\ bw.d \in Numbered /\ caller.pc = "none" /\ ev \in Delivery /\ HandAt
      /\ ev.attempt \in Attempt /\ ev.attempt \in Nat \ {0} /\ ev.attempt <= build.retries + 1
      /\ job[ev.attempt] \in JobRow /\ bw.b \in BuildRow /\ bw.j \in JobRow
      /\ bw.b.retries = build.retries /\ build.retries < MaxAttempts /\ build.retries \in Nat
      /\ build.status \notin {"none", "cancelled"} /\ bw.b.status \notin {"none", "cancelled"}
  BY <1>1, Hand DEF WorkerPc
<1>3. job[ev.attempt] = NoJob
  BY <1>2 DEF HandAt, AtStage
<1>4. j \in JobRow /\ Active(j) /\ ReadyFor(ev.attempt, j.stage)
  BY DEF JobRow, JobStage, Active, Stages, ReadyFor, EarlierStages
<1> HIDE DEF j
<1>5. /\ bw'.pc = "announce" /\ bw'.j = j /\ bw'.b = bw.b /\ bw'.d = bw.d /\ bw'.batch = bw.batch /\ bw'.err = bw.err
      /\ WorkerTypes'
  BY <1>1, <1>2, <1>4 DEF BuilderInv, WorkerTypes, WorkerPc
<1>6. ev' = ev /\ job'[ev.attempt] = j /\ latestJob' = ev.attempt
  BY <1>1, <1>2, <1>5 DEF ev, SaveJob, BuilderInv, RowsInv, RowTypes
<1>7. HandAt'
  <2>1. bw'.j = job'[ev'.attempt] /\ bw'.j # NoJob
    BY <1>1, <1>2, <1>3, <1>4, <1>5, <1>6 DEF Numbered, Active, NoJob
  <2> QED
    BY <1>5, <2>1 DEF HandAt, AtStage
<1>8. BuildGoesOn'
  BY <1>1, <1>2, <1>3, <1>4, <1>6, GoesOnWithJob
<1>9. JobIsOver(j) \/ \A x \in Numbered : queue[x].attempt = ev.attempt /\ queue[x].subject = "progress" => queue[x].stage \in Stages
  BY <1>2, <1>3, NoneBehind DEF BuilderInv
<1> QED
  BY <1>1, <1>2, <1>4, <1>5, <1>7, <1>8, <1>9, WritesJob DEF WorkerPc

\* A stage that ended well brings the job to the next one.
LEMMA QueueNextStageKeeps ==
  ASSUME OperatorBeside = FALSE, BuilderInv, QueueNextStage
  PROVE  BuilderInv'
<1> DEFINE j == [bw.j EXCEPT !.stage = NextStage(@)]
<1>1. Turn("queue") /\ SaveJob(ev.attempt, j) /\ bw' = [bw EXCEPT !.pc = "follow", !.j = j]
      /\ UNCHANGED <<build, queue, stagesRun, builderFaults, calls, caller>>
  BY DEF QueueNextStage, KeepRest, to
<1>2. /\ bw.pc = "queue" /\ bw.d \in Numbered /\ caller.pc = "none" /\ ev \in Delivery /\ HandAt
      /\ ev.attempt \in Attempt /\ ev.attempt \in Nat \ {0} /\ ev.attempt <= build.retries + 1
      /\ job[ev.attempt] \in JobRow /\ bw.b \in BuildRow /\ bw.j \in JobRow
      /\ bw.b.retries = build.retries /\ build.retries < MaxAttempts /\ build.retries \in Nat
      /\ build.status \notin {"none", "cancelled"} /\ bw.b.status \notin {"none", "cancelled"}
  BY <1>1, Hand DEF WorkerPc
<1>3. ev.stage \in Stages /\ latestJob = ev.attempt /\ job[ev.attempt] = bw.j /\ Active(bw.j) /\ <<ev.attempt, bw.j.stage>> \in stagesRun
  BY <1>2 DEF HandAt, AtStage
<1>4. j \in JobRow /\ Active(j) /\ ReadyFor(ev.attempt, j.stage)
  <2>1. bw.j.stage \in Stages /\ ReadyFor(ev.attempt, bw.j.stage)
    BY <1>2, <1>3, ActiveReady DEF BuilderInv
  <2>2. NextStage(bw.j.stage) \in Stages /\ ReadyFor(ev.attempt, NextStage(bw.j.stage))
    BY <1>3, <2>1, NextStageReady
  <2>3. j \in JobRow /\ j.stage = NextStage(bw.j.stage) /\ j.st = bw.j.st /\ j.fin = bw.j.fin
    BY <1>2, <2>2 DEF JobRow, JobStage
  <2> QED
    BY <1>3, <2>2, <2>3 DEF Active
<1> HIDE DEF j
<1>5. /\ bw'.pc = "follow" /\ bw'.j = j /\ bw'.b = bw.b /\ bw'.d = bw.d /\ bw'.batch = bw.batch /\ bw'.err = bw.err
      /\ WorkerTypes'
  BY <1>1, <1>2, <1>4 DEF BuilderInv, WorkerTypes, WorkerPc
<1>6. ev' = ev /\ job'[ev.attempt] = j /\ latestJob' = ev.attempt
  BY <1>1, <1>2, <1>5 DEF ev, SaveJob, BuilderInv, RowsInv, RowTypes
<1>7. HandAt'
  <2>1. ev'.stage \in Stages /\ latestJob' = ev'.attempt /\ job'[ev'.attempt] = bw'.j /\ Active(bw'.j)
    BY <1>1, <1>2, <1>3, <1>4, <1>5, <1>6 DEF Numbered
  <2> QED
    BY <1>5, <2>1 DEF HandAt, AtStage
<1>8. BuildGoesOn'
  BY <1>1, <1>2, <1>3, <1>4, <1>6, GoesOnWithJob
<1>9. JobIsOver(j) \/ \A x \in Numbered : queue[x].attempt = ev.attempt /\ queue[x].subject = "progress" => queue[x].stage \in Stages
  BY <1>2, <1>3, NoneBehind DEF BuilderInv
<1> QED
  BY <1>1, <1>2, <1>4, <1>5, <1>7, <1>8, <1>9, WritesJob DEF WorkerPc

\* The job of a published build is over.
LEMMA SucceedJobKeeps ==
  ASSUME OperatorBeside = FALSE, BuilderInv, SucceedJob
  PROVE  BuilderInv'
<1> DEFINE j == [st |-> "succeeded", stage |-> "succeeded", fin |-> TRUE]
<1>1. Turn("succeed") /\ SaveJob(ev.attempt, j) /\ bw' = [bw EXCEPT !.pc = "done"]
      /\ UNCHANGED <<build, queue, stagesRun, builderFaults, calls, caller>>
  BY DEF SucceedJob, KeepRest, to
<1>2. /\ bw.pc = "succeed" /\ bw.d \in Numbered /\ caller.pc = "none" /\ ev \in Delivery /\ HandAt
      /\ ev.attempt \in Attempt /\ ev.attempt \in Nat \ {0} /\ ev.attempt <= build.retries + 1
      /\ job[ev.attempt] \in JobRow /\ bw.b \in BuildRow /\ bw.j \in JobRow
      /\ bw.b.retries = build.retries /\ build.retries < MaxAttempts /\ build.retries \in Nat
      /\ build.status \notin {"none", "cancelled"} /\ bw.b.status \notin {"none", "cancelled"}
  BY <1>1, Hand DEF WorkerPc
<1>3. build.status = "published"
  BY <1>2 DEF HandAt, AtStage
<1>4. j \in JobRow /\ j.st = "succeeded" /\ j.stage = j.st /\ j # NoJob /\ JobIsOver(j)
  BY DEF JobRow, JobStage, NoJob, JobIsOver
<1> HIDE DEF j
<1>5. /\ bw'.pc = "done" /\ bw'.j = bw.j /\ bw'.b = bw.b /\ bw'.d = bw.d /\ bw'.batch = bw.batch /\ bw'.err = bw.err
      /\ WorkerTypes'
  BY <1>1, <1>2, <1>4 DEF BuilderInv, WorkerTypes, WorkerPc
<1>6. ev' = ev /\ job'[ev.attempt] = j /\ latestJob' = ev.attempt
  BY <1>1, <1>2, <1>5 DEF ev, SaveJob, BuilderInv, RowsInv, RowTypes
<1>7. HandAt'
  <2>1. job'[ev'.attempt] # NoJob
    BY <1>1, <1>2, <1>3, <1>4, <1>5, <1>6 DEF Numbered
  <2> QED
    BY <1>5, <2>1 DEF HandAt, AtStage
<1>8. BuildGoesOn'
  BY <1>1, <1>2, <1>3, <1>4, <1>6 DEF BuildGoesOn, InProgress, Stages
<1>9. JobIsOver(j) \/ \A x \in Numbered : queue[x].attempt = ev.attempt /\ queue[x].subject = "progress" => queue[x].stage \in Stages
  BY <1>4
<1> QED
  BY <1>1, <1>2, <1>4, <1>5, <1>7, <1>8, <1>9, WritesJob DEF WorkerPc

\* A failing stage fails its job behind its build; only a retry leaves the job unfinished.
LEMMA FailJobKeeps ==
  ASSUME OperatorBeside = FALSE, BuilderInv, FailJob
  PROVE  BuilderInv'
<1> DEFINE j == [st |-> "failed", stage |-> "failed", fin |-> ~Retries]
<1>1. Turn("failjob") /\ SaveJob(ev.attempt, j) /\ bw' = [bw EXCEPT !.pc = IF Retries THEN "backbuild" ELSE "exhaust"]
      /\ UNCHANGED <<build, queue, stagesRun, builderFaults, calls, caller>>
  BY DEF FailJob, KeepRest, to
<1>2. /\ bw.pc = "failjob" /\ bw.d \in Numbered /\ caller.pc = "none" /\ ev \in Delivery /\ HandAt
      /\ ev.attempt \in Attempt /\ ev.attempt \in Nat \ {0} /\ ev.attempt <= build.retries + 1
      /\ job[ev.attempt] \in JobRow /\ bw.b \in BuildRow /\ bw.j \in JobRow
      /\ bw.b.retries = build.retries /\ build.retries < MaxAttempts /\ build.retries \in Nat
      /\ build.status \notin {"none", "cancelled"} /\ bw.b.status \notin {"none", "cancelled"}
  BY <1>1, Hand DEF WorkerPc
<1>3. /\ build.status = "failed" /\ bw.b.status = "failed" /\ (Retries => bw.err = "retryable")
      /\ bw.err = "retryable" => ev.stage \in Stages /\ Active(job[ev.attempt])
  BY <1>2 DEF HandAt, AtStage, Retries
<1>4. j \in JobRow /\ j.st = "failed" /\ j.stage = j.st /\ j # NoJob /\ JobIsOver(j) /\ (Retries => ~j.fin)
  BY DEF JobRow, JobStage, NoJob, JobIsOver
<1> HIDE DEF j
<1>5. /\ bw'.pc = (IF Retries THEN "backbuild" ELSE "exhaust") /\ bw'.j = bw.j /\ bw'.b = bw.b /\ bw'.d = bw.d /\ bw'.batch = bw.batch /\ bw'.err = bw.err
      /\ WorkerTypes'
  BY <1>1, <1>2, <1>4 DEF BuilderInv, WorkerTypes, WorkerPc
<1>6. ev' = ev /\ job'[ev.attempt] = j /\ latestJob' = ev.attempt
  BY <1>1, <1>2, <1>5 DEF ev, SaveJob, BuilderInv, RowsInv, RowTypes
<1>7. HandAt'
  <2>1. CASE Retries
    <3>1. /\ ev'.stage \in Stages /\ latestJob' = ev'.attempt /\ job'[ev'.attempt].st = "failed" /\ ~job'[ev'.attempt].fin
          /\ \A d \in Numbered : queue[d].attempt = ev.attempt /\ queue[d].subject = "progress" => queue[d].stage \in Stages
      BY <1>2, <1>3, <1>4, <1>6, <2>1, NoneBehind DEF BuilderInv
    <3> QED
      BY <1>1, <1>5, <1>6, <2>1, <3>1 DEF HandAt, AtStage, Numbered
  <2>2. CASE ~Retries
    <3>1. bw'.pc = "exhaust" /\ build'.status = "failed" /\ bw'.b.status = "failed" /\ job'[ev'.attempt] # NoJob
      BY <1>1, <1>3, <1>4, <1>5, <1>6, <2>2
    <3> QED
      BY <3>1 DEF HandAt, AtStage
  <2> QED
    BY <2>1, <2>2
<1>8. BuildGoesOn'
  BY <1>1, <1>2, <1>3, <1>4, <1>6 DEF BuildGoesOn, InProgress, Stages
<1>9. JobIsOver(j) \/ \A x \in Numbered : queue[x].attempt = ev.attempt /\ queue[x].subject = "progress" => queue[x].stage \in Stages
  BY <1>4
<1> QED
  BY <1>1, <1>2, <1>4, <1>5, <1>7, <1>8, <1>9, WritesJob DEF WorkerPc

\* The job goes back to the delivery's stage, behind its build.
LEMMA RetryJobRowKeeps ==
  ASSUME OperatorBeside = FALSE, BuilderInv, RetryJobRow
  PROVE  BuilderInv'
<1> DEFINE j == [st |-> "queued", stage |-> ev.stage, fin |-> FALSE]
<1>1. Turn("backjob") /\ SaveJob(ev.attempt, j) /\ bw' = [bw EXCEPT !.pc = "redeliver"]
      /\ UNCHANGED <<build, queue, stagesRun, builderFaults, calls, caller>>
  BY DEF RetryJobRow, KeepRest, to
<1>2. /\ bw.pc = "backjob" /\ bw.d \in Numbered /\ caller.pc = "none" /\ ev \in Delivery /\ HandAt
      /\ ev.attempt \in Attempt /\ ev.attempt \in Nat \ {0} /\ ev.attempt <= build.retries + 1
      /\ job[ev.attempt] \in JobRow /\ bw.b \in BuildRow /\ bw.j \in JobRow
      /\ bw.b.retries = build.retries /\ build.retries < MaxAttempts /\ build.retries \in Nat
      /\ build.status \notin {"none", "cancelled"} /\ bw.b.status \notin {"none", "cancelled"}
  BY <1>1, Hand DEF WorkerPc
<1>3. /\ ev.stage \in Stages /\ ReadyFor(ev.attempt, ev.stage)
      /\ \A d \in Numbered : queue[d].attempt = ev.attempt /\ queue[d].subject = "progress" => queue[d].stage \in Stages
  BY <1>2, <1>1, Hand DEF HandAt, AtStage, WorkerPc
<1>4. j \in JobRow /\ Active(j) /\ ReadyFor(ev.attempt, j.stage) /\ j # NoJob
  BY <1>3 DEF JobRow, JobStage, Active, Stages, NoJob
<1> HIDE DEF j
<1>5. /\ bw'.pc = "redeliver" /\ bw'.j = bw.j /\ bw'.b = bw.b /\ bw'.d = bw.d /\ bw'.batch = bw.batch /\ bw'.err = bw.err
      /\ WorkerTypes'
  BY <1>1, <1>2, <1>4 DEF BuilderInv, WorkerTypes, WorkerPc
<1>6. ev' = ev /\ job'[ev.attempt] = j /\ latestJob' = ev.attempt
  BY <1>1, <1>2, <1>5 DEF ev, SaveJob, BuilderInv, RowsInv, RowTypes
<1>7. HandAt'
  <2>1. job'[ev'.attempt] # NoJob
    BY <1>1, <1>2, <1>3, <1>4, <1>5, <1>6 DEF Numbered
  <2> QED
    BY <1>5, <2>1 DEF HandAt, AtStage
<1>8. BuildGoesOn'
  BY <1>1, <1>2, <1>3, <1>4, <1>6, GoesOnWithJob
<1>9. JobIsOver(j) \/ \A x \in Numbered : queue[x].attempt = ev.attempt /\ queue[x].subject = "progress" => queue[x].stage \in Stages
  BY <1>3
<1> QED
  BY <1>1, <1>2, <1>4, <1>5, <1>7, <1>8, <1>9, WritesJob DEF WorkerPc

\* A stage starts only for a job that is not over, at a stage it may run.
LEMMA AdvanceJobKeeps ==
  ASSUME OperatorBeside = FALSE, BuilderInv, AdvanceJob
  PROVE  BuilderInv'
<1> DEFINE j == [job[ev.attempt] EXCEPT !.st = "running"]
<1>1. Turn("advance") /\ UNCHANGED <<build, queue, stagesRun, builderFaults, calls, caller>>
  BY DEF AdvanceJob, KeepRest
<1>2. /\ bw.pc = "advance" /\ bw.d \in Numbered /\ caller.pc = "none" /\ ev \in Delivery /\ HandAt
      /\ ev.attempt \in Attempt /\ ev.attempt \in Nat \ {0} /\ ev.attempt <= build.retries + 1
      /\ job[ev.attempt] \in JobRow /\ bw.b \in BuildRow /\ bw.j \in JobRow
      /\ bw.b.retries = build.retries /\ build.retries < MaxAttempts /\ build.retries \in Nat
      /\ build.status \notin {"none", "cancelled"} /\ bw.b.status \notin {"none", "cancelled"}
  BY <1>1, Hand DEF WorkerPc
<1>3. ev.subject = "progress"
  BY <1>2 DEF HandAt
<1>4. CASE job[ev.attempt] = NoJob
  <2>1. bw' = [bw EXCEPT !.pc = "fail", !.err = "fatal"] /\ UNCHANGED <<job, latestJob>>
    BY <1>4 DEF AdvanceJob, KeepJobs, to
  <2>2. bw'.pc = "fail" /\ bw'.err = "fatal" /\ bw'.b = bw.b /\ bw'.d = bw.d /\ bw'.batch = bw.batch /\ WorkerTypes'
    BY <2>1 DEF BuilderInv, WorkerTypes, WorkerPc, StageErrors
  <2> QED
    BY <1>1, <2>1, <2>2, OnlyMoves DEF WorkerPc, HandAt, AtStage, BuilderInv, RowsInv, RowTypes
<1>5. CASE job[ev.attempt] # NoJob /\ JobIsOver(job[ev.attempt])
  <2>1. bw' = [bw EXCEPT !.pc = "done"] /\ UNCHANGED <<job, latestJob>>
    BY <1>5 DEF AdvanceJob, KeepJobs, to
  <2>2. bw'.pc = "done" /\ bw'.b = bw.b /\ bw'.d = bw.d /\ bw'.batch = bw.batch /\ WorkerTypes'
    BY <2>1 DEF BuilderInv, WorkerTypes, WorkerPc
  <2>3. HandAt'
    BY <1>1, <1>5, <2>1, <2>2 DEF HandAt, AtStage, ev
  <2> QED
    BY <1>1, <2>1, <2>2, <2>3, OnlyMoves DEF WorkerPc, BuilderInv, RowsInv, RowTypes
<1>6. CASE job[ev.attempt] # NoJob /\ ~JobIsOver(job[ev.attempt])
  <2>1. SaveJob(ev.attempt, j) /\ bw' = [bw EXCEPT !.pc = "mark", !.j = j]
    BY <1>6 DEF AdvanceJob, to
  <2>2. Active(job[ev.attempt]) /\ ReadyFor(ev.attempt, job[ev.attempt].stage)
    BY <1>2, <1>6 DEF BuilderInv, RowsInv, JobsInStage, JobIsOver
  <2>3. j \in JobRow /\ Active(j) /\ j.stage = job[ev.attempt].stage
    BY <1>2, <2>2 DEF JobRow, Active
  <2>4. ev.stage \in Stages
    BY <1>2, <1>3, <1>6 DEF BuilderInv, RowsInv, DeliveriesInStage, ev
  <2> HIDE DEF j
  <2>5. bw'.pc = "mark" /\ bw'.j = j /\ bw'.b = bw.b /\ bw'.d = bw.d /\ bw'.batch = bw.batch /\ WorkerTypes'
    BY <2>1, <2>3 DEF BuilderInv, WorkerTypes, WorkerPc
  <2>6. ev' = ev /\ job'[ev.attempt] = j /\ latestJob' = ev.attempt
    BY <1>1, <1>2, <2>1, <2>5 DEF ev, SaveJob, BuilderInv, RowsInv, RowTypes
  <2>7. HandAt'
    <3>1. ev'.stage \in Stages /\ latestJob' = ev'.attempt /\ job'[ev'.attempt] = bw'.j /\ Active(bw'.j)
      BY <2>3, <2>4, <2>5, <2>6
    <3> QED
      BY <2>5, <3>1 DEF HandAt, AtStage
  <2>8. BuildGoesOn'
    BY <1>2, <2>3, <2>6, GoesOnWithJob
  <2>9. \A x \in Numbered : queue[x].attempt = ev.attempt /\ queue[x].subject = "progress" => queue[x].stage \in Stages
    BY <1>2, <2>2, NoneBehind DEF BuilderInv
  <2> QED
    BY <1>1, <2>1, <2>2, <2>3, <2>5, <2>7, <2>8, <2>9, WritesJob DEF WorkerPc
<1> QED
  BY <1>4, <1>5, <1>6

\* A build that asks for what cannot be built fails; an attempt's job is made once.
LEMMA InitializeJobKeeps ==
  ASSUME OperatorBeside = FALSE, BuilderInv, InitializeJob
  PROVE  BuilderInv'
<1> DEFINE b == [bw.b EXCEPT !.status = "staging"]
           j == job[ev.attempt]
<1>1. Turn("init") /\ UNCHANGED <<queue, caller, builderFaults, calls>>
  BY DEF InitializeJob, KeepRest
<1>2. /\ bw.pc = "init" /\ bw.d \in Numbered /\ caller.pc = "none" /\ ev \in Delivery /\ HandAt
      /\ ev.attempt \in Attempt /\ ev.attempt \in Nat \ {0} /\ ev.attempt <= build.retries + 1
      /\ job[ev.attempt] \in JobRow /\ bw.b \in BuildRow /\ bw.j \in JobRow
      /\ bw.b.retries = build.retries /\ build.retries < MaxAttempts /\ build.retries \in Nat
      /\ build.status \notin {"none", "cancelled"} /\ bw.b.status \notin {"none", "cancelled"}
  BY <1>1, Hand DEF WorkerPc
<1>3. ev.subject = "accepted"
  BY <1>2 DEF HandAt
<1>4. CASE ~bw.b.valid
  <2>1. bw' = [bw EXCEPT !.pc = "fail", !.err = "fatal"] /\ UNCHANGED <<build, job, latestJob, stagesRun>>
    BY <1>4 DEF InitializeJob, KeepRows, to
  <2>2. bw'.pc = "fail" /\ bw'.err = "fatal" /\ bw'.b = bw.b /\ bw'.d = bw.d /\ bw'.batch = bw.batch /\ WorkerTypes'
    BY <2>1 DEF BuilderInv, WorkerTypes, WorkerPc, StageErrors
  <2> QED
    BY <1>1, <2>1, <2>2, OnlyMoves DEF WorkerPc, HandAt, AtStage, BuilderInv, RowsInv, RowTypes
<1>5. CASE bw.b.valid /\ j # NoJob
  <2>1. bw' = [bw EXCEPT !.pc = "announce", !.j = j] /\ UNCHANGED <<build, job, latestJob, stagesRun>>
    BY <1>5 DEF InitializeJob, KeepRows, to
  <2>2. j \in JobRow
    BY <1>2
  <2> HIDE DEF j
  <2>3. /\ bw'.pc = "announce" /\ bw'.j = j /\ bw'.b = bw.b /\ bw'.d = bw.d /\ bw'.batch = bw.batch
        /\ WorkerTypes'
    BY <2>1, <2>2 DEF BuilderInv, WorkerTypes, WorkerPc
  <2> USE DEF j
  <2>4. HandAt'
    BY <1>1, <1>5, <2>1, <2>3 DEF HandAt, AtStage, ev
  <2> QED
    BY <1>1, <2>1, <2>3, <2>4, OnlyMoves DEF WorkerPc, BuilderInv, RowsInv, RowTypes
<1>6. CASE bw.b.valid /\ j = NoJob
  <2>1. build' = b /\ bw' = [bw EXCEPT !.pc = "create", !.b = b] /\ UNCHANGED <<job, latestJob, stagesRun>>
    BY <1>6 DEF InitializeJob, SaveBuild, KeepJobs, to
  <2>2. b \in BuildRow /\ b.retries = build.retries /\ b.status = "staging"
    BY <1>2 DEF BuildRow, Stages, InProgress
  <2> HIDE DEF b
  <2>3. bw'.pc = "create" /\ bw'.b = b /\ bw'.d = bw.d /\ bw'.batch = bw.batch /\ WorkerTypes'
    BY <2>1, <2>2 DEF BuilderInv, WorkerTypes, WorkerPc
  <2>4. HandAt'
    BY <1>1, <1>3, <1>6, <2>1, <2>3 DEF HandAt, AtStage, ev
  <2>5. BuildGoesOn'
    BY <1>1, <1>2, <1>3, <1>6, <2>1 DEF BuildGoesOn, ev, Numbered
  <2> QED
    BY <1>1, <1>2, <2>1, <2>2, <2>3, <2>4, <2>5, WritesBuild DEF WorkerPc
<1> QED
  BY <1>4, <1>5, <1>6

\* A stage ends well: the ones it builds on ended before it.
LEMMA RunStageKeeps ==
  ASSUME OperatorBeside = FALSE, BuilderInv, RunStage
  PROVE  BuilderInv'
<1>1. Turn("run") /\ stagesRun' = stagesRun \cup {<<ev.attempt, bw.j.stage>>} /\ bw' = [bw EXCEPT !.pc = "report"]
      /\ UNCHANGED <<build, job, latestJob, queue, builderFaults, calls, caller>>
  BY DEF RunStage, KeepJobs, KeepRest, to
<1>2. /\ bw.pc = "run" /\ bw.d \in Numbered /\ caller.pc = "none" /\ ev \in Delivery /\ HandAt
      /\ ev.attempt \in Attempt /\ ev.attempt \in Nat \ {0} /\ ev.attempt <= build.retries + 1
      /\ job[ev.attempt] \in JobRow /\ bw.b \in BuildRow /\ bw.j \in JobRow
      /\ bw.b.retries = build.retries /\ build.retries < MaxAttempts /\ build.retries \in Nat
      /\ build.status \notin {"none", "cancelled"} /\ bw.b.status \notin {"none", "cancelled"}
  BY <1>1, Hand DEF WorkerPc
<1>3. ev.stage \in Stages /\ latestJob = ev.attempt /\ job[ev.attempt] = bw.j /\ Active(bw.j)
  BY <1>2 DEF HandAt, AtStage
<1>4. bw.j.stage \in Stages /\ ReadyFor(ev.attempt, bw.j.stage)
  BY <1>2, <1>3, ActiveReady DEF BuilderInv
<1>5. bw'.pc = "report" /\ bw'.j = bw.j /\ bw'.b = bw.b /\ bw'.d = bw.d /\ bw'.batch = bw.batch /\ WorkerTypes'
  BY <1>1 DEF BuilderInv, WorkerTypes, WorkerPc
<1>6. ev' = ev
  BY <1>1, <1>5 DEF ev
<1>7. HandAt'
  <2>1. /\ ev'.stage \in Stages /\ latestJob' = ev'.attempt /\ job'[ev'.attempt] = bw'.j /\ Active(bw'.j)
        /\ <<ev'.attempt, bw'.j.stage>> \in stagesRun'
    BY <1>1, <1>3, <1>5, <1>6
  <2> QED
    BY <1>5, <2>1 DEF HandAt, AtStage
<1>8. BuildGoesOn'
  BY <1>1, <1>2, <1>3, GoesOnWithJob
<1>9. RowsInv'
  <2>1. StagesInOrder'
    <3>1. SUFFICES ASSUME NEW r \in stagesRun', NEW s \in EarlierStages(r[2]) PROVE <<r[1], s>> \in stagesRun'
      BY DEF StagesInOrder
    <3>2. CASE r \in stagesRun
      BY <1>1, <3>2 DEF BuilderInv, RowsInv, StagesInOrder
    <3>3. CASE r = <<ev.attempt, bw.j.stage>>
      BY <1>1, <1>4, <3>3 DEF ReadyFor
    <3> QED
      BY <1>1, <3>2, <3>3
  <2>2. RowTypes'
    BY <1>1, <1>2, <1>4 DEF BuilderInv, RowsInv, RowTypes
  <2>3. JobsInStage'
    BY <1>1, <1>2, JobsKept DEF BuilderInv, RowsInv
  <2>4. \A d \in DOMAIN queue' : d \in Numbered /\ queue'[d] = queue[d]
    BY <1>1 DEF Numbered
  <2>5. DeliveriesInStage'
    BY <1>1, <1>2, <2>4, DeliveriesKept DEF BuilderInv, RowsInv
  <2> QED
    BY <1>1, <2>1, <2>2, <2>3, <2>5 DEF BuilderInv, RowsInv, NothingBefore
<1>10. QueueTypes' /\ DOMAIN queue' = Numbered
  BY <1>1, <1>5, QueueStands DEF BuilderInv
<1>11. HandHolds'
  BY <1>1, <1>2, <1>5, <1>7, <1>10 DEF HandHolds, HandRow, Numbered
<1> QED
  BY <1>1, <1>2, <1>5, <1>8, <1>9, <1>10, <1>11, WorkerMoves

\* A stage fails, in a way worth a retry or not.
LEMMA StageFailsKeeps ==
  ASSUME OperatorBeside = FALSE, BuilderInv, NEW err \in StageErrors, StageFails(err)
  PROVE  BuilderInv'
<1>1. Turn("run") /\ bw' = [bw EXCEPT !.pc = "fail", !.err = err] /\ builderFaults' = builderFaults + 1
      /\ builderFaults < MaxBuilderFaults /\ UNCHANGED <<build, job, latestJob, stagesRun, queue, calls, caller>>
  BY DEF StageFails, KeepRows, to
<1>2. /\ bw.pc = "run" /\ bw.d \in Numbered /\ caller.pc = "none" /\ ev \in Delivery /\ HandAt
      /\ ev.attempt \in Attempt /\ ev.attempt \in Nat \ {0} /\ ev.attempt <= build.retries + 1
      /\ job[ev.attempt] \in JobRow /\ bw.b \in BuildRow /\ bw.j \in JobRow
      /\ bw.b.retries = build.retries /\ build.retries < MaxAttempts /\ build.retries \in Nat
      /\ build.status \notin {"none", "cancelled"} /\ bw.b.status \notin {"none", "cancelled"}
  BY <1>1, Hand DEF WorkerPc
<1>3. ev.stage \in Stages /\ job[ev.attempt] = bw.j /\ Active(bw.j)
  BY <1>2 DEF HandAt, AtStage
<1>4. bw'.pc = "fail" /\ bw'.b = bw.b /\ bw'.d = bw.d /\ bw'.batch = bw.batch /\ WorkerTypes'
  BY <1>1 DEF BuilderInv, WorkerTypes, WorkerPc, StageErrors
<1>5. ev' = ev
  BY <1>1, <1>4 DEF ev
<1>6. HandAt'
  <2>1. ev'.stage \in Stages /\ Active(job'[ev'.attempt])
    BY <1>1, <1>3, <1>5
  <2> QED
    BY <1>4, <2>1 DEF HandAt, AtStage
<1>7. builderFaults' \in 0..MaxBuilderFaults
  BY <1>1, BuilderAssumption DEF BuilderInv, RowsInv, RowTypes
<1> QED
  BY <1>1, <1>4, <1>6, <1>7, OnlyMoves DEF WorkerPc

\* A job's stage is announced, whatever it is: behind a job that is over no stage is run.
LEMMA AnnounceStageKeeps ==
  ASSUME OperatorBeside = FALSE, BuilderInv, AnnounceStage
  PROVE  BuilderInv'
<1> DEFINE x == Progress(ev.attempt, bw.j.stage)
<1>1. Turn("announce") /\ Room /\ queue' = Put(x) /\ bw' = [bw EXCEPT !.pc = "done"]
      /\ UNCHANGED <<build, job, latestJob, stagesRun, builderFaults, calls, caller>>
  BY DEF AnnounceStage, KeepRows, KeepRest, to
<1>2. /\ bw.pc = "announce" /\ bw.d \in Numbered /\ caller.pc = "none" /\ ev \in Delivery /\ HandAt
      /\ ev.attempt \in Attempt /\ ev.attempt \in Nat \ {0} /\ ev.attempt <= build.retries + 1
      /\ job[ev.attempt] \in JobRow /\ bw.b \in BuildRow /\ bw.j \in JobRow
      /\ bw.b.retries = build.retries /\ build.retries < MaxAttempts /\ build.retries \in Nat
      /\ build.status \notin {"none", "cancelled"} /\ bw.b.status \notin {"none", "cancelled"}
  BY <1>1, Hand DEF WorkerPc
<1>3. bw.j = job[ev.attempt] /\ bw.j # NoJob
  BY <1>2 DEF HandAt, AtStage
<1>4. /\ bw'.pc = "done" /\ bw'.j = bw.j /\ bw'.b = bw.b /\ bw'.d = bw.d /\ bw'.batch = bw.batch
      /\ WorkerTypes'
  BY <1>1 DEF BuilderInv, WorkerTypes, WorkerPc
<1>5. /\ x \in Delivery /\ x.attempt = ev.attempt /\ ReadyFor(x.attempt, x.stage)
      /\ x.stage \notin Stages => JobIsOver(job[x.attempt])
  <2>1. /\ x = [subject |-> "progress", attempt |-> ev.attempt, stage |-> bw.j.stage, st |-> "pending"]
        /\ bw.j.stage \in JobStage
    BY <1>2 DEF Progress, JobRow
  <2>2. x \in Delivery
    BY <1>2, <2>1 DEF Delivery
  <2>3. \/ Active(bw.j) /\ ReadyFor(ev.attempt, bw.j.stage)
        \/ bw.j.st \in {"succeeded", "failed", "cancelled"} /\ bw.j.stage = bw.j.st
    BY <1>2, <1>3 DEF BuilderInv, RowsInv, JobsInStage
  <2>4. ReadyFor(ev.attempt, bw.j.stage) /\ (bw.j.stage \notin Stages => JobIsOver(bw.j))
    BY <2>3 DEF ReadyFor, Active, Stages, JobIsOver
  <2> QED
    BY <1>3, <2>1, <2>2, <2>4
<1> HIDE DEF x
<1>6. /\ RowsInv' /\ QueueTypes'
      /\ \A d \in Numbered : d \in DOMAIN queue' /\ queue'[d] = queue[d]
  BY <1>1, <1>2, <1>4, <1>5, Puts DEF BuilderInv
<1>7. ev' = ev /\ bw'.d \in DOMAIN queue'
  BY <1>2, <1>4, <1>6 DEF ev
<1>8. HandHolds'
  <2>1. bw'.pc = "done" /\ job'[ev'.attempt] # NoJob
    BY <1>1, <1>3, <1>4, <1>7
  <2> QED
    BY <1>1, <1>2, <1>4, <1>7, <2>1 DEF HandHolds, HandRow, HandAt, AtStage, Numbered
<1>9. BuildGoesOn'
  BY <1>1, <1>6 DEF BuilderInv, BuildGoesOn, LostInRetry, Numbered
<1> QED
  BY <1>1, <1>2, <1>4, <1>6, <1>8, <1>9, WorkerMoves

\* The stage that ended is reported before the job goes on.
LEMMA ReportStageKeeps ==
  ASSUME OperatorBeside = FALSE, BuilderInv, ReportStage
  PROVE  BuilderInv'
<1> DEFINE x == Progress(ev.attempt, bw.j.stage)
<1>1. Turn("report") /\ Room /\ queue' = Put(x) /\ bw' = [bw EXCEPT !.pc = (IF bw.j.stage = "publishing" THEN "publish" ELSE "queue")]
      /\ UNCHANGED <<build, job, latestJob, stagesRun, builderFaults, calls, caller>>
  BY DEF ReportStage, KeepRows, KeepRest, to
<1>2. /\ bw.pc = "report" /\ bw.d \in Numbered /\ caller.pc = "none" /\ ev \in Delivery /\ HandAt
      /\ ev.attempt \in Attempt /\ ev.attempt \in Nat \ {0} /\ ev.attempt <= build.retries + 1
      /\ job[ev.attempt] \in JobRow /\ bw.b \in BuildRow /\ bw.j \in JobRow
      /\ bw.b.retries = build.retries /\ build.retries < MaxAttempts /\ build.retries \in Nat
      /\ build.status \notin {"none", "cancelled"} /\ bw.b.status \notin {"none", "cancelled"}
  BY <1>1, Hand DEF WorkerPc
<1>3. ev.stage \in Stages /\ latestJob = ev.attempt /\ job[ev.attempt] = bw.j /\ Active(bw.j) /\ <<ev.attempt, bw.j.stage>> \in stagesRun
  BY <1>2 DEF HandAt, AtStage
<1>4. /\ bw'.pc = (IF bw.j.stage = "publishing" THEN "publish" ELSE "queue") /\ bw'.j = bw.j /\ bw'.b = bw.b /\ bw'.d = bw.d /\ bw'.batch = bw.batch
      /\ WorkerTypes'
  BY <1>1 DEF BuilderInv, WorkerTypes, WorkerPc
<1>5. /\ x \in Delivery /\ x.attempt = ev.attempt /\ ReadyFor(x.attempt, x.stage)
      /\ x.stage \notin Stages => JobIsOver(job[x.attempt])
  <2>1. x = [subject |-> "progress", attempt |-> ev.attempt, stage |-> bw.j.stage, st |-> "pending"]
    BY DEF Progress
  <2>2. bw.j.stage \in Stages /\ ReadyFor(ev.attempt, bw.j.stage)
    BY <1>2, <1>3, ActiveReady DEF BuilderInv
  <2> QED
    BY <1>2, <2>1, <2>2 DEF Delivery, JobStage
<1> HIDE DEF x
<1>6. /\ RowsInv' /\ QueueTypes'
      /\ \A d \in Numbered : d \in DOMAIN queue' /\ queue'[d] = queue[d]
  BY <1>1, <1>2, <1>4, <1>5, Puts DEF BuilderInv
<1>7. ev' = ev /\ bw'.d \in DOMAIN queue'
  BY <1>2, <1>4, <1>6 DEF ev
<1>8. HandHolds'
  <2>1. /\ ev'.stage \in Stages /\ latestJob' = ev'.attempt /\ job'[ev'.attempt] = bw'.j /\ Active(bw'.j)
        /\ <<ev'.attempt, bw'.j.stage>> \in stagesRun' /\ bw'.pc \in {"publish", "queue"}
    BY <1>1, <1>3, <1>4, <1>7
  <2>2. HandAt'
    BY <2>1 DEF HandAt, AtStage
  <2>3. HandRow'
    BY <1>1, <1>2, <1>4, <1>7 DEF HandRow, Numbered
  <2> QED
    BY <2>2, <2>3 DEF HandHolds
<1>9. BuildGoesOn'
  BY <1>1, <1>6 DEF BuilderInv, BuildGoesOn, LostInRetry, Numbered
<1> QED
  BY <1>1, <1>2, <1>4, <1>6, <1>8, <1>9, WorkerMoves

\* A build goes on while no delivery that brings it a job is lost.
LEMMA GoesOnWithQueue ==
  ASSUME BuildGoesOn, UNCHANGED <<build, job, latestJob>>, caller.pc = "accept" => caller'.pc = "accept",
         \A d \in Numbered : queue[d].subject = "accepted" /\ job[queue[d].attempt] = NoJob
            => \E x \in DOMAIN queue' : queue'[x].subject = queue[d].subject /\ queue'[x].attempt = queue[d].attempt
  PROVE  BuildGoesOn'
<1>1. CASE \E d \in Numbered : queue[d].subject = "accepted" /\ job[queue[d].attempt] = NoJob
  <2>1. PICK x \in DOMAIN queue' : queue'[x].subject = "accepted" /\ job'[queue'[x].attempt] = NoJob
    BY <1>1
  <2> QED
    BY <2>1 DEF BuildGoesOn, Numbered
<1> QED
  BY <1>1 DEF BuildGoesOn, LostInRetry

\* Between deliveries nothing is in hand.
LEMMA Between ==
  ASSUME OperatorBeside = FALSE, BuilderInv, Turn("idle") \/ Turn("next")
  PROVE  caller.pc = "none"
BY DEF Turn, MayWork

\* A worker with nothing in hand, and perhaps a batch.
LEMMA HandsEmpty ==
  ASSUME NEW p \in WorkerPc, NEW S \in SUBSET Nat,
         bw' = [pc |-> p, batch |-> S, d |-> 0, b |-> NoBuild, j |-> NoJob, err |-> "none"]
  PROVE  WorkerTypes' /\ bw'.pc = p /\ bw'.batch = S
<1>1. NoBuild \in BuildRow
  BY BuilderAssumption DEF NoBuild, BuildRow
<1>2. NoJob \in JobRow
  BY DEF NoJob, JobRow, JobStage
<1> QED
  BY <1>1, <1>2 DEF WorkerTypes

\* A claim takes the whole batch and only marks it.
LEMMA ClaimBuildsKeeps ==
  ASSUME OperatorBeside = FALSE, BuilderInv, ClaimBuilds
  PROVE  BuilderInv'
<1> DEFINE claimed == {d \in Numbered : queue[d].st = "pending"}
<1>1. Turn("idle") /\ claimed # {} /\ bw' = [bw EXCEPT !.pc = "next", !.batch = claimed]
      /\ queue' = [d \in Numbered |-> IF d \in claimed THEN [queue[d] EXCEPT !.st = "processing"] ELSE queue[d]]
      /\ UNCHANGED <<build, job, latestJob, stagesRun, caller, builderFaults, calls>>
  BY DEF ClaimBuilds, KeepRows, KeepRest, to
<1>2. caller.pc = "none" /\ claimed \subseteq Numbered
  BY <1>1, Between
<1>3. /\ queue' \in Seq(Delivery) /\ Len(queue') = Len(queue) /\ DOMAIN queue' = Numbered
      /\ \A d \in Numbered : /\ queue'[d].subject = queue[d].subject /\ queue'[d].attempt = queue[d].attempt
                             /\ queue'[d].stage = queue[d].stage
  <2>1. \A d \in Numbered : \E m \in {"pending", "processing"} :
           queue'[d] = [queue[d] EXCEPT !.st = m] \/ queue'[d] = queue[d]
    BY <1>1
  <2>2. queue' = [d \in Numbered |-> queue'[d]]
    BY <1>1
  <2> QED
    BY <2>1, <2>2, MarksDeliveries DEF BuilderInv
<1>4. claimed \subseteq Nat
  BY QueueIs DEF BuilderInv
<1> HIDE DEF claimed
<1>5. bw'.pc = "next" /\ bw'.batch = claimed /\ WorkerTypes'
  BY <1>1, <1>4 DEF BuilderInv, WorkerTypes, WorkerPc
<1>6. QueueTypes'
  BY <1>2, <1>3, <1>5 DEF BuilderInv, QueueTypes, Numbered
<1>7. RowsInv'
  <2>1. builderFaults' \in 0..MaxBuilderFaults /\ calls' \in 0..MaxCalls
    BY <1>1 DEF BuilderInv, RowsInv, RowTypes
  <2>2. build.status # "none"
    <3>1. queue # <<>>
      BY <1>1, <1>2, QueueIs, EmptySeq DEF BuilderInv, claimed
    <3> QED
      BY <3>1 DEF BuilderInv, RowsInv, NothingBefore
  <2> QED
    BY <1>1, <1>3, <2>1, <2>2, KeepsRows DEF BuilderInv
<1>8. BuildGoesOn'
  BY <1>1, <1>3, GoesOnWithQueue DEF BuilderInv
<1>9. HandHolds'
  BY <1>5 DEF HandHolds, InHand
<1> QED
  BY <1>1, <1>2, <1>5, <1>6, <1>7, <1>8, <1>9, WorkerMoves

\* A batch that is handled leaves the worker with nothing.
LEMMA BatchDoneKeeps ==
  ASSUME OperatorBeside = FALSE, BuilderInv, BatchDone
  PROVE  BuilderInv'
<1>1. Turn("next") /\ bw' = IdleWorker
      /\ UNCHANGED <<build, job, latestJob, stagesRun, queue, caller, builderFaults, calls>>
  BY DEF BatchDone, KeepRows, KeepRest
<1>2. caller.pc = "none"
  BY <1>1, Between
<1>3. bw'.pc = "idle" /\ bw'.batch = {} /\ WorkerTypes'
  BY <1>1, HandsEmpty DEF WorkerPc, IdleWorker
<1>4. QueueTypes' /\ DOMAIN queue' = Numbered
  BY <1>1, <1>3, QueueStands DEF BuilderInv
<1>5. RowsInv'
  <2>1. builderFaults' \in 0..MaxBuilderFaults /\ calls' \in 0..MaxCalls
    BY <1>1 DEF BuilderInv, RowsInv, RowTypes
  <2> QED
    BY <1>1, <1>2, <1>4, <2>1, KeepsRows DEF BuilderInv
<1>6. BuildGoesOn'
  BY <1>1 DEF BuilderInv, BuildGoesOn, LostInRetry, Numbered
<1>7. HandHolds'
  BY <1>3 DEF HandHolds, InHand
<1> QED
  BY <1>1, <1>2, <1>3, <1>4, <1>5, <1>6, <1>7, WorkerMoves

\* A delivery is taken with the row its handler reads; one of a cancelled or published build is settled.
LEMMA TakeDeliveryKeeps ==
  ASSUME OperatorBeside = FALSE, BuilderInv, TakeDelivery
  PROVE  BuilderInv'
<1> DEFINE d == Min(bw.batch)
<1>1. Turn("next") /\ bw.batch # {}
      /\ UNCHANGED <<build, job, latestJob, stagesRun, caller, builderFaults, calls>>
  BY DEF TakeDelivery, KeepRows, KeepRest
<1>2. caller.pc = "none"
  BY <1>1, Between
<1>3. d \in bw.batch /\ d \in Numbered /\ d \in Nat /\ queue[d] \in Delivery
  <2>1. bw.batch \subseteq Numbered /\ Numbered \subseteq Nat
    BY QueueIs DEF BuilderInv, QueueTypes
  <2>2. d \in bw.batch
    BY <1>1, <2>1, MinOfNaturals
  <2> QED
    BY <2>1, <2>2, QueueIs DEF BuilderInv
<1>4. CASE TakesUp(build.status)
  <2> DEFINE pc == IF queue[d].subject = "accepted" THEN "init" ELSE "advance"
  <2>1. bw' = [bw EXCEPT !.pc = pc, !.batch = @ \ {d}, !.d = d, !.b = build] /\ UNCHANGED queue
    BY <1>4 DEF TakeDelivery
  <2>2. build \in BuildRow
    BY DEF BuilderInv, RowsInv, RowTypes
  <2>3. pc \in {"init", "advance"}
    OBVIOUS
  <2> HIDE DEF d, pc
  <2>4. bw'.pc = pc /\ bw'.batch = bw.batch \ {d} /\ bw'.d = d /\ bw'.b = build /\ WorkerTypes'
    BY <1>3, <2>1, <2>2, <2>3 DEF BuilderInv, WorkerTypes, WorkerPc
  <2>5. QueueTypes' /\ DOMAIN queue' = Numbered
    BY <2>1, <2>4, QueueStands DEF BuilderInv
  <2>6. RowsInv'
    <3>1. builderFaults' \in 0..MaxBuilderFaults /\ calls' \in 0..MaxCalls
      BY <1>1 DEF BuilderInv, RowsInv, RowTypes
    <3> QED
      BY <1>1, <1>2, <2>1, <2>5, <3>1, KeepsRows DEF BuilderInv
  <2>7. BuildGoesOn'
    BY <1>1, <2>1 DEF BuilderInv, BuildGoesOn, LostInRetry, Numbered
  <2>8. build.status \notin {"none", "cancelled"}
    <3>1. queue # <<>>
      BY <1>3, QueueIs, EmptySeq DEF BuilderInv
    <3> QED
      BY <1>4, <3>1 DEF TakesUp, BuilderInv, RowsInv, NothingBefore
  <2>9. HandHolds'
    <3>1. HandRow'
      BY <1>1, <1>3, <2>1, <2>4, <2>8 DEF HandRow, Numbered
    <3>2. ev' = queue[d]
      BY <2>1, <2>4 DEF ev
    <3>3. queue[d].subject \in {"accepted", "progress"}
      BY <1>3 DEF Delivery
    <3>4. \/ bw'.pc = "init" /\ ev'.subject = "accepted"
          \/ bw'.pc = "advance" /\ ev'.subject = "progress"
      BY <2>4, <3>2, <3>3 DEF pc
    <3>5. HandAt'
      BY <3>4 DEF HandAt, AtStage
    <3> QED
      BY <3>1, <3>5 DEF HandHolds
  <2> QED
    BY <1>1, <1>2, <2>4, <2>5, <2>6, <2>7, <2>9, WorkerMoves
<1>5. CASE ~TakesUp(build.status)
  <2>1. queue' = RemoveAt(queue, d) /\ bw' = [bw EXCEPT !.batch = Without(@, d)]
    BY <1>5 DEF TakeDelivery
  <2> HIDE DEF d
  <2>2. bw'.batch = Without(bw.batch, d) /\ bw'.pc = bw.pc
    BY <2>1 DEF BuilderInv, WorkerTypes
  <2>3. RowsInv' /\ QueueTypes'
    BY <1>1, <1>3, <2>1, <2>2, Removes DEF BuilderInv
  <2>4. bw'.batch \subseteq Nat
    <3>1. DOMAIN queue' \subseteq Nat
      BY <2>3, LenProperties DEF QueueTypes
    <3> QED
      BY <2>3, <3>1 DEF QueueTypes, Numbered
  <2>5. WorkerTypes'
    BY <2>1, <2>2, <2>4 DEF BuilderInv, WorkerTypes
  <2>6. BuildGoesOn'
    BY <1>1, <1>5 DEF TakesUp, BuildGoesOn, InProgress, Stages
  <2>7. HandHolds'
    BY <1>1, <2>2 DEF HandHolds, InHand, Turn
  <2> QED
    BY <1>1, <1>2, <2>3, <2>5, <2>6, <2>7, WorkerMoves
<1> QED
  BY <1>4, <1>5

\* A delivery to be retried is pending again, behind its build and its job.
LEMMA RetryDeliveryKeeps ==
  ASSUME OperatorBeside = FALSE, BuilderInv, RetryDelivery
  PROVE  BuilderInv'
<1>1. Turn("redeliver") /\ queue' = [queue EXCEPT ![bw.d].st = "pending"]
      /\ bw' = [IdleWorker EXCEPT !.pc = "next", !.batch = bw.batch]
      /\ UNCHANGED <<build, job, latestJob, stagesRun, caller, builderFaults, calls>>
  BY DEF RetryDelivery, KeepRows, KeepRest
<1>2. /\ bw.pc = "redeliver" /\ bw.d \in Numbered /\ caller.pc = "none" /\ ev \in Delivery /\ HandAt
      /\ ev.attempt \in Attempt /\ ev.attempt \in Nat \ {0} /\ ev.attempt <= build.retries + 1
      /\ job[ev.attempt] \in JobRow /\ bw.b \in BuildRow /\ bw.j \in JobRow
      /\ bw.b.retries = build.retries /\ build.retries < MaxAttempts /\ build.retries \in Nat
      /\ build.status \notin {"none", "cancelled"} /\ bw.b.status \notin {"none", "cancelled"}
  BY <1>1, Hand DEF WorkerPc
<1>3. /\ queue' \in Seq(Delivery) /\ Len(queue') = Len(queue) /\ DOMAIN queue' = Numbered
      /\ \A d \in Numbered : /\ queue'[d].subject = queue[d].subject /\ queue'[d].attempt = queue[d].attempt
                             /\ queue'[d].stage = queue[d].stage
  <2>1. queue' = [d \in Numbered |-> queue'[d]] /\ \A d \in Numbered : \E m \in {"pending", "processing"} :
           queue'[d] = [queue[d] EXCEPT !.st = m] \/ queue'[d] = queue[d]
    BY <1>1 DEF Numbered
  <2> QED
    BY <2>1, MarksDeliveries DEF BuilderInv
<1>4. bw'.pc = "next" /\ bw'.batch = bw.batch /\ WorkerTypes'
  <2>1. bw.batch \in SUBSET Nat
    BY DEF BuilderInv, WorkerTypes
  <2> QED
    BY <1>1, <2>1, HandsEmpty DEF WorkerPc, IdleWorker
<1>5. QueueTypes'
  BY <1>3, <1>4 DEF BuilderInv, QueueTypes, Numbered
<1>6. RowsInv'
  <2>1. builderFaults' \in 0..MaxBuilderFaults /\ calls' \in 0..MaxCalls
    BY <1>1 DEF BuilderInv, RowsInv, RowTypes
  <2> QED
    BY <1>1, <1>2, <1>3, <2>1, KeepsRows DEF BuilderInv
<1>7. BuildGoesOn'
  BY <1>1, <1>3, GoesOnWithQueue DEF BuilderInv
<1>8. HandHolds'
  BY <1>4 DEF HandHolds, InHand
<1> QED
  BY <1>1, <1>2, <1>4, <1>5, <1>6, <1>7, <1>8, WorkerMoves

\* A delivery is settled when its attempt has a job: none that brings a job is lost.
LEMMA SettleDeliveryKeeps ==
  ASSUME OperatorBeside = FALSE, BuilderInv, SettleDelivery
  PROVE  BuilderInv'
<1>1. Turn("done") /\ queue' = RemoveAt(queue, bw.d)
      /\ bw' = [IdleWorker EXCEPT !.pc = "next", !.batch = Without(bw.batch, bw.d)]
      /\ UNCHANGED <<build, job, latestJob, stagesRun, caller, builderFaults, calls>>
  BY DEF SettleDelivery, KeepRows, KeepRest
<1>2. /\ bw.pc = "done" /\ bw.d \in Numbered /\ caller.pc = "none" /\ ev \in Delivery /\ HandAt
      /\ ev.attempt \in Attempt /\ ev.attempt \in Nat \ {0} /\ ev.attempt <= build.retries + 1
      /\ job[ev.attempt] \in JobRow /\ bw.b \in BuildRow /\ bw.j \in JobRow
      /\ bw.b.retries = build.retries /\ build.retries < MaxAttempts /\ build.retries \in Nat
      /\ build.status \notin {"none", "cancelled"} /\ bw.b.status \notin {"none", "cancelled"}
  BY <1>1, Hand DEF WorkerPc
<1>3. job[ev.attempt] # NoJob
  BY <1>2 DEF HandAt
<1>4. bw'.pc = "next" /\ bw'.batch = Without(bw.batch, bw.d)
  BY <1>1 DEF IdleWorker
<1>5. /\ RowsInv' /\ QueueTypes'
      /\ \A d \in Numbered \ {bw.d} : \E x \in DOMAIN queue' : queue'[x] = queue[d]
  BY <1>1, <1>2, <1>4, Removes DEF BuilderInv
<1>6. WorkerTypes'
  <2>1. bw'.batch \subseteq Nat
    <3>1. DOMAIN queue' \subseteq Nat
      BY <1>5, LenProperties DEF QueueTypes
    <3> QED
      BY <1>5, <3>1 DEF QueueTypes, Numbered
  <2>2. bw' = [IdleWorker EXCEPT !.pc = "next", !.batch = bw'.batch]
    BY <1>1, <1>4
  <2> QED
    BY <2>1, <2>2, HandsEmpty DEF WorkerPc, IdleWorker
<1>7. BuildGoesOn'
  <2>1. \A d \in Numbered : queue[d].subject = "accepted" /\ job[queue[d].attempt] = NoJob
            => \E x \in DOMAIN queue' : queue'[x].subject = queue[d].subject /\ queue'[x].attempt = queue[d].attempt
    BY <1>3, <1>5 DEF ev
  <2> QED
    BY <1>1, <2>1, GoesOnWithQueue DEF BuilderInv
<1>8. HandHolds'
  BY <1>4 DEF HandHolds, InHand
<1> QED
  BY <1>1, <1>2, <1>4, <1>5, <1>6, <1>7, <1>8, WorkerMoves

\* A death loses what the worker held, and no row or delivery.
LEMMA BuilderDiesKeeps ==
  ASSUME OperatorBeside = FALSE, BuilderInv, BuilderDies
  PROVE  BuilderInv'
<1>1. bw' = [IdleWorker EXCEPT !.pc = "down"] /\ builderFaults' = builderFaults + 1 /\ builderFaults < MaxBuilderFaults
      /\ UNCHANGED <<build, job, latestJob, stagesRun, queue, caller, calls>>
  BY DEF BuilderDies, KeepRows
<1>2. bw'.pc = "down" /\ bw'.batch = {} /\ WorkerTypes'
  BY <1>1, HandsEmpty DEF WorkerPc, IdleWorker
<1>3. QueueTypes' /\ DOMAIN queue' = Numbered
  BY <1>1, <1>2, QueueStands DEF BuilderInv
<1>4. RowsInv'
  <2>1. builderFaults' \in 0..MaxBuilderFaults /\ calls' \in 0..MaxCalls
    BY <1>1, BuilderAssumption DEF BuilderInv, RowsInv, RowTypes
  <2>2. build.status = "none" => caller'.pc \in {"none", "recover", "recovered"}
    BY <1>1 DEF BuilderInv, RowsInv, NothingBefore
  <2> QED
    BY <1>1, <1>3, <2>1, <2>2, KeepsRows DEF BuilderInv
<1>5. BuildGoesOn'
  BY <1>1 DEF BuilderInv, BuildGoesOn, LostInRetry, Numbered
<1>6. HandHolds'
  BY <1>2 DEF HandHolds, InHand
<1>7. CallTypes' /\ CallHolds'
  BY <1>1, <1>2 DEF BuilderInv, CallTypes, CallHolds, ReadyFor
<1> QED
  BY <1>2, <1>3, <1>4, <1>5, <1>6, <1>7 DEF BuilderInv

\* What is left to show of a call: the worker rests.
LEMMA CallMoves ==
  ASSUME BuilderInv, UNCHANGED bw, bw.pc \in {"idle", "down"}, RowsInv', QueueTypes', CallTypes', CallHolds', BuildGoesOn'
  PROVE  BuilderInv'
BY DEF BuilderInv, WorkerTypes, HandHolds, InHand

\* A call starts only while no other one is under way and the worker rests; it ends before the worker goes on.
LEMMA CallStarts ==
  ASSUME OperatorBeside = FALSE, MayCall
  PROVE  caller.pc = "none" /\ bw.pc \in {"idle", "down"}
BY DEF MayCall

LEMMA CallUnderWay ==
  ASSUME BuilderInv, caller.pc # "none"
  PROVE  /\ bw.pc \in {"idle", "down"} /\ CallHolds
         /\ caller.pc \notin {"recover", "recovered"} => build.status # "none"
BY DEF BuilderInv, CallHolds, RowsInv, NothingBefore

\* The rows a call reads.
LEMMA CallReads ==
  ASSUME BuilderInv
  PROVE  /\ build \in BuildRow /\ build.retries \in Nat /\ build.retries < MaxAttempts /\ calls \in 0..MaxCalls
         /\ builderFaults \in 0..MaxBuilderFaults /\ latestJob \in 0..MaxAttempts
         /\ caller \in [pc : CallPc, b : BuildRow, j : JobRow, a : 0..MaxAttempts]
         /\ \A d \in Numbered : queue[d] \in Delivery
BY QueueIs DEF BuilderInv, RowsInv, RowTypes, BuildRow, CallTypes

\* A call that ends, or goes on without touching the queue.
LEMMA CallTypesKept ==
  ASSUME BuilderInv, caller' = NoCall
  PROVE  CallTypes' /\ CallHolds' /\ caller'.pc = "none"
<1>1. NoBuild \in BuildRow /\ NoJob \in JobRow
  BY BuilderAssumption DEF NoBuild, BuildRow, NoJob, JobRow, JobStage
<1> QED
  BY <1>1, BuilderAssumption DEF NoCall, CallTypes, CallPc, CallHolds

\* A build starts with nothing behind it.
LEMMA StartBuildKeeps ==
  ASSUME OperatorBeside = FALSE, BuilderInv, StartBuild
  PROVE  BuilderInv'
<1>1. PICK v \in BOOLEAN : build' = [NoBuild EXCEPT !.status = "accepted", !.valid = v]
  BY DEF StartBuild
<1>2. /\ MayCall /\ build = NoBuild /\ caller' = [caller EXCEPT !.pc = "accept", !.a = 1]
      /\ UNCHANGED <<job, latestJob, queue, stagesRun, builderFaults, calls, bw>>
  BY DEF StartBuild, call, KeepJobs, KeepWorker
<1>3. caller.pc = "none" /\ bw.pc \in {"idle", "down"}
  BY <1>2, CallStarts
<1>4. build' = [status |-> "accepted", retries |-> 0, valid |-> v]
  BY <1>1 DEF NoBuild
<1>5. build' \in BuildRow /\ build'.retries = 0 /\ build'.status = "accepted" /\ build.retries = 0 /\ build.status = "none"
  BY <1>2, <1>4, BuilderAssumption DEF BuildRow, InProgress, NoBuild
<1>6. RowsInv'
  <2>1. build'.retries < MaxAttempts /\ build.retries <= build'.retries /\ calls' \in 0..MaxCalls
    BY <1>2, <1>5, CallReads, BuilderAssumption
  <2> QED
    BY <1>2, <1>5, <2>1, SavesBuild DEF BuilderInv
<1>7. QueueTypes'
  BY <1>2, QueueStands DEF BuilderInv
<1>8. caller'.pc = "accept" /\ caller'.a = 1 /\ CallTypes'
  <2>1. 1 \in 0..MaxAttempts
    BY BuilderAssumption
  <2> QED
    BY <1>2, <2>1, CallReads DEF CallTypes, CallPc
<1>9. 1 \in Attempt /\ job'[1] = NoJob /\ latestJob' = 0
  BY <1>2, <1>5, BuilderAssumption DEF BuilderInv, RowsInv, NothingBefore, Attempt
<1>10. CallHolds'
  BY <1>2, <1>3, <1>5, <1>8, <1>9 DEF CallHolds
<1>11. BuildGoesOn'
  BY <1>8 DEF BuildGoesOn
<1> QED
  BY <1>2, <1>3, <1>6, <1>7, <1>8, <1>10, <1>11, CallMoves

\* The delivery that brings an attempt its job is published.
LEMMA PublishAcceptedKeeps ==
  ASSUME OperatorBeside = FALSE, BuilderInv, PublishAccepted
  PROVE  BuilderInv'
<1> DEFINE x == Accepted(caller.a)
<1>1. /\ caller.pc = "accept" /\ Room /\ queue' = Put(x) /\ caller' = NoCall
      /\ UNCHANGED <<build, job, latestJob, stagesRun, builderFaults, calls, bw>>
  BY DEF PublishAccepted, KeepJobs, KeepWorker
<1>2. /\ bw.pc \in {"idle", "down"} /\ build.status # "none"
      /\ caller.a \in Attempt /\ job[caller.a] = NoJob /\ caller.a <= build.retries + 1
  BY <1>1, CallUnderWay DEF CallHolds
<1>3. x = [subject |-> "accepted", attempt |-> caller.a, stage |-> "none", st |-> "pending"]
  BY DEF Accepted
<1>4. x \in Delivery /\ x.attempt = caller.a /\ x.subject = "accepted" /\ ReadyFor(x.attempt, x.stage)
  BY <1>2, <1>3 DEF Delivery, JobStage, ReadyFor, Stages
<1> HIDE DEF x
<1>5. RowsInv' /\ QueueTypes' /\ \E d \in DOMAIN queue' : queue'[d] = x
  BY <1>1, <1>2, <1>4, Puts DEF BuilderInv
<1>6. BuildGoesOn'
  BY <1>1, <1>2, <1>4, <1>5 DEF BuildGoesOn, Numbered
<1> QED
  BY <1>1, <1>2, <1>5, <1>6, CallTypesKept, CallMoves

\* The gateway dies before a started build is published: its row is accepted and has no job.
LEMMA StarterDiesKeeps ==
  ASSUME OperatorBeside = FALSE, BuilderInv, StarterDies
  PROVE  BuilderInv'
<1>1. /\ caller.pc = "accept" /\ caller.a = 1 /\ builderFaults < MaxBuilderFaults /\ builderFaults' = builderFaults + 1
      /\ caller' = NoCall /\ UNCHANGED <<build, job, latestJob, stagesRun, queue, calls, bw>>
  BY DEF StarterDies, KeepJobs
<1>2. /\ bw.pc \in {"idle", "down"} /\ build.status = "accepted" /\ latestJob = 0
      /\ builderFaults' \in 0..MaxBuilderFaults
  BY <1>1, CallUnderWay, CallReads, BuilderAssumption DEF CallHolds
<1>3. QueueTypes' /\ DOMAIN queue' = Numbered
  BY <1>1, QueueStands DEF BuilderInv
<1>4. RowsInv'
  <2>1. \A d \in DOMAIN queue' : d \in Numbered /\ queue'[d] = queue[d]
    BY <1>1, <1>3
  <2> QED
    BY <1>1, <1>2, <2>1, CallReads, KeepsRows DEF BuilderInv
<1>5. BuildGoesOn'
  BY <1>1, <1>2 DEF BuildGoesOn
<1> QED
  BY <1>1, <1>2, <1>3, <1>4, <1>5, CallTypesKept, CallMoves

\* A cancelled build is no more in progress; its attempt's job is cancelled next.
LEMMA CancelBuildKeeps ==
  ASSUME OperatorBeside = FALSE, BuilderInv, CancelBuild
  PROVE  BuilderInv'
<1>1. /\ MayCall /\ build.status \in InProgress /\ build' = [build EXCEPT !.status = "cancelled"]
      /\ caller' = [caller EXCEPT !.pc = "canceljob", !.a = build.retries + 1]
      /\ UNCHANGED <<job, latestJob, stagesRun, queue, builderFaults, calls, bw>>
  BY DEF CancelBuild, call, KeepJobs, KeepWorker
<1>2. caller.pc = "none" /\ bw.pc \in {"idle", "down"} /\ build.status # "none"
  BY <1>1, CallStarts DEF InProgress, Stages
<1>3. build' \in BuildRow /\ build'.retries = build.retries /\ build'.status = "cancelled"
  BY <1>1, CallReads DEF BuildRow, Ended
<1>4. RowsInv'
  BY <1>1, <1>3, SavesBuild, CallReads DEF BuilderInv
<1>5. build.retries + 1 \in Attempt /\ build.retries + 1 \in 0..MaxAttempts
  BY CallReads, BuilderAssumption DEF Attempt
<1>6. caller'.pc = "canceljob" /\ caller'.a = build.retries + 1 /\ CallTypes'
  BY <1>1, <1>5, CallReads DEF CallTypes, CallPc
<1>7. CallHolds'
  BY <1>1, <1>2, <1>3, <1>5, <1>6 DEF CallHolds
<1>8. BuildGoesOn'
  BY <1>3 DEF BuildGoesOn, InProgress, Stages
<1>9. QueueTypes'
  BY <1>1, QueueStands DEF BuilderInv
<1> QED
  BY <1>1, <1>2, <1>4, <1>6, <1>7, <1>8, <1>9, CallMoves

\* The job of a cancelled build is over.
LEMMA CancelJobKeeps ==
  ASSUME OperatorBeside = FALSE, BuilderInv, CancelJob
  PROVE  BuilderInv'
<1>1. /\ caller.pc = "canceljob" /\ caller' = NoCall
      /\ UNCHANGED <<build, stagesRun, queue, builderFaults, calls, bw>>
  BY DEF CancelJob, KeepWorker
<1>2. bw.pc \in {"idle", "down"} /\ build.status = "cancelled" /\ caller.a \in Attempt /\ build.status # "none"
  BY <1>1, CallUnderWay DEF CallHolds
<1>3. QueueTypes' /\ DOMAIN queue' = Numbered
  BY <1>1, QueueStands DEF BuilderInv
<1>4. RowsInv'
  <2> DEFINE j == [st |-> "cancelled", stage |-> "cancelled", fin |-> TRUE]
  <2>1. CASE job[caller.a] # NoJob /\ ~job[caller.a].fin
    <3>1. SaveJob(caller.a, j)
      BY <2>1 DEF CancelJob
    <3>2. j \in JobRow /\ j.st = "cancelled" /\ j.stage = j.st /\ JobIsOver(j)
      BY DEF JobRow, JobStage, JobIsOver
    <3>3. caller.a <= build.retries + 1
      BY <1>2, <2>1 DEF BuilderInv, RowsInv, JobsInStage
    <3> HIDE DEF j
    <3> QED
      BY <1>1, <1>2, <3>1, <3>2, <3>3, SavesJob DEF BuilderInv
  <2>2. CASE ~(job[caller.a] # NoJob /\ ~job[caller.a].fin)
    <3>1. UNCHANGED <<job, latestJob>>
      BY <2>2 DEF CancelJob, KeepJobs
    <3>2. \A d \in DOMAIN queue' : d \in Numbered /\ queue'[d] = queue[d]
      BY <1>1, <1>3
    <3> QED
      BY <1>1, <1>2, <3>1, <3>2, CallReads, KeepsRows DEF BuilderInv
  <2> QED
    BY <2>1, <2>2
<1>5. BuildGoesOn'
  BY <1>1, <1>2 DEF BuildGoesOn, InProgress, Stages
<1> QED
  BY <1>1, <1>2, <1>3, <1>4, <1>5, CallTypesKept, CallMoves

\* A retry asks for an attempt no job exists of.
LEMMA RetryBuildKeeps ==
  ASSUME OperatorBeside = FALSE, BuilderInv, RetryBuild
  PROVE  BuilderInv'
<1>1. /\ MayCall /\ build.status \in InProgress \cup {"failed"} /\ build.retries + 1 < MaxAttempts
      /\ build' = [build EXCEPT !.status = "accepted", !.retries = build.retries + 1]
      /\ caller' = [caller EXCEPT !.pc = "accept", !.a = build.retries + 2]
      /\ UNCHANGED <<job, latestJob, stagesRun, queue, builderFaults, calls, bw>>
  BY DEF RetryBuild, call, KeepJobs, KeepWorker
<1>2. caller.pc = "none" /\ bw.pc \in {"idle", "down"}
  BY <1>1, CallStarts
<1>3. build.retries + 1 \in 0..MaxAttempts /\ build.retries + 2 \in Attempt /\ build.retries + 2 \in 0..MaxAttempts
  BY <1>1, CallReads, BuilderAssumption DEF Attempt
<1>4. build' \in BuildRow /\ build'.retries = build.retries + 1 /\ build'.status = "accepted"
  BY <1>1, <1>3, CallReads DEF BuildRow, InProgress
<1>5. build.retries <= build'.retries
  BY <1>4, CallReads
<1>6. RowsInv'
  BY <1>1, <1>4, <1>5, SavesBuild, CallReads DEF BuilderInv
<1>7. caller'.pc = "accept" /\ caller'.a = build.retries + 2 /\ CallTypes'
  BY <1>1, <1>3, CallReads DEF CallTypes, CallPc
<1>8. job[build.retries + 2] = NoJob
  BY <1>3, CallReads DEF BuilderInv, RowsInv, JobsInStage
<1>9. CallHolds'
  <2>1. caller'.a # 1 /\ caller'.a <= build'.retries + 1
    BY <1>4, <1>7, CallReads
  <2> QED
    BY <1>1, <1>2, <1>3, <1>4, <1>7, <1>8, <2>1 DEF CallHolds
<1>10. BuildGoesOn'
  BY <1>7 DEF BuildGoesOn
<1>11. QueueTypes'
  BY <1>1, QueueStands DEF BuilderInv
<1> QED
  BY <1>1, <1>2, <1>6, <1>7, <1>9, <1>10, <1>11, CallMoves

\* A clean-up reads the row it will write back.
LEMMA CleanupBuildKeeps ==
  ASSUME OperatorBeside = FALSE, BuilderInv, CleanupBuild
  PROVE  BuilderInv'
<1>1. /\ MayCall /\ calls < MaxCalls /\ calls' = calls + 1 /\ build # NoBuild
      /\ caller' = [caller EXCEPT !.pc = "cleanup", !.b = build]
      /\ UNCHANGED <<build, job, latestJob, stagesRun, queue, builderFaults, bw>>
  BY DEF CleanupBuild, Asks, call, KeepJobs, KeepWorker
<1>2. /\ caller.pc = "none" /\ bw.pc \in {"idle", "down"} /\ calls' \in 0..MaxCalls /\ build.status # "none"
  <2>1. calls' \in 0..MaxCalls
    BY <1>1, CallReads, BuilderAssumption
  <2> QED
    BY <1>1, <2>1, CallStarts DEF BuilderInv, RowsInv, NothingBefore
<1>3. QueueTypes' /\ DOMAIN queue' = Numbered
  BY <1>1, QueueStands DEF BuilderInv
<1>4. RowsInv'
  <2>1. \A d \in DOMAIN queue' : d \in Numbered /\ queue'[d] = queue[d]
    BY <1>1, <1>3
  <2> QED
    BY <1>1, <1>2, <2>1, CallReads, KeepsRows DEF BuilderInv
<1>5. caller'.pc = "cleanup" /\ caller'.b = build /\ CallTypes'
  BY <1>1, CallReads DEF CallTypes, CallPc
<1>6. CallHolds'
  BY <1>1, <1>2, <1>5 DEF CallHolds
<1>7. BuildGoesOn'
  BY <1>1, <1>2 DEF BuilderInv, BuildGoesOn, LostInRetry, Numbered
<1> QED
  BY <1>1, <1>2, <1>3, <1>4, <1>5, <1>6, <1>7, CallMoves

\* It writes that row back: nobody wrote it in between.
LEMMA CleanupSaveKeeps ==
  ASSUME OperatorBeside = FALSE, BuilderInv, CleanupSave
  PROVE  BuilderInv'
<1>1. /\ caller.pc = "cleanup" /\ build' = caller.b /\ caller' = NoCall
      /\ UNCHANGED <<job, latestJob, stagesRun, queue, builderFaults, calls, bw>>
  BY DEF CleanupSave, KeepJobs, KeepWorker
<1>2. bw.pc \in {"idle", "down"} /\ build' = build /\ build.status # "none"
  BY <1>1, CallUnderWay DEF CallHolds
<1>3. QueueTypes' /\ DOMAIN queue' = Numbered
  BY <1>1, QueueStands DEF BuilderInv
<1>4. RowsInv'
  <2>1. \A d \in DOMAIN queue' : d \in Numbered /\ queue'[d] = queue[d]
    BY <1>1, <1>3
  <2> QED
    BY <1>1, <1>2, <2>1, CallReads, KeepsRows DEF BuilderInv
<1>5. BuildGoesOn'
  BY <1>1, <1>2 DEF BuilderInv, BuildGoesOn, LostInRetry, Numbered
<1> QED
  BY <1>1, <1>2, <1>3, <1>4, <1>5, CallTypesKept, CallMoves

\* Recovery makes every delivery pending again.
LEMMA RequeueStaleKeeps ==
  ASSUME OperatorBeside = FALSE, BuilderInv, RequeueStale
  PROVE  BuilderInv'
<1>1. /\ queue' = [d \in Numbered |-> [queue[d] EXCEPT !.st = "pending"]] /\ caller' = [caller EXCEPT !.pc = "recover"]
      /\ UNCHANGED <<build, job, latestJob, stagesRun, builderFaults, bw>>
  BY DEF RequeueStale, call, KeepJobs, KeepWorker
<1>2. caller.pc = "none" /\ bw.pc \in {"idle", "down"} /\ calls' \in 0..MaxCalls
  <2>1. calls \in Nat /\ calls \in 0..MaxCalls
    BY CallReads
  <2>2. \/ bw.pc = "down" /\ caller.pc = "none" /\ calls' = calls
        \/ MayCall /\ calls < MaxCalls /\ calls' = calls + 1
    BY DEF RequeueStale, Asks
  <2>3. calls' \in 0..MaxCalls
    BY <2>1, <2>2, BuilderAssumption
  <2> QED
    BY <2>2, <2>3, CallStarts
<1>3. /\ queue' \in Seq(Delivery) /\ Len(queue') = Len(queue) /\ DOMAIN queue' = Numbered
      /\ \A d \in Numbered : /\ queue'[d].subject = queue[d].subject /\ queue'[d].attempt = queue[d].attempt
                             /\ queue'[d].stage = queue[d].stage
  <2>1. queue' = [d \in Numbered |-> queue'[d]] /\ \A d \in Numbered : \E m \in {"pending", "processing"} :
           queue'[d] = [queue[d] EXCEPT !.st = m] \/ queue'[d] = queue[d]
    BY <1>1
  <2> QED
    BY <2>1, MarksDeliveries DEF BuilderInv
<1>4. QueueTypes'
  BY <1>1, <1>3 DEF BuilderInv, QueueTypes, Numbered
<1>5. caller'.pc = "recover" /\ CallTypes'
  BY <1>1, CallReads DEF CallTypes, CallPc
<1>6. CallHolds'
  BY <1>1, <1>2, <1>5 DEF CallHolds
<1>7. RowsInv'
  <2>1. build.status = "none" => queue' = queue
    <3>1. build.status = "none" => queue = <<>>
      BY DEF BuilderInv, RowsInv, NothingBefore
    <3>2. queue = <<>> => queue' = <<>>
      BY <1>3, EmptySeq
    <3> QED
      BY <3>1, <3>2
  <2> QED
    BY <1>1, <1>2, <1>3, <1>5, <2>1, CallReads, KeepsRows DEF BuilderInv
<1>8. BuildGoesOn'
  BY <1>1, <1>2, <1>3, GoesOnWithQueue DEF BuilderInv
<1> QED
  BY <1>1, <1>2, <1>4, <1>5, <1>6, <1>7, <1>8, CallMoves

\* Recovery finds a build without a live delivery, and says what is to be published.
LEMMA RecoverJobKeeps ==
  ASSUME OperatorBeside = FALSE, BuilderInv, RecoverJob
  PROVE  BuilderInv'
<1> DEFINE j == [job[latestJob] EXCEPT !.st = "queued"]
<1>1. caller.pc = "recover" /\ UNCHANGED <<build, stagesRun, queue, builderFaults, calls, bw>>
  BY DEF RecoverJob, KeepWorker
<1>2. bw.pc \in {"idle", "down"}
  BY <1>1, CallUnderWay
<1>3. QueueTypes' /\ DOMAIN queue' = Numbered
  BY <1>1, QueueStands DEF BuilderInv
<1>4. ASSUME UNCHANGED <<job, latestJob>>, build.status = "none" => caller'.pc = "recovered" PROVE RowsInv' /\ BuildGoesOn'
  <2>1. \A d \in DOMAIN queue' : d \in Numbered /\ queue'[d] = queue[d]
    BY <1>1, <1>3
  <2>2. RowsInv'
    BY <1>1, <1>4, <2>1, CallReads, KeepsRows DEF BuilderInv
  <2>3. BuildGoesOn'
    BY <1>1, <1>4 DEF BuilderInv, BuildGoesOn, LostInRetry, Numbered
  <2> QED
    BY <2>2, <2>3
<1>5. CASE Republishes
  <2>1. caller' = [caller EXCEPT !.pc = "reaccept", !.a = build.retries + 1] /\ UNCHANGED <<job, latestJob>>
    <3>1. ~Requeues
      BY <1>5 DEF Republishes, Requeues
    <3> QED
      BY <1>5, <3>1 DEF RecoverJob, KeepJobs, call
  <2>2. build.retries + 1 \in 0..MaxAttempts
    BY CallReads, BuilderAssumption
  <2>3. caller'.pc = "reaccept" /\ caller'.a = build.retries + 1 /\ CallTypes'
    BY <2>1, <2>2, CallReads DEF CallTypes, CallPc
  <2>4. CallHolds'
    BY <1>1, <1>2, <2>3 DEF CallHolds
  <2>5. build.status # "none"
    BY <1>5 DEF Republishes
  <2> QED
    BY <1>1, <1>2, <1>3, <1>4, <2>1, <2>3, <2>4, <2>5, CallMoves
<1>6. CASE ~Republishes /\ Requeues
  <2>1. caller' = [caller EXCEPT !.pc = "reprogress", !.a = latestJob, !.j = j] /\ SaveJob(latestJob, j)
    BY <1>6 DEF RecoverJob, call
  <2>2. /\ latestJob # 0 /\ build.status # "none" /\ ~job[latestJob].fin /\ job[latestJob].st \in {"queued", "running"}
    BY <1>6 DEF Requeues, InProgress, Stages
  <2>3. latestJob \in Attempt /\ job[latestJob] \in JobRow
    BY <2>2, CallReads, BuilderAssumption DEF Attempt, BuilderInv, RowsInv, RowTypes
  <2>4. job[latestJob] # NoJob /\ latestJob <= build.retries + 1
    BY <2>2, <2>3 DEF BuilderInv, RowsInv, JobsInStage
  <2>5. Active(job[latestJob]) /\ ReadyFor(latestJob, job[latestJob].stage)
    BY <2>2, <2>3, <2>4 DEF BuilderInv, RowsInv, JobsInStage
  <2>6. j \in JobRow /\ Active(j) /\ j.stage = job[latestJob].stage /\ j.stage \in Stages /\ ReadyFor(latestJob, j.stage)
    BY <2>3, <2>5 DEF JobRow, Active
  <2> HIDE DEF j
  <2>7. caller'.pc = "reprogress" /\ caller'.a = latestJob /\ caller'.j = j /\ CallTypes'
    BY <2>1, <2>6, CallReads DEF CallTypes, CallPc
  <2>8. CallHolds'
    <3>1. ReadyFor(caller.a, caller.j.stage)'
      BY <1>1, <2>6, <2>7 DEF ReadyFor
    <3> QED
      BY <1>1, <1>2, <2>3, <2>4, <2>6, <2>7, <3>1 DEF CallHolds
  <2>9. RowsInv'
    <3>1. \A x \in Numbered : queue[x].attempt = latestJob /\ queue[x].subject = "progress" => queue[x].stage \in Stages
      BY <2>3, <2>5, NoneBehind DEF BuilderInv
    <3> QED
      BY <1>1, <2>1, <2>2, <2>3, <2>4, <2>6, <3>1, SavesJob DEF BuilderInv
  <2>10. BuildGoesOn'
    <3>1. latestJob' = latestJob /\ job'[latestJob'] = j
      BY <2>1, <2>3 DEF SaveJob, BuilderInv, RowsInv, RowTypes
    <3> QED
      BY <2>2, <2>6, <3>1, GoesOnWithJob
  <2> QED
    BY <1>1, <1>2, <1>3, <2>7, <2>8, <2>9, <2>10, CallMoves
<1>7. CASE ~Republishes /\ ~Requeues
  <2>1. caller' = [caller EXCEPT !.pc = "recovered"] /\ UNCHANGED <<job, latestJob>>
    BY <1>7 DEF RecoverJob, KeepJobs, call
  <2>2. caller'.pc = "recovered" /\ CallTypes'
    BY <2>1, CallReads DEF CallTypes, CallPc
  <2>3. CallHolds'
    BY <1>1, <1>2, <2>2 DEF CallHolds
  <2> QED
    BY <1>1, <1>2, <1>3, <1>4, <2>1, <2>2, <2>3, CallMoves
<1> QED
  BY <1>5, <1>6, <1>7

\* What recovery found missing is published.
LEMMA RecoverPublishKeeps ==
  ASSUME OperatorBeside = FALSE, BuilderInv, RecoverPublish
  PROVE  BuilderInv'
<1> DEFINE x == IF caller.pc = "reaccept" THEN Accepted(caller.a) ELSE Progress(caller.a, caller.j.stage)
<1>1. /\ caller.pc \in {"reaccept", "reprogress"} /\ Room /\ queue' = Put(x)
      /\ caller' = [caller EXCEPT !.pc = "recovered"]
      /\ UNCHANGED <<build, job, latestJob, stagesRun, builderFaults, calls, bw>>
  BY DEF RecoverPublish, KeepJobs, KeepWorker, call
<1>2. bw.pc \in {"idle", "down"} /\ build.status # "none" /\ CallHolds
  BY <1>1, CallUnderWay
<1>3. /\ x \in Delivery /\ x.attempt <= build.retries + 1 /\ ReadyFor(x.attempt, x.stage)
      /\ x.subject = "progress" /\ x.stage \notin Stages => JobIsOver(job[x.attempt])
  <2>1. CASE caller.pc = "reaccept"
    <3>1. x = [subject |-> "accepted", attempt |-> build.retries + 1, stage |-> "none", st |-> "pending"]
      BY <1>2, <2>1 DEF Accepted, CallHolds
    <3>2. build.retries + 1 \in Attempt
      BY CallReads, BuilderAssumption DEF Attempt
    <3>3. x \in Delivery
      BY <3>1, <3>2 DEF Delivery, JobStage
    <3>4. x.attempt = build.retries + 1 /\ x.stage = "none" /\ x.subject = "accepted"
      BY <3>1
    <3> QED
      BY <3>3, <3>4, CallReads DEF ReadyFor, Stages
  <2>2. CASE caller.pc = "reprogress"
    <3>1. x = [subject |-> "progress", attempt |-> caller.a, stage |-> caller.j.stage, st |-> "pending"]
      BY <2>2 DEF Progress
    <3>2. caller.a \in Attempt /\ caller.a <= build.retries + 1 /\ caller.j.stage \in Stages /\ ReadyFor(caller.a, caller.j.stage)
      BY <1>2, <2>2 DEF CallHolds
    <3>3. x \in Delivery
      BY <3>1, <3>2 DEF Delivery, JobStage
    <3> QED
      BY <3>1, <3>2, <3>3
  <2> QED
    BY <1>1, <2>1, <2>2
<1> HIDE DEF x
<1>4. RowsInv' /\ QueueTypes' /\ \A d \in Numbered : d \in DOMAIN queue' /\ queue'[d] = queue[d]
  BY <1>1, <1>2, <1>3, Puts DEF BuilderInv
<1>5. caller'.pc = "recovered" /\ CallTypes'
  BY <1>1, CallReads DEF CallTypes, CallPc
<1>6. CallHolds'
  BY <1>1, <1>2, <1>5 DEF CallHolds
<1>7. BuildGoesOn'
  BY <1>1, <1>4, GoesOnWithQueue DEF BuilderInv
<1> QED
  BY <1>1, <1>2, <1>4, <1>5, <1>6, <1>7, CallMoves

\* Recovery ends, and a builder that was down is up again.
LEMMA RecoveryEndsKeeps ==
  ASSUME OperatorBeside = FALSE, BuilderInv, RecoveryEnds
  PROVE  BuilderInv'
<1>1. /\ caller.pc = "recovered" /\ caller' = NoCall /\ bw' \in {IdleWorker, bw}
      /\ UNCHANGED <<build, job, latestJob, stagesRun, queue, builderFaults, calls>>
  BY DEF RecoveryEnds, Recovered, KeepJobs
<1>2. bw.pc \in {"idle", "down"} /\ caller'.pc = "none" /\ CallTypes' /\ CallHolds'
  BY <1>1, CallUnderWay, CallTypesKept
<1>3. bw'.pc \in {"idle", "down"} /\ bw'.batch \subseteq bw.batch /\ WorkerTypes'
  <2>1. CASE bw' = IdleWorker
    BY <2>1, HandsEmpty DEF IdleWorker, WorkerPc
  <2>2. CASE bw' = bw
    BY <1>2, <2>2 DEF BuilderInv, WorkerTypes
  <2> QED
    BY <1>1, <2>1, <2>2
<1>4. QueueTypes' /\ DOMAIN queue' = Numbered
  BY <1>1, <1>3, QueueStands DEF BuilderInv
<1>5. RowsInv'
  <2>1. \A d \in DOMAIN queue' : d \in Numbered /\ queue'[d] = queue[d]
    BY <1>1, <1>4
  <2> QED
    BY <1>1, <1>2, <2>1, CallReads, KeepsRows DEF BuilderInv
<1>6. BuildGoesOn'
  BY <1>1, <1>2 DEF BuilderInv, BuildGoesOn, LostInRetry, Numbered
<1>7. HandHolds'
  BY <1>3 DEF HandHolds, InHand
<1> QED
  BY <1>2, <1>3, <1>4, <1>5, <1>6, <1>7 DEF BuilderInv

\* Nothing is built yet, and every step of the worker and of a call keeps the invariant.
LEMMA BuilderInvInit ==
  ASSUME BuilderInit
  PROVE  BuilderInv
<1>1. NoBuild \in BuildRow /\ NoJob \in JobRow /\ NoBuild.retries = 0 /\ NoBuild.status = "none"
  BY BuilderAssumption DEF NoBuild, BuildRow, NoJob, JobRow, JobStage
<1>2. queue \in Seq(Delivery) /\ Len(queue) = 0 /\ Numbered = {}
  <2>1. queue \in Seq(Delivery) /\ Len(queue) = 0
    BY EmptySeq DEF BuilderInit
  <2> QED
    BY <2>1, LenProperties DEF Numbered
<1>3. RowTypes
  BY <1>1, BuilderAssumption DEF BuilderInit, RowTypes
<1>4. RowsInv
  BY <1>1, <1>2, <1>3
     DEF BuilderInit, RowsInv, StagesInOrder, JobsInStage, DeliveriesInStage, NothingBefore, NoCall
<1>5. WorkerTypes /\ CallTypes
  BY <1>1, BuilderAssumption DEF BuilderInit, WorkerTypes, CallTypes, IdleWorker, NoCall, WorkerPc, CallPc
<1>6. QueueTypes
  BY <1>2, BuilderAssumption DEF BuilderInit, QueueTypes, IdleWorker
<1>7. CallHolds /\ HandHolds /\ BuildGoesOn
  BY <1>1 DEF BuilderInit, CallHolds, HandHolds, InHand, BuildGoesOn, InProgress, Stages, IdleWorker, NoCall
<1> QED
  BY <1>4, <1>5, <1>6, <1>7 DEF BuilderInv

LEMMA BuilderInvNext ==
  ASSUME OperatorBeside = FALSE, BuilderInv, [BuilderNext]_builderVars
  PROVE  BuilderInv'
<1>1. CASE WorkerStep
  BY <1>1, ClaimBuildsKeeps, BatchDoneKeeps, TakeDeliveryKeeps, InitializeJobKeeps, CreateJobKeeps, AnnounceStageKeeps,
     AdvanceJobKeeps, MarkStageKeeps, RunStageKeeps, ReportStageKeeps, QueueNextStageKeeps, BuildFollowsJobKeeps,
     PublishBuildKeeps, SucceedJobKeeps, FailBuildKeeps, FailJobKeeps, RetryBuildRowKeeps, RetryJobRowKeeps,
     RetryDeliveryKeeps, ExhaustRetriesKeeps, SettleDeliveryKeeps
     DEF WorkerStep
<1>2. CASE CallStep
  BY <1>2, PublishAcceptedKeeps, CancelJobKeeps, CleanupSaveKeeps, RecoverJobKeeps, RecoverPublishKeeps, RecoveryEndsKeeps
     DEF CallStep
<1>3. CASE UNCHANGED builderVars
  BY <1>3 DEF builderVars, BuilderInv, RowsInv, RowTypes, StagesInOrder, JobsInStage, DeliveriesInStage, NothingBefore,
              WorkerTypes, QueueTypes, CallTypes, CallHolds, HandHolds, InHand, HandRow, HandAt, BuildGoesOn,
              LostInRetry, ReadyFor, ev, Numbered
<1> QED
  BY <1>1, <1>2, <1>3, StageFailsKeeps, BuilderDiesKeeps, StartBuildKeeps, StarterDiesKeeps, CancelBuildKeeps,
     RetryBuildKeeps, CleanupBuildKeeps, RequeueStaleKeeps
     DEF BuilderNext, RestartLatestJob

\* The worker handles no delivery of a cancelled build, and no call writes its row but with what it is.
LEMMA CancelledStays ==
  ASSUME OperatorBeside = FALSE, BuilderInv, [BuilderNext]_builderVars, build.status = "cancelled"
  PROVE  build'.status = "cancelled"
<1>1. ASSUME NEW pc \in WorkerPc \ {"idle", "next", "down"}, Turn(pc) PROVE FALSE
  BY <1>1, Hand
<1>2. CASE WorkerStep
  <2>1. \/ build' = build
        \/ Turn("init") \/ Turn("mark") \/ Turn("follow") \/ Turn("publish") \/ Turn("fail")
        \/ Turn("backbuild") \/ Turn("exhaust")
    BY <1>2 DEF WorkerStep, ClaimBuilds, BatchDone, TakeDelivery, InitializeJob, CreateJob, AnnounceStage, AdvanceJob,
       MarkStage, RunStage, ReportStage, QueueNextStage, BuildFollowsJob, PublishBuild, SucceedJob, FailBuild,
       FailJob, RetryBuildRow, RetryJobRow, RetryDelivery, ExhaustRetries, SettleDelivery, KeepRows
  <2> QED
    BY <1>1, <2>1 DEF WorkerPc
<1>3. CASE CallStep
  BY <1>3, CallUnderWay DEF CallStep, PublishAccepted, CancelJob, CleanupSave, RecoverJob, RecoverPublish, RecoveryEnds,
     CallHolds
<1>4. ~StartBuild /\ ~CancelBuild /\ ~RetryBuild
  <2>1. StartBuild => build = NoBuild
    BY DEF StartBuild
  <2>2. CancelBuild \/ RetryBuild => build.status \in InProgress \cup {"failed"}
    BY DEF CancelBuild, RetryBuild
  <2> QED
    BY <2>1, <2>2 DEF NoBuild, InProgress, Stages
<1>5. ASSUME (\E e \in StageErrors : StageFails(e)) \/ BuilderDies \/ StarterDies \/ CleanupBuild \/ RequeueStale
             \/ UNCHANGED builderVars
      PROVE  build' = build
  BY <1>5 DEF StageFails, BuilderDies, StarterDies, CleanupBuild, RequeueStale, KeepRows, builderVars
<1> QED
  BY <1>2, <1>3, <1>4, <1>5 DEF BuilderNext, RestartLatestJob

\* What the invariant says of a build in progress.
LEMMA BuilderInvSays ==
  ASSUME BuilderInv
  PROVE  BuilderTypeOK /\ StagesInOrder /\ UnfinishedIsCarried
<1>1. BuilderTypeOK
  BY QueueIs DEF BuilderInv, RowsInv, RowTypes, WorkerTypes, QueueTypes, CallTypes, BuilderTypeOK, Delivery
<1>2. UnfinishedIsCarried
  <2>1. SUFFICES ASSUME build.status \in InProgress, queue = <<>> PROVE caller.pc = "accept" \/ Republishes \/ Requeues \/ LostInRetry
    BY DEF UnfinishedIsCarried
  <2>2. Numbered = {}
    BY <2>1, QueueIs, EmptySeq DEF BuilderInv
  <2>3. \A a : \A subject : LiveDeliveries(a, subject) = {}
    BY <2>2 DEF LiveDeliveries
  <2>4. CASE latestJob = 0 /\ build.status = "accepted"
    BY <2>3, <2>4 DEF Republishes
  <2>5. CASE latestJob # 0 /\ Active(job[latestJob])
    BY <2>1, <2>3, <2>5 DEF Requeues, Active
  <2> QED
    BY <2>1, <2>2, <2>4, <2>5 DEF BuilderInv, BuildGoesOn
<1> QED
  BY <1>1, <1>2 DEF BuilderInv, RowsInv

\* The image builder's stages run in order although every stage is announced twice and a failure
\* rewinds the job (_apply_stage_result, _handle_job_failure); no build in progress is forgotten
\* by a death between two saves but in the window LostInRetry names (recover_inflight_jobs); a
\* cancelled build stays cancelled (cancel_build) - as long as no call of the gateway runs beside
\* a handler of the worker.
THEOREM BuilderSafetyHolds ==
  ASSUME OperatorBeside = FALSE
  PROVE  BuilderSpec => BuilderSafety
<1>1. BuilderInv /\ [BuilderNext]_builderVars => BuilderInv'
  BY BuilderInvNext
<1>2. BuilderInv /\ [BuilderNext]_builderVars => [build.status = "cancelled" => build'.status = "cancelled"]_builderVars
  BY CancelledStays
<1>3. BuilderInv => BuilderTypeOK /\ StagesInOrder /\ UnfinishedIsCarried
  BY BuilderInvSays
<1> QED
  BY BuilderInvInit, <1>1, <1>2, <1>3, PTL DEF BuilderSpec, BuilderSafety, CancelledIsFinal
============================================================================
