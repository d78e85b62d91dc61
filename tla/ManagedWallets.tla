--------------------------- MODULE ManagedWallets ---------------------------
(* Onboarding of one provider by the validator: the application, the wallet   *)
(* the platform keeps for it, the neuron that wallet registers on the chain   *)
(* and the alpha it forwards.  The three ticks (funding, registration,        *)
(* payouts) run one after the other in the worker's loop and, beside it, in   *)
(* the admin's "tick" call, a thread of the same process.  Every chain call   *)
(* and every transaction is an action.  TAO and alpha are small naturals;     *)
(* keys, mnemonics and addresses are left out (a malformed payout address is  *)
(* refused at the door and never reaches a row).  A row read when its state   *)
(* is listed is the snapshot the rest of its step works on.                   *)
EXTENDS Naturals, FiniteSets

CONSTANTS
    Ticker,          \* the worker's loop and the admin's call
    MaxBurn,         \* the registration cost moves within 1..MaxBurn
    Reserve,         \* PAYOUT_FEE_RESERVE_TAO
    Buffer,          \* burn * (REGISTRATION_BUFFER - 1)
    MinPayout,       \* MIN_PAYOUT_ALPHA
    MaxSentIn,       \* TAO the provider sends in all (a bound)
    MaxEmitted,      \* alpha the neuron earns in all (a bound)
    MaxWalletEvents  \* failing calls, deaths, moves of the burn, missed windows, removals (a bound)

ASSUME WalletAssumption ==
    /\ IsFiniteSet(Ticker)
    /\ MaxBurn \in Nat \ {0} /\ Reserve \in Nat /\ Buffer \in Nat
    /\ MinPayout \in Nat \ {0}
    /\ MaxSentIn \in Nat /\ MaxEmitted \in Nat /\ MaxWalletEvents \in Nat

VARIABLES
    app,         \* the application: its kind and status
    approving,   \* the approval whose wallet is still to be provisioned
    wallet,      \* the row of managed_wallets
    late,        \* FUNDING_WINDOW has passed since the row was created
    submitting,  \* the tickers whose payout row says "submitting"
    stuck,       \* a row was left in "submitting" by a process that died
    listed,      \* the whitelist: hotkeys "own", "managed" and "empty"
    burn, balance, stake, neuron,  \* the chain
    sentIn, emitted, sentOut,      \* history: TAO in, alpha earned, alpha forwarded
    tick,        \* each ticker: where it is, its snapshot, its plan
    cut,         \* history: a registration was cut off after its mark
    walletEvents

walletVars == <<app, approving, wallet, late, submitting, stuck, listed, burn, balance, stake,
                neuron, sentIn, emitted, sentOut, tick, cut, walletEvents>>
chain == <<burn, balance, stake, neuron, sentIn, emitted, sentOut>>
door == <<app, approving, late>>

WalletState == {"none", "awaiting_funding", "funded", "registering", "registered", "active",
                "suspended", "funding_expired", "registration_failed"}
ValidTransitions ==
    [awaiting_funding    |-> {"funded", "funding_expired"},
     funded              |-> {"registering", "awaiting_funding", "registration_failed"},
     registering         |-> {"registered", "registration_failed"},
     registered          |-> {"active", "suspended"},
     active              |-> {"suspended"},
     suspended           |-> {"active"},
     funding_expired     |-> {"awaiting_funding"},
     registration_failed |-> {"funded", "suspended"}]

(* can_transition: a row that is already there may be moved there again. *)
CanTransition(current, target) ==
    current # "none" /\ (current = target \/ target \in ValidTransitions[current])

NoWallet == [state |-> "none", required |-> 0, funded |-> 0, uid |-> FALSE, paid |-> 0]
IdleTick == [pc |-> "idle", target |-> "none", amount |-> 0]

WalletInit ==
    /\ app = [kind |-> "none", status |-> "none"] /\ approving = FALSE
    /\ wallet = NoWallet /\ late = FALSE
    /\ submitting = {} /\ stuck = FALSE /\ listed = {}
    /\ burn = 1 /\ balance = 0 /\ stake = 0 /\ neuron = FALSE
    /\ sentIn = 0 /\ emitted = 0 /\ sentOut = 0
    /\ tick = [k \in Ticker |-> IdleTick] /\ cut = FALSE /\ walletEvents = 0

-----------------------------------------------------------------------------
(* The door: applications, their review and the whitelist.                    *)
keepSteps == UNCHANGED <<submitting, stuck, tick, cut>>
keepTicks == keepSteps /\ UNCHANGED walletEvents
Occurs == walletEvents < MaxWalletEvents /\ walletEvents' = walletEvents + 1

AppHotkey == IF app.kind = "own" THEN "own" ELSE "empty"

(* The review's rules pass or they do not; a failing model or registry leaves *)
(* the application to a human.                                                *)
RulesVerdict == {"approved", "rejected"}
ReviewVerdict == RulesVerdict \cup {"pending"}

(* The automated review decides, or leaves the application to a human; an     *)
(* approval by it lists the applicant's hotkey whatever the kind.             *)
SubmitApplication ==
    /\ app.status = "none"
    /\ \E kind \in {"own", "managed"}, status \in ReviewVerdict :
         /\ app' = [kind |-> kind, status |-> status]
         /\ listed' = IF status = "approved" THEN {IF kind = "own" THEN "own" ELSE "empty"} ELSE listed
    /\ keepTicks /\ UNCHANGED <<approving, wallet, late, chain>>

(* A managed applicant is given a wallet, everyone else is listed at once. *)
ApproveApplication ==
    /\ app.status \notin {"none", "approved"} /\ ~approving
    /\ app' = [app EXCEPT !.status = "approved"]
    /\ IF app.kind = "managed" THEN approving' = TRUE /\ UNCHANGED listed
       ELSE listed' = listed \cup {AppHotkey} /\ UNCHANGED approving
    /\ keepTicks /\ UNCHANGED <<wallet, late, chain>>

RejectApplication ==
    /\ app.status = "pending"
    /\ app' = [app EXCEPT !.status = "rejected"]
    /\ keepTicks /\ UNCHANGED <<approving, wallet, late, listed, chain>>

Quote == burn + Buffer + Reserve

(* An application that has a wallet keeps it. *)
ProvisionForApplication ==
    /\ approving /\ approving' = FALSE
    /\ wallet' = IF wallet = NoWallet
                 THEN [NoWallet EXCEPT !.state = "awaiting_funding", !.required = Quote]
                 ELSE wallet
    /\ keepTicks /\ UNCHANGED <<app, late, listed, chain>>

RemoveFromWhitelist ==
    /\ \E h \in listed : listed' = listed \ {h}
    /\ Occurs /\ keepSteps /\ UNCHANGED <<app, approving, wallet, late, chain>>

(* The world: the provider's transfers, the price, the window, the earnings.  *)
ProviderSends ==
    /\ wallet # NoWallet /\ sentIn < MaxSentIn
    /\ sentIn' = sentIn + 1 /\ balance' = balance + 1
    /\ keepTicks /\ UNCHANGED <<door, wallet, listed, burn, stake, neuron, emitted, sentOut>>

BurnMoves ==
    /\ \E b \in 1..MaxBurn : b # burn /\ burn' = b
    /\ Occurs /\ keepSteps /\ UNCHANGED <<door, wallet, listed, balance, stake, neuron, sentIn, emitted, sentOut>>

FundingWindowPasses ==
    /\ wallet # NoWallet /\ ~late /\ late' = TRUE
    /\ Occurs /\ keepSteps /\ UNCHANGED <<app, approving, wallet, listed, chain>>

Emission ==
    /\ neuron /\ "managed" \in listed /\ emitted < MaxEmitted
    /\ emitted' = emitted + 1 /\ stake' = stake + 1
    /\ keepTicks /\ UNCHANGED <<door, wallet, listed, burn, balance, neuron, sentIn, sentOut>>

-----------------------------------------------------------------------------
(* The ticks.  Of a snapshot or a plan a ticker keeps the one amount its next *)
(* step needs: the row's requirement or funding, the balance, the shortfall,  *)
(* the alpha to forward.                                                      *)
Plan(k, pc, target, amount) ==
    tick' = [tick EXCEPT ![k] = [pc |-> pc, target |-> target, amount |-> amount]]
Keep(k, pc, amount) == Plan(k, pc, "none", amount)
Go(k, pc) == Keep(k, pc, 0)
TickAt(k, pc) == tick[k].pc = pc
Fails == Occurs
Fine == UNCHANGED walletEvents
keepRows == UNCHANGED <<wallet, submitting, stuck, listed, cut>>
keepMost == UNCHANGED <<door, submitting, stuck, listed, chain, cut>>

(* advance_managed_wallet: one transaction; an illegal edge writes nothing. *)
Advanced(target) == IF CanTransition(wallet.state, target)
                    THEN [wallet EXCEPT !.state = target] ELSE wallet

TickFunding(k) ==
    /\ TickAt(k, "idle") /\ wallet # NoWallet
    /\ IF wallet.state = "awaiting_funding" THEN Keep(k, "balance", wallet.required) ELSE Go(k, "reg")
    /\ Fine /\ keepRows /\ UNCHANGED <<door, chain>>

FundingTarget(required) == IF balance >= required THEN "funded"
                    ELSE IF late THEN "funding_expired" ELSE "awaiting_funding"

(* check_funding on the balance just read; a read that fails passes over it. *)
CheckFunding(k) ==
    /\ TickAt(k, "balance")
    /\ LET target == FundingTarget(tick[k].amount) IN
       \/ /\ IF target = "awaiting_funding" THEN Go(k, "reg") ELSE Plan(k, "fund", target, balance)
          /\ Fine
       \/ Fails /\ Go(k, "reg")
    /\ keepRows /\ UNCHANGED <<door, chain>>

RecordFunding(k) ==
    /\ TickAt(k, "fund")
    /\ wallet' = IF CanTransition(wallet.state, tick[k].target)
                 THEN [wallet EXCEPT !.state = tick[k].target, !.funded = tick[k].amount] ELSE wallet
    /\ Go(k, "reg") /\ Fine /\ keepMost

TickRegistration(k) ==
    /\ TickAt(k, "reg")
    /\ IF wallet.state = "funded" THEN Keep(k, "plan", wallet.funded) ELSE Go(k, "act")
    /\ Fine /\ keepRows /\ UNCHANGED <<door, chain>>

Spendable == IF balance >= Reserve THEN balance - Reserve ELSE 0

(* plan_registration: adopt a neuron that is there, ask for more, or go on. *)
PlanRegistration(k) ==
    /\ TickAt(k, "plan")
    /\ \/ /\ IF neuron THEN Go(k, "adopt")
             ELSE IF burn > Spendable THEN Keep(k, "requote", tick[k].amount + burn - Spendable)
             ELSE Go(k, "mark")
          /\ Fine
       \/ Fails /\ Go(k, "act")
    /\ keepRows /\ UNCHANGED <<door, chain>>

Requote(k) ==
    /\ TickAt(k, "requote")
    /\ wallet' = IF CanTransition(wallet.state, "awaiting_funding")
                 THEN [wallet EXCEPT !.state = "awaiting_funding",
                                     !.required = tick[k].amount] ELSE wallet
    /\ Go(k, "act") /\ Fine /\ keepMost

AdoptNeuron(k) ==
    /\ TickAt(k, "adopt")
    /\ wallet' = Advanced("registering")
    /\ Go(k, "settleReg") /\ Fine /\ keepMost

MarkRegistering(k) ==
    /\ TickAt(k, "mark")
    /\ wallet' = Advanced("registering")
    /\ Go(k, IF CanTransition(wallet.state, "registering") THEN "register" ELSE "act")
    /\ Fine /\ keepMost

(* The extrinsic lands when the hotkey is free and the coldkey can pay; the   *)
(* call may raise, or report a failure, whether or not it landed.             *)
RegisterExtrinsic(k) ==
    /\ TickAt(k, "register")
    /\ \/ /\ ~neuron /\ balance >= burn
          /\ neuron' = TRUE /\ balance' = balance - burn
          /\ \/ Fine /\ Go(k, "uid")
             \/ Fails /\ Go(k, "raised")
       \/ /\ UNCHANGED <<neuron, balance>>
          /\ \/ (neuron \/ balance < burn) /\ Fine /\ Go(k, "uid")
             \/ Fails /\ \E pc \in {"uid", "raised"} : Go(k, pc)
    /\ keepRows /\ UNCHANGED <<door, burn, stake, sentIn, emitted, sentOut>>

RegisterRaised(k) ==
    /\ TickAt(k, "raised")
    /\ wallet' = Advanced("registration_failed")
    /\ Go(k, "act") /\ Fine /\ keepMost

(* The chain is asked again whatever the answer was; an error here is not     *)
(* caught and ends the whole tick.                                            *)
ConfirmRegistration(k) ==
    /\ TickAt(k, "uid")
    /\ \/ Go(k, IF neuron THEN "settleReg" ELSE "raised") /\ Fine /\ UNCHANGED cut
       \/ Fails /\ Go(k, "idle") /\ cut' = TRUE
    /\ UNCHANGED <<door, wallet, submitting, stuck, listed, chain>>

SettleRegistered(k) ==
    /\ TickAt(k, "settleReg")
    /\ wallet' = IF CanTransition(wallet.state, "registered")
                 THEN [wallet EXCEPT !.state = "registered", !.uid = TRUE] ELSE wallet
    /\ Go(k, "act") /\ Fine /\ keepMost

(* Mutant: a registration under way is taken for a finished one. *)
ActivatesEarly(state) == state \in {"registering", "registered"}

Activates(state) == state = "registered"

(* The second pass: what is registered is listed, then active. *)
ListRegistered(k) ==
    /\ TickAt(k, "act")
    /\ Go(k, IF Activates(wallet.state) THEN "whitelist" ELSE "pay")
    /\ Fine /\ keepRows /\ UNCHANGED <<door, chain>>

WhitelistNeuron(k) ==
    /\ TickAt(k, "whitelist")
    /\ \/ listed' = listed \cup {"managed"} /\ Go(k, "activate") /\ Fine
       \/ Fails /\ Go(k, "pay") /\ UNCHANGED listed
    /\ UNCHANGED <<door, wallet, submitting, stuck, cut, chain>>

ActivateOne(k) ==
    /\ TickAt(k, "activate")
    /\ wallet' = Advanced("active")
    /\ Go(k, "pay") /\ Fine /\ keepMost

-----------------------------------------------------------------------------
(* Payouts.                                                                   *)
HasInflightPayout == stuck \/ submitting # {}

TickPayouts(k) ==
    /\ TickAt(k, "pay")
    /\ Go(k, IF wallet.state \in {"active", "suspended"} /\ ~HasInflightPayout
             THEN "stake" ELSE "idle")
    /\ Fine /\ keepRows /\ UNCHANGED <<door, chain>>

PlanPayout(k) ==
    /\ TickAt(k, "stake")
    /\ \/ /\ IF stake >= MinPayout THEN Keep(k, "record", stake) ELSE Go(k, "idle")
          /\ Fine
       \/ Fails /\ Go(k, "idle")
    /\ keepRows /\ UNCHANGED <<door, chain>>

RecordSubmitting(k) ==
    /\ TickAt(k, "record")
    /\ submitting' = submitting \cup {k}
    /\ Keep(k, "transfer", tick[k].amount) /\ Fine /\ UNCHANGED <<door, wallet, stuck, listed, cut, chain>>

(* The transfer lands when the stake still covers it; a raise and a failure   *)
(* answer say nothing of what landed.                                         *)
TransferAlpha(k) ==
    /\ TickAt(k, "transfer")
    /\ \/ /\ stake >= tick[k].amount
          /\ stake' = stake - tick[k].amount /\ sentOut' = sentOut + tick[k].amount
          /\ \/ Fine /\ Keep(k, "sent", tick[k].amount)
             \/ Fails /\ Keep(k, "unsure", tick[k].amount)
       \/ /\ UNCHANGED <<stake, sentOut>>
          /\ Keep(k, "unsure", tick[k].amount)
          /\ \/ stake < tick[k].amount /\ Fine
             \/ Fails
    /\ keepRows /\ UNCHANGED <<door, burn, balance, neuron, sentIn, emitted>>

SettlePayout(k) ==
    /\ tick[k].pc \in {"sent", "unsure"}
    /\ submitting' = submitting \ {k}
    /\ IF TickAt(k, "sent") THEN Keep(k, "credit", tick[k].amount) ELSE Go(k, "idle")
    /\ Fine /\ UNCHANGED <<door, wallet, stuck, listed, cut, chain>>

CreditManagedPayout(k) ==
    /\ TickAt(k, "credit")
    /\ wallet' = [wallet EXCEPT !.paid = @ + tick[k].amount]
    /\ Go(k, "idle") /\ Fine /\ keepMost

(* A death of the validator ends both threads where they are. *)
ValidatorDies ==
    /\ Fails
    /\ tick' = [k \in Ticker |-> IdleTick]
    /\ approving' = FALSE
    /\ stuck' = HasInflightPayout /\ submitting' = {}
    /\ cut' = (cut \/ \E k \in Ticker : tick[k].pc \in {"adopt", "register", "raised", "uid", "settleReg"})
    /\ UNCHANGED <<app, late, wallet, listed, chain>>

Ticks(k) ==
    \/ TickFunding(k) \/ CheckFunding(k) \/ RecordFunding(k)
    \/ TickRegistration(k) \/ PlanRegistration(k) \/ Requote(k) \/ AdoptNeuron(k)
    \/ MarkRegistering(k) \/ RegisterExtrinsic(k) \/ RegisterRaised(k) \/ ConfirmRegistration(k)
    \/ SettleRegistered(k) \/ ListRegistered(k) \/ WhitelistNeuron(k) \/ ActivateOne(k)
    \/ TickPayouts(k) \/ PlanPayout(k) \/ RecordSubmitting(k) \/ TransferAlpha(k)
    \/ SettlePayout(k) \/ CreditManagedPayout(k)

WalletNext ==
    \/ SubmitApplication \/ ApproveApplication \/ RejectApplication \/ ProvisionForApplication
    \/ RemoveFromWhitelist \/ ProviderSends \/ BurnMoves \/ FundingWindowPasses \/ Emission
    \/ ValidatorDies
    \/ \E k \in Ticker : Ticks(k)

(* The worker's loop runs for ever, restarted after a death; the admin's call *)
(* ends by itself once begun.  Nobody else is asked to act.                   *)
WalletFairness == \A k \in Ticker : WF_walletVars(Ticks(k))
WalletSpec == WalletInit /\ [][WalletNext]_walletVars /\ WalletFairness

-----------------------------------------------------------------------------
(* Every variable keeps its type; a payout in flight belongs to a ticker. *)
WalletTypeOK ==
    /\ app.kind \in {"none", "own", "managed"}
    /\ app.status \in {"none", "pending", "approved", "rejected"}
    /\ approving \in BOOLEAN /\ late \in BOOLEAN /\ cut \in BOOLEAN
    /\ wallet.state \in WalletState /\ wallet.uid \in BOOLEAN
    /\ wallet.required \in Nat /\ wallet.funded \in 0..MaxSentIn /\ wallet.paid \in 0..MaxEmitted
    /\ submitting \subseteq Ticker /\ stuck \in BOOLEAN
    /\ listed \subseteq {"own", "managed", "empty"}
    /\ burn \in 1..MaxBurn /\ balance \in 0..MaxSentIn /\ stake \in 0..MaxEmitted
    /\ neuron \in BOOLEAN /\ walletEvents \in 0..MaxWalletEvents
    /\ \A k \in Ticker : tick[k].target \in WalletState /\ tick[k].amount \in Nat

(* "A wallet is only whitelisted after its neuron is confirmed on chain"      *)
(* (managed_wallets.py, module docstring): whatever the two tickers do beside *)
(* each other, the managed hotkey is listed only with a neuron behind it, and *)
(* a registered or earning row knows its uid and is backed by that neuron.    *)
ListedHasNeuron ==
    /\ "managed" \in listed => neuron
    /\ wallet.state \in {"registered", "active"} => neuron /\ wallet.uid

(* total_paid_alpha never counts alpha that has not left the coldkey, though  *)
(* transfers raise, fail and report failure after landing, and two tickers    *)
(* pay from the same stake.                                                   *)
PaidIsSent == wallet.paid <= sentOut

(* A funded wallet does not sit: the ticks register it, ask for more or give  *)
(* it up for an operator, unless a registration was cut off after its mark.   *)
FundedMovesOn ==
    wallet.state \in {"funded", "registering", "registered"} ~>
        \/ wallet.state \in {"awaiting_funding", "active", "registration_failed"}
        \/ cut

(* The module docstring: each tick is "safe to interrupt".  It is not: a row  *)
(* marked REGISTERING whose tick ends there is in no tick's list.             *)
InterruptedResumes == wallet.state = "registering" ~> wallet.state # "registering"

(* Neurons before whitelisting, and no payout counted that was not sent. *)
WalletSafety == WalletTypeOK /\ ListedHasNeuron /\ PaidIsSent
=============================================================================
