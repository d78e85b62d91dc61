----------------------------- MODULE Inference ------------------------------
(***************************************************************************)
(* Chat completions of one customer: routing, the authorisation hold, the  *)
(* attempt on one ready deployment after another, the per-token charge and *)
(* the release of the hold, one action per transaction or upstream event.  *)
(* Requests run concurrently; other parts of the system debit and top up   *)
(* the same balance meanwhile.                                             *)
(*                                                                         *)
(* Token counts are abstracted to cents: Worst[r] is what the bounds of    *)
(* request r cost, and what is billed is clamped to it.                    *)
(***************************************************************************)
EXTENDS Integers, FiniteSets, FiniteSetsExt, Totals

CONSTANTS
  Request, Backend,
  StreamRequest,    \* the requests that stream
  PrivateRequest,   \* the requests to a private model, paid for by the hour
  Worst,            \* [Request -> Nat]: inference_cost_cents of the token bounds
  InitialCredit,
  OtherDebits,      \* what metering, refunds and staff take at a time
  MaxInfFaults      \* bound on failing statements, deaths and expiries

ASSUME InferenceAssumption ==
  /\ IsFiniteSet(Request) /\ IsFiniteSet(Backend)
  /\ StreamRequest \subseteq Request /\ PrivateRequest \subseteq Request
  /\ Worst \in [Request -> Nat \ {0}]
  /\ InitialCredit \in Nat /\ OtherDebits \subseteq Nat \ {0} /\ MaxInfFaults \in Nat

VARIABLES
  credit,      \* users.balance_credits
  hold,        \* inference_balance_holds: "none", "active" or "expired"
  req,         \* per request: [pc, left, sent, owed]
  charged,     \* ledger rows of kind "inference" for the request
  shortfall,   \* cents served and not paid for
  disturbed,   \* history: something other than a covered request moved the balance or a hold
  infFaults

infVars == <<credit, hold, req, charged, shortfall, disturbed, infFaults>>

NewRequest == [pc |-> "new", left |-> {}, sent |-> FALSE, owed |-> 0]

InfInit ==
  /\ credit = InitialCredit
  /\ hold = [r \in Request |-> "none"]
  /\ req = [r \in Request |-> NewRequest]
  /\ charged = [r \in Request |-> 0]
  /\ shortfall = 0 /\ disturbed = FALSE /\ infFaults = 0

PerToken(r) == r \notin PrivateRequest

\* The holds of the other requests that have not expired.
ActiveHoldsNone(r) == 0
ActiveHolds(r) == Total({q \in Request \ {r} : hold[q] = "active"}, Worst)

InfFault == infFaults < MaxInfFaults /\ infFaults' = infFaults + 1

Goto(r, pc) == req' = [req EXCEPT ![r].pc = pc]

(***************************************************************************)
(* Before the model is called.                                             *)
(***************************************************************************)

\* chat_completions: not broke, or not charged per token.
BalanceGate(r) ==
  /\ req[r].pc = "new"
  /\ Goto(r, IF credit > 0 \/ ~PerToken(r) THEN "route" ELSE "refused")
  /\ UNCHANGED <<credit, hold, charged, shortfall, disturbed, infFaults>>

\* _select_healthy_deployments: the ready deployments whose health probe answers.
SelectHealthyDeployments(r) ==
  /\ req[r].pc = "route"
  /\ \E healthy \in SUBSET Backend :
       req' = [req EXCEPT ![r].left = healthy, ![r].pc = IF healthy = {} THEN "refused" ELSE "reserve"]
  /\ UNCHANGED <<credit, hold, charged, shortfall, disturbed, infFaults>>

\* reserve_inference_hold, under the lock of the user's row.
ReserveInferenceHold(r) ==
  /\ hold' = [q \in Request |-> IF q = r THEN "active" ELSE IF hold[q] = "expired" THEN "none" ELSE hold[q]]
  /\ credit - ActiveHolds(r) >= Worst[r]

\* _reserve_inference_budget: the worst case is held, or the request is refused.
ReserveInferenceBudget(r) ==
  /\ req[r].pc = "reserve"
  /\ \/ /\ ~PerToken(r)
        /\ Goto(r, "call") /\ UNCHANGED hold
     \/ PerToken(r) /\ ReserveInferenceHold(r) /\ Goto(r, "call")
     \/ /\ PerToken(r)
        /\ credit - ActiveHolds(r) < Worst[r]
        /\ Goto(r, "refused") /\ UNCHANGED hold
  /\ UNCHANGED <<credit, charged, shortfall, disturbed, infFaults>>

\* ... which fails open when the holds table cannot be written.
ReserveFailsOpen(r) ==
  /\ req[r].pc = "reserve" /\ PerToken(r) /\ InfFault
  /\ Goto(r, "call") /\ disturbed' = TRUE
  /\ UNCHANGED <<credit, hold, charged, shortfall>>

(***************************************************************************)
(* The candidates, one after another.                                      *)
(***************************************************************************)

\* A chunk with content reaches the client.
StreamChunk(r) ==
  /\ req[r].pc = "call" /\ r \in StreamRequest /\ ~req[r].sent
  /\ req' = [req EXCEPT ![r].sent = TRUE]
  /\ UNCHANGED <<credit, hold, charged, shortfall, disturbed, infFaults>>

\* An upstream fails: the next candidate is tried, unless content was sent or none is left.
UpstreamFails(r) ==
  /\ req[r].pc = "call"
  /\ \E b \in req[r].left :
       req' = [req EXCEPT ![r].left = @ \ {b},
                          ![r].pc = IF req[r].sent \/ req[r].left = {b} THEN "broken" ELSE @]
  /\ UNCHANGED <<credit, hold, charged, shortfall, disturbed, infFaults>>

\* _clamp_reported_usage and, without a usage block, the prompt and the chunks that were
\* sent: at most what was held.  A private model bills nothing.
BillableCents(r) == IF PerToken(r) THEN 1 .. Worst[r] ELSE {0}

\* The upstream answered in full; a miner that reports no usage is not charged for.
UpstreamSucceeds(r) ==
  /\ req[r].pc = "call"
  /\ \E cents \in BillableCents(r) \cup (IF r \in StreamRequest /\ req[r].sent THEN {} ELSE {0}) :
       req' = [req EXCEPT ![r].pc = "charge", ![r].owed = cents]
  /\ UNCHANGED <<credit, hold, charged, shortfall, disturbed, infFaults>>

\* The client goes away in mid-stream: what was served is settled (_finalize_stream).
ClientDisconnects(r) ==
  /\ req[r].pc = "call" /\ r \in StreamRequest
  /\ \E cents \in IF req[r].sent THEN BillableCents(r) ELSE {0} :
       req' = [req EXCEPT ![r].pc = "charge", ![r].owed = cents]
  /\ UNCHANGED <<credit, hold, charged, shortfall, disturbed, infFaults>>

\* The response was never iterated, so the generator's finally does not run.
StreamNeverStarted(r) ==
  /\ req[r].pc = "call" /\ r \in StreamRequest /\ ~req[r].sent
  /\ Goto(r, "abandoned")
  /\ UNCHANGED <<credit, hold, charged, shortfall, disturbed, infFaults>>

(***************************************************************************)
(* Settlement.                                                             *)
(***************************************************************************)

\* debit_user_to_floor: what there is, never below zero.
Take(cents) == Min({cents, Max({0, credit})})

\* _charge_inference_tokens.
ChargeInferenceTokens(r) ==
  /\ req[r].pc = "charge"
  /\ LET take == Take(req[r].owed) IN
     /\ credit' = credit - take
     /\ charged' = IF take > 0 THEN [charged EXCEPT ![r] = @ + 1] ELSE charged
     /\ shortfall' = shortfall + req[r].owed - take
  /\ Goto(r, "release")
  /\ UNCHANGED <<hold, disturbed, infFaults>>

\* The debit raises: counted, not retried.
ChargeFails(r) ==
  /\ req[r].pc = "charge" /\ InfFault
  /\ Goto(r, "release") /\ disturbed' = TRUE
  /\ UNCHANGED <<credit, hold, charged, shortfall>>

\* _release_inference_budget in the finally.
ReleaseInferenceBudget(r) ==
  /\ req[r].pc \in {"release", "broken"}
  /\ hold' = [hold EXCEPT ![r] = "none"]
  /\ Goto(r, IF req[r].pc = "broken" THEN "failed" ELSE "done")
  /\ UNCHANGED <<credit, charged, shortfall, disturbed, infFaults>>

(***************************************************************************)
(* Everything else that touches the balance or the holds.                  *)
(***************************************************************************)

InFlight(r) == req[r].pc \in {"call", "charge"}

\* The hold's time to live passes.
HoldExpires(r) ==
  /\ hold[r] = "active" /\ (InFlight(r) => infFaults < MaxInfFaults)
  /\ hold' = [hold EXCEPT ![r] = "expired"]
  /\ disturbed' = (disturbed \/ InFlight(r))
  /\ infFaults' = IF InFlight(r) THEN infFaults + 1 ELSE infFaults
  /\ UNCHANGED <<credit, req, charged, shortfall>>

\* debit_user(allow_negative): metering of storage, refunds and claw-backs.
OtherDebit ==
  /\ InfFault
  /\ \E n \in OtherDebits : credit' = credit - n
  /\ disturbed' = TRUE
  /\ UNCHANGED <<hold, req, charged, shortfall>>

\* The gateway dies: its requests end, their holds stay.
GatewayDies ==
  /\ InfFault
  /\ \E r \in Request : InFlight(r)
  /\ req' = [r \in Request |-> IF req[r].pc \in {"new", "refused", "done", "failed", "abandoned"}
                               THEN req[r] ELSE [req[r] EXCEPT !.pc = "abandoned"]]
  /\ UNCHANGED <<credit, hold, charged, shortfall, disturbed>>

InfNext ==
  \/ \E r \in Request :
       \/ BalanceGate(r) \/ SelectHealthyDeployments(r) \/ ReserveInferenceBudget(r) \/ ReserveFailsOpen(r)
       \/ StreamChunk(r) \/ UpstreamFails(r) \/ UpstreamSucceeds(r) \/ ClientDisconnects(r)
       \/ StreamNeverStarted(r)
       \/ ChargeInferenceTokens(r) \/ ChargeFails(r) \/ ReleaseInferenceBudget(r)
       \/ HoldExpires(r)
  \/ OtherDebit \/ GatewayDies

\* A request thread goes on, and the clock does.
InfFairness ==
  \A r \in Request :
    /\ WF_infVars(BalanceGate(r) \/ SelectHealthyDeployments(r) \/ ReserveInferenceBudget(r))
    /\ WF_infVars(UpstreamFails(r) \/ UpstreamSucceeds(r))
    /\ WF_infVars(ChargeInferenceTokens(r)) /\ WF_infVars(ReleaseInferenceBudget(r))
    /\ WF_infVars(HoldExpires(r) /\ ~InFlight(r))

InfSpec == InfInit /\ [][InfNext]_infVars /\ InfFairness

(***************************************************************************)
(* Properties.                                                             *)
(***************************************************************************)

\* Every variable keeps its type; a request is charged at most once.
InfTypeOK ==
  /\ credit \in Int
  /\ hold \in [Request -> {"none", "active", "expired"}]
  /\ req \in [Request -> [pc : {"new", "route", "reserve", "call", "charge", "release", "broken",
                                "refused", "done", "failed", "abandoned"},
                          left : SUBSET Backend, sent : BOOLEAN, owed : Nat]]
  /\ charged \in [Request -> 0 .. 1]
  /\ shortfall \in Nat /\ disturbed \in BOOLEAN /\ infFaults \in 0 .. MaxInfFaults

\* "A near-zero balance can't fan out into many free completions": however many requests
\* are in flight, every served cent is paid for, as long as nothing but covered requests
\* touches the balance and no hold lapsed under its request.
NoFreeInference == ~disturbed => shortfall = 0

\* What the holds of unsettled requests promise is there, request by request.
HoldsAreCovered ==
  ~disturbed => Total({r \in Request : hold[r] = "active" /\ InFlight(r)}, Worst) <= credit

\* A request that delivered its answer and owed something is charged exactly once,
\* whichever candidates failed before and whether or not the client stayed.
DeliveredIsCharged ==
  \A r \in Request : (req[r].pc = "done" /\ req[r].owed > 0 /\ ~disturbed) => charged[r] = 1

\* The customer of a request that failed, was refused or costs nothing pays nothing.
OnlyDeliveredIsCharged ==
  \A r \in Request : charged[r] > 0 => req[r].pc \notin {"refused", "failed"} /\ PerToken(r)

\* No hold outlives its request for good: each is released, or it expires, so that again
\* and again none is left.
HoldsEnd == []<>(\A r \in Request : hold[r] # "active")

\* Every served token is covered and paid for once, and nothing else is.
InferenceSafety ==
  InfTypeOK /\ NoFreeInference /\ HoldsAreCovered /\ DeliveredIsCharged /\ OnlyDeliveredIsCharged
=============================================================================
