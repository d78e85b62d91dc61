--------------------------- MODULE MeteringProofs ---------------------------
(***************************************************************************)
(* The money of Metering for any deployments, rates and bounds: no part of *)
(* a cent that the meter accrued is lost or charged twice, unless a cycle  *)
(* dies with the cents in flight; the meter never overdraws; nobody pays   *)
(* for more than the time a deployment ran; and a pod suspended for its    *)
(* balance owes a cent and is deleted in time.                             *)
(***************************************************************************)
EXTENDS Metering, TotalsProofs, SequenceTheorems, TLAPS

Stage == {"idle", "usage", "debit", "return", "suspend", "storage", "reap"}
Cycle == [stage : Stage, todo : SUBSET Dep, at : Nat, elapsed : Nat,
          dep : Dep \cup {NoDep}, amount : Nat]
Row == [state : State, reason : {"none", "balance", "idle"},
        lease : {"none", "live", "suspended", "terminated"}, since : Int, paused : Int]

\* What the theorems need of the types: the clock, the rows, the money and
\* the cycle, which has a deployment at hand while cents are in flight.
MoneyType ==
  /\ now \in Nat /\ metered \in Nat /\ metered <= now /\ balance \in Int
  /\ row \in [Dep -> Row]
  /\ rem \in [Dep -> Nat] /\ srem \in [Dep -> Nat] /\ accrued \in [Dep -> Nat] /\ paid \in [Dep -> Nat]
  /\ cycle \in Cycle /\ lost \subseteq Dep
  /\ cycle.stage \in {"debit", "return"} => cycle.dep \in Dep

\* Whole cents and remainder make up the accumulator.
LEMMA Division ==
  ASSUME NEW a \in Nat, NEW c \in Nat \ {0}
  PROVE /\ a \div c \in Nat /\ a % c \in Nat
        /\ c * (a \div c) + (a % c) = a
OBVIOUS

\* The ticks billed are a natural number, and so are the parts of a cent.
LEMMA PartsType ==
  ASSUME MoneyType, NEW d \in Dep
  PROVE /\ BilledTicks(d) \in Nat
        /\ Parts(d, BilledTicks(d)) \in Nat
<1>1. BilledTicks(d) \in Nat
  BY DEF MoneyType, Cycle, Row, BilledTicks, AtMost, AtLeast
<1>2. HourlyCents[d] * Cent * BilledTicks(d) \in Nat
  BY <1>1, MeteringAssumption
<1> DEFINE n == HourlyCents[d] * Cent * BilledTicks(d)
           q == n \div TicksPerHour
           r == 2 * (n % TicksPerHour)
<1>3. q \in Nat /\ r \in Nat
  BY <1>2, Division, MeteringAssumption
<1>4. Parts(d, BilledTicks(d)) \in {q, q + 1}
  BY DEF Parts
<1> QED
  BY <1>1, <1>3, <1>4

\* The debit takes part of the amount, and no more than the balance has.
LEMMA TakeBounds ==
  ASSUME balance \in Int, NEW a \in Nat
  PROVE /\ Take(a) \in Nat /\ Take(a) <= a
        /\ Take(a) > 0 => Take(a) <= balance
BY DEF Take, AtMost, AtLeast

\* The initial state is well typed.
LEMMA InitMoneyType == Init => MoneyType
<1> SUFFICES ASSUME Init PROVE MoneyType
  OBVIOUS
<1>1. NoRow \in Row
  BY DEF NoRow, Row, State, Never
<1>2. Resting \in Cycle /\ Resting.stage = "idle"
  BY DEF Resting, Cycle, Stage
<1> QED
  BY <1>1, <1>2 DEF Init, MoneyType

\* Dropping a deployment from the list keeps the cycle well typed.
LEMMA DropType ==
  ASSUME cycle \in Cycle, NEW d \in Dep, NEW s \in Stage
  PROVE /\ Resting \in Cycle /\ Resting.stage = "idle"
        /\ Drop(d) \in Cycle /\ Drop(d).stage = cycle.stage
        /\ DropTo(s, d) \in Cycle /\ DropTo(s, d).stage = s
BY DEF Resting, Drop, DropTo, Cycle, Stage

\* So does taking up an amount, or a part of it.
LEMMA AmountType ==
  ASSUME cycle \in Cycle, NEW d \in Dep, NEW n \in Nat
  PROVE /\ [cycle EXCEPT !.stage = "debit", !.dep = d, !.amount = n] \in Cycle
        /\ [cycle EXCEPT !.stage = "return", !.amount = n] \in Cycle
        /\ [cycle EXCEPT !.stage = "suspend", !.amount = 0] \in Cycle
        /\ [cycle EXCEPT !.stage = "debit", !.dep = d, !.amount = n].amount = n
        /\ [cycle EXCEPT !.stage = "debit", !.dep = d, !.amount = n].dep = d
        /\ [cycle EXCEPT !.stage = "return", !.amount = n].amount = n
        /\ [cycle EXCEPT !.stage = "return", !.amount = n].dep = cycle.dep
<1>1. [cycle EXCEPT !.stage = "debit", !.dep = d, !.amount = n] \in Cycle
  BY DEF Cycle, Stage
<1>2. [cycle EXCEPT !.stage = "return", !.amount = n] \in Cycle
  BY DEF Cycle, Stage
<1>3. [cycle EXCEPT !.stage = "suspend", !.amount = 0] \in Cycle
  BY DEF Cycle, Stage
<1> QED
  BY <1>1, <1>2, <1>3 DEF Cycle

\* Every rewrite of a row keeps its type.
LEMMA RowTypes ==
  ASSUME now \in Nat, NEW r \in Row, NEW s \in Nat
  PROVE /\ Suspended(r, "balance") \in Row /\ Suspended(r, "idle") \in Row
        /\ Ended(r) \in Row
        /\ [r EXCEPT !.since = s] \in Row
        /\ [r EXCEPT !.state = "STARTING"] \in Row
        /\ [r EXCEPT !.state = "STARTING", !.lease = "live"] \in Row
        /\ [r EXCEPT !.lease = "live"] \in Row
        /\ [r EXCEPT !.state = "READY", !.reason = "none", !.lease = "live", !.paused = Never] \in Row
<1>1. Never \in Int
  BY DEF Never
<1>2. Suspended(r, "balance") \in Row /\ Suspended(r, "idle") \in Row
  <2> DEFINE p == IF r.paused = Never THEN now ELSE r.paused
  <2>1. p \in Int
    BY <1>1 DEF Row
  <2>2. \A why : Suspended(r, why) =
          [r EXCEPT !.state = "SUSPENDED", !.reason = why, !.lease = "suspended", !.paused = p]
    BY DEF Suspended, Row
  <2> HIDE DEF p
  <2>3. \A why \in {"balance", "idle"} :
          [r EXCEPT !.state = "SUSPENDED", !.reason = why, !.lease = "suspended", !.paused = p] \in Row
    BY <2>1 DEF Row, State
  <2> QED
    BY <2>2, <2>3
<1>3. Ended(r) \in Row
  BY DEF Ended, Row, State
<1>4. [r EXCEPT !.since = s] \in Row
  <2>1. s \in Int
    OBVIOUS
  <2> QED
    BY <2>1 DEF Row
<1>5. /\ [r EXCEPT !.state = "STARTING"] \in Row
      /\ [r EXCEPT !.state = "STARTING", !.lease = "live"] \in Row
      /\ [r EXCEPT !.lease = "live"] \in Row
  BY DEF Row, State
<1>6. [r EXCEPT !.state = "READY", !.reason = "none", !.lease = "live", !.paused = Never] \in Row
  BY <1>1 DEF Row, State
<1> QED
  BY <1>2, <1>3, <1>5, <1>6, <1>4

\* The actions that leave the money and the cycle alone.
Aside ==
  \/ \E d \in Dep : Report(d) \/ Customer(d) \/ \E b \in Box : BoxChanges(d, b)
  \/ Sweep \/ Tick \/ \E a \in TopUps : CreditUser(a)

\* They change neither the accumulators nor the cycle, and the rows stay rows.
LEMMA AsideStep ==
  ASSUME MoneyType, Aside
  PROVE /\ UNCHANGED <<rem, srem, accrued, paid, lost, cycle, metered>>
        /\ row' \in [Dep -> Row] /\ now' \in Nat /\ now <= now'
        /\ balance' \in Int /\ balance <= balance'
<1> USE DEF ledger, clock
<1>1. CASE \E d \in Dep : Report(d) \/ Customer(d) \/ \E b \in Box : BoxChanges(d, b)
  <2>1. PICK d \in Dep : Report(d) \/ Customer(d) \/ \E b \in Box : BoxChanges(d, b)
    BY <1>1
  <2>2. UNCHANGED <<rem, srem, accrued, paid, lost, cycle, metered, now, balance>>
    BY <2>1 DEF Report, ReportReady, SetBillableSince, Requeue, IdleSuspend, Customer,
       CreateDeployment, ResumeDeployment, Terminate, BoxChanges
  <2>3. row[d] \in Row /\ now \in Nat /\ row \in [Dep -> Row]
    BY DEF MoneyType
  <2>4. row' = row \/ \E r \in Row : row' = [row EXCEPT ![d] = r]
    <3>1. CASE ReportReady(d)
      BY <3>1, <2>3, RowTypes DEF ReportReady
    <3>2. CASE SetBillableSince(d)
      BY <3>2, <2>3, RowTypes DEF SetBillableSince
    <3>3. CASE Requeue(d)
      BY <3>3, <2>3, RowTypes DEF Requeue
    <3>4. CASE IdleSuspend(d)
      BY <3>4, <2>3, RowTypes DEF IdleSuspend
    <3>5. CASE CreateDeployment(d)
      <4>1. row' = [row EXCEPT ![d] = [row[d] EXCEPT !.state = "STARTING", !.lease = "live"]]
        BY <3>5, <2>3 DEF CreateDeployment, Row
      <4> QED
        BY <4>1, <2>3, RowTypes
    <3>6. CASE ResumeDeployment(d)
      BY <3>6, <2>3, RowTypes DEF ResumeDeployment
    <3>7. CASE Terminate(d)
      BY <3>7, <2>3, RowTypes DEF Terminate
    <3>8. CASE \E b \in Box : BoxChanges(d, b)
      BY <3>8 DEF BoxChanges
    <3> QED
      BY <2>1, <3>1, <3>2, <3>3, <3>4, <3>5, <3>6, <3>7, <3>8 DEF Report, Customer
  <2> QED
    BY <2>2, <2>3, <2>4 DEF MoneyType
<1>2. CASE Sweep
  <2>1. CASE AutoResumeOnce
    BY <2>1 DEF AutoResumeOnce, MoneyType
  <2>2. CASE AutoResumeNext
    <3> DEFINE d == Head(sweep.todo)
    <3>1. UNCHANGED <<rem, srem, accrued, paid, lost, cycle, metered, now, balance>>
      BY <2>2 DEF AutoResumeNext
    <3>2. row' = row \/ row' = [row EXCEPT ![d].lease = "live"]
      BY <2>2 DEF AutoResumeNext
    <3>3. row' \in [Dep -> Row]
      <4>1. CASE d \in Dep
        <5>1. row[d] \in Row /\ now \in Nat
          BY <4>1 DEF MoneyType
        <5>2. [row[d] EXCEPT !.lease = "live"] \in Row
          BY <5>1, RowTypes
        <5> QED
          BY <3>2, <4>1, <5>2 DEF MoneyType
      <4>2. CASE d \notin Dep
        BY <3>2, <4>2 DEF MoneyType
      <4> QED
        BY <4>1, <4>2
    <3> QED
      BY <3>1, <3>3 DEF MoneyType
  <2> QED
    BY <1>2, <2>1, <2>2 DEF Sweep
<1>3. CASE Tick
  BY <1>3 DEF Tick, MoneyType
<1>4. CASE \E a \in TopUps : CreditUser(a)
  BY <1>4, MeteringAssumption DEF CreditUser, MoneyType
<1> QED
  BY <1>1, <1>2, <1>3, <1>4 DEF Aside

\* The steps of the worker between which no cents are in flight.
Between ==
  \/ MeterUsage \/ MeterPodStorage \/ ReapExhaustedPods
  \/ \E d \in Dep : MeterSkip(d) \/ StampUnbilled(d) \/ MeterSuspend(d) \/ Storage(d) \/ Reap(d)

\* No cents are in flight before or after, no accumulator of usage changes,
\* and only the storage hold moves the balance.
NoCentsMove ==
  /\ UNCHANGED <<rem, accrued, paid, lost, now>> /\ srem' \in [Dep -> Nat]
  /\ metered' \in Nat /\ metered' <= now
  /\ row' \in [Dep -> Row] /\ cycle' \in Cycle
  /\ cycle.stage \notin {"debit", "return"} /\ cycle'.stage \notin {"debit", "return"}
  /\ balance' \in Int /\ (balance' # balance => At("storage"))

\* That is what these steps do.
LEMMA BetweenStep ==
  ASSUME MoneyType, Between
  PROVE NoCentsMove
<1> USE DEF ledger, clock, At, NoCentsMove
<1>1. cycle \in Cycle /\ row \in [Dep -> Row] /\ balance \in Int /\ now \in Nat /\ metered \in Nat /\ metered <= now /\ srem \in [Dep -> Nat]
  BY DEF MoneyType
<1>2. CASE MeterUsage
  <2>1. AtMost(now - metered, MaxCycle) \in Nat
    BY <1>1, MeteringAssumption DEF AtMost
  <2>2. InState("READY") \in SUBSET Dep
    BY DEF InState
  <2>3. cycle' \in Cycle /\ cycle'.stage = "usage"
    BY <1>1, <1>2, <2>1, <2>2 DEF MeterUsage, Resting, Cycle, Stage
  <2> QED
    BY <1>1, <1>2, <2>3 DEF MeterUsage
<1>3. CASE MeterPodStorage
  <2>1. cycle' \in Cycle /\ cycle'.stage = "storage"
    BY <1>1, <1>3 DEF MeterPodStorage, InState, Resting, Cycle, Stage
  <2> QED
    BY <1>1, <1>3, <2>1 DEF MeterPodStorage
<1>4. CASE ReapExhaustedPods
  <2> DEFINE late == {d \in InState("SUSPENDED") \cap Rental : Expired(d)}
  <2>1. late \in SUBSET Dep
    BY DEF InState
  <2>2. cycle' = Resting \/ cycle' = [cycle EXCEPT !.stage = "reap", !.todo = late]
    BY <1>4 DEF ReapExhaustedPods
  <2> HIDE DEF late
  <2>3. cycle' \in Cycle /\ cycle'.stage \in {"idle", "reap"}
    <3>1. CASE cycle' = Resting
      BY <3>1 DEF Resting, Cycle, Stage
    <3>2. CASE cycle' = [cycle EXCEPT !.stage = "reap", !.todo = late]
      BY <1>1, <2>1, <3>2 DEF Cycle, Stage
    <3> QED
      BY <2>2, <3>1, <3>2
  <2> QED
    BY <1>1, <1>4, <2>3 DEF ReapExhaustedPods
<1>5. ASSUME NEW d \in Dep, MeterSkip(d) \/ StampUnbilled(d) \/ MeterSuspend(d) \/ Storage(d) \/ Reap(d)
      PROVE NoCentsMove
  <2>1. row[d] \in Row /\ "usage" \in Stage
    BY <1>1 DEF Stage
  <2>2. CASE MeterSkip(d)
    BY <1>1, <2>1, <2>2, DropType DEF MeterSkip
  <2>3. CASE StampUnbilled(d)
    <3>1. row' \in [Dep -> Row]
      <4>1. cycle.at \in Nat /\ row' = [row EXCEPT ![d].since = cycle.at]
        BY <1>1, <2>3 DEF StampUnbilled, Cycle
      <4>2. [row[d] EXCEPT !.since = cycle.at] \in Row
        BY <1>1, <2>1, <4>1, RowTypes
      <4> QED
        BY <1>1, <4>1, <4>2
    <3> QED
      BY <1>1, <2>1, <2>3, <3>1, DropType DEF StampUnbilled
  <2>4. CASE MeterSuspend(d)
    <3>1. row' \in [Dep -> Row]
      BY <1>1, <2>1, <2>4, RowTypes DEF MeterSuspend
    <3> QED
      BY <1>1, <2>1, <2>4, <3>1, DropType DEF MeterSuspend
  <2>5. CASE AccrueStorage(d)
    <3> DEFINE total == srem[d] + StorageParts
               whole == total \div Cent
    <3>1. whole \in Nat /\ total % Cent \in Nat
      BY <1>1, Division, MeteringAssumption
    <3>2. /\ srem' = [srem EXCEPT ![d] = total % Cent]
          /\ cycle' = [cycle EXCEPT !.dep = d, !.amount = whole] \/ cycle' = Drop(d)
          /\ cycle.stage = "storage"
      BY <2>5 DEF AccrueStorage
    <3> HIDE DEF total, whole
    <3>3. cycle' \in Cycle /\ cycle'.stage = "storage"
      BY <1>1, <2>1, <3>1, <3>2, DropType DEF Cycle
    <3>4. srem' \in [Dep -> Nat]
      BY <1>1, <3>1, <3>2
    <3> QED
      BY <1>1, <2>5, <3>3, <3>4 DEF AccrueStorage
  <2>6. CASE DebitStorage(d)
    <3>1. cycle.amount \in Nat
      BY <1>1 DEF Cycle
    <3>2. cycle' \in Cycle /\ cycle'.stage = "storage"
      BY <1>1, <2>1, <2>6, DropType DEF DebitStorage
    <3>3. balance' \in Int
      BY <1>1, <2>6, <3>1 DEF DebitStorage
    <3> QED
      BY <1>1, <2>6, <3>2, <3>3 DEF DebitStorage
  <2>7. CASE Reap(d)
    <3>1. row' \in [Dep -> Row]
      BY <1>1, <2>1, <2>7, RowTypes DEF Reap
    <3>2. cycle' \in Cycle /\ cycle'.stage \in {"idle", "reap"}
      BY <1>1, <2>1, <2>7, DropType DEF Reap
    <3> QED
      BY <1>1, <2>7, <3>1, <3>2 DEF Reap
  <2> QED
    BY <1>5, <2>2, <2>3, <2>4, <2>5, <2>6, <2>7 DEF Storage
<1> QED
  BY <1>2, <1>3, <1>4, <1>5 DEF Between

\* The steps that move cents: one accrual, one debit, one carry-back, one loss.
LEMMA AccrueStep ==
  ASSUME MoneyType, UsageConserved, NEW d \in Dep, AccrueMetering(d)
  PROVE MoneyType' /\ UsageConserved' /\ balance' = balance
<1> DEFINE parts == Parts(d, BilledTicks(d))
           whole == (rem[d] + parts) \div Cent
           left == (rem[d] + parts) % Cent
<1>1. parts \in Nat
  BY PartsType
<1>2. rem[d] \in Nat /\ rem[d] + parts \in Nat
  BY <1>1 DEF MoneyType
<1>3. whole \in Nat /\ left \in Nat /\ Cent * whole + left = rem[d] + parts
  BY <1>2, Division, MeteringAssumption
<1>4. /\ rem' = [rem EXCEPT ![d] = left]
      /\ accrued' = [accrued EXCEPT ![d] = @ + parts]
      /\ cycle' = IF whole > 0 THEN [cycle EXCEPT !.stage = "debit", !.dep = d, !.amount = whole]
                  ELSE Drop(d)
      /\ cycle.stage = "usage"
      /\ UNCHANGED <<balance, srem, paid, lost, now, metered, row>>
  BY DEF AccrueMetering, At, clock
<1> HIDE DEF parts, whole, left
<1>5. cycle' \in Cycle /\ (whole > 0 => cycle'.stage = "debit" /\ cycle'.dep = d /\ cycle'.amount = whole)
                       /\ (whole = 0 => cycle'.stage = "usage")
  <2>1. CASE whole > 0
    <3>1. cycle' = [cycle EXCEPT !.stage = "debit", !.dep = d, !.amount = whole]
      BY <1>4, <2>1
    <3>2. cycle \in Cycle
      BY DEF MoneyType
    <3> QED
      <4>1. cycle' \in Cycle /\ cycle'.dep = d /\ cycle'.amount = whole
        BY <1>3, <3>1, <3>2, AmountType
      <4>2. cycle'.stage = "debit"
        BY <3>1, <3>2 DEF Cycle
      <4> QED
        BY <2>1, <4>1, <4>2
  <2>2. CASE whole = 0
    BY <1>4, <2>2, DropType DEF MoneyType, Stage
  <2> QED
    BY <1>3, <2>1, <2>2
<1>6. MoneyType'
  BY <1>1, <1>3, <1>4, <1>5 DEF MoneyType
<1>7. UsageConserved'
  <2> SUFFICES ASSUME NEW e \in Dep
               PROVE Accounted(e)' <= accrued'[e] /\ (e \notin lost => Accounted(e)' = accrued'[e])
    BY <1>4 DEF UsageConserved
  <2>1. InFlight(e) = 0
    BY <1>4 DEF InFlight
  <2>2. InFlight(e)' = IF e = d THEN whole ELSE 0
    BY <1>3, <1>5 DEF InFlight
  <2>3. Accounted(e) <= accrued[e] /\ (e \notin lost => Accounted(e) = accrued[e])
    BY DEF UsageConserved
  <2>4. Cent \in Nat /\ paid[e] \in Nat /\ rem[e] \in Nat /\ accrued[e] \in Nat
    BY MeteringAssumption DEF MoneyType
  <2>5. CASE e = d
    <3>1. Accounted(e)' = Cent * (paid[e] + whole) + left
      BY <1>4, <2>2, <2>5 DEF Accounted, MoneyType
    <3>2. Accounted(e) = Cent * paid[e] + rem[e]
      BY <2>1, <2>4 DEF Accounted
    <3>3. Cent * (paid[e] + whole) = Cent * paid[e] + Cent * whole
      BY <1>3, <2>4
    <3>4. Accounted(e)' = Accounted(e) + parts
      <4> DEFINE a == Cent * paid[e]
                 w == Cent * whole
      <4>1. a \in Int /\ w \in Int /\ left \in Int /\ parts \in Int /\ rem[e] \in Int
        BY <1>1, <1>3, <2>4
      <4>2. w + left = rem[e] + parts
        BY <1>3, <2>5
      <4>3. Accounted(e)' = (a + w) + left /\ Accounted(e) = a + rem[e]
        BY <3>1, <3>2, <3>3
      <4> HIDE DEF a, w
      <4> QED
        BY <4>1, <4>2, <4>3
    <3>5. accrued'[e] = accrued[e] + parts
      BY <1>4, <2>5 DEF MoneyType
    <3> QED
      BY <1>1, <2>3, <2>4, <3>2, <3>4, <3>5
  <2>6. CASE e # d
    BY <1>4, <2>1, <2>2, <2>3, <2>6 DEF Accounted, MoneyType
  <2> QED
    BY <2>5, <2>6
<1> QED
  BY <1>4, <1>6, <1>7

\* The debit turns cents in flight into paid ones; the shortfall stays in flight.
LEMMA DebitStep ==
  ASSUME MoneyType, UsageConserved, NEW d \in Dep, DebitToFloor(d)
  PROVE MoneyType' /\ UsageConserved' /\ (balance' < balance => balance' >= 0)
<1> DEFINE a == cycle.amount
           t == Take(a)
<1>1. cycle \in Cycle /\ a \in Nat /\ balance \in Int
  BY DEF MoneyType, Cycle
<1>2. t \in Nat /\ t <= a /\ (t > 0 => t <= balance)
  BY <1>1, TakeBounds
<1>3. /\ cycle.stage = "debit" /\ cycle.dep = d
      /\ balance' = balance - t
      /\ paid' = [paid EXCEPT ![d] = @ + t]
      /\ cycle' = IF t < a THEN [cycle EXCEPT !.stage = "return", !.amount = a - t]
                  ELSE DropTo("usage", d)
      /\ UNCHANGED <<rem, srem, accrued, lost, now, metered, row>>
  BY <1>1 DEF DebitToFloor, At, clock, Cycle
<1> HIDE DEF a, t
<1>4. /\ cycle' \in Cycle
      /\ t < a => cycle'.stage = "return" /\ cycle'.dep = d /\ cycle'.amount = a - t
      /\ t = a => cycle'.stage = "usage"
  <2>1. CASE t < a
    <3>1. cycle' = [cycle EXCEPT !.stage = "return", !.amount = a - t] /\ a - t \in Nat
      BY <1>1, <1>2, <1>3, <2>1
    <3> QED
      <4>1. cycle' \in Cycle /\ cycle'.dep = d /\ cycle'.amount = a - t
        BY <1>1, <1>3, <3>1, AmountType
      <4>2. cycle'.stage = "return"
        BY <1>1, <3>1 DEF Cycle
      <4> QED
        BY <1>2, <2>1, <4>1, <4>2
  <2>2. CASE t = a
    BY <1>1, <1>2, <1>3, <2>2, DropType DEF Stage
  <2> QED
    BY <1>1, <1>2, <2>1, <2>2
<1>5. MoneyType'
  BY <1>1, <1>2, <1>3, <1>4 DEF MoneyType
<1>6. UsageConserved'
  <2> SUFFICES ASSUME NEW e \in Dep
               PROVE Accounted(e)' = Accounted(e)
    BY <1>3 DEF UsageConserved
  <2>1. InFlight(e) = IF e = d THEN a ELSE 0
    BY <1>3 DEF InFlight, a
  <2>2. InFlight(e)' = IF e = d THEN a - t ELSE 0
    BY <1>1, <1>2, <1>3, <1>4 DEF InFlight
  <2>3. paid[e] \in Nat /\ paid'[e] = IF e = d THEN paid[e] + t ELSE paid[e]
    BY <1>3 DEF MoneyType
  <2>4. paid'[e] + InFlight(e)' = paid[e] + InFlight(e)
    BY <1>1, <1>2, <2>1, <2>2, <2>3
  <2> QED
    BY <1>3, <2>4 DEF Accounted
<1> QED
  BY <1>1, <1>2, <1>3, <1>5, <1>6

\* return_metering_mcents puts the shortfall back, part for part.
LEMMA ReturnStep ==
  ASSUME MoneyType, UsageConserved, NEW d \in Dep, ReturnMetering(d)
  PROVE MoneyType' /\ UsageConserved' /\ balance' = balance
<1> DEFINE a == cycle.amount
<1>1. cycle \in Cycle /\ a \in Nat /\ Cent \in Nat /\ a * Cent \in Nat
  BY MeteringAssumption DEF MoneyType, Cycle
<1>2. /\ cycle.stage = "return" /\ cycle.dep = d
      /\ rem' = [rem EXCEPT ![d] = @ + a * Cent]
      /\ cycle' = [cycle EXCEPT !.stage = "suspend", !.amount = 0]
      /\ UNCHANGED <<balance, srem, accrued, paid, lost, now, metered, row>>
  BY DEF ReturnMetering, At, clock
<1> HIDE DEF a
<1>3. cycle' \in Cycle /\ cycle'.stage = "suspend"
  BY <1>1, <1>2, AmountType DEF Cycle
<1>4. MoneyType'
  BY <1>1, <1>2, <1>3 DEF MoneyType
<1>5. UsageConserved'
  <2> SUFFICES ASSUME NEW e \in Dep
               PROVE Accounted(e)' = Accounted(e)
    BY <1>2 DEF UsageConserved
  <2>1. InFlight(e) = (IF e = d THEN a ELSE 0) /\ InFlight(e)' = 0
    BY <1>2, <1>3 DEF InFlight, a
  <2>2. paid[e] \in Nat /\ paid'[e] = paid[e] /\ rem[e] \in Nat
        /\ rem'[e] = IF e = d THEN rem[e] + a * Cent ELSE rem[e]
    BY <1>2 DEF MoneyType
  <2>3. Accounted(e)' = Cent * (paid[e] + 0) + rem'[e]
    BY <2>1, <2>2 DEF Accounted
  <2>4. CASE e = d
    <3>1. Accounted(e) = Cent * (paid[e] + a) + rem[e]
      BY <2>1, <2>4 DEF Accounted
    <3>2. Cent * (paid[e] + a) = Cent * paid[e] + a * Cent
      BY <1>1, <2>2
    <3>3. Cent * (paid[e] + 0) = Cent * paid[e] /\ Cent * paid[e] \in Nat
      BY <1>1, <2>2
    <3> DEFINE x == Cent * paid[e]
               y == a * Cent
    <3>4. Accounted(e)' = x + (rem[e] + y) /\ Accounted(e) = (x + y) + rem[e]
      BY <2>2, <2>3, <2>4, <3>1, <3>2, <3>3
    <3>5. x \in Nat /\ y \in Nat
      BY <1>1, <3>3
    <3> HIDE DEF x, y
    <3> QED
      BY <2>2, <3>4, <3>5
  <2>5. CASE e # d
    BY <2>1, <2>2, <2>3, <2>5 DEF Accounted
  <2> QED
    BY <2>4, <2>5
<1> QED
  BY <1>2, <1>4, <1>5

\* A cycle that dies forgets the cents in flight and remembers whose they were.
LEMMA LossStep ==
  ASSUME MoneyType, UsageConserved, MeterUsageRaises \/ Crash
  PROVE MoneyType' /\ UsageConserved' /\ balance' = balance
<1>1. cycle \in Cycle /\ lost \subseteq Dep
  BY DEF MoneyType
<1>2. /\ UNCHANGED <<balance, rem, srem, accrued, paid, row, now>>
      /\ lost' = lost \cup AtRisk
      /\ metered' = metered \/ metered' = now
  BY DEF MeterUsageRaises, Crash, clock
<1>3. cycle' \in Cycle /\ cycle'.stage \in {"usage", "idle"}
  <2>1. CASE MeterUsageRaises
    <3>1. cycle.at \in Nat /\ cycle.elapsed \in Nat
      BY <1>1 DEF Cycle
    <3>2. cycle' = [Resting EXCEPT !.stage = "usage", !.at = cycle.at, !.elapsed = cycle.elapsed]
      BY <2>1 DEF MeterUsageRaises
    <3> QED
      BY <3>1, <3>2 DEF Resting, Cycle, Stage
  <2>2. CASE Crash
    BY <2>2 DEF Crash, Resting, Cycle, Stage
  <2> QED
    BY <2>1, <2>2
<1>4. MoneyType'
  BY <1>1, <1>2, <1>3 DEF MoneyType, AtRisk
<1>5. UsageConserved'
  <2> SUFFICES ASSUME NEW e \in Dep
               PROVE /\ Accounted(e)' <= accrued[e]
                     /\ e \notin lost' => Accounted(e)' = accrued[e]
    BY <1>2 DEF UsageConserved
  <2>1. InFlight(e)' = 0
    BY <1>3 DEF InFlight
  <2>2. InFlight(e) \in Nat /\ (e \notin AtRisk => InFlight(e) = 0)
    BY <1>1 DEF InFlight, AtRisk, Cycle
  <2>3. Cent \in Nat /\ paid[e] \in Nat /\ rem[e] \in Nat /\ accrued[e] \in Nat
    BY MeteringAssumption DEF MoneyType
  <2>4. Accounted(e) <= accrued[e] /\ (e \notin lost => Accounted(e) = accrued[e])
    BY DEF UsageConserved
  <2> DEFINE x == Cent * paid[e]
             y == Cent * InFlight(e)
  <2>5. x \in Nat /\ y \in Nat /\ (e \notin AtRisk => y = 0)
    BY <2>2, <2>3
  <2>6. Cent * (paid[e] + InFlight(e)) = x + y
    BY <2>2, <2>3
  <2>7. Accounted(e) = x + y + rem[e]
    BY <2>6 DEF Accounted
  <2>8. Accounted(e)' = x + rem[e]
    <3>1. Accounted(e)' = Cent * (paid[e] + 0) + rem[e]
      BY <1>2, <2>1 DEF Accounted
    <3>2. paid[e] + 0 = paid[e]
      BY <2>3
    <3> QED
      BY <3>1, <3>2
  <2> HIDE DEF x, y
  <2> QED
    BY <1>2, <2>3, <2>4, <2>5, <2>7, <2>8
<1> QED
  BY <1>2, <1>4, <1>5

\* Where no cents are in flight on either side and no accumulator moves, the
\* account of every deployment stays as it was.
LEMMA SteadyStep ==
  ASSUME UsageConserved, UNCHANGED <<rem, accrued, paid, lost>>,
         \A e \in Dep : InFlight(e)' = InFlight(e)
  PROVE UsageConserved'
BY DEF UsageConserved, Accounted

\* Every step keeps the account and drives the balance down only in the meter,
\* which stops at zero, and in the storage hold.
LEMMA MoneyStep ==
  ASSUME MoneyType, UsageConserved, [Next]_vars
  PROVE /\ MoneyType' /\ UsageConserved'
        /\ balance' < balance /\ balance' < 0 => At("storage")
<1>1. balance \in Int
  BY DEF MoneyType
<1>2. CASE Aside
  <2>1. MoneyType'
    BY <1>2, AsideStep DEF MoneyType
  <2>2. UsageConserved'
    BY <1>2, AsideStep, SteadyStep DEF InFlight
  <2> QED
    BY <1>1, <1>2, <2>1, <2>2, AsideStep
<1>3. CASE Between
  <2>1. NoCentsMove
    BY <1>3, BetweenStep
  <2>2. MoneyType'
    BY <2>1 DEF MoneyType, NoCentsMove
  <2>3. \A e \in Dep : InFlight(e)' = InFlight(e)
    BY <2>1 DEF NoCentsMove, InFlight
  <2>4. UsageConserved'
    BY <2>1, <2>3, SteadyStep DEF NoCentsMove
  <2> QED
    BY <2>1, <2>2, <2>4 DEF NoCentsMove
<1>4. ASSUME NEW d \in Dep, AccrueMetering(d)
      PROVE MoneyType' /\ UsageConserved' /\ balance' = balance
  BY <1>4, AccrueStep
<1>5. ASSUME NEW d \in Dep, DebitToFloor(d)
      PROVE MoneyType' /\ UsageConserved' /\ (balance' < balance => balance' >= 0)
  BY <1>5, DebitStep
<1>6. ASSUME NEW d \in Dep, ReturnMetering(d)
      PROVE MoneyType' /\ UsageConserved' /\ balance' = balance
  BY <1>6, ReturnStep
<1>7. CASE MeterUsageRaises \/ Crash
  BY <1>1, <1>7, LossStep
<1>8. CASE UNCHANGED vars
  <2>1. MoneyType'
    BY <1>8 DEF vars, MoneyType
  <2>2. UsageConserved'
    BY <1>8, SteadyStep DEF vars, InFlight
  <2> QED
    BY <1>1, <1>8, <2>1, <2>2 DEF vars
<1>9. CASE Next
  <2>1. \/ Aside \/ Between \/ MeterUsageRaises \/ Crash
        \/ \E d \in Dep : AccrueMetering(d) \/ DebitToFloor(d) \/ ReturnMetering(d)
    BY <1>9 DEF Next, Work, Usage, Aside, Between
  <2>2. CASE \E d \in Dep : AccrueMetering(d) \/ DebitToFloor(d) \/ ReturnMetering(d)
    <3>1. PICK d \in Dep : AccrueMetering(d) \/ DebitToFloor(d) \/ ReturnMetering(d)
      BY <2>2
    <3>2. balance' \in Int
      BY <1>4, <1>5, <1>6, <3>1 DEF MoneyType
    <3> QED
      BY <1>1, <1>4, <1>5, <1>6, <3>1, <3>2
  <2> QED
    BY <1>2, <1>3, <1>7, <2>1, <2>2
<1> QED
  BY <1>8, <1>9

\* Nothing is accounted for at the start.
LEMMA InitConserved == Init => UsageConserved
<1> SUFFICES ASSUME Init, NEW d \in Dep
             PROVE Accounted(d) = 0 /\ accrued[d] = 0
  BY DEF UsageConserved
<1>1. InFlight(d) = 0
  BY DEF Init, InFlight, Resting
<1>2. paid[d] = 0 /\ rem[d] = 0 /\ accrued[d] = 0
  BY DEF Init
<1> QED
  BY <1>1, <1>2, MeteringAssumption DEF Accounted

\* meter_usage: "no realized usage is silently dropped".  Every part of a cent
\* accrue_metering ever took is paid, in flight or on the accumulator, for any
\* deployments and rates, top-ups and suspensions in any order; a cycle that
\* dies loses what is in flight and charges nothing twice.
THEOREM UsageConservedHolds == Spec => []UsageConserved
<1>1. Init => MoneyType /\ UsageConserved
  BY InitMoneyType, InitConserved
<1>2. MoneyType /\ UsageConserved /\ [Next]_vars => (MoneyType /\ UsageConserved)'
  BY MoneyStep
<1> QED
  BY <1>1, <1>2, PTL DEF Spec

\* debit_user_to_floor never drives a balance below zero: whatever is debited
\* between, only the storage hold of saved pods runs into debt.
THEOREM OnlyStorageOverdrawsHolds == Spec => OnlyStorageOverdraws
<1>1. Init => MoneyType /\ UsageConserved
  BY InitMoneyType, InitConserved
<1>2. MoneyType /\ UsageConserved /\ [Next]_vars
        => /\ (MoneyType /\ UsageConserved)'
           /\ [balance' < balance /\ balance' < 0 => At("storage")]_vars
  BY MoneyStep
<1> QED
  BY <1>1, <1>2, PTL DEF Spec, OnlyStorageOverdraws

(***************************************************************************)
(* What the customer is charged for, and what happens to a deployment that *)
(* cannot be paid: the inductive invariants.                               *)
(***************************************************************************)

\* The variables the theorems above do not need.
OtherTypes ==
  /\ box \in [Dep -> Box] /\ stamping \subseteq Dep /\ used \in [Dep -> Nat]
  /\ credited \in 0 .. MaxCredit /\ faults \in 0 .. MaxFaults
  /\ sweep \in [todo : Seq(Dep), committed : Nat] /\ (sweep # NoSweep => sweep.todo # <<>>)

\* No time is in the future, and between two deployments the cycle has none at hand.
TimesArePast ==
  /\ now <= MaxTime /\ cycle.at <= now
  /\ \A d \in Dep : row[d].since \in Never .. now /\ row[d].paused \in Never .. now
  /\ cycle.stage = "usage" => cycle.dep = NoDep

\* Deployments of the running cycle's list that are not charged yet.
Listed == IF cycle.stage \in {"usage", "debit", "return", "suspend"} THEN cycle.todo \ {cycle.dep} ELSE {}

\* The ticks this cycle may still bill, and the ones the next may, if it comes now.
TicksListed(d) == IF d \in Listed THEN BilledTicks(d) ELSE 0
TicksComing(d) ==
  IF row[d].state = "READY" /\ d \notin stamping THEN now - AtLeast(metered, row[d].since) ELSE 0

\* What a tick may cost, doubled as rounding is by half a part.
TickCost(d) == 2 * HourlyCents[d] * Cent + TicksPerHour

\* The ticks used cover what was accrued and what may be billed for the time until now: the
\* property alone says nothing of the ticks a cycle has listed.
Unbilled(d) == used[d] - TicksListed(d) - TicksComing(d)
UsedCoversBilled == \A d \in Dep : 2 * TicksPerHour * accrued[d] <= TickCost(d) * Unbilled(d)

\* What was not paid lies on the accumulator before the deployment is suspended, and what a cycle lists
\* is not suspended beside it.
ShortfallReturned ==
  /\ cycle.stage = "return" => cycle.amount >= 1
  /\ cycle.stage = "suspend" => cycle.dep \in Dep /\ rem[cycle.dep] >= Cent
  /\ \A d \in Listed : row[d].state \in {"READY", "TERMINATED"}

\* Between the reaper's list and the end of its work the list has all that is late.
LateIsListed ==
  faults = 0 /\ cycle.stage \in {"reap", "idle"} =>
    \A d \in InState("SUSPENDED") \cap Rental :
      metered - row[d].paused < Deadline(d) \/ (cycle.stage = "reap" /\ d \in cycle.todo)

SoundInv == MoneyType /\ UsageConserved /\ OtherTypes /\ TimesArePast

\* The fields of a rewritten row.
LEMMA RowFields ==
  ASSUME NEW r \in Row, NEW why
  PROVE  /\ Suspended(r, why).state = "SUSPENDED" /\ Suspended(r, why).reason = why /\ Suspended(r, why).since = r.since
         /\ Suspended(r, why).paused = IF r.paused = Never THEN now ELSE r.paused
         /\ Ended(r).state = "TERMINATED" /\ Ended(r).since = r.since /\ Ended(r).paused = r.paused
BY DEF Suspended, Ended, Row

\* The fields of the cycle when a deployment is done with.
LEMMA CycleFields ==
  ASSUME cycle \in Cycle, NEW d, NEW s
  PROVE  /\ Drop(d).stage = cycle.stage /\ Drop(d).todo = cycle.todo \ {d} /\ Drop(d).dep = NoDep
         /\ Drop(d).at = cycle.at /\ Drop(d).elapsed = cycle.elapsed
         /\ DropTo(s, d).stage = s /\ DropTo(s, d).todo = cycle.todo \ {d} /\ DropTo(s, d).dep = NoDep
         /\ DropTo(s, d).at = cycle.at /\ DropTo(s, d).elapsed = cycle.elapsed
         /\ Resting.stage = "idle" /\ Resting.at = 0 /\ Resting.todo = {} /\ Resting.dep = NoDep
BY DEF Drop, DropTo, Cycle, Resting

\* A list of n members is a sequence.
LEMMA ListIsSeq ==
  ASSUME NEW S, NEW n \in Nat, NEW f \in [1 .. n -> S]
  PROVE  f \in Seq(S) /\ Len(f) = n
OBVIOUS

\* Sums of charges are numbers.
LEMMA ChargesType ==
  ASSUME NEW S \in SUBSET Dep
  PROVE  Charges(S) \in Nat
<1>1. IsFiniteSet(S)
  BY FS_Subset, MeteringAssumption
<1>2. \A d \in S : [e \in Dep |-> Charge(e)][d] \in Nat
  BY MeteringAssumption DEF Charge
<1> QED
  BY <1>1, <1>2, TotalType DEF Charges

\* Every step keeps the other types.
LEMMA OtherTypesKept ==
  ASSUME SoundInv, Next
  PROVE  OtherTypes'
<1>1. ASSUME NEW d \in Dep, ReportReady(d) PROVE OtherTypes'
  BY <1>1, MeteringAssumption DEF ReportReady, OtherTypes, SoundInv, ledger, clock
<1>2. ASSUME NEW d \in Dep, SetBillableSince(d) PROVE OtherTypes'
  BY <1>2, MeteringAssumption DEF SetBillableSince, OtherTypes, SoundInv, ledger, clock
<1>3. ASSUME NEW d \in Dep, Requeue(d) PROVE OtherTypes'
  BY <1>3, MeteringAssumption DEF Requeue, OtherTypes, SoundInv, ledger, clock
<1>4. ASSUME NEW d \in Dep, IdleSuspend(d) PROVE OtherTypes'
  BY <1>4, MeteringAssumption DEF IdleSuspend, OtherTypes, SoundInv, ledger, clock
<1>5. ASSUME NEW d \in Dep, CreateDeployment(d) PROVE OtherTypes'
  BY <1>5, MeteringAssumption DEF CreateDeployment, OtherTypes, SoundInv, ledger, clock
<1>6. ASSUME NEW d \in Dep, ResumeDeployment(d) PROVE OtherTypes'
  BY <1>6, MeteringAssumption DEF ResumeDeployment, OtherTypes, SoundInv, ledger, clock
<1>7. ASSUME NEW d \in Dep, Terminate(d) PROVE OtherTypes'
  BY <1>7, MeteringAssumption DEF Terminate, OtherTypes, SoundInv, ledger, clock
<1>8. ASSUME NEW d \in Dep, MeterSkip(d) PROVE OtherTypes'
  BY <1>8, MeteringAssumption DEF MeterSkip, OtherTypes, SoundInv, ledger, clock
<1>9. ASSUME NEW d \in Dep, StampUnbilled(d) PROVE OtherTypes'
  BY <1>9, MeteringAssumption DEF StampUnbilled, OtherTypes, SoundInv, ledger, clock
<1>10. ASSUME NEW d \in Dep, AccrueMetering(d) PROVE OtherTypes'
  BY <1>10, MeteringAssumption DEF AccrueMetering, OtherTypes, SoundInv, ledger, clock
<1>11. ASSUME NEW d \in Dep, DebitToFloor(d) PROVE OtherTypes'
  BY <1>11, MeteringAssumption DEF DebitToFloor, OtherTypes, SoundInv, ledger, clock
<1>12. ASSUME NEW d \in Dep, ReturnMetering(d) PROVE OtherTypes'
  BY <1>12, MeteringAssumption DEF ReturnMetering, OtherTypes, SoundInv, ledger, clock
<1>13. ASSUME NEW d \in Dep, MeterSuspend(d) PROVE OtherTypes'
  BY <1>13, MeteringAssumption DEF MeterSuspend, OtherTypes, SoundInv, ledger, clock
<1>14. ASSUME NEW d \in Dep, AccrueStorage(d) PROVE OtherTypes'
  BY <1>14, MeteringAssumption DEF AccrueStorage, OtherTypes, SoundInv, ledger, clock
<1>15. ASSUME NEW d \in Dep, DebitStorage(d) PROVE OtherTypes'
  BY <1>15, MeteringAssumption DEF DebitStorage, OtherTypes, SoundInv, ledger, clock
<1>16. ASSUME NEW d \in Dep, Reap(d) PROVE OtherTypes'
  BY <1>16, MeteringAssumption DEF Reap, OtherTypes, SoundInv, ledger, clock
<1>17. ASSUME NEW d \in Dep, NEW b \in Box, BoxChanges(d, b) PROVE OtherTypes'
  BY <1>17, MeteringAssumption DEF BoxChanges, OtherTypes, SoundInv, ledger, clock
<1>18. ASSUME NEW a \in TopUps, CreditUser(a) PROVE OtherTypes'
  BY <1>18, MeteringAssumption DEF CreditUser, OtherTypes, SoundInv, ledger, clock
<1>19. CASE MeterUsage
  BY <1>19, MeteringAssumption DEF MeterUsage, OtherTypes, SoundInv, ledger, clock
<1>20. CASE MeterPodStorage
  BY <1>20, MeteringAssumption DEF MeterPodStorage, OtherTypes, SoundInv, ledger, clock
<1>21. CASE ReapExhaustedPods
  BY <1>21, MeteringAssumption DEF ReapExhaustedPods, OtherTypes, SoundInv, ledger, clock
<1>22. CASE AutoResumeOnce
  <2>1. PICK todo \in SetToSeqs(Flagged \ Resuming) : sweep' = [todo |-> todo, committed |-> Committed]
    BY <1>22 DEF AutoResumeOnce
  <2>2. Committed \in Nat
    BY ChargesType DEF Committed, InState, Resuming
  <2>3. todo \in Seq(Dep) /\ todo # <<>>
    <3>1. IsFiniteSet(Flagged \ Resuming) /\ Flagged \ Resuming # {} /\ Flagged \ Resuming \subseteq Dep
      BY <1>22, FS_Subset, MeteringAssumption DEF AutoResumeOnce, Flagged, InState
    <3>2. Cardinality(Flagged \ Resuming) \in Nat /\ Cardinality(Flagged \ Resuming) # 0
      BY <3>1, FS_CardinalityType, FS_EmptySet
    <3>3. todo \in [1 .. Cardinality(Flagged \ Resuming) -> Flagged \ Resuming]
      BY <2>1 DEF SetToSeqs
    <3>4. todo \in Seq(Flagged \ Resuming) /\ Len(todo) # 0
      BY <3>2, <3>3, ListIsSeq
    <3> QED
      BY <3>1, <3>4, SeqMonotonic, EmptySeq
  <2> QED
    BY <1>22, <2>1, <2>2, <2>3 DEF AutoResumeOnce, OtherTypes, SoundInv, ledger, clock
<1>23. CASE AutoResumeNext
  <2> DEFINE d == Head(sweep.todo)
  <2>1. sweep.todo \in Seq(Dep) /\ sweep.todo # <<>> /\ sweep.committed \in Nat
    BY <1>23 DEF AutoResumeNext, OtherTypes, SoundInv
  <2>2. d \in Dep /\ Charge(d) \in Nat
    BY <2>1, MeteringAssumption DEF Charge
  <2>3. \A n \in Nat : Left(n) \in [todo : Seq(Dep), committed : Nat] /\ (Left(n) # NoSweep => Left(n).todo # <<>>)
    <3>1. CASE Len(sweep.todo) = 1
      BY <3>1 DEF Left, NoSweep
    <3>2. CASE Len(sweep.todo) # 1
      <4>1. Tail(sweep.todo) \in Seq(Dep) /\ Len(Tail(sweep.todo)) = Len(sweep.todo) - 1 /\ Len(sweep.todo) \in Nat
        BY <2>1, HeadTailProperties, LenProperties
      <4>2. Len(<<>>) = 0
        BY EmptySeq
      <4>3. Len(Tail(sweep.todo)) # 0
        BY <3>2, <4>1
      <4>4. Tail(sweep.todo) # <<>>
        BY <4>2, <4>3, Zenon
      <4> QED
        BY <3>2, <4>1, <4>4 DEF Left
    <3> QED
      BY <3>1, <3>2
  <2>4. \E n \in Nat : sweep' = Left(n)
    BY <1>23, <2>1, <2>2 DEF AutoResumeNext
  <2>5. UNCHANGED <<box, stamping, used, credited, faults>>
    BY <1>23 DEF AutoResumeNext, ledger, clock
  <2> QED
    BY <2>3, <2>4, <2>5 DEF OtherTypes, SoundInv
<1>24. CASE Tick
  <2>1. used' \in [Dep -> Nat]
    BY <1>24 DEF Tick, OtherTypes, SoundInv
  <2> QED
    BY <1>24, <2>1 DEF Tick, OtherTypes, SoundInv, ledger
<1>25. CASE MeterUsageRaises
  <2>1. faults' \in 0 .. MaxFaults
    <3>1. faults < MaxFaults /\ faults' = faults + 1
      BY <1>25 DEF MeterUsageRaises
    <3> QED
      BY <3>1, MeteringAssumption DEF OtherTypes, SoundInv
  <2>2. UNCHANGED <<box, stamping, used, credited, sweep>>
    BY <1>25 DEF MeterUsageRaises, clock
  <2> QED
    BY <2>1, <2>2 DEF OtherTypes, SoundInv
<1>26. CASE Crash
  BY <1>26, MeteringAssumption DEF Crash, OtherTypes, SoundInv, ledger, clock
<1> QED
  BY <1>1, <1>2, <1>3, <1>4, <1>5, <1>6, <1>7, <1>8, <1>9, <1>10, <1>11, <1>12, <1>13, <1>14, <1>15, <1>16, <1>17, <1>18, <1>19, <1>20, <1>21, <1>22, <1>23, <1>24, <1>25, <1>26
     DEF Next, Work, Sweep, Usage, Storage, Report, Customer

\* The record of a deployment, and how the rows of the others stay.
LEMMA RowOf ==
  ASSUME SoundInv, NEW d \in Dep
  PROVE  /\ row[d] \in Row /\ row \in [Dep -> Row]
         /\ row[d].since \in Int /\ row[d].since >= -1 /\ row[d].since <= now
         /\ row[d].paused \in Int /\ row[d].paused >= -1 /\ row[d].paused <= now
         /\ now \in Nat /\ metered \in Nat /\ metered <= now /\ cycle.at \in Nat /\ cycle.at <= now /\ cycle.elapsed \in Nat
         /\ cycle \in Cycle
BY DEF SoundInv, MoneyType, TimesArePast, Never, Cycle, Row

\* The times of the rows.
RowsPast == \A d \in Dep : row[d].since \in Never .. now /\ row[d].paused \in Never .. now

\* Every step keeps the times of the rows in the past.
LEMMA RowsPastKept ==
  ASSUME SoundInv, Next
  PROVE  RowsPast'
<1>1. ASSUME NEW d \in Dep, ReportReady(d) PROVE RowsPast'
  <2>1. row[d] \in Row /\ row \in [Dep -> Row] /\ now' = now
    BY <1>1, RowOf DEF ReportReady, clock
  <2>2. row' = [row EXCEPT ![d] = [row[d] EXCEPT !.state = "READY", !.reason = "none", !.lease = "live", !.paused = Never]]
    BY <1>1, <2>1 DEF ReportReady, Row
  <2>3. ([row[d] EXCEPT !.state = "READY", !.reason = "none", !.lease = "live", !.paused = Never]).since \in {row[d].since, now, cycle.at} /\ ([row[d] EXCEPT !.state = "READY", !.reason = "none", !.lease = "live", !.paused = Never]).paused \in {row[d].paused, now, Never}
    BY <2>1, RowFields DEF Row
  <2>4. \A e \in Dep : row'[e].since \in Never .. now /\ row'[e].paused \in Never .. now
    BY <2>1, <2>2, <2>3, RowOf DEF Never
  <2> QED
    BY <2>1, <2>4 DEF RowsPast
<1>2. ASSUME NEW d \in Dep, SetBillableSince(d) PROVE RowsPast'
  <2>1. row[d] \in Row /\ row \in [Dep -> Row] /\ now' = now
    BY <1>2, RowOf DEF SetBillableSince, clock
  <2>2. row' = [row EXCEPT ![d] = [row[d] EXCEPT !.since = now]]
    BY <1>2, <2>1 DEF SetBillableSince, Row
  <2>3. ([row[d] EXCEPT !.since = now]).since \in {row[d].since, now, cycle.at} /\ ([row[d] EXCEPT !.since = now]).paused \in {row[d].paused, now, Never}
    BY <2>1, RowFields DEF Row
  <2>4. \A e \in Dep : row'[e].since \in Never .. now /\ row'[e].paused \in Never .. now
    BY <2>1, <2>2, <2>3, RowOf DEF Never
  <2> QED
    BY <2>1, <2>4 DEF RowsPast
<1>3. ASSUME NEW d \in Dep, Requeue(d) PROVE RowsPast'
  <2>1. row[d] \in Row /\ row \in [Dep -> Row] /\ now' = now
    BY <1>3, RowOf DEF Requeue, clock
  <2>2. row' = [row EXCEPT ![d] = [row[d] EXCEPT !.state = "STARTING"]]
    BY <1>3, <2>1 DEF Requeue, Row
  <2>3. ([row[d] EXCEPT !.state = "STARTING"]).since \in {row[d].since, now, cycle.at} /\ ([row[d] EXCEPT !.state = "STARTING"]).paused \in {row[d].paused, now, Never}
    BY <2>1, RowFields DEF Row
  <2>4. \A e \in Dep : row'[e].since \in Never .. now /\ row'[e].paused \in Never .. now
    BY <2>1, <2>2, <2>3, RowOf DEF Never
  <2> QED
    BY <2>1, <2>4 DEF RowsPast
<1>4. ASSUME NEW d \in Dep, IdleSuspend(d) PROVE RowsPast'
  <2>1. row[d] \in Row /\ row \in [Dep -> Row] /\ now' = now
    BY <1>4, RowOf DEF IdleSuspend, clock
  <2>2. row' = [row EXCEPT ![d] = Suspended(row[d], "idle")]
    BY <1>4, <2>1 DEF IdleSuspend, Row
  <2>3. (Suspended(row[d], "idle")).since \in {row[d].since, now, cycle.at} /\ (Suspended(row[d], "idle")).paused \in {row[d].paused, now, Never}
    BY <2>1, RowFields DEF Row
  <2>4. \A e \in Dep : row'[e].since \in Never .. now /\ row'[e].paused \in Never .. now
    BY <2>1, <2>2, <2>3, RowOf DEF Never
  <2> QED
    BY <2>1, <2>4 DEF RowsPast
<1>5. ASSUME NEW d \in Dep, CreateDeployment(d) PROVE RowsPast'
  <2>1. row[d] \in Row /\ row \in [Dep -> Row] /\ now' = now
    BY <1>5, RowOf DEF CreateDeployment, clock
  <2>2. row' = [row EXCEPT ![d] = [row[d] EXCEPT !.state = "STARTING", !.lease = "live"]]
    BY <1>5, <2>1 DEF CreateDeployment, Row
  <2>3. ([row[d] EXCEPT !.state = "STARTING", !.lease = "live"]).since \in {row[d].since, now, cycle.at} /\ ([row[d] EXCEPT !.state = "STARTING", !.lease = "live"]).paused \in {row[d].paused, now, Never}
    BY <2>1, RowFields DEF Row
  <2>4. \A e \in Dep : row'[e].since \in Never .. now /\ row'[e].paused \in Never .. now
    BY <2>1, <2>2, <2>3, RowOf DEF Never
  <2> QED
    BY <2>1, <2>4 DEF RowsPast
<1>6. ASSUME NEW d \in Dep, ResumeDeployment(d) PROVE RowsPast'
  <2>1. row[d] \in Row /\ row \in [Dep -> Row] /\ now' = now
    BY <1>6, RowOf DEF ResumeDeployment, clock
  <2>2. row' = [row EXCEPT ![d] = [row[d] EXCEPT !.lease = "live"]]
    BY <1>6, <2>1 DEF ResumeDeployment, Row
  <2>3. ([row[d] EXCEPT !.lease = "live"]).since \in {row[d].since, now, cycle.at} /\ ([row[d] EXCEPT !.lease = "live"]).paused \in {row[d].paused, now, Never}
    BY <2>1, RowFields DEF Row
  <2>4. \A e \in Dep : row'[e].since \in Never .. now /\ row'[e].paused \in Never .. now
    BY <2>1, <2>2, <2>3, RowOf DEF Never
  <2> QED
    BY <2>1, <2>4 DEF RowsPast
<1>7. ASSUME NEW d \in Dep, Terminate(d) PROVE RowsPast'
  <2>1. row[d] \in Row /\ row \in [Dep -> Row] /\ now' = now
    BY <1>7, RowOf DEF Terminate, clock
  <2>2. row' = [row EXCEPT ![d] = Ended(row[d])]
    BY <1>7, <2>1 DEF Terminate, Row
  <2>3. (Ended(row[d])).since \in {row[d].since, now, cycle.at} /\ (Ended(row[d])).paused \in {row[d].paused, now, Never}
    BY <2>1, RowFields DEF Row
  <2>4. \A e \in Dep : row'[e].since \in Never .. now /\ row'[e].paused \in Never .. now
    BY <2>1, <2>2, <2>3, RowOf DEF Never
  <2> QED
    BY <2>1, <2>4 DEF RowsPast
<1>8. ASSUME NEW d \in Dep, MeterSkip(d) PROVE RowsPast'
  <2>1. UNCHANGED <<row, now>>
    BY <1>8 DEF MeterSkip, clock
  <2> QED
    BY <2>1 DEF RowsPast, SoundInv, TimesArePast
<1>9. ASSUME NEW d \in Dep, StampUnbilled(d) PROVE RowsPast'
  <2>1. row[d] \in Row /\ row \in [Dep -> Row] /\ now' = now
    BY <1>9, RowOf DEF StampUnbilled, clock
  <2>2. row' = [row EXCEPT ![d] = [row[d] EXCEPT !.since = cycle.at]]
    BY <1>9, <2>1 DEF StampUnbilled, Row
  <2>3. ([row[d] EXCEPT !.since = cycle.at]).since \in {row[d].since, now, cycle.at} /\ ([row[d] EXCEPT !.since = cycle.at]).paused \in {row[d].paused, now, Never}
    BY <2>1, RowFields DEF Row
  <2>4. \A e \in Dep : row'[e].since \in Never .. now /\ row'[e].paused \in Never .. now
    BY <2>1, <2>2, <2>3, RowOf DEF Never
  <2> QED
    BY <2>1, <2>4 DEF RowsPast
<1>10. ASSUME NEW d \in Dep, AccrueMetering(d) PROVE RowsPast'
  <2>1. UNCHANGED <<row, now>>
    BY <1>10 DEF AccrueMetering, clock
  <2> QED
    BY <2>1 DEF RowsPast, SoundInv, TimesArePast
<1>11. ASSUME NEW d \in Dep, DebitToFloor(d) PROVE RowsPast'
  <2>1. UNCHANGED <<row, now>>
    BY <1>11 DEF DebitToFloor, clock
  <2> QED
    BY <2>1 DEF RowsPast, SoundInv, TimesArePast
<1>12. ASSUME NEW d \in Dep, ReturnMetering(d) PROVE RowsPast'
  <2>1. UNCHANGED <<row, now>>
    BY <1>12 DEF ReturnMetering, clock
  <2> QED
    BY <2>1 DEF RowsPast, SoundInv, TimesArePast
<1>13. ASSUME NEW d \in Dep, MeterSuspend(d) PROVE RowsPast'
  <2>1. row[d] \in Row /\ row \in [Dep -> Row] /\ now' = now
    BY <1>13, RowOf DEF MeterSuspend, clock
  <2>2. row' = row \/ row' = [row EXCEPT ![d] = Suspended(row[d], "balance")]
    BY <1>13, <2>1 DEF MeterSuspend, Row
  <2>3. (Suspended(row[d], "balance")).since \in {row[d].since, now, cycle.at} /\ (Suspended(row[d], "balance")).paused \in {row[d].paused, now, Never}
    BY <2>1, RowFields DEF Row
  <2>4. \A e \in Dep : row'[e].since \in Never .. now /\ row'[e].paused \in Never .. now
    BY <2>1, <2>2, <2>3, RowOf DEF Never
  <2> QED
    BY <2>1, <2>4 DEF RowsPast
<1>14. ASSUME NEW d \in Dep, AccrueStorage(d) PROVE RowsPast'
  <2>1. UNCHANGED <<row, now>>
    BY <1>14 DEF AccrueStorage, clock
  <2> QED
    BY <2>1 DEF RowsPast, SoundInv, TimesArePast
<1>15. ASSUME NEW d \in Dep, DebitStorage(d) PROVE RowsPast'
  <2>1. UNCHANGED <<row, now>>
    BY <1>15 DEF DebitStorage, clock
  <2> QED
    BY <2>1 DEF RowsPast, SoundInv, TimesArePast
<1>16. ASSUME NEW d \in Dep, Reap(d) PROVE RowsPast'
  <2>1. row[d] \in Row /\ row \in [Dep -> Row] /\ now' = now
    BY <1>16, RowOf DEF Reap, clock
  <2>2. row' = row \/ row' = [row EXCEPT ![d] = Ended(row[d])]
    BY <1>16, <2>1 DEF Reap, Row
  <2>3. (Ended(row[d])).since \in {row[d].since, now, cycle.at} /\ (Ended(row[d])).paused \in {row[d].paused, now, Never}
    BY <2>1, RowFields DEF Row
  <2>4. \A e \in Dep : row'[e].since \in Never .. now /\ row'[e].paused \in Never .. now
    BY <2>1, <2>2, <2>3, RowOf DEF Never
  <2> QED
    BY <2>1, <2>4 DEF RowsPast
<1>17. ASSUME NEW d \in Dep, NEW b \in Box, BoxChanges(d, b) PROVE RowsPast'
  <2>1. UNCHANGED <<row, now>>
    BY <1>17 DEF BoxChanges, clock
  <2> QED
    BY <2>1 DEF RowsPast, SoundInv, TimesArePast
<1>18. ASSUME NEW a \in TopUps, CreditUser(a) PROVE RowsPast'
  <2>1. UNCHANGED <<row, now>>
    BY <1>18 DEF CreditUser, clock
  <2> QED
    BY <2>1 DEF RowsPast, SoundInv, TimesArePast
<1>19. CASE MeterUsage
  <2>1. UNCHANGED <<row, now>>
    BY <1>19 DEF MeterUsage, clock
  <2> QED
    BY <2>1 DEF RowsPast, SoundInv, TimesArePast
<1>20. CASE MeterPodStorage
  <2>1. UNCHANGED <<row, now>>
    BY <1>20 DEF MeterPodStorage, clock
  <2> QED
    BY <2>1 DEF RowsPast, SoundInv, TimesArePast
<1>21. CASE ReapExhaustedPods
  <2>1. UNCHANGED <<row, now>>
    BY <1>21 DEF ReapExhaustedPods, clock
  <2> QED
    BY <2>1 DEF RowsPast, SoundInv, TimesArePast
<1>22. CASE AutoResumeOnce
  <2>1. UNCHANGED <<row, now>>
    BY <1>22 DEF AutoResumeOnce, clock
  <2> QED
    BY <2>1 DEF RowsPast, SoundInv, TimesArePast
<1>23. CASE AutoResumeNext
  <2>1. Head(sweep.todo) \in Dep
    BY <1>23, HeadTailProperties DEF AutoResumeNext, OtherTypes, SoundInv
  <2>2. PICK d \in Dep : row' = row \/ row' = [row EXCEPT ![d].lease = "live"]
    BY <1>23, <2>1 DEF AutoResumeNext
  <2>3. row[d] \in Row /\ row \in [Dep -> Row] /\ now' = now
    BY <1>23, RowOf DEF AutoResumeNext, clock
  <2> DEFINE r == [row[d] EXCEPT !.lease = "live"]
  <2>4. row' = row \/ row' = [row EXCEPT ![d] = r]
    BY <2>2 DEF Row
  <2>5. r.since = row[d].since /\ r.paused = row[d].paused
    BY <2>3 DEF Row
  <2> HIDE DEF r
  <2>6. \A e \in Dep : row'[e].since \in Never .. now /\ row'[e].paused \in Never .. now
    BY <2>3, <2>4, <2>5, RowOf DEF Never
  <2> QED
    BY <2>3, <2>6 DEF RowsPast
<1>24. CASE Tick
  <2>1. row' = row /\ now' = now + 1
    BY <1>24 DEF Tick
  <2>2. \A e \in Dep : row[e].since \in Never .. now + 1 /\ row[e].paused \in Never .. now + 1
    BY RowOf DEF Never
  <2> QED
    BY <2>1, <2>2 DEF RowsPast
<1>25. CASE MeterUsageRaises
  <2>1. UNCHANGED <<row, now>>
    BY <1>25 DEF MeterUsageRaises, clock
  <2> QED
    BY <2>1 DEF RowsPast, SoundInv, TimesArePast
<1>26. CASE Crash
  <2>1. UNCHANGED <<row, now>>
    BY <1>26 DEF Crash, clock
  <2> QED
    BY <2>1 DEF RowsPast, SoundInv, TimesArePast
<1> QED
  BY <1>1, <1>2, <1>3, <1>4, <1>5, <1>6, <1>7, <1>8, <1>9, <1>10, <1>11, <1>12, <1>13, <1>14, <1>15, <1>16, <1>17, <1>18, <1>19, <1>20, <1>21, <1>22, <1>23, <1>24, <1>25, <1>26
     DEF Next, Work, Sweep, Usage, Storage, Report, Customer

\* The cycle is at a time that has come, and its deployment is named once it has usage.
LEMMA CycleOf ==
  ASSUME SoundInv
  PROVE  /\ cycle \in Cycle /\ cycle.at \in Nat /\ cycle.at <= now /\ now \in Nat /\ now <= MaxTime /\ MaxTime \in Nat
         /\ metered \in Nat /\ metered <= now
         /\ cycle.stage = "usage" => cycle.dep = NoDep
BY MeteringAssumption DEF SoundInv, MoneyType, TimesArePast, Cycle

\* Every step keeps the times of the cycle in the past.
LEMMA CyclePastKept ==
  ASSUME SoundInv, Next
  PROVE  now' <= MaxTime /\ cycle'.at <= now' /\ (cycle'.stage = "usage" => cycle'.dep = NoDep)
<1>1. ASSUME NEW d \in Dep, ReportReady(d) PROVE now' <= MaxTime /\ cycle'.at <= now' /\ (cycle'.stage = "usage" => cycle'.dep = NoDep)
  <2>1. UNCHANGED <<now, cycle>>
    BY <1>1 DEF ReportReady, clock
  <2> QED
    BY <2>1, CycleOf
<1>2. ASSUME NEW d \in Dep, SetBillableSince(d) PROVE now' <= MaxTime /\ cycle'.at <= now' /\ (cycle'.stage = "usage" => cycle'.dep = NoDep)
  <2>1. UNCHANGED <<now, cycle>>
    BY <1>2 DEF SetBillableSince, clock
  <2> QED
    BY <2>1, CycleOf
<1>3. ASSUME NEW d \in Dep, Requeue(d) PROVE now' <= MaxTime /\ cycle'.at <= now' /\ (cycle'.stage = "usage" => cycle'.dep = NoDep)
  <2>1. UNCHANGED <<now, cycle>>
    BY <1>3 DEF Requeue, clock
  <2> QED
    BY <2>1, CycleOf
<1>4. ASSUME NEW d \in Dep, IdleSuspend(d) PROVE now' <= MaxTime /\ cycle'.at <= now' /\ (cycle'.stage = "usage" => cycle'.dep = NoDep)
  <2>1. UNCHANGED <<now, cycle>>
    BY <1>4 DEF IdleSuspend, clock
  <2> QED
    BY <2>1, CycleOf
<1>5. ASSUME NEW d \in Dep, CreateDeployment(d) PROVE now' <= MaxTime /\ cycle'.at <= now' /\ (cycle'.stage = "usage" => cycle'.dep = NoDep)
  <2>1. UNCHANGED <<now, cycle>>
    BY <1>5 DEF CreateDeployment, clock
  <2> QED
    BY <2>1, CycleOf
<1>6. ASSUME NEW d \in Dep, ResumeDeployment(d) PROVE now' <= MaxTime /\ cycle'.at <= now' /\ (cycle'.stage = "usage" => cycle'.dep = NoDep)
  <2>1. UNCHANGED <<now, cycle>>
    BY <1>6 DEF ResumeDeployment, clock
  <2> QED
    BY <2>1, CycleOf
<1>7. ASSUME NEW d \in Dep, Terminate(d) PROVE now' <= MaxTime /\ cycle'.at <= now' /\ (cycle'.stage = "usage" => cycle'.dep = NoDep)
  <2>1. UNCHANGED <<now, cycle>>
    BY <1>7 DEF Terminate, clock
  <2> QED
    BY <2>1, CycleOf
<1>8. ASSUME NEW d \in Dep, MeterSkip(d) PROVE now' <= MaxTime /\ cycle'.at <= now' /\ (cycle'.stage = "usage" => cycle'.dep = NoDep)
  BY <1>8, CycleOf, CycleFields DEF MeterSkip, clock, At, Cycle, Resting
<1>9. ASSUME NEW d \in Dep, StampUnbilled(d) PROVE now' <= MaxTime /\ cycle'.at <= now' /\ (cycle'.stage = "usage" => cycle'.dep = NoDep)
  BY <1>9, CycleOf, CycleFields DEF StampUnbilled, clock, At, Cycle, Resting
<1>10. ASSUME NEW d \in Dep, AccrueMetering(d) PROVE now' <= MaxTime /\ cycle'.at <= now' /\ (cycle'.stage = "usage" => cycle'.dep = NoDep)
  BY <1>10, CycleOf, CycleFields DEF AccrueMetering, clock, At, Cycle, Resting
<1>11. ASSUME NEW d \in Dep, DebitToFloor(d) PROVE now' <= MaxTime /\ cycle'.at <= now' /\ (cycle'.stage = "usage" => cycle'.dep = NoDep)
  BY <1>11, CycleOf, CycleFields DEF DebitToFloor, clock, At, Cycle, Resting
<1>12. ASSUME NEW d \in Dep, ReturnMetering(d) PROVE now' <= MaxTime /\ cycle'.at <= now' /\ (cycle'.stage = "usage" => cycle'.dep = NoDep)
  BY <1>12, CycleOf, CycleFields DEF ReturnMetering, clock, At, Cycle, Resting
<1>13. ASSUME NEW d \in Dep, MeterSuspend(d) PROVE now' <= MaxTime /\ cycle'.at <= now' /\ (cycle'.stage = "usage" => cycle'.dep = NoDep)
  BY <1>13, CycleOf, CycleFields DEF MeterSuspend, clock, At, Cycle, Resting
<1>14. ASSUME NEW d \in Dep, AccrueStorage(d) PROVE now' <= MaxTime /\ cycle'.at <= now' /\ (cycle'.stage = "usage" => cycle'.dep = NoDep)
  BY <1>14, CycleOf, CycleFields DEF AccrueStorage, clock, At, Cycle, Resting
<1>15. ASSUME NEW d \in Dep, DebitStorage(d) PROVE now' <= MaxTime /\ cycle'.at <= now' /\ (cycle'.stage = "usage" => cycle'.dep = NoDep)
  BY <1>15, CycleOf, CycleFields DEF DebitStorage, clock, At, Cycle, Resting
<1>16. ASSUME NEW d \in Dep, Reap(d) PROVE now' <= MaxTime /\ cycle'.at <= now' /\ (cycle'.stage = "usage" => cycle'.dep = NoDep)
  <2>1. now' = now /\ cycle.stage = "reap" /\ (cycle' = Resting \/ cycle' = Drop(d))
    BY <1>16 DEF Reap, clock, At
  <2>2. Resting.stage = "idle" /\ Resting.at = 0 /\ Drop(d).stage = cycle.stage /\ Drop(d).at = cycle.at
    BY CycleOf, CycleFields
  <2> QED
    BY <2>1, <2>2, CycleOf
<1>17. ASSUME NEW d \in Dep, NEW b \in Box, BoxChanges(d, b) PROVE now' <= MaxTime /\ cycle'.at <= now' /\ (cycle'.stage = "usage" => cycle'.dep = NoDep)
  <2>1. UNCHANGED <<now, cycle>>
    BY <1>17 DEF BoxChanges, clock
  <2> QED
    BY <2>1, CycleOf
<1>18. ASSUME NEW a \in TopUps, CreditUser(a) PROVE now' <= MaxTime /\ cycle'.at <= now' /\ (cycle'.stage = "usage" => cycle'.dep = NoDep)
  <2>1. UNCHANGED <<now, cycle>>
    BY <1>18 DEF CreditUser, clock
  <2> QED
    BY <2>1, CycleOf
<1>19. CASE MeterUsage
  BY <1>19, CycleOf, CycleFields DEF MeterUsage, clock, At, Cycle, Resting
<1>20. CASE MeterPodStorage
  BY <1>20, CycleOf, CycleFields DEF MeterPodStorage, clock, At, Cycle, Resting
<1>21. CASE ReapExhaustedPods
  BY <1>21, CycleOf, CycleFields DEF ReapExhaustedPods, clock, At, Cycle, Resting
<1>22. CASE AutoResumeOnce
  <2>1. UNCHANGED <<now, cycle>>
    BY <1>22 DEF AutoResumeOnce, clock
  <2> QED
    BY <2>1, CycleOf
<1>23. CASE AutoResumeNext
  <2>1. UNCHANGED <<now, cycle>>
    BY <1>23 DEF AutoResumeNext, clock
  <2> QED
    BY <2>1, CycleOf
<1>24. CASE Tick
  BY <1>24, CycleOf, CycleFields DEF Tick, clock, At, Cycle, Resting
<1>25. CASE MeterUsageRaises
  BY <1>25, CycleOf, CycleFields DEF MeterUsageRaises, clock, At, Cycle, Resting
<1>26. CASE Crash
  BY <1>26, CycleOf, CycleFields DEF Crash, clock, At, Cycle, Resting
<1> QED
  BY <1>1, <1>2, <1>3, <1>4, <1>5, <1>6, <1>7, <1>8, <1>9, <1>10, <1>11, <1>12, <1>13, <1>14, <1>15, <1>16, <1>17, <1>18, <1>19, <1>20, <1>21, <1>22, <1>23, <1>24, <1>25, <1>26
     DEF Next, Work, Sweep, Usage, Storage, Report, Customer

\* Every step keeps SoundInv.
LEMMA SoundInvKept ==
  SoundInv /\ [Next]_vars => SoundInv'
<1>1. ASSUME SoundInv, Next PROVE SoundInv'
  <2>1. MoneyType' /\ UsageConserved'
    BY <1>1, MoneyStep DEF SoundInv
  <2>2. TimesArePast'
    BY <1>1, RowsPastKept, CyclePastKept DEF TimesArePast, RowsPast
  <2> QED
    BY <1>1, <2>1, <2>2, OtherTypesKept DEF SoundInv
<1>2. ASSUME SoundInv, UNCHANGED vars PROVE SoundInv'
  <2>1. MoneyType' /\ UsageConserved'
    BY <1>2, MoneyStep DEF SoundInv
  <2>2. OtherTypes' /\ TimesArePast'
    BY <1>2 DEF SoundInv, vars, OtherTypes, TimesArePast
  <2> QED
    BY <2>1, <2>2 DEF SoundInv
<1> QED
  BY <1>1, <1>2

\* Before the first tick nothing is suspended or billed.
LEMMA SoundInvInit ==
  Init => SoundInv
<1> SUFFICES ASSUME Init PROVE SoundInv
  OBVIOUS
<1>1. MoneyType /\ UsageConserved
  BY InitMoneyType, InitConserved
<1>2. OtherTypes
  <2>1. NoSweep \in [todo : Seq(Dep), committed : Nat]
    BY EmptySeq DEF NoSweep
  <2>2. box \in [Dep -> Box] /\ stamping \subseteq Dep /\ used \in [Dep -> Nat]
    BY DEF Init, Box
  <2> QED
    BY <2>1, <2>2, MeteringAssumption DEF Init, OtherTypes
<1>3. TimesArePast
  BY MeteringAssumption DEF Init, TimesArePast, Resting, NoRow, Never
<1> QED
  BY <1>1, <1>2, <1>3 DEF SoundInv

\* The ticks are numbers.
LEMMA TicksType ==
  ASSUME SoundInv, NEW d \in Dep
  PROVE  /\ TicksListed(d) \in Nat /\ TicksComing(d) \in Nat /\ Unbilled(d) \in Int /\ TickCost(d) \in Nat
         /\ accrued[d] \in Nat /\ used[d] \in Nat /\ used \in [Dep -> Nat] /\ accrued \in [Dep -> Nat]
<1>1. BilledTicks(d) \in Nat
  BY PartsType DEF SoundInv
<1>2. TicksComing(d) \in Nat
  BY RowOf DEF TicksComing, AtLeast
<1>3. TickCost(d) \in Nat
  <2>1. HourlyCents[d] \in Nat /\ Cent \in Nat /\ TicksPerHour \in Nat
    BY MeteringAssumption
  <2>2. 2 * HourlyCents[d] * Cent \in Nat
    BY <2>1
  <2> QED
    BY <2>1, <2>2 DEF TickCost
<1>4. accrued[d] \in Nat /\ used[d] \in Nat /\ used \in [Dep -> Nat] /\ accrued \in [Dep -> Nat]
  BY DEF SoundInv, MoneyType, OtherTypes
<1> QED
  BY <1>1, <1>2, <1>3, <1>4 DEF TicksListed, Unbilled

\* They are after a step, too.
LEMMA TicksTypeNext == SoundInv' => (\A d \in Dep : Unbilled(d) \in Int)'
<1>1. SoundInv => \A d \in Dep : Unbilled(d) \in Int
  BY TicksType
<1> QED
  BY <1>1, PTL

\* Rounding to the nearest part costs at most half a part, and nothing for no time.
LEMMA CostOfTicks ==
  ASSUME NEW d \in Dep, NEW t \in Nat
  PROVE  Parts(d, t) \in Nat /\ 2 * TicksPerHour * Parts(d, t) <= TickCost(d) * t
<1> DEFINE n == HourlyCents[d] * Cent * t
           p == TicksPerHour
           q == n \div p
           r == n % p
<1>1. HourlyCents[d] \in Nat /\ Cent \in Nat /\ p \in Nat \ {0}
  BY MeteringAssumption
<1>2. HourlyCents[d] * Cent \in Nat
  BY <1>1
<1>3. n \in Nat
  BY <1>2
<1>4. q \in Nat /\ r \in Nat /\ p * q + r = n
  BY <1>1, <1>3, Division
<1>5. TickCost(d) * t = 2 * n + p * t
  BY <1>1, <1>2 DEF TickCost
<1>6. p * t \in Nat /\ (t > 0 => p <= p * t)
  BY <1>1
<1>7. t = 0 => n = 0
  BY <1>2
<1>8. Parts(d, t) = IF 2 * r > p \/ (2 * r = p /\ q % 2 = 1) THEN q + 1 ELSE q
  BY DEF Parts
<1>9. p * q \in Nat /\ 2 * p * q = 2 * (p * q) /\ 2 * p * (q + 1) = 2 * (p * q) + 2 * p
  BY <1>1, <1>4
<1> HIDE DEF n, p, q, r
<1>10. n = 0 => r = 0
  BY <1>3, <1>4, <1>9
<1>11. CASE Parts(d, t) = q
  BY <1>1, <1>3, <1>4, <1>5, <1>6, <1>9, <1>11 DEF p
<1>12. CASE 2 * r >= p /\ Parts(d, t) = q + 1
  <2>1. t > 0
    BY <1>1, <1>4, <1>7, <1>10, <1>12
  <2>2. 2 * p * Parts(d, t) <= TickCost(d) * t
    BY <1>1, <1>3, <1>4, <1>5, <1>6, <1>9, <1>12, <2>1
  <2> QED
    BY <1>4, <1>12, <2>2 DEF p
<1> QED
  BY <1>1, <1>4, <1>8, <1>11, <1>12

\* A product grows with its factor.
LEMMA Grows ==
  ASSUME NEW k \in Nat, NEW a \in Int, NEW b \in Int, a <= b
  PROVE  k * a <= k * b /\ k * a \in Int /\ k * b \in Int
<1>1. b - a \in Nat /\ b = a + (b - a)
  OBVIOUS
<1>2. k * (b - a) \in Nat
  BY <1>1
<1>3. k * b = k * a + k * (b - a)
  OBVIOUS
<1> QED
  BY <1>2, <1>3

\* Where nothing is accrued and no more may be billed, what was used still covers it.
LEMMA CoverStays ==
  ASSUME SoundInv, SoundInv', NEW d \in Dep,
         2 * TicksPerHour * accrued[d] <= TickCost(d) * Unbilled(d),
         accrued'[d] = accrued[d], Unbilled(d)' >= Unbilled(d)
  PROVE  2 * TicksPerHour * accrued'[d] <= TickCost(d) * Unbilled(d)'
<1>1. Unbilled(d) \in Int /\ TickCost(d) \in Nat /\ accrued[d] \in Nat /\ TicksPerHour \in Nat
  BY TicksType, MeteringAssumption
<1>2. Unbilled(d)' \in Int
  BY TicksTypeNext
<1>3. TickCost(d) * Unbilled(d) <= TickCost(d) * Unbilled(d)' /\ TickCost(d) * Unbilled(d) \in Int /\ TickCost(d) * Unbilled(d)' \in Int
  BY <1>1, <1>2, Grows
<1>4. 2 * TicksPerHour * accrued[d] \in Int
  BY <1>1
<1> QED
  BY <1>3, <1>4

\* A step that accrues nothing, lets no time pass and brings no deployment up.
Quiet ==
  /\ UNCHANGED <<now, metered, used, accrued>>
  /\ \A d \in Dep :
       /\ row'[d].since = row[d].since
       /\ row'[d].state = "READY" /\ d \notin stamping' => row[d].state = "READY" /\ d \notin stamping
       /\ d \in Listed' => d \in Listed /\ cycle'.at = cycle.at /\ cycle'.elapsed = cycle.elapsed

\* The steps that are not.
Counted ==
  \/ MeterUsage \/ Tick \/ Crash
  \/ \E d \in Dep : SetBillableSince(d) \/ StampUnbilled(d) \/ AccrueMetering(d)

\* Which steps are which.
LEMMA QuietSteps ==
  ASSUME SoundInv, Next
  PROVE  Quiet \/ Counted
<1>1. ASSUME NEW d \in Dep, ReportReady(d) PROVE Quiet \/ Counted
  <2>1. UNCHANGED <<now, metered, used, accrued, cycle>>
    BY <1>1 DEF ReportReady, clock, ledger
  <2>2. row[d] \in Row /\ row \in [Dep -> Row]
    BY RowOf
  <2>3. row' = [row EXCEPT ![d] = [row[d] EXCEPT !.state = "READY", !.reason = "none", !.lease = "live", !.paused = Never]]
    BY <1>1, <2>2 DEF ReportReady, Row
  <2>4. ([row[d] EXCEPT !.state = "READY", !.reason = "none", !.lease = "live", !.paused = Never]).since = row[d].since /\ ([row[d] EXCEPT !.state = "READY", !.reason = "none", !.lease = "live", !.paused = Never]).state = "READY"
    BY <2>2, RowFields DEF Row
  <2>5. \A e \in Dep : row'[e].since = row[e].since /\ (e # d => row'[e].state = row[e].state) /\ row'[d].state = "READY"
    BY <2>2, <2>3, <2>4
  <2>6. stamping' = stamping \/ (stamping' = stamping \cup {d})
    BY <1>1 DEF ReportReady
  <2>7. Listed' = Listed
    BY <2>1 DEF Listed
  <2> QED
    BY <1>1, <2>1, <2>5, <2>6, <2>7 DEF Quiet, ReportReady
<1>2. ASSUME NEW d \in Dep, SetBillableSince(d) PROVE Quiet \/ Counted
  BY <1>2 DEF Counted
<1>3. ASSUME NEW d \in Dep, Requeue(d) PROVE Quiet \/ Counted
  <2>1. UNCHANGED <<now, metered, used, accrued, cycle>>
    BY <1>3 DEF Requeue, clock, ledger
  <2>2. row[d] \in Row /\ row \in [Dep -> Row]
    BY RowOf
  <2>3. row' = [row EXCEPT ![d] = [row[d] EXCEPT !.state = "STARTING"]]
    BY <1>3, <2>2 DEF Requeue, Row
  <2>4. ([row[d] EXCEPT !.state = "STARTING"]).since = row[d].since /\ ([row[d] EXCEPT !.state = "STARTING"]).state = "STARTING"
    BY <2>2, RowFields DEF Row
  <2>5. \A e \in Dep : row'[e].since = row[e].since /\ (e # d => row'[e].state = row[e].state) /\ row'[d].state = "STARTING"
    BY <2>2, <2>3, <2>4
  <2>6. stamping' = stamping \/ (stamping' = stamping \cup {d})
    BY <1>3 DEF Requeue
  <2>7. Listed' = Listed
    BY <2>1 DEF Listed
  <2> QED
    BY <1>3, <2>1, <2>5, <2>6, <2>7 DEF Quiet, Requeue
<1>4. ASSUME NEW d \in Dep, IdleSuspend(d) PROVE Quiet \/ Counted
  <2>1. UNCHANGED <<now, metered, used, accrued, cycle>>
    BY <1>4 DEF IdleSuspend, clock, ledger
  <2>2. row[d] \in Row /\ row \in [Dep -> Row]
    BY RowOf
  <2>3. row' = [row EXCEPT ![d] = Suspended(row[d], "idle")]
    BY <1>4, <2>2 DEF IdleSuspend, Row
  <2>4. (Suspended(row[d], "idle")).since = row[d].since /\ (Suspended(row[d], "idle")).state = "SUSPENDED"
    BY <2>2, RowFields DEF Row
  <2>5. \A e \in Dep : row'[e].since = row[e].since /\ (e # d => row'[e].state = row[e].state) /\ row'[d].state = "SUSPENDED"
    BY <2>2, <2>3, <2>4
  <2>6. stamping' = stamping \/ (stamping' = stamping \cup {d})
    BY <1>4 DEF IdleSuspend
  <2>7. Listed' = Listed
    BY <2>1 DEF Listed
  <2> QED
    BY <1>4, <2>1, <2>5, <2>6, <2>7 DEF Quiet, IdleSuspend
<1>5. ASSUME NEW d \in Dep, CreateDeployment(d) PROVE Quiet \/ Counted
  <2>1. UNCHANGED <<now, metered, used, accrued, cycle>>
    BY <1>5 DEF CreateDeployment, clock, ledger
  <2>2. row[d] \in Row /\ row \in [Dep -> Row]
    BY RowOf
  <2>3. row' = [row EXCEPT ![d] = [row[d] EXCEPT !.state = "STARTING", !.lease = "live"]]
    BY <1>5, <2>2 DEF CreateDeployment, Row
  <2>4. ([row[d] EXCEPT !.state = "STARTING", !.lease = "live"]).since = row[d].since /\ ([row[d] EXCEPT !.state = "STARTING", !.lease = "live"]).state = "STARTING"
    BY <2>2, RowFields DEF Row
  <2>5. \A e \in Dep : row'[e].since = row[e].since /\ (e # d => row'[e].state = row[e].state) /\ row'[d].state = "STARTING"
    BY <2>2, <2>3, <2>4
  <2>6. stamping' = stamping \/ (stamping' = stamping \cup {d})
    BY <1>5 DEF CreateDeployment
  <2>7. Listed' = Listed
    BY <2>1 DEF Listed
  <2> QED
    BY <1>5, <2>1, <2>5, <2>6, <2>7 DEF Quiet, CreateDeployment
<1>6. ASSUME NEW d \in Dep, ResumeDeployment(d) PROVE Quiet \/ Counted
  <2>1. UNCHANGED <<now, metered, used, accrued, cycle>>
    BY <1>6 DEF ResumeDeployment, clock, ledger
  <2>2. row[d] \in Row /\ row \in [Dep -> Row]
    BY RowOf
  <2>3. row' = [row EXCEPT ![d] = [row[d] EXCEPT !.lease = "live"]]
    BY <1>6, <2>2 DEF ResumeDeployment, Row
  <2>4. ([row[d] EXCEPT !.lease = "live"]).since = row[d].since /\ ([row[d] EXCEPT !.lease = "live"]).state = row[d].state
    BY <2>2, RowFields DEF Row
  <2>5. \A e \in Dep : row'[e].since = row[e].since /\ (e # d => row'[e].state = row[e].state) /\ row'[d].state = row[d].state
    BY <2>2, <2>3, <2>4
  <2>6. stamping' = stamping \/ (stamping' = stamping \cup {d})
    BY <1>6 DEF ResumeDeployment
  <2>7. Listed' = Listed
    BY <2>1 DEF Listed
  <2> QED
    BY <1>6, <2>1, <2>5, <2>6, <2>7 DEF Quiet, ResumeDeployment
<1>7. ASSUME NEW d \in Dep, Terminate(d) PROVE Quiet \/ Counted
  <2>1. UNCHANGED <<now, metered, used, accrued, cycle>>
    BY <1>7 DEF Terminate, clock, ledger
  <2>2. row[d] \in Row /\ row \in [Dep -> Row]
    BY RowOf
  <2>3. row' = [row EXCEPT ![d] = Ended(row[d])]
    BY <1>7, <2>2 DEF Terminate, Row
  <2>4. (Ended(row[d])).since = row[d].since /\ (Ended(row[d])).state = "TERMINATED"
    BY <2>2, RowFields DEF Row
  <2>5. \A e \in Dep : row'[e].since = row[e].since /\ (e # d => row'[e].state = row[e].state) /\ row'[d].state = "TERMINATED"
    BY <2>2, <2>3, <2>4
  <2>6. stamping' = stamping \/ (stamping' = stamping \cup {d})
    BY <1>7 DEF Terminate
  <2>7. Listed' = Listed
    BY <2>1 DEF Listed
  <2> QED
    BY <1>7, <2>1, <2>5, <2>6, <2>7 DEF Quiet, Terminate
<1>8. ASSUME NEW d \in Dep, MeterSkip(d) PROVE Quiet \/ Counted
  <2>1. UNCHANGED <<now, metered, used, accrued, row, stamping>>
    BY <1>8 DEF MeterSkip, clock, ledger
  <2>2. Listed' \subseteq Listed /\ (Listed' # {} => cycle'.at = cycle.at /\ cycle'.elapsed = cycle.elapsed)
    BY <1>8, CycleOf, CycleFields, MeteringAssumption DEF MeterSkip, At, Listed, Cycle
  <2> QED
    BY <2>1, <2>2 DEF Quiet
<1>9. ASSUME NEW d \in Dep, StampUnbilled(d) PROVE Quiet \/ Counted
  BY <1>9 DEF Counted
<1>10. ASSUME NEW d \in Dep, AccrueMetering(d) PROVE Quiet \/ Counted
  BY <1>10 DEF Counted
<1>11. ASSUME NEW d \in Dep, DebitToFloor(d) PROVE Quiet \/ Counted
  <2>1. UNCHANGED <<now, metered, used, accrued, row, stamping>>
    BY <1>11 DEF DebitToFloor, clock, ledger
  <2>2. Listed' \subseteq Listed /\ (Listed' # {} => cycle'.at = cycle.at /\ cycle'.elapsed = cycle.elapsed)
    BY <1>11, CycleOf, CycleFields, MeteringAssumption DEF DebitToFloor, At, Listed, Cycle
  <2> QED
    BY <2>1, <2>2 DEF Quiet
<1>12. ASSUME NEW d \in Dep, ReturnMetering(d) PROVE Quiet \/ Counted
  <2>1. UNCHANGED <<now, metered, used, accrued, row, stamping>>
    BY <1>12 DEF ReturnMetering, clock, ledger
  <2>2. Listed' \subseteq Listed /\ (Listed' # {} => cycle'.at = cycle.at /\ cycle'.elapsed = cycle.elapsed)
    BY <1>12, CycleOf, CycleFields, MeteringAssumption DEF ReturnMetering, At, Listed, Cycle
  <2> QED
    BY <2>1, <2>2 DEF Quiet
<1>13. ASSUME NEW d \in Dep, MeterSuspend(d) PROVE Quiet \/ Counted
  <2>1. UNCHANGED <<now, metered, used, accrued, stamping>>
    BY <1>13 DEF MeterSuspend, clock, ledger
  <2>2. Listed' \subseteq Listed /\ (Listed' # {} => cycle'.at = cycle.at /\ cycle'.elapsed = cycle.elapsed)
    BY <1>13, CycleOf, CycleFields, MeteringAssumption DEF MeterSuspend, At, Listed
  <2>3. row \in [Dep -> Row] /\ row[d] \in Row
    BY RowOf
  <2>4. (Suspended(row[d], "balance")).since = row[d].since /\ (Suspended(row[d], "balance")).state = "SUSPENDED"
    BY <2>3, RowFields
  <2>5. row' = row \/ row' = [row EXCEPT ![d] = Suspended(row[d], "balance")]
    BY <1>13 DEF MeterSuspend
  <2>6. \A e \in Dep : row'[e].since = row[e].since /\ (row'[e].state = "READY" => row[e].state = "READY")
    BY <2>3, <2>4, <2>5
  <2> QED
    BY <2>1, <2>2, <2>6 DEF Quiet
<1>14. ASSUME NEW d \in Dep, AccrueStorage(d) PROVE Quiet \/ Counted
  <2>1. UNCHANGED <<now, metered, used, accrued, row, stamping>>
    BY <1>14 DEF AccrueStorage, clock, ledger
  <2>2. Listed' \subseteq Listed /\ (Listed' # {} => cycle'.at = cycle.at /\ cycle'.elapsed = cycle.elapsed)
    BY <1>14, CycleOf, CycleFields, MeteringAssumption DEF AccrueStorage, At, Listed, Cycle
  <2> QED
    BY <2>1, <2>2 DEF Quiet
<1>15. ASSUME NEW d \in Dep, DebitStorage(d) PROVE Quiet \/ Counted
  <2>1. UNCHANGED <<now, metered, used, accrued, row, stamping>>
    BY <1>15 DEF DebitStorage, clock, ledger
  <2>2. Listed' \subseteq Listed /\ (Listed' # {} => cycle'.at = cycle.at /\ cycle'.elapsed = cycle.elapsed)
    BY <1>15, CycleOf, CycleFields, MeteringAssumption DEF DebitStorage, At, Listed, Cycle
  <2> QED
    BY <2>1, <2>2 DEF Quiet
<1>16. ASSUME NEW d \in Dep, Reap(d) PROVE Quiet \/ Counted
  <2>1. UNCHANGED <<now, metered, used, accrued, stamping>>
    BY <1>16 DEF Reap, clock, ledger
  <2>2. Listed' \subseteq Listed /\ (Listed' # {} => cycle'.at = cycle.at /\ cycle'.elapsed = cycle.elapsed)
    BY <1>16, CycleOf, CycleFields, MeteringAssumption DEF Reap, At, Listed
  <2>3. row \in [Dep -> Row] /\ row[d] \in Row
    BY RowOf
  <2>4. (Ended(row[d])).since = row[d].since /\ (Ended(row[d])).state = "TERMINATED"
    BY <2>3, RowFields
  <2>5. row' = row \/ row' = [row EXCEPT ![d] = Ended(row[d])]
    BY <1>16 DEF Reap
  <2>6. \A e \in Dep : row'[e].since = row[e].since /\ (row'[e].state = "READY" => row[e].state = "READY")
    BY <2>3, <2>4, <2>5
  <2> QED
    BY <2>1, <2>2, <2>6 DEF Quiet
<1>17. ASSUME NEW d \in Dep, NEW b \in Box, BoxChanges(d, b) PROVE Quiet \/ Counted
  <2>1. UNCHANGED <<now, metered, used, accrued, cycle, row, stamping>>
    BY <1>17 DEF BoxChanges, clock, ledger
  <2> QED
    BY <2>1 DEF Quiet, Listed
<1>18. ASSUME NEW a \in TopUps, CreditUser(a) PROVE Quiet \/ Counted
  <2>1. UNCHANGED <<now, metered, used, accrued, cycle, row, stamping>>
    BY <1>18 DEF CreditUser, clock, ledger
  <2> QED
    BY <2>1 DEF Quiet, Listed
<1>19. CASE MeterUsage
  BY <1>19 DEF Counted
<1>20. CASE MeterPodStorage
  <2>1. UNCHANGED <<now, metered, used, accrued, row, stamping>>
    BY <1>20 DEF MeterPodStorage, clock, ledger
  <2>2. Listed' \subseteq Listed /\ (Listed' # {} => cycle'.at = cycle.at /\ cycle'.elapsed = cycle.elapsed)
    BY <1>20, CycleOf, CycleFields, MeteringAssumption DEF MeterPodStorage, At, Listed, Cycle, Resting
  <2> QED
    BY <2>1, <2>2 DEF Quiet
<1>21. CASE ReapExhaustedPods
  <2>1. UNCHANGED <<now, metered, used, accrued, row, stamping>>
    BY <1>21 DEF ReapExhaustedPods, clock, ledger
  <2>2. Listed' \subseteq Listed /\ (Listed' # {} => cycle'.at = cycle.at /\ cycle'.elapsed = cycle.elapsed)
    BY <1>21, CycleOf, CycleFields, MeteringAssumption DEF ReapExhaustedPods, At, Listed, Cycle, Resting
  <2> QED
    BY <2>1, <2>2 DEF Quiet
<1>22. CASE AutoResumeOnce
  <2>1. UNCHANGED <<now, metered, used, accrued, cycle, row, stamping>>
    BY <1>22 DEF AutoResumeOnce, clock, ledger
  <2> QED
    BY <2>1 DEF Quiet, Listed
<1>23. CASE AutoResumeNext
  <2>1. UNCHANGED <<now, metered, used, accrued, cycle, stamping>>
    BY <1>23 DEF AutoResumeNext, clock, ledger
  <2>2. Head(sweep.todo) \in Dep
    BY <1>23, HeadTailProperties DEF AutoResumeNext, OtherTypes, SoundInv
  <2>3. PICK d \in Dep : row' = row \/ row' = [row EXCEPT ![d].lease = "live"]
    BY <1>23, <2>2 DEF AutoResumeNext
  <2>4. row \in [Dep -> Row] /\ row[d] \in Row
    BY RowOf
  <2>5. \A e \in Dep : row'[e].since = row[e].since /\ row'[e].state = row[e].state
    <3>1. CASE row' = row
      BY <3>1
    <3>2. CASE row' = [row EXCEPT ![d].lease = "live"]
      <4> DEFINE r == [row[d] EXCEPT !.lease = "live"]
      <4>1. r.since = row[d].since /\ r.state = row[d].state
        BY <2>4 DEF Row
      <4>2. row' = [row EXCEPT ![d] = r]
        BY <3>2, <2>4 DEF Row
      <4> HIDE DEF r
      <4> QED
        BY <2>4, <4>1, <4>2
    <3> QED
      BY <2>3, <3>1, <3>2
  <2> QED
    BY <2>1, <2>5 DEF Quiet, Listed
<1>24. CASE Tick
  BY <1>24 DEF Counted
<1>25. CASE MeterUsageRaises
  <2>1. UNCHANGED <<now, metered, used, accrued, row, stamping>>
    BY <1>25 DEF MeterUsageRaises, clock, ledger
  <2>2. Listed' \subseteq Listed /\ (Listed' # {} => cycle'.at = cycle.at /\ cycle'.elapsed = cycle.elapsed)
    BY <1>25, CycleOf, CycleFields, MeteringAssumption DEF MeterUsageRaises, At, Listed, Cycle, Resting
  <2> QED
    BY <2>1, <2>2 DEF Quiet
<1>26. CASE Crash
  BY <1>26 DEF Counted
<1> QED
  BY <1>1, <1>2, <1>3, <1>4, <1>5, <1>6, <1>7, <1>8, <1>9, <1>10, <1>11, <1>12, <1>13, <1>14, <1>15, <1>16, <1>17, <1>18, <1>19, <1>20, <1>21, <1>22, <1>23, <1>24, <1>25, <1>26
     DEF Next, Work, Sweep, Usage, Storage, Report, Customer

\* A quiet step leaves at least as many ticks unbilled.
LEMMA QuietKeeps ==
  ASSUME SoundInv, Quiet, NEW d \in Dep
  PROVE  accrued'[d] = accrued[d] /\ Unbilled(d)' >= Unbilled(d)
<1>1. used'[d] = used[d] /\ accrued' = accrued
  BY DEF Quiet
<1>2. TicksComing(d)' <= TicksComing(d) /\ TicksComing(d)' \in Nat
  <2>1. TicksComing(d) \in Nat
    BY TicksType
  <2>2. CASE row'[d].state = "READY" /\ d \notin stamping'
    <3>1. TicksComing(d)' = TicksComing(d)
      BY <2>2 DEF Quiet, TicksComing, AtLeast
    <3> QED
      BY <2>1, <3>1
  <2>3. CASE ~(row'[d].state = "READY" /\ d \notin stamping')
    <3>1. TicksComing(d)' = 0
      BY <2>3 DEF TicksComing
    <3> QED
      BY <2>1, <3>1
  <2> QED
    BY <2>2, <2>3
<1>3. TicksListed(d)' <= TicksListed(d) /\ TicksListed(d)' \in Nat
  <2>1. TicksListed(d) \in Nat
    BY TicksType
  <2>2. CASE d \in Listed'
    <3>1. d \in Listed /\ cycle'.at = cycle.at /\ cycle'.elapsed = cycle.elapsed /\ row'[d].since = row[d].since
      BY <2>2 DEF Quiet
    <3>2. BilledTicks(d)' = BilledTicks(d)
      BY <3>1 DEF BilledTicks, AtMost, AtLeast
    <3>3. TicksListed(d)' = TicksListed(d)
      BY <2>2, <3>1, <3>2 DEF TicksListed
    <3> QED
      BY <2>1, <3>3
  <2>3. CASE d \notin Listed'
    <3>1. TicksListed(d)' = 0
      BY <2>3 DEF TicksListed
    <3> QED
      BY <2>1, <3>1
  <2> QED
    BY <2>2, <2>3
<1> QED
  BY <1>1, <1>2, <1>3, TicksType DEF Unbilled

\* MeterUsage lists what the next cycle could have billed by now, and no more.
LEMMA ListKeeps ==
  ASSUME SoundInv, MeterUsage, ~ReportsBesideMeter, NEW d \in Dep
  PROVE  accrued'[d] = accrued[d] /\ Unbilled(d)' >= Unbilled(d)
<1>1. /\ stamping = {} /\ UNCHANGED <<used, accrued, now, row, stamping>> /\ metered' = now /\ cycle.stage = "idle"
      /\ cycle' = [Resting EXCEPT !.stage = "usage", !.todo = InState("READY"), !.at = now, !.elapsed = AtMost(now - metered, MaxCycle)]
  BY DEF MeterUsage, At, ledger
<1>2. cycle'.stage = "usage" /\ cycle'.todo = InState("READY") /\ cycle'.at = now /\ cycle'.dep = NoDep
      /\ cycle'.elapsed = AtMost(now - metered, MaxCycle)
  BY <1>1 DEF Resting
<1>3. /\ now \in Nat /\ metered \in Nat /\ metered <= now /\ row[d].since \in Int /\ row[d].since <= now /\ row[d].since >= -1
      /\ MaxCycle \in Nat /\ used[d] \in Nat
  BY RowOf, TicksType, MeteringAssumption
<1>4. TicksListed(d) = 0
  BY <1>1 DEF TicksListed, Listed
<1>5. TicksComing(d)' = 0
  BY <1>1, <1>3 DEF TicksComing, AtLeast
<1>6. TicksListed(d)' <= TicksComing(d) /\ TicksListed(d)' \in Int
  <2>1. CASE row[d].state = "READY"
    <3>1. TicksComing(d) = now - AtLeast(metered, row[d].since)
      BY <1>1, <2>1 DEF TicksComing
    <3>2. d \in Listed'
      BY <1>2, <2>1, MeteringAssumption DEF Listed, InState
    <3>3. TicksListed(d)' = IF row[d].since = Never THEN AtMost(now - metered, MaxCycle)
                            ELSE AtMost(AtMost(now - metered, MaxCycle), AtLeast(0, now - row[d].since))
      BY <1>1, <1>2, <3>2 DEF TicksListed, BilledTicks
    <3> QED
      BY <1>3, <3>1, <3>3 DEF AtMost, AtLeast, Never
  <2>2. CASE row[d].state # "READY"
    <3>1. TicksComing(d) = 0
      BY <2>2 DEF TicksComing
    <3>2. d \notin Listed'
      BY <1>2, <2>2 DEF Listed, InState
    <3> QED
      BY <3>1, <3>2 DEF TicksListed
  <2> QED
    BY <2>1, <2>2
<1> QED
  BY <1>1, <1>3, <1>4, <1>5, <1>6, TicksType DEF Unbilled

\* A tick that may be billed is a tick used.
LEMMA TickKeeps ==
  ASSUME SoundInv, Tick, NEW d \in Dep
  PROVE  accrued'[d] = accrued[d] /\ Unbilled(d)' >= Unbilled(d)
<1>1. UNCHANGED <<accrued, row, stamping, metered, cycle>> /\ now' = now + 1
      /\ used'[d] = used[d] + (IF row[d].state = "READY" THEN 1 ELSE 0)
  BY DEF Tick, ledger
<1>2. TicksListed(d)' = TicksListed(d)
  BY <1>1 DEF TicksListed, Listed, BilledTicks, AtMost, AtLeast
<1>3. TicksComing(d)' <= TicksComing(d) + (IF row[d].state = "READY" THEN 1 ELSE 0) /\ TicksComing(d)' \in Int
  BY <1>1, RowOf DEF TicksComing, AtLeast
<1> QED
  BY <1>1, <1>2, <1>3, TicksType DEF Unbilled

\* A restarted worker counts from now.
LEMMA CrashKeeps ==
  ASSUME SoundInv, Crash, NEW d \in Dep
  PROVE  accrued'[d] = accrued[d] /\ Unbilled(d)' >= Unbilled(d)
<1>1. UNCHANGED <<accrued, used, row, now>> /\ cycle' = Resting /\ metered' = now
  BY DEF Crash
<1>2. TicksListed(d)' = 0
  BY <1>1 DEF TicksListed, Listed, Resting
<1>3. TicksComing(d)' = 0
  BY <1>1, RowOf DEF TicksComing, AtLeast
<1> QED
  BY <1>1, <1>2, <1>3, TicksType DEF Unbilled

\* What set_billable_since and the first charge of an old model write is never early.
LEMMA StampKeeps ==
  ASSUME SoundInv, NEW d \in Dep, NEW e \in Dep, SetBillableSince(e) \/ StampUnbilled(e)
  PROVE  accrued'[d] = accrued[d] /\ Unbilled(d)' >= Unbilled(d)
<1>1. row[e] \in Row /\ row \in [Dep -> Row] /\ row[d] \in Row
  BY RowOf
<1>2. UNCHANGED <<accrued, used, now, metered>>
  BY DEF SetBillableSince, StampUnbilled, ledger, clock
<1>3. PICK s \in Int : row' = [row EXCEPT ![e].since = s] /\ s <= now /\ (s = now \/ (s = cycle.at /\ row[e].since = Never))
  BY RowOf DEF SetBillableSince, StampUnbilled
<1>4. row'[d].state = row[d].state /\ row'[d].since = IF d = e THEN s ELSE row[d].since
  BY <1>1, <1>3 DEF Row
<1>5. CASE SetBillableSince(e)
  <2>1. cycle' = cycle /\ stamping' = stamping \ {e} /\ row' = [row EXCEPT ![e].since = now]
    BY <1>5 DEF SetBillableSince
  <2>2. row'[d].since = IF d = e THEN now ELSE row[d].since
    BY <1>1, <2>1 DEF Row
  <2>3. CASE d = e
    <3>1. TicksListed(d)' = 0
      BY <1>2, <2>1, <2>2, <2>3, RowOf DEF TicksListed, Listed, BilledTicks, AtMost, AtLeast, Never
    <3>2. TicksComing(d)' = 0
      BY <1>2, <2>2, <2>3, RowOf DEF TicksComing, AtLeast
    <3> QED
      BY <1>2, <3>1, <3>2, TicksType DEF Unbilled
  <2>4. CASE d # e
    <3>1. TicksListed(d)' = TicksListed(d)
      BY <2>1, <2>2, <2>4 DEF TicksListed, Listed, BilledTicks, AtMost, AtLeast
    <3>2. TicksComing(d)' = TicksComing(d)
      BY <1>2, <1>4, <2>1, <2>2, <2>4 DEF TicksComing, AtLeast
    <3> QED
      BY <1>2, <3>1, <3>2, TicksType DEF Unbilled
  <2> QED
    BY <1>2, <2>3, <2>4
<1>6. CASE StampUnbilled(e)
  <2>1. cycle' = Drop(e) /\ stamping' = stamping /\ cycle.stage = "usage" /\ row[e].since = Never
        /\ row' = [row EXCEPT ![e].since = cycle.at]
    BY <1>6 DEF StampUnbilled, At
  <2>2. row'[d].since = IF d = e THEN cycle.at ELSE row[d].since
    BY <1>1, <2>1 DEF Row
  <2>3. Listed' = Listed \ {e} /\ cycle'.at = cycle.at /\ cycle'.elapsed = cycle.elapsed
    BY <2>1, CycleOf, CycleFields DEF Listed
  <2>4. CASE d = e
    <3>1. TicksListed(d)' = 0
      BY <2>3, <2>4 DEF TicksListed
    <3>2. TicksComing(d)' <= TicksComing(d) /\ TicksComing(d)' \in Int
      BY <1>2, <1>4, <2>1, <2>2, <2>4, RowOf DEF TicksComing, AtLeast, Never
    <3> QED
      BY <1>2, <3>1, <3>2, TicksType DEF Unbilled
  <2>5. CASE d # e
    <3>1. TicksListed(d)' = TicksListed(d)
      BY <2>2, <2>3, <2>5 DEF TicksListed, BilledTicks, AtMost, AtLeast
    <3>2. TicksComing(d)' = TicksComing(d)
      BY <1>2, <1>4, <2>1, <2>2, <2>5 DEF TicksComing, AtLeast
    <3> QED
      BY <1>2, <3>1, <3>2, TicksType DEF Unbilled
  <2> QED
    BY <1>2, <2>4, <2>5
<1> QED
  BY <1>5, <1>6

\* accrue_metering takes what the ticks on the list may cost, and takes them off the list.
LEMMA AccrueKeeps ==
  ASSUME SoundInv, NEW d \in Dep, NEW e \in Dep, AccrueMetering(e),
         2 * TicksPerHour * accrued[d] <= TickCost(d) * Unbilled(d)
  PROVE  2 * TicksPerHour * accrued'[d] <= TickCost(d) * Unbilled(d)'
<1> DEFINE t == BilledTicks(e)
           c == [cycle EXCEPT !.stage = "debit", !.dep = e, !.amount = (rem[e] + Parts(e, t)) \div Cent]
<1>1. /\ UNCHANGED <<used, now, metered, row, stamping>> /\ cycle.stage = "usage" /\ e \in cycle.todo /\ cycle.dep = NoDep
      /\ accrued' = [accrued EXCEPT ![e] = @ + Parts(e, t)]
      /\ cycle' = c \/ cycle' = Drop(e)
  BY DEF AccrueMetering, At, clock
<1>2. Listed' = Listed \ {e} /\ cycle'.at = cycle.at /\ cycle'.elapsed = cycle.elapsed /\ e \in Listed
  <2>1. cycle \in Cycle
    BY CycleOf
  <2>2. c.stage = "debit" /\ c.dep = e /\ c.todo = cycle.todo /\ c.at = cycle.at /\ c.elapsed = cycle.elapsed
    BY <2>1 DEF Cycle
  <2> HIDE DEF c
  <2>3. Drop(e).stage = "usage" /\ Drop(e).dep = NoDep /\ Drop(e).todo = cycle.todo \ {e} /\ Drop(e).at = cycle.at /\ Drop(e).elapsed = cycle.elapsed
    BY <1>1, <2>1, CycleFields
  <2>4. e # NoDep /\ NoDep \notin cycle.todo
    BY <2>1, MeteringAssumption DEF Cycle
  <2>5. Listed = cycle.todo
    BY <1>1, <2>4 DEF Listed
  <2>6. Listed' = cycle.todo \ {e} /\ cycle'.at = cycle.at /\ cycle'.elapsed = cycle.elapsed
    <3>1. CASE cycle' = c
      BY <2>2, <3>1 DEF Listed
    <3>2. CASE cycle' = Drop(e)
      BY <2>3, <2>4, <3>2 DEF Listed
    <3> QED
      BY <1>1, <3>1, <3>2
  <2> QED
    BY <1>1, <2>5, <2>6
<1>3. TicksComing(d)' = TicksComing(d)
  BY <1>1 DEF TicksComing, AtLeast
<1>4. used[d] \in Nat /\ TicksListed(d) \in Nat /\ TicksComing(d) \in Nat /\ TickCost(d) \in Nat /\ accrued[d] \in Nat
      /\ accrued \in [Dep -> Nat] /\ Unbilled(d) \in Int /\ TicksPerHour \in Nat /\ t \in Nat
  BY TicksType, PartsType, MeteringAssumption DEF SoundInv
<1>5. CASE d = e
  <2>1. TicksListed(d) = t /\ TicksListed(d)' = 0
    BY <1>2, <1>5 DEF TicksListed
  <2>2. Unbilled(d)' = Unbilled(d) + t
    BY <1>1, <1>3, <1>4, <2>1 DEF Unbilled
  <2>3. accrued'[d] = accrued[d] + Parts(d, t)
    BY <1>1, <1>4, <1>5
  <2>4. Parts(d, t) \in Nat /\ 2 * TicksPerHour * Parts(d, t) <= TickCost(d) * t
    BY <1>4, CostOfTicks
  <2> HIDE DEF t
  <2>5. PICK x \in Nat, y \in Nat : x = accrued[d] /\ y = Parts(d, t)
    BY <1>4, <2>4
  <2>6. 2 * TicksPerHour * (x + y) = 2 * TicksPerHour * x + 2 * TicksPerHour * y
    BY <1>4
  <2>7. TickCost(d) * (Unbilled(d) + t) = TickCost(d) * Unbilled(d) + TickCost(d) * t
    BY <1>4
  <2>8. 2 * TicksPerHour * x \in Int /\ 2 * TicksPerHour * y \in Int /\ TickCost(d) * Unbilled(d) \in Int /\ TickCost(d) * t \in Int
    BY <1>4
  <2>9. 2 * TicksPerHour * x + 2 * TicksPerHour * y <= TickCost(d) * Unbilled(d) + TickCost(d) * t
    BY <2>4, <2>5, <2>8
  <2> QED
    BY <2>2, <2>3, <2>5, <2>6, <2>7, <2>9
<1>6. CASE d # e
  <2>1. TicksListed(d)' = TicksListed(d)
    BY <1>1, <1>2, <1>6 DEF TicksListed, BilledTicks, AtMost, AtLeast
  <2>2. Unbilled(d)' = Unbilled(d)
    BY <1>1, <1>3, <2>1 DEF Unbilled
  <2> QED
    BY <1>1, <1>4, <1>6, <2>2
<1> QED
  BY <1>5, <1>6

\* Every step keeps what was accrued covered by the time used.
LEMMA CoverKept ==
  ASSUME SoundInv, UsedCoversBilled, ~ReportsBesideMeter, [Next]_vars
  PROVE  UsedCoversBilled'
<1>1. SoundInv'
  BY SoundInvKept
<1>2. ASSUME NEW d \in Dep PROVE 2 * TicksPerHour * accrued'[d] <= TickCost(d) * Unbilled(d)'
  <2>1. 2 * TicksPerHour * accrued[d] <= TickCost(d) * Unbilled(d)
    BY <1>2 DEF UsedCoversBilled
  <2>2. CASE \E e \in Dep : AccrueMetering(e)
    BY <2>1, <2>2, AccrueKeeps
  <2>3. CASE accrued'[d] = accrued[d] /\ Unbilled(d)' >= Unbilled(d)
    BY <1>1, <2>1, <2>3, CoverStays
  <2>4. CASE Quiet
    BY <2>3, <2>4, QuietKeeps
  <2>5. CASE Counted
    BY <2>2, <2>3, <2>5, ListKeeps, TickKeeps, CrashKeeps, StampKeeps DEF Counted
  <2>6. CASE UNCHANGED vars
    BY <2>4, <2>6 DEF vars, Quiet, Listed
  <2> QED
    BY <2>4, <2>5, <2>6, QuietSteps
<1> QED
  BY <1>2 DEF UsedCoversBilled, TickCost

\* What covers the ticks still to bill covers what was billed.
LEMMA CoverIsEnough ==
  SoundInv /\ UsedCoversBilled => NeverOvercharged
<1> SUFFICES ASSUME SoundInv, UsedCoversBilled, NEW d \in Dep
             PROVE  2 * TicksPerHour * accrued[d] <= TickCost(d) * used[d]
  BY DEF NeverOvercharged, TickCost
<1>1. /\ TicksListed(d) \in Nat /\ TicksComing(d) \in Nat /\ Unbilled(d) \in Int /\ TickCost(d) \in Nat
      /\ used[d] \in Nat /\ accrued[d] \in Nat /\ TicksPerHour \in Nat
  BY TicksType, MeteringAssumption
<1>2. Unbilled(d) <= used[d]
  BY <1>1 DEF Unbilled
<1>3. TickCost(d) * Unbilled(d) <= TickCost(d) * used[d] /\ TickCost(d) * Unbilled(d) \in Int /\ TickCost(d) * used[d] \in Int
  BY <1>1, <1>2, Grows
<1>4. 2 * TicksPerHour * accrued[d] <= TickCost(d) * Unbilled(d) /\ 2 * TicksPerHour * accrued[d] \in Int
  BY <1>1 DEF UsedCoversBilled
<1> QED
  BY <1>3, <1>4

\* Before the first tick nothing is billed.
LEMMA CoverInit ==
  Init => UsedCoversBilled
<1> SUFFICES ASSUME Init, NEW d \in Dep PROVE 2 * TicksPerHour * accrued[d] <= TickCost(d) * Unbilled(d)
  BY DEF UsedCoversBilled
<1>1. SoundInv
  BY SoundInvInit
<1>2. accrued[d] = 0 /\ used[d] = 0 /\ TicksListed(d) = 0 /\ TicksComing(d) = 0
  BY DEF Init, TicksListed, Listed, Resting, TicksComing, NoRow
<1>3. Unbilled(d) = 0
  BY <1>2 DEF Unbilled
<1>4. TickCost(d) \in Nat /\ TicksPerHour \in Nat
  BY <1>1, TicksType, MeteringAssumption
<1> QED
  BY <1>2, <1>3, <1>4

\* meter_usage with _mark_ready: whatever restarts, resumes, stalled cycles and late stamps lie between
\* two passes, a customer is billed at most for the ticks the deployment was READY, when no cycle
\* lists a row between the two writes of a report.
THEOREM NeverOverchargedHolds ==
  ASSUME ~ReportsBesideMeter
  PROVE  Spec => []NeverOvercharged
<1>1. Init => SoundInv /\ UsedCoversBilled
  BY SoundInvInit, CoverInit
<1>2. SoundInv /\ UsedCoversBilled /\ [Next]_vars => (SoundInv /\ UsedCoversBilled)'
  BY SoundInvKept, CoverKept
<1> QED
  BY <1>1, <1>2, CoverIsEnough, PTL DEF Spec

(***************************************************************************)
(* What becomes of a deployment that cannot be paid.                       *)
(***************************************************************************)

\* What a step may do to the part of a row that suspension is about.
Moved(d) ==
  \/ row'[d].state = row[d].state /\ row'[d].reason = row[d].reason /\ row'[d].paused = row[d].paused
  \/ row'[d].state = "TERMINATED"
  \/ row'[d].state = "READY" /\ row[d].state \in {"STARTING", "SUSPENDED"}
  \/ row'[d].state = "STARTING" /\ (At("idle") \/ row[d].state = "absent")
  \/ row'[d].state = "SUSPENDED" /\ row'[d].reason = "idle" /\ At("idle") /\ d \notin Rental
  \/ row'[d].state = "SUSPENDED" /\ row'[d].reason = "balance" /\ At("suspend") /\ d = cycle.dep

\* That is what the steps do.
LEMMA RowSteps ==
  ASSUME SoundInv, Next
  PROVE  \A e \in Dep : Moved(e)
<1>1. ASSUME NEW d \in Dep, ReportReady(d) PROVE \A e \in Dep : Moved(e)
  <2>1. row[d] \in Row /\ row \in [Dep -> Row]
    BY RowOf
  <2> DEFINE r == [row[d] EXCEPT !.state = "READY", !.reason = "none", !.lease = "live", !.paused = Never]
  <2>2. row' = [row EXCEPT ![d] = r]
    BY <1>1, <2>1 DEF ReportReady, Row
  <2>3. r.state = "READY" /\ row[d].state \in {"STARTING", "SUSPENDED"}
    BY <1>1, <2>1, RowFields DEF Row, ReportReady, At
  <2> HIDE DEF r
  <2>4. \A e \in Dep : (e # d => row'[e] = row[e]) /\ (row'[d] = r)
    BY <2>1, <2>2
  <2> QED
    BY <2>3, <2>4 DEF Moved, At
<1>2. ASSUME NEW d \in Dep, SetBillableSince(d) PROVE \A e \in Dep : Moved(e)
  <2>1. row[d] \in Row /\ row \in [Dep -> Row]
    BY RowOf
  <2> DEFINE r == [row[d] EXCEPT !.since = now]
  <2>2. row' = [row EXCEPT ![d] = r]
    BY <1>2, <2>1 DEF SetBillableSince, Row
  <2>3. r.state = row[d].state /\ r.reason = row[d].reason /\ r.paused = row[d].paused
    BY <1>2, <2>1, RowFields DEF Row, SetBillableSince, At
  <2> HIDE DEF r
  <2>4. \A e \in Dep : (e # d => row'[e] = row[e]) /\ (row'[d] = r)
    BY <2>1, <2>2
  <2> QED
    BY <2>3, <2>4 DEF Moved, At
<1>3. ASSUME NEW d \in Dep, Requeue(d) PROVE \A e \in Dep : Moved(e)
  <2>1. row[d] \in Row /\ row \in [Dep -> Row]
    BY RowOf
  <2> DEFINE r == [row[d] EXCEPT !.state = "STARTING"]
  <2>2. row' = [row EXCEPT ![d] = r]
    BY <1>3, <2>1 DEF Requeue, Row
  <2>3. r.state = "STARTING" /\ cycle.stage = "idle"
    BY <1>3, <2>1, RowFields DEF Row, Requeue, At
  <2> HIDE DEF r
  <2>4. \A e \in Dep : (e # d => row'[e] = row[e]) /\ (row'[d] = r)
    BY <2>1, <2>2
  <2> QED
    BY <2>3, <2>4 DEF Moved, At
<1>4. ASSUME NEW d \in Dep, IdleSuspend(d) PROVE \A e \in Dep : Moved(e)
  <2>1. row[d] \in Row /\ row \in [Dep -> Row]
    BY RowOf
  <2> DEFINE r == Suspended(row[d], "idle")
  <2>2. row' = [row EXCEPT ![d] = r]
    BY <1>4, <2>1 DEF IdleSuspend, Row
  <2>3. r.state = "SUSPENDED" /\ r.reason = "idle" /\ cycle.stage = "idle" /\ d \notin Rental
    BY <1>4, <2>1, RowFields DEF Row, IdleSuspend, At
  <2> HIDE DEF r
  <2>4. \A e \in Dep : (e # d => row'[e] = row[e]) /\ (row'[d] = r)
    BY <2>1, <2>2
  <2> QED
    BY <2>3, <2>4 DEF Moved, At
<1>5. ASSUME NEW d \in Dep, CreateDeployment(d) PROVE \A e \in Dep : Moved(e)
  <2>1. row[d] \in Row /\ row \in [Dep -> Row]
    BY RowOf
  <2> DEFINE r == [row[d] EXCEPT !.state = "STARTING", !.lease = "live"]
  <2>2. row' = [row EXCEPT ![d] = r]
    BY <1>5, <2>1 DEF CreateDeployment, Row
  <2>3. r.state = "STARTING" /\ row[d].state = "absent"
    BY <1>5, <2>1, RowFields DEF Row, CreateDeployment, At
  <2> HIDE DEF r
  <2>4. \A e \in Dep : (e # d => row'[e] = row[e]) /\ (row'[d] = r)
    BY <2>1, <2>2
  <2> QED
    BY <2>3, <2>4 DEF Moved, At
<1>6. ASSUME NEW d \in Dep, ResumeDeployment(d) PROVE \A e \in Dep : Moved(e)
  <2>1. row[d] \in Row /\ row \in [Dep -> Row]
    BY RowOf
  <2> DEFINE r == [row[d] EXCEPT !.lease = "live"]
  <2>2. row' = [row EXCEPT ![d] = r]
    BY <1>6, <2>1 DEF ResumeDeployment, Row
  <2>3. r.state = row[d].state /\ r.reason = row[d].reason /\ r.paused = row[d].paused
    BY <1>6, <2>1, RowFields DEF Row, ResumeDeployment, At
  <2> HIDE DEF r
  <2>4. \A e \in Dep : (e # d => row'[e] = row[e]) /\ (row'[d] = r)
    BY <2>1, <2>2
  <2> QED
    BY <2>3, <2>4 DEF Moved, At
<1>7. ASSUME NEW d \in Dep, Terminate(d) PROVE \A e \in Dep : Moved(e)
  <2>1. row[d] \in Row /\ row \in [Dep -> Row]
    BY RowOf
  <2> DEFINE r == Ended(row[d])
  <2>2. row' = [row EXCEPT ![d] = r]
    BY <1>7, <2>1 DEF Terminate, Row
  <2>3. r.state = "TERMINATED"
    BY <1>7, <2>1, RowFields DEF Row, Terminate, At
  <2> HIDE DEF r
  <2>4. \A e \in Dep : (e # d => row'[e] = row[e]) /\ (row'[d] = r)
    BY <2>1, <2>2
  <2> QED
    BY <2>3, <2>4 DEF Moved, At
<1>8. ASSUME NEW d \in Dep, MeterSkip(d) PROVE \A e \in Dep : Moved(e)
  <2>1. row' = row
    BY <1>8 DEF MeterSkip, clock
  <2> QED
    BY <2>1 DEF Moved
<1>9. ASSUME NEW d \in Dep, StampUnbilled(d) PROVE \A e \in Dep : Moved(e)
  <2>1. row[d] \in Row /\ row \in [Dep -> Row]
    BY RowOf
  <2> DEFINE r == [row[d] EXCEPT !.since = cycle.at]
  <2>2. row' = [row EXCEPT ![d] = r]
    BY <1>9, <2>1 DEF StampUnbilled, Row
  <2>3. r.state = row[d].state /\ r.reason = row[d].reason /\ r.paused = row[d].paused
    BY <1>9, <2>1, RowFields DEF Row, StampUnbilled, At
  <2> HIDE DEF r
  <2>4. \A e \in Dep : (e # d => row'[e] = row[e]) /\ (row'[d] = r)
    BY <2>1, <2>2
  <2> QED
    BY <2>3, <2>4 DEF Moved, At
<1>10. ASSUME NEW d \in Dep, AccrueMetering(d) PROVE \A e \in Dep : Moved(e)
  <2>1. row' = row
    BY <1>10 DEF AccrueMetering, clock
  <2> QED
    BY <2>1 DEF Moved
<1>11. ASSUME NEW d \in Dep, DebitToFloor(d) PROVE \A e \in Dep : Moved(e)
  <2>1. row' = row
    BY <1>11 DEF DebitToFloor, clock
  <2> QED
    BY <2>1 DEF Moved
<1>12. ASSUME NEW d \in Dep, ReturnMetering(d) PROVE \A e \in Dep : Moved(e)
  <2>1. row' = row
    BY <1>12 DEF ReturnMetering, clock
  <2> QED
    BY <2>1 DEF Moved
<1>13. ASSUME NEW d \in Dep, MeterSuspend(d) PROVE \A e \in Dep : Moved(e)
  <2>1. row[d] \in Row /\ row \in [Dep -> Row]
    BY RowOf
  <2> DEFINE r == Suspended(row[d], "balance")
  <2>2. row' = [row EXCEPT ![d] = r] \/ row' = row
    BY <1>13, <2>1 DEF MeterSuspend, Row
  <2>3. r.state = "SUSPENDED" /\ r.reason = "balance" /\ cycle.stage = "suspend" /\ d = cycle.dep
    BY <1>13, <2>1, RowFields DEF Row, MeterSuspend, At
  <2> HIDE DEF r
  <2>4. \A e \in Dep : (e # d => row'[e] = row[e]) /\ (row'[d] = r \/ row'[d] = row[d])
    BY <2>1, <2>2
  <2> QED
    BY <2>3, <2>4 DEF Moved, At
<1>14. ASSUME NEW d \in Dep, AccrueStorage(d) PROVE \A e \in Dep : Moved(e)
  <2>1. row' = row
    BY <1>14 DEF AccrueStorage, clock
  <2> QED
    BY <2>1 DEF Moved
<1>15. ASSUME NEW d \in Dep, DebitStorage(d) PROVE \A e \in Dep : Moved(e)
  <2>1. row' = row
    BY <1>15 DEF DebitStorage, clock
  <2> QED
    BY <2>1 DEF Moved
<1>16. ASSUME NEW d \in Dep, Reap(d) PROVE \A e \in Dep : Moved(e)
  <2>1. row[d] \in Row /\ row \in [Dep -> Row]
    BY RowOf
  <2> DEFINE r == Ended(row[d])
  <2>2. row' = [row EXCEPT ![d] = r] \/ row' = row
    BY <1>16, <2>1 DEF Reap, Row
  <2>3. r.state = "TERMINATED"
    BY <1>16, <2>1, RowFields DEF Row, Reap, At
  <2> HIDE DEF r
  <2>4. \A e \in Dep : (e # d => row'[e] = row[e]) /\ (row'[d] = r \/ row'[d] = row[d])
    BY <2>1, <2>2
  <2> QED
    BY <2>3, <2>4 DEF Moved, At
<1>17. ASSUME NEW d \in Dep, NEW b \in Box, BoxChanges(d, b) PROVE \A e \in Dep : Moved(e)
  <2>1. row' = row
    BY <1>17 DEF BoxChanges, clock
  <2> QED
    BY <2>1 DEF Moved
<1>18. ASSUME NEW a \in TopUps, CreditUser(a) PROVE \A e \in Dep : Moved(e)
  <2>1. row' = row
    BY <1>18 DEF CreditUser, clock
  <2> QED
    BY <2>1 DEF Moved
<1>19. CASE MeterUsage
  <2>1. row' = row
    BY <1>19 DEF MeterUsage, clock
  <2> QED
    BY <2>1 DEF Moved
<1>20. CASE MeterPodStorage
  <2>1. row' = row
    BY <1>20 DEF MeterPodStorage, clock
  <2> QED
    BY <2>1 DEF Moved
<1>21. CASE ReapExhaustedPods
  <2>1. row' = row
    BY <1>21 DEF ReapExhaustedPods, clock
  <2> QED
    BY <2>1 DEF Moved
<1>22. CASE AutoResumeOnce
  <2>1. row' = row
    BY <1>22 DEF AutoResumeOnce, clock
  <2> QED
    BY <2>1 DEF Moved
<1>23. CASE AutoResumeNext
  <2>1. Head(sweep.todo) \in Dep
    BY <1>23, HeadTailProperties DEF AutoResumeNext, OtherTypes, SoundInv
  <2>2. PICK d \in Dep : row' = row \/ row' = [row EXCEPT ![d].lease = "live"]
    BY <1>23, <2>1 DEF AutoResumeNext
  <2>3. row[d] \in Row /\ row \in [Dep -> Row]
    BY RowOf
  <2> DEFINE r == [row[d] EXCEPT !.lease = "live"]
  <2>4. row' = [row EXCEPT ![d] = r] \/ row' = row
    BY <2>3, <2>2 DEF Row
  <2>5. r.state = row[d].state /\ r.reason = row[d].reason /\ r.paused = row[d].paused
    BY <2>3 DEF Row
  <2> HIDE DEF r
  <2>6. \A e \in Dep : (e # d => row'[e] = row[e]) /\ (row'[d] = r \/ row'[d] = row[d])
    BY <2>3, <2>4
  <2> QED
    BY <2>5, <2>6 DEF Moved
<1>24. CASE Tick
  <2>1. row' = row
    BY <1>24 DEF Tick, clock
  <2> QED
    BY <2>1 DEF Moved
<1>25. CASE MeterUsageRaises
  <2>1. row' = row
    BY <1>25 DEF MeterUsageRaises, clock
  <2> QED
    BY <2>1 DEF Moved
<1>26. CASE Crash
  <2>1. row' = row
    BY <1>26 DEF Crash, clock
  <2> QED
    BY <2>1 DEF Moved
<1> QED
  BY <1>1, <1>2, <1>3, <1>4, <1>5, <1>6, <1>7, <1>8, <1>9, <1>10, <1>11, <1>12, <1>13, <1>14, <1>15, <1>16, <1>17, <1>18, <1>19, <1>20, <1>21, <1>22, <1>23, <1>24, <1>25, <1>26
     DEF Next, Work, Sweep, Usage, Storage, Report, Customer

\* No step takes a fault back.
LEMMA FaultsGrow ==
  ASSUME SoundInv, Next
  PROVE  faults \in Nat /\ faults <= faults'
<1>1. ASSUME NEW d \in Dep, ReportReady(d) PROVE faults \in Nat /\ faults <= faults'
  BY <1>1, MeteringAssumption DEF ReportReady, OtherTypes, SoundInv
<1>2. ASSUME NEW d \in Dep, SetBillableSince(d) PROVE faults \in Nat /\ faults <= faults'
  BY <1>2, MeteringAssumption DEF SetBillableSince, OtherTypes, SoundInv
<1>3. ASSUME NEW d \in Dep, Requeue(d) PROVE faults \in Nat /\ faults <= faults'
  BY <1>3, MeteringAssumption DEF Requeue, OtherTypes, SoundInv
<1>4. ASSUME NEW d \in Dep, IdleSuspend(d) PROVE faults \in Nat /\ faults <= faults'
  BY <1>4, MeteringAssumption DEF IdleSuspend, OtherTypes, SoundInv
<1>5. ASSUME NEW d \in Dep, CreateDeployment(d) PROVE faults \in Nat /\ faults <= faults'
  BY <1>5, MeteringAssumption DEF CreateDeployment, OtherTypes, SoundInv
<1>6. ASSUME NEW d \in Dep, ResumeDeployment(d) PROVE faults \in Nat /\ faults <= faults'
  BY <1>6, MeteringAssumption DEF ResumeDeployment, OtherTypes, SoundInv
<1>7. ASSUME NEW d \in Dep, Terminate(d) PROVE faults \in Nat /\ faults <= faults'
  BY <1>7, MeteringAssumption DEF Terminate, OtherTypes, SoundInv
<1>8. ASSUME NEW d \in Dep, MeterSkip(d) PROVE faults \in Nat /\ faults <= faults'
  BY <1>8, MeteringAssumption DEF MeterSkip, OtherTypes, SoundInv
<1>9. ASSUME NEW d \in Dep, StampUnbilled(d) PROVE faults \in Nat /\ faults <= faults'
  BY <1>9, MeteringAssumption DEF StampUnbilled, OtherTypes, SoundInv
<1>10. ASSUME NEW d \in Dep, AccrueMetering(d) PROVE faults \in Nat /\ faults <= faults'
  BY <1>10, MeteringAssumption DEF AccrueMetering, OtherTypes, SoundInv
<1>11. ASSUME NEW d \in Dep, DebitToFloor(d) PROVE faults \in Nat /\ faults <= faults'
  BY <1>11, MeteringAssumption DEF DebitToFloor, OtherTypes, SoundInv
<1>12. ASSUME NEW d \in Dep, ReturnMetering(d) PROVE faults \in Nat /\ faults <= faults'
  BY <1>12, MeteringAssumption DEF ReturnMetering, OtherTypes, SoundInv
<1>13. ASSUME NEW d \in Dep, MeterSuspend(d) PROVE faults \in Nat /\ faults <= faults'
  BY <1>13, MeteringAssumption DEF MeterSuspend, OtherTypes, SoundInv
<1>14. ASSUME NEW d \in Dep, AccrueStorage(d) PROVE faults \in Nat /\ faults <= faults'
  BY <1>14, MeteringAssumption DEF AccrueStorage, OtherTypes, SoundInv
<1>15. ASSUME NEW d \in Dep, DebitStorage(d) PROVE faults \in Nat /\ faults <= faults'
  BY <1>15, MeteringAssumption DEF DebitStorage, OtherTypes, SoundInv
<1>16. ASSUME NEW d \in Dep, Reap(d) PROVE faults \in Nat /\ faults <= faults'
  BY <1>16, MeteringAssumption DEF Reap, OtherTypes, SoundInv
<1>17. ASSUME NEW d \in Dep, NEW b \in Box, BoxChanges(d, b) PROVE faults \in Nat /\ faults <= faults'
  BY <1>17, MeteringAssumption DEF BoxChanges, OtherTypes, SoundInv
<1>18. ASSUME NEW a \in TopUps, CreditUser(a) PROVE faults \in Nat /\ faults <= faults'
  BY <1>18, MeteringAssumption DEF CreditUser, OtherTypes, SoundInv
<1>19. CASE MeterUsage
  BY <1>19, MeteringAssumption DEF MeterUsage, OtherTypes, SoundInv
<1>20. CASE MeterPodStorage
  BY <1>20, MeteringAssumption DEF MeterPodStorage, OtherTypes, SoundInv
<1>21. CASE ReapExhaustedPods
  BY <1>21, MeteringAssumption DEF ReapExhaustedPods, OtherTypes, SoundInv
<1>22. CASE AutoResumeOnce
  BY <1>22, MeteringAssumption DEF AutoResumeOnce, OtherTypes, SoundInv
<1>23. CASE AutoResumeNext
  BY <1>23, MeteringAssumption DEF AutoResumeNext, OtherTypes, SoundInv
<1>24. CASE Tick
  BY <1>24, MeteringAssumption DEF Tick, OtherTypes, SoundInv
<1>25. CASE MeterUsageRaises
  BY <1>25, MeteringAssumption DEF MeterUsageRaises, OtherTypes, SoundInv
<1>26. CASE Crash
  BY <1>26, MeteringAssumption DEF Crash, OtherTypes, SoundInv
<1> QED
  BY <1>1, <1>2, <1>3, <1>4, <1>5, <1>6, <1>7, <1>8, <1>9, <1>10, <1>11, <1>12, <1>13, <1>14, <1>15, <1>16, <1>17, <1>18, <1>19, <1>20, <1>21, <1>22, <1>23, <1>24, <1>25, <1>26
     DEF Next, Work, Sweep, Usage, Storage, Report, Customer

\* A cycle lists what is READY when it starts, and nothing later.
LEMMA ListedSteps ==
  ASSUME SoundInv, Next, NEW d \in Dep, d \in Listed'
  PROVE  d \in Listed \/ row'[d].state = "READY"
<1>1. CASE Quiet
  BY <1>1 DEF Quiet
<1>2. CASE MeterUsage
  BY <1>2 DEF MeterUsage, Listed, Resting, InState
<1>3. CASE Tick
  BY <1>3 DEF Tick, Listed
<1>4. CASE Crash
  BY <1>4 DEF Crash, Listed, Resting
<1>5. CASE \E e \in Dep : SetBillableSince(e)
  BY <1>5 DEF SetBillableSince, Listed
<1>6. ASSUME NEW e \in Dep, StampUnbilled(e) PROVE d \in Listed
  <2>1. cycle' = Drop(e) /\ cycle.stage = "usage"
    BY <1>6 DEF StampUnbilled, At
  <2>2. cycle'.todo = cycle.todo \ {e} /\ cycle'.dep = NoDep /\ cycle'.stage = "usage" /\ cycle.dep = NoDep
    BY <2>1, CycleOf, CycleFields
  <2> QED
    BY <2>1, <2>2 DEF Listed
<1>7. ASSUME NEW e \in Dep, AccrueMetering(e) PROVE d \in Listed
  <2>1. /\ cycle'.todo \subseteq cycle.todo /\ cycle.stage = "usage" /\ cycle.dep = NoDep
    BY <1>7, CycleOf, CycleFields DEF AccrueMetering, At, Cycle
  <2>2. d \in cycle'.todo /\ d # NoDep
    BY MeteringAssumption DEF Listed
  <2> QED
    BY <2>1, <2>2 DEF Listed
<1> QED
  BY <1>1, <1>2, <1>3, <1>4, <1>5, <1>6, <1>7, QuietSteps DEF Counted

\* What ends up in the two stages of the shortfall, and in the two about the deadline.
LEMMA StageSteps ==
  ASSUME SoundInv, Next
  PROVE  /\ cycle'.stage = "return" => cycle' = cycle \/ \E d \in Dep : DebitToFloor(d)
         /\ cycle'.stage = "suspend" => cycle' = cycle \/ \E d \in Dep : ReturnMetering(d)
         /\ cycle'.stage \in {"reap", "idle"} => cycle' = cycle \/ ReapExhaustedPods \/ Crash \/ \E d \in Dep : Reap(d)

<1>1. CASE cycle' = cycle \/ ReapExhaustedPods \/ Crash \/ \E d \in Dep : Reap(d) \/ DebitToFloor(d) \/ ReturnMetering(d)
  <2>1. ASSUME NEW d \in Dep, DebitToFloor(d) PROVE cycle'.stage \in {"return", "usage"}
    BY <2>1, CycleOf, CycleFields DEF DebitToFloor, Cycle
  <2>2. ASSUME NEW d \in Dep, ReturnMetering(d) PROVE cycle'.stage = "suspend"
    BY <2>2, CycleOf DEF ReturnMetering, Cycle
  <2>3. ASSUME NEW d \in Dep, Reap(d) PROVE cycle'.stage \in {"reap", "idle"}
    BY <2>3, CycleOf, CycleFields DEF Reap, At
  <2>4. ReapExhaustedPods => cycle'.stage \in {"reap", "idle"}
    BY CycleOf, CycleFields DEF ReapExhaustedPods, Cycle
  <2>5. Crash => cycle'.stage = "idle"
    BY CycleFields DEF Crash, Resting
  <2> QED
    BY <1>1, <2>1, <2>2, <2>3, <2>4, <2>5
<1>2. CASE MeterUsage \/ MeterPodStorage \/ MeterUsageRaises
  BY <1>2 DEF MeterUsage, MeterPodStorage, MeterUsageRaises, Resting
<1>3. ASSUME NEW d \in Dep, MeterSkip(d) \/ StampUnbilled(d) \/ AccrueMetering(d) \/ MeterSuspend(d) \/ Storage(d)
      PROVE  cycle'.stage \in {"usage", "debit", "storage"}
  <2>1. CASE MeterSkip(d)
    BY <2>1, CycleOf, CycleFields DEF MeterSkip, At, Cycle
  <2>2. CASE StampUnbilled(d)
    BY <2>2, CycleOf, CycleFields DEF StampUnbilled, At, Cycle
  <2>3. CASE AccrueMetering(d)
    BY <2>3, CycleOf, CycleFields DEF AccrueMetering, At, Cycle
  <2>4. CASE MeterSuspend(d)
    BY <2>4, CycleOf, CycleFields DEF MeterSuspend, At, Cycle
  <2>5. CASE AccrueStorage(d)
    BY <2>5, CycleOf, CycleFields DEF AccrueStorage, At, Cycle
  <2>6. CASE DebitStorage(d)
    BY <2>6, CycleOf, CycleFields DEF DebitStorage, At, Cycle
  <2> QED
    BY <1>3, <2>1, <2>2, <2>3, <2>4, <2>5, <2>6 DEF Storage
<1>4. \/ cycle' = cycle \/ ReapExhaustedPods \/ Crash \/ MeterUsage \/ MeterPodStorage \/ MeterUsageRaises
      \/ \E d \in Dep : \/ Reap(d) \/ DebitToFloor(d) \/ ReturnMetering(d)
                       \/ MeterSkip(d) \/ StampUnbilled(d) \/ AccrueMetering(d) \/ MeterSuspend(d) \/ Storage(d)
  BY DEF Next, Work, Sweep, Usage, Report, Customer, ReportReady, SetBillableSince, Requeue, IdleSuspend, CreateDeployment, ResumeDeployment, Terminate, BoxChanges, CreditUser, AutoResumeOnce, AutoResumeNext, Tick
<1> QED
  BY <1>1, <1>2, <1>3, <1>4

\* Only an accrual takes from an accumulator, and only from one that is listed.
LEMMA RemSteps ==
  ASSUME SoundInv, Next, NEW d \in Dep
  PROVE  rem[d] \in Nat /\ rem'[d] \in Nat /\ (rem'[d] >= rem[d] \/ (d \in Listed /\ At("usage")))
<1>1. rem \in [Dep -> Nat] /\ cycle \in Cycle
  BY DEF SoundInv, MoneyType
<1>2. (rem \in [Dep -> Nat])'
  BY SoundInvKept DEF SoundInv, MoneyType
<1>3. ASSUME NEW e \in Dep, AccrueMetering(e) PROVE rem'[d] = rem[d] \/ (d \in Listed /\ At("usage"))
  <2>1. e \in Listed /\ At("usage")
    BY <1>3, MeteringAssumption DEF AccrueMetering, At, Listed
  <2>2. d # e => rem'[d] = rem[d]
    BY <1>1, <1>3 DEF AccrueMetering
  <2> QED
    BY <2>1, <2>2
<1>4. ASSUME NEW e \in Dep, ReturnMetering(e) PROVE rem'[d] >= rem[d]
  <2>1. cycle.amount * Cent \in Nat
    BY <1>1, MeteringAssumption DEF Cycle
  <2> DEFINE n == cycle.amount * Cent
  <2>2. rem' = [rem EXCEPT ![e] = @ + n]
    BY <1>4 DEF ReturnMetering
  <2> HIDE DEF n
  <2>3. n \in Nat
    BY <2>1 DEF n
  <2> QED
    BY <1>1, <2>2, <2>3
<1>5. CASE UNCHANGED rem
  BY <1>1, <1>5
<1>6. UNCHANGED rem \/ \E e \in Dep : AccrueMetering(e) \/ ReturnMetering(e)
  <2>1. CASE Aside
    BY <2>1, AsideStep DEF SoundInv
  <2>2. CASE Between
    BY <2>2, BetweenStep DEF SoundInv, NoCentsMove
  <2>3. CASE MeterUsageRaises \/ Crash \/ \E e \in Dep : DebitToFloor(e)
    BY <2>3 DEF MeterUsageRaises, Crash, DebitToFloor
  <2> QED
    BY <2>1, <2>2, <2>3 DEF Next, Work, Usage, Aside, Between
<1> QED
  BY <1>1, <1>2, <1>3, <1>4, <1>5, <1>6

\* A shortfall goes back before the suspension, and a listed deployment is not suspended.
LEMMA ShortfallKept ==
  ASSUME SoundInv, ShortfallReturned, Next
  PROVE  ShortfallReturned'
<1>1. cycle'.stage = "return" => cycle'.amount >= 1
  <2>1. ASSUME NEW d \in Dep, DebitToFloor(d), cycle'.stage = "return" PROVE cycle'.amount >= 1
    <3>1. cycle \in Cycle /\ cycle.amount \in Nat /\ Take(cycle.amount) \in Nat
      BY TakeBounds DEF SoundInv, MoneyType, Cycle
    <3>2. DropTo("usage", d).stage = "usage"
      BY <3>1, CycleFields
    <3>3. Take(cycle.amount) < cycle.amount /\ cycle' = [cycle EXCEPT !.stage = "return", !.amount = @ - Take(@)]
      BY <2>1, <3>2 DEF DebitToFloor
    <3>4. cycle'.amount = cycle.amount - Take(cycle.amount)
      BY <3>1, <3>3 DEF Cycle
    <3> QED
      BY <3>1, <3>3, <3>4
  <2> QED
    BY <2>1, StageSteps DEF ShortfallReturned
<1>2. cycle'.stage = "suspend" => cycle'.dep \in Dep /\ rem'[cycle'.dep] >= Cent
  <2>1. ASSUME NEW d \in Dep, ReturnMetering(d) PROVE cycle'.dep \in Dep /\ rem'[cycle'.dep] >= Cent
    <3>1. cycle \in Cycle /\ rem \in [Dep -> Nat] /\ cycle.amount \in Nat /\ cycle.amount >= 1 /\ cycle.dep = d
      BY <2>1 DEF SoundInv, MoneyType, Cycle, ReturnMetering, At, ShortfallReturned
    <3>2. cycle'.dep = d
      BY <2>1, <3>1 DEF ReturnMetering, Cycle
    <3>3. cycle.amount * Cent >= Cent /\ cycle.amount * Cent \in Nat
      BY <3>1, MeteringAssumption, Grows
    <3> DEFINE n == cycle.amount * Cent
    <3>4. rem' = [rem EXCEPT ![d] = @ + n]
      BY <2>1 DEF ReturnMetering
    <3>5. n \in Nat /\ n >= Cent
      BY <3>3
    <3> HIDE DEF n
    <3> QED
      BY <3>1, <3>2, <3>4, <3>5, MeteringAssumption
  <2>2. ASSUME cycle' = cycle, cycle'.stage = "suspend" PROVE cycle'.dep \in Dep /\ rem'[cycle'.dep] >= Cent
    <3>1. cycle.dep \in Dep /\ rem[cycle.dep] >= Cent /\ ~At("usage")
      BY <2>2 DEF ShortfallReturned, At
    <3> QED
      BY <2>2, <3>1, RemSteps, MeteringAssumption
  <2> QED
    BY <2>1, <2>2, StageSteps
<1>3. ASSUME NEW d \in Listed' PROVE row'[d].state \in {"READY", "TERMINATED"}
  <2>1. d \in Dep
    <3>1. (cycle \in Cycle)'
      BY SoundInvKept DEF SoundInv, MoneyType
    <3> QED
      BY <1>3, <3>1 DEF Listed, Cycle
  <2>2. CASE d \in Listed
    <3>1. row[d].state \in {"READY", "TERMINATED"} /\ cycle.stage # "idle" /\ d # cycle.dep
      BY <2>2 DEF ShortfallReturned, Listed
    <3> QED
      BY <2>1, <3>1, RowSteps DEF Moved, At
  <2> QED
    BY <1>3, <2>1, <2>2, ListedSteps
<1> QED
  BY <1>1, <1>2, <1>3 DEF ShortfallReturned

\* What is suspended for its balance owes at least a cent.
LEMMA OwesKept ==
  ASSUME SoundInv, ShortfallReturned, SuspendedOwes, Next
  PROVE  SuspendedOwes'
<1> SUFFICES ASSUME NEW d \in Dep, row'[d].state = "SUSPENDED", row'[d].reason = "balance" PROVE rem'[d] >= Cent
  BY DEF SuspendedOwes
<1>1. rem[d] >= Cent /\ ~(d \in Listed /\ At("usage"))
  <2>1. CASE row[d].state = "SUSPENDED" /\ row[d].reason = "balance"
    BY <2>1 DEF SuspendedOwes, ShortfallReturned
  <2>2. CASE At("suspend") /\ d = cycle.dep
    BY <2>2 DEF ShortfallReturned, At
  <2> QED
    BY <2>1, <2>2, RowSteps DEF Moved
<1> QED
  BY <1>1, RemSteps, MeteringAssumption

\* What is late when the reaper lists stays on its list until it is ended.
LEMMA LateKept ==
  ASSUME SoundInv, LateIsListed, Next
  PROVE  LateIsListed'
<1> SUFFICES ASSUME faults' = 0, cycle'.stage \in {"reap", "idle"}, NEW d \in Rental, d \in Dep, row'[d].state = "SUSPENDED"
             PROVE  metered' - row'[d].paused < Deadline(d) \/ (cycle'.stage = "reap" /\ d \in cycle'.todo)
  BY DEF LateIsListed, InState
<1>1. /\ metered \in Nat /\ now \in Nat /\ metered <= now /\ row[d].paused \in Int /\ Deadline(d) \in Nat /\ faults \in Nat /\ cycle \in Cycle
  BY RowOf, MeteringAssumption DEF Deadline, SoundInv, OtherTypes
<1>2. ~Crash
  BY <1>1 DEF Crash
<1>3. cycle.stage \in {"reap", "idle", "storage"} /\ ~At("suspend") /\ metered' = metered
  <2>1. CASE cycle' = cycle
    <3>1. cycle.stage \in {"reap", "idle"} /\ ~MeterUsage
      BY <2>1 DEF MeterUsage, At, Resting
    <3>2. metered' = metered
      <4>1. CASE Aside
        BY <4>1, AsideStep DEF SoundInv
      <4>2. CASE ~Aside
        BY <1>2, <3>1, <4>2 DEF Next, Work, Usage, Storage, Aside, clock, MeterPodStorage, ReapExhaustedPods, MeterSkip, StampUnbilled,
           AccrueMetering, DebitToFloor, ReturnMetering, MeterSuspend, AccrueStorage, DebitStorage, Reap, MeterUsageRaises
      <4> QED
        BY <4>1, <4>2
    <3> QED
      BY <3>1, <3>2 DEF At
  <2>2. CASE ReapExhaustedPods \/ \E e \in Dep : Reap(e)
    BY <2>2 DEF ReapExhaustedPods, Reap, At, clock
  <2> QED
    BY <1>2, <2>1, <2>2, StageSteps
<1>4. row[d].state = "SUSPENDED" /\ row'[d].paused = row[d].paused
  BY <1>3, RowSteps DEF Moved
<1>5. faults = 0
  BY <1>1, FaultsGrow
<1>6. CASE cycle' = cycle
  BY <1>3, <1>4, <1>5, <1>6 DEF LateIsListed, InState, Deadline
<1>7. CASE ReapExhaustedPods
  <2> DEFINE late == {e \in InState("SUSPENDED") \cap Rental : Expired(e)}
  <2>1. cycle' = IF late = {} THEN Resting ELSE [cycle EXCEPT !.stage = "reap", !.todo = late]
    BY <1>7 DEF ReapExhaustedPods
  <2>2. CASE d \in late
    <3>1. cycle' = [cycle EXCEPT !.stage = "reap", !.todo = late]
      BY <2>1, <2>2
    <3>2. cycle'.stage = "reap" /\ cycle'.todo = late
      BY <1>1, <3>1 DEF Cycle
    <3> QED
      BY <2>2, <3>2
  <2>3. CASE d \notin late
    <3>1. ~Expired(d)
      BY <1>4, <2>3 DEF InState
    <3> QED
      BY <1>1, <1>3, <1>4, <3>1 DEF Expired
  <2> QED
    BY <2>2, <2>3
<1>8. ASSUME NEW e \in Dep, Reap(e) PROVE metered - row[d].paused < Deadline(d) \/ (cycle'.stage = "reap" /\ d \in cycle'.todo)
  <2>1. metered - row[d].paused < Deadline(d) \/ d \in cycle.todo
    BY <1>4, <1>5, <1>8 DEF LateIsListed, InState, Reap, At
  <2>2. d # e
    <3>1. row'[e].state = "TERMINATED"
      <4>1. row \in [Dep -> Row] /\ row[e] \in Row
        BY RowOf
      <4> QED
        BY <1>8, <4>1, RowFields DEF Reap
    <3> QED
      BY <3>1
  <2>3. d \in cycle.todo => cycle' = Drop(e) /\ cycle.stage = "reap"
    BY <1>8, <2>2 DEF Reap, At
  <2>4. Drop(e).stage = cycle.stage /\ Drop(e).todo = cycle.todo \ {e}
    BY <1>1, CycleFields
  <2>5. d \in cycle.todo => cycle'.stage = "reap" /\ d \in cycle'.todo
    BY <2>2, <2>3, <2>4
  <2> QED
    BY <2>1, <2>5
<1> QED
  BY <1>2, <1>3, <1>4, <1>6, <1>7, <1>8, StageSteps DEF Deadline

\* The types of the runs follow from those of the proofs.
LEMMA TypesAreSound ==
  SoundInv => TypeOK
<1> SUFFICES ASSUME SoundInv PROVE TypeOK
  OBVIOUS
<1>1. now \in Clock /\ metered \in Clock /\ balance \in Int /\ cycle.at \in Clock
  BY MeteringAssumption DEF SoundInv, MoneyType, TimesArePast, Clock, Cycle
<1>2. ASSUME NEW d \in Dep
      PROVE  row[d] \in [state : State, reason : {"none", "balance", "idle"}, lease : {"none", "live", "suspended", "terminated"},
                         since : Clock \cup {Never}, paused : Clock \cup {Never}]
  <2>1. row[d] \in Row
    BY <1>2, RowOf
  <2>2. row[d].since \in Clock \cup {Never} /\ row[d].paused \in Clock \cup {Never}
    BY <1>1, <1>2, RowOf, CycleOf DEF Clock, Never
  <2> QED
    BY <2>1, <2>2 DEF Row
<1>3. row \in [Dep -> [state : State, reason : {"none", "balance", "idle"}, lease : {"none", "live", "suspended", "terminated"},
                       since : Clock \cup {Never}, paused : Clock \cup {Never}]]
  BY <1>2 DEF SoundInv, MoneyType
<1>4. cycle \in [stage : {"idle", "usage", "debit", "return", "suspend", "storage", "reap"},
                 todo : SUBSET Dep, at : Clock, elapsed : Nat, dep : Dep \cup {NoDep}, amount : Nat]
  BY <1>1 DEF SoundInv, MoneyType, Cycle, Stage
<1>5. sweep.todo \in Seq(Dep) /\ sweep.committed \in Nat
  BY DEF SoundInv, OtherTypes
<1> QED
  BY <1>1, <1>3, <1>4, <1>5 DEF TypeOK, SoundInv, MoneyType, OtherTypes

\* meter_usage, meter_pod_storage and reap_exhausted_pods: a deployment is suspended for its balance
\* only with a cent it owes on its accumulator, and the first cycle after its deadline ends it, for
\* any deployments, rates, deadlines and orders of what customers, miners and sweeps do between.
THEOREM SuspensionSoundHolds == Spec => []SuspensionSound
<1> DEFINE SuspInv == SoundInv /\ ShortfallReturned /\ SuspendedOwes /\ LateIsListed
<1>1. Init => SuspInv
  <2> SUFFICES ASSUME Init PROVE SuspInv
    OBVIOUS
  <2>1. ShortfallReturned /\ SuspendedOwes /\ LateIsListed
    BY DEF Init, ShortfallReturned, SuspendedOwes, LateIsListed, Listed, Resting, InState, NoRow
  <2> QED
    BY <2>1, SoundInvInit
<1>2. SuspInv /\ [Next]_vars => SuspInv'
  <2>1. ASSUME SuspInv, Next PROVE SuspInv'
    BY <2>1, SoundInvKept, ShortfallKept, OwesKept, LateKept
  <2>2. ASSUME SuspInv, UNCHANGED vars PROVE SuspInv'
    <3>1. SoundInv'
      BY <2>2, SoundInvKept
    <3>2. (ShortfallReturned /\ SuspendedOwes /\ LateIsListed)'
      BY <2>2 DEF vars, ShortfallReturned, SuspendedOwes, LateIsListed, Listed, InState, Deadline
    <3> QED
      BY <3>1, <3>2
  <2> QED
    BY <2>1, <2>2
<1>3. SuspInv => SuspensionSound
  <2>1. SuspInv => TypeOK /\ SuspendedOwes
    BY TypesAreSound
  <2>2. SuspInv => ReapedWhenDue
    BY DEF LateIsListed, ReapedWhenDue, At
  <2> QED
    BY <2>1, <2>2 DEF SuspensionSound
<1> HIDE DEF SuspInv
<1> QED
  BY <1>1, <1>2, <1>3, PTL DEF Spec

=============================================================================
