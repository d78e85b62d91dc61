------------------------------- MODULE Metering -------------------------------
(***************************************************************************)
(* A customer's money: the hourly meter, the charge for saved pods, the    *)
(* reaper of suspended pods and the auto-resume after a top-up.            *)
(*                                                                         *)
(* The worker's metering cycle is a sequence of transactions (accrue on    *)
(* the deployment, debit the customer, carry the shortfall back, suspend)  *)
(* with miners' reports, top-ups, resumes and a second sweep in the        *)
(* gateway in between.  Time is counted in ticks, money that is not yet a  *)
(* whole cent in parts of a cent.  ControlPlane has the placement; here a  *)
(* deployment that is not up yet is STARTING.                              *)
(***************************************************************************)
EXTENDS Integers, FiniteSets, SequencesExt, Totals

CONSTANTS
  Dep,            \* the customer's deployments
  Rental,         \* pods and VMs; the others are private models
  Saved,          \* rentals with save_on_exhaustion
  AutoResume,     \* deployments with resume_on_topup
  HourlyCents,    \* [Dep -> Nat]: hourly_rate_cents times the GPUs
  Cent,           \* parts per cent (1000 millicents)
  TicksPerHour,
  StorageParts,   \* storage_mcents_per_minute, charged once per cycle
  Retention,      \* pod_saved_retention_days, in ticks
  Grace,          \* pod_unsaved_grace_minutes, in ticks
  MaxCycle,       \* the longest cycle that is charged in full (one hour)
  TopUps,         \* amounts a top-up may have
  MaxTime,        \* bound on the clock
  MaxCredit,      \* bound on the money paid in
  MaxFaults,      \* bound on crashes, failed cycles and machines that go silent or full
  ReportsBesideMeter, \* may a cycle list a row whose billable_since is not written yet?
  NoDep

ASSUME MeteringAssumption ==
  /\ IsFiniteSet(Dep) /\ NoDep \notin Dep
  /\ Rental \subseteq Dep /\ Saved \subseteq Rental /\ AutoResume \subseteq Dep
  /\ HourlyCents \in [Dep -> Nat]
  /\ Cent \in Nat \ {0} /\ TicksPerHour \in Nat \ {0} /\ StorageParts \in Nat
  /\ Retention \in Nat /\ Grace \in Nat /\ MaxCycle \in Nat
  /\ TopUps \subseteq Nat /\ MaxTime \in Nat /\ MaxCredit \in Nat /\ MaxFaults \in Nat
  /\ ReportsBesideMeter \in BOOLEAN

VARIABLES
  now, metered,   \* the clock; _last_metered_at
  balance,        \* users.balance_credits
  row,            \* [state, reason, lease, since, paused] of each deployment
  rem, srem,      \* metering_remainder_mcents, storage_remainder_mcents
  box,            \* the machine: "ok", "silent", or "full" for a resume
  stamping,       \* saved READY, set_billable_since still to come
  cycle,          \* the worker: [stage, todo, at, elapsed, dep, amount]
  sweep,          \* auto_resume_once: [todo, committed]
  used,           \* history: ticks spent READY
  accrued,        \* history: parts the meter has accrued
  paid,           \* history: cents debited for usage
  credited, faults,
  lost            \* history: deployments with cents in flight when a cycle died

vars == <<now, metered, balance, row, rem, srem, box, stamping, cycle, sweep,
          used, accrued, paid, credited, faults, lost>>
ledger == <<balance, rem, srem, accrued, paid, credited, lost>>
clock == <<now, metered, used>>

Never == -1
State == {"absent", "STARTING", "READY", "SUSPENDED", "TERMINATED"}
Resting == [stage |-> "idle", todo |-> {}, at |-> 0, elapsed |-> 0, dep |-> NoDep, amount |-> 0]
NoSweep == [todo |-> <<>>, committed |-> 0]
Box == {"ok", "silent", "full"}
NoRow == [state |-> "absent", reason |-> "none", lease |-> "none", since |-> Never, paused |-> Never]
AtMost(a, b) == IF a <= b THEN a ELSE b
AtLeast(a, b) == IF a >= b THEN a ELSE b
At(stage) == cycle.stage = stage
InState(s) == {d \in Dep : row[d].state = s}

Init ==
  /\ now = 0 /\ metered = 0 /\ balance = 0 /\ credited = 0 /\ faults = 0 /\ lost = {}
  /\ row = [d \in Dep |-> NoRow]
  /\ rem = [d \in Dep |-> 0] /\ srem = [d \in Dep |-> 0]
  /\ box = [d \in Dep |-> "ok"]
  /\ stamping = {} /\ cycle = Resting /\ sweep = NoSweep
  /\ used = [d \in Dep |-> 0] /\ accrued = [d \in Dep |-> 0] /\ paid = [d \in Dep |-> 0]

(***************************************************************************)
(* What update_deployment_status does to the fields the money depends on.  *)
(***************************************************************************)

Suspended(r, why) ==
  [r EXCEPT !.state = "SUSPENDED", !.reason = why, !.lease = "suspended",
            !.paused = IF @ = Never THEN now ELSE @]
Ended(r) == [r EXCEPT !.state = "TERMINATED", !.lease = "terminated"]

\* A miner reports READY once the lease lets it run; set_billable_since is a
\* transaction of its own.
ReportReady(d) ==
  /\ row[d].state \in {"STARTING", "SUSPENDED"} /\ row[d].lease = "live"
  /\ row' = [row EXCEPT ![d] = [@ EXCEPT !.state = "READY", !.reason = "none",
                                         !.lease = "live", !.paused = Never]]
  /\ stamping' = stamping \cup {d}
  /\ UNCHANGED <<ledger, clock, box, cycle, sweep, faults>>

SetBillableSince(d) ==
  /\ d \in stamping
  /\ row' = [row EXCEPT ![d].since = now]
  /\ stamping' = stamping \ {d}
  /\ UNCHANGED <<ledger, clock, box, cycle, sweep, faults>>

\* process_unhealthy_miners moves a READY model to another machine.  The
\* worker runs it, and the idle sweep, before the meter, never beside it.
Requeue(d) ==
  /\ At("idle") /\ row[d].state = "READY" /\ d \notin Rental
  /\ row' = [row EXCEPT ![d].state = "STARTING"]
  /\ UNCHANGED <<ledger, clock, box, stamping, cycle, sweep, faults>>

\* process_idle_inference_deployments.
IdleSuspend(d) ==
  /\ At("idle") /\ row[d].state = "READY" /\ d \notin Rental
  /\ row' = [row EXCEPT ![d] = Suspended(@, "idle")]
  /\ UNCHANGED <<ledger, clock, box, stamping, cycle, sweep, faults>>

(***************************************************************************)
(* The customer.                                                           *)
(***************************************************************************)

CreditUser(a) ==
  /\ credited + a <= MaxCredit
  /\ balance' = balance + a
  /\ credited' = credited + a
  /\ UNCHANGED <<rem, srem, accrued, paid, lost, clock, row, box, stamping, cycle, sweep, faults>>

\* The gateway asks for an hour of credit before it creates a deployment ...
CreateDeployment(d) ==
  /\ row[d].state = "absent"
  /\ balance >= HourlyCents[d]
  /\ row' = [row EXCEPT ![d].state = "STARTING", ![d].lease = "live"]
  /\ UNCHANGED <<ledger, clock, box, stamping, cycle, sweep, faults>>

\* ... and before it resumes one; the row stays SUSPENDED until READY.
Resumable(d) ==
  row[d].state = "SUSPENDED" /\ balance >= HourlyCents[d] /\ box[d] # "full"
ResumeDeployment(d) ==
  /\ Resumable(d) /\ row[d].lease # "live"
  /\ row' = [row EXCEPT ![d].lease = "live"]
  /\ UNCHANGED <<ledger, clock, box, stamping, cycle, sweep, faults>>

\* The customer, the runtime cap (stop_expired_runtimes) or a key's limits.
Terminate(d) ==
  /\ row[d].state \in {"STARTING", "READY", "SUSPENDED"}
  /\ row' = [row EXCEPT ![d] = Ended(@)]
  /\ UNCHANGED <<ledger, clock, box, stamping, cycle, sweep, faults>>

(***************************************************************************)
(* The metering cycle.                                                     *)
(***************************************************************************)

Drop(d) == [cycle EXCEPT !.todo = @ \ {d}, !.dep = NoDep, !.amount = 0]
DropTo(stage, d) == [Drop(d) EXCEPT !.stage = stage]

MeterUsage ==
  /\ At("idle") /\ now > metered
  /\ ReportsBesideMeter \/ stamping = {}
  /\ cycle' = [Resting EXCEPT !.stage = "usage", !.todo = InState("READY"),
                              !.at = now, !.elapsed = AtMost(now - metered, MaxCycle)]
  /\ metered' = now
  /\ UNCHANGED <<ledger, now, used, row, box, stamping, sweep, faults>>

\* _box_silent: nothing is billed while the machine does not report.
MeterSkip(d) ==
  /\ At("usage") /\ d \in cycle.todo /\ box[d] = "silent"
  /\ cycle' = Drop(d)
  /\ UNCHANGED <<ledger, clock, row, box, stamping, sweep, faults>>

\* Mutant of BilledTicks: the whole cycle, whenever the deployment came up.
BilledWholeCycle(d) == cycle.elapsed

BilledTicks(d) ==
  IF row[d].since = Never THEN cycle.elapsed
  ELSE AtMost(cycle.elapsed, AtLeast(0, cycle.at - row[d].since))

\* Parts of a cent for some ticks: round() is to the nearest, ties to even.
Parts(d, ticks) ==
  LET n == HourlyCents[d] * Cent * ticks
      q == n \div TicksPerHour
      r == 2 * (n % TicksPerHour)
  IN IF r > TicksPerHour \/ (r = TicksPerHour /\ q % 2 = 1) THEN q + 1 ELSE q

\* accrue_metering takes the whole cents off the accumulator.
AccrueMetering(d) ==
  /\ At("usage") /\ d \in cycle.todo /\ cycle.dep = NoDep /\ box[d] # "silent"
  /\ row[d].since # Never \/ d \in Rental
  /\ LET parts == Parts(d, BilledTicks(d))
         whole == (rem[d] + parts) \div Cent
     IN /\ rem' = [rem EXCEPT ![d] = (@ + parts) % Cent]
        /\ accrued' = [accrued EXCEPT ![d] = @ + parts]
        /\ cycle' = IF whole > 0 THEN [cycle EXCEPT !.stage = "debit", !.dep = d, !.amount = whole]
                    ELSE Drop(d)
  /\ UNCHANGED <<balance, srem, paid, credited, lost, clock, row, box, stamping, sweep, faults>>

\* A model older than hourly billing starts to pay now.
StampUnbilled(d) ==
  /\ At("usage") /\ d \in cycle.todo /\ box[d] # "silent"
  /\ row[d].since = Never /\ d \notin Rental
  /\ row' = [row EXCEPT ![d].since = cycle.at]
  /\ cycle' = Drop(d)
  /\ UNCHANGED <<ledger, clock, box, stamping, sweep, faults>>

\* Mutant of Take: the debit ignores the floor.
TakeAll(amount) == amount

\* debit_user_to_floor: never below zero, and nothing from a negative balance.
Take(amount) == AtMost(amount, AtLeast(0, balance))

DebitToFloor(d) ==
  /\ At("debit") /\ d = cycle.dep
  /\ balance' = balance - Take(cycle.amount)
  /\ paid' = [paid EXCEPT ![d] = @ + Take(cycle.amount)]
  /\ cycle' = IF Take(cycle.amount) < cycle.amount
              THEN [cycle EXCEPT !.stage = "return", !.amount = @ - Take(@)]
              ELSE DropTo("usage", d)
  /\ UNCHANGED <<rem, srem, accrued, credited, lost, clock, row, box, stamping, sweep, faults>>

\* Mutant of ReturnMetering: the shortfall is forgotten.
ReturnNothing(d) ==
  /\ At("return") /\ d = cycle.dep
  /\ cycle' = [cycle EXCEPT !.stage = "suspend", !.amount = 0]
  /\ UNCHANGED <<ledger, clock, row, box, stamping, sweep, faults>>

\* return_metering_mcents carries the shortfall back onto the deployment ...
ReturnMetering(d) ==
  /\ At("return") /\ d = cycle.dep
  /\ rem' = [rem EXCEPT ![d] = @ + cycle.amount * Cent]
  /\ cycle' = [cycle EXCEPT !.stage = "suspend", !.amount = 0]
  /\ UNCHANGED <<balance, srem, accrued, paid, credited, lost, clock, row, box, stamping, sweep, faults>>

\* ... and then it is suspended; a row that left READY meanwhile refuses.
MeterSuspend(d) ==
  /\ At("suspend") /\ d = cycle.dep
  /\ row' = IF row[d].state \in {"READY", "SUSPENDED"}
            THEN [row EXCEPT ![d] = Suspended(@, "balance")] ELSE row
  /\ cycle' = DropTo("usage", d)
  /\ UNCHANGED <<ledger, clock, box, stamping, sweep, faults>>

AtRisk == IF cycle.stage \in {"debit", "return"} THEN {cycle.dep} ELSE {}
\* The database fails: meter_usage raises, the worker logs it and goes on.
MeterUsageRaises ==
  /\ cycle.stage \in {"usage", "debit"} /\ faults < MaxFaults
  /\ cycle' = [Resting EXCEPT !.stage = "usage", !.at = cycle.at, !.elapsed = cycle.elapsed]
  /\ faults' = faults + 1 /\ lost' = lost \cup AtRisk
  /\ UNCHANGED <<balance, rem, srem, accrued, paid, credited, clock, row, box, stamping, sweep>>

\* meter_pod_storage follows when the usage list is done.
MeterPodStorage ==
  /\ At("usage") /\ cycle.todo = {}
  /\ cycle' = [Resting EXCEPT !.stage = "storage", !.todo = InState("SUSPENDED") \cap Saved]
  /\ UNCHANGED <<ledger, clock, row, box, stamping, sweep, faults>>

AccrueStorage(d) ==
  /\ At("storage") /\ d \in cycle.todo /\ cycle.dep = NoDep
  /\ LET total == srem[d] + StorageParts
         whole == total \div Cent
     IN /\ srem' = [srem EXCEPT ![d] = total % Cent]
        /\ cycle' = IF whole > 0 THEN [cycle EXCEPT !.dep = d, !.amount = whole] ELSE Drop(d)
  /\ UNCHANGED <<balance, rem, accrued, paid, credited, lost, clock, row, box, stamping, sweep, faults>>

\* debit_user with allow_negative: the storage debt a later top-up settles.
DebitStorage(d) ==
  /\ At("storage") /\ d = cycle.dep
  /\ balance' = balance - cycle.amount
  /\ cycle' = Drop(d)
  /\ UNCHANGED <<rem, srem, accrued, paid, credited, lost, clock, row, box, stamping, sweep, faults>>

Deadline(d) == IF d \in Saved THEN Retention ELSE Grace
\* Mutant of Expired: saved pods are kept for ever.
ExpiredUnsaved(d) == d \notin Saved /\ now - row[d].paused >= Deadline(d)

Expired(d) == now - row[d].paused >= Deadline(d)

\* reap_exhausted_pods lists the suspended rentals that are past it ...
ReapExhaustedPods ==
  /\ At("storage") /\ cycle.todo = {}
  /\ LET late == {d \in InState("SUSPENDED") \cap Rental : Expired(d)}
     IN cycle' = IF late = {} THEN Resting ELSE [cycle EXCEPT !.stage = "reap", !.todo = late]
  /\ UNCHANGED <<ledger, clock, row, box, stamping, sweep, faults>>

\* ... then ends each, whatever became of it; a terminal row stays as it is.
Reap(d) ==
  /\ At("reap") /\ d \in cycle.todo
  /\ row' = IF row[d].state = "TERMINATED" THEN row ELSE [row EXCEPT ![d] = Ended(@)]
  /\ cycle' = IF cycle.todo = {d} THEN Resting ELSE Drop(d)
  /\ UNCHANGED <<ledger, clock, box, stamping, sweep, faults>>

(***************************************************************************)
(* auto_resume_once in the gateway.                                        *)
(***************************************************************************)

\* hourly_charge_cents: nothing while the machine is silent.
Charge(d) == IF box[d] = "silent" THEN 0 ELSE HourlyCents[d]
Charges(S) == Total(S, [d \in Dep |-> Charge(d)])
Flagged == {d \in InState("SUSPENDED") \cap AutoResume : row[d].reason = "balance"}
Resuming == {d \in InState("SUSPENDED") : row[d].lease = "live"}

\* Mutant of Committed: whatever waits in SUSPENDED is counted too.
CommittedAndWaiting ==
  Charges(InState("STARTING") \cup InState("READY") \cup InState("SUSPENDED"))

\* _committed_by_owner: an hour of all that runs, starts or is being resumed.
Committed == Charges(InState("STARTING") \cup InState("READY") \cup Resuming)

\* The list, and what is committed, are read once; oldest suspension first.
AutoResumeOnce ==
  /\ sweep = NoSweep /\ Flagged \ Resuming # {}
  /\ \E todo \in SetToSeqs(Flagged \ Resuming) :
       /\ \A i, j \in DOMAIN todo : i < j => row[todo[i]].paused <= row[todo[j]].paused
       /\ sweep' = [todo |-> todo, committed |-> Committed]
  /\ UNCHANGED <<ledger, clock, row, box, stamping, cycle, faults>>

Left(committed) ==
  IF Len(sweep.todo) = 1 THEN NoSweep ELSE [todo |-> Tail(sweep.todo), committed |-> committed]

AutoResumeNext ==
  /\ sweep # NoSweep
  /\ LET d == Head(sweep.todo)
         hour == sweep.committed + Charge(d)
     IN \/ /\ balance >= hour /\ Resumable(d)
           /\ row' = [row EXCEPT ![d].lease = "live"]
           /\ sweep' = Left(hour)
        \/ /\ balance < hour \/ ~Resumable(d)
           /\ sweep' = Left(sweep.committed)
           /\ UNCHANGED row
  /\ UNCHANGED <<ledger, clock, box, stamping, cycle, faults>>

(***************************************************************************)
(* The environment.                                                        *)
(***************************************************************************)

Tick ==
  /\ now < MaxTime
  /\ now' = now + 1
  /\ used' = [d \in Dep |-> used[d] + (IF row[d].state = "READY" THEN 1 ELSE 0)]
  /\ UNCHANGED <<ledger, metered, row, box, stamping, cycle, sweep, faults>>

\* The machine stops reporting, or is well again; other work takes the GPUs
\* that a suspended deployment gave back.
BoxChanges(d, b) ==
  /\ row[d].state \in {"READY", "SUSPENDED"} /\ box[d] # b
  /\ b = "full" => row[d].lease = "suspended"
  /\ b # "ok" => faults < MaxFaults
  /\ box' = [box EXCEPT ![d] = b]
  /\ faults' = IF b = "ok" THEN faults ELSE faults + 1
  /\ UNCHANGED <<ledger, clock, row, stamping, cycle, sweep>>

\* The control plane dies: what its worker and its requests held in memory is
\* gone, and the restarted worker counts from now.
Crash ==
  /\ faults < MaxFaults /\ (cycle # Resting \/ stamping # {})
  /\ cycle' = Resting /\ stamping' = {} /\ metered' = now
  /\ faults' = faults + 1 /\ lost' = lost \cup AtRisk
  /\ UNCHANGED <<balance, rem, srem, accrued, paid, credited, now, used, row, box, sweep>>

Usage(d) ==
  \/ MeterSkip(d) \/ StampUnbilled(d) \/ AccrueMetering(d)
  \/ DebitToFloor(d) \/ ReturnMetering(d) \/ MeterSuspend(d)
Storage(d) == AccrueStorage(d) \/ DebitStorage(d)
Work ==
  \/ MeterUsage \/ MeterPodStorage \/ ReapExhaustedPods
  \/ \E d \in Dep : Usage(d) \/ Storage(d) \/ Reap(d)
Sweep == AutoResumeOnce \/ AutoResumeNext
Report(d) == ReportReady(d) \/ SetBillableSince(d) \/ Requeue(d) \/ IdleSuspend(d)
Customer(d) == CreateDeployment(d) \/ ResumeDeployment(d) \/ Terminate(d)

Next ==
  \/ Work \/ Sweep \/ Tick \/ MeterUsageRaises \/ Crash
  \/ \E a \in TopUps : CreditUser(a)
  \/ \E d \in Dep : Report(d) \/ Customer(d) \/ \E b \in Box : BoxChanges(d, b)

Spec == Init /\ [][Next]_vars

\* The worker's loop and the gateway's credit_watch_loop never stop.
FairSpec == Spec /\ WF_vars(Work) /\ WF_vars(Sweep)

(***************************************************************************)
(* Properties.                                                             *)
(***************************************************************************)

Clock == 0..MaxTime
\* Every variable keeps its type; a time that is not set is Never.
TypeOK ==
  /\ now \in Clock /\ metered \in Clock /\ balance \in Int
  /\ row \in [Dep -> [state : State, reason : {"none", "balance", "idle"},
                      lease : {"none", "live", "suspended", "terminated"},
                      since : Clock \cup {Never}, paused : Clock \cup {Never}]]
  /\ rem \in [Dep -> Nat] /\ srem \in [Dep -> Nat]
  /\ box \in [Dep -> Box]
  /\ stamping \subseteq Dep
  /\ cycle \in [stage : {"idle", "usage", "debit", "return", "suspend", "storage", "reap"},
                todo : SUBSET Dep, at : Clock, elapsed : Nat, dep : Dep \cup {NoDep}, amount : Nat]
  /\ sweep.todo \in Seq(Dep) /\ sweep.committed \in Nat
  /\ used \in [Dep -> Nat] /\ accrued \in [Dep -> Nat] /\ paid \in [Dep -> Nat]
  /\ credited \in 0..MaxCredit /\ faults \in 0..MaxFaults /\ lost \subseteq Dep

\* Whole cents the cycle has taken off the accumulator and not charged yet.
InFlight(d) == IF cycle.stage \in {"debit", "return"} /\ cycle.dep = d THEN cycle.amount ELSE 0
Accounted(d) == Cent * (paid[d] + InFlight(d)) + rem[d]

\* meter_usage carries back what it could not debit "so no realized usage is
\* silently dropped": every accrued part of a cent is paid, being charged or
\* still on the accumulator, and a cycle that dies with cents in
\* flight loses them, it never charges them twice.
UsageConserved ==
  \A d \in Dep : /\ Accounted(d) <= accrued[d]
                 /\ d \notin lost => Accounted(d) = accrued[d]

\* The customer never pays for more than the time the deployment was READY,
\* whatever restarts, resumes and stalled cycles lie between two metering
\* passes; rounding may add half a part of a cent to a tick.
NeverOvercharged ==
  \A d \in Dep :
    2 * TicksPerHour * accrued[d] <= (2 * HourlyCents[d] * Cent + TicksPerHour) * used[d]

\* Only the storage hold of a saved pod drives a balance below zero or
\* deeper into debt; the usage meter stops at the floor.
OnlyStorageOverdraws == [][balance' < balance /\ balance' < 0 => At("storage")]_vars

\* A pod is suspended for its balance only with at least a cent it still owes
\* on its accumulator, so the debt is collected after the next top-up.
SuspendedOwes ==
  \A d \in Dep : row[d].state = "SUSPENDED" /\ row[d].reason = "balance" => rem[d] >= Cent

\* The first cycle after a suspended rental's deadline deletes it, so its
\* storage hold does not run on ("the reaper bounds the worst-case debt").
ReapedWhenDue ==
  At("idle") /\ faults = 0 =>
    \A d \in InState("SUSPENDED") \cap Rental : metered - row[d].paused < Deadline(d)

\* A suspension is owed for and bounded: the pod still owes a cent when it is
\* suspended, and it is deleted by the first cycle after its deadline
\* (meter_usage, meter_pod_storage and reap_exhausted_pods agree).
SuspensionSound == TypeOK /\ SuspendedOwes /\ ReapedWhenDue

\* A flagged deployment does not wait for ever while the balance covers an
\* hour of it beside all that runs and its machine has room.
HourOf(S) == Total(S, HourlyCents)
Affordable(d) ==
  /\ d \in Flagged \ Resuming /\ box[d] = "ok"
  /\ balance >= HourOf(InState("STARTING") \cup InState("READY") \cup Resuming \cup {d})
FlaggedComesBack == \A d \in Dep : []<>~Affordable(d)

\* A resume brings the customer's container back: the reaper never ends a pod
\* whose resume is under way or done.
ResumeNotReaped ==
  [][\A d \in Dep : At("reap") /\ row[d].lease = "live" /\ row'[d].state = "TERMINATED"
                      => cycle' = cycle]_vars
=============================================================================
