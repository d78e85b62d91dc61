------------------------------ MODULE SubjectBus ------------------------------
(***************************************************************************)
(* The durable event bus of packages/persistence: publish, claim_pending,  *)
(* mark_completed, mark_failed and requeue_stale_processing, and the loop   *)
(* of ControlPlaneService.process_pending_events that consumes it.  Every   *)
(* subject of SUBJECT_CONSUMERS has one consumer, so an event has one       *)
(* delivery row; deliveries are numbered in the order they are created.    *)
(*                                                                         *)
(* Each action is one database transaction.  A claimer is a thread that    *)
(* runs process_pending_events: the worker loop, or a request thread of    *)
(* POST /platform/v1/events/process.  They share one process, which may    *)
(* die between any two transactions.                                       *)
(***************************************************************************)
EXTENDS Naturals, FiniteSets

CONSTANTS
  Claimer,          \* threads that call process_pending_events
  Worker,           \* the one that also runs the periodic stale recovery
  MaxDeliveries,    \* bound on the deliveries published
  ClaimLimit,       \* the limit argument of claim_pending
  MaxAttempts,      \* _MAX_EVENT_ATTEMPTS
  RetryLimit,       \* deployment_request_retry_limit
  MaxFaults,        \* bound on process deaths and failed marks
  SlowHandlers      \* may a handler outlive the stale threshold?

ASSUME BusAssumption ==
  /\ Worker \in Claimer
  /\ MaxDeliveries \in Nat /\ ClaimLimit \in Nat \ {0}
  /\ MaxAttempts \in Nat \ {0} /\ RetryLimit \in Nat \ {0}
  /\ MaxFaults \in Nat /\ SlowHandlers \in BOOLEAN

VARIABLES
  status,     \* bus_deliveries.status
  evStatus,   \* workflow_events.status of the delivery's event
  attempts,   \* bus_deliveries.attempts
  available,  \* available_at <= now
  stale,      \* updated_at <= now - stale_after_seconds
  held,       \* held[c][m]: the attempts count in c's claimed message, 0 if none
  phase,      \* phase[c]: "run" before the current handler, "ran" after it
  applied,    \* how many times the delivery's handler took effect
  faults      \* deaths and failed marks so far

vars == <<status, evStatus, attempts, available, stale, held, phase, applied, faults>>
rows == <<status, evStatus, attempts, available, stale>>

Delivery == 1..MaxDeliveries
Terminal == {"completed", "failed"}
Status == {"absent", "pending", "processing"} \cup Terminal
NoMessages == [m \in Delivery |-> 0]
Batch(c) == {m \in Delivery : held[c][m] > 0}
\* process_pending_events walks its batch oldest first.
Current(c, m) == m \in Batch(c) /\ \A k \in Batch(c) : m <= k
Published == {m \in Delivery : status[m] # "absent"}

Init ==
  /\ status = [m \in Delivery |-> "absent"]
  /\ evStatus = [m \in Delivery |-> "absent"]
  /\ attempts = [m \in Delivery |-> 0]
  /\ available = [m \in Delivery |-> FALSE]
  /\ stale = [m \in Delivery |-> FALSE]
  /\ held = [c \in Claimer |-> NoMessages]
  /\ phase = [c \in Claimer |-> "run"]
  /\ applied = [m \in Delivery |-> 0]
  /\ faults = 0

(***************************************************************************)
(* The bus.                                                                *)
(***************************************************************************)

\* The event and its delivery are inserted in one transaction.
Publish(m) ==
  /\ status[m] = "absent"
  /\ \A k \in Delivery : k < m => status[k] # "absent"
  /\ status' = [status EXCEPT ![m] = "pending"]
  /\ evStatus' = [evStatus EXCEPT ![m] = "pending"]
  /\ available' = [available EXCEPT ![m] = TRUE]
  /\ UNCHANGED <<attempts, stale, held, phase, applied, faults>>

\* Mutant of Due: the claim ignores that a row is already being processed.
DueOrProcessing == {m \in Delivery : status[m] \in {"pending", "processing"} /\ available[m]}

Due == {m \in Delivery : status[m] = "pending" /\ available[m]}
Oldest(S) == {m \in S : Cardinality({k \in S : k <= m}) <= ClaimLimit}

\* FOR UPDATE SKIP LOCKED: one transaction, so no row goes to two claimers.
ClaimPending(c) ==
  /\ Batch(c) = {}
  /\ Due # {}
  /\ LET take == Oldest(Due)
     IN /\ status' = [m \in Delivery |-> IF m \in take THEN "processing" ELSE status[m]]
        /\ attempts' = [m \in Delivery |-> IF m \in take THEN attempts[m] + 1 ELSE attempts[m]]
        /\ stale' = [m \in Delivery |-> IF m \in take THEN FALSE ELSE stale[m]]
        /\ held' = [held EXCEPT ![c] = [m \in Delivery |-> IF m \in take THEN attempts[m] + 1 ELSE 0]]
  /\ phase' = [phase EXCEPT ![c] = "run"]
  /\ UNCHANGED <<evStatus, available, applied, faults>>

\* Mutant of UpdateStatus: the event row is forgotten.
UpdateDeliveryOnly(m, s, retryAfter) ==
  /\ status' = [status EXCEPT ![m] = s]
  /\ available' = [available EXCEPT ![m] = IF retryAfter THEN FALSE ELSE @]
  /\ stale' = [stale EXCEPT ![m] = FALSE]
  /\ UNCHANGED <<evStatus, attempts>>

\* SubjectBus._update_status: the delivery and its event, unconditionally.
UpdateStatus(m, s, retryAfter) ==
  /\ status' = [status EXCEPT ![m] = s]
  /\ evStatus' = [evStatus EXCEPT ![m] = s]
  /\ available' = [available EXCEPT ![m] = IF retryAfter THEN FALSE ELSE @]
  /\ stale' = [stale EXCEPT ![m] = FALSE]
  /\ UNCHANGED attempts

Drop(c, m) ==
  /\ held' = [held EXCEPT ![c][m] = 0]
  /\ phase' = [phase EXCEPT ![c] = "run"]

MarkCompleted(m) == UpdateStatus(m, "completed", FALSE)
\* Mutant of MarkFailed: a status no claim looks for.
MarkFailedAsRetry(m, retryable, retryAfter) ==
  UpdateStatus(m, IF retryable THEN "retry" ELSE "failed", retryAfter)

MarkFailed(m, retryable, retryAfter) ==
  UpdateStatus(m, IF retryable THEN "pending" ELSE "failed", retryAfter)

\* Mutant of RequeueStaleProcessing: rows on their last attempt are left alone.
RequeueUnlessExhausted ==
  LET lost == {m \in Delivery : status[m] = "processing" /\ stale[m] /\ attempts[m] < MaxAttempts}
  IN /\ Batch(Worker) = {}
     /\ lost # {}
     /\ status' = [m \in Delivery |-> IF m \in lost THEN "pending" ELSE status[m]]
     /\ evStatus' = [m \in Delivery |-> IF m \in lost THEN "pending" ELSE evStatus[m]]
     /\ available' = [m \in Delivery |-> IF m \in lost THEN TRUE ELSE available[m]]
     /\ stale' = [m \in Delivery |-> IF m \in lost THEN FALSE ELSE stale[m]]
     /\ UNCHANGED <<attempts, held, phase, applied, faults>>

RequeueStaleProcessing ==
  LET lost == {m \in Delivery : status[m] = "processing" /\ stale[m]}
  IN /\ Batch(Worker) = {}
     /\ lost # {}
     /\ status' = [m \in Delivery |-> IF m \in lost THEN "pending" ELSE status[m]]
     /\ evStatus' = [m \in Delivery |-> IF m \in lost THEN "pending" ELSE evStatus[m]]
     /\ available' = [m \in Delivery |-> IF m \in lost THEN TRUE ELSE available[m]]
     /\ stale' = [m \in Delivery |-> IF m \in lost THEN FALSE ELSE stale[m]]
     /\ UNCHANGED <<attempts, held, phase, applied, faults>>

(***************************************************************************)
(* One pass of process_pending_events over the claimed batch.              *)
(***************************************************************************)

\* The handler's own transaction commits (a lease, a usage row, an invocation).
HandlerTakesEffect(c, m) ==
  /\ Current(c, m)
  /\ phase[c] = "run"
  /\ phase' = [phase EXCEPT ![c] = "ran"]
  /\ applied' = [applied EXCEPT ![m] = @ + 1]
  /\ UNCHANGED <<rows, held, faults>>

\* Mutant of HandlerCompletes: the delivery is marked before its handler runs.
HandlerCompletesFirst(c, m) ==
  /\ Current(c, m)
  /\ MarkCompleted(m)
  /\ Drop(c, m)
  /\ UNCHANGED <<applied, faults>>

HandlerCompletes(c, m) ==
  /\ Current(c, m)
  /\ phase[c] = "ran"
  /\ MarkCompleted(m)
  /\ Drop(c, m)
  /\ UNCHANGED <<applied, faults>>

\* The handler refuses the payload: not found, or an unsupported subject.
HandlerRefuses(c, m) ==
  /\ Current(c, m)
  /\ phase[c] = "run"
  /\ MarkFailed(m, FALSE, FALSE)
  /\ Drop(c, m)
  /\ UNCHANGED <<applied, faults>>

\* _process_deployment_request found no capacity: try later, up to RetryLimit.
HandlerDefers(c, m) ==
  /\ Current(c, m)
  /\ phase[c] = "run"
  /\ IF held[c][m] < RetryLimit THEN MarkFailed(m, TRUE, TRUE) ELSE MarkFailed(m, FALSE, FALSE)
  /\ Drop(c, m)
  /\ UNCHANGED <<applied, faults>>

\* The handler, or its mark_completed, raises; the guard marks the delivery.
HandlerRaises(c, m) ==
  /\ Current(c, m)
  /\ MarkFailed(m, held[c][m] < MaxAttempts, TRUE)
  /\ Drop(c, m)
  /\ UNCHANGED <<applied, faults>>

\* The handler raises and mark_failed raises too: the row stays "processing".
MarkRaises(c, m) ==
  /\ Current(c, m)
  /\ faults < MaxFaults
  /\ faults' = faults + 1
  /\ Drop(c, m)
  /\ UNCHANGED <<rows, applied>>

\* The process dies: every batch in memory is gone, every row stays.
Crash ==
  /\ faults < MaxFaults
  /\ \E c \in Claimer : Batch(c) # {}
  /\ faults' = faults + 1
  /\ held' = [c \in Claimer |-> NoMessages]
  /\ phase' = [c \in Claimer |-> "run"]
  /\ UNCHANGED <<rows, applied>>

(***************************************************************************)
(* Time.                                                                   *)
(***************************************************************************)

BackoffElapses(m) ==
  /\ status[m] = "pending"
  /\ ~available[m]
  /\ available' = [available EXCEPT ![m] = TRUE]
  /\ UNCHANGED <<status, evStatus, attempts, stale, held, phase, applied, faults>>

\* Mutant of GrowsStale: a stale threshold shorter than a handler's run.
GrowsStaleTooSoon(m) ==
  /\ status[m] = "processing"
  /\ ~stale[m]
  /\ stale' = [stale EXCEPT ![m] = TRUE]
  /\ UNCHANGED <<status, evStatus, attempts, available, held, phase, applied, faults>>

\* The worker's 15-minute threshold is chosen above any handler's run time:
\* unless SlowHandlers, a row only grows stale when nobody is handling it.
GrowsStale(m) ==
  /\ status[m] = "processing"
  /\ ~stale[m]
  /\ SlowHandlers \/ \A c \in Claimer : held[c][m] = 0
  /\ stale' = [stale EXCEPT ![m] = TRUE]
  /\ UNCHANGED <<status, evStatus, attempts, available, held, phase, applied, faults>>

HandlerStep(c, m) ==
  \/ HandlerTakesEffect(c, m) \/ HandlerCompletes(c, m) \/ HandlerRefuses(c, m)
  \/ HandlerDefers(c, m) \/ HandlerRaises(c, m)

Next ==
  \/ \E m \in Delivery : Publish(m) \/ BackoffElapses(m) \/ GrowsStale(m)
  \/ \E c \in Claimer : ClaimPending(c)
  \/ \E c \in Claimer, m \in Delivery : HandlerStep(c, m) \/ MarkRaises(c, m)
  \/ RequeueStaleProcessing
  \/ Crash

Spec == Init /\ [][Next]_vars

\* The worker loop runs forever and time passes; request threads, publishers
\* and faults owe nothing.
Fairness ==
  /\ WF_vars(ClaimPending(Worker))
  /\ \A c \in Claimer, m \in Delivery : WF_vars(HandlerStep(c, m))
  /\ SF_vars(RequeueStaleProcessing)
  /\ \A m \in Delivery : WF_vars(BackoffElapses(m)) /\ WF_vars(GrowsStale(m))

FairSpec == Spec /\ Fairness

(***************************************************************************)
(* Properties.                                                             *)
(***************************************************************************)

(* Every row of bus_events and bus_deliveries has the column types the ORM     *)
(* declares, and a worker's local state is one its loop can hold.             *)
TypeOK ==
  /\ status \in [Delivery -> Status]
  /\ evStatus \in [Delivery -> Status]
  /\ attempts \in [Delivery -> Nat]
  /\ available \in [Delivery -> BOOLEAN]
  /\ stale \in [Delivery -> BOOLEAN]
  /\ held \in [Claimer -> [Delivery -> Nat]]
  /\ phase \in [Claimer -> {"run", "ran"}]
  /\ applied \in [Delivery -> Nat]
  /\ faults \in Nat

\* A delivery someone is handling is "processing", carries the row's current
\* attempt count and is handled by nobody else.
HeldIsProcessing ==
  \A c \in Claimer, m \in Delivery :
    held[c][m] > 0 => status[m] = "processing" /\ held[c][m] = attempts[m]

\* Two threads that claim at once never hold the same delivery, so no handler
\* runs twice concurrently (claim_pending's FOR UPDATE SKIP LOCKED), across
\* crashes, failed marks and stale requeues.
SingleClaimant ==
  \A c1, c2 \in Claimer, m \in Delivery :
    held[c1][m] > 0 /\ held[c2][m] > 0 => c1 = c2

\* At-least-once: a delivery is "completed" only if its handler took effect,
\* whatever died or was requeued between the effect and the mark.
CompletedWasApplied ==
  \A m \in Delivery : status[m] = "completed" => applied[m] > 0

\* The event row tells the same story as its delivery: the two are settled in
\* the same transaction, and a claimed delivery's event still reads "pending".
EventMirrorsDelivery ==
  \A m \in Delivery :
    evStatus[m] = IF status[m] = "processing" THEN "pending" ELSE status[m]

\* A settled delivery is never taken up again, although _update_status writes
\* whatever status a late caller asks for.
SettledIsFinal ==
  [][\A m \in Delivery : status[m] \in Terminal => status'[m] = status[m]]_vars

\* Every published delivery is completed or parked in the end: a raising
\* handler, a failed mark or a dead process cannot wedge it in "processing".
EverySettles ==
  \A m \in Delivery : (status[m] = "pending") ~> (status[m] \in Terminal)

\* What a publisher is owed, by the status of its delivery.
OwedAs(s) ==
  CASE s \in {"pending", "processing"} -> "owed"
    [] s = "completed" -> "done"
    [] s = "failed" -> "parked"
    [] OTHER -> "absent"

Queue == INSTANCE WorkQueue WITH
  Item <- Delivery,
  owed <- [m \in Delivery |-> OwedAs(status[m])],
  ran <- applied

\* The bus implements the at-least-once queue its publishers rely on: a handler
\* never takes effect on a delivery already settled, and no settled delivery
\* returns.
ImplementsQueue == Queue!QSpec
=============================================================================
