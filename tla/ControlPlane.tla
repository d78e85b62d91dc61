----------------------------- MODULE ControlPlane -----------------------------
(***************************************************************************)
(* The deployment lifecycle of ControlPlaneService: the deployments row,   *)
(* its lease_assignments row and its gpu_reservations row, written by      *)
(* request threads (of the control plane and of the gateway, which runs    *)
(* the same service in its own process), by miners' status reports and by  *)
(* the worker's sweeps.                                                    *)
(*                                                                         *)
(* Every repository call is a transaction of its own, so a handler is a    *)
(* list of transactions with its Python locals in between.  A thread runs  *)
(* one handler at a time: the deployment it is about, the row it read and  *)
(* the calls it has still to make.  An action below is either the entry of *)
(* a handler (its first read) or one such call.                            *)
(***************************************************************************)
EXTENDS Naturals, Sequences, FiniteSets

CONSTANTS
  Dep, Node, Thread,
  Gpus,            \* [Node -> Nat]: gpu_count of a node
  Need,            \* [Dep -> Nat]: requirements.gpu_count of the workload
  Inference,       \* deployments of kind INFERENCE; the others are pods and VMs
  Offer,           \* the handlers that may be entered
  MaxRequests,     \* bound on deployment.requested deliveries owed at a time
  RetryLimit,      \* deployment_request_retry_limit
  ReassignLimit,   \* deployment_reassign_retry_limit
  MaxAttempts,     \* _MAX_EVENT_ATTEMPTS
  MaxRetry,        \* bound: retry_count saturates here
  HealthThreshold, \* deployment_health_failure_threshold
  MaxCrashes,      \* bound on threads killed between two calls
  LateReports,     \* may a miner's report arrive after its lease has moved on?
  NoNode, NoDep

Handler == {"create", "report", "process", "timeout", "unhealthy", "suspend", "reap",
            "stop", "requeue", "resume", "fail", "cleanup", "edit", "health", "delete"}

ASSUME ControlPlaneAssumption ==
  /\ IsFiniteSet(Dep) /\ NoNode \notin Node /\ NoDep \notin Dep
  /\ Gpus \in [Node -> Nat] /\ Need \in [Dep -> Nat]
  /\ Inference \subseteq Dep /\ Offer \subseteq Handler
  /\ MaxRequests \in Nat /\ RetryLimit \in Nat /\ ReassignLimit \in Nat
  /\ MaxAttempts \in Nat /\ MaxRetry \in Nat /\ HealthThreshold \in Nat
  /\ MaxCrashes \in Nat
  /\ LateReports \in BOOLEAN

VARIABLES
  row,      \* deployments: [state, node, retry, health] of each deployment
  lease,    \* lease_assignments: [status, node] of each deployment
  expired,  \* expires_at has passed
  hold,     \* gpu_reservations: the node of the active reservation, or NoNode
  box,      \* deployment.requested deliveries: [dep, status, tries]
  health,   \* what the miner behind a node last told us
  lock,     \* _placement_lock is held
  run,      \* per thread: [dep, msg, row, todo], the handler it is running
  served,   \* history: the deployment was READY under its present placement
  crashes   \* threads killed so far

store == <<row, lease, expired, hold, box, health>>
vars == <<row, lease, expired, hold, box, health, lock, run, served, crashes>>

Slot == 1..MaxRequests
Terminal == {"TERMINATED", "FAILED"}
Missing == {"absent", "deleted"}
State == {"PENDING", "SCHEDULED", "PULLING", "STARTING", "READY", "DRAINING", "SUSPENDED"}
           \cup Terminal \cup Missing
LiveLease == {"assigned", "activating", "active"}
LeaseStatus == {"none", "suspended", "failed", "terminated", "reassigned"} \cup LiveLease
\* What the machine behind a node looks like to process_unhealthy_miners.
MinerHealth == {"reporting", "unhealthy", "silent", "silent_long", "silent_day"}
Op(name, arg) == [op |-> name, arg |-> arg]
Call(name) == Op(name, "")
\* The calls a thread may have ahead of it.
PlannedOp ==
  [op : {"update"}, arg : State] \cup [op : {"lease"}, arg : LeaseStatus]
    \cup [op : {"mark"}, arg : {"pending", "failed", "completed"}]
    \cup [op : {"unhealthy"}, arg : MinerHealth] \cup [op : {"requeue"}, arg : {"operator", "sweep"}]
    \cup [op : {"release", "request", "choose", "reserve", "hold", "headroom", "reacquire", "place",
                "save", "publish", "timeout", "cleanup", "fail", "delete"}, arg : {""}]
Row == [state : State, node : Node \cup {NoNode}, retry : Nat, health : Nat]
NoRow == [state |-> "absent", node |-> NoNode, retry |-> 0, health |-> 0]
NoLease == [status |-> "none", node |-> NoNode]
Resting == [dep |-> NoDep, msg |-> 0, row |-> NoRow, todo |-> <<>>]
NoMessage == [dep |-> NoDep, status |-> "absent", tries |-> 0]

Larger(a, b) == IF a >= b THEN a ELSE b
Exists(d) == row[d].state \notin Missing

\* domain/state.py
AllowedTransitions(s) ==
  CASE s = "PENDING" -> {"SCHEDULED", "FAILED", "TERMINATED"}
    [] s = "SCHEDULED" -> {"PULLING", "STARTING", "READY", "FAILED", "TERMINATED"}
    [] s = "PULLING" -> {"STARTING", "READY", "FAILED", "TERMINATED"}
    [] s = "STARTING" -> {"READY", "FAILED", "TERMINATED"}
    [] s = "READY" -> {"DRAINING", "SUSPENDED", "FAILED", "TERMINATED"}
    [] s = "DRAINING" -> {"TERMINATED", "FAILED"}
    [] s = "SUSPENDED" -> {"PULLING", "STARTING", "READY", "TERMINATED"}
    [] s = "FAILED" -> {"PENDING", "TERMINATED"}
    [] OTHER -> {}
TransitionState(s, desired) == desired = s \/ desired \in AllowedTransitions(s)

\* GPUs of node n reserved by deployments of D, as a set of <<deployment, i>>.
SlotsOf(D, h, n) == UNION {{d} \X (1..Need[d]) : d \in {e \in D : h[e] = n}}
Reserved(h, n) == Cardinality(SlotsOf(Dep, h, n))
ReservedByOthers(d, h, n) == Cardinality(SlotsOf(Dep \ {d}, h, n))

Init ==
  /\ row = [d \in Dep |-> NoRow]
  /\ lease = [d \in Dep |-> NoLease]
  /\ expired = [d \in Dep |-> FALSE]
  /\ hold = [d \in Dep |-> NoNode]
  /\ box = [m \in Slot |-> NoMessage]
  /\ health = [n \in Node |-> "reporting"]
  /\ lock = FALSE
  /\ run = [t \in Thread |-> Resting]
  /\ served = [d \in Dep |-> FALSE]
  /\ crashes = 0

Idle(t) == run[t].todo = <<>>
\* Bound: a handler that will publish waits for a free slot.
SlotFree == \E m \in Slot : box[m] = NoMessage

job(t) == run[t].dep
snap(t) == run[t].row
tries(t) == box[run[t].msg].tries
\* The next call t makes, and the ways a call ends: with the row r as the
\* handler's local and the calls ops before the ones already planned.
Doing(t, name) == ~Idle(t) /\ Head(run[t].todo).op = name
Arg(t) == Head(run[t].todo).arg
Then(t, r, ops) ==
  LET left == ops \o Tail(run[t].todo)
  IN run' = [run EXCEPT ![t] = IF left = <<>> THEN Resting ELSE [@ EXCEPT !.row = r, !.todo = left]]
GoOn(t) == Then(t, snap(t), <<>>)
GoOnWith(t, ops) == Then(t, snap(t), ops)
\* An exception leaves the handler; process_pending_events marks its delivery.
Raise(t) ==
  run' = [run EXCEPT ![t] =
            IF @.msg = 0 THEN Resting
            ELSE [@ EXCEPT !.todo = <<Op("mark", IF tries(t) < MaxAttempts THEN "pending" ELSE "failed")>>]]

(***************************************************************************)
(* Entries: t starts a handler for d.                                      *)
(***************************************************************************)

Enter(t, d, m, r, ops) ==
  /\ Idle(t)
  /\ run' = [run EXCEPT ![t] = [dep |-> d, msg |-> m, row |-> r, todo |-> ops]]
  /\ UNCHANGED <<lease, expired, hold, health, lock, served, crashes>>

\* create_deployment: the row, then the bus.
CreateDeployment(t, d) ==
  /\ "create" \in Offer /\ SlotFree
  /\ row[d].state = "absent"
  /\ row' = [row EXCEPT ![d] = [NoRow EXCEPT !.state = "PENDING"]]
  /\ Enter(t, d, 0, NoRow, <<Call("publish")>>)
  /\ UNCHANGED box

\* process_pending_events claims a delivery.
ClaimRequest(t, m) ==
  /\ "process" \in Offer
  /\ box[m].status = "pending"
  /\ box' = [box EXCEPT ![m].status = "claimed", ![m].tries = @ + 1]
  /\ Enter(t, box[m].dep, m, NoRow, <<Call("request")>>)
  /\ UNCHANGED row

EnterWith(t, d, ops) ==
  /\ Enter(t, d, 0, row[d], ops)
  /\ UNCHANGED <<row, box>>

\* What a node agent reports: any state if its report may be late, and else
\* what the present lease asks it to bring about, or that the container ended.
Reportable(d) ==
  IF LateReports THEN {"PULLING", "STARTING", "READY", "SUSPENDED"} \cup Terminal
  ELSE Terminal \cup (CASE lease[d].status \in LiveLease -> {"PULLING", "STARTING", "READY"}
                        [] lease[d].status = "suspended" -> {"SUSPENDED"}
                        [] OTHER -> {})

\* POST /miner/v1/deployments/{id}/status: only the miner that holds the
\* placement may report.
ReportStatus(t, d, s) ==
  /\ "report" \in Offer
  /\ row[d].node # NoNode
  /\ s \in Reportable(d)
  /\ EnterWith(t, d, <<Op("update", s)>>)

ProcessTimeouts(t, d) ==
  /\ "timeout" \in Offer
  /\ lease[d].status \in {"assigned", "activating"}
  /\ expired[d]
  /\ EnterWith(t, d, <<Call("timeout")>>)

\* _any_miner_reporting and _assignment_problem.
ProcessUnhealthyMiners(t, d) ==
  /\ "unhealthy" \in Offer /\ SlotFree
  /\ lease[d].status \in LiveLease /\ lease[d].node # NoNode
  /\ \E n \in Node : health[n] \in {"reporting", "unhealthy"}
  /\ health[lease[d].node] # "reporting"
  /\ EnterWith(t, d, <<Op("unhealthy", health[lease[d].node])>>)

\* The meter (credits ran out) and the idle sweep (private models).
SuspendSweep(t, d) ==
  /\ "suspend" \in Offer
  /\ row[d].state = "READY"
  /\ EnterWith(t, d, <<Op("update", "SUSPENDED")>>)

ReapExhaustedPods(t, d) ==
  /\ "reap" \in Offer
  /\ row[d].state = "SUSPENDED" /\ d \notin Inference
  /\ EnterWith(t, d, <<Op("update", "TERMINATED")>>)

\* stop_expired_runtimes and stop_rentals_over_key_limits.
StopSweep(t, d) ==
  /\ "stop" \in Offer
  /\ row[d].state = "READY"
  /\ EnterWith(t, d, <<Op("update", "TERMINATED")>>)

RequeueDeployment(t, d) ==
  /\ "requeue" \in Offer /\ SlotFree
  /\ Exists(d)
  /\ EnterWith(t, d, <<Op("requeue", "operator")>>)

ResumeDeployment(t, d) ==
  /\ "resume" \in Offer
  /\ row[d].state = "SUSPENDED" /\ row[d].node # NoNode
  /\ EnterWith(t, d, <<Call("headroom")>>)

FailDeployment(t, d) ==
  /\ "fail" \in Offer
  /\ Exists(d)
  /\ EnterWith(t, d, <<Call("fail")>>)

CleanupDeployment(t, d) ==
  /\ "cleanup" \in Offer
  /\ Exists(d)
  /\ EnterWith(t, d, <<Call("cleanup")>>)

\* update_deployment (PATCH): reads the row, saves it whole.
UpdateDeployment(t, d) ==
  /\ "edit" \in Offer
  /\ Exists(d)
  /\ EnterWith(t, d, <<Call("save")>>)

RecordHealthFailure(t, d) ==
  /\ "health" \in Offer
  /\ Exists(d)
  /\ row[d].health < HealthThreshold
  /\ LET r == [row[d] EXCEPT !.health = @ + 1]
     IN Enter(t, d, 0, r, IF r.health >= HealthThreshold
                          THEN <<Call("save"), Op("update", "FAILED")>>
                          ELSE <<Call("save")>>)
  /\ UNCHANGED <<row, box>>

ClearHealthFailures(t, d) ==
  /\ "health" \in Offer
  /\ Exists(d)
  /\ row[d].health > 0
  /\ Enter(t, d, 0, [row[d] EXCEPT !.health = 0], <<Call("save")>>)
  /\ UNCHANGED <<row, box>>

\* The gateway stops a live deployment before it deletes its workload.
DeleteWorkload(t, d) ==
  /\ "delete" \in Offer
  /\ Exists(d)
  /\ EnterWith(t, d, IF row[d].state \in Terminal THEN <<Call("delete")>>
                     ELSE <<Call("cleanup"), Call("delete")>>)

(***************************************************************************)
(* Calls.                                                                  *)
(***************************************************************************)

\* Mutant of LeaseFor: a lease status nobody else knows.
LeaseForPaused(s) ==
  CASE s \in {"PULLING", "STARTING"} -> <<Op("lease", "activating")>>
    [] s = "READY" -> <<Op("lease", "active")>>
    [] s = "SUSPENDED" -> <<Op("lease", "paused")>>
    [] s = "FAILED" -> <<Op("lease", "failed")>>
    [] s = "TERMINATED" -> <<Op("lease", "terminated")>>
    [] OTHER -> <<>>

\* The part of update_deployment_status that follows its read of the row.
LeaseFor(s) ==
  CASE s \in {"PULLING", "STARTING"} -> <<Op("lease", "activating")>>
    [] s = "READY" -> <<Op("lease", "active")>>
    [] s = "SUSPENDED" -> <<Op("lease", "suspended")>>
    [] s = "FAILED" -> <<Op("lease", "failed")>>
    [] s = "TERMINATED" -> <<Op("lease", "terminated")>>
    [] OTHER -> <<>>
\* Mutant of Frees: a deployment that ends keeps its GPUs.
FreesWhenSuspended(s) == s = "SUSPENDED"

Frees(s) == s \in {"SUSPENDED"} \cup Terminal
StatusCalls(s) ==
  LeaseFor(s) \o (IF Frees(s) THEN <<Call("release")>> ELSE <<>>) \o <<Call("save")>>

CallUpdateStatus(t) ==
  /\ Doing(t, "update")
  /\ LET r == row[job(t)]
         s == Arg(t)
     IN \/ r.state \in Terminal /\ GoOn(t)
        \/ /\ r.state \in Missing \/ ~TransitionState(r.state, s)
           /\ r.state \notin Terminal
           /\ Raise(t)
        \/ /\ r.state \notin Terminal \cup Missing
           /\ TransitionState(r.state, s)
           /\ Then(t, [r EXCEPT !.state = s, !.health = IF s = "READY" THEN 0 ELSE @], StatusCalls(s))
  /\ UNCHANGED <<store, lock, served, crashes>>

CallUpdateAssignment(t) ==
  /\ Doing(t, "lease")
  /\ LET d == job(t)
     IN lease' = IF lease[d].status = "none" THEN lease
                 ELSE [lease EXCEPT ![d].status = Arg(t)]
  /\ GoOn(t)
  /\ UNCHANGED <<row, expired, hold, box, health, lock, served, crashes>>

CallRelease(t) ==
  /\ Doing(t, "release")
  /\ hold' = [hold EXCEPT ![job(t)] = NoNode]
  /\ GoOn(t)
  /\ UNCHANGED <<row, lease, expired, box, health, lock, served, crashes>>

\* update_deployment writes every column of the row the thread holds, and
\* inserts the row again if it is gone.
CallSave(t) ==
  /\ Doing(t, "save")
  /\ row' = [row EXCEPT ![job(t)] = snap(t)]
  /\ served' = [served EXCEPT ![job(t)] = @ \/ snap(t).state = "READY"]
  /\ GoOn(t)
  /\ UNCHANGED <<lease, expired, hold, box, health, lock, crashes>>

CallPublish(t) ==
  /\ Doing(t, "publish")
  /\ \E m \in Slot :
       /\ box[m] = NoMessage
       /\ \A k \in Slot : box[k] = NoMessage => m <= k
       /\ box' = [box EXCEPT ![m] = [dep |-> job(t), status |-> "pending", tries |-> 0]]
  /\ GoOn(t)
  /\ UNCHANGED <<row, lease, expired, hold, health, lock, served, crashes>>

\* mark_completed and mark_failed end the delivery's handling; a settled
\* delivery's slot is free again.
CallMark(t) ==
  /\ Doing(t, "mark")
  /\ box' = [box EXCEPT ![run[t].msg] =
               IF Arg(t) = "pending" THEN [@ EXCEPT !.status = "pending"] ELSE NoMessage]
  /\ run' = [run EXCEPT ![t] = Resting]
  /\ UNCHANGED <<row, lease, expired, hold, health, lock, served, crashes>>

\* Mutant of CallRequest: a deployment that has failed meanwhile is placed too.
CallRequestUnlessRunning(t) ==
  /\ Doing(t, "request")
  /\ LET r == row[job(t)]
     IN Then(t, r, CASE r.state \in Missing -> <<Op("mark", "failed")>>
                     [] r.state \in {"PENDING", "FAILED"} -> <<Call("choose")>>
                     [] OTHER -> <<Op("mark", "completed")>>)
  /\ UNCHANGED <<store, lock, served, crashes>>

\* _process_deployment_request up to its placement.
CallRequest(t) ==
  /\ Doing(t, "request")
  /\ LET r == row[job(t)]
     IN Then(t, r, CASE r.state \in Missing -> <<Op("mark", "failed")>>
                     [] r.state = "PENDING" -> <<Call("choose")>>
                     [] OTHER -> <<Op("mark", "completed")>>)
  /\ UNCHANGED <<store, lock, served, crashes>>

\* Mutant of NoCapacity: the delivery is completed instead of retried.
NoCapacityForgets(t) ==
  Then(t, [snap(t) EXCEPT !.node = NoNode, !.retry = Larger(@, tries(t))],
          <<Call("save"), Op("mark", "completed")>>)

\* No placement: the request is retried, or given up on either counter.
NoCapacity(t) ==
  LET r == [snap(t) EXCEPT !.node = NoNode, !.retry = Larger(@, tries(t))]
      giveUp == tries(t) >= RetryLimit \/ r.retry >= ReassignLimit
  IN Then(t, r, IF giveUp THEN <<Call("save"), Op("update", "FAILED"), Op("mark", "failed")>>
                ELSE <<Call("save"), Op("mark", "pending")>>)

\* Mutant of EffectiveRoom: the deployment's own need is not counted.
RoomBeforeOwnNeed(d, n) == Reserved(hold, n) <= Gpus[n]

\* What a miner reports as available only lowers what the ledger leaves free,
\* so a node with room may still be passed over.
EffectiveRoom(d, n) == Reserved(hold, n) + Need[d] <= Gpus[n]

\* Mutant of CallChooseNode: the decision is taken without the placement lock.
CallChooseNodeUnlocked(t) ==
  /\ Doing(t, "choose")
  /\ \/ NoCapacity(t) /\ UNCHANGED lock
     \/ /\ \E n \in Node :
             /\ health[n] = "reporting"
             /\ EffectiveRoom(job(t), n)
             /\ Then(t, [snap(t) EXCEPT !.node = n], <<Call("reserve")>>)
        /\ lock' = TRUE
  /\ UNCHANGED <<store, served, crashes>>

\* _assign_lease: the schedulable nodes, then the decision under the lock.
CallChooseNode(t) ==
  /\ Doing(t, "choose")
  /\ ~lock
  /\ \/ NoCapacity(t) /\ UNCHANGED lock
     \/ /\ \E n \in Node :
             /\ health[n] = "reporting"
             /\ EffectiveRoom(job(t), n)
             /\ Then(t, [snap(t) EXCEPT !.node = n], <<Call("reserve")>>)
        /\ lock' = TRUE
  /\ UNCHANGED <<store, served, crashes>>

\* reserve_gpus with capacity_gpus first sums the node's other reservations ...
CallReserve(t) ==
  /\ Doing(t, "reserve")
  /\ LET d == job(t)
         n == snap(t).node
     IN \/ /\ ReservedByOthers(d, hold, n) + Need[d] <= Gpus[n]
           /\ GoOnWith(t, <<Call("hold")>>)
           /\ UNCHANGED lock
        \/ /\ ReservedByOthers(d, hold, n) + Need[d] > Gpus[n]
           /\ NoCapacity(t)
           /\ lock' = FALSE
  /\ UNCHANGED <<store, served, crashes>>

\* ... and then writes its own.  Under READ COMMITTED nothing but the placement
\* lock keeps another reservation from being committed in between.
CallHold(t) ==
  /\ Doing(t, "hold")
  /\ hold' = [hold EXCEPT ![job(t)] = snap(t).node]
  /\ Then(t, [snap(t) EXCEPT !.state = "SCHEDULED", !.health = 0, !.retry = Larger(@, tries(t) - 1)],
             <<Call("place"), Call("save"), Op("mark", "completed")>>)
  /\ lock' = FALSE
  /\ UNCHANGED <<row, lease, expired, box, health, served, crashes>>

\* save_assignment: the one lease row of the deployment is written anew.
CallSaveAssignment(t) ==
  /\ Doing(t, "place")
  /\ lease' = [lease EXCEPT ![job(t)] = [status |-> "assigned", node |-> snap(t).node]]
  /\ expired' = [expired EXCEPT ![job(t)] = FALSE]
  /\ served' = [served EXCEPT ![job(t)] = FALSE]
  /\ GoOn(t)
  /\ UNCHANGED <<row, hold, box, health, lock, crashes>>

CallTimeout(t) ==
  /\ Doing(t, "timeout")
  /\ GoOnWith(t, IF row[job(t)].state \in {"READY"} \cup Terminal \cup Missing THEN <<>>
                 ELSE <<Op("update", "FAILED")>>)
  /\ UNCHANGED <<store, lock, served, crashes>>

\* The loop body of process_unhealthy_miners.
CallUnhealthy(t) ==
  /\ Doing(t, "unhealthy")
  /\ LET d == job(t)
     IN GoOnWith(t,
          IF row[d].state # "READY" THEN <<Op("requeue", "sweep")>>
          ELSE IF d \notin Inference
               THEN IF Arg(t) = "silent_day" THEN <<Op("update", "TERMINATED")>> ELSE <<>>
               ELSE IF Arg(t) = "silent" THEN <<>> ELSE <<Op("requeue", "sweep")>>)
  /\ UNCHANGED <<store, lock, served, crashes>>

Unplaced(retry) == [state |-> "PENDING", node |-> NoNode, retry |-> retry, health |-> 0]

\* Mutant of CallRequeue: PENDING is written and nothing published.
CallRequeueSilently(t) ==
  /\ Doing(t, "requeue")
  /\ Then(t, Unplaced(0), <<Call("release"), Op("lease", "reassigned"), Call("save")>>)
  /\ UNCHANGED <<store, lock, served, crashes>>

\* _requeue_assignment, which returns None for a terminal row; the operator's
\* requeue_deployment then writes PENDING over the row it read itself.
CallRequeue(t) ==
  /\ Doing(t, "requeue")
  /\ LET r == row[job(t)]
         moves == /\ r.state \notin Terminal \cup Missing
                  /\ Arg(t) = "sweep" \/ lease[job(t)].status \in LiveLease
     IN \/ /\ moves
           /\ Then(t, Unplaced(IF r.retry < MaxRetry THEN r.retry + 1 ELSE MaxRetry),
                   <<Call("release"), Op("lease", "reassigned"), Call("save"), Call("publish")>>)
        \/ /\ ~moves /\ Arg(t) = "operator"
           /\ Then(t, [Unplaced(0) EXCEPT !.health = snap(t).health], <<Call("save"), Call("publish")>>)
        \/ /\ ~moves /\ Arg(t) = "sweep"
           /\ GoOn(t)
  /\ UNCHANGED <<store, lock, served, crashes>>

CallFail(t) ==
  /\ Doing(t, "fail")
  /\ GoOnWith(t, (IF lease[job(t)].status \in LiveLease
                  THEN <<Call("release"), Op("lease", "terminated")>> ELSE <<>>)
                 \o <<Op("update", "FAILED")>>)
  /\ UNCHANGED <<store, lock, served, crashes>>

\* Mutant of CallCleanup: the row is saved before the lease is closed.
CallCleanupSavesFirst(t) ==
  /\ Doing(t, "cleanup")
  /\ Then(t, [snap(t) EXCEPT !.state = "TERMINATED"],
       IF lease[job(t)].status \in LiveLease
       THEN <<Call("save"), Call("release"), Op("lease", "terminated")>> ELSE <<Call("save")>>)
  /\ UNCHANGED <<store, lock, served, crashes>>

CallCleanup(t) ==
  /\ Doing(t, "cleanup")
  /\ Then(t, [snap(t) EXCEPT !.state = "TERMINATED"],
       CASE lease[job(t)].status \in LiveLease ->
              <<Call("release"), Op("lease", "terminated"), Call("save")>>
         [] lease[job(t)].status \notin LiveLease /\ snap(t).state = "SUSPENDED" ->
              <<Op("lease", "terminated"), Call("save")>>
         [] OTHER -> <<Call("save")>>)
  /\ UNCHANGED <<store, lock, served, crashes>>

\* resume_deployment reads the ledger outside the placement lock ...
CallHeadroom(t) ==
  /\ Doing(t, "headroom")
  /\ \/ EffectiveRoom(job(t), snap(t).node)
        /\ GoOnWith(t, <<Call("reacquire")>>)
     \/ GoOn(t)
  /\ UNCHANGED <<store, lock, served, crashes>>

\* ... and reserves without capacity_gpus.
CallReacquire(t) ==
  /\ Doing(t, "reacquire")
  /\ hold' = [hold EXCEPT ![job(t)] = snap(t).node]
  /\ GoOnWith(t, <<Op("lease", "active"), Call("save")>>)
  /\ UNCHANGED <<row, lease, expired, box, health, lock, served, crashes>>

\* delete_workload: the deployment, its lease and its reservation at once.
CallDelete(t) ==
  /\ Doing(t, "delete")
  /\ LET d == job(t)
     IN /\ row' = [row EXCEPT ![d] = [NoRow EXCEPT !.state = "deleted"]]
        /\ lease' = [lease EXCEPT ![d] = NoLease]
        /\ hold' = [hold EXCEPT ![d] = NoNode]
  /\ GoOn(t)
  /\ UNCHANGED <<expired, box, health, lock, served, crashes>>

(***************************************************************************)
(* The rest of the worker, time, miners and crashes.                       *)
(***************************************************************************)

\* Mutant of Orphaned: only the holds of deleted deployments are reclaimed.
OrphanedByDeletion(d) == hold[d] # NoNode /\ row[d].state \in Missing

Orphaned(d) == hold[d] # NoNode /\ row[d].state \in Terminal \cup Missing

ReclaimOrphanedReservations ==
  /\ \E d \in Dep : Orphaned(d)
  /\ hold' = [d \in Dep |-> IF Orphaned(d) THEN NoNode ELSE hold[d]]
  /\ UNCHANGED <<row, lease, expired, box, health, lock, run, served, crashes>>

\* recover_inflight_events: a claimed delivery no thread works on any more.
RecoverDelivery(m) ==
  /\ box[m].status = "claimed"
  /\ \A t \in Thread : run[t].msg # m
  /\ box' = [box EXCEPT ![m].status = "pending"]
  /\ UNCHANGED <<row, lease, expired, hold, health, lock, run, served, crashes>>

LeaseTtlElapses(d) ==
  /\ "timeout" \in Offer
  /\ lease[d].status # "none" /\ ~expired[d]
  /\ expired' = [expired EXCEPT ![d] = TRUE]
  /\ UNCHANGED <<row, lease, hold, box, health, lock, run, served, crashes>>

MinerHealthChanges(n, h) ==
  /\ "unhealthy" \in Offer
  /\ health[n] # h
  /\ h \in {"silent_long", "silent_day"} => health[n] \in {"silent", "silent_long"}
  /\ health' = [health EXCEPT ![n] = h]
  /\ UNCHANGED <<row, lease, expired, hold, box, lock, run, served, crashes>>

InSection(t) == Doing(t, "reserve") \/ Doing(t, "hold")

\* The process of t dies between two of its calls.
Crash(t) ==
  /\ ~Idle(t)
  /\ crashes < MaxCrashes
  /\ crashes' = crashes + 1
  /\ lock' = (lock /\ ~InSection(t))
  /\ run' = [run EXCEPT ![t] = Resting]
  /\ UNCHANGED <<store, served>>

Enters(t, d) ==
  \/ CreateDeployment(t, d)
  \/ \E s \in {"PULLING", "STARTING", "READY", "SUSPENDED"} \cup Terminal : ReportStatus(t, d, s)
  \/ ProcessTimeouts(t, d) \/ ProcessUnhealthyMiners(t, d) \/ SuspendSweep(t, d)
  \/ ReapExhaustedPods(t, d) \/ StopSweep(t, d) \/ RequeueDeployment(t, d)
  \/ ResumeDeployment(t, d) \/ FailDeployment(t, d) \/ CleanupDeployment(t, d)
  \/ UpdateDeployment(t, d) \/ RecordHealthFailure(t, d) \/ ClearHealthFailures(t, d)
  \/ DeleteWorkload(t, d)

Calls(t) ==
  \/ CallUpdateStatus(t) \/ CallUpdateAssignment(t) \/ CallRelease(t) \/ CallSave(t)
  \/ CallPublish(t) \/ CallMark(t) \/ CallRequest(t) \/ CallChooseNode(t)
  \/ CallReserve(t) \/ CallHold(t) \/ CallSaveAssignment(t) \/ CallTimeout(t) \/ CallUnhealthy(t)
  \/ CallRequeue(t) \/ CallFail(t) \/ CallCleanup(t) \/ CallHeadroom(t)
  \/ CallReacquire(t) \/ CallDelete(t)

Next ==
  \/ \E t \in Thread : Calls(t) \/ Crash(t)
  \/ \E t \in Thread, d \in Dep : Enters(t, d)
  \/ \E t \in Thread, m \in Slot : ClaimRequest(t, m)
  \/ \E m \in Slot : RecoverDelivery(m)
  \/ \E d \in Dep : LeaseTtlElapses(d)
  \/ \E n \in Node, h \in MinerHealth : MinerHealthChanges(n, h)
  \/ ReclaimOrphanedReservations

Spec == Init /\ [][Next]_vars

\* The worker loop never stops: it makes the calls it has begun, claims what is
\* owed and runs its recovery sweeps.  Users, miners and crashes owe nothing.
Fairness ==
  /\ \A t \in Thread : WF_vars(Calls(t))
  /\ \A m \in Slot : SF_vars(\E t \in Thread : ClaimRequest(t, m)) /\ WF_vars(RecoverDelivery(m))
  /\ \A d \in Dep : /\ SF_vars(\E t \in Thread : ProcessTimeouts(t, d))
                   /\ SF_vars(\E t \in Thread : ProcessUnhealthyMiners(t, d))
  /\ WF_vars(ReclaimOrphanedReservations)

FairSpec == Spec /\ Fairness

(***************************************************************************)
(* Properties.                                                             *)
(***************************************************************************)

RunRec == [dep : Dep \cup {NoDep}, msg : Slot \cup {0}, row : Row, todo : Seq(PlannedOp)]

\* Rows, leases, reservations and deliveries keep their column types, and a
\* thread has only calls ahead of it that some handler makes.
TypeOK ==
  /\ row \in [Dep -> Row]
  /\ lease \in [Dep -> [status : LeaseStatus, node : Node \cup {NoNode}]]
  /\ expired \in [Dep -> BOOLEAN]
  /\ hold \in [Dep -> Node \cup {NoNode}]
  /\ box \in [Slot -> [dep : Dep \cup {NoDep}, status : {"absent", "pending", "claimed"}, tries : Nat]]
  /\ health \in [Node -> MinerHealth]
  /\ lock \in BOOLEAN
  /\ run \in [Thread -> RunRec]
  /\ served \in [Dep -> BOOLEAN]
  /\ crashes \in Nat

Quiet(d) == \A t \in Thread : ~Idle(t) => job(t) # d

\* The reservation ledger never commits more GPUs on a node than it has,
\* whichever threads schedule, requeue, clean up or die at once.
NodeNotOversubscribed == \A n \in Node : Reserved(hold, n) <= Gpus[n]

\* The containers that run on a node fit on it: no physical GPU is spent twice.
RunningFits ==
  LET running == {d \in Dep : row[d].state = "READY"}
      at == [d \in Dep |-> row[d].node]
  IN \A n \in Node : Cardinality(SlotsOf(running, at, n)) <= Gpus[n]

\* Between handlers, a READY deployment has an active lease and its GPUs on
\* the node the row names: suspend, resume, requeue and timeouts leave no
\* deployment running on GPUs the scheduler believes free.
ReadyIsBacked ==
  \A d \in Dep : Quiet(d) /\ row[d].state = "READY" =>
    /\ lease[d] = [status |-> "active", node |-> row[d].node]
    /\ hold[d] = row[d].node

\* Between handlers, a stopped deployment has no lease a node agent would act
\* on and holds no GPUs.
StoppedOwnsNothing ==
  \A d \in Dep : Quiet(d) /\ row[d].state \in Terminal =>
    lease[d].status \notin LiveLease /\ hold[d] = NoNode

\* Row, lease and reservation agree between handlers: what runs is backed by
\* GPUs, what is stopped has given them back.
OwnsWhatItShows == ReadyIsBacked /\ StoppedOwnsNothing

\* The first half of the latter survives a thread dying between any two of its calls,
\* because the row is saved last.
StoppedHasNoLiveLease ==
  \A d \in Dep : Quiet(d) /\ row[d].state \in Terminal => lease[d].status \notin LiveLease

\* Between handlers, a PENDING deployment is owed a scheduling attempt.
PendingHasDelivery ==
  \A d \in Dep : Quiet(d) /\ row[d].state = "PENDING" => \E m \in Slot : box[m].dep = d

\* A stopped deployment stays stopped, unless an operator requeues it.
TerminalAbsorbing ==
  [][\A d \in Dep : row[d].state \in Terminal =>
       \/ row'[d].state \in Terminal \cup {"deleted"}
       \/ \E t \in Thread : run[t].todo = <<Call("save"), Call("publish")>> /\ row'[d].state = "PENDING"]_vars

\* A deployment that keeps landing on dying miners is moved at most
\* deployment_reassign_retry_limit times.
ReassignBounded == \A d \in Dep : row[d].retry <= ReassignLimit

\* process_timeouts fails a deployment whose "lease expired before deployment
\* became ready": never one that has been ready under this lease.
TimeoutOnlyBeforeReady ==
  [][\A t \in Thread : CallTimeout(t) /\ ~Idle(t)' => ~served[job(t)]]_vars

\* Every scheduling request comes to an end: placed, given up or cancelled,
\* although the thread that serves it may die at any point and be retried.
EveryRequestResolves ==
  \A d \in Dep : (row[d].state = "PENDING" /\ \E m \in Slot : box[m].dep = d)
                 ~> row[d].state # "PENDING"

\* A hold that no live lease stands behind is given back in the end, even when
\* the thread that took it died before it wrote the lease.
LeakedHoldSelfCorrects ==
  \A d \in Dep : (hold[d] # NoNode /\ lease[d].status \notin LiveLease)
                 ~> (hold[d] = NoNode \/ lease[d].status \in LiveLease)
=============================================================================
