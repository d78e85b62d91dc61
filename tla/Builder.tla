------------------------------ MODULE Builder ------------------------------
(* The image builder: one build, its jobs (one per attempt), and the          *)
(* deliveries of "build.accepted" and "build.job.progress" on the durable bus *)
(* that carry it from stage to stage.  The builder process has one worker,    *)
(* which claims a batch and handles it delivery by delivery; every save,      *)
(* publish and mark of a handler is a transaction of its own, so each is an   *)
(* action.  The gateway calls start, cancel, retry, restart, clean-up and     *)
(* recovery from its own process.  Logs, events, checkpoints, digests and     *)
(* URIs are left out; so is the staged context, which no decision reads.      *)
EXTENDS Naturals, SequencesExt

CONSTANTS
    MaxAttempts,      \* attempts of the build: the first one and the retries
    MaxDeliveries,    \* deliveries alive at once (a bound of the model)
    MaxAutoRetries,   \* retry_count from which a failed stage is not retried
    MaxBuilderFaults, \* failing stages and deaths of the builder process
    MaxCalls,         \* clean-ups and recoveries the operator asks for (a bound)
    OperatorBeside    \* the gateway's calls run beside the worker's handlers

ASSUME BuilderAssumption ==
    /\ MaxAttempts \in Nat \ {0} /\ MaxDeliveries \in Nat \ {0}
    /\ MaxAutoRetries \in Nat /\ MaxBuilderFaults \in Nat /\ MaxCalls \in Nat
    /\ OperatorBeside \in BOOLEAN

VARIABLES
    build,     \* the row of the builds table
    job,       \* the job row of each attempt
    latestJob, \* the attempt whose job was saved last, 0 before the first
    queue,     \* the live deliveries of the consumer "builder-worker"
    bw,        \* the worker: where it is, its batch, its delivery, its snapshots
    caller,    \* the gateway's call under way
    stagesRun, \* history: the stages that ended well, as <<attempt, stage>>
    builderFaults,
    calls      \* clean-ups and recoveries asked for

builderVars == <<build, job, latestJob, queue, bw, caller, stagesRun, builderFaults, calls>>

Stages == {"staging", "building", "publishing"}

NextStage(s) == IF s = "staging" THEN "building" ELSE "publishing"
EarlierStages(s) == CASE s = "staging" -> {}
                      [] s = "building" -> {"staging"}
                      [] OTHER -> {"staging", "building"}
InProgress == {"accepted"} \cup Stages
Ended == {"published", "failed", "cancelled"}
Attempt == 1..MaxAttempts

NoJob == [st |-> "none", stage |-> "none", fin |-> FALSE]
NoBuild == [status |-> "none", retries |-> 0, valid |-> TRUE]
Accepted(a) == [subject |-> "accepted", attempt |-> a, stage |-> "none", st |-> "pending"]
Progress(a, s) == [subject |-> "progress", attempt |-> a, stage |-> s, st |-> "pending"]
IdleWorker == [pc |-> "idle", batch |-> {}, d |-> 0, b |-> NoBuild, j |-> NoJob, err |-> "none"]
NoCall == [pc |-> "none", b |-> NoBuild, j |-> NoJob, a |-> 0]

Room == Len(queue) < MaxDeliveries
Put(dlv) == Append(queue, dlv)
Numbered == DOMAIN queue
LiveDeliveries(a, subject) ==
    {d \in Numbered : queue[d].subject = subject /\ (a = 0 \/ queue[d].attempt = a)}
(* A settled delivery leaves the queue, and the others move up. *)
Without(S, d) == {IF x > d THEN x - 1 ELSE x : x \in S \ {d}}

BuilderInit ==
    /\ build = NoBuild
    /\ job = [a \in Attempt |-> NoJob] /\ latestJob = 0
    /\ queue = <<>>
    /\ bw = IdleWorker /\ caller = NoCall
    /\ stagesRun = {} /\ builderFaults = 0 /\ calls = 0

-----------------------------------------------------------------------------
(* The worker.  ev is the delivery in hand; to(pc) is the worker at its next  *)
(* step with the snapshots it holds.                                          *)
ev == queue[bw.d]
to(pc) == [bw EXCEPT !.pc = pc]
MayWork == OperatorBeside \/ caller.pc = "none"
Turn(pc) == bw.pc = pc /\ MayWork

SaveBuild(b) == build' = b /\ UNCHANGED stagesRun
SaveJob(a, j) == job' = [job EXCEPT ![a] = j] /\ latestJob' = a
KeepJobs == UNCHANGED <<job, latestJob>>
KeepRows == UNCHANGED <<build, job, latestJob, stagesRun>>
KeepRest == UNCHANGED <<caller, builderFaults, calls>>

(* claim_pending takes the whole batch before its first delivery is handled. *)
ClaimBuilds ==
    /\ Turn("idle")
    /\ LET due == {d \in Numbered : queue[d].st = "pending"} IN
       /\ due # {}
       /\ queue' = [d \in Numbered |-> IF d \in due THEN [queue[d] EXCEPT !.st = "processing"] ELSE queue[d]]
       /\ bw' = [to("next") EXCEPT !.batch = due]
    /\ KeepRows /\ KeepRest

BatchDone ==
    /\ Turn("next") /\ bw.batch = {}
    /\ bw' = IdleWorker
    /\ KeepRows /\ KeepRest /\ UNCHANGED queue

(* Mutant: only a published build is passed over. *)
TakesUpCancelled(status) == status # "published"

TakesUp(status) == status \notin {"cancelled", "published"}

(* Each delivery reads the build afresh; a cancelled or published one is      *)
(* only marked completed.                                                     *)
TakeDelivery ==
    /\ Turn("next") /\ bw.batch # {}
    /\ LET d == Min(bw.batch)
       IN IF TakesUp(build.status)
          THEN /\ bw' = [bw EXCEPT !.pc = IF queue[d].subject = "accepted" THEN "init" ELSE "advance",
                                   !.batch = @ \ {d}, !.d = d, !.b = build]
               /\ UNCHANGED queue
          ELSE /\ queue' = RemoveAt(queue, d)
               /\ bw' = [bw EXCEPT !.batch = Without(@, d)]
    /\ KeepRows /\ KeepRest

(* _initialize_or_resume_job: a job that exists is only announced again. *)
InitializeJob ==
    /\ Turn("init")
    /\ LET b == [bw.b EXCEPT !.status = "staging"]
           j == job[ev.attempt]
       IN CASE ~bw.b.valid -> bw' = [to("fail") EXCEPT !.err = "fatal"] /\ KeepRows
            [] bw.b.valid /\ j # NoJob -> bw' = [to("announce") EXCEPT !.j = j] /\ KeepRows
            [] OTHER -> /\ SaveBuild(b) /\ KeepJobs
                        /\ bw' = [to("create") EXCEPT !.b = b]
    /\ KeepRest /\ UNCHANGED queue

CreateJob ==
    /\ Turn("create")
    /\ LET j == [st |-> "queued", stage |-> "staging", fin |-> FALSE] IN
       /\ SaveJob(ev.attempt, j)
       /\ bw' = [to("announce") EXCEPT !.j = j]
    /\ KeepRest /\ UNCHANGED <<build, queue, stagesRun>>

AnnounceStage ==
    /\ Turn("announce") /\ Room
    /\ queue' = Put(Progress(ev.attempt, bw.j.stage))
    /\ bw' = to("done")
    /\ KeepRows /\ KeepRest

JobIsOver(j) == j.fin \/ j.st \in {"succeeded", "failed", "cancelled"}

(* _advance_job: a delivery whose job is over is only marked completed. *)
AdvanceJob ==
    /\ Turn("advance")
    /\ LET j == job[ev.attempt]
           running == [j EXCEPT !.st = "running"]
       IN CASE j = NoJob -> bw' = [to("fail") EXCEPT !.err = "fatal"] /\ KeepJobs
            [] j # NoJob /\ JobIsOver(j) -> bw' = to("done") /\ KeepJobs
            [] OTHER -> /\ SaveJob(ev.attempt, running)
                        /\ bw' = [to("mark") EXCEPT !.j = running]
    /\ KeepRest /\ UNCHANGED <<build, queue, stagesRun>>

MarkStage ==
    /\ Turn("mark")
    /\ LET b == [bw.b EXCEPT !.status = bw.j.stage] IN
       SaveBuild(b) /\ bw' = [to("run") EXCEPT !.b = b]
    /\ KeepJobs /\ KeepRest /\ UNCHANGED queue

(* run_stage: the object store, the executor or the registry answers or fails. *)
RunStage ==
    /\ Turn("run")
    /\ stagesRun' = stagesRun \cup {<<ev.attempt, bw.j.stage>>}
    /\ bw' = to("report")
    /\ KeepJobs /\ KeepRest /\ UNCHANGED <<build, queue>>

(* What the adapters make of a failing call: worth a retry, or not. *)
StageErrors == {"retryable", "fatal"}
StageFails(err) ==
    /\ Turn("run") /\ builderFaults < MaxBuilderFaults
    /\ builderFaults' = builderFaults + 1
    /\ bw' = [to("fail") EXCEPT !.err = err]
    /\ KeepRows /\ UNCHANGED <<queue, caller, calls>>

(* _apply_stage_result: the progress of the stage that ended is published     *)
(* first, on the subject the worker itself consumes.                          *)
ReportStage ==
    /\ Turn("report") /\ Room
    /\ queue' = Put(Progress(ev.attempt, bw.j.stage))
    /\ bw' = to(IF bw.j.stage = "publishing" THEN "publish" ELSE "queue")
    /\ KeepRows /\ KeepRest

QueueNextStage ==
    /\ Turn("queue")
    /\ LET j == [bw.j EXCEPT !.stage = NextStage(@)] IN
       SaveJob(ev.attempt, j) /\ bw' = [to("follow") EXCEPT !.j = j]
    /\ KeepRest /\ UNCHANGED <<build, queue, stagesRun>>

BuildFollowsJob ==
    /\ Turn("follow")
    /\ SaveBuild([bw.b EXCEPT !.status = bw.j.stage])
    /\ bw' = to("announce")
    /\ KeepJobs /\ KeepRest /\ UNCHANGED queue

AtLeast(n, m) == IF n >= m THEN n ELSE m

PublishBuild ==
    /\ Turn("publish")
    /\ SaveBuild([bw.b EXCEPT !.status = "published", !.retries = AtLeast(@, ev.attempt - 1)])
    /\ bw' = to("succeed")
    /\ KeepJobs /\ KeepRest /\ UNCHANGED queue

SucceedJob ==
    /\ Turn("succeed")
    /\ SaveJob(ev.attempt, [st |-> "succeeded", stage |-> "succeeded", fin |-> TRUE])
    /\ bw' = to("done")
    /\ KeepRest /\ UNCHANGED <<build, queue, stagesRun>>

(* _handle_job_failure: build and job are saved as failed first; a retryable  *)
(* failure below the budget then puts both back to the delivery's stage.      *)
Retries == bw.err = "retryable" /\ bw.b.retries < MaxAutoRetries

FailBuild ==
    /\ Turn("fail")
    /\ LET b == [bw.b EXCEPT !.status = "failed", !.retries = AtLeast(@, ev.attempt - 1)] IN
       SaveBuild(b) /\ bw' = [to("failjob") EXCEPT !.b = b]
    /\ KeepJobs /\ KeepRest /\ UNCHANGED queue

FailJob ==
    /\ Turn("failjob")
    /\ SaveJob(ev.attempt, [st |-> "failed", stage |-> "failed", fin |-> ~Retries])
    /\ bw' = to(IF Retries THEN "backbuild" ELSE "exhaust")
    /\ KeepRest /\ UNCHANGED <<build, queue, stagesRun>>

RetryBuildRow ==
    /\ Turn("backbuild")
    /\ SaveBuild([bw.b EXCEPT !.status = ev.stage])
    /\ bw' = to("backjob")
    /\ KeepJobs /\ KeepRest /\ UNCHANGED queue

RetryJobRow ==
    /\ Turn("backjob")
    /\ SaveJob(ev.attempt, [st |-> "queued", stage |-> ev.stage, fin |-> FALSE])
    /\ bw' = to("redeliver")
    /\ KeepRest /\ UNCHANGED <<build, queue, stagesRun>>

RetryDelivery ==
    /\ Turn("redeliver")
    /\ queue' = [queue EXCEPT ![bw.d].st = "pending"]
    /\ bw' = [IdleWorker EXCEPT !.pc = "next", !.batch = bw.batch]
    /\ KeepRows /\ KeepRest

ExhaustRetries ==
    /\ Turn("exhaust")
    /\ SaveBuild(bw.b)
    /\ bw' = to("done")
    /\ KeepJobs /\ KeepRest /\ UNCHANGED queue

(* mark_completed, or mark_failed without a retry: the delivery is settled. *)
SettleDelivery ==
    /\ Turn("done")
    /\ queue' = RemoveAt(queue, bw.d)
    /\ bw' = [IdleWorker EXCEPT !.pc = "next", !.batch = Without(bw.batch, bw.d)]
    /\ KeepRows /\ KeepRest

Recovering == caller.pc \in {"recover", "reaccept", "reprogress", "recovered"}

(* A death leaves the whole batch "processing"; the restart runs recovery     *)
(* once its deliveries are stale (README, departures: a faster one).          *)
BuilderDies ==
    /\ bw.pc # "down" /\ ~Recovering /\ builderFaults < MaxBuilderFaults
    /\ builderFaults' = builderFaults + 1
    /\ bw' = [IdleWorker EXCEPT !.pc = "down"]
    /\ KeepRows /\ UNCHANGED <<queue, caller, calls>>

WorkerStep ==
    \/ ClaimBuilds \/ BatchDone \/ TakeDelivery
    \/ InitializeJob \/ CreateJob \/ AnnounceStage
    \/ AdvanceJob \/ MarkStage \/ RunStage
    \/ ReportStage \/ QueueNextStage \/ BuildFollowsJob \/ PublishBuild \/ SucceedJob
    \/ FailBuild \/ FailJob \/ RetryBuildRow \/ RetryJobRow \/ RetryDelivery \/ ExhaustRetries
    \/ SettleDelivery

-----------------------------------------------------------------------------
(* The gateway's calls, one at a time. *)
call(pc) == [caller EXCEPT !.pc = pc]
MayCall == caller.pc = "none" /\ (OperatorBeside \/ bw.pc \in {"idle", "down"})
Asks == calls < MaxCalls /\ calls' = calls + 1
KeepWorker == UNCHANGED <<bw, builderFaults, stagesRun>>

StartBuild ==
    /\ MayCall /\ build = NoBuild
    /\ \E v \in BOOLEAN : build' = [NoBuild EXCEPT !.status = "accepted", !.valid = v]
    /\ caller' = [call("accept") EXCEPT !.a = 1]
    /\ KeepJobs /\ KeepWorker /\ UNCHANGED <<calls, queue>>

(* The last transaction of start_build and of retry_build. *)
PublishAccepted ==
    /\ caller.pc = "accept" /\ Room
    /\ queue' = Put(Accepted(caller.a))
    /\ caller' = NoCall
    /\ KeepJobs /\ KeepWorker /\ UNCHANGED <<calls, build>>

(* The gateway dies before start_build publishes: recovery finds the row. *)
StarterDies ==
    /\ caller.pc = "accept" /\ caller.a = 1 /\ builderFaults < MaxBuilderFaults
    /\ builderFaults' = builderFaults + 1
    /\ caller' = NoCall
    /\ KeepJobs /\ UNCHANGED <<build, bw, queue, stagesRun, calls>>

CancelBuild ==
    /\ MayCall /\ build.status \in InProgress
    /\ build' = [build EXCEPT !.status = "cancelled"]
    /\ caller' = [call("canceljob") EXCEPT !.a = build.retries + 1]
    /\ KeepJobs /\ KeepWorker /\ UNCHANGED <<calls, queue>>

CancelJob ==
    /\ caller.pc = "canceljob"
    /\ IF job[caller.a] # NoJob /\ ~job[caller.a].fin
       THEN SaveJob(caller.a, [st |-> "cancelled", stage |-> "cancelled", fin |-> TRUE])
       ELSE KeepJobs
    /\ caller' = NoCall
    /\ KeepWorker /\ UNCHANGED <<calls, build, queue>>

RetryBuild ==
    /\ MayCall /\ build.status \in InProgress \cup {"failed"}
    /\ build.retries + 1 < MaxAttempts
    /\ build' = [build EXCEPT !.status = "accepted", !.retries = @ + 1]
    /\ caller' = [call("accept") EXCEPT !.a = build.retries + 2]
    /\ KeepJobs /\ KeepWorker /\ UNCHANGED <<calls, queue>>

MayRestart == latestJob # 0 /\ (job[latestJob].fin \/ job[latestJob].st \in {"failed", "cancelled"})
RestartLatestJob == MayRestart /\ RetryBuild

(* cleanup_build writes back the whole row it read before the object store    *)
(* and the registry answered.                                                 *)
CleanupBuild ==
    /\ MayCall /\ Asks /\ build # NoBuild
    /\ caller' = [call("cleanup") EXCEPT !.b = build]
    /\ KeepJobs /\ KeepWorker /\ UNCHANGED <<build, queue>>

CleanupSave ==
    /\ caller.pc = "cleanup"
    /\ build' = caller.b /\ caller' = NoCall
    /\ KeepJobs /\ KeepWorker /\ UNCHANGED <<calls, queue>>

(* recover_inflight_jobs, at the builder's start and from the admin route:    *)
(* stale deliveries are requeued, then a build without a live delivery gets   *)
(* a new one - its "accepted" if it has no job, its job's stage otherwise.    *)
RequeueStale ==
    /\ IF bw.pc = "down" THEN caller.pc = "none" /\ UNCHANGED calls ELSE MayCall /\ Asks
    /\ queue' = [d \in Numbered |-> [queue[d] EXCEPT !.st = "pending"]]
    /\ caller' = call("recover")
    /\ KeepJobs /\ KeepWorker /\ UNCHANGED build

Republishes == build.status = "accepted" /\ latestJob = 0 /\ LiveDeliveries(0, "accepted") = {}
Requeues == /\ build.status \in InProgress /\ latestJob # 0
            /\ ~job[latestJob].fin /\ job[latestJob].st \in {"queued", "running"}
            /\ LiveDeliveries(latestJob, "progress") = {}

Recovered == IF bw.pc = "down" THEN bw' = IdleWorker ELSE UNCHANGED bw

RecoverJob ==
    /\ caller.pc = "recover"
    /\ CASE Republishes -> /\ caller' = [call("reaccept") EXCEPT !.a = build.retries + 1] /\ KeepJobs
         [] Requeues -> LET j == [job[latestJob] EXCEPT !.st = "queued"] IN
                        /\ SaveJob(latestJob, j)
                        /\ caller' = [call("reprogress") EXCEPT !.a = latestJob, !.j = j]
         [] OTHER -> caller' = call("recovered") /\ KeepJobs
    /\ KeepWorker /\ UNCHANGED <<calls, build, queue>>

RecoverPublish ==
    /\ caller.pc \in {"reaccept", "reprogress"} /\ Room
    /\ queue' = Put(IF caller.pc = "reaccept" THEN Accepted(caller.a) ELSE Progress(caller.a, caller.j.stage))
    /\ caller' = call("recovered")
    /\ KeepJobs /\ KeepWorker /\ UNCHANGED <<calls, build>>

RecoveryEnds ==
    /\ caller.pc = "recovered"
    /\ caller' = NoCall /\ Recovered
    /\ KeepJobs /\ UNCHANGED <<build, queue, stagesRun, builderFaults, calls>>

CallStep ==
    PublishAccepted \/ CancelJob \/ CleanupSave \/ RecoverJob \/ RecoverPublish \/ RecoveryEnds

BuilderNext ==
    \/ WorkerStep \/ (\E e \in StageErrors : StageFails(e)) \/ BuilderDies
    \/ StartBuild \/ StarterDies \/ CancelBuild \/ RetryBuild \/ RestartLatestJob \/ CleanupBuild
    \/ RequeueStale \/ CallStep

(* The worker polls, a call ends, and a dead builder is restarted. *)
BuilderFairness ==
    /\ WF_builderVars(WorkerStep)
    /\ WF_builderVars(CallStep)
    /\ WF_builderVars(bw.pc = "down" /\ RequeueStale)

BuilderSpec == BuilderInit /\ [][BuilderNext]_builderVars /\ BuilderFairness

-----------------------------------------------------------------------------
BuildRow == [status : {"none"} \cup InProgress \cup Ended, retries : 0..MaxAttempts, valid : BOOLEAN]
JobStage == Stages \cup {"none", "succeeded", "failed", "cancelled"}
JobRow == [st : {"none", "queued", "running", "succeeded", "failed", "cancelled"},
           stage : JobStage, fin : BOOLEAN]

(* Every row, delivery and snapshot a process holds keeps its type. *)
BuilderTypeOK ==
    /\ build \in BuildRow /\ job \in [Attempt -> JobRow] /\ latestJob \in 0..MaxAttempts
    /\ Len(queue) <= MaxDeliveries
    /\ \A d \in Numbered : queue[d] \in [subject : {"accepted", "progress"}, attempt : Attempt,
                                         stage : JobStage, st : {"pending", "processing"}]
    /\ bw.b \in BuildRow /\ bw.j \in JobRow /\ bw.batch \subseteq Numbered
    /\ caller.b \in BuildRow /\ caller.j \in JobRow
    /\ stagesRun \subseteq Attempt \X Stages /\ builderFaults \in 0..MaxBuilderFaults /\ calls \in 0..MaxCalls

(* No stage of an attempt ends before the stages it builds on ended in that   *)
(* attempt, although every stage is announced twice, a failure rewinds the    *)
(* job to the delivery's stage, and recovery re-announces what it last saw.   *)
StagesInOrder == \A r \in stagesRun : \A s \in EarlierStages(r[2]) : <<r[1], s>> \in stagesRun

(* What recovery cannot bring back: the builder died between the two saves of *)
(* a retry, and the row is back at its stage while the job still says failed. *)
LostInRetry == latestJob # 0 /\ job[latestJob].st = "failed" /\ ~job[latestJob].fin

(* Apart from that window no build in progress is forgotten: a delivery       *)
(* carries it, a call is about to publish one, or the next recovery           *)
(* republishes it.                                                            *)
UnfinishedIsCarried ==
    build.status \in InProgress =>
        \/ queue # <<>>
        \/ caller.pc \in {"accept", "canceljob", "reaccept", "reprogress"}
        \/ Republishes \/ Requeues \/ LostInRetry

(* A cancelled build stays cancelled: its deliveries are settled unread and   *)
(* no retry takes it up.                                                      *)
CancelledIsFinal == [][build.status = "cancelled" => build'.status = "cancelled"]_builderVars

(* A build that a delivery carries is published, failed or cancelled in the   *)
(* end, whatever the crashes and the retries on the way, or lost as above.    *)
EveryBuildEnds ==
    (build.status \in InProgress /\ queue # <<>>) ~> (build.status \in Ended \/ LostInRetry)

(* Stages run in order, no build is forgotten, and cancelling is final. *)
BuilderSafety == [](BuilderTypeOK /\ StagesInOrder /\ UnfinishedIsCarried) /\ CancelledIsFinal
=============================================================================
