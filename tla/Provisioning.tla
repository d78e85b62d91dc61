---------------------------- MODULE Provisioning ----------------------------
(***************************************************************************)
(* A provider onboards a server: create_provider_server's row, the SSH job *)
(* that sets the machine up in the background, and the row's deletion      *)
(* meanwhile.  Each command over SSH and each update of the row is a step. *)
(***************************************************************************)
EXTENDS Naturals, Sequences

CONSTANTS
  Server,
  MaxReadyChecks      \* attempts of the readyz loop

ASSUME ProvisioningAssumption == MaxReadyChecks \in Nat \ {0}

\* provision_server's stages, in order.
Stages == <<"connect", "detect", "docker", "clone", "env", "up", "ready">>

VARIABLES
  listed,       \* miner_whitelist has the provider's hotkey
  serverRow,    \* provider_servers.status, "none" before and "gone" after
  sshJob,       \* the background task: [pc, stage, checks]; pc "none", "queued", "ssh", "ok", "error", "over", "dead"
  machine,      \* the stages done on the machine
  agent         \* is the node agent answering on the machine?

provisionVars == <<listed, serverRow, sshJob, machine, agent>>

NoJob == [pc |-> "none", stage |-> 1, checks |-> 0]

ProvisionInit ==
  /\ listed = FALSE
  /\ serverRow = [s \in Server |-> "none"] /\ sshJob = [s \in Server |-> NoJob]
  /\ machine = [s \in Server |-> {}] /\ agent = [s \in Server |-> FALSE]

Whitelisted == listed' = TRUE /\ ~listed /\ UNCHANGED <<serverRow, sshJob, machine, agent>>

\* create_provider_server refuses a hotkey that is not whitelisted (an admin's
\* request excepted), saves the row and queues the job.
CreateProviderServer(s, admin) ==
  /\ serverRow[s] = "none" /\ (admin \/ listed)
  /\ serverRow' = [serverRow EXCEPT ![s] = "pending"]
  /\ sshJob' = [sshJob EXCEPT ![s].pc = "queued"]
  /\ UNCHANGED <<listed, machine, agent>>

\* update_provider_server_status: no row, no update.
SavedStatus(s, status) == [serverRow EXCEPT ![s] = status]
UpdatedStatus(s, status) == IF serverRow[s] = "gone" THEN serverRow ELSE [serverRow EXCEPT ![s] = status]

\* run_provisioning: on_status("provisioning").
RunProvisioning(s) ==
  /\ sshJob[s].pc = "queued"
  /\ serverRow' = UpdatedStatus(s, "provisioning")
  /\ sshJob' = [sshJob EXCEPT ![s].pc = "ssh"]
  /\ UNCHANGED <<listed, machine, agent>>

Stage(s) == Stages[sshJob[s].stage]
SSHReaches(s, stage) == sshJob[s].pc = "ssh" /\ Stage(s) = stage

\* A stage's commands succeed: connect, detect the hardware, install docker,
\* clone, write .env, and docker compose up.
StageDone(s) ==
  /\ sshJob[s].pc = "ssh" /\ Stage(s) # "ready"
  /\ machine' = [machine EXCEPT ![s] = @ \cup {Stage(s)}]
  /\ sshJob' = [sshJob EXCEPT ![s].stage = @ + 1]
  /\ UNCHANGED <<listed, serverRow, agent>>

\* A checked command fails, no GPU or public address is found, or SSH drops.
StageFails(s) ==
  /\ sshJob[s].pc = "ssh"
  /\ sshJob' = [sshJob EXCEPT ![s].pc = "error"]
  /\ UNCHANGED <<listed, serverRow, machine, agent>>

\* The readyz loop: up to MaxReadyChecks tries, then an error.
AgentReady(s) == agent[s]
CheckReady(s) ==
  /\ SSHReaches(s, "ready")
  /\ sshJob' = [sshJob EXCEPT ![s] =
       IF AgentReady(s) THEN [@ EXCEPT !.pc = "ok"]
       ELSE IF @.checks + 1 = MaxReadyChecks THEN [@ EXCEPT !.pc = "error"]
       ELSE [sshJob[s] EXCEPT !.checks = @ + 1]]
  /\ machine' = IF AgentReady(s) THEN [machine EXCEPT ![s] = @ \cup {"ready"}] ELSE machine
  /\ UNCHANGED <<listed, serverRow, agent>>

\* The final update: "running" after every stage, else "failed".
FinishProvisioning(s) ==
  /\ sshJob[s].pc \in {"ok", "error"}
  /\ serverRow' = UpdatedStatus(s, IF sshJob[s].pc = "ok" THEN "running" ELSE "failed")
  /\ sshJob' = [sshJob EXCEPT ![s].pc = "over"]
  /\ UNCHANGED <<listed, machine, agent>>

DeleteProviderServer(s) ==
  /\ serverRow[s] \notin {"none", "gone"}
  /\ serverRow' = [serverRow EXCEPT ![s] = "gone"]
  /\ UNCHANGED <<listed, sshJob, machine, agent>>

\* The container comes up on the machine (external).
AgentStarts(s) ==
  /\ "up" \in machine[s] /\ ~agent[s]
  /\ agent' = [agent EXCEPT ![s] = TRUE]
  /\ UNCHANGED <<listed, serverRow, sshJob, machine>>

\* The gateway stops: its background task is not taken up again.
ProvisioningDies(s) ==
  /\ sshJob[s].pc \in {"queued", "ssh", "ok", "error"}
  /\ sshJob' = [sshJob EXCEPT ![s].pc = "dead"]
  /\ UNCHANGED <<listed, serverRow, machine, agent>>

JobStep(s) == RunProvisioning(s) \/ StageDone(s) \/ StageFails(s) \/ CheckReady(s) \/ FinishProvisioning(s)

ProvisionNext ==
  \/ Whitelisted
  \/ \E s \in Server :
       \/ JobStep(s) \/ DeleteProviderServer(s) \/ AgentStarts(s) \/ ProvisioningDies(s)
       \/ \E admin \in BOOLEAN : CreateProviderServer(s, admin)

ProvisionFairness == \A s \in Server : WF_provisionVars(JobStep(s))

\* A server shown as running has its agent up after every stage, although the
\* row is updated step by step and checked with a bounded number of tries.
RunningIsReady == \A s \in Server : serverRow[s] = "running" => agent[s] /\ machine[s] = {Stages[i] : i \in 1..Len(Stages)}

\* A deleted server never comes back, although its job goes on and keeps
\* updating the row it was started for.
DeletedStaysGone == [][\A s \in Server : serverRow[s] = "gone" => serverRow'[s] = "gone"]_provisionVars

\* Every job ends with a verdict on its row, unless the gateway stops.
JobsOver == \A s \in Server : serverRow[s] \in {"pending", "provisioning"} => sshJob[s].pc = "dead"
ProvisioningEnds == []<>JobsOver

\* Every variable keeps its type, and a job runs only for a row that was saved.
ProvisionTypeOK ==
  /\ serverRow \in [Server -> {"none", "pending", "provisioning", "running", "failed", "gone"}]
  /\ \A s \in Server : /\ sshJob[s].stage \in 1..Len(Stages) /\ sshJob[s].checks \in 0..MaxReadyChecks
                       /\ serverRow[s] = "none" <=> sshJob[s].pc = "none"
  /\ listed \in BOOLEAN /\ agent \in [Server -> BOOLEAN]
=============================================================================
