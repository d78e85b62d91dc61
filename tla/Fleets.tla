------------------------------- MODULE Fleets -------------------------------
(***************************************************************************)
(* One fleet: "keep N running" (replace) or "start N as GPUs free up".     *)
(* The loop's pass and the customer's changes run under the fleet's lock;  *)
(* members start, run, pause and end meanwhile, and the gateway may die    *)
(* between starting a member and recording it.                             *)
(***************************************************************************)
EXTENDS Integers, FiniteSets, FiniteSetsExt

CONSTANTS
  MaxTarget,
  FailuresBeforePause,  \* FAILURES_BEFORE_PAUSE
  MaxMembers,           \* bound on the members ever started
  MaxFleetEdits,        \* bound on the customer's changes
  MaxFleetFaults        \* bound on deaths and failing calls

ASSUME FleetsAssumption ==
  /\ MaxTarget \in Nat \ {0} /\ FailuresBeforePause \in Nat \ {0} /\ MaxMembers \in Nat
  /\ MaxFleetEdits \in Nat /\ MaxFleetFaults \in Nat

VARIABLES
  fleet,        \* the row: [state, target, replace, reset]; reset: members created before failures_reset_at
  member,       \* by creation: [state, slot, ready, known, ran]; known: its member row exists
  lastMember,
  fleetPass,    \* who holds the lock: [pc, need, used, kill]
  room,         \* would create_deployment succeed now (GPUs, credit, key limits)?
  orderable,    \* do the workload and the key still exist?
  peakTarget,   \* history: the highest target
  fleetEdits, fleetFaults

passVars == <<fleetPass, fleetFaults>>
fleetVars == <<fleet, member, lastMember, fleetPass, room, orderable, peakTarget, fleetEdits, fleetFaults>>

MemberId == 1 .. MaxMembers
Started == 1 .. lastMember
NoPass == [pc |-> "idle", need |-> 0, used |-> {}, kill |-> {}]
Finished == {"failed", "terminated"}

FleetInit ==
  /\ fleet = [state |-> "none", target |-> 0, replace |-> TRUE, reset |-> 0]
  /\ member = [d \in MemberId |-> [state |-> "none", slot |-> 0, ready |-> FALSE, known |-> FALSE, ran |-> FALSE]]
  /\ lastMember = 0 /\ fleetPass = NoPass
  /\ room = TRUE /\ orderable = TRUE
  /\ peakTarget = 0 /\ fleetEdits = 0 /\ fleetFaults = 0

FleetFault == fleetFaults < MaxFleetFaults /\ fleetFaults' = fleetFaults + 1
FleetEdit == fleetEdits < MaxFleetEdits /\ fleetEdits' = fleetEdits + 1
Live == {d \in Started : member[d].state \notin Finished}

(***************************************************************************)
(* The customer.                                                           *)
(***************************************************************************)

CreateFleet ==
  /\ fleet.state = "none"
  /\ \E target \in 1 .. MaxTarget, replace \in BOOLEAN :
       fleet' = [state |-> "active", target |-> target, replace |-> replace, reset |-> 0]
  /\ peakTarget' = fleet'.target
  /\ fleetPass' = [NoPass EXCEPT !.pc = "held"]
  /\ UNCHANGED <<member, lastMember, room, orderable, fleetEdits, fleetFaults>>

\* update_fleet: under the lock, followed by a pass of its own.
UpdateFleet ==
  /\ fleetPass = NoPass /\ FleetEdit
  /\ fleet.state \in {"active", "paused", "completed"}
  /\ \/ \E target \in 1 .. MaxTarget :
          fleet' = [fleet EXCEPT !.target = target,
                                 !.state = IF @ = "completed" /\ ~fleet.replace THEN "active" ELSE @]
     \/ fleet' = [fleet EXCEPT !.state = "paused"]
     \/ fleet.state = "paused" /\ fleet' = [fleet EXCEPT !.state = "active", !.reset = lastMember]
  /\ peakTarget' = Max({peakTarget, fleet'.target})
  /\ fleetPass' = [NoPass EXCEPT !.pc = "held"]
  /\ UNCHANGED <<member, lastMember, room, orderable, fleetFaults>>

\* stop_fleet: marked stopped under the lock, then its members are stopped unless they are kept.
StopFleetUnlocked ==
  /\ fleet.state \notin {"none", "stopped"} /\ FleetEdit
  /\ fleet' = [fleet EXCEPT !.state = "stopped"]
  /\ UNCHANGED <<member, lastMember, room, orderable, peakTarget, fleetPass, fleetFaults>>
StopFleet ==
  /\ fleetPass = NoPass /\ FleetEdit
  /\ fleet.state \notin {"none", "stopped"}
  /\ fleet' = [fleet EXCEPT !.state = "stopped"]
  /\ \E keep \in BOOLEAN :
       LET kill == IF keep THEN {} ELSE {d \in Live : member[d].known} IN
       fleetPass' = [NoPass EXCEPT !.pc = IF kill = {} THEN "idle" ELSE "stop", !.kill = kill]
  /\ UNCHANGED <<member, lastMember, room, orderable, peakTarget, fleetFaults>>

(***************************************************************************)
(* The pass, _reconcile_locked.                                            *)
(***************************************************************************)

\* _adopt_orphans: live members that were started and not recorded.
Adopted ==
  IF fleet.state # "active" THEN member
  ELSE [d \in MemberId |-> IF d \in Live THEN [member[d] EXCEPT !.known = TRUE] ELSE member[d]]

\* _record_progress: who has been seen ready.
Progress(m) == [d \in MemberId |-> IF m[d].known /\ m[d].ready THEN [m[d] EXCEPT !.ran = TRUE] ELSE m[d]]

\* How many of the newest members failed before they were ever ready, since the reset.
FailedStreak(m) ==
  LET rows == {d \in Started : m[d].known}
      Failed(d) == m[d].state = "failed" /\ ~m[d].ready /\ d > fleet.reset
  IN Cardinality({d \in rows : \A e \in rows : e >= d => Failed(e)})

\* _stop_extras: not yet ready ones first, then the highest slots.
StopsBefore(d, e) ==
  LET ready(x) == member[x].state = "ready" IN
  IF ready(d) = ready(e) THEN member[d].slot >= member[e].slot ELSE ~ready(d)
Extras(live) ==
  CHOOSE X \in SUBSET live :
    /\ Cardinality(X) = Cardinality(live) - fleet.target
    /\ \A d \in X, e \in live \ X : StopsBefore(d, e)

\* _ran_count; in replace mode nothing counts but the live ones.
RanMembers(m) == IF fleet.replace THEN {} ELSE {d \in Started : m[d].ran}
Lacking(m, live) == fleet.target - Cardinality(live) - Cardinality(RanMembers(m))

ReconcileLocked ==
  /\ fleetPass \in {NoPass, [NoPass EXCEPT !.pc = "held"]}
  /\ fleet.state \in {"active", "paused"}
  /\ LET m == Progress(Adopted)
         live == {d \in Live : m[d].known}
         need == Lacking(m, live)
         extras == Cardinality(live) > fleet.target
         streak == FailedStreak(m) >= FailuresBeforePause
     IN /\ member' = m
        /\ fleet' = [fleet EXCEPT !.state =
             IF @ = "paused" THEN @
             ELSE IF streak \/ (need > 0 /\ ~orderable) THEN "paused"
             ELSE IF need <= 0 /\ live = {} /\ ~fleet.replace THEN "completed" ELSE @]
        /\ fleetPass' =
             CASE extras /\ ~(fleet.state = "active" /\ streak) -> [NoPass EXCEPT !.pc = "stop", !.kill = Extras(live)]
               [] fleet'.state = "active" /\ need > 0 /\ ~extras ->
                    [NoPass EXCEPT !.pc = "start", !.need = need,
                                   !.used = {m[d].slot : d \in live \cup RanMembers(m)}]
               [] OTHER -> NoPass
  /\ UNCHANGED <<lastMember, room, orderable, peakTarget, fleetEdits, fleetFaults>>

FreeSlot(used) == Min((1 .. MaxMembers + 1) \ used)

\* create_deployment commits the member ...
StartMember ==
  /\ fleetPass.pc = "start" /\ room /\ lastMember < MaxMembers
  /\ lastMember' = lastMember + 1
  /\ member' = [member EXCEPT ![lastMember + 1] =
                  [state |-> "starting", slot |-> FreeSlot(fleetPass.used), ready |-> FALSE, known |-> FALSE, ran |-> FALSE]]
  /\ fleetPass' = [fleetPass EXCEPT !.pc = "record"]
  /\ UNCHANGED <<fleet, room, orderable, peakTarget, fleetEdits, fleetFaults>>

\* ... and its row is written in a transaction of its own.
RecordMember ==
  /\ fleetPass.pc = "record"
  /\ member' = [member EXCEPT ![lastMember].known = TRUE]
  /\ fleetPass' = IF fleetPass.need = 1 THEN NoPass
                  ELSE [fleetPass EXCEPT !.pc = "start", !.need = @ - 1, !.used = @ \cup {member[lastMember].slot}]
  /\ UNCHANGED <<fleet, lastMember, room, orderable, peakTarget, fleetEdits, fleetFaults>>

\* No GPU, no credit, a key's limit or any error ends the pass; a lost workload pauses the fleet.
StartRefused ==
  /\ fleetPass.pc = "start" /\ (~room \/ ~orderable)
  /\ fleet' = IF orderable THEN fleet ELSE [fleet EXCEPT !.state = "paused"]
  /\ fleetPass' = NoPass
  /\ UNCHANGED <<member, lastMember, room, orderable, peakTarget, fleetEdits, fleetFaults>>

\* terminate_deployment of the next one to stop; an error leaves it to the next pass.
StopMember ==
  /\ fleetPass.pc = "stop"
  /\ \E d \in fleetPass.kill :
       /\ \/ member' = [member EXCEPT ![d].state = IF @ \in Finished THEN @ ELSE "terminated"] /\ UNCHANGED fleetFaults
          \/ FleetFault /\ UNCHANGED member
       /\ fleetPass' = IF fleetPass.kill = {d} THEN NoPass ELSE [fleetPass EXCEPT !.kill = @ \ {d}]
  /\ UNCHANGED <<fleet, lastMember, room, orderable, peakTarget, fleetEdits>>

\* The gateway dies: the lock goes with its connection.
FleetGatewayDies ==
  /\ fleetPass # NoPass /\ FleetFault
  /\ fleetPass' = NoPass
  /\ UNCHANGED <<fleet, member, lastMember, room, orderable, peakTarget, fleetEdits>>

(***************************************************************************)
(* Meanwhile.                                                              *)
(***************************************************************************)

MemberMoves(d) ==
  /\ \/ member[d].state \in {"starting", "suspended"}
        /\ member' = [member EXCEPT ![d].state = "ready", ![d].ready = TRUE]
     \/ member[d].state = "ready" /\ member' = [member EXCEPT ![d].state = "suspended"]
     \/ member[d].state = "starting" /\ member' = [member EXCEPT ![d].state = "failed"]
     \/ member[d].state \in {"ready", "suspended"} /\ member' = [member EXCEPT ![d].state = "terminated"]
  /\ UNCHANGED <<fleet, lastMember, fleetPass, room, orderable, peakTarget, fleetEdits, fleetFaults>>

RoomChanges ==
  /\ room' = ~room
  /\ UNCHANGED <<fleet, member, lastMember, fleetPass, orderable, peakTarget, fleetEdits, fleetFaults>>

WorkloadOrKeyDeleted ==
  /\ orderable /\ FleetEdit /\ orderable' = FALSE
  /\ UNCHANGED <<fleet, member, lastMember, fleetPass, room, peakTarget, fleetFaults>>

PassStep == StartMember \/ RecordMember \/ StartRefused \/ StopMember

FleetNext ==
  \/ CreateFleet \/ UpdateFleet \/ StopFleet \/ ReconcileLocked \/ PassStep \/ FleetGatewayDies
  \/ RoomChanges \/ WorkloadOrKeyDeleted
  \/ \E d \in Started : MemberMoves(d)

\* fleet_loop comes round every 30 seconds and a pass goes on.
FleetFairness == WF_fleetVars(ReconcileLocked) /\ WF_fleetVars(PassStep)

(***************************************************************************)
(* Properties.                                                             *)
(***************************************************************************)

\* Every variable keeps its type.
FleetTypeOK ==
  /\ fleet.state \in {"none", "active", "paused", "completed", "stopped"} /\ fleet.target \in 0 .. MaxTarget
  /\ member \in [MemberId -> [state : {"none", "starting", "ready", "suspended", "failed", "terminated"},
                              slot : 0 .. MaxMembers + 1, ready : BOOLEAN, known : BOOLEAN, ran : BOOLEAN]]
  /\ lastMember \in 0 .. MaxMembers
  /\ fleetPass.pc \in {"idle", "held", "start", "record", "stop"} /\ fleetPass.need \in 0 .. MaxTarget
  /\ fleetPass.kill \subseteq MemberId

\* "so a request and the loop can't both start the same members": a member is only started
\* when fewer than the target live, counting one that an earlier pass died before recording.
StartsOnlyMissing ==
  [][lastMember' > lastMember => fleet.state = "active" /\ Cardinality(Live) < fleet.target]_fleetVars

\* "a replacement takes the slot of the one it replaces, so a pool's worker names stay put":
\* two live members never have one name.
OneMemberPerSlot == \A d, e \in Live : member[d].slot = member[e].slot => d = e

\* Start-N-once mode: members that ended are not replaced, so no more (of those a pass could
\* record before they ended) ever run than were asked for.
RunsAtMostTarget ==
  fleet.state # "none" /\ ~fleet.replace => Cardinality({d \in Started : member[d].ready /\ member[d].known}) <= peakTarget

\* "If three members in a row fail before ever becoming ready ... the fleet pauses": a broken
\* image costs a fleet of one no more starts than that until the customer resumes it.
BrokenImageStops ==
  LET rows == {d \in Started : member[d].known}
      tail == {d \in rows : d > fleet.reset /\ \A e \in rows : e >= d => member[e].state = "failed" /\ ~member[e].ready}
  IN peakTarget = 1 => Cardinality(tail) <= FailuresBeforePause

\* With room, an active keep-N-running fleet gets to its target, over and over.
FleetFull ==
  fleet.state = "active" /\ fleet.replace /\ room => Cardinality(Live) >= fleet.target \/ lastMember = MaxMembers
FleetFills == []<>FleetFull

\* "start `target` as GPUs free up" (schemas.py, FleetCreate.replace): with room, an active
\* start-N-once fleet starts all its members.
OnceFleetFills ==
  <>[]room =>
    ((fleet.state = "active" /\ ~fleet.replace)
       ~> (lastMember >= fleet.target \/ fleet.state # "active"))
\* What fleets.py promises of one fleet through passes, edits and deaths: no member too
\* many is started, names are unique, once-mode replaces nothing, a broken image pauses.
FleetSafety == [](FleetTypeOK /\ OneMemberPerSlot /\ RunsAtMostTarget /\ BrokenImageStops) /\ StartsOnlyMissing
=============================================================================
