-------------------------------- MODULE Flux --------------------------------
(* The validator's Flux orchestrator: which GPUs of a node serve the model    *)
(* catalog, and the replica rows it writes into the database it shares with   *)
(* the control plane.  A pass holds _flux_lock, so passes of the worker and   *)
(* of the admin route follow one another, but the rows change under a pass:   *)
(* replicas fail, rentals start, the catalog is edited.  A pass is therefore  *)
(* one action per hotkey and two per node, what it reads and what it writes.  *)
(* A replica takes one GPU.  Of the rows of one model on one node the newest  *)
(* is kept.  The second half is the reconciler of replicas that span nodes.   *)
EXTENDS Integers, FiniteSets, Sequences

CONSTANTS
    FluxNode, FluxHotkey, NodeOwner, \* nodes and the hotkey each belongs to
    Model,           \* single-node models of the catalog
    Gpus,            \* GPUs of a node
    MaxTarget,       \* max_replicas
    Cooldown,        \* 15 minutes, in units of the model's clock
    RankCount,       \* node_count of the distributed model
    MaxFluxEvents,   \* failures, edits, rentals, stale nodes, restarts (a bound)
    EarlyAdmin       \* the admin may rebalance before the first pass

ASSUME FluxAssumption ==
    /\ NodeOwner \in [FluxNode -> FluxHotkey] /\ IsFiniteSet(FluxNode) /\ IsFiniteSet(Model)
    /\ Gpus \in Nat \ {0, 1} /\ MaxTarget \in Nat \ {0} /\ Cooldown \in Nat \ {0}
    /\ RankCount \in Nat \ {0, 1} /\ MaxFluxEvents \in Nat /\ EarlyAdmin \in BOOLEAN

VARIABLES
    fx,         \* _flux_states: the split of each node and the models it serves
    target,     \* _replica_targets, with -1 before the first pass
    dep,        \* the newest replica row of each model on each node
    cool,       \* time left until a failure of the model on the hotkey is old
    wanted,     \* what the demand windows ask for
    public,     \* the models of the public catalog
    fresh,      \* nodes whose inventory is recent
    rented,     \* GPUs tenants hold on each node
    pass,       \* the pass under way
    rank, drun, \* rank rows of the distributed model, and its reconcile
    bigListed,  \* the distributed model is in the catalog
    fluxEvents

fluxVars == <<fx, target, dep, cool, wanted, public, fresh, rented, pass, rank, drun, bigListed, fluxEvents>>
single == <<fx, target, dep, cool, wanted, public, fresh, rented, pass>>
distributed == <<rank, drun, bigListed>>

Larger(a, b) == IF a >= b THEN a ELSE b
Smaller(a, b) == IF a <= b THEN a ELSE b
NodesOf(h) == {n \in FluxNode : NodeOwner[n] = h}
LiveOn(n) == {m \in Model : dep[n][m] = "live"}
LiveCount(h, m) == Cardinality({n \in NodesOf(h) : dep[n][m] = "live"})

NoState == [known |-> FALSE, inf |-> 0, rent |-> 0, idle |-> 0, serves |-> {}]
NoPass == [pc |-> "idle", hs |-> {}, ns |-> {}, rem |-> [m \in Model |-> 0], n |-> "none",
           kill |-> {}, make |-> {}]
NoRow == [st |-> "none", rep |-> 0]
NoRun == [pc |-> "idle", kill |-> {}, then |-> "idle", busy |-> {}, place |-> <<>>, rep |-> 0]

FluxInit ==
    /\ fx = [n \in FluxNode |-> NoState] /\ target = [m \in Model |-> -1]
    /\ dep = [n \in FluxNode |-> [m \in Model |-> "none"]]
    /\ cool = [h \in FluxHotkey |-> [m \in Model |-> 0]]
    /\ wanted = [m \in Model |-> 1] /\ public = Model
    /\ fresh = FluxNode /\ rented = [n \in FluxNode |-> 0]
    /\ pass = NoPass
    /\ rank = [n \in FluxNode |-> NoRow] /\ drun = NoRun /\ bigListed = TRUE
    /\ fluxEvents = 0

Happens == fluxEvents < MaxFluxEvents /\ fluxEvents' = fluxEvents + 1
Quiet == UNCHANGED fluxEvents

-----------------------------------------------------------------------------
(* The split of a node.  flex is the part of the flex pool demand gives to    *)
(* inference; only idle GPUs move.                                            *)
InferenceFloor == 1
RentalFloor == 1
FlexPool == Larger(0, Gpus - InferenceFloor - RentalFloor)

Split(s, flex) ==
    LET add  == Smaller(Larger(0, InferenceFloor + flex - s.inf), s.idle)
        left == s.idle - add
        rent == Smaller(Larger(0, RentalFloor + FlexPool - flex - s.rent), left)
    IN [s EXCEPT !.inf = @ + add, !.rent = @ + rent, !.idle = left - rent]

(* init_flux_state: what is not free when the node is first seen is a rental. *)
Bootstrapped(n) ==
    LET free == Gpus - Smaller(Gpus, rented[n] + Cardinality(LiveOn(n)))
    IN [NoState EXCEPT !.known = TRUE, !.rent = Gpus - free, !.idle = free]

(* assign_catalog_models: pinned replicas first, then the largest deficit,    *)
(* until every deficit is met.  Without targets it fills every GPU in turn.   *)
Grown(have, rem) ==
    LET deficit(m) == rem[m] - have[m]
        short == {m \in public : deficit(m) > 0}
    IN IF short = {} THEN have
       ELSE LET next == CHOOSE m \in short : \A x \in short : deficit(m) >= deficit(x)
            IN [have EXCEPT ![next] = @ + 1]

Filled(kept, rem, room) ==
    LET step[c \in 0..room] ==
            IF c = 0 THEN [m \in Model |-> IF m \in kept THEN 1 ELSE 0]
            ELSE Grown(step[c - 1], rem)
    IN {m \in Model : step[room][m] > 0}

Assigned(kept, rem, room, known) ==
    IF known THEN Filled(kept, rem, room)
    ELSE kept \cup (IF room >= Cardinality(public) THEN public
                    ELSE CHOOSE S \in SUBSET public : Cardinality(S) = room)

-----------------------------------------------------------------------------
(* compute_replica_targets: what demand asks for, of the public models. *)
ReplicaTargets == [m \in Model |-> IF m \in public THEN wanted[m] ELSE 0]

(* rebalance_all_miners: drop stale nodes, bootstrap fresh ones, set targets. *)
PassStarts ==
    /\ pass.pc = "idle"
    /\ fx' = [n \in FluxNode |-> CASE n \notin fresh -> NoState
                                   [] n \in fresh /\ ~fx[n].known -> Bootstrapped(n)
                                   [] OTHER -> fx[n]]
    /\ target' = ReplicaTargets
    /\ pass' = [NoPass EXCEPT !.pc = "hotkeys", !.hs = {NodeOwner[n] : n \in fresh}]
    /\ Quiet /\ UNCHANGED <<dep, cool, wanted, public, fresh, rented, distributed>>

(* The admin's call rebalances one hotkey with the targets it finds. *)
AdminRebalance ==
    /\ pass.pc = "idle" /\ (EarlyAdmin \/ \A m \in Model : target[m] >= 0)
    /\ \E h \in FluxHotkey : pass' = [NoPass EXCEPT !.pc = "hotkeys", !.hs = {h}]
    /\ Happens /\ UNCHANGED <<fx, target, dep, cool, wanted, public, fresh, rented, distributed>>

(* rebalance_miner: the deficit left after the hotkey's live replicas. *)
HotkeyStarts(h) ==
    /\ pass.pc = "hotkeys" /\ h \in pass.hs
    /\ pass' = [pass EXCEPT !.pc = "nodes", !.hs = @ \ {h},
                            !.ns = {n \in NodesOf(h) : fx[n].known},
                            !.rem = [m \in Model |-> Larger(0, target[m] - LiveCount(h, m))]]
    /\ Quiet /\ UNCHANGED <<fx, target, dep, cool, wanted, public, fresh, rented, distributed>>

(* Mutant: every node of a hotkey is handed the whole deficit. *)
LeftOverAll(rem, taken) == rem

LeftOver(rem, taken) == [m \in Model |-> IF m \in taken THEN Larger(0, rem[m] - 1) ELSE rem[m]]

Serving(n) == LiveOn(n)

RebalanceNode(n) ==
    /\ pass.pc = "nodes" /\ n \in pass.ns
    /\ \E flex \in 0..FlexPool, kept \in SUBSET (LiveOn(n) \cap public) :
         LET s == Split(fx[n], flex)
             pins == LiveOn(n) \cap public
             known == \A m \in Model : target[m] >= 0
             models == Assigned(kept, pass.rem, s.inf - Cardinality(kept), known)
         IN /\ Cardinality(kept) = Smaller(s.inf, Cardinality(pins))
            /\ fx' = [fx EXCEPT ![n] = [s EXCEPT !.serves = models]]
            /\ pass' = [pass EXCEPT !.pc = "apply", !.ns = @ \ {n}, !.n = n,
                          !.rem = LeftOver(@, models \ LiveOn(n)),
                          !.kill = LiveOn(n) \ models,
                          !.make = {m \in models \ Serving(n) : cool[NodeOwner[n]][m] = 0}]
    /\ Quiet /\ UNCHANGED <<target, dep, cool, wanted, public, fresh, rented, distributed>>

(* _reconcile_catalog_deployments writes: a row that failed in the meantime   *)
(* is left as it is, and a termination starts the cooldown as a failure does. *)
ApplyNode ==
    /\ pass.pc = "apply"
    /\ LET n == pass.n
           gone == {m \in pass.kill : dep[n][m] = "live"}
       IN /\ dep' = [dep EXCEPT ![n] = [m \in Model |-> CASE m \in gone -> "terminated"
                                                         [] m \in pass.make -> "live"
                                                         [] OTHER -> dep[n][m]]]
          /\ cool' = [cool EXCEPT ![NodeOwner[n]] = [m \in Model |-> IF m \in gone THEN Cooldown ELSE @[m]]]
    /\ pass' = [pass EXCEPT !.pc = "nodes", !.n = "none", !.kill = {}, !.make = {}]
    /\ Quiet /\ UNCHANGED <<fx, target, wanted, public, fresh, rented, distributed>>

HotkeyEnds ==
    /\ pass.pc = "nodes" /\ pass.ns = {}
    /\ pass' = IF pass.hs = {} THEN NoPass ELSE [pass EXCEPT !.pc = "hotkeys"]
    /\ Quiet /\ UNCHANGED <<fx, target, dep, cool, wanted, public, fresh, rented, distributed>>

(* What changes around a pass.                                                *)
ReplicaFails ==
    /\ \E n \in FluxNode, m \in Model :
         /\ dep[n][m] = "live" /\ dep' = [dep EXCEPT ![n][m] = "failed"]
         /\ cool' = [cool EXCEPT ![NodeOwner[n]][m] = Cooldown]
    /\ Happens /\ UNCHANGED <<fx, target, wanted, public, fresh, rented, pass, distributed>>

DemandMoves ==
    /\ \E m \in Model, t \in 0..MaxTarget : t # wanted[m] /\ wanted' = [wanted EXCEPT ![m] = t]
    /\ Happens /\ UNCHANGED <<fx, target, dep, cool, public, fresh, rented, pass, distributed>>

CatalogEdited ==
    /\ \E m \in Model : public' = IF m \in public THEN public \ {m} ELSE public \cup {m}
    /\ Happens /\ UNCHANGED <<fx, target, dep, cool, wanted, fresh, rented, pass, distributed>>

NodeGoesStale ==
    /\ \E n \in fresh : fresh' = fresh \ {n}
    /\ Happens /\ UNCHANGED <<fx, target, dep, cool, wanted, public, rented, pass, distributed>>

NodeReturns ==
    /\ fresh # FluxNode /\ fresh' = FluxNode
    /\ Quiet /\ UNCHANGED <<fx, target, dep, cool, wanted, public, rented, pass, distributed>>

RentalStarts ==
    /\ \E n \in FluxNode :
         /\ rented[n] + Cardinality(LiveOn(n)) < Gpus
         /\ rented' = [rented EXCEPT ![n] = @ + 1]
    /\ Happens /\ UNCHANGED <<fx, target, dep, cool, wanted, public, fresh, pass, distributed>>

RentalEnds ==
    /\ \E n \in FluxNode : rented[n] > 0 /\ rented' = [rented EXCEPT ![n] = @ - 1]
    /\ Quiet /\ UNCHANGED <<fx, target, dep, cool, wanted, public, fresh, pass, distributed>>

CooldownPasses ==
    /\ \E h \in FluxHotkey, m \in Model : cool[h][m] > 0
    /\ cool' = [h \in FluxHotkey |-> [m \in Model |-> Larger(0, cool[h][m] - 1)]]
    /\ Quiet /\ UNCHANGED <<fx, target, dep, wanted, public, fresh, rented, pass, distributed>>

(* The maps live in memory: a restart forgets them, and the next pass starts  *)
(* from the rows.                                                             *)
FluxRestarts ==
    /\ fx' = [n \in FluxNode |-> NoState] /\ target' = [m \in Model |-> -1]
    /\ pass' = NoPass /\ drun' = NoRun
    /\ Happens /\ UNCHANGED <<dep, cool, wanted, public, fresh, rented, rank, bigListed>>

PassSteps == PassStarts \/ (\E h \in FluxHotkey : HotkeyStarts(h)) \/ ApplyNode \/ HotkeyEnds
             \/ \E n \in FluxNode : RebalanceNode(n)

CatalogNext ==
    \/ PassSteps \/ AdminRebalance \/ ReplicaFails \/ DemandMoves \/ CatalogEdited
    \/ NodeGoesStale \/ NodeReturns \/ RentalStarts \/ RentalEnds \/ CooldownPasses \/ FluxRestarts
CatalogFairness ==
    WF_fluxVars(PassSteps) /\ WF_fluxVars(CooldownPasses)

-----------------------------------------------------------------------------
(* _reconcile_distributed_replicas: one model served by RankCount nodes of    *)
(* one hotkey.  rank[n] is the row of the rank on node n, with its replica;   *)
(* drun.place lists the nodes still to be given a rank, the head first.       *)
Ranked == {n \in FluxNode : rank[n].st # "none"}
Replicas == {rank[n].rep : n \in Ranked}
Members(r) == {n \in Ranked : rank[n].rep = r}

(* replica_action: keep only what is whole and live. *)
Whole(r) == /\ \A n \in Members(r) : rank[n].st = "live"
            /\ Cardinality(Members(r)) = RankCount

DistributedReads ==
    /\ drun.pc = "idle"
    /\ LET kill == IF bigListed THEN {n \in Ranked : ~Whole(rank[n].rep)} ELSE Ranked
           then == IF bigListed /\ ~\E r \in Replicas : Whole(r) THEN "plan" ELSE "idle"
       IN drun' = [NoRun EXCEPT !.pc = IF kill # {} THEN "kill" ELSE then,
                                !.kill = kill, !.then = then, !.busy = Ranked]
    /\ Quiet /\ UNCHANGED <<single, rank, bigListed>>

(* Mutant: a rank that failed keeps its row, as a single-node replica does. *)
RetiredSpared(n) == IF rank[n].st = "failed" THEN rank[n] ELSE NoRow

Retired(n) == NoRow

(* _teardown_replica, one row at a time. *)
TeardownRank ==
    /\ drun.pc = "kill"
    /\ \E n \in drun.kill :
         /\ rank' = [rank EXCEPT ![n] = Retired(n)]
         /\ drun' = [drun EXCEPT !.kill = @ \ {n},
                                 !.pc = IF drun.kill = {n} THEN drun.then ELSE "kill"]
    /\ Quiet /\ UNCHANGED <<single, bigListed>>

(* plan_multi_node_placement: RankCount free nodes of one operator, or none;  *)
(* the rows read at the start of the reconcile say what is busy.              *)
PlanReplica ==
    /\ drun.pc = "plan"
    /\ LET groups == {g \in SUBSET (FluxNode \ drun.busy) :
                        Cardinality(g) = RankCount /\ \E h \in FluxHotkey : g \subseteq NodesOf(h)}
       IN IF groups = {} THEN drun' = NoRun
          ELSE \E g \in groups, order \in [1..RankCount -> FluxNode] :
                 /\ {order[i] : i \in 1..RankCount} = g
                 /\ drun' = [NoRun EXCEPT !.pc = "place", !.place = order,
                                          !.rep = IF 1 \in Replicas THEN 2 ELSE 1]
    /\ Quiet /\ UNCHANGED <<single, rank, bigListed>>

CreateRank ==
    /\ drun.pc = "place"
    /\ LET n == Head(drun.place) IN
       /\ rank' = [rank EXCEPT ![n] = [st |-> "live", rep |-> drun.rep]]
       /\ drun' = IF Len(drun.place) = 1 THEN NoRun ELSE [drun EXCEPT !.place = Tail(@)]
    /\ Quiet /\ UNCHANGED <<single, bigListed>>

RankFails ==
    /\ \E n \in Ranked : rank[n].st = "live" /\ rank' = [rank EXCEPT ![n].st = "failed"]
    /\ Happens /\ UNCHANGED <<single, drun, bigListed>>

BigModelEdited ==
    /\ bigListed' = ~bigListed
    /\ Happens /\ UNCHANGED <<single, rank, drun>>

DistributedSteps == DistributedReads \/ TeardownRank \/ PlanReplica \/ CreateRank
DistributedNext == DistributedSteps \/ RankFails \/ BigModelEdited \/ FluxRestarts
DistributedFairness == WF_fluxVars(DistributedSteps)

-----------------------------------------------------------------------------
(* Every GPU of a node Flux knows is in exactly one of the three pools. *)
FluxTypeOK ==
    /\ \A n \in FluxNode :
         /\ fx[n].inf \in 0..Gpus /\ fx[n].rent \in 0..Gpus /\ fx[n].idle \in 0..Gpus
         /\ fx[n].known => fx[n].inf + fx[n].rent + fx[n].idle = Gpus
         /\ fx[n].serves \subseteq Model
    /\ target \in [Model -> -1..MaxTarget] /\ wanted \in [Model -> 0..MaxTarget]
    /\ dep \in [FluxNode -> [Model -> {"none", "live", "failed", "terminated"}]]
    /\ cool \in [FluxHotkey -> [Model -> 0..Cooldown]]
    /\ public \subseteq Model /\ fresh \subseteq FluxNode /\ rented \in [FluxNode -> 0..Gpus]
    /\ \A n \in FluxNode : rank[n].st \in {"none", "live", "failed"} /\ rank[n].rep \in 0..2
    /\ fluxEvents \in 0..MaxFluxEvents

(* A pass starts a replica of a model only while the hotkey runs fewer than   *)
(* the model's target, over all its nodes: the deficit is handed on from node *)
(* to node (rebalance_miner).                                                 *)
StartsOnlyDeficit ==
    [][\A h \in FluxHotkey, m \in Model :
         (\E n \in NodesOf(h) : dep[n][m] # "live" /\ dep'[n][m] = "live")
            => LiveCount(h, m) < target[m]]_fluxVars

(* Once the world is quiet every deficit a node has room for is filled: a     *)
(* failed replica comes back after its cooldown.                              *)
DeficitsFill ==
    <>[](\A h \in FluxHotkey, m \in public :
           LiveCount(h, m) < wanted[m] =>
             \A n \in NodesOf(h) : dep[n][m] = "live" \/ fx[n].inf <= Cardinality(LiveOn(n)))

(* A distributed replica is all or nothing: one with a missing or dead rank,  *)
(* or of a model that left the catalog, does not stay, whatever the restart   *)
(* between two rows of a placement or a teardown.                             *)
PartialReplicaGoes ==
    \A r \in {1, 2} : []<>(r \in Replicas => bigListed /\ Whole(r))

(* The comment above the bootstrap: Flux never places a replica on top of a   *)
(* running rental.  It does: the split is never read again.                   *)
NeverOverRental ==
    [][\A n \in FluxNode, m \in Model :
         (dep[n][m] # "live" /\ dep'[n][m] = "live")
            => rented[n] + Cardinality(LiveOn(n)) < Gpus]_fluxVars

FluxSpec == FluxInit /\ [][CatalogNext \/ DistributedNext]_fluxVars

(* What a pass may do: its pools add up, and it starts only what is missing. *)
FluxSafety == []FluxTypeOK /\ StartsOnlyDeficit
=============================================================================
