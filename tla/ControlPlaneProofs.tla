-------------------------- MODULE ControlPlaneProofs --------------------------
(***************************************************************************)
(* The control plane's types, its reservation ledger, and the agreement of *)
(* the deployments row, its lease and its reservation, for any number of   *)
(* deployments, nodes and threads.                                         *)
(*                                                                         *)
(* The ledger theorem needs three facts that are not visible in it: which  *)
(* calls a thread may have ahead of it (WellPlanned), that the placement   *)
(* lock is exclusive (LockExcludes), and that the sum reserve_gpus read is *)
(* still true when it writes (CheckStillHolds).  The last one is what a    *)
(* resume breaks, so the theorem is stated for a control plane without it, *)
(* and once more for handlers that run one at a time (Alone).              *)
(*                                                                         *)
(* Agreement says what the three rows are to each other between handlers   *)
(* and, for every handler, what its remaining calls will still make of     *)
(* them.  The code does not serialise handlers about one deployment, and   *)
(* where they overlap the rows do part; what is proved is that a handler   *)
(* left to itself breaks nothing, wherever it dies (OneAtATime).           *)
(***************************************************************************)
EXTENDS ControlPlane, SequenceTheorems, FiniteSetTheorems, TLAPS

\* Calls that any handler may have ahead of it, at any distance.
Plain ==
  {o \in PlannedOp :
     o.op \notin {"request", "choose", "reserve", "hold", "headroom", "reacquire"}}

\* Calls that may be next for a thread that works on message m (0: on none).
Nextable(m) ==
  {o \in PlannedOp :
     /\ m = 0 => o.op \notin {"request", "choose", "reserve", "hold"}
     /\ "resume" \notin Offer => o.op \notin {"headroom", "reacquire"}}

PlanOK(r) ==
  IF r.todo = <<>> THEN r.msg = 0
  ELSE r.dep \in Dep /\ Head(r.todo) \in Nextable(r.msg) /\ Tail(r.todo) \in Seq(Plain)

WellPlanned == \A t \in Thread : PlanOK(run[t])

\* A delivery is about a deployment, and one a thread works on is claimed and
\* its alone.
OwnsDelivery ==
  /\ \A m \in Slot : box[m].status # "absent" => box[m].dep \in Dep
  /\ \A t \in Thread : run[t].msg # 0 => box[run[t].msg].status = "claimed"
  /\ \A t, u \in Thread : run[t].msg # 0 /\ run[t].msg = run[u].msg => t = u

LockExcludes ==
  /\ \A t \in Thread : InSection(t) => lock
  /\ \A t, u \in Thread : InSection(t) /\ InSection(u) => t = u

Fits(d, h, n) == ReservedByOthers(d, h, n) + Need[d] <= Gpus[n]
\* What resume_deployment reads instead: its own reservation counts too.
HasRoom(d, h, n) == Reserved(h, n) + Need[d] <= Gpus[n]

CheckStillHolds ==
  "resume" \notin Offer =>
    \A t \in Thread : Doing(t, "hold") /\ snap(t).node \in Node => Fits(job(t), hold, snap(t).node)

-----------------------------------------------------------------------------
\* The calls the handlers plan, by name.
LEMMA PlainOps ==
  /\ \A s \in State : Op("update", s) \in Plain
  /\ \A s \in LeaseStatus : Op("lease", s) \in Plain
  /\ \A s \in {"pending", "failed", "completed"} : Op("mark", s) \in Plain
  /\ \A s \in MinerHealth : Op("unhealthy", s) \in Plain
  /\ \A s \in {"operator", "sweep"} : Op("requeue", s) \in Plain
  /\ \A s \in {"release", "place", "save", "publish", "timeout", "cleanup", "fail", "delete"} :
       Call(s) \in Plain
  BY DEF Plain, PlannedOp, Op, Call

\* The bookkeeping calls are also next-able.
LEMMA PlainIsNextable ==
  /\ Plain \subseteq PlannedOp
  /\ \A m : Plain \subseteq Nextable(m)
  BY DEF Plain, Nextable

\* What planning ops before the calls already planned does to a run.
LEMMA Prepend ==
  ASSUME NEW r \in RunRec, r.todo # <<>>, PlanOK(r),
         NEW ops \in Seq(Plain), NEW left, left = ops \o Tail(r.todo)
  PROVE  left \in Seq(Plain) /\ left \in Seq(PlannedOp)
<1>1. Tail(r.todo) \in Seq(Plain)
  BY DEF PlanOK
<1>2. left \in Seq(Plain)
  BY <1>1, ConcatProperties
<1> QED
  BY <1>2, PlainIsNextable, SeqMonotonic

\* A plan of plain calls is fine, whatever the message.
LEMMA PlainPlan ==
  ASSUME NEW r, r.todo \in Seq(Plain), r.todo # <<>>, r.dep \in Dep
  PROVE  PlanOK(r) /\ Head(r.todo).op \notin {"reserve", "hold", "reacquire"}
<1>1. Head(r.todo) \in Plain /\ Tail(r.todo) \in Seq(Plain)
  BY HeadTailProperties
<1> QED
  BY <1>1, PlainIsNextable DEF Plain, PlanOK

\* Others' runs, and t's own after a step that leaves it plain calls only.
StaysPlain(t) ==
  /\ run' \in [Thread -> RunRec]
  /\ \A u \in Thread : u # t => run'[u] = run[u]
  /\ PlanOK(run'[t])
  /\ run'[t].msg \in {0, run[t].msg}
  /\ run'[t].todo # <<>> => Head(run'[t].todo).op \notin {"reserve", "hold", "reacquire"}

\* A thread that returns from its handler is well typed and plans nothing special.
LEMMA RestingOK ==
  Resting \in RunRec /\ PlanOK(Resting) /\ Resting.todo = <<>> /\ Resting.msg = 0
<1>1. NoRow \in Row
  BY DEF NoRow, Row, State, Missing
<1> QED
  BY <1>1, EmptySeq DEF Resting, RunRec, PlanOK

\* A call that plans only plain calls, with a typed row, leaves a well-typed thread whose
\* plan is still plain.
LEMMA ThenPlain ==
  ASSUME run \in [Thread -> RunRec], NEW t \in Thread, ~Idle(t), PlanOK(run[t]),
         NEW r \in Row, NEW ops \in Seq(Plain), Then(t, r, ops)
  PROVE  StaysPlain(t)
<1> DEFINE left == ops \o Tail(run[t].todo)
<1>1. left \in Seq(Plain) /\ left \in Seq(PlannedOp)
  BY Prepend DEF Idle
<1> HIDE DEF left
<1>2. run' = [run EXCEPT ![t] = IF left = <<>> THEN Resting
                                ELSE [run[t] EXCEPT !.row = r, !.todo = left]]
  BY DEF Then, left
<1>3. CASE left = <<>>
  <2>1. run' = [run EXCEPT ![t] = Resting]
    BY <1>2, <1>3
  <2> QED
    BY <2>1, RestingOK DEF StaysPlain
<1>4. CASE left # <<>>
  <2>1. run'[t] = [run[t] EXCEPT !.row = r, !.todo = left]
    BY <1>2, <1>4
  <2>2. run'[t] \in RunRec /\ run'[t].todo = left /\ run'[t].msg = run[t].msg /\ run'[t].dep \in Dep
    BY <2>1, <1>1 DEF RunRec, PlanOK, Idle
  <2>3. run' \in [Thread -> RunRec] /\ \A u \in Thread : u # t => run'[u] = run[u]
    BY <1>2, <2>1, <2>2
  <2> QED
    BY <1>1, <1>4, <2>2, <2>3, PlainPlan DEF StaysPlain
<1> QED
  BY <1>3, <1>4

\* An exception leaves nothing to do but the mark.
LEMMA RaisePlain ==
  ASSUME run \in [Thread -> RunRec], NEW t \in Thread, ~Idle(t), PlanOK(run[t]), Raise(t)
  PROVE  StaysPlain(t)
<1>1. CASE run[t].msg = 0
  <2>1. run' = [run EXCEPT ![t] = Resting]
    BY <1>1 DEF Raise
  <2> QED
    BY <2>1, RestingOK DEF StaysPlain
<1>2. CASE run[t].msg # 0
  <2>1. PICK s \in {"pending", "failed"} : run' = [run EXCEPT ![t] = [@ EXCEPT !.todo = <<Op("mark", s)>>]]
    BY <1>2 DEF Raise
  <2>2. <<Op("mark", s)>> \in Seq(Plain) /\ <<Op("mark", s)>> \in Seq(PlannedOp)
    BY PlainOps, PlainIsNextable
  <2>3. run'[t] \in RunRec /\ run'[t].todo = <<Op("mark", s)>>
        /\ run'[t].msg = run[t].msg /\ run'[t].dep \in Dep
    BY <2>1, <2>2 DEF RunRec, PlanOK, Idle
  <2>4. run' \in [Thread -> RunRec] /\ \A u \in Thread : u # t => run'[u] = run[u]
    BY <2>1, <2>3
  <2>5. <<Op("mark", s)>> # <<>>
    OBVIOUS
  <2> QED
    BY <2>2, <2>3, <2>4, <2>5, PlainPlan DEF StaysPlain
<1> QED
  BY <1>1, <1>2

\* A call that plans one more call of the placement before the rest.
StaysSpecial(t, r, o) ==
  /\ run' \in [Thread -> RunRec]
  /\ \A u \in Thread : u # t => run'[u] = run[u]
  /\ PlanOK(run'[t])
  /\ run'[t].dep = run[t].dep /\ run'[t].msg = run[t].msg /\ run'[t].row = r
  /\ run'[t].todo # <<>> /\ Head(run'[t].todo) = o

\* The same for a call that puts one placement call in front of a plain plan.
LEMMA ThenSpecial ==
  ASSUME run \in [Thread -> RunRec], NEW t \in Thread, ~Idle(t), PlanOK(run[t]),
         NEW r \in Row, NEW o \in Nextable(run[t].msg), Then(t, r, <<o>>)
  PROVE  StaysSpecial(t, r, o)
<1> DEFINE rest == Tail(run[t].todo)
           left == <<o>> \o rest
<1>1. rest \in Seq(Plain)
  BY DEF PlanOK, Idle
<1>2. rest \in Seq(PlannedOp) /\ o \in PlannedOp
  BY <1>1, PlainIsNextable, SeqMonotonic DEF Nextable
<1>3. left \in Seq(PlannedOp) /\ left # <<>> /\ Head(left) = o /\ Tail(left) = rest
  BY <1>2
<1> HIDE DEF left
<1>4. run' = [run EXCEPT ![t] = [run[t] EXCEPT !.row = r, !.todo = left]]
  BY <1>3 DEF Then, left
<1>5. run'[t] = [run[t] EXCEPT !.row = r, !.todo = left]
  BY <1>4
<1>6. run'[t] \in RunRec /\ run'[t].todo = left /\ run'[t].row = r
      /\ run'[t].msg = run[t].msg /\ run'[t].dep = run[t].dep
  BY <1>5, <1>3 DEF RunRec
<1>7. PlanOK(run'[t])
  BY <1>1, <1>3, <1>6 DEF PlanOK, Idle
<1>8. run' \in [Thread -> RunRec] /\ \A u \in Thread : u # t => run'[u] = run[u]
  BY <1>4, <1>5, <1>6
<1> QED
  BY <1>3, <1>6, <1>7, <1>8 DEF StaysSpecial

-----------------------------------------------------------------------------
\* What a call, a crash or an entry of t does to the runs and to the lock.
Moves(t) ==
  /\ run' \in [Thread -> RunRec]
  /\ \A u \in Thread : u # t => run'[u] = run[u]
  /\ PlanOK(run'[t])
  /\ \/ ~InSection(t) /\ ~InSection(t)' /\ lock' = lock
     \/ ~lock /\ lock' = TRUE
     \/ InSection(t) /\ lock' = lock
     \/ InSection(t) /\ ~InSection(t)' /\ lock' = FALSE
  /\ Doing(t, "hold")' => hold' = hold /\ Fits(job(t)', hold, snap(t)'.node)
  /\ Doing(t, "reacquire")' => hold' = hold /\ HasRoom(job(t)', hold, snap(t)'.node)

KeepsMessage(t) == run'[t].msg \in {0, run[t].msg}

StoreOK ==
  /\ row \in [Dep -> Row]
  /\ lease \in [Dep -> [status : LeaseStatus, node : Node \cup {NoNode}]]
  /\ expired \in [Dep -> BOOLEAN]
  /\ hold \in [Dep -> Node \cup {NoNode}]
  /\ box \in [Slot -> [dep : Dep \cup {NoDep}, status : {"absent", "pending", "claimed"}, tries : Nat]]
  /\ health \in [Node -> MinerHealth]
  /\ lock \in BOOLEAN
  /\ served \in [Dep -> BOOLEAN]
  /\ crashes \in Nat

\* TypeOK is the typing of the tables together with the typing of the threads.
LEMMA StoreIsTyped == TypeOK <=> StoreOK /\ run \in [Thread -> RunRec]
  BY DEF TypeOK, StoreOK

\* The same in the next state.
LEMMA StoreIsTypedNext ==
  ASSUME StoreOK', run' \in [Thread -> RunRec]
  PROVE  TypeOK'
  BY DEF TypeOK, StoreOK

\* A step of t outside the placement, on a thread that is not inside it.
LEMMA PlainMove ==
  ASSUME NEW t \in Thread, StaysPlain(t), ~InSection(t), lock' = lock
  PROVE  Moves(t) /\ KeepsMessage(t)
  BY DEF StaysPlain, Moves, KeepsMessage, InSection, Doing, Idle

\* What a thread that has a call to make knows.
LEMMA Busy ==
  ASSUME TypeOK, WellPlanned, NEW t \in Thread, NEW name, Doing(t, name)
  PROVE  /\ ~Idle(t) /\ PlanOK(run[t]) /\ run \in [Thread -> RunRec] /\ StoreOK
         /\ job(t) \in Dep /\ snap(t) \in Row /\ row[job(t)] \in Row
         /\ Head(run[t].todo) \in Nextable(run[t].msg)
         /\ name \notin {"reserve", "hold"} => ~InSection(t)
<1>1. ~Idle(t) /\ PlanOK(run[t]) /\ run \in [Thread -> RunRec] /\ StoreOK
  BY StoreIsTyped DEF Doing, WellPlanned
<1>2. job(t) \in Dep /\ Head(run[t].todo) \in Nextable(run[t].msg)
  BY <1>1 DEF PlanOK, Idle, job
<1>3. snap(t) \in Row /\ row[job(t)] \in Row
  BY <1>1, <1>2 DEF RunRec, snap, StoreOK
<1> QED
  BY <1>1, <1>2, <1>3 DEF InSection, Doing

\* The calls of a placement are made for a delivery.
LEMMA Serving ==
  ASSUME TypeOK, WellPlanned, NEW t \in Thread,
         NEW name \in {"request", "choose", "reserve", "hold"}, Doing(t, name)
  PROVE  run[t].msg # 0 /\ run[t].msg \in Slot /\ tries(t) \in Nat
<1>1. run[t].msg # 0
  BY Busy DEF Nextable, Doing
<1>2. run[t].msg \in Slot
  BY <1>1, Busy DEF RunRec
<1> QED
  BY <1>1, <1>2, Busy DEF StoreOK, tries

\* The next call of a placement may be planned.
LEMMA PlacementOps ==
  ASSUME NEW m, m # 0, NEW name \in {"choose", "reserve", "hold"}
  PROVE  Call(name) \in Nextable(m) /\ Call(name).op = name
  BY DEF Nextable, PlannedOp, Call, Op

\* A call outside the placement that goes on with plain calls.
LEMMA MovesOn ==
  ASSUME TypeOK, WellPlanned, NEW t \in Thread, NEW name, name \notin {"reserve", "hold"},
         Doing(t, name), NEW r \in Row, NEW ops \in Seq(Plain), Then(t, r, ops), lock' = lock
  PROVE  Moves(t) /\ KeepsMessage(t)
<1>1. StaysPlain(t)
  BY Busy, ThenPlain
<1> QED
  BY <1>1, Busy, PlainMove

\* A call that only goes on with the handler's plan keeps it well formed.
LEMMA GoesOn ==
  ASSUME TypeOK, WellPlanned, NEW t \in Thread, NEW name, name \notin {"reserve", "hold"},
         Doing(t, name), GoOn(t), lock' = lock
  PROVE  Moves(t) /\ KeepsMessage(t)
<1>1. Then(t, snap(t), <<>>) /\ snap(t) \in Row
  BY Busy DEF GoOn
<1>2. <<>> \in Seq(Plain)
  BY EmptySeq
<1> QED
  BY <1>1, <1>2, MovesOn

\* Giving up on a placement, for now or for good.
LEMMA NoCapacityPlain ==
  ASSUME TypeOK, WellPlanned, NEW t \in Thread, NEW name \in {"choose", "reserve"},
         Doing(t, name), NoCapacity(t)
  PROVE  StaysPlain(t)
<1> DEFINE r == [snap(t) EXCEPT !.node = NoNode, !.retry = Larger(@, tries(t))]
           ops1 == <<Call("save"), Op("update", "FAILED"), Op("mark", "failed")>>
           ops2 == <<Call("save"), Op("mark", "pending")>>
<1>1. r \in Row
  BY Busy, Serving DEF Row, Larger
<1>2. Then(t, r, ops1) \/ Then(t, r, ops2)
  BY DEF NoCapacity
<1>3. ops1 \in Seq(Plain) /\ ops2 \in Seq(Plain)
  BY PlainOps DEF State, Terminal
<1> QED
  BY <1>1, <1>2, <1>3, Busy, ThenPlain

\* Every call keeps the types and moves the thread along its plan.
LEMMA CallStep ==
  ASSUME TypeOK, WellPlanned, NEW t \in Thread, Calls(t)
  PROVE  StoreOK' /\ Moves(t) /\ KeepsMessage(t)
<1> USE StoreIsTyped
<1>e. <<>> \in Seq(Plain)
  BY EmptySeq
<1>1. CASE CallUpdateStatus(t)
  <2>1. Doing(t, "update") /\ UNCHANGED <<store, lock, served, crashes>>
    BY <1>1 DEF CallUpdateStatus
  <2>2. Arg(t) \in State
    BY <2>1, Busy DEF Nextable, PlannedOp, Doing, Arg
  <2>3. StatusCalls(Arg(t)) \in Seq(Plain)
    <3> DEFINE s == Arg(t)
    <3>1. LeaseFor(s) \in Seq(Plain)
      BY PlainOps, <1>e DEF LeaseFor, LeaseStatus, LiveLease
    <3>2. (IF Frees(s) THEN <<Call("release")>> ELSE <<>>) \in Seq(Plain)
      BY PlainOps, <1>e
    <3>3. <<Call("save")>> \in Seq(Plain)
      BY PlainOps
    <3>4. LeaseFor(s) \o (IF Frees(s) THEN <<Call("release")>> ELSE <<>>) \in Seq(Plain)
      BY <3>1, <3>2, ConcatProperties
    <3> QED
      BY <3>3, <3>4, ConcatProperties DEF StatusCalls
  <2>4. CASE GoOn(t)
    BY <2>1, <2>4, Busy, GoesOn DEF store, StoreOK
  <2>5. CASE Raise(t)
    BY <2>1, <2>5, Busy, RaisePlain, PlainMove DEF store, StoreOK
  <2>6. ASSUME Then(t, [row[job(t)] EXCEPT !.state = Arg(t), !.health = IF Arg(t) = "READY" THEN 0 ELSE @],
                    StatusCalls(Arg(t)))
        PROVE  StoreOK' /\ Moves(t) /\ KeepsMessage(t)
    <3>1. [row[job(t)] EXCEPT !.state = Arg(t), !.health = IF Arg(t) = "READY" THEN 0 ELSE @] \in Row
      BY <2>1, <2>2, Busy DEF Row
    <3>2. StaysPlain(t)
      BY <2>1, <2>3, <2>6, <3>1, Busy, ThenPlain
    <3> QED
      BY <2>1, <3>2, Busy, PlainMove DEF store, StoreOK
  <2> QED
    BY <1>1, <2>4, <2>5, <2>6 DEF CallUpdateStatus
<1>2. CASE CallUpdateAssignment(t)
  <2>1. Doing(t, "lease") /\ GoOn(t) /\ UNCHANGED <<row, expired, hold, box, health, lock, served, crashes>>
    BY <1>2 DEF CallUpdateAssignment
  <2>2. Arg(t) \in LeaseStatus
    BY <2>1, Busy DEF Nextable, PlannedOp, Doing, Arg
  <2>3. StaysPlain(t)
    BY <2>1, <1>e, Busy, ThenPlain DEF GoOn
  <2>4. StoreOK'
    BY <1>2, <2>1, <2>2, Busy DEF CallUpdateAssignment, StoreOK
  <2> QED
    BY <2>1, <2>3, <2>4, Busy, PlainMove
<1>3. CASE CallRelease(t)
  <2>1. Doing(t, "release") /\ GoOn(t) /\ lock' = lock
    BY <1>3 DEF CallRelease
  <2>2. StoreOK'
    BY <1>3, <2>1, Busy DEF CallRelease, StoreOK
  <2> QED
    BY <2>1, <2>2, GoesOn
<1>4. CASE CallSave(t)
  <2>1. Doing(t, "save") /\ GoOn(t) /\ lock' = lock
    BY <1>4 DEF CallSave
  <2>2. StoreOK'
    BY <1>4, <2>1, Busy DEF CallSave, StoreOK
  <2> QED
    BY <2>1, <2>2, GoesOn
<1>5. CASE CallPublish(t)
  <2>1. Doing(t, "publish") /\ GoOn(t) /\ lock' = lock
    BY <1>5 DEF CallPublish
  <2>2. StoreOK'
    BY <1>5, <2>1, Busy DEF CallPublish, StoreOK
  <2> QED
    BY <2>1, <2>2, GoesOn
<1>6. CASE CallMark(t)
  <2>1. Doing(t, "mark") /\ lock' = lock /\ run' = [run EXCEPT ![t] = Resting]
    BY <1>6 DEF CallMark
  <2>2. StoreOK'
    BY <1>6, <2>1, Busy DEF CallMark, StoreOK, NoMessage
  <2>3. StaysPlain(t)
    BY <2>1, RestingOK, Busy DEF StaysPlain
  <2> QED
    BY <2>1, <2>2, <2>3, Busy, PlainMove
<1>7. CASE CallRequest(t)
  <2>1. Doing(t, "request") /\ UNCHANGED <<store, lock, served, crashes>>
    BY <1>7 DEF CallRequest
  <2>2. StoreOK'
    BY <2>1, Busy DEF store, StoreOK
  <2>3. CASE Then(t, row[job(t)], <<Call("choose")>>)
    <3>1. Call("choose") \in Nextable(run[t].msg)
      BY <2>1, Serving, PlacementOps
    <3>2. StaysSpecial(t, row[job(t)], Call("choose"))
      BY <2>1, <2>3, <3>1, Busy, ThenSpecial
    <3>3. Call("choose").op = "choose"
      BY DEF Call, Op
    <3>4. ~InSection(t) /\ ~InSection(t)' /\ ~Doing(t, "reacquire")'
      BY <2>1, <3>2, <3>3, Busy DEF StaysSpecial, InSection, Doing
    <3> QED
      BY <2>1, <2>2, <3>2, <3>4 DEF StaysSpecial, Moves, KeepsMessage, InSection
  <2>4. ASSUME NEW a \in {"failed", "completed"}, Then(t, row[job(t)], <<Op("mark", a)>>)
        PROVE  StoreOK' /\ Moves(t) /\ KeepsMessage(t)
    <3>1. <<Op("mark", a)>> \in Seq(Plain)
      BY PlainOps
    <3> QED
      BY <2>1, <2>2, <2>4, <3>1, Busy, MovesOn
  <2> QED
    BY <1>7, <2>3, <2>4 DEF CallRequest
<1>8. CASE CallChooseNode(t)
  <2>1. Doing(t, "choose") /\ ~lock /\ UNCHANGED <<store, served, crashes>>
    BY <1>8 DEF CallChooseNode
  <2>2. CASE NoCapacity(t) /\ lock' = lock
    BY <2>1, <2>2, Busy, NoCapacityPlain, PlainMove DEF store, StoreOK
  <2>3. ASSUME NEW n \in Node, Then(t, [snap(t) EXCEPT !.node = n], <<Call("reserve")>>), lock' = TRUE
        PROVE  StoreOK' /\ Moves(t) /\ KeepsMessage(t)
    <3>1. [snap(t) EXCEPT !.node = n] \in Row
      BY <2>1, Busy DEF Row
    <3>2. Call("reserve") \in Nextable(run[t].msg)
      BY <2>1, Serving, PlacementOps
    <3>3. StaysSpecial(t, [snap(t) EXCEPT !.node = n], Call("reserve"))
      BY <2>1, <2>3, <3>1, <3>2, Busy, ThenSpecial
    <3>4. ~Doing(t, "hold")' /\ ~Doing(t, "reacquire")'
      BY <2>1, <3>3, Serving, PlacementOps DEF StaysSpecial, Doing
    <3>5. Moves(t) /\ KeepsMessage(t)
      BY <2>1, <2>3, <3>3, <3>4 DEF StaysSpecial, Moves, KeepsMessage
    <3> QED
      BY <2>1, <2>3, <3>5, Busy DEF store, StoreOK
  <2> QED
    BY <1>8, <2>2, <2>3 DEF CallChooseNode
<1>9. CASE CallReserve(t)
  <2>1. Doing(t, "reserve") /\ InSection(t) /\ UNCHANGED <<store, served, crashes>>
    BY <1>9 DEF CallReserve, InSection
  <2>2. CASE NoCapacity(t) /\ lock' = FALSE
    <3>1. StaysPlain(t)
      BY <2>1, <2>2, NoCapacityPlain
    <3>2. Moves(t) /\ KeepsMessage(t)
      BY <2>1, <2>2, <3>1 DEF StaysPlain, Moves, KeepsMessage, InSection, Doing, Idle
    <3> QED
      BY <2>1, <2>2, <3>2, Busy DEF store, StoreOK
  <2>3. CASE /\ GoOnWith(t, <<Call("hold")>>) /\ lock' = lock
             /\ ReservedByOthers(job(t), hold, snap(t).node) + Need[job(t)] <= Gpus[snap(t).node]
    <3>1. Call("hold") \in Nextable(run[t].msg)
      BY <2>1, Serving, PlacementOps
    <3>2. StaysSpecial(t, snap(t), Call("hold"))
      BY <2>1, <2>3, <3>1, Busy, ThenSpecial DEF GoOnWith
    <3>3. hold' = hold /\ Fits(job(t)', hold, snap(t)'.node)
      <4>1. job(t)' = job(t) /\ snap(t)' = snap(t)
        BY <3>2 DEF StaysSpecial, job, snap
      <4> QED
        BY <2>1, <2>3, <4>1 DEF Fits, store
    <3>4. ~Doing(t, "reacquire")'
      BY <2>1, <3>2, Serving, PlacementOps DEF StaysSpecial, Doing
    <3>5. Moves(t) /\ KeepsMessage(t)
      BY <2>1, <2>3, <3>2, <3>3, <3>4 DEF StaysSpecial, Moves, KeepsMessage
    <3> QED
      BY <2>1, <2>3, <3>5, Busy DEF store, StoreOK
  <2> QED
    BY <1>9, <2>2, <2>3 DEF CallReserve
<1>10. CASE CallHold(t)
  <2>1. Doing(t, "hold") /\ InSection(t) /\ lock' = FALSE
    BY <1>10 DEF CallHold, InSection
  <2> DEFINE r == [snap(t) EXCEPT !.state = "SCHEDULED", !.health = 0, !.retry = Larger(@, tries(t) - 1)]
             ops == <<Call("place"), Call("save"), Op("mark", "completed")>>
  <2>2. r \in Row
    <3>1. snap(t) \in Row /\ tries(t) \in Nat
      BY <2>1, Busy, Serving
    <3>2. Larger(snap(t).retry, tries(t) - 1) \in Nat
      BY <3>1 DEF Larger, Row
    <3> QED
      BY <3>1, <3>2 DEF Row, State
  <2>3. ops \in Seq(Plain)
    BY PlainOps
  <2>4. StaysPlain(t)
    BY <1>10, <2>1, <2>2, <2>3, Busy, ThenPlain DEF CallHold
  <2>5. Moves(t) /\ KeepsMessage(t)
    BY <2>1, <2>4 DEF StaysPlain, Moves, KeepsMessage, InSection, Doing, Idle
  <2>6. snap(t).node \in Node \cup {NoNode}
    BY <2>1, Busy DEF Row
  <2>7. StoreOK'
    BY <1>10, <2>1, <2>6, Busy DEF CallHold, StoreOK
  <2> QED
    BY <2>5, <2>7
<1>11. CASE CallSaveAssignment(t)
  <2>1. Doing(t, "place") /\ GoOn(t) /\ lock' = lock
    BY <1>11 DEF CallSaveAssignment
  <2>2. snap(t).node \in Node \cup {NoNode}
    BY <2>1, Busy DEF Row
  <2>3. StoreOK'
    BY <1>11, <2>1, <2>2, Busy DEF CallSaveAssignment, StoreOK, LeaseStatus, LiveLease
  <2> QED
    BY <2>1, <2>3, GoesOn
<1>12. CASE CallTimeout(t)
  <2>1. Doing(t, "timeout") /\ UNCHANGED <<store, lock, served, crashes>>
    BY <1>12 DEF CallTimeout
  <2>2. Then(t, snap(t), <<>>) \/ Then(t, snap(t), <<Op("update", "FAILED")>>)
    BY <1>12 DEF CallTimeout, GoOnWith
  <2>3. <<Op("update", "FAILED")>> \in Seq(Plain)
    BY PlainOps DEF State, Terminal
  <2>4. Moves(t) /\ KeepsMessage(t)
    BY <2>1, <2>2, <2>3, <1>e, Busy, MovesOn
  <2> QED
    BY <2>1, <2>4, Busy DEF store, StoreOK
<1>13. CASE CallUnhealthy(t)
  <2>1. Doing(t, "unhealthy") /\ UNCHANGED <<store, lock, served, crashes>>
    BY <1>13 DEF CallUnhealthy
  <2>2. \/ Then(t, snap(t), <<>>)
        \/ Then(t, snap(t), <<Op("update", "TERMINATED")>>)
        \/ Then(t, snap(t), <<Op("requeue", "sweep")>>)
    BY <1>13 DEF CallUnhealthy, GoOnWith
  <2>3. <<Op("update", "TERMINATED")>> \in Seq(Plain) /\ <<Op("requeue", "sweep")>> \in Seq(Plain)
    BY PlainOps DEF State, Terminal
  <2>4. Moves(t) /\ KeepsMessage(t)
    BY <2>1, <2>2, <2>3, <1>e, Busy, MovesOn
  <2> QED
    BY <2>1, <2>4, Busy DEF store, StoreOK
<1>14. CASE CallRequeue(t)
  <2>1. Doing(t, "requeue") /\ UNCHANGED <<store, lock, served, crashes>>
    BY <1>14 DEF CallRequeue
  <2> DEFINE moved == <<Call("release"), Op("lease", "reassigned"), Call("save"), Call("publish")>>
             reset == <<Call("save"), Call("publish")>>
  <2>2. \/ \E k \in Nat : Then(t, Unplaced(k), moved)
        \/ Then(t, [Unplaced(0) EXCEPT !.health = snap(t).health], reset)
        \/ GoOn(t)
    <3>1. row[job(t)].retry \in Nat /\ MaxRetry \in Nat
      BY <2>1, Busy, ControlPlaneAssumption DEF Row
    <3>2. (IF row[job(t)].retry < MaxRetry THEN row[job(t)].retry + 1 ELSE MaxRetry) \in Nat
      BY <3>1
    <3> QED
      BY <1>14, <3>2 DEF CallRequeue
  <2>3. snap(t).health \in Nat
    BY <2>1, Busy DEF Row
  <2>4. /\ \A k \in Nat : Unplaced(k) \in Row
        /\ [Unplaced(0) EXCEPT !.health = snap(t).health] \in Row
    BY <2>3 DEF Unplaced, Row, State
  <2>5. moved \in Seq(Plain) /\ reset \in Seq(Plain)
    BY PlainOps DEF LeaseStatus
  <2>6. Moves(t) /\ KeepsMessage(t)
    <3> HIDE DEF moved, reset
    <3> QED
      BY <2>1, <2>2, <2>4, <2>5, GoesOn, MovesOn
  <2> QED
    BY <2>1, <2>6, Busy DEF store, StoreOK
<1>15. CASE CallFail(t)
  <2>1. Doing(t, "fail") /\ UNCHANGED <<store, lock, served, crashes>>
    BY <1>15 DEF CallFail
  <2> DEFINE pre == IF lease[job(t)].status \in LiveLease
                    THEN <<Call("release"), Op("lease", "terminated")>> ELSE <<>>
  <2>2. pre \in Seq(Plain) /\ <<Op("update", "FAILED")>> \in Seq(Plain)
    BY <1>e, PlainOps DEF LeaseStatus, State, Terminal
  <2>3. pre \o <<Op("update", "FAILED")>> \in Seq(Plain)
    BY <2>2, ConcatProperties
  <2>4. StaysPlain(t)
    BY <1>15, <2>1, <2>3, Busy, ThenPlain DEF CallFail, GoOnWith
  <2> QED
    BY <2>1, <2>4, Busy, PlainMove DEF store, StoreOK
<1>16. CASE CallCleanup(t)
  <2>1. Doing(t, "cleanup") /\ UNCHANGED <<store, lock, served, crashes>>
    BY <1>16 DEF CallCleanup
  <2> DEFINE r == [snap(t) EXCEPT !.state = "TERMINATED"]
             live == <<Call("release"), Op("lease", "terminated"), Call("save")>>
             asleep == <<Op("lease", "terminated"), Call("save")>>
             bare == <<Call("save")>>
  <2>2. Then(t, r, live) \/ Then(t, r, asleep) \/ Then(t, r, bare)
    BY <1>16 DEF CallCleanup
  <2>3. live \in Seq(Plain) /\ asleep \in Seq(Plain) /\ bare \in Seq(Plain)
    BY PlainOps DEF LeaseStatus
  <2>4. r \in Row
    BY <2>1, Busy DEF Row, State, Terminal
  <2>5. Moves(t) /\ KeepsMessage(t)
    <3> HIDE DEF r, live, asleep, bare
    <3> QED
      BY <2>1, <2>2, <2>3, <2>4, MovesOn
  <2> QED
    BY <2>1, <2>5, Busy DEF store, StoreOK
<1>17. CASE CallHeadroom(t)
  <2>1. Doing(t, "headroom") /\ UNCHANGED <<store, lock, served, crashes>>
    BY <1>17 DEF CallHeadroom
  <2>2. CASE GoOn(t)
    BY <2>1, <2>2, Busy, GoesOn DEF store, StoreOK
  <2>3. CASE EffectiveRoom(job(t), snap(t).node) /\ GoOnWith(t, <<Call("reacquire")>>)
    <3>1. "resume" \in Offer
      BY <2>1, Busy DEF Nextable, Doing
    <3>2. Call("reacquire") \in Nextable(run[t].msg) /\ Call("reacquire").op = "reacquire"
      BY <3>1 DEF Nextable, PlannedOp, Call, Op
    <3>3. StaysSpecial(t, snap(t), Call("reacquire"))
      BY <2>1, <2>3, <3>2, Busy, ThenSpecial DEF GoOnWith
    <3>4. job(t)' = job(t) /\ snap(t)' = snap(t) /\ ~Doing(t, "hold")'
      BY <2>1, <3>2, <3>3, Busy DEF StaysSpecial, job, snap, Doing
    <3>5. hold' = hold /\ HasRoom(job(t)', hold, snap(t)'.node)
      BY <2>1, <2>3, <3>4 DEF HasRoom, EffectiveRoom, store
    <3> QED
      BY <2>1, <3>2, <3>3, <3>4, <3>5, Busy DEF StaysSpecial, Moves, KeepsMessage, InSection, Doing, store, StoreOK
  <2> QED
    BY <1>17, <2>2, <2>3 DEF CallHeadroom
<1>18. CASE CallReacquire(t)
  <2>1. Doing(t, "reacquire") /\ lock' = lock
    BY <1>18 DEF CallReacquire
  <2>2. snap(t).node \in Node \cup {NoNode}
    BY <2>1, Busy DEF Row
  <2>3. StoreOK'
    BY <1>18, <2>1, <2>2, Busy DEF CallReacquire, StoreOK
  <2>4. <<Op("lease", "active"), Call("save")>> \in Seq(Plain)
    BY PlainOps DEF LeaseStatus, LiveLease
  <2>5. Then(t, snap(t), <<Op("lease", "active"), Call("save")>>)
    BY <1>18 DEF CallReacquire, GoOnWith
  <2> QED
    BY <2>1, <2>3, <2>4, <2>5, Busy, MovesOn
<1>19. CASE CallDelete(t)
  <2>1. Doing(t, "delete") /\ GoOn(t) /\ lock' = lock
    BY <1>19 DEF CallDelete
  <2>2. StoreOK'
    BY <1>19, <2>1, Busy DEF CallDelete, StoreOK, NoRow, Row, State, Missing, NoLease, LeaseStatus
  <2> QED
    BY <2>1, <2>2, GoesOn
<1> QED
  BY <1>1, <1>2, <1>3, <1>4, <1>5, <1>6, <1>7, <1>8, <1>9, <1>10, <1>11, <1>12, <1>13, <1>14, <1>15,
     <1>16, <1>17, <1>18, <1>19 DEF Calls

\* Entering a handler: the thread was idle, so it was not inside the lock.
LEMMA EnterMoves ==
  ASSUME TypeOK, WellPlanned, NEW t \in Thread, NEW d \in Dep, NEW m \in Slot \cup {0}, NEW r \in Row,
         NEW ops \in Seq(PlannedOp), ops # <<>>, Enter(t, d, m, r, ops),
         Head(ops) \in Nextable(m), Tail(ops) \in Seq(Plain),
         Head(ops).op \notin {"reserve", "hold", "reacquire"}
  PROVE  Moves(t) /\ run'[t].msg = m
<1> DEFINE e == [dep |-> d, msg |-> m, row |-> r, todo |-> ops]
<1>1. e \in RunRec /\ PlanOK(e)
  BY DEF RunRec, PlanOK
<1>2. run' = [run EXCEPT ![t] = e] /\ lock' = lock /\ Idle(t)
  BY DEF Enter
<1>3. run'[t] = e /\ \A u \in Thread : u # t => run'[u] = run[u]
  BY <1>2 DEF TypeOK
<1>4. run' \in [Thread -> RunRec]
  BY <1>1, <1>2, <1>3 DEF TypeOK
<1>5. ~InSection(t) /\ ~InSection(t)' /\ ~Doing(t, "reacquire")'
  BY <1>2, <1>3 DEF InSection, Doing
<1> QED
  BY <1>1, <1>2, <1>3, <1>4, <1>5 DEF Moves, InSection

\* A handler whose calls are all plain.
LEMMA EnterPlain ==
  ASSUME TypeOK, WellPlanned, NEW t \in Thread, NEW d \in Dep, NEW r \in Row,
         NEW ops \in Seq(Plain), ops # <<>>, Enter(t, d, 0, r, ops)
  PROVE  Moves(t) /\ run'[t].msg = 0
<1>1. ops \in Seq(PlannedOp)
  BY PlainIsNextable, SeqMonotonic
<1>2. Head(ops) \in Plain /\ Tail(ops) \in Seq(Plain)
  BY HeadTailProperties
<1>3. Head(ops) \in Nextable(0) /\ Head(ops).op \notin {"reserve", "hold", "reacquire"}
  BY <1>2, PlainIsNextable DEF Plain
<1> QED
  BY <1>1, <1>2, <1>3, EnterMoves

\* Entering a handler leaves leases, reservations, health and the lock alone.
LEMMA EnterStore ==
  ASSUME TypeOK, NEW t, NEW d \in Dep, NEW ops, EnterWith(t, d, ops)
  PROVE  StoreOK' /\ box' = box /\ hold' = hold /\ row[d] \in Row /\ Enter(t, d, 0, row[d], ops)
  BY DEF EnterWith, Enter, TypeOK, StoreOK

\* A handler that begins with one plain call and reads its row.
LEMMA EnterOne ==
  ASSUME TypeOK, WellPlanned, NEW t \in Thread, NEW d \in Dep, NEW o \in Plain, EnterWith(t, d, <<o>>)
  PROVE  StoreOK' /\ Moves(t) /\ run'[t].msg = 0 /\ box' = box /\ hold' = hold
<1>1. <<o>> \in Seq(Plain) /\ <<o>> # <<>>
  OBVIOUS
<1> QED
  BY <1>1, EnterStore, EnterPlain

\* Every entry keeps the types, the deliveries and the ledger.
LEMMA EnterStep ==
  ASSUME TypeOK, WellPlanned, NEW t \in Thread, NEW d \in Dep, Enters(t, d)
  PROVE  StoreOK' /\ Moves(t) /\ run'[t].msg = 0 /\ box' = box /\ hold' = hold
<1> DEFINE Goal == StoreOK' /\ Moves(t) /\ run'[t].msg = 0 /\ box' = box /\ hold' = hold
<1>1. CASE CreateDeployment(t, d)
  <2>1. Enter(t, d, 0, NoRow, <<Call("publish")>>) /\ UNCHANGED box
        /\ row' = [row EXCEPT ![d] = [NoRow EXCEPT !.state = "PENDING"]]
    BY <1>1 DEF CreateDeployment
  <2>2. NoRow \in Row /\ [NoRow EXCEPT !.state = "PENDING"] \in Row
    BY DEF NoRow, Row, State, Missing
  <2>3. <<Call("publish")>> \in Seq(Plain) /\ <<Call("publish")>> # <<>>
    BY PlainOps
  <2>4. StoreOK' /\ hold' = hold
    BY <2>1, <2>2 DEF Enter, TypeOK, StoreOK
  <2> QED
    BY <2>1, <2>2, <2>3, <2>4, EnterPlain
<1>2. ASSUME NEW s \in {"PULLING", "STARTING", "READY", "SUSPENDED"} \cup Terminal, ReportStatus(t, d, s)
      PROVE  Goal
  <2>1. Op("update", s) \in Plain
    BY PlainOps DEF State, Terminal
  <2> QED
    BY <1>2, <2>1, EnterOne DEF ReportStatus
<1>3. CASE ProcessTimeouts(t, d) \/ FailDeployment(t, d) \/ CleanupDeployment(t, d) \/ UpdateDeployment(t, d)
  <2>1. \E s \in {"timeout", "fail", "cleanup", "save"} : EnterWith(t, d, <<Call(s)>>)
    BY <1>3 DEF ProcessTimeouts, FailDeployment, CleanupDeployment, UpdateDeployment
  <2>2. PICK s \in {"timeout", "fail", "cleanup", "save"} : EnterWith(t, d, <<Call(s)>>)
    BY <2>1
  <2>3. Call(s) \in Plain
    BY PlainOps
  <2> QED
    BY <2>2, <2>3, EnterOne
<1>4. CASE ProcessUnhealthyMiners(t, d)
  <2> DEFINE n == lease[d].node
  <2>1. n \in Node
    BY <1>4 DEF ProcessUnhealthyMiners, TypeOK
  <2>2. Op("unhealthy", health[n]) \in Plain
    BY <2>1, PlainOps DEF TypeOK
  <2> QED
    BY <1>4, <2>2, EnterOne DEF ProcessUnhealthyMiners
<1>5. CASE SuspendSweep(t, d) \/ ReapExhaustedPods(t, d) \/ StopSweep(t, d)
  <2>1. \E s \in {"SUSPENDED", "TERMINATED"} : EnterWith(t, d, <<Op("update", s)>>)
    BY <1>5 DEF SuspendSweep, ReapExhaustedPods, StopSweep
  <2>2. PICK s \in {"SUSPENDED", "TERMINATED"} : EnterWith(t, d, <<Op("update", s)>>)
    BY <2>1
  <2>3. Op("update", s) \in Plain
    BY PlainOps DEF State, Terminal
  <2> QED
    BY <2>2, <2>3, EnterOne
<1>6. CASE RequeueDeployment(t, d)
  <2>1. Op("requeue", "operator") \in Plain
    BY PlainOps
  <2> QED
    BY <1>6, <2>1, EnterOne DEF RequeueDeployment
<1>7. CASE ResumeDeployment(t, d)
  <2>1. EnterWith(t, d, <<Call("headroom")>>) /\ "resume" \in Offer
    BY <1>7 DEF ResumeDeployment
  <2>2. Call("headroom") \in Nextable(0) /\ Call("headroom").op = "headroom" /\ Call("headroom") \in PlannedOp
    BY <2>1 DEF Nextable, PlannedOp, Call, Op
  <2> DEFINE ops == <<Call("headroom")>>
  <2>3. ops \in Seq(PlannedOp) /\ ops # <<>> /\ Head(ops) = Call("headroom") /\ Tail(ops) = <<>>
    BY <2>2
  <2>4. Tail(ops) \in Seq(Plain)
    BY <2>3, EmptySeq
  <2>5. Enter(t, d, 0, row[d], ops) /\ row[d] \in Row /\ StoreOK' /\ box' = box /\ hold' = hold
    BY <2>1, EnterStore
  <2> HIDE DEF ops
  <2> QED
    BY <2>2, <2>3, <2>4, <2>5, EnterMoves
<1>8. CASE RecordHealthFailure(t, d)
  <2> DEFINE r == [row[d] EXCEPT !.health = @ + 1]
             ops1 == <<Call("save"), Op("update", "FAILED")>>
             ops2 == <<Call("save")>>
  <2>1. Enter(t, d, 0, r, ops1) \/ Enter(t, d, 0, r, ops2)
    BY <1>8 DEF RecordHealthFailure
  <2>2. r \in Row
    <3>1. row[d] \in Row
      BY DEF TypeOK
    <3> QED
      BY <3>1 DEF Row
  <2>3. ops1 \in Seq(Plain) /\ ops2 \in Seq(Plain) /\ ops1 # <<>> /\ ops2 # <<>>
    BY PlainOps DEF State, Terminal
  <2>4. StoreOK' /\ box' = box /\ hold' = hold
    BY <1>8, <2>1 DEF RecordHealthFailure, Enter, TypeOK, StoreOK
  <2> HIDE DEF r, ops1, ops2
  <2> QED
    BY <2>1, <2>2, <2>3, <2>4, EnterPlain
<1>9. CASE ClearHealthFailures(t, d)
  <2>1. Enter(t, d, 0, [row[d] EXCEPT !.health = 0], <<Call("save")>>) /\ UNCHANGED <<row, box>>
    BY <1>9 DEF ClearHealthFailures
  <2>2. [row[d] EXCEPT !.health = 0] \in Row
    <3>1. row[d] \in Row
      BY DEF TypeOK
    <3> QED
      BY <3>1 DEF Row
  <2>3. <<Call("save")>> \in Seq(Plain) /\ <<Call("save")>> # <<>>
    BY PlainOps
  <2>4. StoreOK' /\ hold' = hold
    BY <2>1 DEF Enter, TypeOK, StoreOK
  <2> QED
    BY <2>1, <2>2, <2>3, <2>4, EnterPlain
<1>10. CASE DeleteWorkload(t, d)
  <2> DEFINE ops1 == <<Call("delete")>>
             ops2 == <<Call("cleanup"), Call("delete")>>
  <2>1. EnterWith(t, d, ops1) \/ EnterWith(t, d, ops2)
    BY <1>10 DEF DeleteWorkload
  <2>2. ops1 \in Seq(Plain) /\ ops2 \in Seq(Plain) /\ ops1 # <<>> /\ ops2 # <<>>
    BY PlainOps
  <2> HIDE DEF ops1, ops2
  <2> QED
    BY <2>1, <2>2, EnterStore, EnterPlain
<1> QED
  BY <1>1, <1>2, <1>3, <1>4, <1>5, <1>6, <1>7, <1>8, <1>9, <1>10 DEF Enters

-----------------------------------------------------------------------------
Safe == TypeOK /\ WellPlanned /\ OwnsDelivery /\ LockExcludes

\* A step of one thread keeps the plans and the exclusion of the others.
LEMMA MoveKeeps ==
  ASSUME WellPlanned, LockExcludes, NEW t \in Thread, Moves(t)
  PROVE  WellPlanned' /\ LockExcludes'
<1>1. \A u \in Thread : u # t => PlanOK(run'[u])
  BY DEF Moves, WellPlanned
<1>2. WellPlanned'
  BY <1>1 DEF Moves, WellPlanned
<1>3. \A u \in Thread : u # t => (InSection(u)' <=> InSection(u))
  BY DEF Moves, InSection, Doing, Idle
<1>4. LockExcludes'
  BY <1>3 DEF Moves, LockExcludes
<1> QED
  BY <1>2, <1>4

\* Deliveries keep their owners when the messages and the box stay.
LEMMA OwnsKept ==
  ASSUME OwnsDelivery, NEW t \in Thread, box' = box, run'[t].msg \in {0, run[t].msg},
         \A u \in Thread : u # t => run'[u] = run[u]
  PROVE  OwnsDelivery'
  BY DEF OwnsDelivery

\* Every step keeps the typing, the shape of the plans, the ownership of deliveries and the
\* exclusion of the placement lock: the inductive step of TypeCorrect.
LEMMA SafeStep ==
  ASSUME Safe, [Next]_vars
  PROVE  Safe'
<1> USE StoreIsTyped, StoreIsTypedNext DEF Safe
<1>1. ASSUME NEW t \in Thread, Calls(t) PROVE Safe'
  <2>1. StoreOK' /\ Moves(t) /\ KeepsMessage(t)
    BY <1>1, CallStep
  <2>2. TypeOK' /\ WellPlanned' /\ LockExcludes'
    BY <2>1, MoveKeeps DEF Moves
  <2>3. CASE CallPublish(t)
    <3>1. PICK m \in Slot : box[m] = NoMessage
                 /\ box' = [box EXCEPT ![m] = [dep |-> job(t), status |-> "pending", tries |-> 0]]
      BY <2>3 DEF CallPublish
    <3>2. job(t) \in Dep
      BY <2>3, Busy DEF CallPublish
    <3>3. \A u \in Thread : run[u].msg # m
      <4>1. box[m].status = "absent"
        BY <3>1 DEF NoMessage
      <4>2. 0 \notin Slot
        BY ControlPlaneAssumption DEF Slot
      <4> QED
        BY <4>1, <4>2 DEF OwnsDelivery
    <3>4. \A k \in Slot : k # m => box'[k] = box[k]
      BY <3>1 DEF TypeOK
    <3>5. box'[m].dep \in Dep
      BY <3>1, <3>2 DEF TypeOK
    <3>6. \A u \in Thread : run'[u].msg \in {0, run[u].msg} /\ run[u].msg \in Slot \cup {0}
      BY <2>1 DEF Moves, KeepsMessage, TypeOK, RunRec
    <3> QED
      BY <2>2, <3>3, <3>4, <3>5, <3>6 DEF OwnsDelivery
  <2>4. CASE CallMark(t)
    <3>1. run'[t].msg = 0 /\ \A u \in Thread : u # t => run'[u] = run[u]
      BY <2>4, RestingOK DEF CallMark, TypeOK
    <3>2. CASE run[t].msg = 0
      <4>1. box' = box
        BY <2>4, <3>2, ControlPlaneAssumption DEF CallMark, TypeOK, Slot
      <4> QED
        BY <2>2, <3>1, <4>1, OwnsKept
    <3>3. CASE run[t].msg # 0
      <4>1. run[t].msg \in Slot
        BY <3>3 DEF TypeOK, RunRec
      <4>2. \A k \in Slot : k # run[t].msg => box'[k] = box[k]
        BY <2>4, <4>1 DEF CallMark, TypeOK
      <4>3. box[run[t].msg].dep \in Dep
        BY <3>3, <4>1 DEF OwnsDelivery
      <4>4. box'[run[t].msg].status # "absent" => box'[run[t].msg].dep \in Dep
        BY <2>4, <4>1, <4>3 DEF CallMark, TypeOK, NoMessage
      <4>5. \A u \in Thread : u # t => run[u].msg # run[t].msg /\ run[u].msg \in Slot \cup {0}
        BY <3>3 DEF OwnsDelivery, TypeOK, RunRec
      <4> QED
        BY <2>2, <3>1, <4>2, <4>4, <4>5 DEF OwnsDelivery
    <3> QED
      BY <3>2, <3>3
  <2>5. CASE ~CallPublish(t) /\ ~CallMark(t)
    <3>1. box' = box
      BY <1>1, <2>5 DEF Calls, CallUpdateStatus, CallUpdateAssignment, CallRelease, CallSave, CallRequest,
           CallChooseNode, CallReserve, CallHold, CallSaveAssignment, CallTimeout, CallUnhealthy,
           CallRequeue, CallFail, CallCleanup, CallHeadroom, CallReacquire, CallDelete, store
    <3> QED
      BY <2>1, <2>2, <3>1, OwnsKept DEF Moves, KeepsMessage
  <2> QED
    BY <2>3, <2>4, <2>5
<1>2. ASSUME NEW t \in Thread, Crash(t) PROVE Safe'
  <2>1. run' = [run EXCEPT ![t] = Resting] /\ UNCHANGED <<store, served>>
    BY <1>2 DEF Crash
  <2>2. run'[t].msg = 0 /\ PlanOK(run'[t]) /\ ~InSection(t)' /\ ~Doing(t, "reacquire")'
    BY <2>1, RestingOK DEF InSection, Doing, Idle, TypeOK
  <2>3. run' \in [Thread -> RunRec] /\ \A u \in Thread : u # t => run'[u] = run[u]
    BY <2>1, RestingOK DEF TypeOK
  <2>4. ASSUME InSection(t) PROVE Moves(t)
    <3>1. lock' = FALSE
      BY <1>2, <2>4 DEF Crash
    <3> QED
      BY <2>2, <2>3, <2>4, <3>1 DEF Moves, InSection
  <2>5. ASSUME ~InSection(t) PROVE Moves(t)
    <3>1. lock' = lock
      BY <1>2, <2>5 DEF Crash, TypeOK
    <3> QED
      BY <2>2, <2>3, <2>5, <3>1 DEF Moves, InSection
  <2>6. WellPlanned' /\ LockExcludes'
    BY <2>5, <2>4, MoveKeeps
  <2>7. OwnsDelivery'
    BY <2>1, <2>2, <2>3, OwnsKept DEF store
  <2>8. StoreOK'
    BY <1>2, <2>1 DEF Crash, StoreOK, store
  <2> QED
    BY <2>3, <2>6, <2>7, <2>8
<1>3. ASSUME NEW t \in Thread, NEW d \in Dep, Enters(t, d) PROVE Safe'
  <2>1. StoreOK' /\ Moves(t) /\ run'[t].msg = 0 /\ box' = box
    BY <1>3, EnterStep
  <2>2. WellPlanned' /\ LockExcludes'
    BY <2>1, MoveKeeps
  <2>3. run' \in [Thread -> RunRec] /\ OwnsDelivery'
    BY <2>1, OwnsKept DEF Moves
  <2> QED
    BY <2>1, <2>2, <2>3
<1>4. ASSUME NEW t \in Thread, NEW m \in Slot, ClaimRequest(t, m) PROVE Safe'
  <2> DEFINE ops == <<Call("request")>>
  <2>1. Enter(t, box[m].dep, m, NoRow, ops) /\ box[m].status = "pending"
        /\ box' = [box EXCEPT ![m].status = "claimed", ![m].tries = @ + 1] /\ UNCHANGED row
    BY <1>4 DEF ClaimRequest
  <2>2. box[m].dep \in Dep /\ m # 0 /\ NoRow \in Row
    BY <2>1, ControlPlaneAssumption DEF OwnsDelivery, Slot, NoRow, Row, State, Missing
  <2>3. Call("request") \in Nextable(m) /\ Call("request").op = "request" /\ Call("request") \in PlannedOp
    BY <2>2 DEF Nextable, PlannedOp, Call, Op
  <2>4. ops \in Seq(PlannedOp) /\ ops # <<>> /\ Head(ops) = Call("request") /\ Tail(ops) = <<>>
    BY <2>3
  <2>5. Tail(ops) \in Seq(Plain)
    BY <2>4, EmptySeq
  <2>6. Moves(t) /\ run'[t].msg = m
    <3> HIDE DEF ops
    <3> QED
      BY <2>1, <2>2, <2>3, <2>4, <2>5, EnterMoves
  <2>7. StoreOK'
    BY <2>1 DEF Enter, StoreOK
  <2>8. \A k \in Slot : box'[k].dep = box[k].dep /\ (k # m => box'[k] = box[k])
    BY <2>1 DEF TypeOK
  <2>9. box'[m].status = "claimed"
    BY <2>1 DEF TypeOK
  <2>10. \A u \in Thread : u # t => run'[u] = run[u] /\ run[u].msg # m /\ run[u].msg \in Slot \cup {0}
    BY <2>1, <2>2, <2>6 DEF Moves, OwnsDelivery, TypeOK, RunRec
  <2>11. \A k \in Slot : box'[k].status # "absent" => box'[k].dep \in Dep
    BY <2>1, <2>2, <2>8, <2>9 DEF OwnsDelivery
  <2>12. OwnsDelivery'
    BY <2>2, <2>6, <2>8, <2>9, <2>10, <2>11 DEF OwnsDelivery
  <2> QED
    BY <2>6, <2>7, <2>12, MoveKeeps DEF Moves
<1>5. ASSUME NEW m \in Slot, RecoverDelivery(m) PROVE Safe'
  <2>1. box[m].status = "claimed" /\ box' = [box EXCEPT ![m].status = "pending"]
        /\ UNCHANGED <<row, lease, expired, hold, health, lock, run, served, crashes>>
        /\ \A t \in Thread : run[t].msg # m
    BY <1>5 DEF RecoverDelivery
  <2>2. StoreOK'
    BY <2>1 DEF StoreOK
  <2>3. \A k \in Slot : box'[k].dep = box[k].dep /\ (k # m => box'[k] = box[k])
    BY <2>1 DEF TypeOK
  <2>4. \A t \in Thread : run[t].msg \in Slot \cup {0}
    BY DEF TypeOK, RunRec
  <2>5. OwnsDelivery'
    BY <2>1, <2>3, <2>4 DEF OwnsDelivery
  <2>6. WellPlanned' /\ LockExcludes'
    BY <2>1 DEF WellPlanned, LockExcludes, InSection, Doing, Idle
  <2> QED
    BY <2>1, <2>2, <2>5, <2>6
<1>6. CASE UNCHANGED <<box, lock, run>> /\ StoreOK'
  <2>1. WellPlanned' /\ LockExcludes' /\ OwnsDelivery'
    BY <1>6 DEF WellPlanned, LockExcludes, InSection, Doing, Idle, OwnsDelivery
  <2> QED
    BY <1>6, <2>1
<1>7. ASSUME NEW d \in Dep, LeaseTtlElapses(d) PROVE Safe'
  BY <1>6, <1>7 DEF LeaseTtlElapses, StoreOK
<1>8. ASSUME NEW n \in Node, NEW h \in MinerHealth, MinerHealthChanges(n, h) PROVE Safe'
  BY <1>6, <1>8 DEF MinerHealthChanges, StoreOK
<1>9. CASE ReclaimOrphanedReservations
  BY <1>6, <1>9 DEF ReclaimOrphanedReservations, StoreOK
<1>10. CASE UNCHANGED vars
  BY <1>6, <1>10 DEF vars, StoreOK
<1> QED
  BY <1>1, <1>2, <1>3, <1>4, <1>5, <1>7, <1>8, <1>9, <1>10 DEF Next

\* The initial state satisfies the inductive invariant.
LEMMA InitSafe ==
  ASSUME Init
  PROVE  Safe
<1>1. TypeOK
  BY RestingOK, ControlPlaneAssumption
     DEF Init, TypeOK, NoRow, Row, State, Missing, NoLease, LeaseStatus, NoMessage, MinerHealth
<1>2. \A t \in Thread : run[t] = Resting
  BY DEF Init
<1>3. WellPlanned /\ LockExcludes
  BY <1>2, RestingOK DEF WellPlanned, LockExcludes, InSection, Doing, Idle
<1>4. OwnsDelivery
  BY <1>2, RestingOK DEF Init, OwnsDelivery, NoMessage
<1> QED
  BY <1>1, <1>3, <1>4 DEF Safe

\* Every variable keeps its type, whatever the handlers, their number and the
\* crashes between their calls.
THEOREM TypeCorrect == Spec => []TypeOK
<1>1. Init => Safe
  BY InitSafe
<1>2. Safe /\ [Next]_vars => Safe'
  BY SafeStep
<1>3. Safe => TypeOK
  BY DEF Safe
<1> QED
  BY <1>1, <1>2, <1>3, PTL DEF Spec

-----------------------------------------------------------------------------
\* The GPUs reserved on a node, as finite sets.
LEMMA SlotsFinite ==
  ASSUME NEW D \in SUBSET Dep, NEW h, NEW n
  PROVE  IsFiniteSet(SlotsOf(D, h, n)) /\ Cardinality(SlotsOf(D, h, n)) \in Nat
<1> DEFINE E == {e \in D : h[e] = n}
           f == [d \in E |-> {d} \X (1..Need[d])]
           S == {{d} \X (1..Need[d]) : d \in E}
<1>1. IsFiniteSet(E)
  BY ControlPlaneAssumption, FS_Subset
<1>2. f \in Surjection(E, S)
  BY DEF Surjection
<1>3. IsFiniteSet(S)
  BY <1>1, <1>2, FS_Surjection
<1>4. \A T \in S : IsFiniteSet(T)
  <2> SUFFICES ASSUME NEW d \in E PROVE IsFiniteSet({d} \X (1..Need[d]))
    OBVIOUS
  <2>1. Need[d] \in Int
    BY ControlPlaneAssumption
  <2>2. IsFiniteSet({d})
    BY FS_Singleton
  <2>3. IsFiniteSet(1..Need[d])
    BY <2>1, FS_Interval
  <2> QED
    BY <2>2, <2>3, FS_Product
<1>5. IsFiniteSet(UNION S)
  BY <1>3, <1>4, FS_UNION
<1> QED
  BY <1>5, FS_CardinalityType DEF SlotsOf

\* Giving holds back never adds to a node.
Lowers(h, g) == \A d \in Dep : g[d] = h[d] \/ g[d] = NoNode

\* Fewer reservations occupy no more slots of a node.
LEMMA SlotsLower ==
  ASSUME NEW D \in SUBSET Dep, NEW h, NEW g, Lowers(h, g), NEW n \in Node
  PROVE  Cardinality(SlotsOf(D, g, n)) <= Cardinality(SlotsOf(D, h, n))
<1>1. {e \in D : g[e] = n} \subseteq {e \in D : h[e] = n}
  BY ControlPlaneAssumption DEF Lowers
<1>2. SlotsOf(D, g, n) \subseteq SlotsOf(D, h, n)
  BY <1>1 DEF SlotsOf
<1> QED
  BY <1>2, SlotsFinite, FS_Subset

\* Giving holds back neither overfills a node nor takes away room that was seen.
LEMMA LowersFit ==
  ASSUME NEW h, NEW g, Lowers(h, g), NEW n \in Node
  PROVE  /\ Reserved(h, n) <= Gpus[n] => Reserved(g, n) <= Gpus[n]
         /\ \A d \in Dep : Fits(d, h, n) => Fits(d, g, n)
<1>1. ASSUME Reserved(h, n) <= Gpus[n] PROVE Reserved(g, n) <= Gpus[n]
  <2>1. Reserved(g, n) <= Reserved(h, n)
    BY SlotsLower DEF Reserved
  <2>2. Reserved(h, n) \in Nat /\ Reserved(g, n) \in Nat /\ Gpus[n] \in Nat
    BY SlotsFinite, ControlPlaneAssumption DEF Reserved
  <2> QED
    BY <1>1, <2>1, <2>2
<1>2. ASSUME NEW d \in Dep, Fits(d, h, n) PROVE Fits(d, g, n)
  <2> DEFINE a == Cardinality(SlotsOf(Dep \ {d}, h, n))
             b == Cardinality(SlotsOf(Dep \ {d}, g, n))
  <2>1. b <= a
    BY SlotsLower
  <2>2. a \in Nat /\ b \in Nat /\ Need[d] \in Nat /\ Gpus[n] \in Nat
    BY SlotsFinite, ControlPlaneAssumption
  <2>3. a + Need[d] <= Gpus[n]
    BY <1>2 DEF Fits, ReservedByOthers
  <2>4. b + Need[d] <= Gpus[n]
    <3> HIDE DEF a, b
    <3> QED
      BY <2>1, <2>2, <2>3
  <2> QED
    BY <2>4 DEF Fits, ReservedByOthers
<1> QED
  BY <1>1, <1>2

\* A reservation whose sum was checked fits.
LEMMA HoldFits ==
  ASSUME NEW h \in [Dep -> Node \cup {NoNode}], NEW d \in Dep, NEW k \in Node,
         Fits(d, h, k), \A n \in Node : Reserved(h, n) <= Gpus[n], NEW n \in Node
  PROVE  Reserved([h EXCEPT ![d] = k], n) <= Gpus[n]
<1> DEFINE g == [h EXCEPT ![d] = k]
<1>1. CASE n = k
  <2> DEFINE A == SlotsOf(Dep \ {d}, h, n)
             B == {d} \X (1..Need[d])
  <2>1. {e \in Dep : g[e] = n} = {e \in Dep \ {d} : h[e] = n} \cup {d}
    BY <1>1
  <2>2. SlotsOf(Dep, g, n) = A \cup B
    BY <2>1 DEF SlotsOf
  <2>3. IsFiniteSet(A) /\ Cardinality(A) \in Nat
    BY SlotsFinite
  <2>4. IsFiniteSet(B) /\ Cardinality(B) = Need[d]
    <3>1. Need[d] \in Nat
      BY ControlPlaneAssumption
    <3>2. IsFiniteSet({d}) /\ Cardinality({d}) = 1
      BY FS_Singleton
    <3>3. IsFiniteSet(1..Need[d]) /\ Cardinality(1..Need[d]) = Need[d]
      <4>1. /\ IsFiniteSet(1..Need[d])
            /\ Cardinality(1..Need[d]) = IF 1 > Need[d] THEN 0 ELSE Need[d] - 1 + 1
        <5>1. 1 \in Int /\ Need[d] \in Int
          BY <3>1
        <5> QED
          BY <5>1, FS_Interval, Zenon
      <4> QED
        BY <3>1, <4>1
    <3>4. IsFiniteSet(B) /\ Cardinality(B) = Cardinality({d}) * Cardinality(1..Need[d])
      BY <3>2, <3>3, FS_Product
    <3>5. Cardinality(B) = 1 * Need[d]
      BY <3>2, <3>3, <3>4
    <3> QED
      BY <3>1, <3>4, <3>5
  <2>5. Cardinality(A \cup B) <= Cardinality(A) + Cardinality(B)
    <3>1. IsFiniteSet(A \cap B)
      BY <2>3, FS_Intersection
    <3>2. Cardinality(A \cap B) \in Nat
      BY <3>1, FS_CardinalityType
    <3>3. Cardinality(A \cup B) = Cardinality(A) + Cardinality(B) - Cardinality(A \cap B)
      BY <2>3, <2>4, FS_Union
    <3>4. Cardinality(B) \in Nat
      BY <2>4, FS_CardinalityType
    <3> HIDE DEF A, B
    <3> QED
      BY <2>3, <3>2, <3>3, <3>4
  <2>6. Cardinality(A) + Need[d] <= Gpus[n]
    BY <1>1 DEF Fits, ReservedByOthers
  <2>7. Cardinality(A \cup B) <= Gpus[n]
    <3>1. Cardinality(A \cup B) \in Nat
      BY <2>3, <2>4, FS_Union, FS_CardinalityType
    <3>2. Gpus[n] \in Nat /\ Need[d] \in Nat
      BY ControlPlaneAssumption
    <3> HIDE DEF A, B
    <3> QED
      BY <2>3, <2>4, <2>5, <2>6, <3>1, <3>2
  <2> QED
    BY <2>2, <2>7 DEF Reserved
<1>2. CASE n # k
  <2>1. {e \in Dep : g[e] = n} \subseteq {e \in Dep : h[e] = n}
    BY <1>2
  <2>2. SlotsOf(Dep, g, n) \subseteq SlotsOf(Dep, h, n)
    BY <2>1 DEF SlotsOf
  <2>3. Reserved(g, n) <= Reserved(h, n)
    BY <2>2, SlotsFinite, FS_Subset DEF Reserved
  <2>4. Reserved(g, n) \in Nat /\ Reserved(h, n) \in Nat /\ Gpus[n] \in Nat
    BY SlotsFinite, ControlPlaneAssumption DEF Reserved
  <2> QED
    BY <2>3, <2>4
<1> QED
  BY <1>1, <1>2

-----------------------------------------------------------------------------
Ledger == Safe /\ CheckStillHolds /\ NodeNotOversubscribed

\* A step of t that only gives holds back keeps the ledger.
LEMMA LowerKeeps ==
  ASSUME Ledger, "resume" \notin Offer, Lowers(hold, hold'), Safe',
         \A t \in Thread : Doing(t, "hold")' /\ snap(t)'.node \in Node =>
           \/ Doing(t, "hold") /\ job(t)' = job(t) /\ snap(t)' = snap(t)
           \/ hold' = hold /\ Fits(job(t)', hold, snap(t)'.node)
  PROVE  Ledger'
<1> USE DEF Ledger
<1>1. \A n \in Node : Reserved(hold', n) <= Gpus[n]
  BY LowersFit DEF NodeNotOversubscribed
<1>2. \A d \in Dep, n \in Node : Fits(d, hold, n) => Fits(d, hold', n)
  BY LowersFit
<1>3. ASSUME NEW t \in Thread, Doing(t, "hold")', snap(t)'.node \in Node
      PROVE  Fits(job(t)', hold', snap(t)'.node)
  <2>1. CASE Doing(t, "hold") /\ job(t)' = job(t) /\ snap(t)' = snap(t)
    <3>1. Fits(job(t), hold, snap(t).node)
      BY <1>3, <2>1 DEF CheckStillHolds
    <3>2. job(t) \in Dep
      BY <2>1, Busy DEF Safe
    <3> QED
      BY <1>2, <1>3, <2>1, <3>1, <3>2
  <2>2. CASE hold' = hold /\ Fits(job(t)', hold, snap(t)'.node)
    BY <2>2
  <2> QED
    BY <1>3, <2>1, <2>2
<1>4. NodeNotOversubscribed'
  BY <1>1 DEF NodeNotOversubscribed
<1>5. CheckStillHolds'
  BY <1>3 DEF CheckStillHolds
<1> QED
  BY <1>4, <1>5

\* After a step of t, a thread about to write its hold is an old one, or t
\* with its check just made.
LEMMA NewHold ==
  ASSUME NEW t \in Thread, Moves(t)
  PROVE  \A u \in Thread : Doing(u, "hold")' =>
           \/ Doing(u, "hold") /\ job(u)' = job(u) /\ snap(u)' = snap(u)
           \/ hold' = hold /\ Fits(job(u)', hold, snap(u)'.node)
<1> SUFFICES ASSUME NEW u \in Thread, Doing(u, "hold")', u # t
             PROVE  Doing(u, "hold") /\ job(u)' = job(u) /\ snap(u)' = snap(u)
  BY DEF Moves
<1>1. run'[u] = run[u]
  BY DEF Moves
<1> QED
  BY <1>1 DEF Doing, Idle, job, snap

\* Every step but a resume keeps the ledger within the node: the inductive step of LedgerHolds.
LEMMA LedgerStep ==
  ASSUME Ledger, "resume" \notin Offer, [Next]_vars
  PROVE  Ledger'
<1> USE DEF Ledger
<1>1. Safe'
  BY SafeStep
<1>t. Safe => TypeOK /\ WellPlanned /\ LockExcludes
  BY DEF Safe
<1>2. ASSUME NEW t \in Thread, Calls(t) PROVE Ledger'
  <2>1. Moves(t)
    BY <1>2, <1>t, CallStep
  <2>2. CASE CallHold(t)
    <3>1. Doing(t, "hold") /\ job(t) \in Dep /\ snap(t) \in Row
      BY <2>2, <1>t, Busy DEF CallHold
    <3>2. hold' = [hold EXCEPT ![job(t)] = snap(t).node] /\ ~InSection(t)'
      <4>1. InSection(t) /\ lock' = FALSE /\ (InSection(t)' => lock')
        BY <2>2, <3>1, <1>1 DEF CallHold, InSection, Safe, LockExcludes
      <4> QED
        BY <2>2, <4>1 DEF CallHold
    <3>3. hold \in [Dep -> Node \cup {NoNode}]
      BY <1>t DEF TypeOK
    <3>4. \A u \in Thread : ~Doing(u, "hold")'
      <4> SUFFICES ASSUME NEW u \in Thread, Doing(u, "hold")' PROVE FALSE
        OBVIOUS
      <4>1. u # t
        BY <3>2 DEF InSection
      <4>2. Doing(u, "hold")
        BY <2>1, <4>1 DEF Moves, Doing, Idle
      <4> QED
        BY <3>1, <4>1, <4>2, <1>t DEF LockExcludes, InSection
    <3>5. CASE snap(t).node \in Node
      <4>1. Fits(job(t), hold, snap(t).node)
        BY <3>1, <3>5 DEF CheckStillHolds
      <4>2. \A n \in Node : Reserved(hold', n) <= Gpus[n]
        BY <3>1, <3>2, <3>3, <3>5, <4>1, HoldFits DEF NodeNotOversubscribed
      <4> QED
        BY <1>1, <3>4, <4>2 DEF NodeNotOversubscribed, CheckStillHolds
    <3>6. CASE snap(t).node \notin Node
      <4>1. Lowers(hold, hold')
        BY <3>1, <3>2, <3>3, <3>6 DEF Lowers, Row
      <4> QED
        BY <1>1, <3>4, <4>1, LowerKeeps
    <3> QED
      BY <3>5, <3>6
  <2>3. CASE ~CallHold(t)
    <3>1. ~CallReacquire(t)
      BY <1>t, Busy DEF CallReacquire, Nextable, Doing
    <3>2. Lowers(hold, hold')
      <4>1. CASE CallRelease(t) \/ CallDelete(t)
        BY <4>1, <1>t DEF CallRelease, CallDelete, Lowers, TypeOK
      <4>2. CASE ~CallRelease(t) /\ ~CallDelete(t)
        BY <1>2, <2>3, <3>1, <4>2 DEF Calls, CallUpdateStatus, CallUpdateAssignment, CallSave, CallPublish,
             CallMark, CallRequest, CallChooseNode, CallReserve, CallSaveAssignment, CallTimeout,
             CallUnhealthy, CallRequeue, CallFail, CallCleanup, CallHeadroom, store, Lowers
      <4> QED
        BY <4>1, <4>2
    <3> QED
      BY <1>1, <2>1, <3>2, NewHold, LowerKeeps
  <2> QED
    BY <2>2, <2>3
<1>3. ASSUME NEW t \in Thread, Crash(t) PROVE Ledger'
  <2>1. run' = [run EXCEPT ![t] = Resting] /\ hold' = hold
    BY <1>3 DEF Crash, store
  <2>2. \A u \in Thread : Doing(u, "hold")' =>
          Doing(u, "hold") /\ job(u)' = job(u) /\ snap(u)' = snap(u)
    <3> SUFFICES ASSUME NEW u \in Thread, Doing(u, "hold")'
                 PROVE  Doing(u, "hold") /\ job(u)' = job(u) /\ snap(u)' = snap(u)
      OBVIOUS
    <3>1. u # t
      BY <2>1, <1>t, RestingOK DEF Doing, Idle, TypeOK
    <3>2. run'[u] = run[u]
      BY <2>1, <3>1, <1>t DEF TypeOK
    <3> QED
      BY <3>2 DEF Doing, Idle, job, snap
  <2>3. Lowers(hold, hold')
    BY <2>1 DEF Lowers
  <2> QED
    BY <1>1, <2>2, <2>3, LowerKeeps
<1>4. ASSUME NEW t \in Thread, NEW d \in Dep, Enters(t, d) PROVE Ledger'
  <2>1. Moves(t) /\ hold' = hold
    BY <1>4, <1>t, EnterStep
  <2>2. Lowers(hold, hold')
    BY <2>1 DEF Lowers
  <2> QED
    BY <1>1, <2>1, <2>2, NewHold, LowerKeeps
<1>5. ASSUME NEW t \in Thread, NEW m \in Slot, ClaimRequest(t, m) PROVE Ledger'
  <2>1. Enter(t, box[m].dep, m, NoRow, <<Call("request")>>)
    BY <1>5 DEF ClaimRequest
  <2>2. hold' = hold /\ run' = [run EXCEPT ![t] = [dep |-> box[m].dep, msg |-> m, row |-> NoRow,
                                                    todo |-> <<Call("request")>>]]
    BY <2>1 DEF Enter
  <2>3. \A u \in Thread : Doing(u, "hold")' =>
          Doing(u, "hold") /\ job(u)' = job(u) /\ snap(u)' = snap(u)
    <3> SUFFICES ASSUME NEW u \in Thread, Doing(u, "hold")'
                 PROVE  Doing(u, "hold") /\ job(u)' = job(u) /\ snap(u)' = snap(u)
      OBVIOUS
    <3>1. Head(<<Call("request")>>) = Call("request") /\ Call("request").op = "request"
      BY DEF Call, Op
    <3>2. u # t
      BY <2>2, <3>1, <1>t DEF Doing, TypeOK
    <3>3. run'[u] = run[u]
      BY <2>2, <3>2, <1>t DEF TypeOK
    <3> QED
      BY <3>3 DEF Doing, Idle, job, snap
  <2>4. Lowers(hold, hold')
    BY <2>2 DEF Lowers
  <2> QED
    BY <1>1, <2>3, <2>4, LowerKeeps
<1>6. CASE UNCHANGED run /\ Lowers(hold, hold')
  <2>1. \A u \in Thread : Doing(u, "hold")' =>
          Doing(u, "hold") /\ job(u)' = job(u) /\ snap(u)' = snap(u)
    BY <1>6 DEF Doing, Idle, job, snap
  <2> QED
    BY <1>1, <1>6, <2>1, LowerKeeps
<1>7. ASSUME NEW m \in Slot, RecoverDelivery(m) PROVE Ledger'
  BY <1>6, <1>7 DEF RecoverDelivery, Lowers
<1>8. ASSUME NEW d \in Dep, LeaseTtlElapses(d) PROVE Ledger'
  BY <1>6, <1>8 DEF LeaseTtlElapses, Lowers
<1>9. ASSUME NEW n \in Node, NEW h \in MinerHealth, MinerHealthChanges(n, h) PROVE Ledger'
  BY <1>6, <1>9 DEF MinerHealthChanges, Lowers
<1>10. CASE ReclaimOrphanedReservations
  BY <1>6, <1>10 DEF ReclaimOrphanedReservations, Lowers
<1>11. CASE UNCHANGED vars
  BY <1>6, <1>11 DEF vars, Lowers
<1> QED
  BY <1>2, <1>3, <1>4, <1>5, <1>7, <1>8, <1>9, <1>10, <1>11 DEF Next

\* Without resume_deployment the reservation ledger never commits more GPUs on
\* a node than it has: for any fleet, any number of scheduling threads, any
\* crash.  A resume beside a placement breaks it: see LedgerHoldsAlone.
THEOREM LedgerHolds ==
  ASSUME "resume" \notin Offer
  PROVE  Spec => []NodeNotOversubscribed
<1>1. Init => Ledger
  <2> SUFFICES ASSUME Init PROVE Ledger
    OBVIOUS
  <2>1. Safe
    BY InitSafe
  <2>2. CheckStillHolds
    BY RestingOK DEF Init, CheckStillHolds, Doing, Idle
  <2>3. ASSUME NEW n \in Node PROVE Reserved(hold, n) <= Gpus[n]
    <3>1. {e \in Dep : hold[e] = n} = {}
      BY ControlPlaneAssumption DEF Init
    <3>2. SlotsOf(Dep, hold, n) = {}
      BY <3>1 DEF SlotsOf
    <3> QED
      BY <3>2, FS_EmptySet, ControlPlaneAssumption DEF Reserved
  <2> QED
    BY <2>1, <2>2, <2>3 DEF Ledger, NodeNotOversubscribed
<1>2. Ledger /\ [Next]_vars => Ledger'
  BY LedgerStep
<1>3. Ledger => NodeNotOversubscribed
  BY DEF Ledger
<1> QED
  BY <1>1, <1>2, <1>3, PTL DEF Spec

-----------------------------------------------------------------------------
(***************************************************************************)
(* Row, lease and reservation between handlers and on their way.           *)
(*                                                                         *)
(* A handler is a straight line of transactions, so what must hold in the  *)
(* middle of one is what its remaining calls will turn into an agreement   *)
(* of the three rows.  The operators below say so for a plan q, the lease  *)
(* l, the reservation h and what the thread knows, c.                      *)
(***************************************************************************)

\* No two handlers are about one deployment at once.
OneAtATime == \A t, u \in Thread : ~Idle(t) /\ ~Idle(u) /\ job(t) = job(u) => t = u

\* The plan q begins with the call Op(n, a); it is that call alone.
Starts(q, n, a) == q # <<>> /\ Head(q).op = n /\ Head(q).arg = a
Only(q, n, a) == Starts(q, n, a) /\ Tail(q) = <<>>

Live(l) == l.status \in LiveLease
Stops(r) == r.state \in Terminal \cup Missing
Placed == {"SCHEDULED", "PULLING", "STARTING", "READY", "DRAINING"}

\* Nothing has gone wrong: no thread was killed (n counts them) and no report comes late.
Sound(n) == n = 0 /\ ~LateReports

\* The lease of a placed row is the row's.
Linked(r, l) == r.node # NoNode => l.node = r.node /\ l.status # "none"

\* What a row, its lease and its reservation say of each other between handlers.
Agrees(n, r, l, h) ==
  /\ Stops(r) => ~Live(l)
  /\ Sound(n) =>
       /\ Linked(r, l)
       /\ Live(l) => r.node # NoNode /\ h = r.node /\ r.state \in Placed \cup {"SUSPENDED"}
       /\ ~Live(l) => h = NoNode /\ r.state \notin Placed
       /\ r.state = "READY" => l.status = "active"

\* What a thread knows: its snapshot, its delivery, the row as it is and the threads killed.
View(s, m, r, n) == [snap |-> s, msg |-> m, row |-> r, crashes |-> n]
Local(t) == View(snap(t), run[t].msg, row[job(t)], crashes)

\* The lease after update_assignment_status.
WithStatus(l, s) == IF l.status = "none" THEN l ELSE [l EXCEPT !.status = s]

\* What may remain of a plan when the row is r.
Remains(c, q, r) ==
  \/ c.msg = 0 /\ (q = <<>> \/ Only(q, "delete", "") \/ Only(q, "update", "FAILED"))
  \/ c.msg # 0 /\ r.state = "PENDING" /\ Starts(q, "update", "FAILED") /\ Only(Tail(q), "mark", "failed")
  \/ c.msg # 0 /\ Only(q, "mark", "pending")
  \/ c.msg # 0 /\ r.state # "PENDING" /\ (Only(q, "mark", "completed") \/ Only(q, "mark", "failed"))

\* The snapshot is saved next.
Saves(c, q, l, h) ==
  /\ Starts(q, "save", "") /\ Agrees(c.crashes, c.snap, l, h)
  /\ \/ c.msg = 0 /\ c.snap.state = "PENDING" /\ Only(Tail(q), "publish", "")
     \/ /\ Remains(c, Tail(q), c.snap)
        /\ c.row.state \in Terminal => c.snap.state \in Terminal
        /\ c.snap.state = "PENDING" => c.row.state = "PENDING"

\* fail_deployment has given back what there was.
Fails(c, q, l, h) ==
  /\ Only(q, "update", "FAILED") /\ c.msg = 0 /\ ~Live(l)
  /\ Sound(c.crashes) => Linked(c.row, l) /\ h = NoNode /\ c.row.state \in Placed \cup {"SUSPENDED"}

Last(c, q, l, h) == Saves(c, q, l, h) \/ Fails(c, q, l, h)

\* At most one, or two, writes of the lease and the reservation before that.
OneBefore(c, q, l, h) ==
  \/ Last(c, q, l, h)
  \/ Starts(q, "release", "") /\ Last(c, Tail(q), l, NoNode)
  \/ \E s \in LeaseStatus :
       /\ Starts(q, "lease", s) /\ (s \in LiveLease => ~Stops(c.row))
       /\ Last(c, Tail(q), WithStatus(l, s), h)
TwoBefore(c, q, l, h) ==
  \/ OneBefore(c, q, l, h)
  \/ Starts(q, "release", "") /\ OneBefore(c, Tail(q), l, NoNode)
  \/ \E s \in LeaseStatus :
       /\ Starts(q, "lease", s) /\ (s \in LiveLease => ~Stops(c.row))
       /\ OneBefore(c, Tail(q), WithStatus(l, s), h)

Running == {"PULLING", "STARTING", "READY"}
Reported == {"PULLING", "STARTING", "READY", "SUSPENDED"} \cup Terminal

\* A placement that has written nothing yet.
Placing(c, q) ==
  /\ c.msg # 0
  /\ \/ Only(q, "request", "")
     \/ /\ c.row.state = "PENDING" /\ c.snap.state = "PENDING"
        /\ Only(q, "choose", "") \/ (c.snap.node # NoNode /\ (Only(q, "reserve", "") \/ Only(q, "hold", "")))

\* A report or a sweep that will read the row for itself.
WillRead(c, q, l) ==
  /\ c.msg = 0
  /\ \/ \E s \in Reported : Only(q, "update", s) /\ (Sound(c.crashes) /\ s \in Running => Live(l))
     \/ Only(q, "timeout", "") \/ Only(q, "fail", "")
     \/ \E s \in MinerHealth : Only(q, "unhealthy", s)
     \/ \E a \in {"operator", "sweep"} : Only(q, "requeue", a)

\* A clean-up or a resume, whose snapshot is the row.
HasRead(c, q) ==
  /\ c.msg = 0 /\ c.snap.state = c.row.state /\ c.snap.node = c.row.node
  /\ \/ Starts(q, "cleanup", "") /\ (Tail(q) = <<>> \/ Only(Tail(q), "delete", ""))
     \/ /\ c.row.state = "SUSPENDED" /\ c.row.node # NoNode
        /\ Only(q, "headroom", "") \/ Only(q, "reacquire", "")

\* The reservation is written and the lease comes next.
Places(c, q, h) ==
  /\ c.msg # 0 /\ Starts(q, "place", "")
  /\ Starts(Tail(q), "save", "") /\ Only(Tail(Tail(q)), "mark", "completed")
  /\ c.row.state = "PENDING" /\ c.snap.state = "SCHEDULED" /\ c.snap.node # NoNode /\ h = c.snap.node

\* Nothing is written that does not agree.
Clean(c, q, l, h) ==
  /\ Agrees(c.crashes, c.row, l, h)
  /\ \/ q # <<>> /\ Remains(c, q, c.row)
     \/ Placing(c, q) \/ WillRead(c, q, l) \/ HasRead(c, q)
     \/ c.msg = 0 /\ Only(q, "publish", "")

\* A stopped row has no live lease, whatever comes next, and no GPUs unless a thread was killed.
Closed(n, r, l, h) == Stops(r) => ~Live(l) /\ (Sound(n) => h = NoNode)

\* Every handler, at every point of its way.
OnItsWay(c, q, l, h) ==
  \/ TwoBefore(c, q, l, h) /\ Closed(c.crashes, c.row, l, h)
  \/ Clean(c, q, l, h)
  \/ Places(c, q, h)

HandlersOnTheirWay ==
  \A t \in Thread : ~Idle(t) => OnItsWay(Local(t), run[t].todo, lease[job(t)], hold[job(t)])

SettledAgrees == \A d \in Dep : Quiet(d) => Agrees(crashes, row[d], lease[d], hold[d])

\* A PENDING row has a delivery or a thread about to publish one.
Owed(d) ==
  \/ \E m \in Slot : box[m].dep = d
  \/ \E t \in Thread : job(t) = d /\ Only(run[t].todo, "publish", "")
PendingIsOwed == \A d \in Dep : Sound(crashes) /\ row[d].state = "PENDING" => Owed(d)

\* A thread works on a delivery of its own deployment.
ServesItsDep == \A t \in Thread : run[t].msg # 0 => box[run[t].msg].dep = job(t)

Agreement == HandlersOnTheirWay /\ SettledAgrees /\ PendingIsOwed /\ ServesItsDep

-----------------------------------------------------------------------------
\* The names and arguments of calls.
LEMMA Names ==
  (\A n, a : Op(n, a).op = n /\ Op(n, a).arg = a) /\ (\A n : Call(n).op = n /\ Call(n).arg = "")
  BY DEF Op, Call

\* What the next step of a handler can be, by its name.
LEMMA ByHead ==
  ASSUME NEW c, NEW q, NEW l, NEW h, OnItsWay(c, q, l, h)
  PROVE  /\ q # <<>>
         /\ Head(q).op = "save" => Saves(c, q, l, h)
         /\ Head(q).op = "release" => OneBefore(c, Tail(q), l, NoNode)
         /\ Head(q).op = "lease" =>
              \E s \in LeaseStatus : /\ Head(q).arg = s /\ (s \in LiveLease => ~Stops(c.row))
                                     /\ OneBefore(c, Tail(q), WithStatus(l, s), h)
         /\ (Head(q).op = "save" \/ Head(q).op = "release" \/ Head(q).op = "lease") => Closed(c.crashes, c.row, l, h)
         /\ Head(q).op = "update" => Fails(c, q, l, h) \/ (Clean(c, q, l, h) /\ (Remains(c, q, c.row) \/ WillRead(c, q, l)))
         /\ Head(q).op = "publish" => Clean(c, q, l, h) /\ c.msg = 0 /\ Only(q, "publish", "")
         /\ Head(q).op = "mark" => Clean(c, q, l, h) /\ Remains(c, q, c.row)
         /\ Head(q).op = "delete" => c.msg = 0 /\ Tail(q) = <<>>
         /\ (Head(q).op = "request" \/ Head(q).op = "choose" \/ Head(q).op = "reserve" \/ Head(q).op = "hold")
              => Clean(c, q, l, h) /\ Placing(c, q)
         /\ Head(q).op = "place" => Places(c, q, h)
         /\ (Head(q).op = "timeout" \/ Head(q).op = "fail" \/ Head(q).op = "unhealthy" \/ Head(q).op = "requeue")
              => Clean(c, q, l, h) /\ WillRead(c, q, l)
         /\ (Head(q).op = "cleanup" \/ Head(q).op = "headroom" \/ Head(q).op = "reacquire") => Clean(c, q, l, h) /\ HasRead(c, q)
<1>1. CASE Places(c, q, h)
  <2>1. q # <<>> /\ Head(q).op = "place"
    BY <1>1 DEF Places, Starts
  <2> QED
    BY <1>1, <2>1
<1>2. CASE Clean(c, q, l, h)
  <2>1. q # <<>> /\ (Remains(c, q, c.row) \/ Placing(c, q) \/ WillRead(c, q, l) \/ HasRead(c, q)
                      \/ (c.msg = 0 /\ Only(q, "publish", "")))
    BY <1>2 DEF Clean, Placing, WillRead, HasRead, Only, Starts
  <2>0. q # <<>>
    BY <2>1
  <2>2. CASE Remains(c, q, c.row)
    <3>1. (Head(q).op = "update" \/ Head(q).op = "mark") \/ (Head(q).op = "delete" /\ c.msg = 0 /\ Tail(q) = <<>>)
      BY <2>0, <2>2 DEF Remains, Only, Starts
    <3> QED
      BY <1>2, <2>1, <2>2, <3>1
  <2>3. CASE Placing(c, q)
    <3>1. (Head(q).op = "request" \/ Head(q).op = "choose" \/ Head(q).op = "reserve" \/ Head(q).op = "hold")
      BY <2>3 DEF Placing, Only, Starts
    <3> QED
      BY <1>2, <2>1, <2>3, <3>1
  <2>4. CASE WillRead(c, q, l)
    <3>2. (\/ Head(q).op = "update" \/ Head(q).op = "timeout" \/ Head(q).op = "fail"
           \/ Head(q).op = "unhealthy" \/ Head(q).op = "requeue")
      BY <2>4 DEF WillRead, Only, Starts
    <3> QED
      BY <1>2, <2>1, <2>4, <3>2
  <2>5. CASE HasRead(c, q)
    <3>1. (Head(q).op = "cleanup" \/ Head(q).op = "headroom" \/ Head(q).op = "reacquire")
      BY <2>5 DEF HasRead, Only, Starts
    <3> QED
      BY <1>2, <2>1, <2>5, <3>1
  <2>6. CASE c.msg = 0 /\ Only(q, "publish", "")
    BY <1>2, <2>1, <2>6 DEF Only, Starts
  <2> QED
    BY <2>1, <2>2, <2>3, <2>4, <2>5, <2>6
<1>3. CASE TwoBefore(c, q, l, h) /\ Closed(c.crashes, c.row, l, h)
  <2>1. CASE Saves(c, q, l, h)
    BY <1>3, <2>1 DEF Saves, Starts
  <2>2. CASE Fails(c, q, l, h)
    <3>1. q # <<>> /\ Head(q).op = "update"
      BY <2>2 DEF Fails, Only, Starts
    <3> QED
      BY <1>3, <2>2, <3>1
  <2>3. CASE Starts(q, "release", "") /\ OneBefore(c, Tail(q), l, NoNode)
    BY <1>3, <2>3 DEF Starts
  <2>4. ASSUME NEW s \in LeaseStatus, Starts(q, "lease", s), s \in LiveLease => ~Stops(c.row),
               OneBefore(c, Tail(q), WithStatus(l, s), h)
        PROVE  /\ q # <<>> /\ Head(q).op = "lease"
               /\ \E a \in LeaseStatus : /\ Head(q).arg = a /\ (a \in LiveLease => ~Stops(c.row))
                                         /\ OneBefore(c, Tail(q), WithStatus(l, a), h)
    BY <2>4 DEF Starts
  <2> QED
    BY <1>3, <2>1, <2>2, <2>3, <2>4 DEF TwoBefore, OneBefore, Last
<1> QED
  BY <1>1, <1>2, <1>3 DEF OnItsWay

\* A plan written out before another.
LEMMA Ahead ==
  ASSUME NEW X, NEW s \in Seq(X)
  PROVE  /\ <<>> \o s = s
         /\ \A a \in X : LET q == <<a>> \o s IN q \in Seq(X) /\ q # <<>> /\ Head(q) = a /\ Tail(q) = s
         /\ \A a, b \in X : LET q == <<a, b>> \o s IN q \in Seq(X) /\ q # <<>> /\ Head(q) = a /\ Tail(q) = <<b>> \o s
         /\ \A a, b, c \in X :
              LET q == <<a, b, c>> \o s IN q \in Seq(X) /\ q # <<>> /\ Head(q) = a /\ Tail(q) = <<b, c>> \o s
         /\ \A a, b, c, d \in X :
              LET q == <<a, b, c, d>> \o s IN q \in Seq(X) /\ q # <<>> /\ Head(q) = a /\ Tail(q) = <<b, c, d>> \o s
<1>1. <<>> \o s = s
  OBVIOUS
<1>2. ASSUME NEW a \in X PROVE LET q == <<a>> \o s IN q \in Seq(X) /\ q # <<>> /\ Head(q) = a /\ Tail(q) = s
  OBVIOUS
<1>3. ASSUME NEW a \in X, NEW b \in X
      PROVE LET q == <<a, b>> \o s IN q \in Seq(X) /\ q # <<>> /\ Head(q) = a /\ Tail(q) = <<b>> \o s
  OBVIOUS
<1>4. ASSUME NEW a \in X, NEW b \in X, NEW c \in X
      PROVE LET q == <<a, b, c>> \o s IN q \in Seq(X) /\ q # <<>> /\ Head(q) = a /\ Tail(q) = <<b, c>> \o s
  OBVIOUS
<1>5. ASSUME NEW a \in X, NEW b \in X, NEW c \in X, NEW d \in X
      PROVE LET q == <<a, b, c, d>> \o s IN q \in Seq(X) /\ q # <<>> /\ Head(q) = a /\ Tail(q) = <<b, c, d>> \o s
  OBVIOUS
<1>6. \A a \in X : LET q == <<a>> \o s IN q \in Seq(X) /\ q # <<>> /\ Head(q) = a /\ Tail(q) = s
  BY <1>2 DEF Starts
<1>7. \A a, b \in X : LET q == <<a, b>> \o s IN q \in Seq(X) /\ q # <<>> /\ Head(q) = a /\ Tail(q) = <<b>> \o s
  BY <1>3, Zenon DEF Starts
<1>8. \A a, b, c \in X :
        LET q == <<a, b, c>> \o s IN q \in Seq(X) /\ q # <<>> /\ Head(q) = a /\ Tail(q) = <<b, c>> \o s
  BY <1>4, Zenon DEF Starts
<1>9. \A a, b, c, d \in X :
        LET q == <<a, b, c, d>> \o s IN q \in Seq(X) /\ q # <<>> /\ Head(q) = a /\ Tail(q) = <<b, c, d>> \o s
  BY <1>5, ZenonT(60) DEF Starts
<1> QED
  BY <1>1, <1>6, <1>7, <1>8, <1>9, Zenon

\* What a thread has to do after a call.
LEMMA Proceeds ==
  ASSUME run \in [Thread -> RunRec], NEW t \in Thread, NEW r, NEW ops, Then(t, r, ops)
  PROVE  LET left == ops \o Tail(run[t].todo)
         IN /\ \A u \in Thread : u # t => run'[u] = run[u]
            /\ left = <<>> => run'[t] = Resting
            /\ left # <<>> => /\ run'[t].dep = job(t) /\ run'[t].msg = run[t].msg
                              /\ run'[t].row = r /\ run'[t].todo = left
<1> DEFINE left == ops \o Tail(run[t].todo)
<1>1. run' = [run EXCEPT ![t] = IF left = <<>> THEN Resting ELSE [run[t] EXCEPT !.row = r, !.todo = left]]
  BY DEF Then
<1> HIDE DEF left
<1>2. \A u \in Thread : u # t => run'[u] = run[u]
  BY <1>1
<1>3. left = <<>> => run'[t] = Resting
  BY <1>1
<1>4. left # <<>> => run'[t] = [run[t] EXCEPT !.row = r, !.todo = left]
  BY <1>1
<1>5. left # <<>> => /\ run'[t].dep = job(t) /\ run'[t].msg = run[t].msg
                     /\ run'[t].row = r /\ run'[t].todo = left
  BY <1>4 DEF RunRec, job
<1> QED
  BY <1>2, <1>3, <1>5 DEF left

\* The step of t is about d and leaves everything else alone.
Touches(t, d) ==
  /\ \A u \in Thread : u # t => run'[u] = run[u]
  /\ \A e \in Dep : e # d => row'[e] = row[e] /\ lease'[e] = lease[e] /\ hold'[e] = hold[e]

\* It ends in agreement or goes on towards one.
Lands(t, d) ==
  \/ Idle(t)' /\ Agrees(crashes', row'[d], lease'[d], hold'[d])
  \/ ~Idle(t)' /\ job(t)' = d /\ OnItsWay(Local(t)', run'[t].todo, lease'[d], hold'[d])

\* A step about d keeps the handlers on their way and what is settled in agreement.
LEMMA Settles ==
  ASSUME HandlersOnTheirWay, SettledAgrees, NEW t \in Thread, NEW d \in Dep,
         \A u \in Thread : u # t /\ ~Idle(u) => job(u) \in Dep \ {d},
         Idle(t) \/ job(t) = d, Touches(t, d), Lands(t, d), crashes' = crashes
  PROVE  HandlersOnTheirWay' /\ SettledAgrees'
<1>1. ASSUME NEW u \in Thread, ~Idle(u)'
      PROVE  OnItsWay(Local(u)', run'[u].todo, lease'[job(u)'], hold'[job(u)'])
  <2>1. CASE u = t
    <3>1. job(t)' = d /\ OnItsWay(Local(t)', run'[t].todo, lease'[d], hold'[d])
      BY <1>1, <2>1 DEF Lands
    <3> QED
      BY <2>1, <3>1
  <2>2. CASE u # t
    <3>1. run'[u] = run[u]
      BY <2>2 DEF Touches
    <3>2. ~Idle(u) /\ job(u)' = job(u)
      BY <1>1, <3>1 DEF Idle, job
    <3>3. job(u) \in Dep /\ job(u) # d
      BY <2>2, <3>2
    <3>4. row'[job(u)] = row[job(u)] /\ lease'[job(u)] = lease[job(u)] /\ hold'[job(u)] = hold[job(u)]
      BY <3>3 DEF Touches
    <3>5. Local(u)' = Local(u)
      BY <3>1, <3>2, <3>4 DEF Local, snap
    <3> QED
      BY <3>1, <3>2, <3>4, <3>5 DEF HandlersOnTheirWay
  <2> QED
    BY <2>1, <2>2
<1>2. ASSUME NEW e \in Dep, Quiet(e)'
      PROVE  Agrees(crashes', row'[e], lease'[e], hold'[e])
  <2>1. CASE e = d
    <3>1. Idle(t)' \/ job(t)' # d
      BY <1>2, <2>1 DEF Quiet
    <3> QED
      BY <2>1, <3>1 DEF Lands
  <2>2. CASE e # d
    <3>1. \A u \in Thread : ~Idle(u) => job(u) # e
      <4> TAKE u \in Thread
      <4>1. CASE u = t
        BY <2>2, <4>1
      <4>2. CASE u # t
        BY <1>2, <4>2 DEF Quiet, Touches, Idle, job
      <4> QED
        BY <4>1, <4>2
    <3>2. Agrees(crashes, row[e], lease[e], hold[e])
      BY <3>1 DEF SettledAgrees, Quiet
    <3> QED
      BY <2>2, <3>2 DEF Touches
  <2> QED
    BY <2>1, <2>2
<1> QED
  BY <1>1, <1>2 DEF HandlersOnTheirWay, SettledAgrees

\* What t knows and has before it when it makes a call.
LEMMA AtCall ==
  ASSUME Safe, HandlersOnTheirWay, NEW t \in Thread, NEW name, Doing(t, name)
  PROVE  /\ ~Idle(t) /\ job(t) \in Dep /\ run \in [Thread -> RunRec] /\ run[t].todo \in Seq(PlannedOp)
         /\ Tail(run[t].todo) \in Seq(PlannedOp) /\ Head(run[t].todo).op = name
         /\ OnItsWay(Local(t), run[t].todo, lease[job(t)], hold[job(t)])
<1>1. ~Idle(t) /\ job(t) \in Dep /\ PlanOK(run[t]) /\ run \in [Thread -> RunRec]
  BY Busy DEF Safe
<1>2. run[t].todo \in Seq(PlannedOp) /\ Tail(run[t].todo) \in Seq(PlannedOp)
  BY <1>1, PlainIsNextable, SeqMonotonic DEF RunRec, PlanOK, Idle
<1> QED
  BY <1>1, <1>2 DEF Doing, HandlersOnTheirWay

\* Where a call leads that goes on with ops.
LEMMA LandsBy ==
  ASSUME run \in [Thread -> RunRec], NEW t \in Thread, NEW r, NEW ops, Then(t, r, ops), crashes' = crashes,
         NEW left, left = ops \o Tail(run[t].todo), NEW d, d = job(t),
         left = <<>> => Agrees(crashes, row'[d], lease'[d], hold'[d]),
         left # <<>> => OnItsWay(View(r, run[t].msg, row'[d], crashes), left, lease'[d], hold'[d])
  PROVE  Lands(t, d)
<1>1. CASE left = <<>>
  <2>1. run'[t] = Resting
    BY <1>1, Proceeds
  <2> QED
    BY <1>1, <2>1, RestingOK DEF Lands, Idle
<1>2. CASE left # <<>>
  <2>1. /\ run'[t].dep = job(t) /\ run'[t].msg = run[t].msg
        /\ run'[t].row = r /\ run'[t].todo = left
    BY <1>2, Proceeds
  <2>2. Local(t)' = View(r, run[t].msg, row'[d], crashes)
    BY <2>1 DEF Local, snap, job
  <2> QED
    BY <1>2, <2>1, <2>2 DEF Lands, Idle, job
<1> QED
  BY <1>1, <1>2

\* Every call a handler plans is one of the calls there are.
LEMMA AllOps ==
  /\ \A s \in State : Op("update", s) \in PlannedOp
  /\ \A s \in LeaseStatus : Op("lease", s) \in PlannedOp
  /\ \A s \in {"pending", "failed", "completed"} : Op("mark", s) \in PlannedOp
  /\ \A s \in MinerHealth : Op("unhealthy", s) \in PlannedOp
  /\ \A s \in {"operator", "sweep"} : Op("requeue", s) \in PlannedOp
  /\ \A s \in {"release", "request", "choose", "reserve", "hold", "headroom", "reacquire", "place",
               "save", "publish", "timeout", "cleanup", "fail", "delete"} : Call(s) \in PlannedOp
  BY DEF PlannedOp, Op, Call

\* There is always something left to do on the way to a save.
LEMMA NonEmpty ==
  ASSUME NEW c, NEW q, NEW l, NEW h
  PROVE  /\ OneBefore(c, q, l, h) => q # <<>> /\ TwoBefore(c, q, l, h)
         /\ Last(c, q, l, h) => OneBefore(c, q, l, h)
  BY DEF OneBefore, TwoBefore, Last, Saves, Fails, Only, Starts

\* update_deployment.
LEMMA SaveLands ==
  ASSUME Safe, HandlersOnTheirWay, NEW t \in Thread, CallSave(t)
  PROVE  Lands(t, job(t))
<1> DEFINE d == job(t)
           rest == Tail(run[t].todo)
<1>1. /\ Doing(t, "save") /\ Then(t, snap(t), <<>>) /\ crashes' = crashes
      /\ row' = [row EXCEPT ![d] = snap(t)] /\ lease' = lease /\ hold' = hold
  BY DEF CallSave, GoOn
<1>2. /\ ~Idle(t) /\ d \in Dep /\ run \in [Thread -> RunRec] /\ rest \in Seq(PlannedOp)
      /\ Saves(Local(t), run[t].todo, lease[d], hold[d])
  BY <1>1, AtCall, ByHead
<1>3. row'[d] = snap(t)
  BY <1>1, <1>2 DEF Safe, TypeOK
<1>4. <<>> \o rest = rest
  BY <1>2, Ahead
<1> DEFINE c2 == View(snap(t), run[t].msg, snap(t), crashes)
<1>5. /\ Local(t).msg = run[t].msg /\ Local(t).snap = snap(t) /\ Local(t).crashes = crashes
      /\ c2.msg = run[t].msg /\ c2.snap = snap(t) /\ c2.crashes = crashes /\ c2.row = snap(t)
  BY DEF Local, View
<1> HIDE DEF c2, rest
<1>6. Agrees(crashes, snap(t), lease[d], hold[d])
  BY <1>2, <1>5 DEF Saves
<1>7. rest # <<>> => Clean(c2, rest, lease[d], hold[d])
  <2>1. CASE Remains(Local(t), rest, snap(t))
    <3>1. Remains(c2, rest, snap(t))
      BY <2>1, <1>5 DEF Remains
    <3> QED
      BY <3>1, <1>5, <1>6 DEF Clean
  <2>2. CASE run[t].msg = 0 /\ Only(rest, "publish", "")
    BY <2>2, <1>5, <1>6 DEF Clean
  <2> QED
    BY <1>2, <1>5, <2>1, <2>2 DEF Saves, rest
<1> QED
  BY <1>1, <1>2, <1>3, <1>4, <1>6, <1>7, LandsBy DEF OnItsWay, c2, rest

\* release_gpus.
LEMMA ReleaseLands ==
  ASSUME Safe, HandlersOnTheirWay, NEW t \in Thread, CallRelease(t)
  PROVE  Lands(t, job(t))
<1> DEFINE d == job(t)
           rest == Tail(run[t].todo)
           c == Local(t)
<1>1. /\ Doing(t, "release") /\ Then(t, snap(t), <<>>) /\ crashes' = crashes
      /\ hold' = [hold EXCEPT ![d] = NoNode] /\ lease' = lease /\ row' = row
  BY DEF CallRelease, GoOn
<1>2. /\ ~Idle(t) /\ d \in Dep /\ run \in [Thread -> RunRec] /\ rest \in Seq(PlannedOp)
      /\ OneBefore(c, rest, lease[d], NoNode) /\ Closed(c.crashes, c.row, lease[d], hold[d])
  BY <1>1, AtCall, ByHead
<1>3. hold'[d] = NoNode
  BY <1>1, <1>2 DEF Safe, TypeOK
<1>4. <<>> \o rest = rest
  BY <1>2, Ahead
<1>5. c = View(snap(t), run[t].msg, row'[d], crashes)
  BY <1>1 DEF Local
<1>6. rest # <<>> /\ OnItsWay(c, rest, lease[d], NoNode)
  BY <1>2, NonEmpty DEF OnItsWay, Closed
<1> QED
  BY <1>1, <1>2, <1>3, <1>4, <1>5, <1>6, LandsBy

\* update_assignment_status.
LEMMA LeaseLands ==
  ASSUME Safe, HandlersOnTheirWay, NEW t \in Thread, CallUpdateAssignment(t)
  PROVE  Lands(t, job(t))
<1> DEFINE d == job(t)
           rest == Tail(run[t].todo)
           c == Local(t)
<1>1. /\ Doing(t, "lease") /\ Then(t, snap(t), <<>>) /\ crashes' = crashes /\ hold' = hold /\ row' = row
      /\ lease' = IF lease[d].status = "none" THEN lease ELSE [lease EXCEPT ![d].status = Arg(t)]
  BY DEF CallUpdateAssignment, GoOn
<1>2. /\ ~Idle(t) /\ d \in Dep /\ run \in [Thread -> RunRec] /\ rest \in Seq(PlannedOp)
      /\ Closed(c.crashes, c.row, lease[d], hold[d])
  BY <1>1, AtCall, ByHead
<1>3. PICK s \in LeaseStatus : /\ Head(run[t].todo).arg = s /\ (s \in LiveLease => ~Stops(c.row))
                               /\ OneBefore(c, rest, WithStatus(lease[d], s), hold[d])
  BY <1>1, AtCall, ByHead
<1>4. lease'[d] = WithStatus(lease[d], s)
  BY <1>1, <1>2, <1>3 DEF Safe, TypeOK, WithStatus, Arg
<1>5. <<>> \o rest = rest
  BY <1>2, Ahead
<1>6. c = View(snap(t), run[t].msg, row'[d], crashes)
  BY <1>1 DEF Local
<1>7. Closed(c.crashes, c.row, WithStatus(lease[d], s), hold[d])
  <2>1. lease[d] \in [status : LeaseStatus, node : Node \cup {NoNode}]
    BY <1>2 DEF Safe, TypeOK
  <2>2. WithStatus(lease[d], s).status \in {lease[d].status, s}
    BY <2>1 DEF WithStatus
  <2> QED
    BY <1>2, <1>3, <2>2 DEF Closed, Live
<1>8. rest # <<>> /\ OnItsWay(c, rest, WithStatus(lease[d], s), hold[d])
  BY <1>3, <1>7, NonEmpty DEF OnItsWay
<1> QED
  BY <1>1, <1>2, <1>4, <1>5, <1>6, <1>8, LandsBy

\* A plan with one call, or more, put before another.
LEMMA AheadOp ==
  ASSUME NEW s \in Seq(PlannedOp), NEW n, NEW a, Op(n, a) \in PlannedOp, NEW q, q = <<Op(n, a)>> \o s
  PROVE  q \in Seq(PlannedOp) /\ Starts(q, n, a) /\ Tail(q) = s
<1>1. q \in Seq(PlannedOp) /\ q # <<>> /\ Head(q) = Op(n, a) /\ Tail(q) = s
  BY Ahead
<1> QED
  BY <1>1, Names DEF Starts

\* The tail of update_deployment_status, followed by the rest of a handler.
LEMMA StatusPlan ==
  ASSUME NEW s \in Reported, NEW rest \in Seq(PlannedOp)
  PROVE  LET q == StatusCalls(s) \o rest IN
         \E a \in LeaseStatus \ {"none"} :
           /\ Starts(q, "lease", a)
           /\ IF s \in Running
              THEN /\ a \in LiveLease /\ (s = "READY" => a = "active")
                   /\ Starts(Tail(q), "save", "") /\ Tail(Tail(q)) = rest
              ELSE /\ a \notin LiveLease
                   /\ Starts(Tail(q), "release", "") /\ Starts(Tail(Tail(q)), "save", "")
                   /\ Tail(Tail(Tail(q))) = rest
<1> DEFINE save == <<Call("save")>>
           free == IF Frees(s) THEN <<Call("release")>> ELSE <<>>
<1>0. /\ \A b \in LeaseStatus : Op("lease", b) \in PlannedOp
      /\ Call("save") \in PlannedOp /\ Call("release") \in PlannedOp
  BY AllOps
<1>1. PICK a \in LeaseStatus \ {"none"} :
        /\ LeaseFor(s) = <<Op("lease", a)>>
        /\ (s \in Running => a \in LiveLease) /\ (s \notin Running => a \notin LiveLease) /\ (s = "READY" => a = "active")
  <2>1. CASE s \in {"PULLING", "STARTING"}
    <3>1. LeaseFor(s) = <<Op("lease", "activating")>>
      BY <2>1 DEF LeaseFor
    <3> QED
      BY <2>1, <3>1 DEF Running, LeaseStatus, LiveLease
  <2>2. CASE s = "READY"
    <3>1. LeaseFor(s) = <<Op("lease", "active")>>
      BY <2>2 DEF LeaseFor
    <3> QED
      BY <2>2, <3>1 DEF Running, LeaseStatus, LiveLease
  <2>3. CASE s = "SUSPENDED"
    <3>1. LeaseFor(s) = <<Op("lease", "suspended")>>
      BY <2>3 DEF LeaseFor
    <3> QED
      BY <2>3, <3>1 DEF Running, LeaseStatus, LiveLease
  <2>4. CASE s = "FAILED"
    <3>1. LeaseFor(s) = <<Op("lease", "failed")>>
      BY <2>4 DEF LeaseFor
    <3> QED
      BY <2>4, <3>1 DEF Running, LeaseStatus, LiveLease
  <2>5. CASE s = "TERMINATED"
    <3>1. LeaseFor(s) = <<Op("lease", "terminated")>>
      BY <2>5 DEF LeaseFor
    <3> QED
      BY <2>5, <3>1 DEF Running, LeaseStatus, LiveLease
  <2> QED
    BY <2>1, <2>2, <2>3, <2>4, <2>5 DEF Reported, Terminal
<1>2. (s \in Running => free = <<>>) /\ (s \notin Running => free = <<Call("release")>>)
  BY DEF Reported, Running, Terminal, Frees
<1>3. save \in Seq(PlannedOp) /\ free \in Seq(PlannedOp) /\ LeaseFor(s) \in Seq(PlannedOp)
  <2>1. save \in Seq(PlannedOp)
    BY <1>0
  <2>2. LeaseFor(s) \in Seq(PlannedOp)
    BY <1>0, <1>1
  <2>3. free \in Seq(PlannedOp)
    BY <1>0, EmptySeq
  <2> QED
    BY <2>1, <2>2, <2>3
<1>4. StatusCalls(s) \o rest = LeaseFor(s) \o (free \o (save \o rest))
  <2>1. ((LeaseFor(s) \o free) \o save) \o rest = LeaseFor(s) \o (free \o (save \o rest))
    <3> HIDE DEF save, free
    <3> QED
      BY <1>3
  <2> QED
    BY <2>1 DEF StatusCalls
<1> DEFINE q == StatusCalls(s) \o rest
           q1 == save \o rest
           q2 == free \o q1
<1>5. q1 \in Seq(PlannedOp) /\ Starts(q1, "save", "") /\ Tail(q1) = rest
  BY <1>0, AheadOp DEF Call
<1>6. s \in Running => q2 = q1
  <2> HIDE DEF q1
  <2> QED
    BY <1>2, <1>5, Ahead
<1>7. s \notin Running => q2 \in Seq(PlannedOp) /\ Starts(q2, "release", "") /\ Tail(q2) = q1
  <2> HIDE DEF q1
  <2> SUFFICES ASSUME s \notin Running PROVE q2 \in Seq(PlannedOp) /\ Starts(q2, "release", "") /\ Tail(q2) = q1
    OBVIOUS
  <2>1. q2 = <<Call("release")>> \o q1
    BY <1>2
  <2> HIDE DEF q2
  <2> QED
    BY <2>1, <1>0, <1>5, AheadOp DEF Call
<1>8. Starts(q, "lease", a) /\ Tail(q) = q2
  <2>1. q2 \in Seq(PlannedOp)
    BY <1>5, <1>6, <1>7
  <2> HIDE DEF q1, q2, q
  <2>2. q = <<Op("lease", a)>> \o q2 /\ Op("lease", a) \in PlannedOp
    BY <1>0, <1>1, <1>4 DEF q1, q2, q
  <2> QED
    BY <2>1, <2>2, AheadOp
<1> HIDE DEF q, q1, q2, save, free
<1> QED
  BY <1>1, <1>5, <1>6, <1>7, <1>8 DEF q

\* What update_deployment_status finds: the row, or what fail_deployment has left of it.
LEMMA UpdateSees ==
  ASSUME NEW c, NEW q, NEW l, NEW h, OnItsWay(c, q, l, h), Head(q).op = "update", NEW s, s = Head(q).arg
  PROVE  /\ s \in Reported
         /\ \/ c.msg = 0 /\ Tail(q) = <<>>
            \/ c.msg # 0 /\ c.row.state = "PENDING" /\ s = "FAILED" /\ Only(Tail(q), "mark", "failed")
         /\ Closed(c.crashes, c.row, l, h)
         /\ Sound(c.crashes) => Linked(c.row, l)
         /\ s \in Running => Agrees(c.crashes, c.row, l, h) /\ (Sound(c.crashes) => Live(l))
         /\ s \notin Running /\ (c.row.state \in Terminal \cup Missing \/ ~TransitionState(c.row.state, s))
                                  => Agrees(c.crashes, c.row, l, h)
<1>1. CASE Fails(c, q, l, h)
  BY <1>1 DEF Fails, Only, Starts, Reported, Running, Closed, Agrees, Terminal, Missing, Stops, Placed,
              TransitionState, AllowedTransitions
<1>2. CASE Clean(c, q, l, h) /\ Remains(c, q, c.row)
  <2>1. Agrees(c.crashes, c.row, l, h)
    BY <1>2 DEF Clean
  <2>2. Closed(c.crashes, c.row, l, h) /\ (Sound(c.crashes) => Linked(c.row, l))
    BY <2>1 DEF Agrees, Closed
  <2>3. /\ s = "FAILED"
        /\ \/ c.msg = 0 /\ Tail(q) = <<>>
           \/ c.msg # 0 /\ c.row.state = "PENDING" /\ Only(Tail(q), "mark", "failed")
    <3>1. q # <<>> /\ Head(q).op = "update" /\ Remains(c, q, c.row)
      BY <1>2, ByHead
    <3> QED
      BY <3>1 DEF Remains, Only, Starts
  <2> QED
    BY <2>1, <2>2, <2>3 DEF Reported, Running, Terminal
<1>3. CASE Clean(c, q, l, h) /\ WillRead(c, q, l)
  BY <1>3 DEF Clean, WillRead, Only, Starts, Closed, Agrees
<1> QED
  BY <1>1, <1>2, <1>3, ByHead

\* The row, its lease and its reservation once update_deployment_status has written them.
LEMMA StatusAgrees ==
  ASSUME NEW n, NEW r \in Row, NEW l \in [status : LeaseStatus, node : Node \cup {NoNode}], NEW h,
         NEW s \in Reported, NEW r2, r2.state = s, r2.node = r.node, NEW a \in LeaseStatus \ {"none"},
         ~Stops(r), Sound(n) => Linked(r, l)
  PROVE  /\ s \in Running /\ a \in LiveLease /\ (s = "READY" => a = "active")
              /\ Agrees(n, r, l, h) /\ (Sound(n) => Live(l))
              => Agrees(n, r2, WithStatus(l, a), h)
         /\ s \notin Running /\ a \notin LiveLease => Agrees(n, r2, WithStatus(l, a), NoNode)
<1> DEFINE l2 == WithStatus(l, a)
<1>1. l2.node = l.node /\ (l.status = "none" => l2 = l) /\ (l.status # "none" => l2.status = a)
  BY DEF WithStatus
<1>2. Sound(n) => Linked(r2, l2)
  BY <1>1 DEF Linked
<1>3. l.status = "none" => ~Live(l)
  BY DEF Live, LiveLease
<1> HIDE DEF l2
<1>4. ASSUME s \in Running, a \in LiveLease, s = "READY" => a = "active",
             Agrees(n, r, l, h), Sound(n) => Live(l)
      PROVE  Agrees(n, r2, l2, h)
  <2>1. ~Stops(r2) /\ s \in Placed
    BY <1>4 DEF Stops, Running, Terminal, Missing, Placed
  <2>2. Sound(n) => r.node # NoNode /\ h = r.node
    BY <1>4 DEF Agrees
  <2>3. Sound(n) => l2.status = a /\ Live(l2)
    BY <1>1, <1>3, <1>4 DEF Live
  <2> QED
    BY <1>2, <1>4, <2>1, <2>2, <2>3 DEF Agrees
<1>5. ASSUME s \notin Running, a \notin LiveLease
      PROVE  Agrees(n, r2, l2, NoNode)
  <2>1. s \notin Placed /\ s # "READY"
    BY <1>5 DEF Reported, Running, Terminal, Placed
  <2>2. ~Live(l2)
    BY <1>1, <1>3, <1>5 DEF Live
  <2> QED
    BY <1>2, <2>1, <2>2 DEF Agrees
<1> QED
  BY <1>4, <1>5 DEF l2

\* update_deployment_status's decision.
LEMMA UpdateLands ==
  ASSUME Safe, HandlersOnTheirWay, NEW t \in Thread, CallUpdateStatus(t)
  PROVE  Lands(t, job(t))
<1> DEFINE d == job(t)
           rest == Tail(run[t].todo)
           r == row[d]
           s == Arg(t)
           l == lease[d]
           h == hold[d]
           c == Local(t)
<1>1. /\ Doing(t, "update") /\ UNCHANGED <<row, lease, hold, crashes>>
      /\ \/ r.state \in Terminal /\ GoOn(t)
         \/ /\ r.state \in Missing \/ ~TransitionState(r.state, s)
            /\ r.state \notin Terminal /\ Raise(t)
         \/ /\ r.state \notin Terminal \cup Missing /\ TransitionState(r.state, s)
            /\ Then(t, [r EXCEPT !.state = s, !.health = IF s = "READY" THEN 0 ELSE @], StatusCalls(s))
  BY DEF CallUpdateStatus, store
<1>2. /\ ~Idle(t) /\ d \in Dep /\ run \in [Thread -> RunRec] /\ rest \in Seq(PlannedOp)
      /\ OnItsWay(c, run[t].todo, l, h)
  BY <1>1, AtCall
<1>3. c.msg = run[t].msg /\ c.row = r /\ c.snap = snap(t) /\ c.crashes = crashes
  BY DEF Local, View
<1>4. /\ s \in Reported
      /\ \/ c.msg = 0 /\ rest = <<>>
         \/ c.msg # 0 /\ c.row.state = "PENDING" /\ s = "FAILED" /\ Only(rest, "mark", "failed")
      /\ Closed(crashes, r, l, h)
      /\ Sound(crashes) => Linked(r, l)
      /\ s \in Running => Agrees(crashes, r, l, h) /\ (Sound(crashes) => Live(l))
      /\ s \notin Running /\ (r.state \in Terminal \cup Missing \/ ~TransitionState(r.state, s))
                              => Agrees(crashes, r, l, h)
  BY <1>1, <1>2, <1>3, AtCall, UpdateSees DEF Arg
<1> HIDE DEF c
<1>5. ASSUME r.state \in Terminal \cup Missing \/ ~TransitionState(r.state, s)
      PROVE  run[t].msg = 0 /\ rest = <<>> /\ Agrees(crashes, r, l, h)
  <2>1. ~(c.row.state = "PENDING" /\ s = "FAILED")
    BY <1>3, <1>5 DEF Terminal, Missing, TransitionState, AllowedTransitions
  <2> QED
    BY <1>3, <1>4, <1>5, <2>1
<1>6. CASE r.state \in Terminal /\ GoOn(t)
  <2>1. <<>> \o rest = <<>> /\ Agrees(crashes, r, l, h)
    BY <1>2, <1>5, <1>6, Ahead
  <2> QED
    BY <1>1, <1>2, <1>6, <2>1, LandsBy DEF GoOn
<1>7. CASE (r.state \in Missing \/ ~TransitionState(r.state, s)) /\ Raise(t)
  <2>1. run[t].msg = 0 /\ Agrees(crashes, r, l, h)
    BY <1>5, <1>7
  <2>2. run'[t] = Resting
    BY <1>2, <1>7, <2>1 DEF Raise
  <2> QED
    BY <1>1, <2>1, <2>2, RestingOK DEF Lands, Idle
<1>8. CASE /\ r.state \notin Terminal \cup Missing /\ TransitionState(r.state, s)
           /\ Then(t, [r EXCEPT !.state = s, !.health = IF s = "READY" THEN 0 ELSE @], StatusCalls(s))
  <2> DEFINE r2 == [r EXCEPT !.state = s, !.health = IF s = "READY" THEN 0 ELSE @]
             left == StatusCalls(s) \o rest
             c2 == View(r2, run[t].msg, r, crashes)
  <2>1. r \in Row /\ l \in [status : LeaseStatus, node : Node \cup {NoNode}]
    BY <1>2 DEF Safe, TypeOK
  <2>2. r2.state = s /\ r2.node = r.node
    BY <2>1 DEF Row
  <2>3. c2.snap = r2 /\ c2.msg = run[t].msg /\ c2.row = r /\ c2.crashes = crashes
    BY DEF View
  <2>4. PICK a \in LeaseStatus \ {"none"} :
           /\ Starts(left, "lease", a)
           /\ IF s \in Running
              THEN /\ a \in LiveLease /\ (s = "READY" => a = "active")
                   /\ Starts(Tail(left), "save", "") /\ Tail(Tail(left)) = rest
              ELSE /\ a \notin LiveLease
                   /\ Starts(Tail(left), "release", "") /\ Starts(Tail(Tail(left)), "save", "")
                   /\ Tail(Tail(Tail(left))) = rest
    BY <1>2, <1>4, StatusPlan
  <2> HIDE DEF left, c2, r2, rest
  <2>5. ~Stops(r)
    BY <1>8 DEF Stops
  <2>6. /\ s \in Running => Agrees(crashes, r2, WithStatus(l, a), h)
        /\ s \notin Running => Agrees(crashes, r2, WithStatus(l, a), NoNode)
    BY <1>4, <2>1, <2>2, <2>4, <2>5, StatusAgrees
  <2>7. Remains(c2, rest, r2)
    BY <1>3, <1>4, <2>2, <2>3 DEF Remains
  <2>8. (c2.row.state \in Terminal => c2.snap.state \in Terminal) /\ c2.snap.state # "PENDING"
    BY <1>4, <2>2, <2>3, <2>5 DEF Stops, Reported, Terminal
  <2>9. TwoBefore(c2, left, l, h)
    <3>1. CASE s \in Running
      <4>1. Saves(c2, Tail(left), WithStatus(l, a), h)
        BY <2>3, <2>4, <2>6, <2>7, <2>8, <3>1 DEF Saves
      <4>2. OneBefore(c2, Tail(left), WithStatus(l, a), h)
        BY <4>1 DEF OneBefore, Last
      <4> QED
        BY <2>3, <2>4, <2>5, <3>1, <4>2 DEF TwoBefore
    <3>2. CASE s \notin Running
      <4>1. Saves(c2, Tail(Tail(left)), WithStatus(l, a), NoNode)
        BY <2>3, <2>4, <2>6, <2>7, <2>8, <3>2 DEF Saves
      <4>2. OneBefore(c2, Tail(left), WithStatus(l, a), h)
        BY <2>4, <3>2, <4>1 DEF OneBefore, Last
      <4> QED
        BY <2>3, <2>4, <2>5, <3>2, <4>2 DEF TwoBefore
    <3> QED
      BY <3>1, <3>2
  <2>10. OnItsWay(c2, left, l, h) /\ left # <<>>
    BY <1>4, <2>3, <2>4, <2>9 DEF OnItsWay, Starts
  <2> QED
    BY <1>1, <1>2, <1>8, <2>10, LandsBy DEF left, c2, r2, rest
<1> QED
  BY <1>1, <1>6, <1>7, <1>8

\* Plans of two, three and four calls put before another.
LEMMA AheadTwo ==
  ASSUME NEW s \in Seq(PlannedOp), NEW x \in PlannedOp, NEW y \in PlannedOp, NEW q, q = <<x, y>> \o s
  PROVE  q # <<>> /\ Head(q) = x /\ Tail(q) # <<>> /\ Head(Tail(q)) = y /\ Tail(Tail(q)) = s
<1> DEFINE p == <<y>> \o s
<1>1. q # <<>> /\ Head(q) = x /\ Tail(q) = p
  OBVIOUS
<1>2. p # <<>> /\ Head(p) = y /\ Tail(p) = s
  OBVIOUS
<1> HIDE DEF p
<1> QED
  BY <1>1, <1>2

\* The same for three.
LEMMA AheadThree ==
  ASSUME NEW s \in Seq(PlannedOp), NEW x \in PlannedOp, NEW y \in PlannedOp, NEW z \in PlannedOp,
         NEW q, q = <<x, y, z>> \o s
  PROVE  /\ q # <<>> /\ Head(q) = x /\ Tail(q) # <<>> /\ Head(Tail(q)) = y
         /\ Tail(Tail(q)) # <<>> /\ Head(Tail(Tail(q))) = z /\ Tail(Tail(Tail(q))) = s
<1> DEFINE p == <<y, z>> \o s
<1>1. q # <<>> /\ Head(q) = x /\ Tail(q) = p
  OBVIOUS
<1> HIDE DEF p
<1>2. p # <<>> /\ Head(p) = y /\ Tail(p) # <<>> /\ Head(Tail(p)) = z /\ Tail(Tail(p)) = s
  BY AheadTwo DEF p
<1> QED
  BY <1>1, <1>2

\* The same for four.
LEMMA AheadFour ==
  ASSUME NEW s \in Seq(PlannedOp), NEW x \in PlannedOp, NEW y \in PlannedOp, NEW z \in PlannedOp,
         NEW w \in PlannedOp, NEW q, q = <<x, y, z, w>> \o s
  PROVE  /\ q # <<>> /\ Head(q) = x /\ Tail(q) # <<>> /\ Head(Tail(q)) = y
         /\ Tail(Tail(q)) # <<>> /\ Head(Tail(Tail(q))) = z
         /\ Tail(Tail(Tail(q))) # <<>> /\ Head(Tail(Tail(Tail(q)))) = w /\ Tail(Tail(Tail(Tail(q)))) = s
<1> DEFINE p1 == <<y, z, w>> \o s
           p2 == <<z, w>> \o s
<1>1. q # <<>> /\ Head(q) = x /\ Tail(q) = p1
  OBVIOUS
<1>2. p1 # <<>> /\ Head(p1) = y /\ Tail(p1) = p2
  OBVIOUS
<1>3. p2 # <<>> /\ Head(p2) = z /\ Tail(p2) # <<>> /\ Head(Tail(p2)) = w /\ Tail(Tail(p2)) = s
  BY AheadTwo
<1> HIDE DEF p1, p2
<1> QED
  BY <1>1, <1>2, <1>3

\* What a thread knows, by name.
LEMMA Knows ==
  /\ \A s, m, r, n : LET c == View(s, m, r, n) IN c.snap = s /\ c.msg = m /\ c.row = r /\ c.crashes = n
  /\ \A t : Local(t).snap = snap(t) /\ Local(t).msg = run[t].msg /\ Local(t).row = row[job(t)] /\ Local(t).crashes = crashes
  BY DEF View, Local

\* The calls that publish a request and that mark a delivery end in agreement.
LEMMA EndsLand ==
  ASSUME Safe, HandlersOnTheirWay, NEW t \in Thread, CallPublish(t) \/ CallMark(t) \/ CallDelete(t)
  PROVE  Lands(t, job(t))
<1> DEFINE d == job(t)
<1>1. CASE CallPublish(t)
  <2>1. Doing(t, "publish") /\ Then(t, snap(t), <<>>) /\ UNCHANGED <<row, lease, hold, crashes>>
    BY <1>1 DEF CallPublish, GoOn
  <2>0. /\ run \in [Thread -> RunRec] /\ Only(run[t].todo, "publish", "")
        /\ Clean(Local(t), run[t].todo, lease[d], hold[d])
    BY <2>1, AtCall, ByHead
  <2>2. Tail(run[t].todo) = <<>> /\ Agrees(crashes, row[d], lease[d], hold[d])
    BY <2>0, Knows DEF Only, Clean
  <2>3. <<>> \o Tail(run[t].todo) = <<>>
    BY <2>1, <2>2, AtCall, Ahead
  <2> QED
    BY <2>0, <2>1, <2>2, <2>3, LandsBy
<1>2. CASE CallMark(t)
  <2>1. Doing(t, "mark") /\ run' = [run EXCEPT ![t] = Resting] /\ UNCHANGED <<row, lease, hold, crashes>>
    BY <1>2 DEF CallMark
  <2>0. run \in [Thread -> RunRec] /\ Clean(Local(t), run[t].todo, lease[d], hold[d])
    BY <2>1, AtCall, ByHead
  <2>2. run \in [Thread -> RunRec] /\ Agrees(crashes, row[d], lease[d], hold[d])
    BY <2>0, Knows DEF Clean
  <2>3. run'[t] = Resting
    BY <2>1, <2>2
  <2> QED
    BY <2>1, <2>2, <2>3, RestingOK DEF Lands, Idle
<1>3. CASE CallDelete(t)
  <2>1. /\ Doing(t, "delete") /\ Then(t, snap(t), <<>>) /\ crashes' = crashes
        /\ row' = [row EXCEPT ![d] = [NoRow EXCEPT !.state = "deleted"]]
        /\ lease' = [lease EXCEPT ![d] = NoLease] /\ hold' = [hold EXCEPT ![d] = NoNode]
    BY <1>3 DEF CallDelete, GoOn
  <2>2. run \in [Thread -> RunRec] /\ Tail(run[t].todo) = <<>> /\ d \in Dep
    BY <2>1, AtCall, ByHead
  <2>3. row'[d].state = "deleted" /\ row'[d].node = NoNode /\ lease'[d] = NoLease /\ hold'[d] = NoNode
    BY <2>1, <2>2 DEF Safe, TypeOK, NoRow
  <2>4. Agrees(crashes, row'[d], lease'[d], hold'[d])
    BY <2>3 DEF Agrees, NoLease, Live, LiveLease, Linked, Placed
  <2>5. <<>> \o Tail(run[t].todo) = <<>>
    BY <2>1, <2>2, AtCall, Ahead
  <2> QED
    BY <2>1, <2>2, <2>4, <2>5, LandsBy
<1> QED
  BY <1>1, <1>2, <1>3

\* A plan of one call.
LEMMA OnlyOne ==
  ASSUME NEW n, NEW a, Op(n, a) \in PlannedOp
  PROVE  Only(<<Op(n, a)>> \o <<>>, n, a) /\ <<Op(n, a)>> \o <<>> # <<>>
<1>1. <<>> \in Seq(PlannedOp)
  BY EmptySeq
<1>2. \A s \in Seq(PlannedOp) : \A q : q = <<Op(n, a)>> \o s => Starts(q, n, a) /\ Tail(q) = s
  BY AheadOp
<1>3. Starts(<<Op(n, a)>> \o <<>>, n, a) /\ Tail(<<Op(n, a)>> \o <<>>) = <<>>
  BY <1>1, <1>2, Zenon
<1> QED
  BY <1>3, Zenon DEF Only, Starts

\* _process_deployment_request's reading of the row.
LEMMA RequestLands ==
  ASSUME Safe, HandlersOnTheirWay, NEW t \in Thread, CallRequest(t)
  PROVE  Lands(t, job(t))
<1> DEFINE d == job(t)
           m == run[t].msg
           c == View(row[d], m, row[d], crashes)
<1>1. /\ Doing(t, "request") /\ UNCHANGED <<row, lease, hold, crashes>>
      /\ Then(t, row[d], CASE row[d].state \in Missing -> <<Op("mark", "failed")>>
                           [] row[d].state = "PENDING" -> <<Call("choose")>>
                           [] OTHER -> <<Op("mark", "completed")>>)
  BY DEF CallRequest, store
<1>2. /\ run \in [Thread -> RunRec] /\ Agrees(crashes, row[d], lease[d], hold[d])
      /\ m # 0 /\ Tail(run[t].todo) = <<>>
  <2>1. Clean(Local(t), run[t].todo, lease[d], hold[d]) /\ Placing(Local(t), run[t].todo)
        /\ Head(run[t].todo).op = "request" /\ run \in [Thread -> RunRec]
    BY <1>1, AtCall, ByHead
  <2> QED
    BY <2>1, Knows DEF Clean, Placing, Only, Starts
<1>3. c.snap = row[d] /\ c.msg = m /\ c.row = row[d] /\ c.crashes = crashes
  BY Knows
<1> HIDE DEF c
<1>4. CASE row[d].state \in Missing
  <2>1. Then(t, row[d], <<Op("mark", "failed")>>)
    BY <1>1, <1>4 DEF Missing
  <2> DEFINE left == <<Op("mark", "failed")>> \o <<>>
  <2>2. Only(left, "mark", "failed") /\ left # <<>>
    BY AllOps, OnlyOne
  <2> HIDE DEF left
  <2>3. Remains(c, left, row[d])
    BY <1>2, <1>3, <1>4, <2>2 DEF Remains, Missing
  <2>4. OnItsWay(c, left, lease[d], hold[d])
    BY <1>2, <1>3, <2>2, <2>3 DEF OnItsWay, Clean
  <2> QED
    BY <1>1, <1>2, <2>1, <2>2, <2>4, LandsBy DEF left, c
<1>5. CASE row[d].state = "PENDING"
  <2>1. Then(t, row[d], <<Call("choose")>>)
    BY <1>1, <1>5 DEF Missing
  <2> DEFINE left == <<Call("choose")>> \o <<>>
  <2>2. Only(left, "choose", "") /\ left # <<>>
    BY AllOps, OnlyOne DEF Call
  <2> HIDE DEF left
  <2>3. Placing(c, left)
    BY <1>2, <1>3, <1>5, <2>2 DEF Placing
  <2>4. OnItsWay(c, left, lease[d], hold[d])
    BY <1>2, <1>3, <2>2, <2>3 DEF OnItsWay, Clean
  <2> QED
    BY <1>1, <1>2, <2>1, <2>2, <2>4, LandsBy DEF left, c
<1>6. CASE row[d].state \notin {"PENDING"} \cup Missing
  <2>1. Then(t, row[d], <<Op("mark", "completed")>>)
    BY <1>1, <1>6
  <2> DEFINE left == <<Op("mark", "completed")>> \o <<>>
  <2>2. Only(left, "mark", "completed") /\ left # <<>>
    BY AllOps, OnlyOne
  <2> HIDE DEF left
  <2>3. Remains(c, left, row[d])
    BY <1>2, <1>3, <1>6, <2>2 DEF Remains, Missing
  <2>4. OnItsWay(c, left, lease[d], hold[d])
    BY <1>2, <1>3, <2>2, <2>3 DEF OnItsWay, Clean
  <2> QED
    BY <1>1, <1>2, <2>1, <2>2, <2>4, LandsBy DEF left, c
<1> QED
  BY <1>4, <1>5, <1>6

\* The plans of a placement, each followed by s.
LEMMA PlacementPlans ==
  ASSUME NEW s \in Seq(PlannedOp)
  PROVE  /\ LET q == <<Call("save"), Op("update", "FAILED"), Op("mark", "failed")>> \o s
            IN  /\ Starts(q, "save", "") /\ Starts(Tail(q), "update", "FAILED")
                /\ Starts(Tail(Tail(q)), "mark", "failed") /\ Tail(Tail(Tail(q))) = s
         /\ LET q == <<Call("save"), Op("mark", "pending")>> \o s
            IN  Starts(q, "save", "") /\ Starts(Tail(q), "mark", "pending") /\ Tail(Tail(q)) = s
         /\ LET q == <<Call("place"), Call("save"), Op("mark", "completed")>> \o s
            IN  /\ Starts(q, "place", "") /\ Starts(Tail(q), "save", "")
                /\ Starts(Tail(Tail(q)), "mark", "completed") /\ Tail(Tail(Tail(q))) = s
<1> DEFINE save == Call("save")
           place == Call("place")
           fail == Op("update", "FAILED")
           failed == Op("mark", "failed")
           pending == Op("mark", "pending")
           completed == Op("mark", "completed")
           q1 == <<save, fail, failed>> \o s
           q2 == <<save, pending>> \o s
           q3 == <<place, save, completed>> \o s
<1>2. /\ save.op = "save" /\ save.arg = "" /\ place.op = "place" /\ place.arg = ""
      /\ fail.op = "update" /\ fail.arg = "FAILED" /\ failed.op = "mark" /\ failed.arg = "failed"
      /\ pending.op = "mark" /\ pending.arg = "pending" /\ completed.op = "mark" /\ completed.arg = "completed"
  BY Names
<1>1. /\ save \in PlannedOp /\ place \in PlannedOp /\ fail \in PlannedOp
      /\ failed \in PlannedOp /\ pending \in PlannedOp /\ completed \in PlannedOp
  BY AllOps DEF State, Terminal
<1> HIDE DEF save, place, fail, failed, pending, completed
<1>3. /\ q1 # <<>> /\ Head(q1) = save /\ Tail(q1) # <<>> /\ Head(Tail(q1)) = fail
      /\ Tail(Tail(q1)) # <<>> /\ Head(Tail(Tail(q1))) = failed /\ Tail(Tail(Tail(q1))) = s
  <2> DEFINE p == <<fail, failed>> \o s
  <2>1. q1 # <<>> /\ Head(q1) = save /\ Tail(q1) = p
    BY <1>1
  <2>2. p # <<>> /\ Head(p) = fail /\ Tail(p) # <<>> /\ Head(Tail(p)) = failed /\ Tail(Tail(p)) = s
    BY <1>1, AheadTwo, Zenon
  <2> HIDE DEF p, q1
  <2> QED
    BY <2>1, <2>2
<1>4. q2 # <<>> /\ Head(q2) = save /\ Tail(q2) # <<>> /\ Head(Tail(q2)) = pending /\ Tail(Tail(q2)) = s
  BY <1>1, AheadTwo, Zenon
<1>5. /\ q3 # <<>> /\ Head(q3) = place /\ Tail(q3) # <<>> /\ Head(Tail(q3)) = save
      /\ Tail(Tail(q3)) # <<>> /\ Head(Tail(Tail(q3))) = completed /\ Tail(Tail(Tail(q3))) = s
  <2> DEFINE p == <<save, completed>> \o s
  <2>1. q3 # <<>> /\ Head(q3) = place /\ Tail(q3) = p
    BY <1>1
  <2>2. p # <<>> /\ Head(p) = save /\ Tail(p) # <<>> /\ Head(Tail(p)) = completed /\ Tail(Tail(p)) = s
    BY <1>1, AheadTwo, Zenon
  <2> HIDE DEF p, q3
  <2> QED
    BY <2>1, <2>2
<1>6. /\ Starts(q1, "save", "") /\ Starts(Tail(q1), "update", "FAILED")
      /\ Starts(Tail(Tail(q1)), "mark", "failed") /\ Tail(Tail(Tail(q1))) = s
      /\ Starts(q2, "save", "") /\ Starts(Tail(q2), "mark", "pending") /\ Tail(Tail(q2)) = s
      /\ Starts(q3, "place", "") /\ Starts(Tail(q3), "save", "")
      /\ Starts(Tail(Tail(q3)), "mark", "completed") /\ Tail(Tail(Tail(q3))) = s
  <2> HIDE DEF q1, q2, q3
  <2> QED
    BY <1>2, <1>3, <1>4, <1>5 DEF Starts
<1> QED
  BY <1>6, Zenon DEF q1, q2, q3, save, place, fail, failed, pending, completed

\* A placement that is given up, for now or for good, saves a row that owns nothing.
LEMMA NoCapacityLands ==
  ASSUME NEW t \in Thread, run \in [Thread -> RunRec], snap(t) \in Row, NoCapacity(t),
         run[t].msg # 0, Tail(run[t].todo) = <<>>, UNCHANGED <<row, lease, hold, crashes>>,
         NEW d, d = job(t), row[d].state = "PENDING", snap(t).state = "PENDING",
         Agrees(crashes, row[d], lease[d], hold[d])
  PROVE  Lands(t, d)
<1> DEFINE r == [snap(t) EXCEPT !.node = NoNode, !.retry = Larger(@, tries(t))]
           c == View(r, run[t].msg, row[d], crashes)
           no == <<>>
           q1 == <<Call("save"), Op("update", "FAILED"), Op("mark", "failed")>> \o no
           q2 == <<Call("save"), Op("mark", "pending")>> \o no
<1>1. \/ Then(t, r, <<Call("save"), Op("update", "FAILED"), Op("mark", "failed")>>)
      \/ Then(t, r, <<Call("save"), Op("mark", "pending")>>)
  BY DEF NoCapacity
<1>2. r.state = "PENDING" /\ r.node = NoNode
  BY DEF Row
<1>3. c.snap = r /\ c.msg = run[t].msg /\ c.row = row[d] /\ c.crashes = crashes
  BY Knows
<1>4. no \in Seq(PlannedOp)
  BY EmptySeq
<1>5. /\ Starts(q1, "save", "") /\ Starts(Tail(q1), "update", "FAILED") /\ Only(Tail(Tail(q1)), "mark", "failed")
      /\ Starts(q2, "save", "") /\ Only(Tail(q2), "mark", "pending")
  <2> HIDE DEF no
  <2>1. /\ Starts(q1, "save", "") /\ Starts(Tail(q1), "update", "FAILED")
        /\ Starts(Tail(Tail(q1)), "mark", "failed") /\ Tail(Tail(Tail(q1))) = no
        /\ Starts(q2, "save", "") /\ Starts(Tail(q2), "mark", "pending") /\ Tail(Tail(q2)) = no
    BY <1>4, PlacementPlans
  <2> HIDE DEF q1, q2
  <2> QED
    BY <2>1 DEF Only, no
<1> HIDE DEF r, c, q1, q2
<1>6. Agrees(crashes, r, lease[d], hold[d])
  BY <1>2 DEF Agrees, Stops, Terminal, Missing, Placed, Linked
<1>7. Closed(crashes, row[d], lease[d], hold[d])
  BY DEF Closed, Stops, Terminal, Missing
<1>8. row[d].state \notin Terminal
  BY DEF Terminal
<1>9. Remains(c, Tail(q1), r) /\ Remains(c, Tail(q2), r)
  BY <1>2, <1>3, <1>5 DEF Remains
<1>10. Saves(c, q1, lease[d], hold[d]) /\ Saves(c, q2, lease[d], hold[d])
  BY <1>3, <1>5, <1>6, <1>8, <1>9 DEF Saves
<1>11. /\ OnItsWay(c, q1, lease[d], hold[d]) /\ q1 # <<>>
       /\ OnItsWay(c, q2, lease[d], hold[d]) /\ q2 # <<>>
  BY <1>3, <1>5, <1>7, <1>10, NonEmpty DEF OnItsWay, Last, Starts
<1>12. CASE Then(t, r, <<Call("save"), Op("update", "FAILED"), Op("mark", "failed")>>)
  BY <1>11, <1>12, LandsBy DEF q1, c
<1>13. CASE Then(t, r, <<Call("save"), Op("mark", "pending")>>)
  BY <1>11, <1>13, LandsBy DEF q2, c
<1> QED
  BY <1>1, <1>12, <1>13

\* What a placement knows at each of its calls.
LEMMA PlacingKnows ==
  ASSUME Safe, HandlersOnTheirWay, NEW t \in Thread, NEW name \in {"choose", "reserve", "hold"}, Doing(t, name)
  PROVE  LET d == job(t) IN
         /\ d \in Dep /\ run \in [Thread -> RunRec] /\ snap(t) \in Row /\ run[t].msg # 0 /\ Tail(run[t].todo) = <<>>
         /\ row[d].state = "PENDING" /\ snap(t).state = "PENDING" /\ (name # "choose" => snap(t).node # NoNode)
         /\ Agrees(crashes, row[d], lease[d], hold[d])
<1>1. /\ Clean(Local(t), run[t].todo, lease[job(t)], hold[job(t)]) /\ Placing(Local(t), run[t].todo)
      /\ Head(run[t].todo).op = name /\ run \in [Thread -> RunRec] /\ job(t) \in Dep
  BY AtCall, ByHead
<1>2. snap(t) \in Row
  BY <1>1 DEF RunRec, snap
<1> QED
  BY <1>1, <1>2, Knows DEF Clean, Placing, Only, Starts

\* A placement that has chosen a node, or checked it, has still written nothing.
LEMMA PlacingGoesOn ==
  ASSUME NEW t \in Thread, run \in [Thread -> RunRec], run[t].msg # 0, Tail(run[t].todo) = <<>>,
         UNCHANGED <<row, lease, hold, crashes>>, NEW d, d = job(t), row[d].state = "PENDING",
         NEW r, r.state = "PENDING", r.node # NoNode, NEW name \in {"reserve", "hold"}, Then(t, r, <<Call(name)>>),
         Agrees(crashes, row[d], lease[d], hold[d])
  PROVE  Lands(t, d)
<1> DEFINE c == View(r, run[t].msg, row[d], crashes)
           q == <<Call(name)>> \o <<>>
<1>1. Only(q, name, "") /\ q # <<>>
  BY AllOps, OnlyOne DEF Call
<1>2. c.snap = r /\ c.msg = run[t].msg /\ c.row = row[d] /\ c.crashes = crashes
  BY Knows
<1> HIDE DEF c, q
<1>3. Placing(c, q)
  BY <1>1, <1>2 DEF Placing
<1>4. OnItsWay(c, q, lease[d], hold[d])
  BY <1>1, <1>2, <1>3 DEF OnItsWay, Clean
<1> QED
  BY <1>1, <1>4, LandsBy DEF q, c

\* _assign_lease's decision and the check of reserve_gpus.
LEMMA ChooseLands ==
  ASSUME Safe, HandlersOnTheirWay, NEW t \in Thread, CallChooseNode(t) \/ CallReserve(t)
  PROVE  Lands(t, job(t))
<1>1. CASE CallChooseNode(t)
  <2>1. /\ Doing(t, "choose") /\ UNCHANGED <<row, lease, hold, crashes>>
        /\ NoCapacity(t) \/ \E n \in Node : Then(t, [snap(t) EXCEPT !.node = n], <<Call("reserve")>>)
    BY <1>1 DEF CallChooseNode, store
  <2>2. CASE NoCapacity(t)
    BY <2>1, <2>2, PlacingKnows, NoCapacityLands
  <2>3. ASSUME NEW n \in Node, Then(t, [snap(t) EXCEPT !.node = n], <<Call("reserve")>>)
        PROVE  Lands(t, job(t))
    <3> DEFINE r == [snap(t) EXCEPT !.node = n]
    <3>1. snap(t) \in Row /\ snap(t).state = "PENDING"
      BY <2>1, PlacingKnows
    <3>2. r.state = "PENDING" /\ r.node # NoNode
      BY <3>1, ControlPlaneAssumption DEF Row
    <3>3. Then(t, r, <<Call("reserve")>>)
      BY <2>3
    <3> HIDE DEF r
    <3> QED
      BY <2>1, <3>2, <3>3, PlacingKnows, PlacingGoesOn
  <2> QED
    BY <2>1, <2>2, <2>3
<1>2. CASE CallReserve(t)
  <2>1. /\ Doing(t, "reserve") /\ UNCHANGED <<row, lease, hold, crashes>>
        /\ NoCapacity(t) \/ Then(t, snap(t), <<Call("hold")>>)
    BY <1>2 DEF CallReserve, store, GoOnWith
  <2>2. CASE NoCapacity(t)
    BY <2>1, <2>2, PlacingKnows, NoCapacityLands
  <2>3. CASE Then(t, snap(t), <<Call("hold")>>)
    BY <2>1, <2>3, PlacingKnows, PlacingGoesOn
  <2> QED
    BY <2>1, <2>2, <2>3
<1> QED
  BY <1>1, <1>2

\* reserve_gpus writes the reservation; the lease comes next.
LEMMA HoldLands ==
  ASSUME Safe, HandlersOnTheirWay, NEW t \in Thread, CallHold(t)
  PROVE  Lands(t, job(t))
<1> DEFINE d == job(t)
           r == [snap(t) EXCEPT !.state = "SCHEDULED", !.health = 0, !.retry = Larger(@, tries(t) - 1)]
           c == View(r, run[t].msg, row[d], crashes)
           no == <<>>
           q == <<Call("place"), Call("save"), Op("mark", "completed")>> \o no
<1>1. /\ Doing(t, "hold") /\ UNCHANGED <<row, lease, crashes>>
      /\ hold' = [hold EXCEPT ![d] = snap(t).node]
      /\ Then(t, r, <<Call("place"), Call("save"), Op("mark", "completed")>>)
  BY DEF CallHold
<1>2. /\ d \in Dep /\ run \in [Thread -> RunRec] /\ snap(t) \in Row /\ run[t].msg # 0 /\ Tail(run[t].todo) = no
      /\ row[d].state = "PENDING" /\ snap(t).node # NoNode
  BY <1>1, PlacingKnows
<1>3. hold'[d] = snap(t).node
  BY <1>1, <1>2 DEF Safe, TypeOK
<1>4. r.state = "SCHEDULED" /\ r.node = snap(t).node
  BY <1>2 DEF Row
<1>5. c.snap = r /\ c.msg = run[t].msg /\ c.row = row[d] /\ c.crashes = crashes
  BY Knows
<1>6. Starts(q, "place", "") /\ Starts(Tail(q), "save", "") /\ Only(Tail(Tail(q)), "mark", "completed")
  <2>1. no \in Seq(PlannedOp)
    BY EmptySeq
  <2> HIDE DEF no
  <2>2. /\ Starts(q, "place", "") /\ Starts(Tail(q), "save", "")
        /\ Starts(Tail(Tail(q)), "mark", "completed") /\ Tail(Tail(Tail(q))) = no
    BY <2>1, PlacementPlans
  <2> HIDE DEF q
  <2> QED
    BY <2>2 DEF Only, no
<1> HIDE DEF c, q, r
<1>7. OnItsWay(c, q, lease[d], snap(t).node) /\ q # <<>>
  BY <1>2, <1>4, <1>5, <1>6 DEF OnItsWay, Places, Starts
<1> QED
  BY <1>1, <1>2, <1>3, <1>7, LandsBy DEF q, c

\* save_assignment writes the lease that goes with the reservation and the row to be saved.
LEMMA PlaceLands ==
  ASSUME Safe, HandlersOnTheirWay, NEW t \in Thread, CallSaveAssignment(t)
  PROVE  Lands(t, job(t))
<1> DEFINE d == job(t)
           rest == Tail(run[t].todo)
           c == Local(t)
           l == [status |-> "assigned", node |-> snap(t).node]
<1>1. /\ Doing(t, "place") /\ UNCHANGED <<row, hold, crashes>>
      /\ lease' = [lease EXCEPT ![d] = l] /\ Then(t, snap(t), <<>>)
  BY DEF CallSaveAssignment, GoOn
<1>2. /\ d \in Dep /\ run \in [Thread -> RunRec] /\ rest \in Seq(PlannedOp)
      /\ Places(c, run[t].todo, hold[d])
  BY <1>1, AtCall, ByHead
<1>3. lease'[d] = l
  BY <1>1, <1>2 DEF Safe, TypeOK
<1>4. l.node = snap(t).node /\ l.status = "assigned"
  OBVIOUS
<1>5. c.snap = snap(t) /\ c.msg = run[t].msg /\ c.row = row[d] /\ c.crashes = crashes
  BY Knows
<1>6. <<>> \o rest = rest
  BY <1>2, Ahead
<1>7. c = View(snap(t), run[t].msg, row'[d], crashes)
  BY <1>1 DEF Local
<1> HIDE DEF c, l
<1>8. /\ Starts(rest, "save", "") /\ Only(Tail(rest), "mark", "completed") /\ run[t].msg # 0
      /\ row[d].state = "PENDING" /\ snap(t).state = "SCHEDULED" /\ snap(t).node # NoNode /\ hold[d] = snap(t).node
  BY <1>2, <1>5 DEF Places
<1>9. Agrees(crashes, snap(t), l, hold[d])
  BY <1>4, <1>8 DEF Agrees, Stops, Terminal, Missing, Linked, Live, LiveLease, Placed
<1>10. Remains(c, Tail(rest), c.snap)
  BY <1>5, <1>8 DEF Remains
<1>11. Saves(c, rest, l, hold[d])
  BY <1>5, <1>8, <1>9, <1>10 DEF Saves, Terminal
<1>12. Closed(crashes, row[d], l, hold[d])
  BY <1>8 DEF Closed, Stops, Terminal, Missing
<1>13. OnItsWay(c, rest, l, hold[d]) /\ rest # <<>>
  BY <1>5, <1>8, <1>11, <1>12, NonEmpty DEF OnItsWay, Last, Starts
<1> QED
  BY <1>1, <1>2, <1>3, <1>6, <1>7, <1>13, LandsBy

\* The plans of the sweeps, the operator's calls and a resume, each followed by s.
LEMMA SweepPlans ==
  ASSUME NEW s \in Seq(PlannedOp)
  PROVE  /\ LET q == <<Call("release"), Op("lease", "reassigned"), Call("save"), Call("publish")>> \o s
            IN  /\ Starts(q, "release", "") /\ Starts(Tail(q), "lease", "reassigned")
                /\ Starts(Tail(Tail(q)), "save", "") /\ Starts(Tail(Tail(Tail(q))), "publish", "")
                /\ Tail(Tail(Tail(Tail(q)))) = s
         /\ LET q == <<Call("save"), Call("publish")>> \o s
            IN  Starts(q, "save", "") /\ Starts(Tail(q), "publish", "") /\ Tail(Tail(q)) = s
         /\ LET q == <<Call("release"), Op("lease", "terminated"), Op("update", "FAILED")>> \o s
            IN  /\ Starts(q, "release", "") /\ Starts(Tail(q), "lease", "terminated")
                /\ Starts(Tail(Tail(q)), "update", "FAILED") /\ Tail(Tail(Tail(q))) = s
         /\ LET q == <<Call("release"), Op("lease", "terminated"), Call("save")>> \o s
            IN  /\ Starts(q, "release", "") /\ Starts(Tail(q), "lease", "terminated")
                /\ Starts(Tail(Tail(q)), "save", "") /\ Tail(Tail(Tail(q))) = s
         /\ LET q == <<Op("lease", "terminated"), Call("save")>> \o s
            IN  Starts(q, "lease", "terminated") /\ Starts(Tail(q), "save", "") /\ Tail(Tail(q)) = s
         /\ LET q == <<Op("lease", "active"), Call("save")>> \o s
            IN  Starts(q, "lease", "active") /\ Starts(Tail(q), "save", "") /\ Tail(Tail(q)) = s
<1> DEFINE save == Call("save")
           release == Call("release")
           publish == Call("publish")
           moved == Op("lease", "reassigned")
           ended == Op("lease", "terminated")
           active == Op("lease", "active")
           fail == Op("update", "FAILED")
           q1 == <<release, moved, save, publish>> \o s
           q2 == <<save, publish>> \o s
           q3 == <<release, ended, fail>> \o s
           q4 == <<release, ended, save>> \o s
           q5 == <<ended, save>> \o s
           q6 == <<active, save>> \o s
           z1 == <<moved, save, publish>> \o s
           z3 == <<ended, fail>> \o s
<1>1. /\ save.op = "save" /\ save.arg = "" /\ release.op = "release" /\ release.arg = ""
      /\ publish.op = "publish" /\ publish.arg = "" /\ moved.op = "lease" /\ moved.arg = "reassigned"
      /\ ended.op = "lease" /\ ended.arg = "terminated" /\ active.op = "lease" /\ active.arg = "active"
      /\ fail.op = "update" /\ fail.arg = "FAILED"
  BY Names
<1>2. /\ save \in PlannedOp /\ release \in PlannedOp /\ publish \in PlannedOp
      /\ moved \in PlannedOp /\ ended \in PlannedOp /\ active \in PlannedOp /\ fail \in PlannedOp
  BY AllOps DEF State, Terminal, LeaseStatus, LiveLease
<1> HIDE DEF save, release, publish, moved, ended, active, fail
<1>3. /\ q1 # <<>> /\ Head(q1) = release /\ Tail(q1) = z1
      /\ z1 # <<>> /\ Head(z1) = moved /\ Tail(z1) = q2
      /\ q3 # <<>> /\ Head(q3) = release /\ Tail(q3) = z3
      /\ q4 # <<>> /\ Head(q4) = release /\ Tail(q4) = q5
  <2>1. q1 # <<>> /\ Head(q1) = release /\ Tail(q1) = z1
    BY <1>2
  <2>2. z1 # <<>> /\ Head(z1) = moved /\ Tail(z1) = q2
    BY <1>2
  <2>3. q3 # <<>> /\ Head(q3) = release /\ Tail(q3) = z3
    BY <1>2
  <2>4. q4 # <<>> /\ Head(q4) = release /\ Tail(q4) = q5
    BY <1>2
  <2> QED
    BY <2>1, <2>2, <2>3, <2>4
<1>4. q2 # <<>> /\ Head(q2) = save /\ Tail(q2) # <<>> /\ Head(Tail(q2)) = publish /\ Tail(Tail(q2)) = s
  BY <1>2, AheadTwo, Zenon
<1>5. z3 # <<>> /\ Head(z3) = ended /\ Tail(z3) # <<>> /\ Head(Tail(z3)) = fail /\ Tail(Tail(z3)) = s
  BY <1>2, AheadTwo, Zenon
<1>6. q5 # <<>> /\ Head(q5) = ended /\ Tail(q5) # <<>> /\ Head(Tail(q5)) = save /\ Tail(Tail(q5)) = s
  BY <1>2, AheadTwo, Zenon
<1>7. q6 # <<>> /\ Head(q6) = active /\ Tail(q6) # <<>> /\ Head(Tail(q6)) = save /\ Tail(Tail(q6)) = s
  BY <1>2, AheadTwo, Zenon
<1>8. /\ Starts(q1, "release", "") /\ Starts(Tail(q1), "lease", "reassigned")
      /\ Starts(Tail(Tail(q1)), "save", "") /\ Starts(Tail(Tail(Tail(q1))), "publish", "")
      /\ Tail(Tail(Tail(Tail(q1)))) = s
      /\ Starts(q2, "save", "") /\ Starts(Tail(q2), "publish", "") /\ Tail(Tail(q2)) = s
      /\ Starts(q3, "release", "") /\ Starts(Tail(q3), "lease", "terminated")
      /\ Starts(Tail(Tail(q3)), "update", "FAILED") /\ Tail(Tail(Tail(q3))) = s
      /\ Starts(q4, "release", "") /\ Starts(Tail(q4), "lease", "terminated")
      /\ Starts(Tail(Tail(q4)), "save", "") /\ Tail(Tail(Tail(q4))) = s
      /\ Starts(q5, "lease", "terminated") /\ Starts(Tail(q5), "save", "") /\ Tail(Tail(q5)) = s
      /\ Starts(q6, "lease", "active") /\ Starts(Tail(q6), "save", "") /\ Tail(Tail(q6)) = s
  <2> HIDE DEF q1, q2, q3, q4, q5, q6, z1, z3
  <2> QED
    BY <1>1, <1>3, <1>4, <1>5, <1>6, <1>7 DEF Starts
<1> QED
  BY <1>8, Zenon DEF q1, q2, q3, q4, q5, q6, save, release, publish, moved, ended, active, fail

\* What a report or a sweep knows when it reads the row.
LEMMA ReadingKnows ==
  ASSUME Safe, HandlersOnTheirWay, NEW t \in Thread, NEW name \in {"timeout", "fail", "unhealthy", "requeue"},
         Doing(t, name)
  PROVE  LET d == job(t) IN
         /\ d \in Dep /\ run \in [Thread -> RunRec] /\ snap(t) \in Row /\ row[d] \in Row
         /\ lease[d] \in [status : LeaseStatus, node : Node \cup {NoNode}]
         /\ run[t].msg = 0 /\ Tail(run[t].todo) = <<>> /\ Agrees(crashes, row[d], lease[d], hold[d])
<1>1. /\ Clean(Local(t), run[t].todo, lease[job(t)], hold[job(t)]) /\ WillRead(Local(t), run[t].todo, lease[job(t)])
      /\ run \in [Thread -> RunRec] /\ job(t) \in Dep
  <2>1. /\ OnItsWay(Local(t), run[t].todo, lease[job(t)], hold[job(t)]) /\ Head(run[t].todo).op = name
        /\ run \in [Thread -> RunRec] /\ job(t) \in Dep
    BY AtCall
  <2>2. \/ Head(run[t].todo).op = "timeout" \/ Head(run[t].todo).op = "fail"
        \/ Head(run[t].todo).op = "unhealthy" \/ Head(run[t].todo).op = "requeue"
    BY <2>1
  <2> QED
    BY <2>1, <2>2, ByHead
<1>2. snap(t) \in Row /\ row[job(t)] \in Row /\ lease[job(t)] \in [status : LeaseStatus, node : Node \cup {NoNode}]
  BY <1>1 DEF RunRec, snap, Safe, TypeOK
<1>3. run[t].msg = 0 /\ Tail(run[t].todo) = <<>>
  BY <1>1, Knows DEF WillRead, Only
<1>4. Agrees(crashes, row[job(t)], lease[job(t)], hold[job(t)])
  BY <1>1, Knows DEF Clean
<1> QED
  BY <1>1, <1>2, <1>3, <1>4

\* A handler that finds nothing to do leaves what agreed.
LEMMA DoneLands ==
  ASSUME NEW t \in Thread, run \in [Thread -> RunRec], Tail(run[t].todo) = <<>>, UNCHANGED <<row, lease, hold, crashes>>,
         NEW r, Then(t, r, <<>>), NEW d, d = job(t), Agrees(crashes, row[d], lease[d], hold[d])
  PROVE  Lands(t, d)
<1>1. <<>> \o Tail(run[t].todo) = <<>>
  OBVIOUS
<1> QED
  BY <1>1, LandsBy

\* A handler that goes on with one call that reads the row for itself.
LEMMA ReadsNextLands ==
  ASSUME NEW t \in Thread, run \in [Thread -> RunRec], run[t].msg = 0, Tail(run[t].todo) = <<>>,
         UNCHANGED <<row, lease, hold, crashes>>, NEW d, d = job(t), NEW r,
         Agrees(crashes, row[d], lease[d], hold[d]),
         \/ Then(t, r, <<Op("update", "FAILED")>>) \/ Then(t, r, <<Op("update", "TERMINATED")>>)
         \/ Then(t, r, <<Op("requeue", "sweep")>>)
  PROVE  Lands(t, d)
<1> DEFINE c == View(r, run[t].msg, row[d], crashes)
           q1 == <<Op("update", "FAILED")>> \o <<>>
           q2 == <<Op("update", "TERMINATED")>> \o <<>>
           q3 == <<Op("requeue", "sweep")>> \o <<>>
<1>1. /\ Only(q1, "update", "FAILED") /\ Only(q2, "update", "TERMINATED") /\ Only(q3, "requeue", "sweep")
      /\ q1 # <<>> /\ q2 # <<>> /\ q3 # <<>>
  BY AllOps, OnlyOne DEF State, Terminal
<1>2. c.msg = run[t].msg /\ c.row = row[d] /\ c.crashes = crashes
  BY Knows
<1> HIDE DEF c, q1, q2, q3
<1>3. WillRead(c, q1, lease[d]) /\ WillRead(c, q2, lease[d]) /\ WillRead(c, q3, lease[d])
  <2>1. "FAILED" \in Reported \ Running /\ "TERMINATED" \in Reported \ Running
    BY DEF Reported, Terminal, Running
  <2> QED
    BY <1>1, <1>2, <2>1 DEF WillRead
<1>4. OnItsWay(c, q1, lease[d], hold[d]) /\ OnItsWay(c, q2, lease[d], hold[d]) /\ OnItsWay(c, q3, lease[d], hold[d])
  BY <1>2, <1>3 DEF OnItsWay, Clean
<1>5. CASE Then(t, r, <<Op("update", "FAILED")>>)
  BY <1>1, <1>4, <1>5, LandsBy DEF q1, c
<1>6. CASE Then(t, r, <<Op("update", "TERMINATED")>>)
  BY <1>1, <1>4, <1>6, LandsBy DEF q2, c
<1>7. CASE Then(t, r, <<Op("requeue", "sweep")>>)
  BY <1>1, <1>4, <1>7, LandsBy DEF q3, c
<1> QED
  BY <1>5, <1>6, <1>7

\* process_timeouts and process_unhealthy_miners decide on the row as it is.
LEMMA SweepLands ==
  ASSUME Safe, HandlersOnTheirWay, NEW t \in Thread, CallTimeout(t) \/ CallUnhealthy(t)
  PROVE  Lands(t, job(t))
<1>1. CASE CallTimeout(t)
  <2>1. /\ Doing(t, "timeout") /\ UNCHANGED <<row, lease, hold, crashes>>
        /\ Then(t, snap(t), <<>>) \/ Then(t, snap(t), <<Op("update", "FAILED")>>)
    BY <1>1 DEF CallTimeout, store, GoOnWith
  <2> QED
    BY <2>1, ReadingKnows, DoneLands, ReadsNextLands
<1>2. CASE CallUnhealthy(t)
  <2>1. /\ Doing(t, "unhealthy") /\ UNCHANGED <<row, lease, hold, crashes>>
        /\ \/ Then(t, snap(t), <<>>) \/ Then(t, snap(t), <<Op("update", "TERMINATED")>>)
           \/ Then(t, snap(t), <<Op("requeue", "sweep")>>)
    BY <1>2 DEF CallUnhealthy, store, GoOnWith
  <2> QED
    BY <2>1, ReadingKnows, DoneLands, ReadsNextLands
<1> QED
  BY <1>1, <1>2

\* Two calls and a third are three calls.
LEMMA Joined ==
  ASSUME NEW x \in PlannedOp, NEW y \in PlannedOp, NEW z \in PlannedOp
  PROVE  <<x, y>> \o <<z>> = <<x, y, z>>
<1> DEFINE p == <<x, y>> \o <<z>>
           q == <<x, y, z>>
<1>1. p \in Seq(PlannedOp) /\ q \in Seq(PlannedOp) /\ Len(p) = 3 /\ Len(q) = 3
  OBVIOUS
<1>2. p[1] = x /\ p[2] = y /\ p[3] = z /\ q[1] = x /\ q[2] = y /\ q[3] = z
  OBVIOUS
<1> HIDE DEF p, q
<1>3. \A i \in 1..Len(p) : p[i] = q[i]
  BY <1>1, <1>2
<1>4. p = q
  BY <1>1, <1>3, SeqEqual
<1> QED
  BY <1>4 DEF p, q

\* Closing a lease keeps the node it names.
LEMMA ClosedLease ==
  ASSUME NEW l \in [status : LeaseStatus, node : Node \cup {NoNode}], NEW a \in LeaseStatus \ {"none"}
  PROVE  LET l2 == WithStatus(l, a) IN
         /\ l2.node = l.node /\ (l2.status = "none" <=> l.status = "none")
         /\ a \notin LiveLease => ~Live(l2)
         /\ l.status # "none" => l2.status = a
<1>1. l.status = "none" => WithStatus(l, a) = l
  BY DEF WithStatus
<1>2. l.status # "none" => WithStatus(l, a).status = a /\ WithStatus(l, a).node = l.node
  BY DEF WithStatus
<1> QED
  BY <1>1, <1>2 DEF Live, LiveLease

\* _requeue_assignment, and the operator's own write behind it.
LEMMA RequeueLands ==
  ASSUME Safe, HandlersOnTheirWay, NEW t \in Thread, CallRequeue(t)
  PROVE  Lands(t, job(t))
<1> DEFINE d == job(t)
           l == lease[d]
           h == hold[d]
           moves == /\ row[d].state \notin Terminal \cup Missing
                    /\ Arg(t) = "sweep" \/ l.status \in LiveLease
           no == <<>>
<1>1. /\ Doing(t, "requeue") /\ UNCHANGED <<row, lease, hold, crashes>>
      /\ \/ /\ moves
            /\ \E n : Then(t, Unplaced(n), <<Call("release"), Op("lease", "reassigned"), Call("save"), Call("publish")>>)
         \/ ~moves /\ Arg(t) = "operator"
            /\ Then(t, [Unplaced(0) EXCEPT !.health = snap(t).health], <<Call("save"), Call("publish")>>)
         \/ Then(t, snap(t), <<>>)
  BY DEF CallRequeue, store, GoOn
<1>2. /\ d \in Dep /\ run \in [Thread -> RunRec] /\ l \in [status : LeaseStatus, node : Node \cup {NoNode}]
      /\ run[t].msg = 0 /\ Tail(run[t].todo) = no /\ Agrees(crashes, row[d], l, h)
  BY <1>1, ReadingKnows
<1>3. no \in Seq(PlannedOp)
  BY EmptySeq
<1>4. Closed(crashes, row[d], l, h)
  BY <1>2 DEF Closed, Agrees
<1>5. ASSUME moves, NEW n,
             Then(t, Unplaced(n), <<Call("release"), Op("lease", "reassigned"), Call("save"), Call("publish")>>)
      PROVE  Lands(t, d)
  <2> DEFINE q == <<Call("release"), Op("lease", "reassigned"), Call("save"), Call("publish")>> \o no
             c == View(Unplaced(n), run[t].msg, row[d], crashes)
             r == Unplaced(n)
             l2 == WithStatus(l, "reassigned")
  <2>1. c.snap = r /\ c.msg = 0 /\ c.row = row[d] /\ c.crashes = crashes
    BY <1>2, Knows
  <2>2. r.state = "PENDING" /\ r.node = NoNode
    BY DEF Unplaced
  <2>3. ~Live(l2)
    BY <1>2, ClosedLease DEF LeaseStatus, LiveLease
  <2>4. /\ Starts(q, "release", "") /\ Starts(Tail(q), "lease", "reassigned")
        /\ Starts(Tail(Tail(q)), "save", "") /\ Only(Tail(Tail(Tail(q))), "publish", "")
    <3> HIDE DEF no
    <3>1. /\ Starts(q, "release", "") /\ Starts(Tail(q), "lease", "reassigned")
          /\ Starts(Tail(Tail(q)), "save", "") /\ Starts(Tail(Tail(Tail(q))), "publish", "")
          /\ Tail(Tail(Tail(Tail(q)))) = no
      BY <1>3, SweepPlans
    <3> HIDE DEF q
    <3> QED
      BY <3>1 DEF Only, no
  <2> HIDE DEF q, c, r, l2
  <2>5. Agrees(crashes, r, l2, NoNode)
    BY <2>2, <2>3 DEF Agrees, Stops, Terminal, Missing, Placed, Linked
  <2>6. Saves(c, Tail(Tail(q)), l2, NoNode)
    BY <2>1, <2>2, <2>4, <2>5 DEF Saves
  <2>7. OneBefore(c, Tail(q), l, NoNode)
    BY <2>4, <2>6 DEF OneBefore, Last, LeaseStatus, LiveLease, l2
  <2>8. TwoBefore(c, q, l, h)
    BY <2>4, <2>7 DEF TwoBefore
  <2>9. OnItsWay(c, q, l, h) /\ q # <<>>
    BY <1>4, <2>1, <2>4, <2>8 DEF OnItsWay, Starts
  <2> QED
    BY <1>1, <1>2, <1>5, <2>9, LandsBy DEF q, c
<1>6. CASE /\ ~moves /\ Arg(t) = "operator"
           /\ Then(t, [Unplaced(0) EXCEPT !.health = snap(t).health], <<Call("save"), Call("publish")>>)
  <2> DEFINE q == <<Call("save"), Call("publish")>> \o no
             r == [Unplaced(0) EXCEPT !.health = snap(t).health]
             c == View(r, run[t].msg, row[d], crashes)
  <2>1. c.snap = r /\ c.msg = 0 /\ c.row = row[d] /\ c.crashes = crashes
    BY <1>2, Knows
  <2>2. r.state = "PENDING" /\ r.node = NoNode
    BY DEF Unplaced
  <2>3. ~Live(l)
    BY <1>2, <1>6 DEF Agrees, Stops, Live
  <2>4. Starts(q, "save", "") /\ Only(Tail(q), "publish", "")
    <3> HIDE DEF no
    <3>1. Starts(q, "save", "") /\ Starts(Tail(q), "publish", "") /\ Tail(Tail(q)) = no
      BY <1>3, SweepPlans
    <3> HIDE DEF q
    <3> QED
      BY <3>1 DEF Only, no
  <2> HIDE DEF q, c, r
  <2>5. Agrees(crashes, r, l, h)
    BY <1>2, <2>2, <2>3 DEF Agrees, Stops, Terminal, Missing, Placed, Linked
  <2>6. Saves(c, q, l, h)
    BY <2>1, <2>2, <2>4, <2>5 DEF Saves
  <2>7. OnItsWay(c, q, l, h) /\ q # <<>>
    BY <1>4, <2>1, <2>4, <2>6, NonEmpty DEF OnItsWay, Last, Starts
  <2> QED
    BY <1>1, <1>2, <1>6, <2>7, LandsBy DEF q, c, r
<1>7. CASE Then(t, snap(t), <<>>)
  BY <1>1, <1>2, <1>7, DoneLands
<1> QED
  BY <1>1, <1>5, <1>6, <1>7

\* fail_deployment gives back what there is before it fails the row.
LEMMA FailLands ==
  ASSUME Safe, HandlersOnTheirWay, NEW t \in Thread, CallFail(t)
  PROVE  Lands(t, job(t))
<1> DEFINE d == job(t)
           l == lease[d]
           h == hold[d]
           no == <<>>
           ops == <<Call("release"), Op("lease", "terminated"), Op("update", "FAILED")>>
<1>1. /\ Doing(t, "fail") /\ UNCHANGED <<row, lease, hold, crashes>>
      /\ Then(t, snap(t), (IF l.status \in LiveLease
                           THEN <<Call("release"), Op("lease", "terminated")>> ELSE <<>>)
                          \o <<Op("update", "FAILED")>>)
  BY DEF CallFail, store, GoOnWith
<1>2. /\ d \in Dep /\ run \in [Thread -> RunRec] /\ l \in [status : LeaseStatus, node : Node \cup {NoNode}]
      /\ run[t].msg = 0 /\ Tail(run[t].todo) = no /\ Agrees(crashes, row[d], l, h)
  BY <1>1, ReadingKnows
<1>3. no \in Seq(PlannedOp)
  BY EmptySeq
<1>4. CASE l.status \notin LiveLease
  <2>1. <<>> \o <<Op("update", "FAILED")>> = <<Op("update", "FAILED")>>
    OBVIOUS
  <2>2. Then(t, snap(t), <<Op("update", "FAILED")>>)
    BY <1>1, <1>4, <2>1
  <2> QED
    BY <1>1, <1>2, <2>2, ReadsNextLands
<1>5. CASE l.status \in LiveLease
  <2> DEFINE q == ops \o no
             c == Local(t)
             l2 == WithStatus(l, "terminated")
  <2>1. Then(t, snap(t), ops)
    <3>1. <<Call("release"), Op("lease", "terminated")>> \o <<Op("update", "FAILED")>> = ops
      <4>1. Call("release") \in PlannedOp /\ Op("lease", "terminated") \in PlannedOp /\ Op("update", "FAILED") \in PlannedOp
        BY AllOps DEF State, Terminal, LeaseStatus
      <4> QED
        BY <4>1, Joined, Zenon
    <3> QED
      BY <1>1, <1>5, <3>1
  <2>2. c.snap = snap(t) /\ c.msg = 0 /\ c.row = row[d] /\ c.crashes = crashes
    BY <1>2, Knows
  <2>3. c = View(snap(t), run[t].msg, row'[d], crashes)
    BY <1>1 DEF Local
  <2>4. ~Live(l2) /\ l2.node = l.node /\ (l2.status = "none" <=> l.status = "none")
    BY <1>2, ClosedLease DEF LeaseStatus, LiveLease
  <2>5. /\ Starts(q, "release", "") /\ Starts(Tail(q), "lease", "terminated")
        /\ Only(Tail(Tail(q)), "update", "FAILED")
    <3> HIDE DEF no
    <3>1. /\ Starts(q, "release", "") /\ Starts(Tail(q), "lease", "terminated")
          /\ Starts(Tail(Tail(q)), "update", "FAILED") /\ Tail(Tail(Tail(q))) = no
      BY <1>3, SweepPlans
    <3> HIDE DEF q
    <3> QED
      BY <3>1 DEF Only, no
  <2> HIDE DEF q, c, l2, ops
  <2>6. /\ Closed(crashes, row[d], l, h)
        /\ Sound(crashes) => Linked(row[d], l2) /\ row[d].state \in Placed \cup {"SUSPENDED"}
    BY <1>2, <1>5, <2>4 DEF Closed, Agrees, Live, Linked
  <2>7. Fails(c, Tail(Tail(q)), l2, NoNode)
    BY <2>2, <2>4, <2>5, <2>6 DEF Fails
  <2>8. OneBefore(c, Tail(q), l, NoNode)
    BY <2>5, <2>7 DEF OneBefore, Last, LeaseStatus, LiveLease, l2
  <2>9. TwoBefore(c, q, l, h)
    BY <2>5, <2>8 DEF TwoBefore
  <2>10. OnItsWay(c, q, l, h) /\ q # <<>>
    BY <2>2, <2>5, <2>6, <2>9 DEF OnItsWay, Starts
  <2> QED
    BY <1>1, <1>2, <2>1, <2>3, <2>10, LandsBy DEF q
<1> QED
  BY <1>4, <1>5

\* What a clean-up or a resume knows: its snapshot is the row.
LEMMA HasReadKnows ==
  ASSUME Safe, HandlersOnTheirWay, NEW t \in Thread, NEW name \in {"cleanup", "headroom", "reacquire"},
         Doing(t, name)
  PROVE  LET d == job(t) IN
         /\ d \in Dep /\ run \in [Thread -> RunRec] /\ snap(t) \in Row /\ row[d] \in Row
         /\ lease[d] \in [status : LeaseStatus, node : Node \cup {NoNode}] /\ Tail(run[t].todo) \in Seq(PlannedOp)
         /\ run[t].msg = 0 /\ Agrees(crashes, row[d], lease[d], hold[d])
         /\ snap(t).state = row[d].state /\ snap(t).node = row[d].node
         /\ name = "cleanup" => Tail(run[t].todo) = <<>> \/ Only(Tail(run[t].todo), "delete", "")
         /\ name # "cleanup" => Tail(run[t].todo) = <<>> /\ row[d].state = "SUSPENDED" /\ row[d].node # NoNode
<1>1. /\ OnItsWay(Local(t), run[t].todo, lease[job(t)], hold[job(t)]) /\ Head(run[t].todo).op = name
      /\ run \in [Thread -> RunRec] /\ job(t) \in Dep /\ Tail(run[t].todo) \in Seq(PlannedOp)
  BY AtCall
<1>2. \/ Head(run[t].todo).op = "cleanup" \/ Head(run[t].todo).op = "headroom" \/ Head(run[t].todo).op = "reacquire"
  BY <1>1
<1>3. Clean(Local(t), run[t].todo, lease[job(t)], hold[job(t)]) /\ HasRead(Local(t), run[t].todo)
  BY <1>1, <1>2, ByHead
<1>4. snap(t) \in Row /\ row[job(t)] \in Row /\ lease[job(t)] \in [status : LeaseStatus, node : Node \cup {NoNode}]
  BY <1>1 DEF RunRec, snap, Safe, TypeOK
<1>5. Agrees(crashes, row[job(t)], lease[job(t)], hold[job(t)])
  BY <1>3, Knows DEF Clean
<1>6. /\ run[t].msg = 0 /\ snap(t).state = row[job(t)].state /\ snap(t).node = row[job(t)].node
      /\ name = "cleanup" => Tail(run[t].todo) = <<>> \/ Only(Tail(run[t].todo), "delete", "")
      /\ name # "cleanup" => Tail(run[t].todo) = <<>> /\ row[job(t)].state = "SUSPENDED" /\ row[job(t)].node # NoNode
  BY <1>1, <1>3, Knows DEF HasRead, Only, Starts
<1> QED
  BY <1>1, <1>4, <1>5, <1>6

\* cleanup_deployment.
LEMMA CleanupLands ==
  ASSUME Safe, HandlersOnTheirWay, NEW t \in Thread, CallCleanup(t)
  PROVE  Lands(t, job(t))
<1> DEFINE d == job(t)
           l == lease[d]
           h == hold[d]
           rest == Tail(run[t].todo)
           r == [snap(t) EXCEPT !.state = "TERMINATED"]
           c == View(r, run[t].msg, row[d], crashes)
           l2 == WithStatus(l, "terminated")
           q1 == <<Call("release"), Op("lease", "terminated"), Call("save")>> \o rest
           q2 == <<Op("lease", "terminated"), Call("save")>> \o rest
           q3 == <<Call("save")>> \o rest
<1>1. /\ Doing(t, "cleanup") /\ UNCHANGED <<row, lease, hold, crashes>>
      /\ \/ l.status \in LiveLease /\ Then(t, r, <<Call("release"), Op("lease", "terminated"), Call("save")>>)
         \/ l.status \notin LiveLease /\ Then(t, r, <<Op("lease", "terminated"), Call("save")>>)
         \/ l.status \notin LiveLease /\ Then(t, r, <<Call("save")>>)
  BY DEF CallCleanup, store
<1>2. /\ d \in Dep /\ run \in [Thread -> RunRec] /\ snap(t) \in Row /\ rest \in Seq(PlannedOp)
      /\ l \in [status : LeaseStatus, node : Node \cup {NoNode}]
      /\ run[t].msg = 0 /\ Agrees(crashes, row[d], l, h)
      /\ snap(t).state = row[d].state /\ snap(t).node = row[d].node
      /\ rest = <<>> \/ Only(rest, "delete", "")
  BY <1>1, HasReadKnows
<1>3. r.state = "TERMINATED" /\ r.node = row[d].node
  BY <1>2 DEF Row
<1>4. c.snap = r /\ c.msg = 0 /\ c.row = row[d] /\ c.crashes = crashes
  <2>1. c.snap = r /\ c.msg = run[t].msg /\ c.row = row[d] /\ c.crashes = crashes
    BY Knows
  <2> QED
    BY <1>2, <2>1
<1>5. ~Live(l2) /\ l2.node = l.node /\ (l2.status = "none" <=> l.status = "none")
  BY <1>2, ClosedLease DEF LeaseStatus, LiveLease
<1>6. /\ Starts(q1, "release", "") /\ Starts(Tail(q1), "lease", "terminated")
      /\ Starts(Tail(Tail(q1)), "save", "") /\ Tail(Tail(Tail(q1))) = rest
      /\ Starts(q2, "lease", "terminated") /\ Starts(Tail(q2), "save", "") /\ Tail(Tail(q2)) = rest
  BY <1>2, SweepPlans
<1>7. Starts(q3, "save", "") /\ Tail(q3) = rest
  BY <1>2, AllOps, AheadOp DEF Call
<1> HIDE DEF r, c, l2, q1, q2, q3, rest
<1>8. Closed(crashes, row[d], l, h)
  BY <1>2 DEF Closed, Agrees
<1>9. Agrees(crashes, r, l2, NoNode)
  <2>1. Sound(crashes) => Linked(r, l2)
    BY <1>2, <1>3, <1>5 DEF Agrees, Linked
  <2> QED
    BY <1>3, <1>5, <2>1 DEF Agrees, Placed
<1>10. ~Live(l) => Agrees(crashes, r, l, h) /\ (Sound(crashes) => h = NoNode)
  <2>1. Sound(crashes) => Linked(r, l)
    BY <1>2, <1>3 DEF Agrees, Linked
  <2> QED
    BY <1>2, <1>3, <2>1 DEF Agrees, Placed
<1>11. ~Live(l) => Agrees(crashes, r, l2, h)
  BY <1>3, <1>5, <1>9, <1>10 DEF Agrees
<1>12. \A x \in {Tail(Tail(Tail(q1))), Tail(Tail(q2)), Tail(q3)} : Remains(c, x, r)
  BY <1>2, <1>4, <1>6, <1>7 DEF Remains
<1>13. /\ Saves(c, Tail(Tail(q1)), l2, NoNode)
       /\ ~Live(l) => Saves(c, Tail(q2), l2, h) /\ Saves(c, q3, l, h)
  BY <1>3, <1>4, <1>6, <1>7, <1>9, <1>10, <1>11, <1>12 DEF Saves, Terminal
<1>14. OneBefore(c, Tail(q1), l, NoNode)
  BY <1>6, <1>13 DEF OneBefore, Last, LeaseStatus, LiveLease, l2
<1>15. TwoBefore(c, q1, l, h)
  BY <1>6, <1>14 DEF TwoBefore
<1>16. ~Live(l) => OneBefore(c, q2, l, h)
  BY <1>6, <1>13 DEF OneBefore, Last, LeaseStatus, LiveLease, l2
<1>17. /\ OnItsWay(c, q1, l, h) /\ q1 # <<>>
       /\ ~Live(l) => OnItsWay(c, q2, l, h) /\ OnItsWay(c, q3, l, h)
       /\ q2 # <<>> /\ q3 # <<>>
  BY <1>4, <1>6, <1>7, <1>8, <1>13, <1>15, <1>16, NonEmpty DEF OnItsWay, Last, Starts
<1>18. CASE l.status \in LiveLease /\ Then(t, r, <<Call("release"), Op("lease", "terminated"), Call("save")>>)
  BY <1>1, <1>2, <1>17, <1>18, LandsBy DEF q1, c, rest
<1>19. CASE l.status \notin LiveLease /\ Then(t, r, <<Op("lease", "terminated"), Call("save")>>)
  BY <1>1, <1>2, <1>17, <1>19, LandsBy DEF q2, c, rest, Live
<1>20. CASE l.status \notin LiveLease /\ Then(t, r, <<Call("save")>>)
  BY <1>1, <1>2, <1>17, <1>20, LandsBy DEF q3, c, rest, Live
<1> QED
  BY <1>1, <1>18, <1>19, <1>20 DEF r

\* resume_deployment's reading of the ledger, and its reservation.
LEMMA ResumeLands ==
  ASSUME Safe, HandlersOnTheirWay, NEW t \in Thread, CallHeadroom(t) \/ CallReacquire(t)
  PROVE  Lands(t, job(t))
<1> DEFINE d == job(t)
           l == lease[d]
           h == hold[d]
           no == <<>>
<1>1. CASE CallHeadroom(t)
  <2> DEFINE c == Local(t)
             q == <<Call("reacquire")>> \o no
  <2>1. /\ Doing(t, "headroom") /\ UNCHANGED <<row, lease, hold, crashes>>
        /\ Then(t, snap(t), <<Call("reacquire")>>) \/ Then(t, snap(t), <<>>)
    BY <1>1 DEF CallHeadroom, store, GoOnWith, GoOn
  <2>2. /\ run \in [Thread -> RunRec] /\ Tail(run[t].todo) = no /\ run[t].msg = 0
        /\ Agrees(crashes, row[d], l, h) /\ snap(t).state = row[d].state /\ snap(t).node = row[d].node
        /\ row[d].state = "SUSPENDED" /\ row[d].node # NoNode
    BY <2>1, HasReadKnows
  <2>3. CASE Then(t, snap(t), <<>>)
    BY <2>1, <2>2, <2>3, DoneLands
  <2>4. CASE Then(t, snap(t), <<Call("reacquire")>>)
    <3>1. Only(q, "reacquire", "") /\ q # <<>>
      BY AllOps, OnlyOne DEF Call
    <3>2. c.snap = snap(t) /\ c.msg = 0 /\ c.row = row[d] /\ c.crashes = crashes
      BY <2>2, Knows
    <3>3. c = View(snap(t), run[t].msg, row'[d], crashes)
      BY <2>1 DEF Local
    <3> HIDE DEF c, q
    <3>4. HasRead(c, q)
      BY <2>2, <3>1, <3>2 DEF HasRead
    <3>5. OnItsWay(c, q, l, h)
      BY <2>2, <3>2, <3>4 DEF OnItsWay, Clean
    <3> QED
      BY <2>1, <2>2, <2>4, <3>1, <3>3, <3>5, LandsBy DEF q
  <2> QED
    BY <2>1, <2>3, <2>4
<1>2. CASE CallReacquire(t)
  <2> DEFINE c == Local(t)
             q == <<Op("lease", "active"), Call("save")>> \o no
             n == row[d].node
             l2 == WithStatus(l, "active")
  <2>1. /\ Doing(t, "reacquire") /\ UNCHANGED <<row, lease, crashes>>
        /\ hold' = [hold EXCEPT ![d] = snap(t).node]
        /\ Then(t, snap(t), <<Op("lease", "active"), Call("save")>>)
    BY <1>2 DEF CallReacquire, GoOnWith
  <2>2. /\ run \in [Thread -> RunRec] /\ Tail(run[t].todo) = no /\ run[t].msg = 0 /\ d \in Dep
        /\ l \in [status : LeaseStatus, node : Node \cup {NoNode}]
        /\ Agrees(crashes, row[d], l, h) /\ snap(t).state = row[d].state /\ snap(t).node = n
        /\ row[d].state = "SUSPENDED" /\ n # NoNode
    BY <2>1, HasReadKnows
  <2>3. hold'[d] = n
    BY <2>1, <2>2 DEF Safe, TypeOK
  <2>4. c.snap = snap(t) /\ c.msg = 0 /\ c.row = row[d] /\ c.crashes = crashes
    BY <2>2, Knows
  <2>5. c = View(snap(t), run[t].msg, row'[d], crashes)
    BY <2>1 DEF Local
  <2>6. Starts(q, "lease", "active") /\ Starts(Tail(q), "save", "") /\ Tail(Tail(q)) = no
    <3>1. no \in Seq(PlannedOp)
      BY EmptySeq
    <3> HIDE DEF no
    <3> QED
      BY <3>1, SweepPlans
  <2>7. l2.node = l.node /\ (l.status # "none" => l2.status = "active") /\ (l2.status = "none" <=> l.status = "none")
    BY <2>2, ClosedLease DEF LeaseStatus, LiveLease
  <2> HIDE DEF c, q, l2
  <2>8. ~Stops(row[d]) /\ ~Stops(snap(t))
    BY <2>2 DEF Stops, Terminal, Missing
  <2>9. Agrees(crashes, snap(t), l2, n)
    <3>1. Sound(crashes) => Linked(snap(t), l2) /\ l2.status = "active"
      BY <2>2, <2>7 DEF Agrees, Linked
    <3>2. l2.status = "active" => Live(l2)
      BY DEF Live, LiveLease
    <3> QED
      BY <2>2, <2>8, <3>1, <3>2 DEF Agrees
  <2>10. Remains(c, Tail(Tail(q)), snap(t))
    BY <2>4, <2>6 DEF Remains
  <2>11. Saves(c, Tail(q), l2, n)
    BY <2>2, <2>4, <2>6, <2>9, <2>10 DEF Saves, Terminal
  <2>12. OneBefore(c, q, l, n)
    BY <2>4, <2>6, <2>8, <2>11 DEF OneBefore, Last, LeaseStatus, LiveLease, l2
  <2>13. OnItsWay(c, q, l, n) /\ q # <<>>
    BY <2>4, <2>6, <2>8, <2>12, NonEmpty DEF OnItsWay, Closed, Starts
  <2> QED
    BY <2>1, <2>2, <2>3, <2>5, <2>13, LandsBy DEF q
<1> QED
  BY <1>1, <1>2

\* Every call ends in agreement, or goes on towards one.
LEMMA CallLands ==
  ASSUME Safe, HandlersOnTheirWay, NEW t \in Thread, Calls(t)
  PROVE  Lands(t, job(t))
<1>1. CASE CallUpdateStatus(t) \/ CallUpdateAssignment(t) \/ CallRelease(t) \/ CallSave(t)
  BY <1>1, UpdateLands, LeaseLands, ReleaseLands, SaveLands
<1>2. CASE CallPublish(t) \/ CallMark(t) \/ CallDelete(t) \/ CallRequest(t)
  BY <1>2, EndsLand, RequestLands
<1>3. CASE CallChooseNode(t) \/ CallReserve(t) \/ CallHold(t) \/ CallSaveAssignment(t)
  BY <1>3, ChooseLands, HoldLands, PlaceLands
<1>4. CASE CallTimeout(t) \/ CallUnhealthy(t) \/ CallRequeue(t) \/ CallFail(t)
  BY <1>4, SweepLands, RequeueLands, FailLands
<1>5. CASE CallCleanup(t) \/ CallHeadroom(t) \/ CallReacquire(t)
  BY <1>5, CleanupLands, ResumeLands
<1> QED
  BY <1>1, <1>2, <1>3, <1>4, <1>5 DEF Calls

\* A call is about the deployment of its handler.
LEMMA CallTouches ==
  ASSUME Safe, NEW t \in Thread, Calls(t)
  PROVE  Touches(t, job(t)) /\ crashes' = crashes /\ job(t) \in Dep /\ ~Idle(t)
<1> DEFINE d == job(t)
<1>1. /\ crashes' = crashes
      /\ row' = row \/ \E x : row' = [row EXCEPT ![d] = x]
      /\ lease' = lease \/ \E x : lease' = [lease EXCEPT ![d] = x]
      /\ hold' = hold \/ \E x : hold' = [hold EXCEPT ![d] = x]
  <2>1. CASE CallUpdateStatus(t) \/ CallRequest(t) \/ CallChooseNode(t) \/ CallReserve(t) \/ CallTimeout(t)
             \/ CallUnhealthy(t) \/ CallRequeue(t) \/ CallFail(t) \/ CallCleanup(t) \/ CallHeadroom(t)
    BY <2>1 DEF CallUpdateStatus, CallRequest, CallChooseNode, CallReserve, CallTimeout, CallUnhealthy,
                CallRequeue, CallFail, CallCleanup, CallHeadroom, store
  <2>2. CASE CallPublish(t) \/ CallMark(t)
    BY <2>2 DEF CallPublish, CallMark
  <2>3. CASE CallUpdateAssignment(t)
    <3>1. /\ UNCHANGED <<row, hold, crashes>>
          /\ lease' = lease \/ lease' = [lease EXCEPT ![d].status = Arg(t)]
      BY <2>3 DEF CallUpdateAssignment
    <3>2. lease' = [lease EXCEPT ![d].status = Arg(t)] => \E x : lease' = [lease EXCEPT ![d] = x]
      OBVIOUS
    <3> QED
      BY <3>1, <3>2
  <2>4. CASE CallRelease(t)
    BY <2>4 DEF CallRelease
  <2>5. CASE CallSave(t)
    BY <2>5 DEF CallSave
  <2>6. CASE CallHold(t)
    BY <2>6 DEF CallHold
  <2>7. CASE CallSaveAssignment(t)
    BY <2>7 DEF CallSaveAssignment
  <2>8. CASE CallReacquire(t)
    BY <2>8 DEF CallReacquire
  <2>9. CASE CallDelete(t)
    BY <2>9 DEF CallDelete
  <2> QED
    BY <2>1, <2>2, <2>3, <2>4, <2>5, <2>6, <2>7, <2>8, <2>9 DEF Calls
<1>2. \A e \in Dep : e # d => row'[e] = row[e] /\ lease'[e] = lease[e] /\ hold'[e] = hold[e]
  <2>1. \A e \in Dep : e # d => row'[e] = row[e]
    BY <1>1 DEF Safe, TypeOK
  <2>2. \A e \in Dep : e # d => lease'[e] = lease[e]
    BY <1>1 DEF Safe, TypeOK
  <2>3. \A e \in Dep : e # d => hold'[e] = hold[e]
    BY <1>1 DEF Safe, TypeOK
  <2> QED
    BY <2>1, <2>2, <2>3
<1>3. \A u \in Thread : u # t => run'[u] = run[u]
  BY CallStep DEF Moves, Safe
<1>4. ~Idle(t)
  BY DEF Calls, CallUpdateStatus, CallRequest, CallChooseNode, CallReserve, CallTimeout, CallUnhealthy,
         CallRequeue, CallFail, CallCleanup, CallHeadroom, CallPublish, CallMark, CallUpdateAssignment,
         CallRelease, CallSave, CallHold, CallSaveAssignment, CallReacquire, CallDelete, Doing
<1>5. d \in Dep
  BY <1>4 DEF Safe, WellPlanned, PlanOK, Idle, job
<1> QED
  BY <1>1, <1>2, <1>3, <1>4, <1>5 DEF Touches

\* A delivery stays about its deployment until the thread that works on it marks it.
LEMMA BoxKept ==
  ASSUME Safe, NEW t \in Thread, Calls(t), NEW m \in Slot, box[m].dep \in Dep
  PROVE  box'[m].dep = box[m].dep \/ (CallMark(t) /\ m = run[t].msg /\ Arg(t) # "pending")
<1>1. CASE CallPublish(t)
  <2>1. PICK k \in Slot : box[k] = NoMessage
               /\ box' = [box EXCEPT ![k] = [dep |-> job(t), status |-> "pending", tries |-> 0]]
    BY <1>1 DEF CallPublish
  <2>2. k # m
    BY <2>1, ControlPlaneAssumption DEF NoMessage
  <2> QED
    BY <2>1, <2>2 DEF Safe, TypeOK
<1>2. CASE CallMark(t)
  BY <1>2 DEF CallMark, Safe, TypeOK
<1>3. CASE ~CallPublish(t) /\ ~CallMark(t)
  <2>1. box' = box
    BY <1>3 DEF Calls, CallUpdateStatus, CallUpdateAssignment, CallRelease, CallSave, CallRequest,
         CallChooseNode, CallReserve, CallHold, CallSaveAssignment, CallTimeout, CallUnhealthy,
         CallRequeue, CallFail, CallCleanup, CallHeadroom, CallReacquire, CallDelete, store
  <2> QED
    BY <2>1
<1> QED
  BY <1>1, <1>2, <1>3

\* The deployment of a thread at work.
LEMMA AtWork ==
  ASSUME Safe, NEW u \in Thread
  PROVE  /\ ~Idle(u) => job(u) \in Dep
         /\ run[u].msg # 0 => ~Idle(u) /\ run[u].msg \in Slot
  BY DEF Safe, TypeOK, RunRec, WellPlanned, PlanOK, Idle, job

\* Threads keep serving the deliveries of their own deployments.
LEMMA CallServes ==
  ASSUME Safe, Safe', ServesItsDep, NEW t \in Thread, Calls(t), Lands(t, job(t))
  PROVE  ServesItsDep'
<1>1. Touches(t, job(t)) /\ KeepsMessage(t)
  BY CallTouches, CallStep DEF Safe
<1>2. ASSUME NEW u \in Thread, run'[u].msg # 0
      PROVE  box'[run'[u].msg].dep = job(u)'
  <2>1. ~Idle(u)' /\ run'[u].msg \in Slot
    BY <1>2 DEF Safe, TypeOK, RunRec, WellPlanned, PlanOK, Idle
  <2>2. run'[u].msg = run[u].msg /\ job(u)' = job(u)
    <3>1. CASE u = t
      BY <1>1, <1>2, <2>1, <3>1 DEF Lands, KeepsMessage
    <3>2. CASE u # t
      BY <1>1, <3>2 DEF Touches, job
    <3> QED
      BY <3>1, <3>2
  <2>3. box[run[u].msg].dep = job(u) /\ job(u) \in Dep
    BY <1>2, <2>2, AtWork DEF ServesItsDep
  <2>4. ~(CallMark(t) /\ run[u].msg = run[t].msg)
    <3>1. ASSUME CallMark(t), run[u].msg = run[t].msg PROVE FALSE
      <4>1. u = t
        BY <1>2, <2>2, <3>1 DEF Safe, OwnsDelivery
      <4>2. run'[t] = Resting
        BY <3>1 DEF CallMark, Safe, TypeOK
      <4> QED
        BY <2>1, <4>1, <4>2, RestingOK DEF Idle
    <3> QED
      BY <3>1
  <2> QED
    BY <2>1, <2>2, <2>3, <2>4, BoxKept
<1> QED
  BY <1>2 DEF ServesItsDep

\* What is owed stays owed when neither its delivery nor its publisher is touched.
LEMMA OwedKept ==
  ASSUME NEW e, Owed(e), \A m \in Slot : box[m].dep = e => box'[m].dep = e,
         \A u \in Thread : job(u) = e /\ Only(run[u].todo, "publish", "") => run'[u] = run[u]
  PROVE  Owed(e)'
  BY DEF Owed, job

\* Calls keep every PENDING row owed.
LEMMA CallOwes ==
  ASSUME Safe, HandlersOnTheirWay, PendingIsOwed, ServesItsDep, NEW t \in Thread, Calls(t)
  PROVE  PendingIsOwed'
<1> DEFINE d == job(t)
<1>1. Touches(t, d) /\ crashes' = crashes /\ d \in Dep /\ ~Idle(t)
  BY CallTouches
<1>2. \A u \in Thread : u # t => run'[u] = run[u]
  BY <1>1 DEF Touches
<1> SUFFICES ASSUME NEW e \in Dep, Sound(crashes), row'[e].state = "PENDING"
             PROVE  Owed(e)'
  BY <1>1 DEF PendingIsOwed, Sound
<1>3. CASE e # d
  <2>1. row[e].state = "PENDING" /\ Owed(e)
    BY <1>1, <1>3 DEF Touches, PendingIsOwed
  <2>2. ASSUME NEW m \in Slot, box[m].dep = e PROVE box'[m].dep = e
    <3>1. ~(m = run[t].msg)
      <4>1. 0 \notin Slot
        BY ControlPlaneAssumption DEF Slot
      <4> QED
        BY <1>3, <2>2, <4>1 DEF ServesItsDep
    <3> QED
      BY <2>2, <3>1, BoxKept
  <2> QED
    BY <1>2, <1>3, <2>1, <2>2, OwedKept
<1>4. CASE e = d
  <2>1. CASE CallSave(t)
    <3> DEFINE rest == Tail(run[t].todo)
    <3>1. /\ Doing(t, "save") /\ Then(t, snap(t), <<>>) /\ UNCHANGED <<box>>
          /\ row' = [row EXCEPT ![d] = snap(t)]
      BY <2>1 DEF CallSave, GoOn
    <3>2. /\ run \in [Thread -> RunRec] /\ rest \in Seq(PlannedOp) /\ Head(run[t].todo).op = "save"
          /\ Saves(Local(t), run[t].todo, lease[d], hold[d])
      BY <3>1, AtCall, ByHead
    <3>3. snap(t).state = "PENDING"
      BY <1>1, <1>4, <3>1 DEF Safe, TypeOK
    <3>4. Only(rest, "publish", "") \/ row[d].state = "PENDING"
      BY <3>2, <3>3, Knows DEF Saves
    <3>5. CASE Only(rest, "publish", "")
      <4>1. <<>> \o rest = rest /\ rest # <<>>
        BY <3>2, <3>5, Ahead DEF Only, Starts
      <4>2. run'[t].todo = rest /\ job(t)' = d
        <5>1. run'[t].todo = rest /\ run'[t].dep = job(t)
          <6>1. Then(t, snap(t), <<>>) /\ run \in [Thread -> RunRec]
            BY <3>1, <3>2
          <6>2. rest = <<>> \o Tail(run[t].todo) /\ rest # <<>>
            BY <4>1
          <6>3. run' = [run EXCEPT ![t] = [run[t] EXCEPT !.row = snap(t), !.todo = rest]]
            BY <6>1, <6>2 DEF Then
          <6>4. run'[t] = [run[t] EXCEPT !.row = snap(t), !.todo = rest]
            BY <6>1, <6>3
          <6> QED
            BY <6>1, <6>4 DEF RunRec, job
        <5> QED
          BY <5>1 DEF job
      <4> QED
        BY <1>4, <3>5, <4>2 DEF Owed
    <3>6. CASE row[d].state = "PENDING"
      <4>1. Owed(d)
        BY <1>1, <3>6 DEF PendingIsOwed
      <4>2. ~Only(run[t].todo, "publish", "")
        BY <3>2 DEF Only, Starts
      <4> QED
        BY <1>2, <1>4, <3>1, <4>1, <4>2, OwedKept
    <3> QED
      BY <3>4, <3>5, <3>6
  <2>2. CASE CallDelete(t)
    <3>1. row' = [row EXCEPT ![d] = [NoRow EXCEPT !.state = "deleted"]]
      BY <2>2 DEF CallDelete
    <3>2. row'[d].state = "deleted"
      BY <1>1, <3>1 DEF Safe, TypeOK, NoRow
    <3> QED
      BY <1>4, <3>2
  <2>3. CASE ~CallSave(t) /\ ~CallDelete(t)
    <3>1. row' = row
      BY <2>3 DEF Calls, CallUpdateStatus, CallUpdateAssignment, CallRelease, CallPublish, CallMark, CallRequest,
         CallChooseNode, CallReserve, CallHold, CallSaveAssignment, CallTimeout, CallUnhealthy,
         CallRequeue, CallFail, CallCleanup, CallHeadroom, CallReacquire, store
    <3>2. row[d].state = "PENDING" /\ Owed(d)
      BY <1>1, <1>4, <3>1 DEF PendingIsOwed
    <3>3. CASE CallPublish(t)
      <4>1. PICK m \in Slot : box' = [box EXCEPT ![m] = [dep |-> d, status |-> "pending", tries |-> 0]]
        BY <3>3 DEF CallPublish
      <4>2. box'[m].dep = d
        BY <4>1 DEF Safe, TypeOK
      <4> QED
        BY <1>4, <4>2 DEF Owed
    <3>4. CASE ~CallPublish(t)
      <4>1. ~Only(run[t].todo, "publish", "")
        <5>1. ~Doing(t, "publish")
          BY <3>4 DEF Calls, CallUpdateStatus, CallUpdateAssignment, CallRelease, CallSave, CallMark, CallRequest,
             CallChooseNode, CallReserve, CallHold, CallSaveAssignment, CallTimeout, CallUnhealthy,
             CallRequeue, CallFail, CallCleanup, CallHeadroom, CallReacquire, CallDelete, Doing
        <5> QED
          BY <1>1, <5>1 DEF Doing, Only, Starts
      <4>2. ~(CallMark(t) /\ Arg(t) # "pending")
        <5>1. ASSUME CallMark(t), Arg(t) # "pending" PROVE FALSE
          <6>1. Doing(t, "mark")
            BY <5>1 DEF CallMark
          <6>2. Clean(Local(t), run[t].todo, lease[d], hold[d]) /\ Remains(Local(t), run[t].todo, Local(t).row)
                /\ Head(run[t].todo).op = "mark"
            BY <6>1, AtCall, ByHead
          <6>3. \/ Only(run[t].todo, "mark", "pending")
                \/ row[d].state # "PENDING" /\ (Only(run[t].todo, "mark", "completed") \/ Only(run[t].todo, "mark", "failed"))
            <7>1. Remains(Local(t), run[t].todo, row[d]) /\ run[t].todo # <<>>
              BY <6>2, Knows, <1>1 DEF Idle
            <7> HIDE DEF d
            <7> QED
              BY <6>2, <7>1 DEF Remains, Only, Starts
          <6> QED
            BY <3>2, <5>1, <6>3 DEF Only, Starts, Arg
        <5> QED
          BY <5>1
      <4>3. \A m \in Slot : box[m].dep = d => box'[m].dep = d
        BY <1>1, <4>2, BoxKept
      <4> QED
        BY <1>2, <1>4, <3>2, <4>1, <4>3, OwedKept
    <3> QED
      BY <3>3, <3>4
  <2> QED
    BY <2>1, <2>2, <2>3
<1> QED
  BY <1>3, <1>4

\* Where nothing is sound any more, what a handler needs is less, and the reservation does not matter.
LEMMA Weakens ==
  ASSUME NEW c, NEW c2, c2.snap = c.snap, c2.msg = c.msg, c2.row = c.row, ~Sound(c2.crashes),
         NEW q, NEW l, NEW h, NEW h2, h2 = h \/ Stops(c.row), OnItsWay(c, q, l, h)
  PROVE  OnItsWay(c2, q, l, h2)
<1>1. ASSUME NEW r, NEW k, NEW g, NEW g2, Agrees(c.crashes, r, k, g) PROVE Agrees(c2.crashes, r, k, g2)
  BY <1>1 DEF Agrees
<1>2. ASSUME NEW p, NEW r, Remains(c, p, r) PROVE Remains(c2, p, r)
  BY <1>2 DEF Remains
<1>3. ASSUME NEW p, NEW k, NEW g, NEW g2, Last(c, p, k, g) PROVE Last(c2, p, k, g2)
  <2>1. CASE Saves(c, p, k, g)
    <3>1. Starts(p, "save", "") /\ Agrees(c2.crashes, c2.snap, k, g2)
      BY <1>1, <2>1 DEF Saves
    <3>2. CASE c.msg = 0 /\ c.snap.state = "PENDING" /\ Only(Tail(p), "publish", "")
      BY <3>1, <3>2 DEF Saves, Last
    <3>3. CASE /\ Remains(c, Tail(p), c.snap)
               /\ c.row.state \in Terminal => c.snap.state \in Terminal
               /\ c.snap.state = "PENDING" => c.row.state = "PENDING"
      <4>1. Remains(c2, Tail(p), c2.snap)
        BY <1>2, <3>3
      <4> QED
        BY <3>1, <3>3, <4>1 DEF Saves, Last
    <3> QED
      BY <2>1, <3>2, <3>3 DEF Saves
  <2>2. CASE Fails(c, p, k, g)
    BY <2>2 DEF Fails, Last
  <2> QED
    BY <1>3, <2>1, <2>2 DEF Last
<1>4. ASSUME NEW p, NEW k, NEW g, NEW g2, OneBefore(c, p, k, g) PROVE OneBefore(c2, p, k, g2)
  <2>1. CASE Last(c, p, k, g)
    BY <1>3, <2>1 DEF OneBefore
  <2>2. CASE Starts(p, "release", "") /\ Last(c, Tail(p), k, NoNode)
    <3>1. Last(c2, Tail(p), k, NoNode)
      BY <1>3, <2>2
    <3> QED
      BY <2>2, <3>1 DEF OneBefore
  <2>3. ASSUME NEW s \in LeaseStatus, Starts(p, "lease", s), s \in LiveLease => ~Stops(c.row),
               Last(c, Tail(p), WithStatus(k, s), g)
        PROVE  OneBefore(c2, p, k, g2)
    <3>1. Last(c2, Tail(p), WithStatus(k, s), g2)
      BY <1>3, <2>3
    <3> QED
      BY <2>3, <3>1 DEF OneBefore
  <2> QED
    BY <1>4, <2>1, <2>2, <2>3 DEF OneBefore
<1>5. ASSUME NEW p, NEW k, NEW g, NEW g2, TwoBefore(c, p, k, g) PROVE TwoBefore(c2, p, k, g2)
  <2>1. CASE OneBefore(c, p, k, g)
    BY <1>4, <2>1 DEF TwoBefore
  <2>2. CASE Starts(p, "release", "") /\ OneBefore(c, Tail(p), k, NoNode)
    <3>1. OneBefore(c2, Tail(p), k, NoNode)
      BY <1>4, <2>2
    <3> QED
      BY <2>2, <3>1 DEF TwoBefore
  <2>3. ASSUME NEW s \in LeaseStatus, Starts(p, "lease", s), s \in LiveLease => ~Stops(c.row),
               OneBefore(c, Tail(p), WithStatus(k, s), g)
        PROVE  TwoBefore(c2, p, k, g2)
    <3>1. OneBefore(c2, Tail(p), WithStatus(k, s), g2)
      BY <1>4, <2>3
    <3> QED
      BY <2>3, <3>1 DEF TwoBefore
  <2> QED
    BY <1>5, <2>1, <2>2, <2>3 DEF TwoBefore
<1>6. CASE TwoBefore(c, q, l, h) /\ Closed(c.crashes, c.row, l, h)
  <2>1. TwoBefore(c2, q, l, h2)
    BY <1>5, <1>6
  <2>2. Closed(c2.crashes, c2.row, l, h2)
    BY <1>6 DEF Closed
  <2> QED
    BY <2>1, <2>2 DEF OnItsWay
<1>7. CASE Clean(c, q, l, h)
  <2>1. Agrees(c2.crashes, c2.row, l, h2)
    BY <1>1, <1>7 DEF Clean
  <2>2. Remains(c, q, c.row) => Remains(c2, q, c2.row)
    BY <1>2
  <2>3. Placing(c, q) => Placing(c2, q)
    BY DEF Placing
  <2>4. WillRead(c, q, l) => WillRead(c2, q, l)
    BY DEF WillRead
  <2>5. HasRead(c, q) => HasRead(c2, q)
    BY DEF HasRead
  <2>6. Clean(c2, q, l, h2)
    BY <1>7, <2>1, <2>2, <2>3, <2>4, <2>5 DEF Clean
  <2> QED
    BY <2>6 DEF OnItsWay
<1>8. CASE Places(c, q, h)
  <2>1. h2 = h
    BY <1>8 DEF Places, Stops, Terminal, Missing
  <2>2. Places(c2, q, h2)
    BY <1>8, <2>1 DEF Places
  <2> QED
    BY <2>2 DEF OnItsWay
<1> QED
  BY <1>6, <1>7, <1>8 DEF OnItsWay

\* Whatever a handler has before it, a row that has stopped is closed.
LEMMA AlwaysClosed ==
  ASSUME NEW c, NEW q, NEW l, NEW h, OnItsWay(c, q, l, h)
  PROVE  Closed(c.crashes, c.row, l, h)
<1>1. CASE Clean(c, q, l, h)
  BY <1>1 DEF Clean, Agrees, Closed
<1>2. CASE Places(c, q, h)
  BY <1>2 DEF Places, Closed, Stops, Terminal, Missing
<1> QED
  BY <1>1, <1>2 DEF OnItsWay

\* A thread that dies leaves nothing sound, and its deployment without a live lease if it has stopped.
LEMMA CrashAgrees ==
  ASSUME Safe, Agreement, NEW t \in Thread, Crash(t)
  PROVE  Agreement'
<1>1. /\ ~Idle(t) /\ crashes' = crashes + 1 /\ run' = [run EXCEPT ![t] = Resting]
      /\ UNCHANGED <<row, lease, hold, box>>
  BY DEF Crash, store
<1>2. ~Sound(crashes')
  <2>1. crashes \in Nat
    BY DEF Safe, TypeOK
  <2> QED
    BY <1>1, <2>1 DEF Sound
<1>3. \A u \in Thread : (u # t => run'[u] = run[u]) /\ (u = t => run'[u] = Resting)
  BY <1>1 DEF Safe, TypeOK
<1>4. ASSUME NEW u \in Thread, ~Idle(u)'
      PROVE  OnItsWay(Local(u)', run'[u].todo, lease'[job(u)'], hold'[job(u)'])
  <2>1. u # t
    BY <1>3, <1>4, RestingOK DEF Idle
  <2>2. run'[u] = run[u] /\ ~Idle(u) /\ job(u)' = job(u)
    BY <1>3, <1>4, <2>1 DEF Idle, job
  <2>3. OnItsWay(Local(u), run[u].todo, lease[job(u)], hold[job(u)])
    BY <2>2 DEF Agreement, HandlersOnTheirWay
  <2>4. Local(u)' = View(snap(u), run[u].msg, row[job(u)], crashes')
    BY <1>1, <2>2 DEF Local, snap
  <2>5. /\ Local(u)'.snap = Local(u).snap /\ Local(u)'.msg = Local(u).msg /\ Local(u)'.row = Local(u).row
        /\ Local(u)'.crashes = crashes'
    BY <2>4, Knows
  <2>6. OnItsWay(Local(u)', run[u].todo, lease[job(u)], hold[job(u)])
    BY <1>2, <2>3, <2>5, Weakens
  <2> QED
    BY <1>1, <2>2, <2>6
<1>5. ASSUME NEW d \in Dep, Quiet(d)'
      PROVE  Agrees(crashes', row'[d], lease'[d], hold'[d])
  <2>1. Stops(row[d]) => ~Live(lease[d])
    <3>1. CASE Quiet(d)
      BY <3>1 DEF Agreement, SettledAgrees, Agrees
    <3>2. CASE ~Quiet(d)
      <4>1. PICK u \in Thread : ~Idle(u) /\ job(u) = d
        BY <3>2 DEF Quiet
      <4>2. OnItsWay(Local(u), run[u].todo, lease[d], hold[d])
        BY <4>1 DEF Agreement, HandlersOnTheirWay
      <4>3. Closed(Local(u).crashes, Local(u).row, lease[d], hold[d])
        BY <4>2, AlwaysClosed
      <4> QED
        BY <4>1, <4>3, Knows DEF Closed
    <3> QED
      BY <3>1, <3>2
  <2> QED
    BY <1>1, <1>2, <2>1 DEF Agrees
<1>6. ServesItsDep'
  <2>1. \A u \in Thread : run'[u].msg # 0 => run'[u] = run[u]
    BY <1>3, RestingOK
  <2> QED
    BY <1>1, <2>1 DEF Agreement, ServesItsDep, job
<1> QED
  BY <1>2, <1>4, <1>5, <1>6 DEF Agreement, HandlersOnTheirWay, SettledAgrees, PendingIsOwed

\* A handler begins on a deployment that is settled.
LEMMA Entering ==
  ASSUME Safe, Agreement, OneAtATime', NEW t \in Thread, NEW d \in Dep, NEW m, NEW r, NEW ops, ops # <<>>,
         Enter(t, d, m, r, ops)
  PROVE  /\ Idle(t) /\ ~Idle(t)' /\ UNCHANGED <<lease, hold, crashes>>
         /\ job(t)' = d /\ run'[t].msg = m /\ run'[t].todo = ops /\ Local(t)' = View(r, m, row'[d], crashes)
         /\ \A u \in Thread : u # t => run'[u] = run[u] /\ (~Idle(u) => job(u) \in Dep \ {d})
         /\ Agrees(crashes, row[d], lease[d], hold[d])
<1> DEFINE e == [dep |-> d, msg |-> m, row |-> r, todo |-> ops]
<1>1. Idle(t) /\ run' = [run EXCEPT ![t] = e] /\ UNCHANGED <<lease, hold, crashes>>
  BY DEF Enter
<1>2. run'[t] = e /\ \A u \in Thread : u # t => run'[u] = run[u]
  BY <1>1 DEF Safe, TypeOK
<1>3. ~Idle(t)' /\ job(t)' = d /\ run'[t].msg = m /\ run'[t].todo = ops /\ snap(t)' = r
  BY <1>2 DEF Idle, job, snap
<1>4. Local(t)' = View(r, m, row'[d], crashes)
  BY <1>1, <1>3 DEF Local
<1>5. ASSUME NEW u \in Thread, u # t, ~Idle(u) PROVE job(u) \in Dep \ {d}
  <2>1. ~Idle(u)' /\ job(u)' = job(u)
    BY <1>2, <1>5 DEF Idle, job
  <2>2. job(u) # d
    BY <1>3, <1>5, <2>1 DEF OneAtATime
  <2> QED
    BY <1>5, <2>2, AtWork
<1>6. Quiet(d)
  BY <1>1, <1>5 DEF Quiet
<1>7. Agrees(crashes, row[d], lease[d], hold[d])
  BY <1>6 DEF Agreement, SettledAgrees
<1> QED
  BY <1>1, <1>2, <1>3, <1>4, <1>5, <1>7

\* A handler that begins on its way keeps the agreement.
LEMMA EnterAgrees ==
  ASSUME Safe, Agreement, OneAtATime', NEW t \in Thread, NEW d \in Dep, NEW m \in Slot \cup {0}, NEW r, NEW ops,
         ops # <<>>, Enter(t, d, m, r, ops),
         OnItsWay(View(r, m, row'[d], crashes), ops, lease[d], hold[d]),
         \A e \in Dep : e # d => row'[e] = row[e],
         \A k \in Slot : box'[k].dep = box[k].dep, m # 0 => box[m].dep = d,
         row' = row \/ Only(ops, "publish", "")
  PROVE  Agreement'
<1>1. /\ Idle(t) /\ ~Idle(t)' /\ UNCHANGED <<lease, hold, crashes>>
      /\ job(t)' = d /\ run'[t].msg = m /\ run'[t].todo = ops /\ Local(t)' = View(r, m, row'[d], crashes)
      /\ \A u \in Thread : u # t => run'[u] = run[u] /\ (~Idle(u) => job(u) \in Dep \ {d})
  BY Entering
<1>2. Touches(t, d)
  BY <1>1 DEF Touches
<1>3. Lands(t, d)
  BY <1>1 DEF Lands
<1>4. HandlersOnTheirWay' /\ SettledAgrees'
  BY <1>1, <1>2, <1>3, Settles DEF Agreement
<1>5. ServesItsDep'
  <2>1. \A u \in Thread : run'[u].msg # 0 => box'[run'[u].msg].dep = job(u)'
    <3> TAKE u \in Thread
    <3>1. CASE u = t
      BY <1>1, <3>1
    <3>2. CASE u # t
      <4>1. run'[u] = run[u] /\ job(u)' = job(u)
        BY <1>1, <3>2 DEF job
      <4>2. run[u].msg # 0 => run[u].msg \in Slot /\ box[run[u].msg].dep = job(u)
        BY AtWork DEF Agreement, ServesItsDep
      <4> QED
        BY <4>1, <4>2
    <3> QED
      BY <3>1, <3>2
  <2> QED
    BY <2>1 DEF ServesItsDep
<1>6. ASSUME NEW e \in Dep, Sound(crashes), row'[e].state = "PENDING" PROVE Owed(e)'
  <2>1. CASE row[e].state = "PENDING"
    <3>1. Owed(e)
      BY <1>6, <2>1 DEF Agreement, PendingIsOwed
    <3>2. \A u \in Thread : job(u) = e /\ Only(run[u].todo, "publish", "") => run'[u] = run[u]
      BY <1>1 DEF Only, Starts, Idle
    <3> QED
      BY <3>1, <3>2, OwedKept
  <2>2. CASE row[e].state # "PENDING"
    <3>1. e = d /\ Only(ops, "publish", "")
      BY <1>6, <2>2
    <3> QED
      BY <1>1, <3>1 DEF Owed
  <2> QED
    BY <2>1, <2>2
<1> QED
  BY <1>1, <1>4, <1>5, <1>6 DEF Agreement, PendingIsOwed, Sound

\* One call, or two, as a plan.
LEMMA Whole ==
  ASSUME NEW n, NEW a
  PROVE  /\ Only(<<Op(n, a)>>, n, a) /\ <<Op(n, a)>> # <<>>
         /\ \A m, b : LET q == <<Op(n, a), Op(m, b)>> IN Starts(q, n, a) /\ Only(Tail(q), m, b) /\ q # <<>>
<1>0. \A z : z # <<>> /\ Head(z) = Op(n, a) => Starts(z, n, a)
  BY Names DEF Starts
<1>1. ASSUME NEW x PROVE <<x>> # <<>> /\ Head(<<x>>) = x /\ Tail(<<x>>) = <<>>
  OBVIOUS
<1>2. ASSUME NEW x, NEW y PROVE <<x, y>> # <<>> /\ Head(<<x, y>>) = x /\ Tail(<<x, y>>) = <<y>>
  OBVIOUS
<1>3. Only(<<Op(n, a)>>, n, a) /\ <<Op(n, a)>> # <<>>
  <2>1. <<Op(n, a)>> # <<>> /\ Head(<<Op(n, a)>>) = Op(n, a) /\ Tail(<<Op(n, a)>>) = <<>>
    BY <1>1, Zenon
  <2> QED
    BY <2>1, Names, Zenon DEF Only, Starts
<1>4. ASSUME NEW m, NEW b
      PROVE  LET q == <<Op(n, a), Op(m, b)>> IN Starts(q, n, a) /\ Only(Tail(q), m, b) /\ q # <<>>
  <2> DEFINE q == <<Op(n, a), Op(m, b)>>
  <2>1. q # <<>> /\ Head(q) = Op(n, a) /\ Tail(q) = <<Op(m, b)>>
    BY <1>2, Zenon
  <2>2. <<Op(m, b)>> # <<>> /\ Head(<<Op(m, b)>>) = Op(m, b) /\ Tail(<<Op(m, b)>>) = <<>>
    BY <1>1, Zenon
  <2> HIDE DEF q
  <2>3. Starts(q, n, a) /\ Only(Tail(q), m, b) /\ q # <<>>
    <3>1. Starts(q, n, a) /\ q # <<>>
      BY <1>0, <2>1, Zenon
    <3>2. Only(<<Op(m, b)>>, m, b)
      BY <2>2, Names, Zenon DEF Only, Starts
    <3> QED
      BY <2>1, <3>1, <3>2, Zenon
  <2> QED
    BY <2>3 DEF q
<1> QED
  BY <1>3, <1>4

\* A handler that reads its row and begins with the calls ops.
LEMMA ReaderAgrees ==
  ASSUME Safe, Agreement, OneAtATime', NEW t \in Thread, NEW d \in Dep, NEW r, NEW ops, ops # <<>>,
         Enter(t, d, 0, r, ops), UNCHANGED <<row, box>>,
         Agrees(crashes, row[d], lease[d], hold[d])
           => OnItsWay(View(r, 0, row[d], crashes), ops, lease[d], hold[d])
  PROVE  Agreement'
<1>1. OnItsWay(View(r, 0, row'[d], crashes), ops, lease[d], hold[d])
  BY Entering
<1> QED
  BY <1>1, EnterAgrees

\* Saving the row as it was read, or with another count of health failures.
LEMMA SavesBack ==
  ASSUME NEW n, NEW r, NEW r2, NEW q, NEW l, NEW h, Agrees(n, r, l, h), r2.state = r.state, r2.node = r.node,
         Starts(q, "save", ""), Tail(q) = <<>> \/ Only(Tail(q), "update", "FAILED")
  PROVE  OnItsWay(View(r2, 0, r, n), q, l, h)
<1> DEFINE c == View(r2, 0, r, n)
<1>1. c.snap = r2 /\ c.msg = 0 /\ c.row = r /\ c.crashes = n
  BY DEF View
<1> HIDE DEF c
<1>2. Agrees(n, r2, l, h)
  BY DEF Agrees, Stops, Linked
<1>3. Remains(c, Tail(q), r2)
  BY <1>1 DEF Remains
<1>4. Saves(c, q, l, h)
  BY <1>1, <1>2, <1>3 DEF Saves
<1>5. Closed(n, r, l, h)
  BY DEF Agrees, Closed
<1>6. OnItsWay(c, q, l, h)
  BY <1>1, <1>4, <1>5, NonEmpty DEF OnItsWay, Last
<1> QED
  BY <1>6 DEF c

\* A handler that begins by reading the row for itself, or with its snapshot of it.
LEMMA Begins ==
  ASSUME NEW n, NEW r \in Row, NEW l, NEW h, Agrees(n, r, l, h), NEW q
  PROVE  LET c == View(r, 0, r, n) IN
         /\ \/ \E s \in Reported : Only(q, "update", s) /\ (Sound(n) /\ s \in Running => Live(l))
            \/ Only(q, "timeout", "") \/ Only(q, "fail", "")
            \/ \E s \in MinerHealth : Only(q, "unhealthy", s)
            \/ \E a \in {"operator", "sweep"} : Only(q, "requeue", a)
            => OnItsWay(c, q, l, h)
         /\ \/ Starts(q, "cleanup", "") /\ (Tail(q) = <<>> \/ Only(Tail(q), "delete", ""))
            \/ r.state = "SUSPENDED" /\ r.node # NoNode /\ Only(q, "headroom", "")
            => OnItsWay(c, q, l, h)
         /\ Only(q, "delete", "") => OnItsWay(c, q, l, h)
<1> DEFINE c == View(r, 0, r, n)
<1>1. c.snap = r /\ c.msg = 0 /\ c.row = r /\ c.crashes = n
  BY DEF View
<1> HIDE DEF c
<1>2. ASSUME \/ \E s \in Reported : Only(q, "update", s) /\ (Sound(n) /\ s \in Running => Live(l))
             \/ Only(q, "timeout", "") \/ Only(q, "fail", "")
             \/ \E s \in MinerHealth : Only(q, "unhealthy", s)
             \/ \E a \in {"operator", "sweep"} : Only(q, "requeue", a)
      PROVE  OnItsWay(c, q, l, h)
  <2>1. WillRead(c, q, l)
    BY <1>1, <1>2 DEF WillRead
  <2> QED
    BY <1>1, <2>1 DEF OnItsWay, Clean
<1>3. ASSUME \/ Starts(q, "cleanup", "") /\ (Tail(q) = <<>> \/ Only(Tail(q), "delete", ""))
             \/ r.state = "SUSPENDED" /\ r.node # NoNode /\ Only(q, "headroom", "")
      PROVE  OnItsWay(c, q, l, h)
  <2>1. HasRead(c, q)
    BY <1>1, <1>3 DEF HasRead
  <2> QED
    BY <1>1, <2>1 DEF OnItsWay, Clean
<1>4. ASSUME Only(q, "delete", "") PROVE OnItsWay(c, q, l, h)
  <2>1. Remains(c, q, r) /\ q # <<>>
    BY <1>1, <1>4 DEF Remains, Only, Starts
  <2> QED
    BY <1>1, <2>1 DEF OnItsWay, Clean
<1> QED
  BY <1>2, <1>3, <1>4 DEF c

\* Entering a handler with one call that reads the row.
LEMMA BeginsOne ==
  ASSUME Safe, Agreement, OneAtATime', NEW t \in Thread, NEW d \in Dep, NEW n, NEW a,
         EnterWith(t, d, <<Op(n, a)>>),
         \/ n = "update" /\ a \in Reported /\ (Sound(crashes) /\ a \in Running => Live(lease[d]))
         \/ n \in {"timeout", "fail", "cleanup", "delete"} /\ a = ""
         \/ n = "unhealthy" /\ a \in MinerHealth
         \/ n = "requeue" /\ a \in {"operator", "sweep"}
         \/ n = "headroom" /\ a = "" /\ row[d].state = "SUSPENDED" /\ row[d].node # NoNode
  PROVE  Agreement'
<1> DEFINE q == <<Op(n, a)>>
<1>1. Only(q, n, a) /\ q # <<>>
  BY Whole
<1>2. Enter(t, d, 0, row[d], q) /\ UNCHANGED <<row, box>> /\ row[d] \in Row
  BY DEF EnterWith, Safe, TypeOK
<1> HIDE DEF q
<1>3. ASSUME Agrees(crashes, row[d], lease[d], hold[d])
      PROVE  OnItsWay(View(row[d], 0, row[d], crashes), q, lease[d], hold[d])
  <2>1. CASE n = "update" /\ a \in Reported /\ (Sound(crashes) /\ a \in Running => Live(lease[d]))
    <3>1. \E s \in Reported : Only(q, "update", s) /\ (Sound(crashes) /\ s \in Running => Live(lease[d]))
      BY <1>1, <2>1
    <3> QED
      BY <1>2, <1>3, <3>1, Begins
  <2>2. CASE n \in {"timeout", "fail"} /\ a = ""
    <3>1. Only(q, "timeout", "") \/ Only(q, "fail", "")
      BY <1>1, <2>2
    <3> QED
      BY <1>2, <1>3, <3>1, Begins
  <2>3. CASE n = "unhealthy" /\ a \in MinerHealth
    <3>1. \E s \in MinerHealth : Only(q, "unhealthy", s)
      BY <1>1, <2>3
    <3> QED
      BY <1>2, <1>3, <3>1, Begins
  <2>4. CASE n = "requeue" /\ a \in {"operator", "sweep"}
    <3>1. \E s \in {"operator", "sweep"} : Only(q, "requeue", s)
      BY <1>1, <2>4
    <3> QED
      BY <1>2, <1>3, <3>1, Begins
  <2>5. CASE n = "cleanup" /\ a = ""
    <3>1. Starts(q, "cleanup", "") /\ Tail(q) = <<>>
      BY <1>1, <2>5 DEF Only
    <3> QED
      BY <1>2, <1>3, <3>1, Begins
  <2>6. CASE n = "headroom" /\ a = "" /\ row[d].state = "SUSPENDED" /\ row[d].node # NoNode
    <3>1. Only(q, "headroom", "")
      BY <1>1, <2>6
    <3> QED
      BY <1>2, <1>3, <2>6, <3>1, Begins
  <2>7. CASE n = "delete" /\ a = ""
    <3>1. Only(q, "delete", "")
      BY <1>1, <2>7
    <3> QED
      BY <1>2, <1>3, <3>1, Begins
  <2> QED
    BY <2>1, <2>2, <2>3, <2>4, <2>5, <2>6, <2>7
<1> QED
  BY <1>1, <1>2, <1>3, ReaderAgrees

\* Every entry.
LEMMA EntersAgree ==
  ASSUME Safe, Agreement, OneAtATime', NEW t \in Thread, NEW d \in Dep, Enters(t, d)
  PROVE  Agreement'
<1>1. CASE CreateDeployment(t, d)
  <2> DEFINE r == [NoRow EXCEPT !.state = "PENDING"]
             q == <<Call("publish")>>
             c == View(NoRow, 0, r, crashes)
  <2>1. /\ row[d].state = "absent" /\ Enter(t, d, 0, NoRow, q) /\ UNCHANGED box
        /\ row' = [row EXCEPT ![d] = r]
    BY <1>1 DEF CreateDeployment
  <2>2. Only(q, "publish", "") /\ q # <<>>
    BY Whole DEF Call
  <2>3. row'[d] = r /\ \A e \in Dep : e # d => row'[e] = row[e]
    BY <2>1 DEF Safe, TypeOK
  <2>4. r.state = "PENDING" /\ r.node = NoNode
    BY DEF NoRow
  <2>5. c.msg = 0 /\ c.row = r /\ c.crashes = crashes
    BY DEF View
  <2> HIDE DEF r, q, c
  <2>6. Agrees(crashes, row[d], lease[d], hold[d])
    BY <2>1, <2>2, Entering
  <2>7. Agrees(crashes, r, lease[d], hold[d])
    BY <2>1, <2>4, <2>6 DEF Agrees, Stops, Terminal, Missing, Placed, Linked
  <2>8. OnItsWay(c, q, lease[d], hold[d])
    BY <2>2, <2>5, <2>7 DEF OnItsWay, Clean
  <2> QED
    BY <2>1, <2>2, <2>3, <2>8, EnterAgrees DEF c
<1>2. ASSUME NEW s \in {"PULLING", "STARTING", "READY", "SUSPENDED"} \cup Terminal, ReportStatus(t, d, s)
      PROVE  Agreement'
  <2>1. EnterWith(t, d, <<Op("update", s)>>) /\ s \in Reportable(d)
    BY <1>2 DEF ReportStatus
  <2>2. s \in Reported
    BY DEF Reported
  <2>3. Sound(crashes) /\ s \in Running => Live(lease[d])
    BY <2>1 DEF Sound, Running, Reportable, Live, Terminal
  <2> QED
    BY <2>1, <2>2, <2>3, BeginsOne
<1>3. CASE ProcessTimeouts(t, d) \/ FailDeployment(t, d) \/ CleanupDeployment(t, d)
  <2>1. PICK n \in {"timeout", "fail", "cleanup"} : EnterWith(t, d, <<Op(n, "")>>)
    BY <1>3 DEF ProcessTimeouts, FailDeployment, CleanupDeployment, Call
  <2> QED
    BY <2>1, BeginsOne
<1>4. CASE ProcessUnhealthyMiners(t, d)
  <2>1. EnterWith(t, d, <<Op("unhealthy", health[lease[d].node])>>) /\ lease[d].node # NoNode
    BY <1>4 DEF ProcessUnhealthyMiners
  <2>2. health[lease[d].node] \in MinerHealth
    BY <2>1 DEF Safe, TypeOK
  <2> QED
    BY <2>1, <2>2, BeginsOne
<1>5. CASE SuspendSweep(t, d) \/ ReapExhaustedPods(t, d) \/ StopSweep(t, d)
  <2>1. PICK s \in {"SUSPENDED", "TERMINATED"} : EnterWith(t, d, <<Op("update", s)>>)
    BY <1>5 DEF SuspendSweep, ReapExhaustedPods, StopSweep
  <2>2. s \in Reported /\ s \notin Running
    BY DEF Reported, Terminal, Running
  <2> QED
    BY <2>1, <2>2, BeginsOne
<1>6. CASE RequeueDeployment(t, d)
  <2>1. EnterWith(t, d, <<Op("requeue", "operator")>>)
    BY <1>6 DEF RequeueDeployment
  <2> QED
    BY <2>1, BeginsOne
<1>7. CASE ResumeDeployment(t, d)
  <2>1. EnterWith(t, d, <<Op("headroom", "")>>) /\ row[d].state = "SUSPENDED" /\ row[d].node # NoNode
    BY <1>7 DEF ResumeDeployment, Call
  <2> QED
    BY <2>1, BeginsOne
<1>8. CASE UpdateDeployment(t, d) \/ RecordHealthFailure(t, d) \/ ClearHealthFailures(t, d)
  <2> DEFINE q1 == <<Op("save", "")>>
             q2 == <<Op("save", ""), Op("update", "FAILED")>>
  <2>1. \E r : /\ r.state = row[d].state /\ r.node = row[d].node
               /\ Enter(t, d, 0, r, q1) \/ Enter(t, d, 0, r, q2)
               /\ UNCHANGED <<row, box>>
    <3>1. row[d] \in Row
      BY DEF Safe, TypeOK
    <3>2. CASE UpdateDeployment(t, d)
      BY <3>2 DEF UpdateDeployment, EnterWith, Call
    <3>3. CASE RecordHealthFailure(t, d)
      <4> DEFINE r == [row[d] EXCEPT !.health = @ + 1]
      <4>1. (Enter(t, d, 0, r, q1) \/ Enter(t, d, 0, r, q2)) /\ UNCHANGED <<row, box>>
        BY <3>3 DEF RecordHealthFailure, Call
      <4>2. r.state = row[d].state /\ r.node = row[d].node
        BY <3>1 DEF Row
      <4> QED
        BY <4>1, <4>2
    <3>4. CASE ClearHealthFailures(t, d)
      <4> DEFINE r == [row[d] EXCEPT !.health = 0]
      <4>1. Enter(t, d, 0, r, q1) /\ UNCHANGED <<row, box>>
        BY <3>4 DEF ClearHealthFailures, Call
      <4>2. r.state = row[d].state /\ r.node = row[d].node
        BY <3>1 DEF Row
      <4> QED
        BY <4>1, <4>2
    <3> QED
      BY <1>8, <3>2, <3>3, <3>4
  <2>2. PICK r : /\ r.state = row[d].state /\ r.node = row[d].node
                 /\ Enter(t, d, 0, r, q1) \/ Enter(t, d, 0, r, q2)
                 /\ UNCHANGED <<row, box>>
    BY <2>1
  <2>3. /\ q1 # <<>> /\ Starts(q1, "save", "") /\ Tail(q1) = <<>>
        /\ q2 # <<>> /\ Starts(q2, "save", "") /\ Only(Tail(q2), "update", "FAILED")
    BY Whole DEF Only
  <2> HIDE DEF q1, q2
  <2>4. ASSUME Agrees(crashes, row[d], lease[d], hold[d])
        PROVE  /\ OnItsWay(View(r, 0, row[d], crashes), q1, lease[d], hold[d])
               /\ OnItsWay(View(r, 0, row[d], crashes), q2, lease[d], hold[d])
    BY <2>2, <2>3, <2>4, SavesBack
  <2> QED
    BY <2>2, <2>3, <2>4, ReaderAgrees
<1>9. CASE DeleteWorkload(t, d)
  <2> DEFINE q == <<Op("cleanup", ""), Op("delete", "")>>
  <2>1. EnterWith(t, d, <<Op("delete", "")>>) \/ EnterWith(t, d, q)
    BY <1>9 DEF DeleteWorkload, Call
  <2>2. CASE EnterWith(t, d, <<Op("delete", "")>>)
    BY <2>2, BeginsOne
  <2>3. CASE EnterWith(t, d, q)
    <3>1. Starts(q, "cleanup", "") /\ Only(Tail(q), "delete", "") /\ q # <<>>
      BY Whole
    <3>2. Enter(t, d, 0, row[d], q) /\ UNCHANGED <<row, box>> /\ row[d] \in Row
      BY <2>3 DEF EnterWith, Safe, TypeOK
    <3> HIDE DEF q
    <3>3. ASSUME Agrees(crashes, row[d], lease[d], hold[d])
          PROVE  OnItsWay(View(row[d], 0, row[d], crashes), q, lease[d], hold[d])
      BY <3>1, <3>2, <3>3, Begins
    <3> QED
      BY <3>1, <3>2, <3>3, ReaderAgrees
  <2> QED
    BY <2>1, <2>2, <2>3
<1> QED
  BY <1>1, <1>2, <1>3, <1>4, <1>5, <1>6, <1>7, <1>8, <1>9 DEF Enters

\* A claimed delivery begins a placement.
LEMMA ClaimAgrees ==
  ASSUME Safe, Agreement, OneAtATime', NEW t \in Thread, NEW m \in Slot, ClaimRequest(t, m)
  PROVE  Agreement'
<1> DEFINE d == box[m].dep
           q == <<Op("request", "")>>
           c == View(NoRow, m, row[d], crashes)
<1>1. /\ Enter(t, d, m, NoRow, q) /\ box[m].status = "pending" /\ UNCHANGED row
      /\ box' = [box EXCEPT ![m].status = "claimed", ![m].tries = @ + 1]
  BY DEF ClaimRequest, Call
<1>2. d \in Dep /\ m # 0
  <2>1. m # 0
    BY ControlPlaneAssumption DEF Slot
  <2>2. box[m].status # "absent"
    BY <1>1
  <2> QED
    BY <2>1, <2>2 DEF Safe, OwnsDelivery
<1>3. \A k \in Slot : box'[k].dep = box[k].dep
  BY <1>1 DEF Safe, TypeOK
<1>4. Only(q, "request", "") /\ q # <<>>
  BY Whole
<1>5. c.msg = m /\ c.row = row[d] /\ c.crashes = crashes
  BY Knows
<1> HIDE DEF q, c, d
<1>6. Agrees(crashes, row[d], lease[d], hold[d])
  BY <1>1, <1>2, <1>4, Entering
<1>7. Placing(c, q)
  BY <1>2, <1>4, <1>5 DEF Placing
<1>8. OnItsWay(c, q, lease[d], hold[d])
  BY <1>5, <1>6, <1>7 DEF OnItsWay, Clean
<1>9. OnItsWay(View(NoRow, m, row'[d], crashes), q, lease[d], hold[d])
  BY <1>1, <1>8 DEF c
<1>10. box[m].dep = d
  BY DEF d
<1> QED
  BY <1>1, <1>2, <1>3, <1>4, <1>9, <1>10, EnterAgrees

\* Reclaiming orphaned reservations changes nothing that still has to agree.
LEMMA ReclaimAgrees ==
  ASSUME Safe, Agreement, ReclaimOrphanedReservations
  PROVE  Agreement'
<1>1. /\ hold' = [d \in Dep |-> IF Orphaned(d) THEN NoNode ELSE hold[d]]
      /\ UNCHANGED <<row, lease, box, run, crashes>>
  BY DEF ReclaimOrphanedReservations
<1>2. \A d \in Dep : hold'[d] = hold[d] \/ (Stops(row[d]) /\ hold[d] # NoNode)
  BY <1>1 DEF Orphaned, Stops
<1>3. \A u \in Thread : /\ Local(u)' = Local(u) /\ job(u)' = job(u) /\ run'[u] = run[u] /\ (Idle(u)' <=> Idle(u))
  BY <1>1 DEF Local, job, snap, Idle
<1>4. ASSUME NEW u \in Thread, ~Idle(u)
      PROVE  OnItsWay(Local(u), run[u].todo, lease[job(u)], hold'[job(u)])
  <2>1. /\ job(u) \in Dep /\ Local(u).row = row[job(u)]
        /\ OnItsWay(Local(u), run[u].todo, lease[job(u)], hold[job(u)])
    BY <1>4, AtWork, Knows DEF Agreement, HandlersOnTheirWay
  <2>2. CASE hold'[job(u)] = hold[job(u)]
    BY <2>1, <2>2
  <2>3. CASE Stops(row[job(u)]) /\ hold[job(u)] # NoNode
    <3>1. ~Sound(Local(u).crashes)
      BY <2>1, <2>3, AlwaysClosed DEF Closed
    <3> QED
      BY <2>1, <2>3, <3>1, Weakens
  <2> QED
    BY <1>2, <2>1, <2>2, <2>3
<1>5. ASSUME NEW d \in Dep, Quiet(d)
      PROVE  Agrees(crashes, row[d], lease[d], hold'[d])
  <2>1. Agrees(crashes, row[d], lease[d], hold[d])
    BY <1>5 DEF Agreement, SettledAgrees
  <2> QED
    BY <1>2, <2>1 DEF Agrees
<1>6. HandlersOnTheirWay'
  BY <1>1, <1>3, <1>4 DEF HandlersOnTheirWay
<1>7. SettledAgrees'
  <2>1. \A d \in Dep : Quiet(d)' => Quiet(d)
    BY <1>3 DEF Quiet
  <2> QED
    BY <1>1, <1>5, <2>1 DEF SettledAgrees
<1>8. PendingIsOwed' /\ ServesItsDep'
  BY <1>1 DEF Agreement, PendingIsOwed, ServesItsDep, Owed, job
<1> QED
  BY <1>6, <1>7, <1>8 DEF Agreement

\* Steps that leave rows, leases, reservations and threads alone, and deliveries about their deployments.
LEMMA OthersAgree ==
  ASSUME Agreement, UNCHANGED <<row, lease, hold, run, crashes>>, \A m \in Slot : box'[m].dep = box[m].dep, Safe
  PROVE  Agreement'
<1>1. HandlersOnTheirWay' /\ SettledAgrees'
  BY DEF Agreement, HandlersOnTheirWay, SettledAgrees, Quiet, Idle, job, Local, snap
<1>2. ServesItsDep'
  <2>1. \A u \in Thread : run[u].msg # 0 => run[u].msg \in Slot
    BY AtWork
  <2> QED
    BY <2>1 DEF Agreement, ServesItsDep, job
<1>3. PendingIsOwed'
  BY DEF Agreement, PendingIsOwed, Owed, job
<1> QED
  BY <1>1, <1>2, <1>3 DEF Agreement

\* Every step of handlers that do not overlap keeps row, lease and reservation in agreement, or on
\* their way to one.
LEMMA AgreementStep ==
  ASSUME Safe, Safe', OneAtATime, OneAtATime', Agreement, [Next]_vars
  PROVE  Agreement'
<1>1. ASSUME NEW t \in Thread, Calls(t) PROVE Agreement'
  <2>1. Touches(t, job(t)) /\ crashes' = crashes /\ job(t) \in Dep /\ ~Idle(t)
    BY <1>1, CallTouches
  <2>2. Lands(t, job(t))
    BY <1>1, CallLands DEF Agreement
  <2>3. \A u \in Thread : u # t /\ ~Idle(u) => job(u) \in Dep \ {job(t)}
    BY <2>1, AtWork DEF OneAtATime
  <2>4. HandlersOnTheirWay' /\ SettledAgrees'
    BY <2>1, <2>2, <2>3, Settles DEF Agreement
  <2>5. ServesItsDep' /\ PendingIsOwed'
    BY <1>1, <2>2, CallServes, CallOwes DEF Agreement
  <2> QED
    BY <2>4, <2>5 DEF Agreement
<1>2. ASSUME NEW t \in Thread, Crash(t) PROVE Agreement'
  BY <1>2, CrashAgrees
<1>3. ASSUME NEW t \in Thread, NEW d \in Dep, Enters(t, d) PROVE Agreement'
  BY <1>3, EntersAgree
<1>4. ASSUME NEW t \in Thread, NEW m \in Slot, ClaimRequest(t, m) PROVE Agreement'
  BY <1>4, ClaimAgrees
<1>5. ASSUME NEW m \in Slot, RecoverDelivery(m) PROVE Agreement'
  <2>1. /\ box' = [box EXCEPT ![m].status = "pending"]
        /\ UNCHANGED <<row, lease, hold, run, crashes>>
    BY <1>5 DEF RecoverDelivery
  <2>2. \A k \in Slot : box'[k].dep = box[k].dep
    BY <2>1 DEF Safe, TypeOK
  <2> QED
    BY <2>1, <2>2, OthersAgree
<1>6. CASE UNCHANGED <<row, lease, hold, run, crashes, box>>
  BY <1>6, OthersAgree
<1>7. ASSUME NEW d \in Dep, LeaseTtlElapses(d) PROVE Agreement'
  BY <1>6, <1>7 DEF LeaseTtlElapses
<1>8. ASSUME NEW n \in Node, NEW h \in MinerHealth, MinerHealthChanges(n, h) PROVE Agreement'
  BY <1>6, <1>8 DEF MinerHealthChanges
<1>9. CASE ReclaimOrphanedReservations
  BY <1>9, ReclaimAgrees
<1>10. CASE UNCHANGED vars
  BY <1>6, <1>10 DEF vars
<1> QED
  BY <1>1, <1>2, <1>3, <1>4, <1>5, <1>7, <1>8, <1>9, <1>10 DEF Next

\* In the beginning nothing is deployed.
LEMMA InitAgrees ==
  ASSUME Init
  PROVE  Agreement
<1>1. \A t \in Thread : run[t] = Resting
  BY DEF Init
<1>2. HandlersOnTheirWay /\ ServesItsDep
  BY <1>1, RestingOK DEF HandlersOnTheirWay, ServesItsDep, Idle
<1>3. \A d \in Dep : row[d] = NoRow /\ lease[d] = NoLease /\ hold[d] = NoNode
  BY DEF Init
<1>4. \A d \in Dep : Agrees(crashes, row[d], lease[d], hold[d])
  BY <1>3 DEF Agrees, NoRow, NoLease, Live, LiveLease, Linked, Placed
<1>5. PendingIsOwed
  BY <1>3 DEF PendingIsOwed, NoRow
<1> QED
  BY <1>2, <1>4, <1>5 DEF Agreement, SettledAgrees

-----------------------------------------------------------------------------
\* Handlers that do not overlap on a deployment keep its rows in agreement, in the control plane
\* as a whole: the invariant of the theorems below.
LEMMA AlwaysAgrees == Spec /\ []OneAtATime => [](Safe /\ Agreement)
<1>1. Init => Safe /\ Agreement
  BY InitSafe, InitAgrees
<1>2. Safe /\ [Next]_vars => Safe'
  BY SafeStep
<1>3. Safe /\ Safe' /\ OneAtATime /\ OneAtATime' /\ Agreement /\ [Next]_vars => Agreement'
  BY AgreementStep
<1> QED
  BY <1>1, <1>2, <1>3, PTL DEF Spec

\* As long as no thread was killed and no report comes late, handlers that do not overlap on a
\* deployment leave what is READY backed by an active lease and by GPUs on the node of its row, and
\* what has stopped with neither: suspend, resume, requeue, timeouts, clean-up and deletion included.
THEOREM RowsOwnWhatTheyShow ==
  ASSUME ~LateReports
  PROVE  Spec /\ []OneAtATime => [](crashes = 0 => OwnsWhatItShows)
<1>1. ASSUME Safe, Agreement, crashes = 0 PROVE OwnsWhatItShows
  <2>1. Sound(crashes)
    BY <1>1 DEF Sound
  <2>2. \A d \in Dep : Quiet(d) => Agrees(crashes, row[d], lease[d], hold[d])
    BY <1>1 DEF Agreement, SettledAgrees
  <2>3. ASSUME NEW d \in Dep, Quiet(d), row[d].state = "READY"
        PROVE  lease[d] = [status |-> "active", node |-> row[d].node] /\ hold[d] = row[d].node
    <3>1. lease[d].status = "active" /\ Live(lease[d]) /\ Linked(row[d], lease[d])
      BY <2>1, <2>2, <2>3 DEF Agrees, Live, LiveLease
    <3>2. row[d].node # NoNode /\ hold[d] = row[d].node
      BY <2>1, <2>2, <2>3, <3>1 DEF Agrees
    <3>3. lease[d].node = row[d].node
      BY <3>1, <3>2 DEF Linked
    <3>4. lease[d] \in [status : LeaseStatus, node : Node \cup {NoNode}]
      BY <1>1 DEF Safe, TypeOK
    <3> QED
      BY <3>1, <3>2, <3>3, <3>4
  <2>4. ASSUME NEW d \in Dep, Quiet(d), row[d].state \in Terminal
        PROVE  lease[d].status \notin LiveLease /\ hold[d] = NoNode
    <3>1. Stops(row[d])
      BY <2>4 DEF Stops
    <3> QED
      BY <2>1, <2>2, <2>4, <3>1 DEF Agrees, Live
  <2> QED
    BY <2>3, <2>4 DEF OwnsWhatItShows, ReadyIsBacked, StoppedOwnsNothing
<1> QED
  BY <1>1, AlwaysAgrees, PTL

\* Whichever threads die between two calls, and however late a miner reports, a stopped deployment
\* is left without a live lease, because every handler saves the row last.
THEOREM StoppedStaysDown == Spec /\ []OneAtATime => []StoppedHasNoLiveLease
<1>1. ASSUME Agreement PROVE StoppedHasNoLiveLease
  BY <1>1 DEF Agreement, SettledAgrees, Agrees, Stops, Live, StoppedHasNoLiveLease
<1> QED
  BY <1>1, AlwaysAgrees, PTL

\* As long as no thread was killed, a PENDING deployment nobody works on has a delivery on the bus:
\* every handler that writes PENDING publishes, and none settles a delivery while the row is PENDING.
THEOREM PendingIsScheduled ==
  ASSUME ~LateReports
  PROVE  Spec /\ []OneAtATime => [](crashes = 0 => PendingHasDelivery)
<1>1. ASSUME Agreement, crashes = 0 PROVE PendingHasDelivery
  <2> SUFFICES ASSUME NEW d \in Dep, Quiet(d), row[d].state = "PENDING"
               PROVE  \E m \in Slot : box[m].dep = d
    BY DEF PendingHasDelivery
  <2>1. Owed(d)
    BY <1>1 DEF Agreement, PendingIsOwed, Sound
  <2>2. ASSUME NEW t \in Thread, job(t) = d, Only(run[t].todo, "publish", "") PROVE FALSE
    BY <2>2 DEF Quiet, Only, Starts, Idle
  <2> QED
    BY <2>1, <2>2 DEF Owed
<1> QED
  BY <1>1, AlwaysAgrees, PTL

\* A sequence whose tail is one element.
LEMMA TwoLong ==
  ASSUME NEW X, NEW q \in Seq(X), q # <<>>, Tail(q) # <<>>, Tail(Tail(q)) = <<>>
  PROVE  q = <<Head(q), Head(Tail(q))>>
<1>1. Tail(q) \in Seq(X) /\ Head(q) = q[1] /\ Len(Tail(q)) = Len(q) - 1 /\ Len(q) \in Nat
  BY HeadTailProperties
<1>2. Len(Tail(Tail(q))) = Len(Tail(q)) - 1 /\ Head(Tail(q)) = Tail(q)[1]
  BY <1>1, HeadTailProperties
<1>3. Len(Tail(Tail(q))) = 0
  BY EmptySeq
<1>4. Len(q) = 2 /\ Len(Tail(q)) = 1
  BY <1>1, <1>2, <1>3
<1>5. \A i \in 1 .. Len(Tail(q)) : Tail(q)[i] = q[i + 1]
  BY HeadTailProperties
<1>6. Tail(q)[1] = q[2]
  BY <1>4, <1>5
<1> QED
  BY <1>1, <1>2, <1>4, <1>6

\* A plan that saves and then only publishes, as a sequence.
LEMMA SaveThenPublish ==
  ASSUME NEW q \in Seq(PlannedOp), Starts(q, "save", ""), Only(Tail(q), "publish", "")
  PROVE  q = <<Call("save"), Call("publish")>>
<1>1. ASSUME NEW x \in PlannedOp PROVE x = Op(x.op, x.arg)
  <2>1. \A O, A : x \in [op : O, arg : A] => x = [op |-> x.op, arg |-> x.arg]
    OBVIOUS
  <2>2. \E O, A : x \in [op : O, arg : A]
    BY Zenon DEF PlannedOp
  <2> QED
    BY <2>1, <2>2 DEF Op
<1>2. q # <<>> /\ Head(q) \in PlannedOp /\ Head(q).op = "save" /\ Head(q).arg = "" /\ Tail(q) \in Seq(PlannedOp)
  BY HeadTailProperties DEF Starts
<1>3. /\ Tail(q) # <<>> /\ Head(Tail(q)) \in PlannedOp /\ Head(Tail(q)).op = "publish" /\ Head(Tail(q)).arg = ""
      /\ Tail(Tail(q)) = <<>>
  BY <1>2, HeadTailProperties DEF Starts, Only
<1>4. Head(q) = Call("save") /\ Head(Tail(q)) = Call("publish")
  BY <1>1, <1>2, <1>3 DEF Call
<1>5. q = <<Head(q), Head(Tail(q))>>
  BY <1>2, <1>3, TwoLong, Zenon
<1> QED
  BY <1>4, <1>5

\* What a save can write over a stopped deployment.
LEMMA SaveOverTerminal ==
  ASSUME Safe, HandlersOnTheirWay, NEW t \in Thread, Doing(t, "save"), row[job(t)].state \in Terminal
  PROVE  \/ snap(t).state \in Terminal
         \/ run[t].todo = <<Call("save"), Call("publish")>> /\ snap(t).state = "PENDING"
<1> DEFINE c == Local(t)
           q == run[t].todo
<1>1. c.snap = snap(t) /\ c.row = row[job(t)]
  BY Knows
<1>2. /\ OnItsWay(c, q, lease[job(t)], hold[job(t)]) /\ Head(q).op = "save" /\ q \in Seq(PlannedOp)
  BY AtCall
<1> HIDE DEF c, q
<1>3. Saves(c, q, lease[job(t)], hold[job(t)])
  BY <1>2, ByHead
<1>4. CASE c.snap.state = "PENDING" /\ Only(Tail(q), "publish", "")
  <2>1. Starts(q, "save", "")
    BY <1>3 DEF Saves
  <2>2. Only(Tail(q), "publish", "") /\ q \in Seq(PlannedOp)
    BY <1>2, <1>4
  <2>3. q = <<Call("save"), Call("publish")>>
    BY <2>1, <2>2, SaveThenPublish
  <2> QED
    BY <1>1, <1>4, <2>3 DEF q
<1>5. CASE c.row.state \in Terminal => c.snap.state \in Terminal
  BY <1>1, <1>5
<1> QED
  BY <1>3, <1>4, <1>5 DEF Saves

\* A row is created, deleted, or saved by the thread that holds it; nothing else writes one.
LEMMA RowsWritten ==
  ASSUME Safe, [Next]_vars, NEW d \in Dep
  PROVE  \/ row'[d] = row[d]
         \/ row'[d].state = "deleted"
         \/ row[d].state = "absent" /\ row'[d].state = "PENDING"
         \/ \E t \in Thread : CallSave(t) /\ d = job(t) /\ row'[d] = snap(t)
<1> DEFINE Goal == \/ row'[d] = row[d]
                   \/ row'[d].state = "deleted"
                   \/ row[d].state = "absent" /\ row'[d].state = "PENDING"
                   \/ \E t \in Thread : CallSave(t) /\ d = job(t) /\ row'[d] = snap(t)
<1>r. row \in [Dep -> Row]
  BY DEF Safe, TypeOK
<1>1. ASSUME NEW t \in Thread, CallSave(t) PROVE Goal
  <2>1. row' = [row EXCEPT ![job(t)] = snap(t)]
    BY <1>1 DEF CallSave
  <2>2. row'[d] = row[d] \/ (d = job(t) /\ row'[d] = snap(t))
    BY <1>r, <2>1
  <2> QED
    BY <1>1, <2>2
<1>2. ASSUME NEW t \in Thread, CallDelete(t) PROVE Goal
  <2>1. row' = [row EXCEPT ![job(t)] = [NoRow EXCEPT !.state = "deleted"]]
    BY <1>2 DEF CallDelete
  <2> QED
    BY <1>r, <2>1 DEF NoRow
<1>3. ASSUME NEW t \in Thread, Calls(t), ~CallSave(t), ~CallDelete(t) PROVE row' = row
  BY <1>3 DEF Calls, CallUpdateStatus, CallUpdateAssignment, CallRelease, CallPublish, CallMark,
       CallRequest, CallChooseNode, CallReserve, CallHold, CallSaveAssignment, CallTimeout, CallUnhealthy,
       CallRequeue, CallFail, CallCleanup, CallHeadroom, CallReacquire, store
<1>4. ASSUME NEW t \in Thread, NEW e \in Dep, Enters(t, e) PROVE Goal
  <2>1. CASE CreateDeployment(t, e)
    <3>1. row[e].state = "absent" /\ row' = [row EXCEPT ![e] = [NoRow EXCEPT !.state = "PENDING"]]
      BY <2>1 DEF CreateDeployment
    <3> QED
      BY <1>r, <3>1 DEF NoRow
  <2>2. CASE ~CreateDeployment(t, e)
    <3>1. row' = row
      BY <1>4, <2>2 DEF Enters, ReportStatus, ProcessTimeouts, ProcessUnhealthyMiners, SuspendSweep,
           ReapExhaustedPods, StopSweep, RequeueDeployment, ResumeDeployment, FailDeployment, CleanupDeployment,
           UpdateDeployment, RecordHealthFailure, ClearHealthFailures, DeleteWorkload, EnterWith
    <3> QED
      BY <3>1
  <2> QED
    BY <2>1, <2>2
<1>5. ASSUME NEW t \in Thread, NEW m \in Slot, ClaimRequest(t, m) PROVE row' = row
  BY <1>5 DEF ClaimRequest
<1>6. ASSUME NEW t \in Thread, Crash(t) PROVE row' = row
  BY <1>6 DEF Crash, store
<1>7. CASE \/ \E m \in Slot : RecoverDelivery(m)
           \/ \E e \in Dep : LeaseTtlElapses(e)
           \/ \E n \in Node, h \in MinerHealth : MinerHealthChanges(n, h)
           \/ ReclaimOrphanedReservations
           \/ UNCHANGED vars
  BY <1>7 DEF RecoverDelivery, LeaseTtlElapses, MinerHealthChanges, ReclaimOrphanedReservations, vars
<1>8. row' = row => Goal
  OBVIOUS
<1> QED
  BY <1>1, <1>2, <1>3, <1>4, <1>5, <1>6, <1>7, <1>8 DEF Next

\* Handlers that do not overlap on a deployment never bring a stopped one back, whatever dies and
\* whatever reports come late, but for the operator's requeue.
THEOREM StoppedForGood == Spec /\ []OneAtATime => TerminalAbsorbing
<1>1. Safe /\ Agreement /\ [Next]_vars
        => [\A d \in Dep : row[d].state \in Terminal =>
              \/ row'[d].state \in Terminal \cup {"deleted"}
              \/ \E t \in Thread : run[t].todo = <<Call("save"), Call("publish")>> /\ row'[d].state = "PENDING"]_vars
  <2> SUFFICES ASSUME Safe, Agreement, [Next]_vars, NEW d \in Dep, row[d].state \in Terminal
               PROVE  \/ row'[d].state \in Terminal \cup {"deleted"}
                      \/ \E t \in Thread : /\ run[t].todo = <<Call("save"), Call("publish")>>
                                           /\ row'[d].state = "PENDING"
    OBVIOUS
  <2>1. row[d].state # "absent"
    BY DEF Terminal
  <2>2. ASSUME NEW t \in Thread, CallSave(t), d = job(t), row'[d] = snap(t)
        PROVE  \/ row'[d].state \in Terminal
               \/ run[t].todo = <<Call("save"), Call("publish")>> /\ row'[d].state = "PENDING"
    BY <2>2, SaveOverTerminal DEF Agreement, CallSave
  <2> QED
    BY <2>1, <2>2, RowsWritten
<1> QED
  BY <1>1, AlwaysAgrees, PTL DEF Spec, TerminalAbsorbing

-----------------------------------------------------------------------------
\* One handler runs at a time.
Alone == \A t, u \in Thread : ~Idle(t) /\ ~Idle(u) => t = u

\* The room a placement or a resume has just read is still there when it writes.
RoomStillThere ==
  \A t \in Thread : (Doing(t, "hold") \/ Doing(t, "reacquire")) /\ snap(t).node \in Node
                      => Fits(job(t), hold, snap(t).node)

\* Deployments that count on a node count there under a larger view of it too.
LEMMA SlotsWithin ==
  ASSUME NEW D \in SUBSET Dep, NEW E \in SUBSET Dep, NEW g, NEW h, NEW n,
         \A d \in D : g[d] = n => d \in E /\ h[d] = n
  PROVE  /\ Cardinality(SlotsOf(D, g, n)) <= Cardinality(SlotsOf(E, h, n))
         /\ Cardinality(SlotsOf(D, g, n)) \in Nat /\ Cardinality(SlotsOf(E, h, n)) \in Nat
<1>1. {e \in D : g[e] = n} \subseteq {e \in E : h[e] = n}
  OBVIOUS
<1>2. SlotsOf(D, g, n) \subseteq SlotsOf(E, h, n)
  BY <1>1 DEF SlotsOf
<1> QED
  BY <1>2, SlotsFinite, FS_Subset

\* A resume, which counts the deployment's own reservation as well, sees no more room than a placement.
LEMMA RoomFits ==
  ASSUME NEW d \in Dep, NEW h, NEW n \in Node, HasRoom(d, h, n)
  PROVE  Fits(d, h, n)
<1> DEFINE a == Cardinality(SlotsOf(Dep \ {d}, h, n))
           b == Cardinality(SlotsOf(Dep, h, n))
<1>1. a <= b /\ a \in Nat /\ b \in Nat
  BY SlotsWithin
<1>2. Need[d] \in Nat /\ Gpus[n] \in Nat
  BY ControlPlaneAssumption
<1>3. b + Need[d] <= Gpus[n]
  BY DEF HasRoom, Reserved
<1>4. a + Need[d] <= Gpus[n]
  <2> HIDE DEF a, b
  <2> QED
    BY <1>1, <1>2, <1>3
<1> QED
  BY <1>4 DEF Fits, ReservedByOthers

\* A step that only gives holds back, and after which who is about to write one was so before or
\* has just looked.
LEMMA LowerKeepsRoom ==
  ASSUME Safe, RoomStillThere, NodeNotOversubscribed, Lowers(hold, hold'),
         \A u \in Thread : (Doing(u, "hold")' \/ Doing(u, "reacquire")') /\ snap(u)'.node \in Node =>
           \/ (Doing(u, "hold") \/ Doing(u, "reacquire")) /\ job(u)' = job(u) /\ snap(u)' = snap(u)
           \/ hold' = hold /\ Fits(job(u)', hold, snap(u)'.node)
  PROVE  RoomStillThere' /\ NodeNotOversubscribed'
<1>1. \A n \in Node : Reserved(hold', n) <= Gpus[n]
  BY LowersFit DEF NodeNotOversubscribed
<1>2. \A d \in Dep, n \in Node : Fits(d, hold, n) => Fits(d, hold', n)
  BY LowersFit
<1>3. ASSUME NEW u \in Thread, Doing(u, "hold")' \/ Doing(u, "reacquire")', snap(u)'.node \in Node
      PROVE  Fits(job(u)', hold', snap(u)'.node)
  <2>1. CASE (Doing(u, "hold") \/ Doing(u, "reacquire")) /\ job(u)' = job(u) /\ snap(u)' = snap(u)
    <3>1. Fits(job(u), hold, snap(u).node)
      BY <1>3, <2>1 DEF RoomStillThere
    <3>2. job(u) \in Dep
      BY <2>1, AtWork DEF Doing
    <3> QED
      BY <1>2, <1>3, <2>1, <3>1, <3>2
  <2>2. CASE hold' = hold /\ Fits(job(u)', hold, snap(u)'.node)
    BY <2>2
  <2> QED
    BY <1>3, <2>1, <2>2
<1> QED
  BY <1>1, <1>3 DEF NodeNotOversubscribed, RoomStillThere

\* A thread that moves to the write of a reservation has just looked.
LEMMA HasLooked ==
  ASSUME Safe', NEW t \in Thread, Moves(t), Doing(t, "hold")' \/ Doing(t, "reacquire")', snap(t)'.node \in Node
  PROVE  hold' = hold /\ Fits(job(t)', hold, snap(t)'.node)
<1>1. job(t)' \in Dep
  BY AtWork DEF Safe, WellPlanned, PlanOK, Doing, Idle, job
<1> QED
  BY <1>1, RoomFits DEF Moves

\* The other threads stay as they are.
LEMMA OthersWait ==
  ASSUME NEW u \in Thread, run'[u] = run[u], Doing(u, "hold")' \/ Doing(u, "reacquire")'
  PROVE  (Doing(u, "hold") \/ Doing(u, "reacquire")) /\ job(u)' = job(u) /\ snap(u)' = snap(u)
  BY DEF Doing, Idle, job, snap

\* A reservation is written into room that was there when the handler looked: nobody else has moved.
LEMMA WriteKeepsRoom ==
  ASSUME Safe, Safe', Alone, RoomStillThere, NodeNotOversubscribed, NEW t \in Thread, Moves(t),
         CallHold(t) \/ CallReacquire(t)
  PROVE  RoomStillThere' /\ NodeNotOversubscribed'
<1>1. /\ Doing(t, "hold") \/ Doing(t, "reacquire")
      /\ hold' = [hold EXCEPT ![job(t)] = snap(t).node]
  BY DEF CallHold, CallReacquire
<1>2. /\ ~Idle(t) /\ job(t) \in Dep /\ hold \in [Dep -> Node \cup {NoNode}]
      /\ snap(t).node \in Node \cup {NoNode}
  BY <1>1, Busy DEF Safe, TypeOK, Row
<1>3. \A u \in Thread : u # t => Idle(u) /\ run'[u] = run[u]
  BY <1>2 DEF Alone, Moves
<1>4. RoomStillThere'
  <2> SUFFICES ASSUME NEW u \in Thread, Doing(u, "hold")' \/ Doing(u, "reacquire")', snap(u)'.node \in Node
               PROVE  Fits(job(u)', hold', snap(u)'.node)
    BY DEF RoomStillThere
  <2>1. CASE u = t
    BY <2>1, HasLooked
  <2>2. CASE u # t
    BY <1>3, <2>2 DEF Doing, Idle
  <2> QED
    BY <2>1, <2>2
<1>5. CASE snap(t).node \in Node
  <2>1. Fits(job(t), hold, snap(t).node)
    BY <1>1, <1>5 DEF RoomStillThere
  <2>2. \A n \in Node : Reserved(hold', n) <= Gpus[n]
    BY <1>1, <1>2, <1>5, <2>1, HoldFits DEF NodeNotOversubscribed
  <2> QED
    BY <1>4, <2>2 DEF NodeNotOversubscribed
<1>6. CASE snap(t).node = NoNode
  <2>1. Lowers(hold, hold')
    BY <1>1, <1>2, <1>6 DEF Lowers
  <2> QED
    BY <1>4, <2>1, LowersFit DEF NodeNotOversubscribed
<1> QED
  BY <1>2, <1>5, <1>6

\* One handler at a time keeps the ledger within the node, a resume included.
LEMMA AloneStep ==
  ASSUME Safe, Safe', Alone, RoomStillThere, NodeNotOversubscribed, [Next]_vars
  PROVE  RoomStillThere' /\ NodeNotOversubscribed'
<1> DEFINE Goal == RoomStillThere' /\ NodeNotOversubscribed'
<1>1. ASSUME NEW t \in Thread, Moves(t), Lowers(hold, hold') PROVE Goal
  <2>1. ASSUME NEW u \in Thread, Doing(u, "hold")' \/ Doing(u, "reacquire")', snap(u)'.node \in Node
        PROVE  \/ (Doing(u, "hold") \/ Doing(u, "reacquire")) /\ job(u)' = job(u) /\ snap(u)' = snap(u)
               \/ hold' = hold /\ Fits(job(u)', hold, snap(u)'.node)
    <3>1. CASE u = t
      BY <1>1, <2>1, <3>1, HasLooked
    <3>2. CASE u # t
      <4>1. run'[u] = run[u]
        BY <1>1, <3>2 DEF Moves
      <4> QED
        BY <2>1, <4>1, OthersWait
    <3> QED
      BY <3>1, <3>2
  <2> QED
    BY <1>1, <2>1, LowerKeepsRoom
<1>2. ASSUME NEW t \in Thread, Calls(t) PROVE Goal
  <2>1. Moves(t)
    BY <1>2, CallStep DEF Safe
  <2>2. CASE CallHold(t) \/ CallReacquire(t)
    BY <2>1, <2>2, WriteKeepsRoom
  <2>3. CASE ~CallHold(t) /\ ~CallReacquire(t)
    <3>1. CASE CallRelease(t) \/ CallDelete(t)
      <4>1. Lowers(hold, hold')
        BY <3>1 DEF CallRelease, CallDelete, Lowers, Safe, TypeOK
      <4> QED
        BY <1>1, <2>1, <4>1
    <3>2. CASE ~CallRelease(t) /\ ~CallDelete(t)
      <4>1. Lowers(hold, hold')
        BY <1>2, <2>3, <3>2 DEF Calls, CallUpdateStatus, CallUpdateAssignment, CallSave, CallPublish,
             CallMark, CallRequest, CallChooseNode, CallReserve, CallSaveAssignment, CallTimeout,
             CallUnhealthy, CallRequeue, CallFail, CallCleanup, CallHeadroom, store, Lowers
      <4> QED
        BY <1>1, <2>1, <4>1
    <3> QED
      BY <3>1, <3>2
  <2> QED
    BY <2>2, <2>3
<1>3. ASSUME NEW t \in Thread, NEW d \in Dep, Enters(t, d) PROVE Goal
  <2>1. Moves(t) /\ hold' = hold
    BY <1>3, EnterStep DEF Safe
  <2>2. Lowers(hold, hold')
    BY <2>1 DEF Lowers
  <2> QED
    BY <1>1, <2>1, <2>2
<1>4. ASSUME Lowers(hold, hold'),
             \A u \in Thread : Doing(u, "hold")' \/ Doing(u, "reacquire")' => run'[u] = run[u]
      PROVE  Goal
  <2>1. \A u \in Thread : Doing(u, "hold")' \/ Doing(u, "reacquire")' =>
          (Doing(u, "hold") \/ Doing(u, "reacquire")) /\ job(u)' = job(u) /\ snap(u)' = snap(u)
    BY <1>4, OthersWait
  <2> QED
    BY <1>4, <2>1, LowerKeepsRoom
<1>5. ASSUME NEW t \in Thread, Crash(t) PROVE Goal
  <2>1. run' = [run EXCEPT ![t] = Resting] /\ hold' = hold
    BY <1>5 DEF Crash, store
  <2>2. Lowers(hold, hold')
    BY <2>1 DEF Lowers
  <2>3. \A u \in Thread : Doing(u, "hold")' \/ Doing(u, "reacquire")' => run'[u] = run[u]
    BY <2>1, RestingOK DEF Doing, Idle, Safe, TypeOK
  <2> QED
    BY <1>4, <2>2, <2>3
<1>6. ASSUME NEW t \in Thread, NEW m \in Slot, ClaimRequest(t, m) PROVE Goal
  <2>1. /\ run' = [run EXCEPT ![t] = [dep |-> box[m].dep, msg |-> m, row |-> NoRow, todo |-> <<Call("request")>>]]
        /\ hold' = hold
    BY <1>6 DEF ClaimRequest, Enter
  <2>2. Lowers(hold, hold')
    BY <2>1 DEF Lowers
  <2>3. Head(<<Call("request")>>) = Call("request") /\ Call("request").op = "request"
    BY DEF Call, Op
  <2>4. \A u \in Thread : Doing(u, "hold")' \/ Doing(u, "reacquire")' => run'[u] = run[u]
    BY <2>1, <2>3 DEF Doing, Safe, TypeOK
  <2> QED
    BY <1>4, <2>2, <2>4
<1>7. CASE UNCHANGED run /\ Lowers(hold, hold')
  BY <1>4, <1>7
<1>8. ASSUME NEW m \in Slot, RecoverDelivery(m) PROVE Goal
  BY <1>7, <1>8 DEF RecoverDelivery, Lowers
<1>9. ASSUME NEW d \in Dep, LeaseTtlElapses(d) PROVE Goal
  BY <1>7, <1>9 DEF LeaseTtlElapses, Lowers
<1>10. ASSUME NEW n \in Node, NEW h \in MinerHealth, MinerHealthChanges(n, h) PROVE Goal
  BY <1>7, <1>10 DEF MinerHealthChanges, Lowers
<1>11. CASE ReclaimOrphanedReservations
  BY <1>7, <1>11 DEF ReclaimOrphanedReservations, Lowers
<1>12. CASE UNCHANGED vars
  BY <1>7, <1>12 DEF vars, Lowers
<1> QED
  BY <1>2, <1>3, <1>5, <1>6, <1>8, <1>9, <1>10, <1>11, <1>12 DEF Next

\* READY rows that count where their reservations do fit where the ledger does.
LEMMA BackedFits ==
  ASSUME NEW r, NEW h, \A e \in Dep : r[e].state = "READY" => h[e] = r[e].node,
         NEW n \in Node, Reserved(h, n) <= Gpus[n]
  PROVE  Cardinality(SlotsOf({d \in Dep : r[d].state = "READY"}, [d \in Dep |-> r[d].node], n)) <= Gpus[n]
<1> DEFINE R == {d \in Dep : r[d].state = "READY"}
           at == [d \in Dep |-> r[d].node]
           a == Cardinality(SlotsOf(R, at, n))
           b == Cardinality(SlotsOf(Dep, h, n))
<1>1. R \in SUBSET Dep /\ \A d \in R : at[d] = n => d \in Dep /\ h[d] = n
  OBVIOUS
<1>2. a <= b /\ a \in Nat /\ b \in Nat
  <2> HIDE DEF R, at
  <2> QED
    BY <1>1, SlotsWithin
<1>3. b <= Gpus[n] /\ Gpus[n] \in Nat
  BY ControlPlaneAssumption DEF Reserved
<1> HIDE DEF R, at, a, b
<1>4. a <= Gpus[n]
  BY <1>2, <1>3
<1> QED
  BY <1>4 DEF a, R, at

\* Only a save makes a row READY, and then every READY row is backed by its reservation.
LEMMA FitStep ==
  ASSUME Safe, Agreement, Alone, NodeNotOversubscribed, RunningFits, Sound(crashes), [Next]_vars
  PROVE  RunningFits'
<1>r. row \in [Dep -> Row]
  BY DEF Safe, TypeOK
<1>1. ASSUME NEW t \in Thread, CallSave(t) PROVE RunningFits'
  <2> DEFINE d == job(t)
             l == lease[d]
             h == hold[d]
  <2>1. Doing(t, "save") /\ row' = [row EXCEPT ![d] = snap(t)] /\ hold' = hold
    BY <1>1 DEF CallSave
  <2>2. ~Idle(t) /\ d \in Dep /\ Head(run[t].todo).op = "save" /\ OnItsWay(Local(t), run[t].todo, l, h)
    BY <2>1, AtCall DEF Agreement
  <2>3. Local(t).snap = snap(t) /\ Local(t).crashes = crashes
    BY Knows
  <2>4. Saves(Local(t), run[t].todo, l, h)
    BY <2>2, ByHead
  <2>5. Agrees(crashes, snap(t), l, h)
    BY <2>3, <2>4 DEF Saves
  <2>6. \A e \in Dep : e # d => Agrees(crashes, row[e], lease[e], hold[e])
    BY <2>2 DEF Alone, Agreement, SettledAgrees, Quiet
  <2>7. \A e \in Dep : Agrees(crashes, row'[e], lease[e], hold[e])
    BY <1>r, <2>1, <2>2, <2>5, <2>6
  <2>8. \A e \in Dep : row'[e].state = "READY" => hold'[e] = row'[e].node
    BY <2>1, <2>7 DEF Agrees, Live, LiveLease
  <2>9. \A n \in Node : Reserved(hold', n) <= Gpus[n]
    BY <2>1 DEF NodeNotOversubscribed
  <2> QED
    BY <2>8, <2>9, BackedFits DEF RunningFits
<1>2. CASE ~\E t \in Thread : CallSave(t)
  <2>1. \A e \in Dep : row'[e].state = "READY" => row'[e] = row[e]
    BY <1>2, RowsWritten
  <2> DEFINE D == {d \in Dep : row'[d].state = "READY"}
             E == {d \in Dep : row[d].state = "READY"}
             f == [d \in Dep |-> row'[d].node]
             g == [d \in Dep |-> row[d].node]
  <2>2. D \in SUBSET Dep /\ E \in SUBSET Dep
    OBVIOUS
  <2>3. \A d \in D : d \in E /\ g[d] = f[d]
    BY <2>1
  <2>4. \A n \in Node : Cardinality(SlotsOf(E, g, n)) <= Gpus[n] /\ Gpus[n] \in Nat
    BY ControlPlaneAssumption DEF RunningFits
  <2>5. \A n \in Node : Cardinality(SlotsOf(D, f, n)) <= Gpus[n]
    <3> HIDE DEF D, E, f, g
    <3> SUFFICES ASSUME NEW n \in Node PROVE Cardinality(SlotsOf(D, f, n)) <= Gpus[n]
      OBVIOUS
    <3>1. \A d \in D : f[d] = n => d \in E /\ g[d] = n
      BY <2>3
    <3>2. /\ Cardinality(SlotsOf(D, f, n)) <= Cardinality(SlotsOf(E, g, n))
          /\ Cardinality(SlotsOf(D, f, n)) \in Nat /\ Cardinality(SlotsOf(E, g, n)) \in Nat
      BY <2>2, <3>1, SlotsWithin
    <3> QED
      BY <2>4, <3>2
  <2> QED
    BY <2>5 DEF RunningFits
<1> QED
  BY <1>1, <1>2

\* Threads that were killed stay killed.
LEMMA CrashesStay ==
  ASSUME Safe, [Next]_vars, crashes' = 0
  PROVE  crashes = 0
<1>1. crashes \in Nat
  BY DEF Safe, TypeOK
<1>2. ASSUME NEW t \in Thread, Calls(t) PROVE crashes' = crashes
  BY <1>2, CallTouches
<1>3. ASSUME NEW t \in Thread, Crash(t) PROVE crashes' = crashes + 1
  BY <1>3 DEF Crash
<1>4. ASSUME NEW t \in Thread, NEW d \in Dep, Enters(t, d) PROVE crashes' = crashes
  BY <1>4 DEF Enters, CreateDeployment, ReportStatus, ProcessTimeouts, ProcessUnhealthyMiners, SuspendSweep,
       ReapExhaustedPods, StopSweep, RequeueDeployment, ResumeDeployment, FailDeployment, CleanupDeployment,
       UpdateDeployment, RecordHealthFailure, ClearHealthFailures, DeleteWorkload, EnterWith, Enter
<1>5. ASSUME NEW t \in Thread, NEW m \in Slot, ClaimRequest(t, m) PROVE crashes' = crashes
  BY <1>5 DEF ClaimRequest, Enter
<1>6. CASE \/ \E m \in Slot : RecoverDelivery(m)
           \/ \E e \in Dep : LeaseTtlElapses(e)
           \/ \E n \in Node, h \in MinerHealth : MinerHealthChanges(n, h)
           \/ ReclaimOrphanedReservations
           \/ UNCHANGED vars
  BY <1>6 DEF RecoverDelivery, LeaseTtlElapses, MinerHealthChanges, ReclaimOrphanedReservations, vars
<1>7. crashes' = crashes \/ crashes' = crashes + 1
  BY <1>2, <1>3, <1>4, <1>5, <1>6 DEF Next
<1> QED
  BY <1>1, <1>7

\* Nothing runs in the beginning, and no GPU is reserved.
LEMMA InitFits ==
  ASSUME Init
  PROVE  RoomStillThere /\ NodeNotOversubscribed /\ RunningFits
<1>1. RoomStillThere
  BY RestingOK DEF Init, RoomStillThere, Doing, Idle
<1>2. \A n \in Node : Reserved(hold, n) <= Gpus[n]
  <2> SUFFICES ASSUME NEW n \in Node PROVE Reserved(hold, n) <= Gpus[n]
    OBVIOUS
  <2>1. {e \in Dep : hold[e] = n} = {}
    BY ControlPlaneAssumption DEF Init
  <2>2. SlotsOf(Dep, hold, n) = {}
    BY <2>1 DEF SlotsOf
  <2> QED
    BY <2>2, FS_EmptySet, ControlPlaneAssumption DEF Reserved
<1>3. \A e \in Dep : row[e].state = "READY" => hold[e] = row[e].node
  BY DEF Init, NoRow
<1>4. RunningFits
  BY <1>2, <1>3, BackedFits DEF RunningFits
<1> QED
  BY <1>1, <1>2, <1>4 DEF NodeNotOversubscribed

\* What resume_deployment breaks is atomicity and nothing else: as long as one handler runs at a time,
\* the ledger stays within the node with a resume too, whatever dies and whatever reports come late.
THEOREM LedgerHoldsAlone == Spec /\ []Alone => []NodeNotOversubscribed
<1>1. Init => Safe /\ RoomStillThere /\ NodeNotOversubscribed
  BY InitSafe, InitFits
<1>2. Safe /\ [Next]_vars => Safe'
  BY SafeStep
<1>3. Safe /\ Safe' /\ Alone /\ RoomStillThere /\ NodeNotOversubscribed /\ [Next]_vars
        => RoomStillThere' /\ NodeNotOversubscribed'
  BY AloneStep
<1> QED
  BY <1>1, <1>2, <1>3, PTL DEF Spec

\* As long as one handler runs at a time, no thread was killed and no report comes late, the
\* containers that run on a node fit on it: a deployment that is suspended, moved or stopped gives
\* its GPUs back with its READY state, and one that comes back finds room again first.
THEOREM WhatRunsFits ==
  ASSUME ~LateReports
  PROVE  Spec /\ []Alone => [](crashes = 0 => RunningFits)
<1>1. Alone => OneAtATime
  BY DEF Alone, OneAtATime
<1>2. Init => RunningFits
  BY InitFits
<1>3. Safe /\ Agreement /\ Alone /\ NodeNotOversubscribed /\ (crashes = 0 => RunningFits) /\ [Next]_vars
        => (crashes = 0 => RunningFits)'
  BY FitStep, CrashesStay DEF Sound
<1> QED
  BY <1>1, <1>2, <1>3, AlwaysAgrees, LedgerHoldsAlone, PTL DEF Spec
=============================================================================
