--------------------------- MODULE SubjectBusProofs ---------------------------
(***************************************************************************)
(* The bus's safety, for any number of claimers, deliveries and faults.    *)
(* The stale threshold is what the single-claimant argument hangs on:      *)
(* HeldIsFresh says that a delivery somebody handles is never stale, which *)
(* the worker's 15 minutes guarantee as long as handlers are quicker       *)
(* (SlowHandlers = FALSE, the assumption of the theorems that need it).    *)
(***************************************************************************)
EXTENDS MCBus, TLAPS

HeldIsFresh == \A c \in Claimer, m \in Delivery : held[c][m] > 0 => ~stale[m]

\* The handler of the current message ran whenever the phase says so.
RanIsApplied ==
  \A c \in Claimer, m \in Delivery : Current(c, m) /\ phase[c] = "ran" => applied[m] > 0

Inv ==
  /\ TypeOK
  /\ HeldIsProcessing
  /\ SingleClaimant
  /\ HeldIsFresh
  /\ RanIsApplied
  /\ CompletedWasApplied
  /\ EventMirrorsDelivery

-----------------------------------------------------------------------------
\* What the four ways a handler ends have in common.
Marks(c, m, s, b) ==
  /\ Current(c, m)
  /\ UpdateStatus(m, s, b)
  /\ Drop(c, m)
  /\ UNCHANGED <<applied, faults>>

Claims(c, take) ==
  /\ status' = [m \in Delivery |-> IF m \in take THEN "processing" ELSE status[m]]
  /\ attempts' = [m \in Delivery |-> IF m \in take THEN attempts[m] + 1 ELSE attempts[m]]
  /\ stale' = [m \in Delivery |-> IF m \in take THEN FALSE ELSE stale[m]]
  /\ held' = [held EXCEPT ![c] = [m \in Delivery |-> IF m \in take THEN attempts[m] + 1 ELSE 0]]
  /\ phase' = [phase EXCEPT ![c] = "run"]
  /\ UNCHANGED <<evStatus, available, applied, faults>>

\* A handler step is the handler's effect, a completing mark after the effect,
\* or a mark that parks the delivery or gives it back.
LEMMA HandlerCases ==
  ASSUME NEW c \in Claimer, NEW m \in Delivery, HandlerStep(c, m)
  PROVE  \/ HandlerTakesEffect(c, m)
         \/ phase[c] = "ran" /\ Marks(c, m, "completed", FALSE)
         \/ \E s \in {"pending", "failed"}, b \in BOOLEAN : Marks(c, m, s, b)
<1>1. CASE HandlerCompletes(c, m)
  BY <1>1 DEF HandlerCompletes, MarkCompleted, Marks
<1>2. CASE HandlerRefuses(c, m)
  <2>1. Marks(c, m, "failed", FALSE)
    BY <1>2 DEF HandlerRefuses, MarkFailed, Marks
  <2> QED
    BY <2>1
<1>3. CASE HandlerDefers(c, m)
  <2>1. Marks(c, m, "pending", TRUE) \/ Marks(c, m, "failed", FALSE)
    BY <1>3 DEF HandlerDefers, MarkFailed, Marks
  <2> QED
    BY <2>1
<1>4. CASE HandlerRaises(c, m)
  <2>1. Marks(c, m, "pending", TRUE) \/ Marks(c, m, "failed", TRUE)
    BY <1>4 DEF HandlerRaises, MarkFailed, Marks
  <2> QED
    BY <2>1
<1> QED
  BY <1>1, <1>2, <1>3, <1>4 DEF HandlerStep

\* A claim takes due deliveries, and only a thread with an empty batch claims.
LEMMA ClaimCase ==
  ASSUME NEW c \in Claimer, ClaimPending(c)
  PROVE  /\ Batch(c) = {}
         /\ \E take \in SUBSET Delivery :
              Claims(c, take) /\ \A m \in take : status[m] = "pending"
<1> DEFINE take == Oldest(Due)
<1>1. Claims(c, take)
  BY DEF ClaimPending, Claims
<1>2. take \subseteq Delivery /\ \A m \in take : status[m] = "pending"
  BY DEF Oldest, Due
<1>3. Batch(c) = {}
  BY DEF ClaimPending
<1> QED
  BY <1>1, <1>2, <1>3

\* Every action of the bus keeps every variable's type ...
LEMMA TypeStep ==
  ASSUME TypeOK, [Next]_vars
  PROVE  TypeOK'
<1> USE DEF TypeOK, rows, Status, Terminal, NoMessages
<1>1. ASSUME NEW m \in Delivery, Publish(m) PROVE TypeOK'
  BY <1>1 DEF Publish
<1>2. ASSUME NEW m \in Delivery, BackoffElapses(m) PROVE TypeOK'
  BY <1>2 DEF BackoffElapses
<1>3. ASSUME NEW m \in Delivery, GrowsStale(m) PROVE TypeOK'
  BY <1>3 DEF GrowsStale
<1>4. ASSUME NEW c \in Claimer, ClaimPending(c) PROVE TypeOK'
  <2>1. PICK take \in SUBSET Delivery : Claims(c, take)
    BY <1>4, ClaimCase
  <2>2. [m \in Delivery |-> IF m \in take THEN attempts[m] + 1 ELSE 0] \in [Delivery -> Nat]
    OBVIOUS
  <2> QED
    BY <2>1, <2>2 DEF Claims
<1>5. ASSUME NEW c \in Claimer, NEW m \in Delivery, HandlerStep(c, m) PROVE TypeOK'
  <2>1. CASE HandlerTakesEffect(c, m)
    BY <2>1 DEF HandlerTakesEffect
  <2>2. ASSUME NEW s \in {"completed", "pending", "failed"}, NEW b \in BOOLEAN, Marks(c, m, s, b)
        PROVE  TypeOK'
    BY <2>2 DEF Marks, UpdateStatus, Drop
  <2> QED
    BY <1>5, <2>1, <2>2, HandlerCases
<1>6. ASSUME NEW c \in Claimer, NEW m \in Delivery, MarkRaises(c, m) PROVE TypeOK'
  BY <1>6 DEF MarkRaises, Drop
<1>7. CASE RequeueStaleProcessing
  BY <1>7 DEF RequeueStaleProcessing
<1>8. CASE Crash
  BY <1>8 DEF Crash
<1>9. CASE UNCHANGED vars
  BY <1>9 DEF vars
<1> QED
  BY <1>1, <1>2, <1>3, <1>4, <1>5, <1>6, <1>7, <1>8, <1>9 DEF Next

\* ... so every variable has its type in every state.
THEOREM TypeCorrect == Spec => []TypeOK
<1>1. Init => TypeOK
  BY DEF Init, TypeOK, Status, NoMessages
<1>2. TypeOK /\ [Next]_vars => TypeOK'
  BY TypeStep
<1> QED
  BY <1>1, <1>2, PTL DEF Spec

-----------------------------------------------------------------------------
\* The inductive step, one case per action.  TypeOK' comes from TypeCorrect.
LEMMA InvStep ==
  ASSUME ~SlowHandlers, Inv, TypeOK', [Next]_vars
  PROVE  Inv'
<1> USE DEF Inv, TypeOK
<1>1. ASSUME NEW m \in Delivery, Publish(m) PROVE Inv'
  BY <1>1 DEF Publish, HeldIsProcessing, SingleClaimant, HeldIsFresh, RanIsApplied, Current, Batch,
              CompletedWasApplied, EventMirrorsDelivery
<1>2. ASSUME NEW m \in Delivery, BackoffElapses(m) PROVE Inv'
  BY <1>2 DEF BackoffElapses, HeldIsProcessing, SingleClaimant, HeldIsFresh, RanIsApplied, Current,
              Batch, CompletedWasApplied, EventMirrorsDelivery
<1>3. ASSUME NEW m \in Delivery, GrowsStale(m) PROVE Inv'
  BY <1>3 DEF GrowsStale, HeldIsProcessing, SingleClaimant, HeldIsFresh, RanIsApplied, Current,
              Batch, CompletedWasApplied, EventMirrorsDelivery
<1>4. ASSUME NEW c \in Claimer, ClaimPending(c) PROVE Inv'
  <2>1. PICK take \in SUBSET Delivery : Claims(c, take) /\ \A m \in take : status[m] = "pending"
    BY <1>4, ClaimCase
  <2>2. \A k \in Claimer, m \in Delivery : m \in take => held[k][m] = 0
    BY <2>1 DEF HeldIsProcessing
  <2>3. \A m \in Delivery : held'[c][m] = IF m \in take THEN attempts[m] + 1 ELSE 0
    BY <2>1 DEF Claims
  <2>4. \A k \in Claimer : k # c => held'[k] = held[k] /\ phase'[k] = phase[k]
    BY <2>1 DEF Claims
  <2>5. HeldIsProcessing'
    BY <2>1, <2>2, <2>3, <2>4 DEF HeldIsProcessing, Claims
  <2>6. SingleClaimant'
    BY <2>2, <2>3, <2>4 DEF SingleClaimant
  <2>7. HeldIsFresh'
    BY <2>1, <2>3, <2>4 DEF HeldIsFresh, Claims
  <2>8. RanIsApplied'
    <3>1. phase'[c] = "run" /\ applied' = applied
      BY <2>1 DEF Claims
    <3> QED
      BY <3>1, <2>4 DEF RanIsApplied, Current, Batch
  <2>9. CompletedWasApplied' /\ EventMirrorsDelivery'
    BY <2>1 DEF Claims, CompletedWasApplied, EventMirrorsDelivery
  <2> QED
    BY <2>5, <2>6, <2>7, <2>8, <2>9
<1>5. ASSUME NEW c \in Claimer, NEW m \in Delivery, HandlerStep(c, m) PROVE Inv'
  <2>1. CASE HandlerTakesEffect(c, m)
    <3>1. UNCHANGED <<status, evStatus, attempts, stale, held>>
      BY <2>1 DEF HandlerTakesEffect, rows
    <3>2. applied'[m] > 0 /\ \A n \in Delivery : applied[n] > 0 => applied'[n] > 0
      BY <2>1 DEF HandlerTakesEffect
    <3>3. \A n \in Delivery : Current(c, n) => n = m
      <4> SUFFICES ASSUME NEW n \in Delivery, Current(c, n) PROVE n = m
        OBVIOUS
      <4>1. m \in Batch(c) /\ n \in Batch(c)
        BY <2>1 DEF HandlerTakesEffect, Current
      <4>2. m <= n /\ n <= m
        BY <2>1, <4>1 DEF HandlerTakesEffect, Current
      <4>3. m \in Nat /\ n \in Nat
        BY BusAssumption DEF Delivery
      <4> QED
        BY <4>2, <4>3
    <3>4. \A k \in Claimer, n \in Delivery : Current(k, n)' <=> Current(k, n)
      BY <3>1 DEF Current, Batch
    <3>5. \A k \in Claimer : k # c => phase'[k] = phase[k]
      BY <2>1 DEF HandlerTakesEffect
    <3>6. RanIsApplied'
      BY <3>2, <3>3, <3>4, <3>5 DEF RanIsApplied
    <3>7. HeldIsProcessing' /\ SingleClaimant' /\ HeldIsFresh' /\ EventMirrorsDelivery'
      BY <3>1 DEF HeldIsProcessing, SingleClaimant, HeldIsFresh, EventMirrorsDelivery
    <3>8. CompletedWasApplied'
      BY <3>1, <3>2 DEF CompletedWasApplied
    <3> QED
      BY <3>6, <3>7, <3>8
  <2>2. ASSUME NEW s \in {"completed", "pending", "failed"}, NEW b \in BOOLEAN, Marks(c, m, s, b),
               s = "completed" => phase[c] = "ran"
        PROVE  Inv'
    <3>1. held[c][m] > 0
      BY <2>2 DEF Marks, Current, Batch
    <3>2. \A k \in Claimer, n \in Delivery :
            held'[k][n] = IF k = c /\ n = m THEN 0 ELSE held[k][n]
      BY <2>2 DEF Marks, Drop
    <3>3. \A n \in Delivery : n # m => status'[n] = status[n] /\ stale'[n] = stale[n] /\ evStatus'[n] = evStatus[n]
      BY <2>2 DEF Marks, UpdateStatus
    <3>4. status'[m] = s /\ evStatus'[m] = s /\ attempts' = attempts /\ applied' = applied
      BY <2>2 DEF Marks, UpdateStatus
    <3>5. \A k \in Claimer : held'[k][m] = 0
      BY <3>1, <3>2 DEF SingleClaimant
    <3>6. \A k \in Claimer, n \in Delivery : held'[k][n] > 0 => n # m /\ held'[k][n] = held[k][n]
      BY <3>2, <3>5
    <3>7. HeldIsProcessing' /\ SingleClaimant'
      BY <3>3, <3>4, <3>6 DEF HeldIsProcessing, SingleClaimant
    <3>8. HeldIsFresh'
      BY <3>3, <3>6 DEF HeldIsFresh
    <3>9. RanIsApplied'
      <4>1. phase'[c] = "run" /\ \A k \in Claimer : k # c => phase'[k] = phase[k] /\ held'[k] = held[k]
        BY <2>2 DEF Marks, Drop
      <4> QED
        BY <4>1, <3>4 DEF RanIsApplied, Current, Batch
    <3>10. CompletedWasApplied'
      BY <2>2, <3>3, <3>4 DEF CompletedWasApplied, RanIsApplied, Marks
    <3>11. EventMirrorsDelivery'
      BY <2>2, <3>3, <3>4 DEF EventMirrorsDelivery
    <3> QED
      BY <3>7, <3>9, <3>10, <3>11, <3>8
  <2> QED
    BY <1>5, <2>1, <2>2, HandlerCases
<1>6. ASSUME NEW c \in Claimer, NEW m \in Delivery, MarkRaises(c, m) PROVE Inv'
  <2>1. \A k \in Claimer, n \in Delivery :
          held'[k][n] = IF k = c /\ n = m THEN 0 ELSE held[k][n]
    BY <1>6 DEF MarkRaises, Drop
  <2>2. phase'[c] = "run" /\ \A k \in Claimer : k # c => phase'[k] = phase[k] /\ held'[k] = held[k]
    BY <1>6 DEF MarkRaises, Drop
  <2>3. UNCHANGED <<status, evStatus, attempts, stale, applied>>
    BY <1>6 DEF MarkRaises, rows
  <2>4. RanIsApplied'
    BY <2>2, <2>3 DEF RanIsApplied, Current, Batch
  <2>5. \A k \in Claimer, n \in Delivery : held'[k][n] > 0 => held'[k][n] = held[k][n]
    BY <2>1
  <2>6. HeldIsProcessing' /\ SingleClaimant'
    BY <2>3, <2>5 DEF HeldIsProcessing, SingleClaimant
  <2>7. HeldIsFresh'
    BY <2>3, <2>5 DEF HeldIsFresh
  <2> QED
    BY <2>3, <2>4, <2>6, <2>7 DEF CompletedWasApplied, EventMirrorsDelivery
<1>7. CASE RequeueStaleProcessing
  <2>1. UNCHANGED <<attempts, held, phase, applied>>
    BY <1>7 DEF RequeueStaleProcessing
  <2>2. \A n \in Delivery : stale'[n] => stale[n]
    BY <1>7 DEF RequeueStaleProcessing
  <2>3. \A n \in Delivery : ~stale[n] => status'[n] = status[n]
    BY <1>7 DEF RequeueStaleProcessing
  <2>4. \A n \in Delivery : \/ status'[n] = "pending" /\ evStatus'[n] = "pending"
                            \/ status'[n] = status[n] /\ evStatus'[n] = evStatus[n]
    BY <1>7 DEF RequeueStaleProcessing
  <2>5. HeldIsProcessing' /\ HeldIsFresh'
    BY <2>1, <2>2, <2>3 DEF HeldIsProcessing, HeldIsFresh
  <2>6. SingleClaimant' /\ RanIsApplied'
    BY <2>1 DEF SingleClaimant, RanIsApplied, Current, Batch
  <2>7. CompletedWasApplied' /\ EventMirrorsDelivery'
    BY <2>1, <2>4 DEF CompletedWasApplied, EventMirrorsDelivery
  <2> QED
    BY <2>5, <2>6, <2>7
<1>8. CASE Crash
  <2>1. \A k \in Claimer, n \in Delivery : held'[k][n] = 0
    BY <1>8 DEF Crash, NoMessages
  <2>2. UNCHANGED <<status, evStatus, attempts, stale, applied>>
    BY <1>8 DEF Crash, rows
  <2> QED
    BY <2>1, <2>2 DEF HeldIsProcessing, SingleClaimant, HeldIsFresh, RanIsApplied, Current, Batch,
                      CompletedWasApplied, EventMirrorsDelivery
<1>9. CASE UNCHANGED vars
  BY <1>9 DEF vars, HeldIsProcessing, SingleClaimant, HeldIsFresh, RanIsApplied, Current, Batch,
              CompletedWasApplied, EventMirrorsDelivery
<1> QED
  BY <1>1, <1>2, <1>3, <1>4, <1>5, <1>6, <1>7, <1>8, <1>9 DEF Next

\* The inductive invariant holds of the bus as long as no handler outlives the
\* worker's stale threshold.
THEOREM InvHolds ==
  ASSUME ~SlowHandlers
  PROVE  Spec => []Inv
<1>1. Init => Inv
  BY DEF Init, Inv, TypeOK, Status, NoMessages, HeldIsProcessing, SingleClaimant, HeldIsFresh,
         RanIsApplied, Current, Batch, CompletedWasApplied, EventMirrorsDelivery
<1>2. Inv /\ TypeOK' /\ [Next]_vars => Inv'
  BY InvStep
<1> QED
  BY <1>1, <1>2, TypeCorrect, PTL DEF Spec

\* No two threads ever handle one delivery at a time, however many claim at
\* once, die, fail to mark or requeue stale rows.
THEOREM SingleClaimantHolds ==
  ASSUME ~SlowHandlers
  PROVE  Spec => []SingleClaimant
<1>1. Inv => SingleClaimant
  BY DEF Inv
<1> QED
  BY <1>1, InvHolds, PTL

\* A completed delivery's handler took effect at least once.
THEOREM CompletedWasAppliedHolds ==
  ASSUME ~SlowHandlers
  PROVE  Spec => []CompletedWasApplied
<1>1. Inv => CompletedWasApplied
  BY DEF Inv
<1> QED
  BY <1>1, InvHolds, PTL

-----------------------------------------------------------------------------
\* Only a delivery somebody holds is marked, so settled rows stay settled.
LEMMA SettledStep ==
  ASSUME Inv, [Next]_vars, NEW n \in Delivery, status[n] \in Terminal
  PROVE  status'[n] = status[n]
<1> USE DEF Inv, TypeOK, Terminal
<1>1. ASSUME NEW m \in Delivery, Publish(m) \/ BackoffElapses(m) \/ GrowsStale(m)
      PROVE  status'[n] = status[n]
  BY <1>1 DEF Publish, BackoffElapses, GrowsStale
<1>2. ASSUME NEW c \in Claimer, ClaimPending(c) PROVE status'[n] = status[n]
  <2>1. PICK take \in SUBSET Delivery : Claims(c, take) /\ \A m \in take : status[m] = "pending"
    BY <1>2, ClaimCase
  <2> QED
    BY <2>1 DEF Claims
<1>3. ASSUME NEW c \in Claimer, NEW m \in Delivery, HandlerStep(c, m) PROVE status'[n] = status[n]
  <2>1. CASE HandlerTakesEffect(c, m)
    BY <2>1 DEF HandlerTakesEffect, rows
  <2>2. ASSUME NEW s \in Status, NEW b \in BOOLEAN, Marks(c, m, s, b) PROVE status'[n] = status[n]
    <3>1. status[m] = "processing"
      BY <2>2 DEF Marks, Current, Batch, HeldIsProcessing
    <3> QED
      BY <2>2, <3>1 DEF Marks, UpdateStatus
  <2> QED
    BY <1>3, <2>1, <2>2, HandlerCases DEF Status
<1>4. ASSUME NEW c \in Claimer, NEW m \in Delivery, MarkRaises(c, m) PROVE status'[n] = status[n]
  BY <1>4 DEF MarkRaises, rows
<1>5. CASE RequeueStaleProcessing
  BY <1>5 DEF RequeueStaleProcessing
<1>6. CASE Crash
  BY <1>6 DEF Crash, rows
<1>7. CASE UNCHANGED vars
  BY <1>7 DEF vars
<1> QED
  BY <1>1, <1>2, <1>3, <1>4, <1>5, <1>6, <1>7 DEF Next

\* A delivery that was completed or parked is never taken up again.
THEOREM SettledIsFinalHolds ==
  ASSUME ~SlowHandlers
  PROVE  Spec => SettledIsFinal
<1>1. Inv /\ [Next]_vars =>
        [\A m \in Delivery : status[m] \in Terminal => status'[m] = status[m]]_vars
  BY SettledStep
<1> QED
  BY <1>1, InvHolds, PTL DEF Spec, SettledIsFinal

\* Every step of the bus is a step of the abstract queue, or leaves it alone.
LEMMA QueueStep ==
  ASSUME Inv, [Next]_vars
  PROVE  [Queue!QNext]_(Queue!qvars)
<1> USE DEF Inv, TypeOK
<1>1. ASSUME NEW m \in Delivery, Publish(m) PROVE Queue!QPublish(m)
  BY <1>1 DEF Publish, Queue!QPublish, OwedAs
<1>2. ASSUME NEW m \in Delivery, BackoffElapses(m) \/ GrowsStale(m) PROVE UNCHANGED Queue!qvars
  BY <1>2 DEF BackoffElapses, GrowsStale, Queue!qvars
<1>3. ASSUME NEW c \in Claimer, ClaimPending(c) PROVE UNCHANGED Queue!qvars
  <2>1. PICK take \in SUBSET Delivery : Claims(c, take) /\ \A m \in take : status[m] = "pending"
    BY <1>3, ClaimCase
  <2>2. applied' = applied /\ \A m \in Delivery : OwedAs(status'[m]) = OwedAs(status[m])
    BY <2>1 DEF Claims, OwedAs
  <2> QED
    BY <2>2 DEF Queue!qvars
<1>4. ASSUME NEW c \in Claimer, NEW m \in Delivery, HandlerStep(c, m) PROVE [Queue!QNext]_(Queue!qvars)
  <2>1. ASSUME Current(c, m) PROVE OwedAs(status[m]) = "owed"
    BY <2>1 DEF Current, Batch, HeldIsProcessing, OwedAs
  <2>2. CASE HandlerTakesEffect(c, m)
    <3>1. Queue!QRun(m)
      BY <2>1, <2>2 DEF HandlerTakesEffect, rows, Queue!QRun
    <3> QED
      BY <3>1 DEF Queue!QNext
  <2>3. CASE phase[c] = "ran" /\ Marks(c, m, "completed", FALSE)
    <3>1. applied[m] > 0
      BY <2>3 DEF RanIsApplied, Marks
    <3>2. Queue!QFinish(m)
      BY <2>1, <2>3, <3>1 DEF Marks, UpdateStatus, Queue!QFinish, OwedAs
    <3> QED
      BY <3>2 DEF Queue!QNext
  <2>4. ASSUME NEW b \in BOOLEAN, Marks(c, m, "failed", b) PROVE Queue!QNext
    <3>1. Queue!QPark(m)
      BY <2>1, <2>4 DEF Marks, UpdateStatus, Queue!QPark, OwedAs
    <3> QED
      BY <3>1 DEF Queue!QNext
  <2>5. ASSUME NEW b \in BOOLEAN, Marks(c, m, "pending", b) PROVE UNCHANGED Queue!qvars
    <3>1. applied' = applied /\ \A n \in Delivery : OwedAs(status'[n]) = OwedAs(status[n])
      BY <2>1, <2>5 DEF Marks, UpdateStatus, OwedAs
    <3> QED
      BY <3>1 DEF Queue!qvars
  <2> QED
    BY <1>4, <2>2, <2>3, <2>4, <2>5, HandlerCases
<1>5. ASSUME NEW c \in Claimer, NEW m \in Delivery, MarkRaises(c, m) PROVE UNCHANGED Queue!qvars
  BY <1>5 DEF MarkRaises, rows, Queue!qvars
<1>6. CASE RequeueStaleProcessing
  <2>1. applied' = applied /\ \A m \in Delivery : OwedAs(status'[m]) = OwedAs(status[m])
    BY <1>6 DEF RequeueStaleProcessing, OwedAs
  <2> QED
    BY <2>1 DEF Queue!qvars
<1>7. CASE Crash
  BY <1>7 DEF Crash, rows, Queue!qvars
<1>8. CASE UNCHANGED vars
  BY <1>8 DEF vars, Queue!qvars
<1> QED
  BY <1>1, <1>2, <1>3, <1>4, <1>5, <1>6, <1>7, <1>8 DEF Next, Queue!QNext

\* The bus implements the at-least-once queue: its publishers may reason about
\* WorkQueue instead.
THEOREM BusImplementsQueue ==
  ASSUME ~SlowHandlers
  PROVE  Spec => ImplementsQueue
<1>1. Init => Queue!QInit
  BY DEF Init, Queue!QInit, OwedAs
<1>2. Inv /\ [Next]_vars => [Queue!QNext]_(Queue!qvars)
  BY QueueStep
<1> QED
  BY <1>1, <1>2, InvHolds, PTL DEF Spec, ImplementsQueue, Queue!QSpec

(***************************************************************************)
(* The bus with a JetStream in front of it, and the choice between the two *)
(* made at start.  The claim of a row takes no lock there, so what holds   *)
(* is proved for the one thread that claims (MCBus' NatsStep).             *)
(***************************************************************************)

\* The row the thread has read and not yet updated is one, and still due.
ReadIsDue ==
  /\ \A m \in Delivery : read[m] > 0 => loop = Worker /\ m \in fetched /\ m \in Due /\ read[m] = attempts[m] + 1
  /\ \A m, k \in Delivery : read[m] > 0 /\ read[k] > 0 => m = k

\* Only the worker claims, and it does nothing else meanwhile.
NatsInv ==
  /\ \A c \in Claimer \ {Worker} : loop # c /\ ~asked[c] /\ held[c] = NoMessages
  /\ ReadIsDue
  /\ loop = Worker => ~asked[Worker] /\ phase[Worker] = "run"
  /\ Batch(Worker) = {} => phase[Worker] = "run"

BackendInv == Inv /\ NTypeOK /\ backend \in {"durable", "nats"} /\ (backend = "nats" => NatsInv)

\* But for the claim of a row the stream named, the bus does what it does without the stream.
LEMMA NatsStepCases ==
  ASSUME NatsInv, NNext
  PROVE  [Next]_vars \/ \E m \in Delivery : ClaimRow(Worker, m)
<1>1. ASSUME NEW m \in Delivery, NPublish(m) \/ PublishToNats(m) \/ AckWaitElapses(m) \/ NTime(m) PROVE [Next]_vars
  BY <1>1 DEF NPublish, PublishToNats, AckWaitElapses, NTime, Next
<1>2. ASSUME NEW c \in Claimer, ClaimStep(c) \/ NatsUnreachable(c)
      PROVE  [Next]_vars \/ \E m \in Delivery : ClaimRow(Worker, m)
  <2>1. CASE FetchFromNats(c) \/ FetchDone(c) \/ NatsUnreachable(c)
    BY <2>1 DEF FetchFromNats, FetchDone, NatsUnreachable
  <2>2. CASE FallBack(c)
    BY <2>2 DEF FallBack, Next
  <2>3. ASSUME NEW m \in Delivery, SelectRow(c, m) PROVE [Next]_vars
    BY <2>3 DEF SelectRow
  <2>4. ASSUME NEW m \in Delivery, ClaimRow(c, m) PROVE ClaimRow(Worker, m)
    <3>1. c = Worker
      BY <2>4 DEF ClaimRow, NatsInv
    <3> QED
      BY <2>4, <3>1
  <2> QED
    BY <1>2, <2>1, <2>2, <2>3, <2>4 DEF ClaimStep
<1>3. ASSUME NEW c \in Claimer, NEW m \in Delivery, NHandlerStep(c, m) \/ NMarkRaises(c, m) PROVE [Next]_vars
  <2>1. HandlerStep(c, m) \/ MarkRaises(c, m)
    BY <1>3 DEF NHandlerStep, NMarkRaises, HandlerStep
  <2> QED
    BY <2>1 DEF Next
<1>4. CASE NRequeueStale \/ NCrash
  BY <1>4 DEF NRequeueStale, NCrash, Next
<1> QED
  BY <1>1, <1>2, <1>3, <1>4 DEF NNext

\* What the claim of a row does to the rows.
LEMMA ClaimRowIs ==
  ASSUME Inv, NTypeOK, NatsInv, NEW n \in Delivery, ClaimRow(Worker, n)
  PROVE  /\ status[n] = "pending" /\ read[n] = attempts[n] + 1 /\ read[n] \in Nat /\ Worker \in Claimer
         /\ status' = [status EXCEPT ![n] = "processing"]
         /\ attempts' = [attempts EXCEPT ![n] = read[n]]
         /\ stale' = [stale EXCEPT ![n] = FALSE]
         /\ held' = [held EXCEPT ![Worker][n] = read[n]]
         /\ phase[Worker] = "run"
         /\ UNCHANGED <<evStatus, available, phase, applied, faults>>
BY BusAssumption DEF ClaimRow, NatsInv, ReadIsDue, Due, NTypeOK

\* The row claimed was due, and nobody holds it.
LEMMA ClaimRowKeeps ==
  ASSUME Inv, NTypeOK, NatsInv, NEW n \in Delivery, ClaimRow(Worker, n)
  PROVE  Inv'
<1> USE DEF Inv
<1>1. /\ status[n] = "pending" /\ read[n] = attempts[n] + 1 /\ read[n] \in Nat /\ Worker \in Claimer
      /\ status' = [status EXCEPT ![n] = "processing"]
      /\ attempts' = [attempts EXCEPT ![n] = read[n]]
      /\ stale' = [stale EXCEPT ![n] = FALSE]
      /\ held' = [held EXCEPT ![Worker][n] = read[n]]
      /\ phase[Worker] = "run"
      /\ UNCHANGED <<evStatus, available, phase, applied, faults>>
  BY ClaimRowIs
<1>2. TypeOK'
  BY <1>1 DEF TypeOK, Status
<1>3. \A c \in Claimer, m \in Delivery : held'[c][m] = IF c = Worker /\ m = n THEN read[n] ELSE held[c][m]
  BY <1>1 DEF TypeOK
<1>4. \A m \in Delivery : /\ status'[m] = (IF m = n THEN "processing" ELSE status[m])
                          /\ attempts'[m] = (IF m = n THEN read[n] ELSE attempts[m])
                          /\ stale'[m] = (IF m = n THEN FALSE ELSE stale[m])
  BY <1>1 DEF TypeOK
<1>5. \A c \in Claimer : held[c][n] = 0
  <2>1. \A c \in Claimer : held[c][n] \in Nat
    BY DEF TypeOK
  <2>2. status[n] = "pending"
    BY <1>1
  <2>3. \A c \in Claimer : ~(held[c][n] > 0)
    BY <2>2 DEF HeldIsProcessing
  <2> QED
    BY <2>1, <2>3
<1>6. HeldIsProcessing' /\ HeldIsFresh'
  <2> SUFFICES ASSUME NEW c \in Claimer, NEW m \in Delivery, held'[c][m] > 0
               PROVE  status'[m] = "processing" /\ held'[c][m] = attempts'[m] /\ ~stale'[m]
    BY DEF HeldIsProcessing, HeldIsFresh
  <2>1. CASE m = n
    <3>1. c = Worker
      <4>1. c # Worker => held'[c][m] = 0
        BY <1>3, <1>5, <2>1
      <4> QED
        BY <4>1
    <3>2. held'[c][m] = read[n]
      BY <1>3, <2>1, <3>1
    <3> QED
      BY <1>4, <2>1, <3>2
  <2>2. CASE m # n
    <3>1. held'[c][m] = held[c][m] /\ status'[m] = status[m] /\ attempts'[m] = attempts[m] /\ stale'[m] = stale[m]
      BY <1>3, <1>4, <2>2
    <3> QED
      BY <3>1 DEF HeldIsProcessing, HeldIsFresh
  <2> QED
    BY <2>1, <2>2
<1>7. SingleClaimant'
  BY <1>3, <1>5 DEF SingleClaimant
<1>8. RanIsApplied'
  <2>1. \A c \in Claimer : c # Worker => held'[c] = held[c]
    BY <1>1 DEF TypeOK
  <2> QED
    BY <1>1, <2>1 DEF RanIsApplied, Current, Batch
<1>9. CompletedWasApplied' /\ EventMirrorsDelivery'
  BY <1>1, <1>4 DEF CompletedWasApplied, EventMirrorsDelivery
<1> QED
  BY <1>2, <1>6, <1>7, <1>8, <1>9

\* The stream, the loop's thread and its registry keep their types.
LEMMA NTypeStep ==
  ASSUME NTypeOK, TypeOK', NNext
  PROVE  NTypeOK'
<1> USE DEF NTypeOK, Wire
<1>1. ASSUME NEW m \in Delivery, NPublish(m) \/ PublishToNats(m) \/ AckWaitElapses(m) \/ NTime(m) PROVE NTypeOK'
  BY <1>1 DEF NPublish, PublishToNats, AckWaitElapses, NTime, nats
<1>2. ASSUME NEW c \in Claimer, ClaimStep(c) \/ NatsUnreachable(c) PROVE NTypeOK'
  <2>1. CASE FetchFromNats(c)
    <3> DEFINE got == Oldest({m \in Delivery : wire[m] = "stored"})
    <3>1. got \subseteq Delivery
      BY DEF Oldest
    <3>2. wire' = [m \in Delivery |-> IF m \in got THEN "inflight" ELSE wire[m]] /\ fetched' = got
      BY <2>1 DEF FetchFromNats
    <3>3. loop' = c /\ UNCHANGED <<read, asked, registered>>
      BY <2>1 DEF FetchFromNats
    <3> HIDE DEF got
    <3> QED
      BY <3>1, <3>2, <3>3
  <2>2. CASE FetchDone(c)
    BY <2>2 DEF FetchDone
  <2>3. CASE NatsUnreachable(c)
    BY <2>3 DEF NatsUnreachable
  <2>4. CASE FallBack(c)
    <3>1. asked' = [asked EXCEPT ![c] = FALSE] /\ UNCHANGED <<wire, loop, fetched, read, registered>>
      BY <2>4 DEF FallBack
    <3> QED
      BY <3>1
  <2>5. ASSUME NEW m \in Delivery, SelectRow(c, m) PROVE NTypeOK'
    <3>1. attempts[m] + 1 \in Nat
      BY DEF TypeOK
    <3>2. read' \in [Delivery -> Nat] /\ loop' \in Claimer \cup {Free, Blocked}
      BY <2>5, <3>1 DEF SelectRow
    <3>3. UNCHANGED <<wire, fetched, asked, registered>>
      BY <2>5 DEF SelectRow
    <3> QED
      BY <3>2, <3>3
  <2>6. ASSUME NEW m \in Delivery, ClaimRow(c, m) PROVE NTypeOK'
    BY <2>6 DEF ClaimRow
  <2> QED
    BY <1>2, <2>1, <2>2, <2>3, <2>4, <2>5, <2>6 DEF ClaimStep
<1>3. ASSUME NEW c \in Claimer, NEW m \in Delivery, NHandlerStep(c, m) \/ NMarkRaises(c, m) PROVE NTypeOK'
  <2>1. CASE UNCHANGED nats
    BY <2>1 DEF nats
  <2>2. CASE Settle(m)
    BY <2>2 DEF Settle
  <2>3. CASE NMarkRaises(c, m)
    BY <2>3 DEF NMarkRaises
  <2> QED
    BY <1>3, <2>1, <2>2, <2>3 DEF NHandlerStep
<1>4. CASE NRequeueStale
  BY <1>4 DEF NRequeueStale, nats
<1>5. CASE NCrash
  <2>1. /\ loop' = Free /\ fetched' = {} /\ read' = [m \in Delivery |-> 0]
        /\ asked' = [c \in Claimer |-> FALSE] /\ registered' = {} /\ UNCHANGED wire
    BY <1>5 DEF NCrash
  <2> QED
    BY <2>1
<1> QED
  BY <1>1, <1>2, <1>3, <1>4, <1>5 DEF NNext

\* One thread claims: the others hold no batch.
OneClaims == \A c \in Claimer \ {Worker} : loop' # c /\ ~asked'[c] /\ held'[c] = held[c]

\* A thread that is not the claiming one has nothing to handle.
LEMMA OnlyWorkerHolds ==
  ASSUME NatsInv, NEW c \in Claimer, NEW m \in Delivery, Current(c, m)
  PROVE  c = Worker
BY DEF NatsInv, Current, Batch, NoMessages

\* With an empty batch the phase is "run", and a handler's end empties or goes on.
LEMMA PhaseKeeps ==
  ASSUME Inv, NatsInv, [Next]_vars, Inv'
  PROVE  Batch(Worker)' = {} => phase'[Worker] = "run"
<1> USE BusAssumption DEF Inv, TypeOK, NatsInv
<1>1. ASSUME NEW m \in Delivery, Publish(m) \/ BackoffElapses(m) \/ GrowsStale(m)
      PROVE  Batch(Worker)' = {} => phase'[Worker] = "run"
  BY <1>1 DEF Publish, BackoffElapses, GrowsStale, Batch
<1>2. ASSUME NEW c \in Claimer, ClaimPending(c) PROVE Batch(Worker)' = {} => phase'[Worker] = "run"
  <2>1. phase' = [phase EXCEPT ![c] = "run"] /\ \A k \in Claimer : k # c => held'[k] = held[k]
    BY <1>2 DEF ClaimPending
  <2> QED
    BY <2>1 DEF Batch
<1>3. ASSUME NEW c \in Claimer, NEW m \in Delivery, HandlerStep(c, m) \/ MarkRaises(c, m)
      PROVE  Batch(Worker)' = {} => phase'[Worker] = "run"
  <2>1. CASE HandlerTakesEffect(c, m)
    <3>1. c = Worker
      BY <2>1, OnlyWorkerHolds DEF HandlerTakesEffect
    <3>2. m \in Batch(Worker) /\ UNCHANGED held
      BY <2>1, <3>1 DEF HandlerTakesEffect, Current
    <3> QED
      BY <3>2 DEF Batch
  <2>2. CASE Drop(c, m)
    <3>1. phase' = [phase EXCEPT ![c] = "run"] /\ \A k \in Claimer : k # c => held'[k] = held[k]
      BY <2>2 DEF Drop
    <3> QED
      BY <3>1 DEF Batch
  <2>3. HandlerTakesEffect(c, m) \/ Drop(c, m)
    BY <1>3, HandlerCases DEF Marks, MarkRaises
  <2> QED
    BY <2>1, <2>2, <2>3
<1>4. CASE RequeueStaleProcessing
  BY <1>4 DEF RequeueStaleProcessing, Batch
<1>5. CASE Crash
  BY <1>5 DEF Crash
<1>6. CASE UNCHANGED vars
  BY <1>6 DEF vars, Batch
<1> QED
  BY <1>1, <1>2, <1>3, <1>4, <1>5, <1>6 DEF Next

\* While the thread is not in a claim, no row is read and not yet updated.
LEMMA NotInClaim ==
  ASSUME NatsInv, loop # Worker, UNCHANGED <<loop, read>>
  PROVE  ReadIsDue' /\ loop' # Worker
BY DEF NatsInv, ReadIsDue

\* A step that leaves the claim and the rows it may have read alone.
LEMMA ClaimUndisturbed ==
  ASSUME NatsInv, UNCHANGED <<loop, fetched, read, asked, attempts, phase>>,
         \A m \in Delivery : m \in Due => m \in Due'
  PROVE  ReadIsDue' /\ (loop' = Worker => ~asked'[Worker] /\ phase'[Worker] = "run")
BY DEF NatsInv, ReadIsDue

\* Every step with the stream keeps what the claim relies on.
LEMMA ReadIsDueKept ==
  ASSUME Inv, NTypeOK, NatsInv, NNext, OneClaims
  PROVE  ReadIsDue' /\ (loop' = Worker => ~asked'[Worker] /\ phase'[Worker] = "run")
<1> DEFINE Goal == ReadIsDue' /\ (loop' = Worker => ~asked'[Worker] /\ phase'[Worker] = "run")
<1>0. Worker \in Claimer /\ Free # Worker /\ Blocked # Worker
  BY BusAssumption, NatsAssumption
<1>1. ASSUME NEW m \in Delivery, NPublish(m) \/ PublishToNats(m) \/ AckWaitElapses(m) \/ NTime(m) PROVE Goal
  <2>1. CASE NPublish(m)
    <3>1. UNCHANGED <<loop, fetched, read, asked, attempts, phase>> /\ status[m] = "absent"
      BY <2>1 DEF NPublish, Publish, nats
    <3>2. \A k \in Delivery : k # m => status'[k] = status[k] /\ available'[k] = available[k]
      BY <2>1 DEF NPublish, Publish, Inv, TypeOK
    <3>3. \A k \in Delivery : k \in Due => k \in Due'
      BY <3>1, <3>2 DEF Due
    <3> QED
      BY <3>1, <3>3, ClaimUndisturbed
  <2>2. CASE PublishToNats(m) \/ AckWaitElapses(m)
    <3>1. UNCHANGED <<loop, fetched, read, asked, attempts, phase, status, available>>
      BY <2>2 DEF PublishToNats, AckWaitElapses, vars
    <3>2. \A k \in Delivery : k \in Due => k \in Due'
      BY <3>1 DEF Due
    <3> QED
      BY <3>1, <3>2, ClaimUndisturbed
  <2>3. CASE NTime(m)
    <3>1. UNCHANGED <<loop, fetched, read, asked, attempts, phase, status>>
      BY <2>3 DEF NTime, BackoffElapses, GrowsStale, nats
    <3>2. \A k \in Delivery : available[k] = TRUE => available'[k] = TRUE
      BY <2>3 DEF NTime, BackoffElapses, GrowsStale, Inv, TypeOK
    <3>3. \A k \in Delivery : k \in Due => k \in Due'
      BY <3>1, <3>2 DEF Due, Inv, TypeOK
    <3> QED
      BY <3>1, <3>3, ClaimUndisturbed
  <2> QED
    BY <1>1, <2>1, <2>2, <2>3
<1>2. ASSUME NEW c \in Claimer, ClaimStep(c) \/ NatsUnreachable(c) PROVE Goal
  <2>1. CASE FetchFromNats(c)
    <3>1. loop = Free /\ loop' = c /\ ~asked[c] /\ Batch(c) = {} /\ UNCHANGED <<read, asked, phase>>
      BY <2>1 DEF FetchFromNats, Away, vars
    <3>2. \A m \in Delivery : ~(read'[m] > 0)
      BY <1>0, <3>1 DEF NatsInv, ReadIsDue
    <3>3. c = Worker
      BY <3>1 DEF OneClaims
    <3>4. ~asked'[Worker] /\ phase'[Worker] = "run"
      BY <3>1, <3>3 DEF NatsInv
    <3> QED
      BY <3>2, <3>4 DEF ReadIsDue
  <2>2. CASE NatsUnreachable(c)
    <3>1. loop # Worker /\ UNCHANGED <<loop, read>>
      BY <1>0, <2>2 DEF NatsUnreachable
    <3> QED
      BY <3>1, NotInClaim
  <2>3. CASE FetchDone(c)
    <3>1. loop' = Free /\ fetched = {} /\ UNCHANGED read
      BY <2>3 DEF FetchDone
    <3>2. \A m \in Delivery : ~(read'[m] > 0)
      BY <3>1 DEF NatsInv, ReadIsDue
    <3> QED
      BY <1>0, <3>1, <3>2 DEF ReadIsDue
  <2>4. CASE FallBack(c)
    <3>1. asked[c] /\ UNCHANGED <<loop, read>>
      BY <2>4 DEF FallBack
    <3>2. c = Worker /\ loop # Worker
      BY <3>1 DEF NatsInv
    <3> QED
      BY <3>1, <3>2, NotInClaim
  <2>5. ASSUME NEW m \in Delivery, SelectRow(c, m) PROVE Goal
    <3>1. loop = Worker /\ ~asked'[Worker] /\ phase'[Worker] = "run"
      BY <2>5 DEF SelectRow, NatsInv, vars
    <3>2. m \in fetched /\ UNCHANGED <<fetched, status, available, attempts>> /\ \A k \in Delivery : read[k] = 0
      BY <2>5 DEF SelectRow, vars
    <3>3. CASE m \in Due /\ read' = [read EXCEPT ![m] = attempts[m] + 1] /\ UNCHANGED loop
      <4>1. \A k \in Delivery : read'[k] = IF k = m THEN attempts[m] + 1 ELSE 0
        BY <3>2, <3>3 DEF NTypeOK
      <4>2. \A k \in Delivery : read'[k] > 0 => k = m
        BY <4>1
      <4>3. m \in Due' /\ attempts'[m] = attempts[m] /\ loop' = Worker /\ m \in fetched'
        BY <3>1, <3>2, <3>3 DEF Due
      <4>4. read'[m] = attempts'[m] + 1
        BY <4>1, <4>3
      <4>5. ReadIsDue'
        BY <4>2, <4>3, <4>4 DEF ReadIsDue
      <4> QED
        BY <3>1, <4>5
    <3>4. CASE loop' = Blocked /\ UNCHANGED read
      BY <1>0, <3>2, <3>4 DEF ReadIsDue
    <3> QED
      BY <2>5, <3>3, <3>4 DEF SelectRow
  <2>6. ASSUME NEW m \in Delivery, ClaimRow(c, m) PROVE Goal
    <3>1. loop = Worker /\ loop' = Worker /\ ~asked'[Worker] /\ phase'[Worker] = "run"
      BY <2>6 DEF ClaimRow, NatsInv
    <3>2. read[m] > 0 /\ read' = [read EXCEPT ![m] = 0]
      BY <2>6 DEF ClaimRow
    <3>3. \A k \in Delivery : ~(read'[k] > 0)
      BY <3>2 DEF NTypeOK, NatsInv, ReadIsDue
    <3> QED
      BY <3>1, <3>3 DEF ReadIsDue
  <2> QED
    BY <1>2, <2>1, <2>2, <2>3, <2>4, <2>5, <2>6 DEF ClaimStep
<1>3. ASSUME NEW c \in Claimer, NEW m \in Delivery, NHandlerStep(c, m) \/ NMarkRaises(c, m) PROVE Goal
  <2>1. Current(c, m)
    BY <1>3, HandlerCases DEF NHandlerStep, NMarkRaises, HandlerTakesEffect, HandlerCompletes, HandlerRefuses,
                              HandlerDefers, HandlerRaises, MarkRaises
  <2>2. loop # Worker /\ UNCHANGED <<loop, read>>
    BY <1>3, <2>1, OnlyWorkerHolds DEF NHandlerStep, NMarkRaises, Away, Settle, nats
  <2> QED
    BY <2>2, NotInClaim
<1>4. CASE NRequeueStale
  <2>1. loop # Worker /\ UNCHANGED <<loop, read>>
    BY <1>4 DEF NRequeueStale, Away, nats
  <2> QED
    BY <2>1, NotInClaim
<1>5. CASE NCrash
  <2>1. loop' = Free /\ \A m \in Delivery : read'[m] = 0
    BY <1>5 DEF NCrash
  <2> QED
    BY <1>0, <2>1 DEF ReadIsDue
<1> QED
  BY <1>1, <1>2, <1>3, <1>4, <1>5 DEF NNext

\* With either bus, every step keeps the invariant.
LEMMA BackendInvStep ==
  ASSUME ~SlowHandlers, BackendInv, [MCNext]_mvars
  PROVE  BackendInv'
<1>1. CASE backend = "durable" /\ DurableStep /\ UNCHANGED backend
  <2>1. [Next]_vars /\ UNCHANGED nats
    BY <1>1 DEF DurableStep
  <2>2. TypeOK'
    BY <2>1, TypeStep DEF BackendInv, Inv
  <2>3. Inv'
    BY <2>1, <2>2, InvStep DEF BackendInv
  <2>4. NTypeOK'
    BY <2>1, <2>2 DEF BackendInv, NTypeOK, nats
  <2> QED
    BY <1>1, <2>3, <2>4 DEF BackendInv
<1>2. CASE backend = "nats" /\ NatsStep /\ UNCHANGED backend
  <2>1. NNext /\ OneClaims
    BY <1>2 DEF NatsStep, OneClaims
  <2>2. Inv /\ NTypeOK /\ NatsInv
    BY <1>2 DEF BackendInv
  <2>3. [Next]_vars \/ \E m \in Delivery : ClaimRow(Worker, m)
    BY <2>1, <2>2, NatsStepCases
  <2>4. Inv'
    <3>1. CASE [Next]_vars
      <4>1. TypeOK'
        BY <2>2, <3>1, TypeStep DEF Inv
      <4> QED
        BY <2>2, <3>1, <4>1, InvStep
    <3> QED
      BY <2>2, <2>3, <3>1, ClaimRowKeeps
  <2>5. NTypeOK'
    BY <2>1, <2>2, <2>4, NTypeStep DEF Inv
  <2>6. ReadIsDue' /\ (loop' = Worker => ~asked'[Worker] /\ phase'[Worker] = "run")
    BY <2>1, <2>2, ReadIsDueKept
  <2>7. Batch(Worker)' = {} => phase'[Worker] = "run"
    <3>1. CASE [Next]_vars
      BY <2>2, <2>4, <3>1, PhaseKeeps
    <3>2. ASSUME NEW m \in Delivery, ClaimRow(Worker, m) PROVE phase'[Worker] = "run"
      BY <2>2, <3>2, ClaimRowIs
    <3> QED
      BY <2>3, <3>1, <3>2
  <2>8. \A c \in Claimer \ {Worker} : loop' # c /\ ~asked'[c] /\ held'[c] = NoMessages
    BY <2>1, <2>2 DEF OneClaims, NatsInv
  <2>9. NatsInv'
    BY <2>6, <2>7, <2>8 DEF NatsInv
  <2> QED
    BY <1>2, <2>4, <2>5, <2>9 DEF BackendInv
<1>3. CASE UNCHANGED mvars
  <2>1. UNCHANGED <<vars, nats, backend>>
    BY <1>3 DEF mvars, nvars
  <2>2. TypeOK'
    BY <2>1, TypeStep DEF BackendInv, Inv
  <2>3. Inv'
    BY <2>1, <2>2, InvStep DEF BackendInv
  <2>4. NTypeOK'
    BY <2>1, <2>2 DEF BackendInv, NTypeOK, nats
  <2>5. NatsInv => NatsInv'
    BY <2>1 DEF NatsInv, ReadIsDue, nats, vars, Due, Batch
  <2> QED
    BY <2>1, <2>3, <2>4, <2>5 DEF BackendInv
<1> QED
  BY <1>1, <1>2, <1>3 DEF MCNext

LEMMA BackendInvInit == MCInit => BackendInv
<1> SUFFICES ASSUME MCInit PROVE BackendInv
  OBVIOUS
<1> USE BusAssumption, NatsAssumption
<1>1. Init /\ NInit /\ backend \in {"durable", "nats"}
  BY DEF MCInit, NInit
<1>2. Inv
  BY <1>1 DEF Init, Inv, TypeOK, Status, NoMessages, HeldIsProcessing, SingleClaimant, HeldIsFresh,
              RanIsApplied, Current, Batch, CompletedWasApplied, EventMirrorsDelivery
<1>3. NTypeOK
  BY <1>1, <1>2 DEF NInit, Inv, NTypeOK, Wire
<1>4. ReadIsDue
  BY <1>1 DEF NInit, ReadIsDue
<1>5. NatsInv
  BY <1>1, <1>4 DEF NatsInv, Init, NInit
<1> QED
  BY <1>1, <1>2, <1>3, <1>5 DEF BackendInv

\* Whichever bus create_subject_bus picked, a row somebody handles is being processed at
\* the attempt its claimer saw, and the event row tells its delivery's story: the rows
\* agree although the stream loses and redelivers its copies.
THEOREM RowsAgreeHolds ==
  ASSUME ~SlowHandlers
  PROVE  MCSpec => []RowsAgree
<1>1. BackendInv /\ [MCNext]_mvars => BackendInv'
  BY BackendInvStep
<1>2. BackendInv => RowsAgree
  BY DEF BackendInv, Inv, RowsAgree
<1> QED
  BY BackendInvInit, <1>1, <1>2, PTL DEF MCSpec

\* To the queue the publishers see, the claim of a row changes nothing.
LEMMA ClaimRowStutters ==
  ASSUME Inv, NTypeOK, NatsInv, NEW n \in Delivery, ClaimRow(Worker, n)
  PROVE  UNCHANGED Queue!qvars /\ \A m \in Delivery : status[m] \in Terminal => status'[m] = status[m]
<1>1. status[n] = "pending" /\ status' = [status EXCEPT ![n] = "processing"] /\ applied' = applied
  BY ClaimRowIs
<1>2. \A m \in Delivery : status'[m] = IF m = n THEN "processing" ELSE status[m]
  BY <1>1 DEF Inv, TypeOK
<1>3. \A m \in Delivery : OwedAs(status'[m]) = OwedAs(status[m])
  BY <1>1, <1>2 DEF OwedAs
<1>4. UNCHANGED Queue!qvars
  BY <1>1, <1>3 DEF Queue!qvars
<1>5. \A m \in Delivery : status[m] \in Terminal => status'[m] = status[m]
  BY <1>1, <1>2 DEF Terminal
<1> QED
  BY <1>4, <1>5

\* With either bus, every step is a step of the queue, and what is settled stays so.
LEMMA BackendStep ==
  ASSUME BackendInv, [MCNext]_mvars
  PROVE  [Queue!QNext]_(Queue!qvars) /\ \A m \in Delivery : status[m] \in Terminal => status'[m] = status[m]
<1>1. [Next]_vars \/ (backend = "nats" /\ \E n \in Delivery : ClaimRow(Worker, n))
  <2>1. CASE DurableStep
    BY <2>1 DEF DurableStep
  <2>2. CASE backend = "nats" /\ NatsStep
    BY <2>2, NatsStepCases DEF BackendInv, NatsStep
  <2>3. CASE UNCHANGED mvars
    BY <2>3 DEF mvars, nvars
  <2> QED
    BY <2>1, <2>2, <2>3 DEF MCNext
<1>2. CASE [Next]_vars
  BY <1>2, QueueStep, SettledStep DEF BackendInv
<1>3. ASSUME backend = "nats", NEW n \in Delivery, ClaimRow(Worker, n)
      PROVE  UNCHANGED Queue!qvars /\ \A m \in Delivery : status[m] \in Terminal => status'[m] = status[m]
  BY <1>3, ClaimRowStutters DEF BackendInv
<1> QED
  BY <1>1, <1>2, <1>3

\* What the bus promises does not depend on which of the two was picked: one thread per
\* delivery, handled before it is completed, settled for good, the queue implemented.
THEOREM BackendsKeepPromise ==
  ASSUME ~SlowHandlers
  PROVE  MCSpec => [](SingleClaimant /\ CompletedWasApplied) /\ SettledIsFinal /\ ImplementsQueue
<1>1. BackendInv /\ [MCNext]_mvars => BackendInv'
  BY BackendInvStep
<1>2. BackendInv => SingleClaimant /\ CompletedWasApplied
  BY DEF BackendInv, Inv
<1>3. BackendInv /\ [MCNext]_mvars => [Queue!QNext]_(Queue!qvars)
  BY BackendStep
<1>4. BackendInv /\ [MCNext]_mvars =>
        [\A m \in Delivery : status[m] \in Terminal => status'[m] = status[m]]_vars
  BY BackendStep
<1>5. MCInit => Queue!QInit
  BY DEF MCInit, NInit, Init, Queue!QInit, OwedAs
<1> QED
  BY BackendInvInit, <1>1, <1>2, <1>3, <1>4, <1>5, PTL DEF MCSpec, SettledIsFinal, ImplementsQueue, Queue!QSpec
====
