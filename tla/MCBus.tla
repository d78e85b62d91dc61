-------------------------------- MODULE MCBus --------------------------------
(***************************************************************************)
(* create_subject_bus picks the durable bus or the one with a JetStream in *)
(* front of it; the choice is made once, at start.  Both keep the same     *)
(* rows, so the same properties are asked of both.  With the JetStream one *)
(* thread claims (the claim of a row takes no lock there) and one fault    *)
(* happens; its liveness is not asserted, see the README.                  *)
(***************************************************************************)
EXTENDS NatsBus, TLC

CONSTANTS worker, route, NatsFaults

VARIABLE backend   \* settings.bus_transport

mvars == <<nvars, backend>>

MCInit == NInit /\ backend \in {"durable", "nats"}

DurableStep == Next /\ UNCHANGED nats

NatsStep ==
  /\ NNext
  /\ \A c \in Claimer \ {Worker} : loop' # c /\ ~asked'[c] /\ held'[c] = held[c]
  /\ faults' <= NatsFaults

MCNext ==
  /\ \/ backend = "durable" /\ DurableStep
     \/ backend = "nats" /\ NatsStep
  /\ UNCHANGED backend

\* SubjectBus' Fairness, of the durable bus.
MCFairness ==
  LET Durable(A) == backend = "durable" /\ A
  IN /\ WF_vars(Durable(ClaimPending(Worker)))
     /\ \A c \in Claimer, m \in Delivery : WF_vars(Durable(HandlerStep(c, m)))
     /\ SF_vars(Durable(RequeueStaleProcessing))
     /\ \A m \in Delivery : WF_vars(Durable(BackoffElapses(m))) /\ WF_vars(Durable(GrowsStale(m)))

MCSpec == MCInit /\ [][MCNext]_mvars /\ MCFairness

(* A claimed row is being processed at the attempt its claimer saw, and the    *)
(* event row tells the same story as its delivery, whichever backend claimed   *)
(* it and whatever copies the stream lost or redelivered (_update_status,      *)
(* claim_pending, _claim_delivery_for_message).                               *)
RowsAgree == NTypeOK /\ HeldIsProcessing /\ EventMirrorsDelivery

(* On the durable bus every published delivery is completed or parked in the   *)
(* end: a raising handler, a failed mark or a dead process cannot wedge it in  *)
(* "processing" (requeue_stale_processing and the attempt limit).             *)
DurableSettles ==
  \A m \in Delivery :
    (backend = "durable" /\ status[m] = "pending") ~> (status[m] \in Terminal)
=============================================================================
