------------------------------ MODULE KeyLimits ------------------------------
(***************************************************************************)
(* The limits of one API key: its rentals at once, and its spend of the    *)
(* last 24 hours.  A create, of a request or of a fleet, reads both, each  *)
(* in a transaction of its own and neither in the create's; the control    *)
(* plane's sweep stops what runs at the spend limit.                       *)
(***************************************************************************)
EXTENDS Naturals, FiniteSets, Sequences

CONSTANTS
  KeyRental,      \* deployments the key may start
  Creation,       \* requests that may run beside each other
  MaxActive,      \* the key's max_active_rentals
  SpendLimit,     \* the key's daily_spend_limit_cents
  MaxSpend,       \* bound on what is charged in the window
  MaxKeyEvents    \* bound on requeued failures, failing stops, and charges that age out

ASSUME KeyLimitsAssumption ==
  /\ IsFiniteSet(KeyRental) /\ IsFiniteSet(Creation)
  /\ MaxActive \in Nat \ {0} /\ SpendLimit \in Nat \ {0}
  /\ MaxSpend \in Nat /\ MaxKeyEvents \in Nat

VARIABLES
  keyRental,   \* state of each deployment the key started, "none" before
  keySpend,    \* charges of the window: GPU time, saved pods and inference
  creation,    \* per request, the reads it is past; 0 when idle
  sweep,       \* stop_rentals_over_key_limits: [todo, spent], spent read at the first rental
  revived,     \* history: failed rentals put back in the queue
  keyEvents

limitVars == <<keyRental, keySpend, creation, sweep, revived, keyEvents>>

Unread == MaxSpend + 1
SweepIdle == [todo |-> {}, spent |-> Unread]

LimitInit ==
  /\ keyRental = [d \in KeyRental |-> "none"] /\ keySpend = 0
  /\ creation = [r \in Creation |-> 0]
  /\ sweep = SweepIdle /\ revived = 0 /\ keyEvents = 0

\* key_active_rentals: every deployment that is neither terminated nor failed.
FinishedStates == {"terminated", "failed"}
KeyActive == {d \in KeyRental : keyRental[d] \notin FinishedStates \cup {"none"}}

\* key_rental_room, its two sessions apart.  The route asks first, for an answer
\* with the numbers: whom it turns away is one the service never sees.
RoomReads == <<"active", "spend">>
HasRoom(read) == IF read = "active" THEN Cardinality(KeyActive) < MaxActive ELSE keySpend < SpendLimit

KeyRentalRoom(r) ==
  /\ creation[r] < Len(RoomReads)
  /\ creation' = [creation EXCEPT ![r] = IF HasRoom(RoomReads[@ + 1]) THEN @ + 1 ELSE 0]
  /\ UNCHANGED <<keyRental, keySpend, sweep, revived, keyEvents>>

\* The row gets an id nobody has; which one does not matter.
CreateRental(r) ==
  /\ creation[r] = Len(RoomReads)
  /\ \E d \in KeyRental : keyRental[d] = "none"
  /\ keyRental' = [keyRental EXCEPT ![CHOOSE d \in KeyRental : keyRental[d] = "none"] = "pending"]
  /\ creation' = [creation EXCEPT ![r] = 0]
  /\ UNCHANGED <<keySpend, sweep, revived, keyEvents>>

\* _enforce_key_limits on an inference request; its charge, once it is done, is
\* read by nothing but the limit.
ServeInference ==
  /\ HasRoom("spend") /\ keySpend < MaxSpend
  /\ keySpend' = keySpend + 1
  /\ UNCHANGED <<keyRental, creation, sweep, revived, keyEvents>>

\* The control plane around it: a rental is placed, suspended, resumed with no
\* look at the key, or ended; a failed one may be put back in the queue.
KeyRentalMoves(d) ==
  /\ \E s \in CASE keyRental[d] = "pending" -> {"ready", "failed", "terminated"}
                [] keyRental[d] = "ready" -> {"suspended", "failed", "terminated"}
                [] keyRental[d] = "suspended" -> {"pending", "terminated"}
                [] OTHER -> {} :
       keyRental' = [keyRental EXCEPT ![d] = s]
  /\ UNCHANGED <<keySpend, creation, sweep, revived, keyEvents>>
FailedRequeued(d) ==
  /\ keyRental[d] = "failed" /\ keyEvents < MaxKeyEvents
  /\ keyRental' = [keyRental EXCEPT ![d] = "pending"]
  /\ revived' = revived + 1 /\ keyEvents' = keyEvents + 1
  /\ UNCHANGED <<keySpend, creation, sweep>>
KeyCharged(d) ==
  /\ keyRental[d] \in {"ready", "suspended"} /\ keySpend < MaxSpend
  /\ keySpend' = keySpend + 1
  /\ UNCHANGED <<keyRental, creation, sweep, revived, keyEvents>>
ChargesAge ==
  /\ keySpend > 0 /\ keyEvents < MaxKeyEvents
  /\ keySpend' \in 0..(keySpend - 1) /\ keyEvents' = keyEvents + 1
  /\ UNCHANGED <<keyRental, creation, sweep, revived>>

\* stop_rentals_over_key_limits: the ready rentals, each stopped when the
\* spend read once for the key is at its limit.  A stop may raise.
SweepStarts ==
  /\ sweep.todo = {}
  /\ sweep' = [todo |-> {d \in KeyRental : keyRental[d] = "ready"}, spent |-> Unread]
  /\ sweep'.todo # {}
  /\ UNCHANGED <<keyRental, keySpend, creation, revived, keyEvents>>
SpentByKey == IF sweep.spent = Unread THEN keySpend ELSE sweep.spent
Stopped(d) == IF keyRental[d] \in FinishedStates THEN keyRental
              ELSE [keyRental EXCEPT ![d] = "terminated"]
SweepRental(d) ==
  /\ d \in sweep.todo
  /\ sweep' = IF sweep.todo = {d} THEN SweepIdle ELSE [todo |-> sweep.todo \ {d}, spent |-> SpentByKey]
  /\ \/ SpentByKey < SpendLimit /\ UNCHANGED <<keyRental, keyEvents>>
     \/ SpentByKey >= SpendLimit /\ keyRental' = Stopped(d) /\ UNCHANGED keyEvents
     \/ /\ SpentByKey >= SpendLimit /\ keyEvents < MaxKeyEvents
        /\ keyEvents' = keyEvents + 1 /\ UNCHANGED keyRental
  /\ UNCHANGED <<keySpend, creation, revived>>
SweepSteps == SweepStarts \/ \E d \in KeyRental : SweepRental(d)

LimitNext ==
  \/ \E r \in Creation : KeyRentalRoom(r) \/ CreateRental(r)
  \/ \E d \in KeyRental : KeyRentalMoves(d) \/ FailedRequeued(d) \/ KeyCharged(d)
  \/ ServeInference \/ ChargesAge \/ SweepSteps

\* The control plane's loop comes round.
LimitFairness == WF_limitVars(SweepSteps)

\* max_active_rentals is read and not locked: it is exceeded by no more than
\* the requests racing on the last slot, and by the failures an operator put
\* back.  A suspended rental keeps its slot, so resuming needs no check.
OvershootBounded ==
  Cardinality(KeyActive) + Cardinality({r \in Creation : creation[r] > 0})
    <= MaxActive + Cardinality(Creation) - 1 + revived

\* "so the limit actually stops spending": a key at its spend limit does not
\* keep rentals running, though they suspend, resume and start beside the sweep.
KeySpendStopped == keySpend < SpendLimit \/ \A d \in KeyRental : keyRental[d] # "ready"
SpendStops == []<>KeySpendStopped

\* Every variable keeps its type.
LimitTypeOK ==
  /\ keyRental \in [KeyRental -> {"none", "pending", "ready", "suspended"} \cup FinishedStates]
  /\ keySpend \in 0..MaxSpend /\ creation \in [Creation -> 0..Len(RoomReads)]
  /\ sweep.todo \subseteq KeyRental /\ sweep.spent \in 0..Unread /\ revived \in 0..MaxKeyEvents
=============================================================================
