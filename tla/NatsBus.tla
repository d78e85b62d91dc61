------------------------------- MODULE NatsBus -------------------------------
(***************************************************************************)
(* NatsJetStreamBus: the durable bus with a JetStream in front of it.  The *)
(* stream only says that a delivery exists; the bus_deliveries row decides *)
(* who handles it.  All traffic with the stream runs on one asyncio loop   *)
(* thread; callers wait for its result.                                    *)
(*                                                                         *)
(* claim_pending first asks the stream and falls back to the durable claim *)
(* when the stream is unreachable or had nothing to claim.                 *)
(***************************************************************************)
EXTENDS SubjectBus

CONSTANTS
  Free, Blocked   \* states of the loop besides "runs the claim of thread c"

ASSUME NatsAssumption == Free # Blocked /\ {Free, Blocked} \cap Claimer = {}

VARIABLES
  wire,      \* the stream's message of a delivery (external)
  loop,      \* Free, Blocked, or the thread whose claim coroutine runs
  fetched,   \* raw messages of that claim not looked up yet
  read,      \* the row it has selected and not yet updated: its attempts, or 0
  asked,     \* asked[c]: the stream has answered c with nothing, fall back
  registered \* _pending_messages: deliveries with a raw message to settle

nats == <<wire, loop, fetched, read, asked, registered>>
nvars == <<vars, nats>>

Wire == {"none", "stored", "inflight", "gone"}

NInit ==
  /\ Init
  /\ wire = [m \in Delivery |-> "none"]
  /\ loop = Free
  /\ fetched = {}
  /\ read = [m \in Delivery |-> 0]
  /\ asked = [c \in Claimer |-> FALSE]
  /\ registered = {}

\* c is not inside a claim.
Away(c) == loop # c /\ ~asked[c]

\* publish: the row first; the stream may or may not get its copy.
NPublish(m) == Publish(m) /\ UNCHANGED nats

PublishToNats(m) ==
  /\ status[m] # "absent" /\ wire[m] = "none"
  /\ loop # Blocked
  /\ wire' = [wire EXCEPT ![m] = "stored"]
  /\ UNCHANGED <<vars, loop, fetched, read, asked, registered>>

(***************************************************************************)
(* claim_pending.                                                          *)
(***************************************************************************)

\* _claim_pending_from_nats_async connects and fetches up to limit messages.
FetchFromNats(c) ==
  /\ Batch(c) = {} /\ Away(c)
  /\ loop = Free
  /\ LET got == Oldest({m \in Delivery : wire[m] = "stored"})
     IN /\ fetched' = got
        /\ wire' = [m \in Delivery |-> IF m \in got THEN "inflight" ELSE wire[m]]
  /\ loop' = c
  /\ UNCHANGED <<vars, read, asked, registered>>

\* The connection fails: claim_pending swallows it.
NatsUnreachable(c) ==
  /\ Batch(c) = {} /\ Away(c)
  /\ loop = Free
  /\ asked' = [asked EXCEPT ![c] = TRUE]
  /\ UNCHANGED <<vars, wire, loop, fetched, read, registered>>

\* Mutant of SelectRow: any row the message names is claimed.
SelectAnyRow(c, m) ==
  /\ loop = c
  /\ m \in fetched /\ \A k \in fetched : m <= k
  /\ \A k \in Delivery : read[k] = 0
  /\ read' = [read EXCEPT ![m] = attempts[m] + 1]
  /\ UNCHANGED <<vars, wire, loop, fetched, asked, registered>>

\* _claim_delivery_for_message selects the row; without FOR UPDATE, so other
\* transactions may run before its update.  If no row qualifies, the message
\* is acknowledged: _ack_message waits, on the loop's own thread, for a
\* coroutine only that thread could run.
SelectRow(c, m) ==
  /\ loop = c
  /\ m \in fetched /\ \A k \in fetched : m <= k
  /\ \A k \in Delivery : read[k] = 0
  /\ IF m \in Due
     THEN read' = [read EXCEPT ![m] = attempts[m] + 1] /\ UNCHANGED loop
     ELSE loop' = Blocked /\ UNCHANGED read
  /\ UNCHANGED <<vars, wire, fetched, asked, registered>>

ClaimRow(c, m) ==
  /\ loop = c
  /\ read[m] > 0
  /\ status' = [status EXCEPT ![m] = "processing"]
  /\ attempts' = [attempts EXCEPT ![m] = read[m]]
  /\ stale' = [stale EXCEPT ![m] = FALSE]
  /\ held' = [held EXCEPT ![c][m] = read[m]]
  /\ read' = [read EXCEPT ![m] = 0]
  /\ fetched' = fetched \ {m}
  /\ registered' = registered \cup {m}
  /\ UNCHANGED <<evStatus, available, phase, applied, faults, wire, loop, asked>>

FetchDone(c) ==
  /\ loop = c
  /\ fetched = {}
  /\ loop' = Free
  /\ asked' = [asked EXCEPT ![c] = Batch(c) = {}]
  /\ UNCHANGED <<vars, wire, fetched, read, registered>>

FallBack(c) ==
  /\ asked[c]
  /\ \/ ClaimPending(c)
     \/ Due = {} /\ UNCHANGED vars
  /\ asked' = [asked EXCEPT ![c] = FALSE]
  /\ UNCHANGED <<wire, loop, fetched, read, registered>>

(***************************************************************************)
(* mark_completed and mark_failed settle the raw message, then the row.    *)
(***************************************************************************)

\* ack, term or nak, by what the row becomes; a nak'd message comes back at once.
Settle(m) ==
  /\ m \in registered => loop # Blocked
  /\ registered' = registered \ {m}
  /\ wire' = IF m \in registered
             THEN [wire EXCEPT ![m] = IF status'[m] = "pending" THEN "stored" ELSE "gone"]
             ELSE wire
  /\ UNCHANGED <<loop, fetched, read, asked>>

NHandlerStep(c, m) ==
  /\ Away(c)
  /\ \/ HandlerTakesEffect(c, m) /\ UNCHANGED nats
     \/ /\ HandlerCompletes(c, m) \/ HandlerRefuses(c, m) \/ HandlerDefers(c, m) \/ HandlerRaises(c, m)
        /\ Settle(m)

\* The stream, or the database after it, fails while marking.
NMarkRaises(c, m) ==
  /\ Away(c)
  /\ MarkRaises(c, m)
  /\ m \in registered => loop # Blocked
  /\ registered' = registered \ {m}
  /\ \E w \in IF m \in registered THEN {wire[m], "stored", "gone"} ELSE {wire[m]} :
       wire' = [wire EXCEPT ![m] = w]
  /\ UNCHANGED <<loop, fetched, read, asked>>

NCrash ==
  /\ Crash
  /\ loop' = Free
  /\ fetched' = {}
  /\ read' = [m \in Delivery |-> 0]
  /\ asked' = [c \in Claimer |-> FALSE]
  /\ registered' = {}
  /\ UNCHANGED wire

NRequeueStale == Away(Worker) /\ RequeueStaleProcessing /\ UNCHANGED nats

\* The stream redelivers what nobody acknowledged within its ack wait.
AckWaitElapses(m) ==
  /\ wire[m] = "inflight" /\ m \notin registered \cup fetched
  /\ wire' = [wire EXCEPT ![m] = "stored"]
  /\ UNCHANGED <<vars, loop, fetched, read, asked, registered>>

NTime(m) == (BackoffElapses(m) \/ GrowsStale(m)) /\ UNCHANGED nats

ClaimStep(c) ==
  \/ FetchFromNats(c) \/ FetchDone(c) \/ FallBack(c)
  \/ \E m \in Delivery : SelectRow(c, m) \/ ClaimRow(c, m)

NNext ==
  \/ \E m \in Delivery : NPublish(m) \/ PublishToNats(m) \/ AckWaitElapses(m) \/ NTime(m)
  \/ \E c \in Claimer : ClaimStep(c) \/ NatsUnreachable(c)
  \/ \E c \in Claimer, m \in Delivery : NHandlerStep(c, m) \/ NMarkRaises(c, m)
  \/ NRequeueStale
  \/ NCrash

NSpec == NInit /\ [][NNext]_nvars

NFairness ==
  /\ \A c \in Claimer : WF_nvars(ClaimStep(c))
  /\ \A c \in Claimer, m \in Delivery : WF_nvars(NHandlerStep(c, m))
  /\ SF_nvars(NRequeueStale)
  /\ \A m \in Delivery : WF_nvars(NTime(m)) /\ WF_nvars(AckWaitElapses(m))

NFairSpec == NSpec /\ NFairness

(***************************************************************************)
(* Properties, beside those of SubjectBus.                                 *)
(***************************************************************************)

(* The stream, the consumer's pending set and the local rows of the           *)
(* JetStream-backed bus stay within the domains their code gives them.        *)
NTypeOK ==
  /\ TypeOK
  /\ wire \in [Delivery -> Wire]
  /\ loop \in Claimer \cup {Free, Blocked}
  /\ fetched \subseteq Delivery
  /\ read \in [Delivery -> Nat]
  /\ asked \in [Claimer -> BOOLEAN]
  /\ registered \subseteq Delivery
=============================================================================
