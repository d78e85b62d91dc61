------------------------------ MODULE Webhooks ------------------------------
(***************************************************************************)
(* Account events of one customer and the webhook that delivers them.      *)
(* Writers are transactions that save a deployment's state and its event;  *)
(* a reader pages the events feed; gateway processes compete for the       *)
(* delivery lock, and the one that has it starts turns of the webhook.     *)
(***************************************************************************)
EXTENDS Integers, FiniteSets, FiniteSetsExt, Sequences, SequencesExt

CONSTANTS
  Writer, Gateway,
  Nobody,
  Batch,            \* BATCH
  MaxEventIds,      \* bound on the events' ids
  MaxHookEdits,     \* bound on the customer's changes of the webhook
  MaxHookFaults     \* bound on dropped connections and deaths

ASSUME WebhooksAssumption ==
  /\ IsFiniteSet(Writer) /\ IsFiniteSet(Gateway) /\ Gateway # {} /\ Nobody \notin Writer \cup Gateway
  /\ Batch \in Nat \ {0} /\ MaxEventIds \in Nat /\ MaxHookEdits \in Nat /\ MaxHookFaults \in Nat

VARIABLES
  writer,       \* [pc, id] of each transaction
  eventLock,    \* who holds the customer's advisory lock
  eventIds,     \* the last id the sequence gave out
  kindOf,       \* the type of each id
  events,       \* committed ids
  feed,         \* the reader's [after, seen]
  hook,         \* the row: [state, wanted, cursor, failing, wait]; failing is failing_since's age
  hookStart,    \* history: last_event_id at creation
  turn,         \* per process: [pc, batch, cursor, passed]; "idle" is not in _busy
  leads,        \* per process: "no", "leads", "drains"
  passLock,     \* who holds _PASS_LOCK_KEY
  received,     \* history: ids the endpoint received, in order
  passedOver,   \* history: ids a filter passed over
  hookEdits, hookFaults

feedVars == <<writer, eventLock, eventIds, kindOf, events, feed>>
turnVars == <<turn, leads, passLock, received, passedOver>>
hookVars == <<feedVars, hook, hookStart, turnVars, hookEdits, hookFaults>>

EventStates == {"ready", "failed"}
NoWriter == [pc |-> "idle", id |-> 0]
NoTurn == [pc |-> "idle", batch |-> {}, cursor |-> 0, passed |-> FALSE]

HookInit ==
  /\ writer = [w \in Writer |-> NoWriter]
  /\ eventLock = Nobody /\ eventIds = 0 /\ events = {}
  /\ kindOf = [e \in 1 .. MaxEventIds |-> "none"]
  /\ feed = [after |-> 0, seen |-> {}]
  /\ hook = [state |-> "none", wanted |-> {}, cursor |-> 0, failing |-> "no", wait |-> FALSE]
  /\ hookStart = 0
  /\ turn = [g \in Gateway |-> NoTurn]
  /\ passLock = CHOOSE g \in Gateway : TRUE       \* the first process has started
  /\ leads = [g \in Gateway |-> IF g = passLock THEN "leads" ELSE "no"]
  /\ received = <<>> /\ passedOver = {}
  /\ hookEdits = 0 /\ hookFaults = 0

HookFault == hookFaults < MaxHookFaults /\ hookFaults' = hookFaults + 1
HookEdit == hookEdits < MaxHookEdits /\ hookEdits' = hookEdits + 1
After(cursor) == {e \in events : e > cursor}
\* ... ORDER BY id LIMIT: the first Batch of s.
Page(s) == {e \in s : Cardinality({x \in s : x < e}) < Batch}

(***************************************************************************)
(* The writers.                                                            *)
(***************************************************************************)

\* deployment_event: the event of a change of state, if it makes one.
DeploymentEvent(previous, state) ==
  IF state = previous \/ state \notin EventStates THEN "none" ELSE state

\* add_event: the customer's lock is taken, then the insert takes the next id ...
AddEvent(w) ==
  /\ writer[w].pc = "idle" /\ eventIds < MaxEventIds
  /\ eventLock = Nobody /\ eventLock' = w
  /\ eventIds' = eventIds + 1
  /\ \E previous, state \in EventStates \cup {"pulling"} :
       /\ DeploymentEvent(previous, state) # "none"
       /\ kindOf' = [kindOf EXCEPT ![eventIds + 1] = DeploymentEvent(previous, state)]
  /\ writer' = [writer EXCEPT ![w] = [pc |-> "inserted", id |-> eventIds + 1]]
  /\ UNCHANGED <<events, feed, hook, hookStart, turnVars, hookEdits, hookFaults>>

\* ... and the commit (or the rollback) makes it visible and lets the lock go.
EndTransaction(w) ==
  /\ writer[w].pc = "inserted"
  /\ \/ events' = events \cup {writer[w].id} /\ UNCHANGED hookFaults
     \/ HookFault /\ UNCHANGED events
  /\ eventLock' = IF eventLock = w THEN Nobody ELSE eventLock
  /\ writer' = [writer EXCEPT ![w] = NoWriter]
  /\ UNCHANGED <<eventIds, kindOf, feed, hook, hookStart, turnVars, hookEdits>>

(***************************************************************************)
(* The customer.                                                           *)
(***************************************************************************)

\* list_events: a page after the cursor.
ListEvents ==
  /\ After(feed.after) # {}
  /\ LET page == Page(After(feed.after)) IN
       feed' = [after |-> Max(page), seen |-> feed.seen \cup page]
  /\ UNCHANGED <<writer, eventLock, eventIds, kindOf, events, hook, hookStart, turnVars, hookEdits, hookFaults>>

\* create_webhook: from the latest committed event on.
CreateWebhook ==
  /\ hook.state = "none"
  /\ \E wanted \in {{}, {"ready"}} :
       hook' = [state |-> "on", wanted |-> wanted, failing |-> "no", wait |-> FALSE,
                cursor |-> IF events = {} THEN 0 ELSE Max(events)]
  /\ hookStart' = hook'.cursor
  /\ UNCHANGED <<feedVars, turnVars, hookEdits, hookFaults>>

\* update_webhook: a new URL, other types, turned off, turned on.
UpdateWebhook ==
  /\ hook.state \in {"on", "off"} /\ HookEdit
  /\ \/ hook' = [hook EXCEPT !.failing = "no", !.wait = FALSE]
     \/ \E wanted \in {{}, {"ready"}} : hook' = [hook EXCEPT !.wanted = wanted]
     \/ hook' = [hook EXCEPT !.state = "off"]
     \/ hook' = [hook EXCEPT !.state = "on", !.failing = "no", !.wait = FALSE]
  /\ UNCHANGED <<feedVars, hookStart, turnVars, hookFaults>>

DeleteWebhook ==
  /\ hook.state \in {"on", "off"} /\ HookEdit
  /\ hook' = [hook EXCEPT !.state = "deleted"]
  /\ UNCHANGED <<feedVars, hookStart, turnVars, hookFaults>>

(***************************************************************************)
(* The delivery loop of a gateway process g.                               *)
(***************************************************************************)

\* _Leader.acquire
AcquireLock(g) ==
  /\ leads[g] = "no" /\ passLock = Nobody
  /\ passLock' = g
  /\ leads' = [leads EXCEPT ![g] = "leads"]
  /\ UNCHANGED <<feedVars, hook, hookStart, turn, received, passedOver, hookEdits, hookFaults>>

\* The connection drops and Postgres lets the lock go.
ConnectionDrops(g) ==
  /\ passLock = g /\ HookFault
  /\ passLock' = Nobody
  /\ UNCHANGED <<feedVars, hook, hookStart, turn, leads, received, passedOver, hookEdits>>

\* still_held says no: deliveries under way finish before the loop starts over.
LosesLock(g) ==
  /\ leads[g] = "leads" /\ passLock # g
  /\ leads' = [leads EXCEPT ![g] = "drains"]
  /\ UNCHANGED <<feedVars, hook, hookStart, turn, passLock, received, passedOver, hookEdits, hookFaults>>

ReleaseLock(g) ==
  /\ leads[g] = "drains" /\ turn[g].pc = "idle"
  /\ leads' = [leads EXCEPT ![g] = "no"]
  /\ UNCHANGED <<feedVars, hook, hookStart, turn, passLock, received, passedOver, hookEdits, hookFaults>>

\* due_webhooks
Due == hook.state = "on" /\ ~hook.wait /\ After(hook.cursor) # {}

\* submit_due: a due webhook that is not busy gets a turn; deliver_webhook reads its batch.
SubmitDue(g) ==
  /\ leads[g] = "leads" /\ turn[g].pc = "idle" /\ Due
  /\ turn' = [turn EXCEPT ![g] = [pc |-> "send", batch |-> Page(After(hook.cursor)),
                                  cursor |-> hook.cursor, passed |-> FALSE]]
  /\ UNCHANGED <<feedVars, hook, hookStart, leads, passLock, received, passedOver, hookEdits, hookFaults>>

AdvanceBlindly(cursor) == cursor
Advance(cursor) == IF cursor > hook.cursor THEN cursor ELSE hook.cursor

\* The turn is over (its batch or its time): what was passed over last is recorded.
EndTurn(g) ==
  /\ turn[g].pc = "send"
  /\ hook' = IF turn[g].passed /\ hook.state # "deleted"
             THEN [hook EXCEPT !.cursor = Advance(turn[g].cursor)] ELSE hook
  /\ turn' = [turn EXCEPT ![g] = NoTurn]
  /\ UNCHANGED <<feedVars, hookStart, leads, passLock, received, passedOver, hookEdits, hookFaults>>

\* _current: the webhook was turned off or deleted, and the turn ends.
TurnedOff(g) ==
  /\ turn[g].pc = "send" /\ turn[g].batch # {} /\ hook.state # "on"
  /\ turn' = [turn EXCEPT ![g] = NoTurn]
  /\ UNCHANGED <<feedVars, hook, hookStart, leads, passLock, received, passedOver, hookEdits, hookFaults>>

Unwanted(e) == hook.wanted # {} /\ kindOf[e] \notin hook.wanted

\* An event the filter does not want moves the turn's own cursor only.
PassOver(g) ==
  /\ turn[g].pc = "send" /\ turn[g].batch # {} /\ hook.state = "on"
  /\ LET e == Min(turn[g].batch) IN
       /\ Unwanted(e)
       /\ turn' = [turn EXCEPT ![g] = [pc |-> "send", batch |-> @.batch \ {e}, cursor |-> e, passed |-> TRUE]]
       /\ passedOver' = passedOver \cup {e}
  /\ UNCHANGED <<feedVars, hook, hookStart, leads, passLock, received, hookEdits, hookFaults>>

\* post: 2xx; an error before the endpoint got it; or an error after it did.
PostEvent(g) ==
  /\ turn[g].pc = "send" /\ turn[g].batch # {} /\ hook.state = "on"
  /\ LET e == Min(turn[g].batch) IN
       /\ ~Unwanted(e)
       /\ \/ /\ received' = Append(received, e)
             /\ turn' = [turn EXCEPT ![g] = [pc |-> "ok", batch |-> @.batch \ {e}, cursor |-> e, passed |-> FALSE]]
             /\ UNCHANGED hookFaults
          \/ turn' = [turn EXCEPT ![g].pc = "failed"] /\ UNCHANGED <<received, hookFaults>>
          \/ turn' = [turn EXCEPT ![g].pc = "failed"] /\ received' = Append(received, e) /\ HookFault
  /\ UNCHANGED <<feedVars, hook, hookStart, leads, passLock, passedOver, hookEdits>>

\* _record_progress
RecordProgress(g) ==
  /\ turn[g].pc = "ok"
  /\ hook' = IF hook.state = "deleted" THEN hook
             ELSE [hook EXCEPT !.cursor = Advance(turn[g].cursor), !.failing = "no", !.wait = FALSE]
  /\ turn' = [turn EXCEPT ![g].pc = "send"]
  /\ UNCHANGED <<feedVars, hookStart, leads, passLock, received, passedOver, hookEdits, hookFaults>>

\* _record_failure: back off, and turn it off when it has failed for DISABLE_AFTER.
RecordFailure(g) ==
  /\ turn[g].pc = "failed"
  /\ hook' = IF hook.state = "deleted" THEN hook
             ELSE [hook EXCEPT !.cursor = Advance(turn[g].cursor), !.wait = TRUE,
                               !.failing = IF @ = "no" THEN "recent" ELSE @,
                               !.state = IF hook.failing = "old" THEN "off" ELSE @]
  /\ turn' = [turn EXCEPT ![g] = NoTurn]
  /\ UNCHANGED <<feedVars, hookStart, leads, passLock, received, passedOver, hookEdits, hookFaults>>

\* The process dies with its turn, between a post and its record too.
GatewayDies(g) ==
  /\ leads[g] # "no" /\ HookFault
  /\ turn' = [turn EXCEPT ![g] = NoTurn]
  /\ leads' = [leads EXCEPT ![g] = "no"]
  /\ passLock' = IF passLock = g THEN Nobody ELSE passLock
  /\ UNCHANGED <<feedVars, hook, hookStart, received, passedOver, hookEdits>>

\* Time: next_attempt_at is reached, and failing_since grows older than DISABLE_AFTER.
BackoffEnds ==
  /\ hook.wait /\ hook' = [hook EXCEPT !.wait = FALSE]
  /\ UNCHANGED <<feedVars, hookStart, turnVars, hookEdits, hookFaults>>

FailingAges ==
  /\ hook.failing = "recent" /\ hook' = [hook EXCEPT !.failing = "old"]
  /\ UNCHANGED <<feedVars, hookStart, turnVars, hookEdits, hookFaults>>

\* prune_events: the oldest event has been kept for 30 days.
PruneEvents(g) ==
  /\ leads[g] = "leads" /\ events # {} /\ HookEdit
  /\ events' = events \ {Min(events)}
  /\ UNCHANGED <<writer, eventLock, eventIds, kindOf, feed, hook, hookStart, turnVars, hookFaults>>

HookTurn(g) ==
  \/ AcquireLock(g) \/ LosesLock(g) \/ ReleaseLock(g) \/ SubmitDue(g) \/ EndTurn(g) \/ TurnedOff(g)
  \/ PassOver(g) \/ PostEvent(g) \/ RecordProgress(g) \/ RecordFailure(g)

EventWritten == \E w \in Writer : AddEvent(w) \/ EndTransaction(w)

DeliveryNext ==
  \/ CreateWebhook \/ UpdateWebhook \/ DeleteWebhook \/ BackoffEnds \/ FailingAges
  \/ \E g \in Gateway : HookTurn(g) \/ ConnectionDrops(g) \/ GatewayDies(g) \/ PruneEvents(g)

HookNext == EventWritten \/ ListEvents \/ DeliveryNext

\* Every process's loop goes on and a turn gets as far as its first post; time passes.
HookFairness ==
  /\ WF_hookVars(BackoffEnds) /\ WF_hookVars(FailingAges)
  /\ \A g \in Gateway :
       /\ WF_hookVars(AcquireLock(g) \/ LosesLock(g) \/ ReleaseLock(g) \/ SubmitDue(g))
       /\ WF_hookVars(TurnedOff(g) \/ PassOver(g) \/ PostEvent(g) \/ RecordProgress(g) \/ RecordFailure(g)
                      \/ (turn[g].batch = {} /\ EndTurn(g)))
       /\ SF_hookVars(PassOver(g) \/ PostEvent(g))

HookSpec == HookInit /\ [][HookNext]_hookVars /\ HookFairness

(***************************************************************************)
(* Properties.                                                             *)
(***************************************************************************)

\* Every variable keeps its type, and no cursor passes the last id.
HookTypeOK ==
  /\ writer \in [Writer -> [pc : {"idle", "inserted"}, id : 0 .. MaxEventIds]]
  /\ eventLock \in Writer \cup {Nobody} /\ passLock \in Gateway \cup {Nobody}
  /\ events \subseteq 1 .. eventIds /\ feed.after \in 0 .. eventIds
  /\ hook.state \in {"none", "on", "off", "deleted"} /\ hook.cursor \in 0 .. eventIds
  /\ leads \in [Gateway -> {"no", "leads", "drains"}]
  /\ \A g \in Gateway : turn[g].pc \in {"idle", "send", "ok", "failed"}

\* account_events.py: "ids must become visible in order ... or a cursor would pass 100 for good".
\* Every event below the cursor of the feed was in a page the reader got.
FeedMissesNothing == \A e \in events : e <= feed.after => e \in feed.seen

\* Below the webhook's cursor every event still kept was received by the endpoint, or
\* passed over by its filter; through failures, deaths, edits and two processes at once.
HookMissesNothing ==
  \A e \in events : hookStart < e /\ e <= hook.cursor => e \in ToSet(received) \/ e \in passedOver

\* Events reach the endpoint in order the first time, apart from those a filter passed over.
FirstInOrder ==
  \A i \in 1 .. Len(received) : \A e \in events \ passedOver :
    hookStart < e /\ e < received[i] => \E j \in 1 .. i : received[j] = e

\* A late turn of a process that lost the lock never takes the webhook's cursor back.
CursorNeverBack == [][hook.cursor' >= hook.cursor]_hookVars

\* An event of a webhook that is on reaches the endpoint, unless the webhook is turned off
\* (by its owner, or for failing too long), deleted, or the event is filtered or pruned:
\* again and again, a webhook that is on has no event left to deliver.
AllDelivered == hook.state = "on" => \A e \in events : e > hookStart => e \in ToSet(received) \cup passedOver
EventReachesEndpoint == []<>AllDelivered

\* webhook_loop: "On losing the lock, deliveries under way finish before another process
\* can start the same webhooks."
OneTurnAtATime == \A g, h \in Gateway : turn[g].pc # "idle" /\ turn[h].pc # "idle" => g = h
\* What account_events.py and webhooks.py promise: nothing is missed by the feed or by
\* the webhook, first deliveries are in order, and the cursor never goes back.
WebhookSafety == [](HookTypeOK /\ FeedMissesNothing /\ HookMissesNothing /\ FirstInOrder) /\ CursorNeverBack
=============================================================================
