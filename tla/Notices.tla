------------------------------ MODULE Notices ------------------------------
(***************************************************************************)
(* What the gateway tells customers: capacity alerts, emails about rentals *)
(* that stopped, and low-credit warnings.  Each sweep's transaction is an  *)
(* action; the emails follow in the background.                            *)
(***************************************************************************)
EXTENDS Integers, FiniteSets, FiniteSetsExt, Sequences, Totals

CONSTANTS
  Alert, Creator, Machine, NoOne,
  MaxFree,          \* GPUs of a machine
  MaxWaiting,       \* MAX_WAITING
  Customer, Sweeper,
  MaxNoticeIds,     \* bound on the event ids
  Untimely,         \* may events be stamped out of id order, or commit later than SETTLE after that?
  MaxSweeps         \* bound on the low-credit changes

ASSUME NoticesAssumption ==
  /\ IsFiniteSet(Alert) /\ IsFiniteSet(Machine) /\ NoOne \notin Creator \cup Sweeper
  /\ MaxFree \in Nat /\ MaxWaiting \in Nat \ {0} /\ MaxNoticeIds \in Nat /\ Untimely \in BOOLEAN /\ MaxSweeps \in Nat

(***************************************************************************)
(* Capacity alerts of one customer.                                        *)
(***************************************************************************)
VARIABLES
  alert,        \* [state, want]: the row; want = [gpus, count]
  alertEvents,  \* capacity.available events per alert
  free,         \* GPUs free on each machine
  userLock,     \* the customer's row lock
  creating,     \* per request: the [waiting, want] it saw, or NoOne
  cancelling,   \* alerts a cancel has read as waiting
  toldCancelled \* history: alerts whose cancel was answered before they fired

alertVars == <<alert, alertEvents, free, userLock, creating, cancelling, toldCancelled>>

Wants == {[gpus |-> 1, count |-> 2], [gpus |-> 2, count |-> 1]}
Waiting == {a \in Alert : alert[a].state = "waiting"}

AlertInit ==
  /\ alert = [a \in Alert |-> [state |-> "none", want |-> NoOne]]
  /\ alertEvents = [a \in Alert |-> 0]
  /\ free = [m \in Machine |-> 0]
  /\ userLock = NoOne /\ creating = [c \in Creator |-> NoOne]
  /\ cancelling = {} /\ toldCancelled = {}

\* create_alert locks the customer's row and reads the waiting alerts ...
CreateAlertReads(c) ==
  /\ creating[c] = NoOne /\ userLock = NoOne
  /\ userLock' = c
  /\ \E want \in Wants : creating' = [creating EXCEPT ![c] = [waiting |-> Waiting, want |-> want]]
  /\ UNCHANGED <<alert, alertEvents, free, cancelling, toldCancelled>>

\* ... and returns the same one, refuses one too many, or adds it.
CreateAlertWrites(c) ==
  /\ creating[c] # NoOne
  /\ LET saw == creating[c] IN
       IF (\E a \in saw.waiting : alert[a].want = saw.want) \/ Cardinality(saw.waiting) >= MaxWaiting
       THEN UNCHANGED alert
       ELSE \E a \in Alert : alert[a].state = "none"
                             /\ alert' = [alert EXCEPT ![a] = [state |-> "waiting", want |-> saw.want]]
  /\ creating' = [creating EXCEPT ![c] = NoOne]
  /\ userLock' = IF userLock = c THEN NoOne ELSE userLock
  /\ UNCHANGED <<alertEvents, free, cancelling, toldCancelled>>

\* _waiting (and check_once) marks an alert past its 7 days expired.
ExpireAlert(a) ==
  /\ alert[a].state = "waiting"
  /\ alert' = [alert EXCEPT ![a].state = "expired"]
  /\ UNCHANGED <<alertEvents, free, userLock, creating, cancelling, toldCancelled>>

\* cancel_alert reads the row without a lock, then writes it.
CancelAlertReads(a) ==
  /\ alert[a].state = "waiting" /\ a \notin cancelling
  /\ cancelling' = cancelling \cup {a}
  /\ UNCHANGED <<alert, alertEvents, free, userLock, creating, toldCancelled>>
CancelAlertWrites(a) ==
  /\ a \in cancelling
  /\ alert' = [alert EXCEPT ![a].state = "cancelled"]
  /\ cancelling' = cancelling \ {a}
  /\ toldCancelled' = IF alert[a].state = "waiting" THEN toldCancelled \cup {a} ELSE toldCancelled
  /\ UNCHANGED <<alertEvents, free, userLock, creating>>

\* _fits: `count` rentals of `gpus` GPUs, each on one machine.
FitsInTotal(want) == Total(Machine, free) >= want.gpus * want.count
Fits(want) == Total(Machine, [m \in Machine |-> free[m] \div want.gpus]) >= want.count

\* check_once: every waiting alert there is room for fires, event and state in one transaction.
Fires(a) == alert[a].state = "waiting" /\ Fits(alert[a].want)
CheckOnce ==
  /\ \E a \in Alert : Fires(a)
  /\ alert' = [a \in Alert |-> IF Fires(a) THEN [alert[a] EXCEPT !.state = "fired"] ELSE alert[a]]
  /\ alertEvents' = [a \in Alert |-> IF Fires(a) THEN alertEvents[a] + 1 ELSE alertEvents[a]]
  /\ UNCHANGED <<free, userLock, creating, cancelling, toldCancelled>>

\* free_by_model: what schedulable_capacity says now.
FreeByModel ==
  /\ \E m \in Machine, n \in 0 .. MaxFree : free' = [free EXCEPT ![m] = n]
  /\ UNCHANGED <<alert, alertEvents, userLock, creating, cancelling, toldCancelled>>

AlertNext ==
  \/ \E c \in Creator : CreateAlertReads(c) \/ CreateAlertWrites(c)
  \/ \E a \in Alert : ExpireAlert(a) \/ CancelAlertReads(a) \/ CancelAlertWrites(a)
  \/ CheckOnce \/ FreeByModel

AlertFairness == WF_alertVars(CheckOnce)

(***************************************************************************)
(* Emails about rentals that stopped, across customers.                    *)
(***************************************************************************)
VARIABLES
  pending,      \* per customer: the id its transaction took, or 0
  noticeIds,    \* the last id given out
  stopped,      \* committed deployment.failed events
  settled,      \* ids created more than SETTLE ago
  stopCursor,   \* notify:stopped:last_event_id, -1 before the first run
  stopStart,    \* history: where the first run put it
  emailed,      \* emails per event
  sweeping,     \* per process: the cursor it read, or -1
  kvLock        \* the cursor row's lock

stopVars == <<pending, noticeIds, stopped, settled, stopCursor, stopStart, emailed, sweeping, kvLock>>

StopInit ==
  /\ pending = [c \in Customer |-> 0] /\ noticeIds = 0
  /\ stopped = {} /\ settled = {} /\ stopCursor = -1 /\ stopStart = -1
  /\ emailed = [e \in 1 .. MaxNoticeIds |-> 0]
  /\ sweeping = [g \in Sweeper |-> -1] /\ kvLock = NoOne

\* A customer's transaction takes an id; another customer's may commit before it.
RentalFails(c) ==
  /\ pending[c] = 0 /\ noticeIds < MaxNoticeIds
  /\ noticeIds' = noticeIds + 1
  /\ pending' = [pending EXCEPT ![c] = noticeIds + 1]
  /\ UNCHANGED <<stopped, settled, stopCursor, stopStart, emailed, sweeping, kvLock>>
FailureCommits(c) ==
  /\ pending[c] # 0
  /\ stopped' = stopped \cup {pending[c]}
  /\ pending' = [pending EXCEPT ![c] = 0]
  /\ UNCHANGED <<noticeIds, settled, stopCursor, stopStart, emailed, sweeping, kvLock>>

\* SETTLE passes since the event was created.
Settles(e) ==
  /\ e \in 1 .. noticeIds \ settled
  /\ Untimely \/ (1 .. e - 1 \subseteq settled /\ \A c \in Customer : pending[c] # e)
  /\ settled' = settled \cup {e}
  /\ UNCHANGED <<pending, noticeIds, stopped, stopCursor, stopStart, emailed, sweeping, kvLock>>

\* stopped_once locks the cursor's row; the first run starts from now ...
SweepReads(g) ==
  /\ sweeping[g] = -1 /\ stopCursor # -1 /\ kvLock = NoOne
  /\ kvLock' = g
  /\ sweeping' = [sweeping EXCEPT ![g] = stopCursor]
  /\ UNCHANGED <<pending, noticeIds, stopped, settled, stopCursor, stopStart, emailed>>
FirstSweep(g) ==
  /\ stopCursor = -1
  /\ stopCursor' = IF stopped = {} THEN 0 ELSE Max(stopped)
  /\ stopStart' = stopCursor'
  /\ UNCHANGED <<pending, noticeIds, stopped, settled, emailed, sweeping, kvLock>>

\* ... the others email what settled after it and move the cursor.
SettledEvents == stopped \cap settled
SweepWrites(g) ==
  /\ sweeping[g] # -1
  /\ LET batch == {e \in SettledEvents : e > sweeping[g]} IN
       /\ stopCursor' = IF batch = {} THEN stopCursor ELSE Max(batch)
       /\ emailed' = [e \in 1 .. MaxNoticeIds |-> IF e \in batch THEN emailed[e] + 1 ELSE emailed[e]]
  /\ sweeping' = [sweeping EXCEPT ![g] = -1]
  /\ kvLock' = IF kvLock = g THEN NoOne ELSE kvLock
  /\ UNCHANGED <<pending, noticeIds, stopped, settled, stopStart>>

StopNext ==
  \/ \E c \in Customer : RentalFails(c) \/ FailureCommits(c)
  \/ \E e \in 1 .. MaxNoticeIds : Settles(e)
  \/ \E g \in Sweeper : SweepReads(g) \/ FirstSweep(g) \/ SweepWrites(g)

(***************************************************************************)
(* Low-credit warnings of one customer.                                    *)
(***************************************************************************)
VARIABLES
  lasts,        \* how long the balance lasts: "idle" (nothing runs), "long", "day" (< 24 h), "short" (< 2 h)
  told,         \* credit_warnings.level_hours: "none", "day", "short"
  forecastOf,   \* what the sweep under way read, or NoOne
  lowEvents,    \* balance.low events since the last re-arm, oldest first
  sweeps

creditVars == <<lasts, told, forecastOf, lowEvents, sweeps>>

\* _level_for: the tightest level the forecast is under.
LevelFor(forecast) == IF forecast \in {"day", "short"} THEN forecast ELSE "none"
Tightness(level) == CASE level = "none" -> 0 [] level = "day" -> 1 [] level = "short" -> 2

CreditInit == lasts = "idle" /\ told = "none" /\ forecastOf = NoOne /\ lowEvents = <<>> /\ sweeps = 0

\* Charges, top-ups, starts and stops.
CreditChanges ==
  /\ sweeps < MaxSweeps /\ sweeps' = sweeps + 1
  /\ lasts' \in {"idle", "long", "day", "short"} \ {lasts}
  /\ UNCHANGED <<told, forecastOf, lowEvents>>

\* low_credit_once: forecasts first ...
Forecast ==
  /\ forecastOf = NoOne
  /\ forecastOf' = lasts
  /\ UNCHANGED <<lasts, told, lowEvents, sweeps>>

\* ... then the warning row and its event in one transaction: re-arm, already told, or tell.
AlreadyTold(level) == told # "none" /\ Tightness(told) >= Tightness(level)
LowCreditOnce ==
  /\ forecastOf # NoOne
  /\ LET level == LevelFor(forecastOf) IN
       IF level = "none" THEN told' = "none" /\ lowEvents' = <<>>
       ELSE IF AlreadyTold(level) THEN UNCHANGED <<told, lowEvents>>
       ELSE told' = level /\ lowEvents' = Append(lowEvents, level)
  /\ forecastOf' = NoOne
  /\ UNCHANGED <<lasts, sweeps>>

\* The events since the balance was last under no tighter level than this one.
EventsSince(level) ==
  SubSeq(lowEvents, 1, Max({0} \cup {i \in 1 .. Len(lowEvents) : Tightness(lowEvents[i]) <= Tightness(level)}))

\* _mark_informed, after an auto-resume's email: the level that balance is under counts as told.
MarkInformed ==
  /\ forecastOf = NoOne /\ lasts # "idle" /\ sweeps < MaxSweeps /\ sweeps' = sweeps + 1
  /\ LET level == LevelFor(lasts) IN
       /\ told' = level
       /\ lowEvents' = IF level # "none" /\ ~AlreadyTold(level) THEN Append(lowEvents, level)
                       ELSE IF Tightness(level) < Tightness(told)
                            THEN EventsSince(level) ELSE lowEvents
  /\ UNCHANGED <<lasts, forecastOf>>

CreditNext == CreditChanges \/ Forecast \/ LowCreditOnce \/ MarkInformed

CreditFairness == WF_creditVars(Forecast) /\ WF_creditVars(LowCreditOnce)

(***************************************************************************)
(* Properties.                                                             *)
(***************************************************************************)

\* Every variable keeps its type, and no cursor passes the last id.
NoticesTypeOK ==
  /\ \A a \in Alert : alert[a].state \in {"none", "waiting", "fired", "expired", "cancelled"}
  /\ free \in [Machine -> 0 .. MaxFree] /\ userLock \in Creator \cup {NoOne}
  /\ stopped \subseteq 1 .. noticeIds /\ settled \subseteq 1 .. noticeIds /\ stopCursor \in -1 .. noticeIds
  /\ lasts \in {"idle", "long", "day", "short"} /\ told \in {"none", "day", "short"}

\* "so two at once can't both pass the limit or both add the same alert"
AlertLimit ==
  /\ Cardinality(Waiting) <= MaxWaiting
  /\ \A a, b \in Waiting : alert[a].want = alert[b].want => a = b

\* "The event is written with the change of state, so an alert fires exactly once"; and a
\* customer whose cancel was answered hears no more of it.
AlertFiresOnce == \A a \in Alert : alertEvents[a] <= IF a \in toldCancelled THEN 0 ELSE 1

\* An alert fires only when its rentals can be placed, each whole on one machine.
FiredHadRoom ==
  [][\A a \in Alert : alertEvents'[a] > alertEvents[a] =>
       LET want == alert[a].want IN
       \E place \in [1 .. want.count -> Machine] :
         \A m \in Machine : want.gpus * Cardinality({i \in 1 .. want.count : place[i] = m}) <= free[m]]_alertVars

\* A rental that stopped is emailed about exactly once: no event is behind the cursor unsent,
\* although customers' transactions commit out of id order and two processes sweep.
StoppedEmailedOnce ==
  \A e \in stopped :
    /\ emailed[e] <= 1
    /\ stopStart # -1 /\ stopStart < e /\ e <= stopCursor => emailed[e] = 1

\* "Email when the balance lasts less than this many hours, each level once": since the last
\* re-arm every event is for a tighter level than the one before.
EachLevelOnce == \A i, j \in 1 .. Len(lowEvents) : i < j => Tightness(lowEvents[i]) < Tightness(lowEvents[j])

\* Once the balance stops moving, the customer has been told of the level it is under.
LowTold == Tightness(told) >= Tightness(LevelFor(lasts))
LowCreditTold == []<>LowTold

AlertSpec == AlertInit /\ [][AlertNext]_alertVars
StopSpec == StopInit /\ [][StopNext]_stopVars
CreditSpec == CreditInit /\ [][CreditNext]_creditVars /\ CreditFairness

\* What the three sweeps promise: the limit of waiting alerts, one event per alert and only
\* with room, one email per stopped rental, one warning per level.
NoticeSafety ==
  /\ [](NoticesTypeOK /\ AlertLimit /\ AlertFiresOnce /\ StoppedEmailedOnce /\ EachLevelOnce)
  /\ FiredHadRoom
=============================================================================
