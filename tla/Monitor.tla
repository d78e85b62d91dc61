------------------------------- MODULE Monitor -------------------------------
(***************************************************************************)
(* The billing monitor: one pass every few minutes over the ledger, the    *)
(* rentals, the deposit watchers and the payments that wait, with its      *)
(* bookkeeping in key_value_state.  A unit of time is one pass's interval. *)
(***************************************************************************)
EXTENDS Integers, FiniteSets, FiniteSetsExt

CONSTANTS
  Row,              \* ledger rows worth a report
  Subject,          \* what this behaviour is about: a subset of {"ledger", "drift", "rental", "watcher", "review"}
  FirstRunLookback, \* FIRST_RUN_LOOKBACK: how far the first pass looks back
  Overlap,          \* CURSOR_OVERLAP
  UnbilledAfter, EmptyGrace, WatcherStall, WaitingAfter,
  RealertAfter, RealertWaiting,
  SentRetention,
  MaxClock,         \* bound on the time
  MaxMonitorFaults  \* bound on passes that fail or die

ASSUME MonitorAssumption ==
  /\ IsFiniteSet(Row) /\ Row \cap {"drift", "unbilled", "empty", "watcher", "review"} = {}
  /\ FirstRunLookback \in Nat
  /\ \A c \in {Overlap, UnbilledAfter, EmptyGrace, WatcherStall, WaitingAfter, RealertAfter, RealertWaiting,
               SentRetention} : c \in Nat \ {0}
  /\ RealertAfter < SentRetention /\ RealertWaiting < SentRetention /\ Overlap < SentRetention
  /\ MaxClock \in Nat /\ MaxMonitorFaults \in Nat

VARIABLES
  subject,      \* which part of the world moves
  clock,
  row,          \* [at, state] of each ledger row; state: "none", "open" (not committed), "in"
  rental,       \* [ready, charged, empty]: since when it runs, its last charge, an empty balance
  standing,     \* since when each of the other problems stands, or -1: drift, watcher (last moved), review
  ledgerCursor, \* cursor:ledger, -1 before the first run
  emptySince,   \* monitor:empty:<rental>, or -1
  sent,         \* monitor:sent:<key>: when it was last reported, or -1
  outboxOf,     \* the findings committed as sent and not sent yet
  passDone,     \* has this interval's pass run?
  alerts,       \* history: how often each finding was sent
  lastAlert,    \* history: when each was last sent, or -1
  firstSince,   \* history: from when on rows are watched
  tooSoon,      \* history: a standing problem was reported again before its time
  monitorFaults

bookVars == <<ledgerCursor, emptySince, sent, outboxOf, passDone, alerts, lastAlert, firstSince, tooSoon,
              monitorFaults>>
worldVars == <<row, rental, standing>>
monitorVars == <<subject, clock, worldVars, bookVars>>

Problem == {"drift", "unbilled", "empty", "watcher", "review"}
Key == Row \cup Problem

MonitorInit ==
  /\ subject \in Subject /\ clock = 0
  /\ row = [r \in Row |-> [at |-> 0, state |-> "none"]]
  /\ rental = [ready |-> -1, charged |-> -1, empty |-> FALSE]
  /\ standing = [drift |-> -1, watcher |-> 0, review |-> -1]
  /\ ledgerCursor = -1 /\ emptySince = -1
  /\ sent = [k \in Key |-> -1]
  /\ outboxOf = {} /\ passDone = FALSE
  /\ alerts = [k \in Key |-> 0] /\ lastAlert = [k \in Key |-> -1]
  /\ firstSince = 0 /\ tooSoon = FALSE /\ monitorFaults = 0

MonitorFault == monitorFaults < MaxMonitorFaults /\ monitorFaults' = monitorFaults + 1

(***************************************************************************)
(* The world.                                                              *)
(***************************************************************************)

\* A ledger row is stamped, and commits at most Overlap later.
LedgerRowMoves(r) ==
  /\ subject = "ledger"
  /\ \/ row[r].state = "none" /\ row' = [row EXCEPT ![r] = [at |-> clock, state |-> "open"]]
     \/ row[r].state = "open" /\ row' = [row EXCEPT ![r].state = "in"]
  /\ UNCHANGED <<subject, clock, rental, standing, bookVars>>

RentalMoves ==
  /\ subject = "rental"
  /\ \/ rental.ready = -1 /\ rental' = [ready |-> clock, charged |-> -1, empty |-> FALSE]
     \/ rental.ready # -1 /\ ~rental.empty /\ rental' = [rental EXCEPT !.charged = clock]
     \/ rental.ready # -1 /\ rental' = [rental EXCEPT !.empty = ~@]
     \/ rental.ready # -1 /\ rental' = [ready |-> -1, charged |-> -1, empty |-> FALSE]
  /\ UNCHANGED <<subject, clock, row, standing, bookVars>>

\* A balance drifts from its ledger, a review is asked for, and both are dealt with.
ProblemMoves(p) ==
  /\ subject = p /\ p \in {"drift", "review"}
  /\ standing' = [standing EXCEPT ![p] = IF @ = -1 THEN clock ELSE -1]
  /\ UNCHANGED <<subject, clock, row, rental, bookVars>>

\* A watcher that is not stuck moves its cursor in every interval.
WatcherMoves ==
  /\ subject = "watcher" /\ standing.watcher < clock
  /\ standing' = [standing EXCEPT !.watcher = clock]
  /\ UNCHANGED <<subject, clock, row, rental, bookVars>>

MonitorTick ==
  /\ clock < MaxClock /\ passDone /\ outboxOf = {}
  /\ \A r \in Row : row[r].state = "open" => clock - row[r].at < Overlap
  /\ clock' = clock + 1 /\ passDone' = FALSE
  /\ UNCHANGED <<subject, worldVars, ledgerCursor, emptySince, sent, outboxOf, alerts, lastAlert, firstSince, tooSoon,
                 monitorFaults>>

(***************************************************************************)
(* The checks.                                                             *)
(***************************************************************************)

LedgerDrift == IF standing.drift # -1 THEN {"drift"} ELSE {}

UnbilledRentals ==
  IF /\ rental.ready # -1 /\ ~rental.empty
     /\ rental.ready <= clock - UnbilledAfter
     /\ rental.charged < clock - UnbilledAfter
  THEN {"unbilled"} ELSE {}

RentalOnEmpty == rental.ready # -1 /\ rental.empty

\* _empty_with_grace: reported when an earlier pass saw it EMPTY_GRACE ago.
EmptyWithGrace ==
  IF RentalOnEmpty /\ emptySince # -1 /\ emptySince <= clock - EmptyGrace THEN {"empty"} ELSE {}

\* negative_charges and notable_credits: the rows since the cursor, less the overlap (a row stamped in
\* interval n is later than the pass of interval n, so > is >= here).
SinceCursor == IF ledgerCursor = -1 THEN clock - FirstRunLookback ELSE ledgerCursor
Since == (IF ledgerCursor = -1 THEN clock - FirstRunLookback ELSE ledgerCursor) - Overlap
NotableRows == {r \in Row : row[r].state = "in" /\ row[r].at >= Since}

StalledWatchers == IF subject = "watcher" /\ standing.watcher <= clock - WatcherStall THEN {"watcher"} ELSE {}

WaitingPayments == IF standing.review # -1 /\ standing.review < clock - WaitingAfter THEN {"review"} ELSE {}

Findings == LedgerDrift \cup UnbilledRentals \cup EmptyWithGrace \cup NotableRows \cup StalledWatchers \cup WaitingPayments

\* _State.due: rows once, standing problems again after their interval.
Again(k) == IF k = "review" THEN RealertWaiting ELSE RealertAfter
MonitorDue(k) == sent[k] = -1 \/ (k \notin Row /\ sent[k] <= clock - Again(k))

(***************************************************************************)
(* run_once: one transaction, then the alert.                              *)
(***************************************************************************)

RunOnce ==
  /\ ~passDone
  /\ LET new == {k \in Findings : MonitorDue(k)} IN
       /\ sent' = [k \in Key |-> IF k \in new THEN clock
                                 ELSE IF sent[k] # -1 /\ sent[k] < clock - SentRetention THEN -1 ELSE sent[k]]
       /\ outboxOf' = new
  /\ ledgerCursor' = clock /\ firstSince' = IF ledgerCursor = -1 THEN Since ELSE firstSince
  /\ emptySince' = IF ~RentalOnEmpty THEN -1 ELSE IF emptySince = -1 THEN clock ELSE emptySince
  /\ passDone' = TRUE
  /\ UNCHANGED <<subject, clock, worldVars, alerts, lastAlert, tooSoon, monitorFaults>>

\* The pass fails before its commit: nothing is remembered, the next one sees it all again.
RunFails ==
  /\ ~passDone /\ MonitorFault
  /\ passDone' = TRUE
  /\ UNCHANGED <<subject, clock, worldVars, ledgerCursor, emptySince, sent, outboxOf, alerts, lastAlert, firstSince, tooSoon>>

SendAlert ==
  /\ outboxOf # {}
  /\ alerts' = [k \in Key |-> IF k \in outboxOf THEN alerts[k] + 1 ELSE alerts[k]]
  /\ lastAlert' = [k \in Key |-> IF k \in outboxOf THEN clock ELSE lastAlert[k]]
  /\ tooSoon' = (tooSoon \/ \E k \in outboxOf \ Row : lastAlert[k] # -1 /\ clock - lastAlert[k] < Again(k))
  /\ outboxOf' = {}
  /\ UNCHANGED <<subject, clock, worldVars, ledgerCursor, emptySince, sent, passDone, firstSince, monitorFaults>>

MonitorNext ==
  \/ \E r \in Row : LedgerRowMoves(r)
  \/ RentalMoves \/ WatcherMoves \/ MonitorTick \/ RunOnce \/ RunFails \/ SendAlert
  \/ \E p \in {"drift", "review"} : ProblemMoves(p)

MonitorSpec == MonitorInit /\ [][MonitorNext]_monitorVars

(***************************************************************************)
(* Properties.                                                             *)
(***************************************************************************)

\* No cursor, memory or reading is from the future.
MonitorTypeOK ==
  /\ clock \in 0 .. MaxClock /\ ledgerCursor \in -1 .. clock /\ emptySince \in -1 .. clock
  /\ sent \in [Key -> -1 .. clock] /\ outboxOf \subseteq Key
  /\ rental.ready \in -1 .. clock /\ rental.charged \in -1 .. clock

\* "ledger rows commit slightly out of order": no committed row of the time watched that the next pass
\* will no longer look at was left unreported, also when passes fail in between.
NoRowMissed ==
  \A r \in Row : (row[r].state = "in" /\ ledgerCursor # -1 /\ row[r].at >= firstSince
                     /\ row[r].at < ledgerCursor - Overlap)
                    => alerts[r] + Cardinality({r} \cap outboxOf) = 1

\* "Report a finding once": the overlap makes passes see a row again, and it is not sent again.
RowReportedOnce == \A r \in Row : alerts[r] <= 1

\* "a recurring problem again after REALERT_AFTER": never before that, and the memory of what was
\* sent is kept long enough for it.
NotTooSoon == ~tooSoon

\* A drift nobody fixes is never quiet for longer than the interval between two reports and one pass
\* (more only while passes fail).
DriftNotForgotten ==
  (standing.drift # -1 /\ passDone /\ outboxOf = {} /\ monitorFaults = 0)
     => clock - Max({standing.drift, lastAlert["drift"]}) < RealertAfter + 1
        /\ (lastAlert["drift"] # -1 \/ clock = standing.drift)

\* Every row and every standing problem is reported, and none too often.
MonitorSafety == MonitorTypeOK /\ NoRowMissed /\ RowReportedOnce /\ NotTooSoon /\ DriftNotForgotten
=============================================================================
