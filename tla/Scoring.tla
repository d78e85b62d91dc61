------------------------------ MODULE Scoring -------------------------------
(* Probes, scorecards, weights and the audit report of an epoch.  Miners      *)
(* answer probes through the API; the worker's loop, once an epoch is closed, *)
(* publishes a weight snapshot and then the signed report from which others   *)
(* replay it; an admin may publish weights beside it.  Every transaction and  *)
(* every chain call is an action.  A score is the number of results it was    *)
(* computed from: the formula itself is not modelled, only which rows feed it.*)
EXTENDS Naturals, FiniteSets, Totals

CONSTANTS
    Miner,           \* hotkeys
    Probe, ProbeOf,  \* challenges, and the hotkey each is for
    CanaryProbe,     \* the challenges that are canaries
    Submitter,       \* API calls that may run beside each other
    MaxEpoch,        \* epochs that close (a bound)
    MaxScoreFaults   \* failing writes and chain calls, restarts, an admin's calls (a bound)

ASSUME ScoringAssumption ==
    /\ ProbeOf \in [Probe -> Miner] /\ IsFiniteSet(Probe) /\ IsFiniteSet(Submitter) /\ CanaryProbe \subseteq Probe
    /\ MaxEpoch \in Nat \ {0} /\ MaxScoreFaults \in Nat

VARIABLES
    issued,     \* challenges saved
    results,    \* rows of probe_results, per challenge
    card,       \* the scorecards table
    submission, \* API calls: where each is, its challenge, its scorecard
    canary,     \* the challenge a canary is out for, or NoCanary
    allowed,    \* the whitelist
    onChain, metagraph, \* hotkeys with a uid, and the validator's cache of them
    epoch, due, \* the epoch closed last, and whether its two blocks have passed
    audited,    \* _last_audited_epoch_end: in memory only
    publisher,  \* the worker and the admin: where each is, its epoch, its weights
    snapshot, snapBy, \* the latest row of weight_snapshots, and (history) who saved it
    history,    \* rows of scorecard_history, per epoch
    lost,       \* history: epochs whose rows could not be written
    report,     \* audit_reports, per epoch
    weights,    \* what the chain holds
    scoreFaults

scoreVars == <<issued, results, card, submission, canary, allowed, onChain, metagraph, epoch, due, audited,
               publisher, snapshot, snapBy, history, lost, report, weights, scoreFaults>>
probing == <<issued, results, submission, canary>>
clockwork == <<allowed, onChain, epoch, due>>
records == <<history, lost, report>>

Epoch == 1..MaxEpoch
Publisher == {"worker", "admin"}
ResultsOf(m) == Total({p \in Probe : ProbeOf[p] = m}, results)
NoCanary == "none"
NoWeights == [m \in Miner |-> 0]
IdleSubmit == [pc |-> "idle", p |-> "none", score |-> 0]
IdlePublish == [pc |-> "idle", e |-> 0, w |-> NoWeights]
NoReport == [rows |-> {}, snap |-> NoWeights, by |-> "worker", done |-> FALSE]

ScoringInit ==
    /\ issued = {} /\ results = [p \in Probe |-> 0] /\ card = NoWeights
    /\ submission = [s \in Submitter |-> IdleSubmit] /\ canary = NoCanary
    /\ allowed = Miner /\ onChain = Miner /\ metagraph = {}
    /\ epoch = 0 /\ due = FALSE /\ audited = 0
    /\ publisher = [x \in Publisher |-> IdlePublish]
    /\ snapshot = NoWeights /\ snapBy = "worker" /\ history = [e \in Epoch |-> {}] /\ lost = {}
    /\ report = [e \in Epoch |-> NoReport] /\ weights = NoWeights /\ scoreFaults = 0

Trouble == scoreFaults < MaxScoreFaults /\ scoreFaults' = scoreFaults + 1
NoTrouble == UNCHANGED scoreFaults

-----------------------------------------------------------------------------
(* Probes.                                                                    *)
Submits(s, pc) == submission' = [submission EXCEPT ![s].pc = pc]

CreateProbe ==
    /\ \E p \in Probe \ (issued \cup CanaryProbe) : issued' = issued \cup {p}
    /\ NoTrouble /\ UNCHANGED <<results, submission, canary, card, clockwork, metagraph, audited, publisher, snapshot, snapBy, records, weights>>

(* A result is refused when its challenge is unknown or already answered. *)
SubmitChecks(s) ==
    /\ submission[s].pc = "idle"
    /\ \E p \in issued :
         /\ results[p] = 0
         /\ submission' = [submission EXCEPT ![s] = [pc |-> "add", p |-> p, score |-> 0]]
    /\ NoTrouble /\ UNCHANGED <<issued, results, canary, card, clockwork, metagraph, audited, publisher, snapshot, snapBy, records, weights>>

AddResult(s) ==
    /\ submission[s].pc = "add"
    /\ results' = [results EXCEPT ![submission[s].p] = @ + 1]
    /\ Submits(s, "score")
    /\ NoTrouble /\ UNCHANGED <<issued, canary, card, clockwork, metagraph, audited, publisher, snapshot, snapBy, records, weights>>

ComputeScore(s) ==
    /\ submission[s].pc = "score"
    /\ submission' = [submission EXCEPT ![s].pc = "card", ![s].score = ResultsOf(ProbeOf[submission[s].p])]
    /\ NoTrouble /\ UNCHANGED <<issued, results, canary, card, clockwork, metagraph, audited, publisher, snapshot, snapBy, records, weights>>

SaveScorecard(s) ==
    /\ submission[s].pc = "card"
    /\ card' = [card EXCEPT ![ProbeOf[submission[s].p]] = submission[s].score]
    /\ submission' = [submission EXCEPT ![s] = IdleSubmit]
    /\ NoTrouble /\ UNCHANGED <<issued, results, canary, clockwork, metagraph, audited, publisher, snapshot, snapBy, records, weights>>

(* A canary saves its challenge, asks the gateway, and adds the result, good  *)
(* or bad, with no check for another and no scorecard.                        *)
CanaryStarts ==
    /\ canary = NoCanary
    /\ \E p \in CanaryProbe \ issued : issued' = issued \cup {p} /\ canary' = p
    /\ NoTrouble /\ UNCHANGED <<results, submission, card, clockwork, metagraph, audited, publisher, snapshot, snapBy, records, weights>>

CanaryEnds ==
    /\ canary # NoCanary /\ canary' = NoCanary
    /\ results' = [results EXCEPT ![canary] = @ + 1]
    /\ NoTrouble /\ UNCHANGED <<issued, submission, card, clockwork, metagraph, audited, publisher, snapshot, snapBy, records, weights>>

-----------------------------------------------------------------------------
(* The worker's epoch check and the publishing of weights.                    *)
PublisherAt(x, pc) == publisher[x].pc = pc
GoesTo(x, pc) == publisher' = [publisher EXCEPT ![x].pc = pc]
Rests(x) == publisher' = [publisher EXCEPT ![x] = IdlePublish]

(* _compute_epoch_window and the buffer of two blocks: an epoch closed, and   *)
(* not audited since the start of the process.                                *)
AuditDue == due /\ epoch > audited

AuditStarts ==
    /\ PublisherAt("worker", "idle") /\ AuditDue
    /\ publisher' = [publisher EXCEPT !["worker"] = [pc |-> "cards", e |-> epoch, w |-> NoWeights]]
    /\ NoTrouble /\ UNCHANGED <<probing, card, clockwork, metagraph, audited, snapshot, snapBy, records, weights>>

AdminStarts ==
    /\ PublisherAt("admin", "idle") /\ GoesTo("admin", "cards")
    /\ Trouble /\ UNCHANGED <<probing, card, clockwork, metagraph, audited, snapshot, snapBy, records, weights>>

(* publish_weight_snapshot scores afresh every listed miner with results. *)
Scored(m) == IF m \in allowed THEN ResultsOf(m) ELSE 0

PublishCards(x) ==
    /\ PublisherAt(x, "cards")
    /\ LET w == [m \in Miner |-> Scored(m)] IN
       /\ card' = [m \in Miner |-> IF w[m] > 0 THEN w[m] ELSE card[m]]
       /\ publisher' = [publisher EXCEPT ![x].pc = "snap", ![x].w = w]
    /\ NoTrouble /\ UNCHANGED <<probing, clockwork, metagraph, audited, snapshot, snapBy, records, weights>>

SaveSnapshot(x) ==
    /\ PublisherAt(x, "snap")
    /\ snapshot' = publisher[x].w /\ snapBy' = x
    /\ GoesTo(x, IF x = "worker" THEN "history" ELSE "commit")
    /\ NoTrouble /\ UNCHANGED <<probing, card, clockwork, metagraph, audited, records, weights>>

(* Mutant: the rows are read back from the scorecards table. *)
HistoryRowsOfCards(w) == card

HistoryRows(w) == w

(* A write that fails is logged, and the report goes on without the rows. *)
SaveHistory ==
    /\ PublisherAt("worker", "history") /\ GoesTo("worker", "commit")
    /\ LET e == publisher["worker"].e IN
       \/ /\ history' = [history EXCEPT ![e] = @ \cup {HistoryRows(publisher["worker"].w)}]
          /\ NoTrouble /\ UNCHANGED lost
       \/ Trouble /\ lost' = lost \cup {e} /\ UNCHANGED history
    /\ UNCHANGED <<probing, card, clockwork, metagraph, audited, snapshot, snapBy, report, weights>>

(* set_weights replaces the validator's whole vector. *)
SetWeights(w, known) == [m \in Miner |-> IF m \in known THEN w[m] ELSE 0]

(* A hotkey the cache does not know is passed over; with none left, or when   *)
(* the call fails, the chain keeps what it has.                               *)
CommitWeights(x) ==
    /\ PublisherAt(x, "commit")
    /\ LET known == {m \in metagraph : publisher[x].w[m] > 0} IN
       \/ /\ weights' = IF known = {} THEN weights ELSE SetWeights(publisher[x].w, known)
          /\ NoTrouble
       \/ Trouble /\ UNCHANGED weights
    /\ IF x = "worker" THEN GoesTo(x, "report") ELSE Rests(x)
    /\ UNCHANGED <<probing, card, clockwork, metagraph, audited, snapshot, snapBy, records>>

(* generate_audit_report: the rows of the epoch and the latest snapshot of    *)
(* the window.  An error ends the check, and the next one starts over.        *)
GenerateAuditReport ==
    /\ PublisherAt("worker", "report")
    /\ LET e == publisher["worker"].e IN
       \/ /\ report' = [report EXCEPT ![e] = [rows |-> history[e], snap |-> snapshot, by |-> snapBy, done |-> TRUE]]
          /\ GoesTo("worker", "mark") /\ NoTrouble
       \/ Trouble /\ Rests("worker") /\ UNCHANGED report
    /\ UNCHANGED <<probing, card, clockwork, metagraph, audited, snapshot, snapBy, history, lost, weights>>

MarkAudited ==
    /\ PublisherAt("worker", "mark")
    /\ audited' = publisher["worker"].e /\ Rests("worker")
    /\ NoTrouble /\ UNCHANGED <<probing, card, clockwork, metagraph, snapshot, snapBy, records, weights>>

(* The world.                                                                 *)
EpochCloses ==
    /\ epoch < MaxEpoch /\ epoch' = epoch + 1 /\ due' = FALSE
    /\ NoTrouble /\ UNCHANGED <<probing, card, allowed, onChain, metagraph, audited, publisher, snapshot, snapBy, records, weights>>

BufferPasses ==
    /\ epoch > 0 /\ ~due /\ due' = TRUE
    /\ NoTrouble /\ UNCHANGED <<probing, card, allowed, onChain, epoch, metagraph, audited, publisher, snapshot, snapBy, records, weights>>

WhitelistEdited ==
    /\ \E m \in Miner : allowed' = IF m \in allowed THEN allowed \ {m} ELSE allowed \cup {m}
    /\ Trouble /\ UNCHANGED <<probing, card, onChain, epoch, due, metagraph, audited, publisher, snapshot, snapBy, records, weights>>

NeuronPruned ==
    /\ \E m \in onChain : onChain' = onChain \ {m}
    /\ Trouble /\ UNCHANGED <<probing, card, allowed, epoch, due, metagraph, audited, publisher, snapshot, snapBy, records, weights>>

SyncMetagraph ==
    /\ metagraph # onChain /\ metagraph' = onChain
    /\ NoTrouble /\ UNCHANGED <<probing, card, clockwork, audited, publisher, snapshot, snapBy, records, weights>>

ScoringRestarts ==
    /\ audited' = 0 /\ metagraph' = {}
    /\ publisher' = [x \in Publisher |-> IdlePublish]
    /\ submission' = [s \in Submitter |-> IdleSubmit] /\ canary' = NoCanary
    /\ Trouble /\ UNCHANGED <<issued, results, card, clockwork, snapshot, snapBy, records, weights>>

AuditSteps == AuditStarts \/ PublishCards("worker") \/ SaveSnapshot("worker") \/ SaveHistory
              \/ CommitWeights("worker") \/ GenerateAuditReport \/ MarkAudited

ScoringNext ==
    \/ CreateProbe \/ CanaryStarts \/ CanaryEnds \/ AuditSteps \/ AdminStarts
    \/ \E s \in Submitter : SubmitChecks(s) \/ AddResult(s) \/ ComputeScore(s) \/ SaveScorecard(s)
    \/ PublishCards("admin") \/ SaveSnapshot("admin") \/ CommitWeights("admin")
    \/ EpochCloses \/ BufferPasses \/ WhitelistEdited \/ NeuronPruned \/ SyncMetagraph \/ ScoringRestarts

(* The worker's loop never stops, and blocks keep coming. *)
ScoringFairness == WF_scoreVars(AuditSteps) /\ WF_scoreVars(BufferPasses)
ScoringSpec == ScoringInit /\ [][ScoringNext]_scoreVars /\ ScoringFairness

-----------------------------------------------------------------------------
(* Every variable keeps its type; a challenge gets at most a result per call  *)
(* and its canary's.                                                          *)
ScoringTypeOK ==
    /\ issued \subseteq Probe /\ results \in [Probe -> 0..(Cardinality(Submitter) + 1)]
    /\ canary \in (issued \cap CanaryProbe) \cup {NoCanary}
    /\ card \in [Miner -> Nat] /\ snapshot \in [Miner -> Nat] /\ weights \in [Miner -> Nat]
    /\ allowed \subseteq Miner /\ onChain \subseteq Miner /\ metagraph \subseteq Miner
    /\ epoch \in 0..MaxEpoch /\ due \in BOOLEAN /\ audited \in 0..MaxEpoch
    /\ \A e \in Epoch : history[e] \subseteq [Miner -> Nat] /\ report[e].done \in BOOLEAN
    /\ lost \subseteq Epoch /\ scoreFaults \in 0..MaxScoreFaults

(* "The exact scorecards the weight snapshot was built from": the report of   *)
(* an epoch holds a scorecard vector equal to the snapshot it shows, though   *)
(* results keep arriving, checks fail halfway and the process restarts.  The  *)
(* exception is a snapshot an admin published meanwhile, which has no rows.   *)
ReportReplays ==
    \A e \in Epoch : report[e].done /\ e \notin lost /\ report[e].by = "worker"
                       => report[e].snap \in report[e].rows

(* An epoch that closed is reported, or a later one closes first. *)
ClosedEpochReported ==
    \A e \in Epoch : epoch = e ~> (report[e].done \/ epoch > e)

(* save_scorecard_history: "one row per (hotkey, epoch)".  Not after a        *)
(* restart or a failed check, which publish the epoch again.                  *)
OneVectorPerEpoch == \A e \in Epoch : Cardinality(history[e]) <= 1

(* "duplicate result for challenge": not when two answers are checked         *)
(* before either is added, nor when a miner answers a canary's challenge.     *)
OneResultPerProbe == \A p \in Probe : results[p] <= 1

(* The published report replays, over rows that keep their types. *)
ScoringSafety == ScoringTypeOK /\ ReportReplays
=============================================================================
