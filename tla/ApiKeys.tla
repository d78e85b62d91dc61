------------------------------- MODULE ApiKeys -------------------------------
(***************************************************************************)
(* A customer's API keys, and creates retried under an Idempotency-Key.    *)
(* A key's rights are its scopes (none: full access), its limit of rentals *)
(* at once (NoLimit: none), and whether it is an admin key.                *)
(***************************************************************************)
EXTENDS Naturals, FiniteSets

CONSTANTS
  KeyId, Scope,       \* "keys" is the scope the api-keys routes need
  MaxLimit,           \* bound on max_active_rentals
  Attempt, Body,      \* requests with one Idempotency-Key, and what each asks for
  MaxDeletes,         \* bound on the keys deleted
  MaxRentals          \* bound on the deployments created

NoLimit == MaxLimit + 1

ASSUME ApiKeysAssumption == "keys" \in Scope /\ MaxLimit \in Nat \ {0} /\ Body \in [Attempt -> Nat] /\ MaxDeletes \in Nat /\ MaxRentals \in Nat

Rights == [scopes : SUBSET Scope, limit : 1..NoLimit, admin : BOOLEAN]
FullAccess == [scopes |-> {}, limit |-> NoLimit, admin |-> FALSE]
NoKey == [scopes |-> {}, limit |-> 1, admin |-> TRUE, live |-> FALSE, root |-> FullAccess]

VARIABLES
  keys,       \* the api_keys rows: rights, and (history) the rights the chain of keys began with
  minting,    \* the keys whose requests are past require_api_key
  deletes

keyVars == <<keys, minting, deletes>>

KeyInit == keys = [k \in KeyId |-> NoKey] /\ minting = {} /\ deletes = 0

Allows(r, needed) == r.admin \/ r.scopes = {} \/ needed \in r.scopes     \* _check_scopes

\* create_api_key for the master admin (who may grant admin) and the website's
\* provision secret (who may not): the request's rights as they are.
ProvisionKey(k, asked, master) ==
  /\ ~keys[k].live
  /\ LET r == [asked EXCEPT !.admin = @ /\ master]
     IN keys' = [keys EXCEPT ![k] = [scopes |-> r.scopes, limit |-> r.limit, admin |-> r.admin, live |-> TRUE, root |-> r]]
  /\ UNCHANGED <<minting, deletes>>

\* require_api_key: a customer's own key asks for a new one.
Authenticate(k) ==
  /\ keys[k].live /\ ~keys[k].admin /\ Allows(keys[k], "keys") /\ minting = {}
  /\ minting' = {keys[k]}
  /\ UNCHANGED <<keys, deletes>>

\* May a key with the caller's scopes make one with these?
ScopesNarrow(caller, asked) == caller.scopes # {} => asked.scopes # {} /\ asked.scopes \subseteq caller.scopes
\* Limits are inherited and can only get tighter.
Inherited(caller, asked) == IF asked.limit = NoLimit THEN caller.limit ELSE asked.limit
LimitNarrow(caller, asked) == asked.limit = NoLimit \/ asked.limit <= caller.limit

\* create_api_key for a customer: bound to the caller, never admin, never broader.
CreateApiKey(k, asked) ==
  /\ ~keys[k].live
  /\ \E caller \in minting :
       IF ScopesNarrow(caller, asked) /\ LimitNarrow(caller, asked)
       THEN keys' = [keys EXCEPT ![k] = [scopes |-> asked.scopes, limit |-> Inherited(caller, asked), admin |-> FALSE,
                                         live |-> TRUE, root |-> caller.root]]
       ELSE UNCHANGED keys
  /\ minting' = {}
  /\ UNCHANGED deletes

\* delete_api_key: a scoped key removes only keys no broader than itself.
DeleteApiKey(caller, k) ==
  /\ keys[caller].live /\ keys[k].live /\ deletes < MaxDeletes /\ Allows(keys[caller], "keys")
  /\ keys[caller].scopes # {} /\ ~keys[caller].admin
       => keys[k].scopes # {} /\ keys[k].scopes \subseteq keys[caller].scopes
  /\ keys' = [keys EXCEPT ![k] = NoKey]
  /\ deletes' = deletes + 1
  /\ UNCHANGED minting

KeyNext ==
  \/ \E k \in KeyId, r \in Rights, master \in BOOLEAN : ProvisionKey(k, r, master)
  \/ \E k \in KeyId : Authenticate(k)
  \/ \E k \in KeyId, r \in Rights : CreateApiKey(k, r)
  \/ \E caller, k \in KeyId : DeleteApiKey(caller, k)

Within(r, s) == /\ s.scopes # {} => r.scopes # {} /\ r.scopes \subseteq s.scopes
                /\ r.limit <= s.limit
                /\ r.admin => s.admin

\* However keys beget keys and delete one another, none is broader than the
\* key its chain began with (create_api_key, "never broader than its own").
NoBroaderThanRoot == \A k \in KeyId : keys[k].live => Within(keys[k], keys[k].root)

(***************************************************************************)
(* _with_idempotency around a create.  A handler holds the record's claim  *)
(* only as long as it is not stale; the create itself is a transaction of  *)
(* the control plane.                                                      *)
(***************************************************************************)
VARIABLES
  idem,         \* the record: [state, body, stale]
  attempt,      \* per request: "idle", "run", "made", "failed", "refused", "done", "dead"
  rentals,      \* deployments created
  interrupted   \* history: did a claim end without its outcome recorded, or the record expire?

idemVars == <<idem, attempt, rentals, interrupted>>

NoRecord == [state |-> "none", body |-> 0, stale |-> FALSE]

IdemInit ==
  /\ idem = NoRecord /\ attempt = [a \in Attempt |-> "idle"]
  /\ rentals = 0 /\ interrupted = FALSE

\* idempotency_begin's verdict, under the record's row lock.
Verdict(a) ==
  IF idem.state = "none" \/ idem.stale THEN "new"
  ELSE IF idem.body # Body[a] THEN "mismatch"
  ELSE IF idem.state = "done" THEN "replay" ELSE "in_progress"

IdempotencyBegin(a) ==
  /\ attempt[a] = "idle"
  /\ IF Verdict(a) = "new"
       THEN /\ idem' = [state |-> "pending", body |-> Body[a], stale |-> FALSE]
            /\ attempt' = [attempt EXCEPT ![a] = "run"]
       ELSE /\ attempt' = [attempt EXCEPT ![a] = "refused"]
            /\ UNCHANGED idem
  /\ UNCHANGED <<rentals, interrupted>>

\* _create_deployment: the deployment row is committed.
CreateRuns(a) ==
  /\ attempt[a] = "run" /\ rentals < MaxRentals
  /\ attempt' = [attempt EXCEPT ![a] = "made"] /\ rentals' = rentals + 1
  /\ UNCHANGED <<idem, interrupted>>

\* It raises, before the row (a refusal) or after (the publish failed) ...
CreateRaises(a) ==
  /\ attempt[a] \in {"run", "made"}
  /\ attempt' = [attempt EXCEPT ![a] = "failed"]
  /\ interrupted' = (interrupted \/ attempt[a] = "made")
  /\ UNCHANGED <<idem, rentals>>

\* ... and idempotency_release forgets the record, whoever's it is by now.
IdempotencyRelease(a) ==
  /\ attempt[a] = "failed"
  /\ attempt' = [attempt EXCEPT ![a] = "idle"] /\ idem' = NoRecord
  /\ UNCHANGED <<rentals, interrupted>>

IdempotencyComplete(a) ==
  /\ attempt[a] = "made"
  /\ attempt' = [attempt EXCEPT ![a] = "done"]
  /\ idem' = [state |-> "done", body |-> Body[a], stale |-> FALSE]
  /\ UNCHANGED <<rentals, interrupted>>

\* The client, answered 409 or timed out, sends the request again.
Resend(a) ==
  /\ attempt[a] \in {"refused", "dead"}
  /\ attempt' = [attempt EXCEPT ![a] = "idle"]
  /\ UNCHANGED <<idem, rentals, interrupted>>

RequestDies(a) ==
  /\ attempt[a] \in {"run", "made", "failed"}
  /\ attempt' = [attempt EXCEPT ![a] = "dead"]
  /\ UNCHANGED <<idem, rentals, interrupted>>

\* IDEMPOTENCY_STALE passes for a pending record, or IDEMPOTENCY_TTL for a finished one.
RecordAges ==
  /\ idem.state # "none" /\ ~idem.stale
  /\ idem' = [idem EXCEPT !.stale = TRUE]
  /\ interrupted' = TRUE
  /\ UNCHANGED <<attempt, rentals>>

IdemNext ==
  \/ \E a \in Attempt : \/ IdempotencyBegin(a) \/ CreateRuns(a) \/ CreateRaises(a) \/ IdempotencyRelease(a)
                        \/ IdempotencyComplete(a) \/ Resend(a) \/ RequestDies(a)
  \/ RecordAges

\* Retries under one key rent once, whatever their order, bodies and failures,
\* as long as each claim's outcome is recorded within its two minutes.
RetryRentsOnce == ~interrupted => rentals <= 1

\* A create runs at most once per account, endpoint and Idempotency-Key.
\* (A request that dies after the create leaves a record a retry takes over.)
AtMostOncePerKey == rentals <= 1

\* Every variable keeps its type.
ApiKeysTypeOK ==
  /\ \A k \in KeyId : keys[k].scopes \subseteq Scope /\ keys[k].limit \in 1..NoLimit /\ keys[k].root \in Rights
  /\ idem.state \in {"none", "pending", "done"} /\ idem.stale \in BOOLEAN
  /\ attempt \in [Attempt -> {"idle", "run", "made", "failed", "refused", "done", "dead"}]
=============================================================================
