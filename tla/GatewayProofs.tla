---------------------------- MODULE GatewayProofs ----------------------------
(***************************************************************************)
(* What holds of the gateway's parts around the rentals, for every value   *)
(* of the constants and every interleaving of the parts.                   *)
(***************************************************************************)
EXTENDS MCGateway, TotalsProofs, SequenceTheorems, TLAPS

(***************************************************************************)
(* Accounts: signing up.                                                   *)
(***************************************************************************)

SignedUp == {r \in Registrar : signup[r].pc = "done"}

\* Each account was made by a sign-up that is done.
SignInv ==
  /\ signup \in [Registrar -> [pc : {"email", "name", "save", "done"}, name : 0 .. MaxNames]]
  /\ \A r \in Registrar : signup[r].pc = "save" => signup[r].name \in 1 .. MaxNames
  /\ accounts \subseteq 1 .. MaxNames
  /\ Cardinality(accounts) <= Cardinality(SignedUp)

\* Sign-ups and accounts are finitely many.
LEMMA SignUpsFinite ==
  ASSUME SignInv
  PROVE  /\ IsFiniteSet(accounts) /\ Cardinality(accounts) \in Nat
         /\ IsFiniteSet(SignedUp) /\ Cardinality(SignedUp) \in Nat
         /\ Cardinality(SignedUp) <= Cardinality(Registrar) /\ Cardinality(Registrar) \in Nat
<1>1. IsFiniteSet(1 .. MaxNames)
  BY AccountsAssumption, FS_Interval
<1>2. IsFiniteSet(accounts)
  BY <1>1, FS_Subset DEF SignInv
<1>3. IsFiniteSet(Registrar) /\ SignedUp \subseteq Registrar
  BY AccountsAssumption DEF SignedUp
<1> QED
  BY <1>2, <1>3, FS_Subset, FS_CardinalityType

\* There is a free username: more candidates than names in use.
LEMMA FreeUsername ==
  ASSUME SignInv
  PROVE  UniqueUsername(TakenNames \cup accounts) \in 1 .. MaxNames
<1> DEFINE used == TakenNames \cup accounts
           unused == (1 .. MaxNames) \ used
<1>1. IsFiniteSet(1 .. MaxNames) /\ Cardinality(1 .. MaxNames) = MaxNames
  <2>1. MaxNames \in Nat \ {0}
    BY AccountsAssumption
  <2>2. 1 \in Int /\ MaxNames \in Int
    BY <2>1
  <2>3. IsFiniteSet(1 .. MaxNames) /\ Cardinality(1 .. MaxNames) = IF 1 > MaxNames THEN 0 ELSE MaxNames - 1 + 1
    BY <2>2, FS_Interval
  <2> QED
    BY <2>1, <2>3
<1>2. IsFiniteSet(TakenNames) /\ Cardinality(TakenNames) \in Nat
  <2>1. TakenNames \subseteq 1 .. MaxNames
    BY AccountsAssumption
  <2> QED
    BY <1>1, <2>1, FS_Subset, FS_CardinalityType
<1>3. IsFiniteSet(TakenNames \cap accounts) /\ Cardinality(TakenNames \cap accounts) \in Nat
  BY <1>2, FS_Subset, FS_CardinalityType
<1>4. IsFiniteSet(used) /\ Cardinality(used) = Cardinality(TakenNames) + Cardinality(accounts) - Cardinality(TakenNames \cap accounts)
  BY <1>2, SignUpsFinite, FS_Union
<1>5. Cardinality(used) < MaxNames
  <2>1. MaxNames > Cardinality(TakenNames) + Cardinality(Registrar) /\ MaxNames \in Nat
    BY AccountsAssumption
  <2>2. Cardinality(accounts) <= Cardinality(SignedUp)
    BY DEF SignInv
  <2> HIDE DEF used
  <2> QED
    BY <1>2, <1>3, <1>4, <2>1, <2>2, SignUpsFinite
<1>6. unused # {}
  <2> SUFFICES ASSUME 1 .. MaxNames \subseteq used PROVE FALSE
    OBVIOUS
  <2>1. Cardinality(1 .. MaxNames) <= Cardinality(used)
    BY <1>4, FS_Subset
  <2>2. Cardinality(used) \in Nat /\ MaxNames \in Nat
    BY <1>4, FS_CardinalityType, AccountsAssumption
  <2> HIDE DEF used
  <2> QED
    BY <1>1, <1>5, <2>1, <2>2
<1>7. unused \subseteq Nat
  OBVIOUS
<1> HIDE DEF used
<1>8. Min(unused) \in unused
  BY <1>6, <1>7, MinOfNaturals
<1> QED
  BY <1>8 DEF UniqueUsername, used

\* The first state satisfies it.
LEMMA SignInvInit == SignInit => SignInv
<1> SUFFICES ASSUME SignInit PROVE SignInv
  OBVIOUS
<1> USE AccountsAssumption
<1>1. accounts = {} /\ Cardinality(accounts) = 0
  BY FS_EmptySet DEF SignInit
<1>2. IsFiniteSet(SignedUp)
  BY FS_Subset DEF SignedUp
<1>3. Cardinality(SignedUp) \in Nat
  BY <1>2, FS_CardinalityType
<1> QED
  BY <1>1, <1>3 DEF SignInit, SignInv

\* A sign-up keeps it.
LEMMA SignInvKept == SignInv /\ [SignNext]_signVars => SignInv'
<1> USE AccountsAssumption
<1>1. ASSUME SignInv, NEW r \in Registrar, LookUpEmail(r) PROVE SignInv'
  <2>1. signup' = [signup EXCEPT ![r].pc = IF accounts = {} THEN "name" ELSE "done"] /\ signup[r].pc = "email" /\ UNCHANGED accounts
    BY <1>1 DEF LookUpEmail
  <2>2. SignedUp \subseteq SignedUp' /\ SignedUp' \subseteq Registrar
    BY <1>1, <2>1 DEF SignedUp, SignInv
  <2>3. IsFiniteSet(SignedUp')
    BY <2>2, FS_Subset
  <2>4. Cardinality(SignedUp) <= Cardinality(SignedUp') /\ Cardinality(SignedUp') \in Nat
    BY <2>2, <2>3, FS_Subset, FS_CardinalityType
  <2>5. Cardinality(accounts') <= Cardinality(SignedUp')
    BY <1>1, <2>1, <2>4, SignUpsFinite DEF SignInv
  <2> QED
    BY <1>1, <2>1, <2>5 DEF SignInv
<1>2. ASSUME SignInv, NEW r \in Registrar, PickUsername(r) PROVE SignInv'
  <2> DEFINE n == UniqueUsername(TakenNames \cup accounts)
  <2>1. signup' = [signup EXCEPT ![r] = [pc |-> "save", name |-> n]] /\ signup[r].pc = "name" /\ UNCHANGED accounts
    BY <1>2 DEF PickUsername
  <2>2. n \in 1 .. MaxNames
    BY <1>2, FreeUsername
  <2> HIDE DEF n
  <2>3. SignedUp' = SignedUp
    BY <1>2, <2>1 DEF SignedUp, SignInv
  <2> QED
    BY <1>2, <2>1, <2>2, <2>3 DEF SignInv
<1>3. ASSUME SignInv, NEW r \in Registrar, SaveUser(r) PROVE SignInv'
  <2>1. CASE signup[r].name \in TakenNames \cup accounts
    <3>1. signup' = [signup EXCEPT ![r].pc = "email"] /\ signup[r].pc = "save" /\ UNCHANGED accounts
      BY <1>3, <2>1 DEF SaveUser
    <3>2. SignedUp' = SignedUp
      BY <1>3, <3>1 DEF SignedUp, SignInv
    <3> QED
      BY <1>3, <3>1, <3>2 DEF SignInv
  <2>2. CASE signup[r].name \notin TakenNames \cup accounts
    <3>1. signup' = [signup EXCEPT ![r].pc = "done"] /\ signup[r].pc = "save" /\ accounts' = accounts \cup {signup[r].name}
      BY <1>3, <2>2 DEF SaveUser
    <3>2. SignedUp' = SignedUp \cup {r} /\ r \notin SignedUp
      BY <1>3, <3>1 DEF SignedUp, SignInv
    <3>3. Cardinality(SignedUp') = Cardinality(SignedUp) + 1
      BY <1>3, <3>2, SignUpsFinite, FS_AddElement
    <3>4. Cardinality(accounts') = Cardinality(accounts) + 1
      BY <1>3, <2>2, <3>1, SignUpsFinite, FS_AddElement
    <3>5. Cardinality(accounts') <= Cardinality(SignedUp')
      BY <1>3, <3>3, <3>4, SignUpsFinite DEF SignInv
    <3> QED
      BY <1>3, <3>1, <3>5 DEF SignInv
  <2> QED
    BY <2>1, <2>2
<1>4. ASSUME SignInv, UNCHANGED signVars PROVE SignInv'
  BY <1>4 DEF signVars, SignInv, SignedUp
<1> QED
  BY <1>1, <1>2, <1>3, <1>4 DEF SignNext, SignStep

(***************************************************************************)
(* Accounts: a profile edit beside the ledger.                             *)
(***************************************************************************)

\* No balance, current or read, exceeds the entries made; an edit that nothing
\* crossed has read what the ledger says.
ProfileInv ==
  /\ entries \in 0 .. MaxLedger /\ edits \in Nat
  /\ cents \in 0 .. entries /\ edit \in -1 .. entries /\ ledgerSum \in Int /\ crossedEdit \in BOOLEAN
  /\ ~crossedEdit => cents = ledgerSum /\ (edit # -1 => edit = cents)

\* The first state satisfies it.
LEMMA ProfileInvInit == ProfileInit => ProfileInv
<1> SUFFICES ASSUME ProfileInit PROVE ProfileInv
  OBVIOUS
<1>1. MaxLedger \in Nat
  BY AccountsAssumption
<1>2. cents = 0 /\ ledgerSum = 0 /\ edit = -1 /\ ~crossedEdit /\ crossedEdit \in BOOLEAN /\ entries = 0 /\ edits = 0
  BY DEF ProfileInit
<1>3. entries \in 0 .. MaxLedger /\ edits \in Nat /\ cents \in 0 .. entries /\ edit \in -1 .. entries /\ ledgerSum \in Int
  BY <1>1, <1>2
<1> QED
  BY <1>2, <1>3 DEF ProfileInv

\* An entry, a read and a save keep it.
LEMMA ProfileInvKept == ProfileInv /\ [ProfileNext]_profileVars => ProfileInv'
<1> USE AccountsAssumption
<1>1. ASSUME ProfileInv, NEW amount \in {-1, 1}, LedgerEntry(amount) PROVE ProfileInv'
  <2>0. /\ entries \in 0 .. MaxLedger /\ cents \in 0 .. entries /\ edit \in -1 .. entries /\ ledgerSum \in Int
        /\ entries < MaxLedger /\ cents + amount >= 0 /\ MaxLedger \in Nat
    BY <1>1 DEF LedgerEntry, ProfileInv
  <2>1. entries + 1 \in 0 .. MaxLedger /\ cents + amount \in 0 .. entries + 1 /\ ledgerSum + amount \in Int
        /\ edit \in -1 .. entries + 1
    BY <2>0
  <2>2. ~crossedEdit /\ edit = -1 => cents + amount = ledgerSum + amount
    BY <1>1 DEF ProfileInv
  <2>3. ~crossedEdit' => cents' = ledgerSum' /\ (edit' # -1 => edit' = cents')
    BY <1>1, <2>2 DEF LedgerEntry, ProfileInv
  <2> QED
    BY <1>1, <2>1, <2>3 DEF LedgerEntry, ProfileInv
<1>2. ASSUME ProfileInv, UpdateUserProfile PROVE ProfileInv'
  BY <1>2 DEF UpdateUserProfile, ProfileInv
<1>3. ASSUME ProfileInv, SaveProfile PROVE ProfileInv'
  BY <1>3 DEF SaveProfile, SavedBalance, ProfileInv
<1>4. ASSUME ProfileInv, UNCHANGED profileVars PROVE ProfileInv'
  BY <1>4 DEF profileVars, ProfileInv
<1> QED
  BY <1>1, <1>2, <1>3, <1>4 DEF ProfileNext

(***************************************************************************)
(* Accounts: the website's admins and their managed keys.                  *)
(***************************************************************************)

\* Without the row nobody is at work on a key, unless somebody was when it went;
\* and what its removal has listed, or finds when it lists, is all there is.
AdminInv ==
  /\ isAdmin \in BOOLEAN /\ crossedFetch \in BOOLEAN
  /\ keysMade \in Nat /\ adminKeys \subseteq 1 .. keysMade
  /\ fetch \in [Fetcher -> {"idle", "list", "save"}]
  /\ removal \in [pc : {"idle", "list", "delete"}, doomed : SUBSET (1 .. keysMade)]
  /\ ~isAdmin /\ ~crossedFetch =>
       /\ \A f \in Fetcher : fetch[f] = "idle"
       /\ removal.pc = "delete" => adminKeys \subseteq removal.doomed
       /\ removal.pc = "idle" => adminKeys = {}

\* The first state satisfies it.
LEMMA AdminInvInit == AdminInit => AdminInv
<1> SUFFICES ASSUME AdminInit PROVE AdminInv
  OBVIOUS
<1>1. removal \in [pc : {"idle", "list", "delete"}, doomed : SUBSET (1 .. keysMade)]
  BY DEF AdminInit
<1> QED
  BY <1>1 DEF AdminInit, AdminInv

\* Every step of an admin, a removal or a fetch keeps it.
LEMMA AdminInvKept == AdminInv /\ [AdminNext]_adminVars => AdminInv'
<1>1. ASSUME AdminInv, AddAdmin PROVE AdminInv'
  BY <1>1 DEF AddAdmin, AdminInv
<1>2. ASSUME AdminInv, RemoveAdmin PROVE AdminInv'
  BY <1>2 DEF RemoveAdmin, AdminInv
<1>3. ASSUME AdminInv, ListDoomed PROVE AdminInv'
  BY <1>3 DEF ListDoomed, ManagedKeys, AdminInv
<1>4. ASSUME AdminInv, DeleteDoomed PROVE AdminInv'
  <2>1. CASE removal.doomed = {}
    BY <1>4, <2>1 DEF DeleteDoomed, AdminInv
  <2>2. CASE removal.doomed # {}
    <3>1. PICK k \in removal.doomed : adminKeys' = adminKeys \ {k} /\ removal' = [removal EXCEPT !.doomed = @ \ {k}]
      BY <1>4, <2>2 DEF DeleteDoomed
    <3>2. removal.pc = "delete" /\ UNCHANGED <<isAdmin, keysMade, fetch, crossedFetch>>
      BY <1>4 DEF DeleteDoomed
    <3>3. removal' = [pc |-> "delete", doomed |-> removal.doomed \ {k}]
      BY <1>4, <3>1, <3>2 DEF AdminInv
    <3> QED
      BY <1>4, <3>1, <3>2, <3>3 DEF AdminInv
  <2> QED
    BY <2>1, <2>2
<1>5. ASSUME AdminInv, NEW f \in Fetcher, FetchChecks(f) PROVE AdminInv'
  BY <1>5 DEF FetchChecks, AdminInv
<1>6. ASSUME AdminInv, NEW f \in Fetcher, FetchLists(f) PROVE AdminInv'
  BY <1>6 DEF FetchLists, AdminInv
<1>7. ASSUME AdminInv, NEW f \in Fetcher, FetchSaves(f) PROVE AdminInv'
  BY <1>7 DEF FetchSaves, AdminInv
<1>8. ASSUME AdminInv, UNCHANGED adminVars PROVE AdminInv'
  BY <1>8 DEF adminVars, AdminInv
<1> QED
  BY <1>1, <1>2, <1>3, <1>4, <1>5, <1>6, <1>7, <1>8 DEF AdminNext

(***************************************************************************)
(* API keys.                                                               *)
(***************************************************************************)

KeyRow == [scopes : SUBSET Scope, limit : 1 .. NoLimit, admin : BOOLEAN, live : BOOLEAN, root : Rights]

\* A key in use, or past the check of a create, is within its root.
KeysWithin ==
  /\ keys \in [KeyId -> KeyRow] /\ minting \subseteq KeyRow
  /\ NoBroaderThanRoot
  /\ \A r \in minting : Within(r, r.root)

\* A key made for a caller is within the caller's rights, and so within its root.
LEMMA ChildWithin ==
  ASSUME NEW caller \in KeyRow, NEW asked \in Rights, Within(caller, caller.root),
         ScopesNarrow(caller, asked), LimitNarrow(caller, asked)
  PROVE  LET child == [scopes |-> asked.scopes, limit |-> Inherited(caller, asked), admin |-> FALSE, live |-> TRUE, root |-> caller.root]
         IN  child \in KeyRow /\ Within(child, child.root)
<1> DEFINE child == [scopes |-> asked.scopes, limit |-> Inherited(caller, asked), admin |-> FALSE, live |-> TRUE, root |-> caller.root]
<1>1. MaxLimit \in Nat /\ NoLimit \in Nat
  BY ApiKeysAssumption DEF NoLimit
<1>2. caller.limit \in 1 .. NoLimit /\ asked.limit \in 1 .. NoLimit /\ caller.root.limit \in 1 .. NoLimit
  BY DEF KeyRow, Rights
<1>3. Inherited(caller, asked) \in 1 .. NoLimit /\ Inherited(caller, asked) <= caller.limit
  BY <1>1, <1>2 DEF Inherited, LimitNarrow
<1>4. Inherited(caller, asked) <= caller.root.limit
  BY <1>1, <1>2, <1>3 DEF Within
<1>5. caller.root.scopes # {} => asked.scopes # {} /\ asked.scopes \subseteq caller.root.scopes
  BY DEF Within, ScopesNarrow
<1>6. child \in KeyRow
  BY <1>3 DEF KeyRow, Rights
<1>7. Within(child, child.root)
  BY <1>4, <1>5 DEF Within
<1> QED
  BY <1>6, <1>7

\* The first state satisfies it.
LEMMA KeysWithinInit == KeyInit => KeysWithin
<1> SUFFICES ASSUME KeyInit PROVE KeysWithin
  OBVIOUS
<1>1. NoKey \in KeyRow
  BY ApiKeysAssumption DEF NoKey, KeyRow, FullAccess, Rights, NoLimit
<1> QED
  BY <1>1 DEF KeyInit, KeysWithin, NoBroaderThanRoot, NoKey

\* Making and deleting keys keeps it.
LEMMA KeysWithinKept == KeysWithin /\ [KeyNext]_keyVars => KeysWithin'
<1>1. ASSUME KeysWithin, NEW k \in KeyId, NEW asked \in Rights, NEW master \in BOOLEAN, ProvisionKey(k, asked, master)
      PROVE  KeysWithin'
  <2> DEFINE r == [asked EXCEPT !.admin = @ /\ master]
             new == [scopes |-> r.scopes, limit |-> r.limit, admin |-> r.admin, live |-> TRUE, root |-> r]
  <2>1. keys' = [keys EXCEPT ![k] = new] /\ UNCHANGED minting
    BY <1>1 DEF ProvisionKey
  <2>2. r \in Rights
    BY DEF Rights
  <2>3. r.limit \in Nat
    BY <2>2, ApiKeysAssumption DEF Rights, NoLimit
  <2> HIDE DEF r
  <2>4. new \in KeyRow /\ Within(new, new.root)
    BY <2>2, <2>3 DEF KeyRow, Within, Rights
  <2> HIDE DEF new
  <2> QED
    BY <1>1, <2>1, <2>4 DEF KeysWithin, NoBroaderThanRoot
<1>2. ASSUME KeysWithin, NEW k \in KeyId, Authenticate(k) PROVE KeysWithin'
  BY <1>2 DEF Authenticate, KeysWithin, NoBroaderThanRoot
<1>3. ASSUME KeysWithin, NEW k \in KeyId, NEW asked \in Rights, CreateApiKey(k, asked) PROVE KeysWithin'
  <2>1. PICK caller \in minting :
          IF ScopesNarrow(caller, asked) /\ LimitNarrow(caller, asked)
          THEN keys' = [keys EXCEPT ![k] = [scopes |-> asked.scopes, limit |-> Inherited(caller, asked), admin |-> FALSE,
                                            live |-> TRUE, root |-> caller.root]]
          ELSE UNCHANGED keys
    BY <1>3 DEF CreateApiKey
  <2>2. minting' = {} /\ caller \in KeyRow /\ Within(caller, caller.root)
    BY <1>3 DEF CreateApiKey, KeysWithin
  <2>3. CASE UNCHANGED keys
    BY <1>3, <2>2, <2>3 DEF KeysWithin, NoBroaderThanRoot
  <2>4. CASE ScopesNarrow(caller, asked) /\ LimitNarrow(caller, asked)
    <3>1. PICK child \in KeyRow : Within(child, child.root) /\ keys' = [keys EXCEPT ![k] = child]
      BY <2>1, <2>2, <2>4, ChildWithin
    <3> QED
      BY <1>3, <2>2, <3>1 DEF KeysWithin, NoBroaderThanRoot
  <2> QED
    BY <2>1, <2>3, <2>4
<1>4. ASSUME KeysWithin, NEW caller \in KeyId, NEW k \in KeyId, DeleteApiKey(caller, k) PROVE KeysWithin'
  <2>1. NoKey \in KeyRow /\ ~NoKey.live
    BY ApiKeysAssumption DEF NoKey, KeyRow, FullAccess, Rights, NoLimit
  <2>2. keys' = [keys EXCEPT ![k] = NoKey] /\ UNCHANGED minting
    BY <1>4 DEF DeleteApiKey
  <2> QED
    BY <1>4, <2>1, <2>2 DEF KeysWithin, NoBroaderThanRoot
<1>5. ASSUME KeysWithin, UNCHANGED keyVars PROVE KeysWithin'
  BY <1>5 DEF keyVars, KeysWithin, NoBroaderThanRoot
<1> QED
  BY <1>1, <1>2, <1>3, <1>4, <1>5 DEF KeyNext

(***************************************************************************)
(* Creates under an Idempotency-Key.                                       *)
(***************************************************************************)

AttemptState == {"idle", "run", "made", "failed", "refused", "done", "dead"}
Claims(a) == attempt[a] \in {"run", "made", "failed"}

\* Until a claim is interrupted the record names the one claimant, and the
\* deployment is there once that claimant made it.
IdemInv ==
  /\ idem.state \in {"none", "pending", "done"} /\ idem.stale \in BOOLEAN
  /\ attempt \in [Attempt -> AttemptState] /\ rentals \in Nat
  /\ ~interrupted =>
       /\ ~idem.stale /\ rentals <= 1
       /\ idem.state = "none" => rentals = 0
       /\ \A a \in Attempt :
            /\ Claims(a) => idem.state = "pending"
            /\ attempt[a] \in {"run", "failed"} => rentals = 0
            /\ \A b \in Attempt : Claims(a) /\ Claims(b) => a = b

\* The first state satisfies it.
LEMMA IdemInvInit == IdemInit => IdemInv
BY DEF IdemInit, IdemInv, NoRecord, AttemptState, Claims

\* Every step of a request, a retry or the clock keeps it.
LEMMA IdemInvKept == IdemInv /\ [IdemNext]_idemVars => IdemInv'
<1> USE DEF AttemptState, Claims
<1>1. ASSUME IdemInv, NEW a \in Attempt, IdempotencyBegin(a) PROVE IdemInv'
  <2>1. CASE Verdict(a) = "new"
    <3>1. idem.state = "none" \/ idem.stale
      BY <2>1 DEF Verdict
    <3>2. idem' = [state |-> "pending", body |-> Body[a], stale |-> FALSE] /\ attempt' = [attempt EXCEPT ![a] = "run"]
          /\ UNCHANGED <<rentals, interrupted>>
      BY <1>1, <2>1 DEF IdempotencyBegin
    <3> QED
      BY <1>1, <3>1, <3>2 DEF IdemInv
  <2>2. CASE Verdict(a) # "new"
    BY <1>1, <2>2 DEF IdempotencyBegin, IdemInv
  <2> QED
    BY <2>1, <2>2
<1>2. ASSUME IdemInv, NEW a \in Attempt, CreateRuns(a) PROVE IdemInv'
  BY <1>2 DEF CreateRuns, IdemInv
<1>3. ASSUME IdemInv, NEW a \in Attempt, CreateRaises(a) PROVE IdemInv'
  BY <1>3 DEF CreateRaises, IdemInv
<1>4. ASSUME IdemInv, NEW a \in Attempt, IdempotencyRelease(a) PROVE IdemInv'
  BY <1>4 DEF IdempotencyRelease, NoRecord, IdemInv
<1>5. ASSUME IdemInv, NEW a \in Attempt, IdempotencyComplete(a) PROVE IdemInv'
  BY <1>5 DEF IdempotencyComplete, IdemInv
<1>6. ASSUME IdemInv, NEW a \in Attempt, Resend(a) PROVE IdemInv'
  BY <1>6 DEF Resend, IdemInv
<1>7. ASSUME IdemInv, NEW a \in Attempt, RequestDies(a) PROVE IdemInv'
  BY <1>7 DEF RequestDies, IdemInv
<1>8. ASSUME IdemInv, RecordAges PROVE IdemInv'
  BY <1>8 DEF RecordAges, IdemInv
<1>9. ASSUME IdemInv, UNCHANGED idemVars PROVE IdemInv'
  BY <1>9 DEF idemVars, IdemInv
<1> QED
  BY <1>1, <1>2, <1>3, <1>4, <1>5, <1>6, <1>7, <1>8, <1>9 DEF IdemNext

(***************************************************************************)
(* A key's limits.                                                         *)
(***************************************************************************)

Asking == {r \in Creation : creation[r] > 0}

\* The types, the count of revived rentals, and the bound itself.
LimitInv ==
  /\ LimitTypeOK /\ keyEvents \in 0 .. MaxKeyEvents /\ revived <= keyEvents
  /\ OvershootBounded

\* Active rentals and requests in their checks are numbers.
LEMMA LimitNumbers ==
  ASSUME LimitInv
  PROVE  /\ IsFiniteSet(KeyActive) /\ Cardinality(KeyActive) \in Nat
         /\ IsFiniteSet(Asking) /\ Cardinality(Asking) \in Nat
         /\ Cardinality(Asking) <= Cardinality(Creation) /\ Cardinality(Creation) \in Nat
         /\ MaxActive \in Nat /\ MaxActive > 0 /\ MaxKeyEvents \in Nat /\ MaxSpend \in Nat
         /\ revived \in 0 .. MaxKeyEvents
<1>1. KeyActive \subseteq KeyRental /\ Asking \subseteq Creation
  BY DEF KeyActive, Asking
<1> QED
  BY <1>1, KeyLimitsAssumption, FS_Subset, FS_CardinalityType DEF LimitInv, LimitTypeOK

\* Both reads of the room.
LEMMA TwoReads == Len(RoomReads) = 2 /\ RoomReads[1] = "active" /\ RoomReads[2] = "spend"
BY DEF RoomReads

\* One member more, or none.
LEMMA OneMoreAtMost ==
  ASSUME NEW S, IsFiniteSet(S), NEW x
  PROVE  Cardinality(S \cup {x}) \in Nat /\ Cardinality(S) \in Nat /\ Cardinality(S \cup {x}) <= Cardinality(S) + 1
<1>1. IsFiniteSet(S \cup {x}) /\ Cardinality(S \cup {x}) = IF x \in S THEN Cardinality(S) ELSE Cardinality(S) + 1
  BY FS_AddElement
<1>2. Cardinality(S) \in Nat
  BY FS_CardinalityType
<1> QED
  BY <1>1, <1>2

\* A step that adds neither an active rental nor a request in its checks keeps the bound.
LEMMA NoMoreActive ==
  ASSUME LimitInv, KeyActive' \subseteq KeyActive, Asking' \subseteq Asking, revived' \in Nat, revived' >= revived
  PROVE  OvershootBounded'
<1>1. Cardinality(KeyActive') \in Nat /\ Cardinality(KeyActive') <= Cardinality(KeyActive)
  BY LimitNumbers, FS_Subset, FS_CardinalityType
<1>2. Cardinality(Asking') \in Nat /\ Cardinality(Asking') <= Cardinality(Asking)
  BY LimitNumbers, FS_Subset, FS_CardinalityType
<1>3. Cardinality(KeyActive) + Cardinality(Asking) <= MaxActive + Cardinality(Creation) - 1 + revived
  BY DEF LimitInv, OvershootBounded, Asking
<1>4. Cardinality(KeyActive') + Cardinality(Asking') <= MaxActive + Cardinality(Creation) - 1 + revived'
  BY <1>1, <1>2, <1>3, LimitNumbers
<1> QED
  BY <1>4 DEF OvershootBounded, Asking

\* The first state satisfies it.
LEMMA LimitInvInit == LimitInit => LimitInv
<1> SUFFICES ASSUME LimitInit PROVE LimitInv
  OBVIOUS
<1>1. KeyActive = {} /\ Asking = {}
  BY DEF LimitInit, KeyActive, Asking, FinishedStates
<1>2. Cardinality({}) = 0
  BY FS_EmptySet
<1>3. MaxActive \in Nat \ {0} /\ Cardinality(Creation) \in Nat /\ MaxKeyEvents \in Nat /\ MaxSpend \in Nat
  BY KeyLimitsAssumption, FS_CardinalityType
<1>4. LimitTypeOK /\ keyEvents = 0 /\ revived = 0
  <2>1. Unread \in 0 .. Unread /\ 0 \in 0 .. MaxSpend /\ 0 \in 0 .. Len(RoomReads) /\ 0 \in 0 .. MaxKeyEvents
    BY <1>3, TwoReads DEF Unread
  <2> QED
    BY <2>1 DEF LimitInit, LimitTypeOK, SweepIdle
<1>5. OvershootBounded
  <2>1. Cardinality(KeyActive) + Cardinality(Asking) <= MaxActive + Cardinality(Creation) - 1 + revived
    BY <1>1, <1>2, <1>3, <1>4
  <2> QED
    BY <2>1 DEF OvershootBounded, Asking
<1> QED
  BY <1>3, <1>4, <1>5 DEF LimitInv

\* A read of the room, a create, a move of the control plane, a charge and the sweep keep it.
LEMMA LimitInvKept == LimitInv /\ [LimitNext]_limitVars => LimitInv'
<1> USE KeyLimitsAssumption DEF FinishedStates
<1>1. ASSUME LimitInv, NEW r \in Creation, KeyRentalRoom(r) PROVE LimitInv'
  <2>1. /\ creation[r] < 2 /\ UNCHANGED <<keyRental, keySpend, sweep, revived, keyEvents>>
        /\ creation' = [creation EXCEPT ![r] = IF HasRoom(RoomReads[@ + 1]) THEN @ + 1 ELSE 0]
    BY <1>1, TwoReads DEF KeyRentalRoom
  <2>2. creation \in [Creation -> 0 .. 2]
    BY <1>1, TwoReads DEF LimitInv, LimitTypeOK
  <2>3. creation' \in [Creation -> 0 .. 2]
    BY <2>1, <2>2
  <2>4. LimitTypeOK'
    BY <1>1, <2>1, <2>3, TwoReads DEF LimitInv, LimitTypeOK
  <2>5. KeyActive' = KeyActive
    BY <2>1 DEF KeyActive
  <2>6. CASE creation[r] = 0 /\ HasRoom("active")
    <3>1. Cardinality(KeyActive) < MaxActive
      BY <2>6 DEF HasRoom
    <3>2. Asking' \subseteq Creation
      BY DEF Asking
    <3>3. Cardinality(Asking') \in Nat /\ Cardinality(Asking') <= Cardinality(Creation)
      BY <3>2, FS_Subset, FS_CardinalityType
    <3>4. Cardinality(KeyActive') + Cardinality(Asking') <= MaxActive + Cardinality(Creation) - 1 + revived'
      BY <1>1, <2>1, <2>5, <3>1, <3>3, LimitNumbers
    <3> QED
      BY <1>1, <2>1, <2>4, <3>4 DEF LimitInv, OvershootBounded, Asking
  <2>7. CASE ~(creation[r] = 0 /\ HasRoom("active"))
    <3>1. creation[r] = 0 => creation'[r] = 0
      BY <2>1, <2>2, <2>7, TwoReads
    <3>2. Asking' \subseteq Asking
      BY <2>1, <2>2, <3>1 DEF Asking
    <3>3. OvershootBounded'
      BY <1>1, <2>1, <2>5, <3>2, LimitNumbers, NoMoreActive
    <3> QED
      BY <1>1, <2>1, <2>4, <3>3 DEF LimitInv
  <2> QED
    BY <2>6, <2>7
<1>2. ASSUME LimitInv, NEW r \in Creation, CreateRental(r) PROVE LimitInv'
  <2>1. PICK d \in KeyRental : keyRental[d] = "none" /\ keyRental' = [keyRental EXCEPT ![d] = "pending"]
    BY <1>2 DEF CreateRental
  <2>2. /\ creation[r] = 2 /\ creation' = [creation EXCEPT ![r] = 0]
        /\ UNCHANGED <<keySpend, sweep, revived, keyEvents>>
    BY <1>2, TwoReads DEF CreateRental
  <2>3. LimitTypeOK'
    BY <1>2, <2>1, <2>2, TwoReads DEF LimitInv, LimitTypeOK
  <2>4. KeyActive' = KeyActive \cup {d}
    BY <1>2, <2>1 DEF KeyActive, LimitInv, LimitTypeOK
  <2>5. Asking' = Asking \ {r} /\ r \in Asking
    BY <1>2, <2>2 DEF Asking, LimitInv, LimitTypeOK
  <2>6. Cardinality(KeyActive') <= Cardinality(KeyActive) + 1 /\ Cardinality(KeyActive') \in Nat
    BY <1>2, <2>4, LimitNumbers, OneMoreAtMost
  <2>7. Cardinality(Asking') = Cardinality(Asking) - 1
    BY <1>2, <2>5, LimitNumbers, FS_RemoveElement
  <2>8. Cardinality(KeyActive) + Cardinality(Asking) <= MaxActive + Cardinality(Creation) - 1 + revived
    BY <1>2 DEF LimitInv, OvershootBounded, Asking
  <2>9. Cardinality(KeyActive') + Cardinality(Asking') <= MaxActive + Cardinality(Creation) - 1 + revived'
    BY <1>2, <2>2, <2>6, <2>7, <2>8, LimitNumbers
  <2> QED
    BY <1>2, <2>2, <2>3, <2>9 DEF LimitInv, OvershootBounded, Asking
<1>3. ASSUME LimitInv, NEW d \in KeyRental, KeyRentalMoves(d) PROVE LimitInv'
  <2>1. PICK s \in {"ready", "suspended", "pending", "failed", "terminated"} : keyRental' = [keyRental EXCEPT ![d] = s]
    BY <1>3 DEF KeyRentalMoves
  <2>2. keyRental[d] \in {"pending", "ready", "suspended"} /\ UNCHANGED <<keySpend, creation, sweep, revived, keyEvents>>
    BY <1>3 DEF KeyRentalMoves
  <2>3. LimitTypeOK'
    BY <1>3, <2>1, <2>2 DEF LimitInv, LimitTypeOK
  <2>4. KeyActive' \subseteq KeyActive /\ Asking' = Asking
    BY <1>3, <2>1, <2>2 DEF KeyActive, Asking, LimitInv, LimitTypeOK
  <2>5. OvershootBounded'
    BY <1>3, <2>2, <2>4, LimitNumbers, NoMoreActive
  <2> QED
    BY <1>3, <2>2, <2>3, <2>5 DEF LimitInv
<1>4. ASSUME LimitInv, NEW d \in KeyRental, FailedRequeued(d) PROVE LimitInv'
  <2>1. /\ keyRental' = [keyRental EXCEPT ![d] = "pending"] /\ keyEvents < MaxKeyEvents
        /\ revived' = revived + 1 /\ keyEvents' = keyEvents + 1 /\ UNCHANGED <<keySpend, creation, sweep>>
    BY <1>4 DEF FailedRequeued
  <2>2. keyEvents' \in 0 .. MaxKeyEvents /\ revived' <= keyEvents' /\ revived' \in 0 .. MaxKeyEvents
    BY <1>4, <2>1, LimitNumbers DEF LimitInv
  <2>3. LimitTypeOK'
    BY <1>4, <2>1, <2>2 DEF LimitInv, LimitTypeOK
  <2>4. KeyActive' = KeyActive \cup {d} /\ Asking' = Asking
    BY <1>4, <2>1 DEF KeyActive, Asking, LimitInv, LimitTypeOK
  <2>5. Cardinality(KeyActive') <= Cardinality(KeyActive) + 1 /\ Cardinality(KeyActive') \in Nat
    BY <1>4, <2>4, LimitNumbers, OneMoreAtMost
  <2>6. Cardinality(KeyActive) + Cardinality(Asking) <= MaxActive + Cardinality(Creation) - 1 + revived
    BY <1>4 DEF LimitInv, OvershootBounded, Asking
  <2>7. Cardinality(KeyActive') + Cardinality(Asking') <= MaxActive + Cardinality(Creation) - 1 + revived'
    BY <1>4, <2>1, <2>4, <2>5, <2>6, LimitNumbers
  <2> QED
    BY <1>4, <2>2, <2>3, <2>7 DEF LimitInv, OvershootBounded, Asking
<1>5. ASSUME LimitInv, NEW d \in KeyRental, KeyCharged(d) PROVE LimitInv'
  <2>1. UNCHANGED <<keyRental, creation, sweep, revived, keyEvents>> /\ keySpend' \in 0 .. MaxSpend
    BY <1>5 DEF KeyCharged, LimitInv, LimitTypeOK
  <2> QED
    BY <1>5, <2>1 DEF LimitInv, LimitTypeOK, OvershootBounded, KeyActive
<1>6. ASSUME LimitInv, ServeInference PROVE LimitInv'
  <2>1. UNCHANGED <<keyRental, creation, sweep, revived, keyEvents>> /\ keySpend' \in 0 .. MaxSpend
    BY <1>6 DEF ServeInference, LimitInv, LimitTypeOK
  <2> QED
    BY <1>6, <2>1 DEF LimitInv, LimitTypeOK, OvershootBounded, KeyActive
<1>7. ASSUME LimitInv, ChargesAge PROVE LimitInv'
  <2>1. UNCHANGED <<keyRental, creation, sweep, revived>> /\ keySpend' \in 0 .. MaxSpend
        /\ keyEvents' \in 0 .. MaxKeyEvents /\ revived' <= keyEvents'
    BY <1>7, LimitNumbers DEF ChargesAge, LimitInv, LimitTypeOK
  <2> QED
    BY <1>7, <2>1 DEF LimitInv, LimitTypeOK, OvershootBounded, KeyActive
<1>8. ASSUME LimitInv, SweepStarts PROVE LimitInv'
  <2>1. UNCHANGED <<keyRental, keySpend, creation, revived, keyEvents>> /\ sweep'.todo \subseteq KeyRental
    BY <1>8 DEF SweepStarts
  <2>2. sweep'.spent \in 0 .. Unread
    BY <1>8, LimitNumbers DEF SweepStarts, Unread
  <2> QED
    BY <1>8, <2>1, <2>2 DEF LimitInv, LimitTypeOK, OvershootBounded, KeyActive
<1>9. ASSUME LimitInv, NEW d \in KeyRental, SweepRental(d) PROVE LimitInv'
  <2>1. /\ keyRental' = keyRental \/ keyRental' = Stopped(d)
        /\ UNCHANGED <<keySpend, creation, revived>>
        /\ UNCHANGED keyEvents \/ (keyEvents < MaxKeyEvents /\ keyEvents' = keyEvents + 1)
    BY <1>9 DEF SweepRental
  <2>2. keyEvents' \in 0 .. MaxKeyEvents /\ revived' <= keyEvents'
    BY <1>9, <2>1, LimitNumbers DEF LimitInv
  <2>3. SpentByKey \in 0 .. Unread /\ Unread \in 0 .. Unread
    BY <1>9, LimitNumbers DEF LimitInv, LimitTypeOK, SpentByKey, Unread
  <2>4. sweep'.todo \subseteq KeyRental /\ sweep'.spent \in 0 .. Unread
    BY <1>9, <2>3 DEF SweepRental, SweepIdle, LimitInv, LimitTypeOK
  <2>5. keyRental' \in [KeyRental -> {"none", "pending", "ready", "suspended"} \cup FinishedStates]
    BY <1>9, <2>1 DEF Stopped, LimitInv, LimitTypeOK
  <2>6. LimitTypeOK'
    BY <1>9, <2>1, <2>4, <2>5 DEF LimitInv, LimitTypeOK
  <2>7. KeyActive' \subseteq KeyActive /\ Asking' = Asking
    BY <1>9, <2>1 DEF Stopped, KeyActive, Asking, LimitInv, LimitTypeOK
  <2>8. OvershootBounded'
    BY <1>9, <2>1, <2>7, LimitNumbers, NoMoreActive
  <2> QED
    BY <2>2, <2>6, <2>8 DEF LimitInv
<1>10. ASSUME LimitInv, UNCHANGED limitVars PROVE LimitInv'
  BY <1>10 DEF limitVars, LimitInv, LimitTypeOK, OvershootBounded, KeyActive
<1> QED
  BY <1>1, <1>2, <1>3, <1>4, <1>5, <1>6, <1>7, <1>8, <1>9, <1>10 DEF LimitNext, SweepSteps

(***************************************************************************)
(* Provider servers.                                                       *)
(***************************************************************************)

StagesBefore(n) == {Stages[i] : i \in 1 .. n - 1}
AllStages == {Stages[i] : i \in 1 .. Len(Stages)}
JobPc == {"none", "queued", "ssh", "ok", "error", "over", "dead"}

\* A job that goes on has done the stages before its own; one that is ok has
\* found the agent answering, and a row shown as running belongs to a job that is over.
ProvisionInv ==
  /\ listed \in BOOLEAN /\ agent \in [Server -> BOOLEAN] /\ machine \in [Server -> SUBSET AllStages]
  /\ serverRow \in [Server -> {"none", "pending", "provisioning", "running", "failed", "gone"}]
  /\ sshJob \in [Server -> [pc : JobPc, stage : 1 .. 7, checks : 0 .. MaxReadyChecks - 1]]
  /\ \A s \in Server :
       /\ serverRow[s] = "none" <=> sshJob[s].pc = "none"
       /\ sshJob[s].pc \in {"none", "queued", "ssh"} => machine[s] = StagesBefore(sshJob[s].stage)
       /\ sshJob[s].pc = "ok" => agent[s] /\ machine[s] = AllStages
       /\ serverRow[s] = "running" => sshJob[s].pc = "over" /\ agent[s] /\ machine[s] = AllStages

\* The seven stages, and one more each time.
LEMMA SevenStages ==
  /\ Len(Stages) = 7 /\ \A i \in 1 .. 7 : Stages[i] = "ready" <=> i = 7
  /\ StagesBefore(1) = {}
  /\ \A i \in 1 .. 7 : StagesBefore(i) \cup {Stages[i]} = StagesBefore(i + 1) /\ Stages[i] \in AllStages
  /\ StagesBefore(8) = AllStages
<1>1. Len(Stages) = 7
  BY DEF Stages
<1>2. \A i \in 1 .. 7 : Stages[i] = "ready" <=> i = 7
  BY DEF Stages
<1>3. StagesBefore(1) = {}
  BY DEF StagesBefore
<1>4. ASSUME NEW i \in 1 .. 7 PROVE StagesBefore(i) \cup {Stages[i]} = StagesBefore(i + 1) /\ Stages[i] \in AllStages
  <2>1. 1 .. (i + 1) - 1 = (1 .. i - 1) \cup {i}
    OBVIOUS
  <2>2. i \in 1 .. Len(Stages)
    BY <1>1
  <2> QED
    BY <2>1, <2>2, Zenon DEF StagesBefore, AllStages
<1>5. StagesBefore(8) = AllStages
  <2>1. 1 .. 8 - 1 = 1 .. Len(Stages)
    BY <1>1
  <2> QED
    BY <2>1, Zenon DEF StagesBefore, AllStages
<1> QED
  BY <1>1, <1>2, <1>3, <1>4, <1>5

\* The first state satisfies it.
LEMMA ProvisionInvInit == ProvisionInit => ProvisionInv
<1> SUFFICES ASSUME ProvisionInit PROVE ProvisionInv
  OBVIOUS
<1>1. NoJob \in [pc : JobPc, stage : 1 .. 7, checks : 0 .. MaxReadyChecks - 1] /\ NoJob.pc = "none" /\ NoJob.stage = 1
  BY ProvisioningAssumption DEF NoJob, JobPc
<1> HIDE DEF NoJob
<1> QED
  BY <1>1, SevenStages DEF ProvisionInit, ProvisionInv

\* Every step of a job, a deletion and a death keep it, and what is deleted stays deleted.
LEMMA ProvisionInvKept == ProvisionInv /\ [ProvisionNext]_provisionVars => ProvisionInv'
<1> USE ProvisioningAssumption
<1>1. ASSUME ProvisionInv, Whitelisted PROVE ProvisionInv'
  BY <1>1 DEF Whitelisted, ProvisionInv
<1>2. ASSUME ProvisionInv, NEW s \in Server, NEW admin \in BOOLEAN, CreateProviderServer(s, admin) PROVE ProvisionInv'
  BY <1>2 DEF CreateProviderServer, ProvisionInv, JobPc
<1>3. ASSUME ProvisionInv, NEW s \in Server, RunProvisioning(s) PROVE ProvisionInv'
  BY <1>3 DEF RunProvisioning, UpdatedStatus, ProvisionInv, JobPc
<1>4. ASSUME ProvisionInv, NEW s \in Server, StageDone(s) PROVE ProvisionInv'
  <2> DEFINE n == sshJob[s].stage
  <2>1. n \in 1 .. 7 /\ sshJob[s].pc = "ssh" /\ machine[s] = StagesBefore(n)
    BY <1>4 DEF StageDone, ProvisionInv
  <2>2. n # 7 /\ n + 1 \in 1 .. 7
    BY <1>4, <2>1, SevenStages DEF StageDone, Stage
  <2>3. /\ machine' = [machine EXCEPT ![s] = @ \cup {Stages[n]}]
        /\ sshJob' = [sshJob EXCEPT ![s].stage = n + 1]
        /\ UNCHANGED <<listed, serverRow, agent>>
    BY <1>4 DEF StageDone, Stage
  <2>4. Stages[n] \in AllStages /\ machine[s] \cup {Stages[n]} = StagesBefore(n + 1)
    BY <2>1, SevenStages
  <2> HIDE DEF n
  <2>5. machine' \in [Server -> SUBSET AllStages] /\ \A t \in Server : machine'[t] = IF t = s THEN StagesBefore(n + 1) ELSE machine[t]
    BY <1>4, <2>3, <2>4 DEF ProvisionInv
  <2>6. /\ sshJob' \in [Server -> [pc : JobPc, stage : 1 .. 7, checks : 0 .. MaxReadyChecks - 1]]
        /\ \A t \in Server : sshJob'[t].pc = sshJob[t].pc /\ sshJob'[t].stage = IF t = s THEN n + 1 ELSE sshJob[t].stage
    BY <1>4, <2>2, <2>3 DEF ProvisionInv
  <2> QED
    <3>1. ASSUME NEW t \in Server PROVE
            /\ serverRow'[t] = "none" <=> sshJob'[t].pc = "none"
            /\ sshJob'[t].pc \in {"none", "queued", "ssh"} => machine'[t] = StagesBefore(sshJob'[t].stage)
            /\ sshJob'[t].pc = "ok" => agent'[t] /\ machine'[t] = AllStages
            /\ serverRow'[t] = "running" => sshJob'[t].pc = "over" /\ agent'[t] /\ machine'[t] = AllStages
      <4>1. CASE t = s
        BY <1>4, <2>1, <2>3, <2>5, <2>6, <4>1 DEF ProvisionInv
      <4>2. CASE t # s
        BY <1>4, <2>3, <2>5, <2>6, <4>2 DEF ProvisionInv
      <4> QED
        BY <4>1, <4>2
    <3> QED
      BY <1>4, <2>3, <2>5, <2>6, <3>1 DEF ProvisionInv
<1>5. ASSUME ProvisionInv, NEW s \in Server, StageFails(s) PROVE ProvisionInv'
  BY <1>5 DEF StageFails, ProvisionInv, JobPc
<1>6. ASSUME ProvisionInv, NEW s \in Server, CheckReady(s) PROVE ProvisionInv'
  <2>1. /\ sshJob[s].pc = "ssh" /\ Stages[sshJob[s].stage] = "ready" /\ UNCHANGED <<listed, serverRow, agent>>
    BY <1>6 DEF CheckReady, SSHReaches, Stage
  <2>2. sshJob[s].stage = 7 /\ machine[s] = StagesBefore(7)
    BY <1>6, <2>1, SevenStages DEF ProvisionInv
  <2>3. machine[s] \cup {"ready"} = AllStages
    <3>1. 7 \in 1 .. 7 /\ 7 + 1 = 8
      OBVIOUS
    <3> QED
      BY <2>1, <2>2, <3>1, SevenStages
  <2>4. CASE agent[s]
    <3>1. sshJob' = [sshJob EXCEPT ![s].pc = "ok"] /\ machine' = [machine EXCEPT ![s] = @ \cup {"ready"}]
      BY <1>6, <2>4 DEF CheckReady, AgentReady, ProvisionInv
    <3> QED
      BY <1>6, <2>1, <2>2, <2>3, <2>4, <3>1 DEF ProvisionInv, JobPc
  <2>5. CASE ~agent[s] /\ sshJob[s].checks + 1 = MaxReadyChecks
    <3>1. sshJob' = [sshJob EXCEPT ![s].pc = "error"] /\ UNCHANGED machine
      BY <1>6, <2>5 DEF CheckReady, AgentReady, ProvisionInv
    <3> QED
      BY <1>6, <2>1, <3>1 DEF ProvisionInv, JobPc
  <2>6. CASE ~agent[s] /\ sshJob[s].checks + 1 # MaxReadyChecks
    <3> DEFINE more == [sshJob[s] EXCEPT !.checks = sshJob[s].checks + 1]
    <3>1. sshJob' = [sshJob EXCEPT ![s] = IF agent[s] THEN [sshJob[s] EXCEPT !.pc = "ok"]
                       ELSE IF sshJob[s].checks + 1 = MaxReadyChecks THEN [sshJob[s] EXCEPT !.pc = "error"] ELSE more]
      BY <1>6 DEF CheckReady, AgentReady
    <3>2. UNCHANGED machine
      BY <1>6, <2>6 DEF CheckReady, AgentReady
    <3>3. sshJob[s].checks + 1 \in 0 .. MaxReadyChecks - 1
      BY <1>6, <2>6 DEF ProvisionInv
    <3>4. more \in [pc : JobPc, stage : 1 .. 7, checks : 0 .. MaxReadyChecks - 1] /\ more.pc = "ssh" /\ more.stage = sshJob[s].stage
      BY <1>6, <2>1, <3>3 DEF ProvisionInv
    <3> HIDE DEF more
    <3>5. sshJob' = [sshJob EXCEPT ![s] = more]
      BY <2>6, <3>1, Zenon
    <3> QED
      BY <1>6, <2>1, <3>2, <3>4, <3>5 DEF ProvisionInv
  <2> QED
    BY <2>4, <2>5, <2>6
<1>7. ASSUME ProvisionInv, NEW s \in Server, FinishProvisioning(s) PROVE ProvisionInv'
  BY <1>7 DEF FinishProvisioning, UpdatedStatus, ProvisionInv, JobPc
<1>8. ASSUME ProvisionInv, NEW s \in Server, DeleteProviderServer(s) PROVE ProvisionInv'
  BY <1>8 DEF DeleteProviderServer, ProvisionInv
<1>9. ASSUME ProvisionInv, NEW s \in Server, AgentStarts(s) PROVE ProvisionInv'
  BY <1>9 DEF AgentStarts, ProvisionInv
<1>10. ASSUME ProvisionInv, NEW s \in Server, ProvisioningDies(s) PROVE ProvisionInv'
  BY <1>10 DEF ProvisioningDies, ProvisionInv, JobPc
<1>11. ASSUME ProvisionInv, UNCHANGED provisionVars PROVE ProvisionInv'
  BY <1>11 DEF provisionVars, ProvisionInv
<1> QED
  BY <1>1, <1>2, <1>3, <1>4, <1>5, <1>6, <1>7, <1>8, <1>9, <1>10, <1>11 DEF ProvisionNext, JobStep

\* No step brings a deleted server back.
LEMMA NoneComesBack ==
  ASSUME ProvisionInv, [ProvisionNext]_provisionVars, NEW s \in Server, serverRow[s] = "gone"
  PROVE  serverRow'[s] = "gone"
<1>1. ASSUME NEW t \in Server, NEW admin \in BOOLEAN, CreateProviderServer(t, admin) PROVE serverRow'[s] = "gone"
  BY <1>1 DEF CreateProviderServer, ProvisionInv
<1>2. ASSUME NEW t \in Server, RunProvisioning(t) \/ FinishProvisioning(t) PROVE serverRow'[s] = "gone"
  BY <1>2 DEF RunProvisioning, FinishProvisioning, UpdatedStatus, ProvisionInv
<1>3. ASSUME NEW t \in Server, DeleteProviderServer(t) PROVE serverRow'[s] = "gone"
  BY <1>3 DEF DeleteProviderServer, ProvisionInv
<1>4. \/ UNCHANGED serverRow
      \/ \E t \in Server : \/ RunProvisioning(t) \/ FinishProvisioning(t) \/ DeleteProviderServer(t)
                            \/ \E admin \in BOOLEAN : CreateProviderServer(t, admin)
  BY DEF ProvisionNext, Whitelisted, JobStep, StageDone, StageFails, CheckReady, AgentStarts, ProvisioningDies, provisionVars
<1> QED
  BY <1>1, <1>2, <1>3, <1>4

(***************************************************************************)
(* The accounts' parts beside one another.                                 *)
(***************************************************************************)

\* The seven parts run beside one another and share nothing.
AccountSpec ==
  /\ SignInit /\ [][SignNext]_signVars
  /\ ProfileInit /\ [][ProfileNext]_profileVars
  /\ AdminInit /\ [][AdminNext]_adminVars
  /\ KeyInit /\ [][KeyNext]_keyVars
  /\ LimitInit /\ [][LimitNext]_limitVars
  /\ IdemInit /\ [][IdemNext]_idemVars
  /\ ProvisionInit /\ [][ProvisionNext]_provisionVars

\* The invariants of the parts say what the run checks of them.
LEMMA AccountsTypes ==
  ASSUME SignInv, ProfileInv, AdminInv
  PROVE  AccountsTypeOK /\ EditKeepsBalance /\ RemovedHasNoKey
<1>1. cents \in 0 .. MaxLedger /\ edit \in -1 .. MaxLedger /\ ledgerSum \in Int /\ crossedEdit \in BOOLEAN
  BY AccountsAssumption DEF ProfileInv
<1>2. /\ isAdmin \in BOOLEAN /\ adminKeys \subseteq 1 .. keysMade /\ fetch \in [Fetcher -> {"idle", "list", "save"}]
      /\ removal.pc \in {"idle", "list", "delete"} /\ removal.doomed \subseteq 1 .. keysMade
  BY DEF AdminInv
<1>3. /\ signup \in [Registrar -> [pc : {"email", "name", "save", "done"}, name : 0 .. MaxNames]]
      /\ accounts \subseteq 1 .. MaxNames
  BY DEF SignInv
<1>4. EditKeepsBalance
  BY DEF ProfileInv, EditKeepsBalance
<1>5. RemovedHasNoKey
  BY DEF AdminInv, RemovedHasNoKey
<1> QED
  BY <1>1, <1>2, <1>3, <1>4, <1>5 DEF AccountsTypeOK

\* The same for keys and retried creates.
LEMMA KeysTypes ==
  ASSUME KeysWithin, IdemInv
  PROVE  ApiKeysTypeOK /\ NoBroaderThanRoot /\ RetryRentsOnce
<1>1. ASSUME NEW k \in KeyId PROVE keys[k].scopes \subseteq Scope /\ keys[k].limit \in 1 .. NoLimit /\ keys[k].root \in Rights
  BY DEF KeysWithin, KeyRow
<1>2. /\ idem.state \in {"none", "pending", "done"} /\ idem.stale \in BOOLEAN
      /\ attempt \in [Attempt -> {"idle", "run", "made", "failed", "refused", "done", "dead"}]
  BY DEF IdemInv, AttemptState
<1> QED
  BY <1>1, <1>2 DEF ApiKeysTypeOK, KeysWithin, IdemInv, RetryRentsOnce

\* And for provider servers.
LEMMA ProvisionTypes ==
  ASSUME ProvisionInv
  PROVE  ProvisionTypeOK /\ RunningIsReady
<1>1. ASSUME NEW s \in Server
      PROVE  /\ sshJob[s].stage \in 1 .. Len(Stages) /\ sshJob[s].checks \in 0 .. MaxReadyChecks
             /\ serverRow[s] = "none" <=> sshJob[s].pc = "none"
  BY SevenStages, ProvisioningAssumption DEF ProvisionInv
<1>2. ProvisionTypeOK
  BY <1>1 DEF ProvisionTypeOK, ProvisionInv
<1>3. RunningIsReady
  BY DEF ProvisionInv, RunningIsReady, AllStages
<1> QED
  BY <1>2, <1>3

\* A profile edit that no ledger entry crosses keeps the balance, a removed admin has no key, no key outgrows
\* its root, a key's limit is exceeded by no more than the requests that race on it, retries under one key rent
\* once, a running server is ready and a deleted one stays away: whatever the numbers of requests, keys and
\* servers, and whichever step fails (accounts, api_keys, idempotency and provisioning services of the gateway).
THEOREM AccountSafetyHolds == AccountSpec => AccountSafety
<1>1. AccountSpec => [](SignInv /\ ProfileInv /\ AdminInv)
  BY SignInvInit, SignInvKept, ProfileInvInit, ProfileInvKept, AdminInvInit, AdminInvKept, PTL DEF AccountSpec
<1>2. AccountSpec => [](KeysWithin /\ LimitInv /\ IdemInv)
  BY KeysWithinInit, KeysWithinKept, LimitInvInit, LimitInvKept, IdemInvInit, IdemInvKept, PTL DEF AccountSpec
<1>3. AccountSpec => []ProvisionInv
  BY ProvisionInvInit, ProvisionInvKept, PTL DEF AccountSpec
<1>4. SignInv /\ ProfileInv /\ AdminInv => AccountsTypeOK /\ EditKeepsBalance /\ RemovedHasNoKey
  BY AccountsTypes
<1>5. KeysWithin /\ LimitInv /\ IdemInv
      => ApiKeysTypeOK /\ NoBroaderThanRoot /\ RetryRentsOnce /\ LimitTypeOK /\ OvershootBounded
  BY KeysTypes DEF LimitInv
<1>6. ProvisionInv => ProvisionTypeOK /\ RunningIsReady
  BY ProvisionTypes
<1>7. ProvisionInv /\ [ProvisionNext]_provisionVars
      => [\A s \in Server : serverRow[s] = "gone" => serverRow'[s] = "gone"]_provisionVars
  BY NoneComesBack
<1>8. AccountSpec => DeletedStaysGone
  BY <1>3, <1>7, PTL DEF AccountSpec, DeletedStaysGone
<1> QED
  BY <1>1, <1>2, <1>3, <1>4, <1>5, <1>6, <1>8, PTL DEF AccountSafety

(***************************************************************************)
(* Account events and webhooks.                                            *)
(***************************************************************************)

\* The last id a reader can have seen: the customer's lock is held from before an id is
\* given out until its event is committed, or not.
LastVisible == IF eventLock = Nobody THEN eventIds ELSE eventIds - 1

TurnRecord == [pc : {"idle", "send", "ok", "failed"}, batch : SUBSET Nat, cursor : Nat, passed : BOOLEAN]

HookTypes ==
  /\ eventIds \in 0 .. MaxEventIds
  /\ writer \in [Writer -> [pc : {"idle", "inserted"}, id : 0 .. MaxEventIds]]
  /\ eventLock \in Writer \cup {Nobody} /\ passLock \in Gateway \cup {Nobody}
  /\ events \subseteq 1 .. LastVisible
  /\ feed.after \in 0 .. LastVisible
  /\ hook \in [state : {"none", "on", "off", "deleted"}, wanted : SUBSET EventStates, cursor : 0 .. LastVisible,
               failing : {"no", "recent", "old"}, wait : BOOLEAN]
  /\ hookStart \in 0 .. LastVisible
  /\ leads \in [Gateway -> {"no", "leads", "drains"}]
  /\ turn \in [Gateway -> TurnRecord]
  /\ \A g \in Gateway : turn[g].batch \subseteq 1 .. LastVisible /\ turn[g].cursor \in 0 .. LastVisible
  /\ received \in Seq(1 .. LastVisible)

\* The one transaction that has given out an id holds the lock, and its id is the last.
WriterHasLock ==
  \A w \in Writer : writer[w].pc = "inserted" <=> eventLock = w
LastIdIsWriters ==
  \A w \in Writer : writer[w].pc = "inserted" => writer[w].id = eventIds /\ eventIds > 0

\* Has e reached the endpoint, or did the filter pass over it?
Handled(e) == (\E i \in 1 .. Len(received) : received[i] = e) \/ e \in passedOver

\* Before the webhook exists nothing is under way.
NoneIsQuiet ==
  hook.state = "none" =>
    /\ hook.cursor = 0 /\ ~hook.wait /\ hook.failing = "no" /\ received = <<>>
    /\ \A g \in Gateway : turn[g].pc = "idle"

\* What a turn, late ones included, has behind its cursor is handled, and its batch
\* is what follows the cursor, without a gap.
TurnsSound ==
  \A g \in Gateway : turn[g].pc # "idle" =>
    /\ \A e \in events : hookStart < e /\ e <= turn[g].cursor => Handled(e)
    /\ \A b \in turn[g].batch : turn[g].cursor < b
    /\ \A b \in turn[g].batch : \A e \in events : turn[g].cursor < e /\ e <= b => e \in turn[g].batch

CursorSound == \A e \in events : hookStart < e /\ e <= hook.cursor => Handled(e)

HookInv ==
  HookTypes /\ WriterHasLock /\ LastIdIsWriters /\ FeedMissesNothing /\ NoneIsQuiet /\ TurnsSound /\ CursorSound /\ FirstInOrder

\* A longer sequence has all it had.
LEMMA AppendKeeps ==
  ASSUME NEW S, NEW s \in Seq(S), NEW x \in S
  PROVE  /\ Append(s, x) \in Seq(S) /\ Len(Append(s, x)) = Len(s) + 1 /\ Len(s) \in Nat
         /\ \A i \in 1 .. Len(s) : Append(s, x)[i] = s[i]
         /\ Append(s, x)[Len(s) + 1] = x
OBVIOUS

\* What a sequence has is in its set, and in a larger one.
LEMMA SeqWithin ==
  ASSUME NEW S, NEW s \in Seq(S)
  PROVE  /\ \A i \in 1 .. Len(s) : s[i] \in S
         /\ \A R : S \subseteq R => s \in Seq(R)
OBVIOUS

\* The first page of a set of ids: what it has no gap before.
LEMMA PageHasNoGap ==
  ASSUME NEW n \in Nat, NEW S \in SUBSET (1 .. n)
  PROVE  /\ Page(S) \subseteq S
         /\ \A b \in Page(S) : \A e \in S : e <= b => e \in Page(S)
         /\ S # {} => Page(S) # {}
<1> USE WebhooksAssumption
<1>1. IsFiniteSet(1 .. n)
  BY FS_Interval
<1>2. IsFiniteSet(S)
  BY <1>1, FS_Subset
<1>3. ASSUME NEW b \in Page(S), NEW e \in S, e <= b PROVE e \in Page(S)
  <2> DEFINE E == {x \in S : x < e}
             B == {x \in S : x < b}
  <2>1. b \in S /\ Cardinality(B) < Batch
    BY <1>3 DEF Page
  <2>2. E \subseteq B /\ IsFiniteSet(B) /\ IsFiniteSet(E)
    <3>1. e \in Nat /\ b \in Nat /\ \A x \in S : x \in Nat
      BY <2>1
    <3>2. \A x \in S : x < e => x < b
      BY <1>3, <3>1
    <3>3. E \subseteq B /\ B \subseteq S
      BY <3>2
    <3> QED
      BY <1>2, <3>3, FS_Subset
  <2>3. Cardinality(E) <= Cardinality(B) /\ Cardinality(E) \in Nat /\ Cardinality(B) \in Nat
    BY <2>2, FS_Subset, FS_CardinalityType
  <2> HIDE DEF B
  <2>4. Cardinality(E) < Batch
    BY <2>1, <2>3
  <2> QED
    BY <2>4 DEF Page
<1>4. ASSUME S # {} PROVE Page(S) # {}
  <2> DEFINE m == Min(S)
  <2>0. S \in SUBSET Nat /\ \A x \in S : x \in Nat
    OBVIOUS
  <2>1. m \in S /\ \A y \in S : m <= y
    BY <1>4, <2>0, MinOfNaturals
  <2> HIDE DEF m
  <2>2. {x \in S : x < m} = {}
    <3>1. m \in Nat
      BY <2>0, <2>1
    <3>2. \A x \in S : ~(x < m)
      BY <2>0, <2>1, <3>1
    <3> QED
      BY <3>2
  <2>3. Cardinality({x \in S : x < m}) = 0
    BY <2>2, FS_EmptySet
  <2> QED
    BY <2>1, <2>3 DEF Page
<1>5. Page(S) \subseteq S
  BY DEF Page
<1> QED
  BY <1>3, <1>4, <1>5

\* The next event of a turn is the first of its batch.
LEMMA NextOfBatch ==
  ASSUME HookTypes, NEW g \in Gateway, turn[g].batch # {}
  PROVE  /\ Min(turn[g].batch) \in turn[g].batch
         /\ \A b \in turn[g].batch : Min(turn[g].batch) <= b
         /\ Min(turn[g].batch) \in 1 .. LastVisible
<1>1. turn[g].batch \subseteq 1 .. LastVisible /\ turn[g].batch \subseteq Nat
  BY DEF HookTypes, TurnRecord
<1> QED
  BY <1>1, MinOfNaturals

\* Ids are numbers, and none is taken back.
LEMMA Visible ==
  ASSUME HookTypes, LastIdIsWriters, WriterHasLock
  PROVE  LastVisible \in Nat /\ eventIds \in Nat /\ LastVisible <= eventIds
<1>1. eventLock = Nobody \/ eventLock \in Writer
  BY DEF HookTypes
<1>2. eventLock \in Writer => eventIds > 0
  BY DEF WriterHasLock, LastIdIsWriters
<1>3. eventIds \in Nat
  BY WebhooksAssumption DEF HookTypes
<1> QED
  BY <1>1, <1>2, <1>3 DEF LastVisible

\* The first state satisfies it.
LEMMA HookInvInit == HookInit => HookInv
<1> SUFFICES ASSUME HookInit PROVE HookInv
  OBVIOUS
<1> USE WebhooksAssumption
<1>1. LastVisible = 0 /\ eventIds = 0 /\ events = {} /\ received = <<>>
  BY DEF HookInit, LastVisible
<1>2. passLock \in Gateway
  BY DEF HookInit
<1>3. NoTurn \in TurnRecord /\ NoTurn.pc = "idle" /\ NoTurn.batch = {} /\ NoTurn.cursor = 0
  BY DEF NoTurn, TurnRecord
<1>4. leads \in [Gateway -> {"no", "leads", "drains"}]
  BY DEF HookInit
<1>5. turn = [g \in Gateway |-> NoTurn] /\ turn \in [Gateway -> TurnRecord]
  BY <1>3 DEF HookInit
<1>6. received \in Seq(1 .. LastVisible)
  BY <1>1
<1>7. \A g \in Gateway : turn[g].pc = "idle" /\ turn[g].batch = {} /\ turn[g].cursor = 0
  BY <1>3, <1>5
<1>8. HookTypes
  BY <1>1, <1>2, <1>4, <1>5, <1>6, <1>7 DEF HookInit, HookTypes, NoWriter
<1>9. WriterHasLock /\ LastIdIsWriters
  BY DEF HookInit, WriterHasLock, LastIdIsWriters, NoWriter
<1>10. FeedMissesNothing /\ NoneIsQuiet /\ TurnsSound /\ CursorSound
  BY <1>1, <1>7 DEF HookInit, FeedMissesNothing, NoneIsQuiet, TurnsSound, CursorSound
<1>11. FirstInOrder
  BY <1>1 DEF FirstInOrder
<1> QED
  BY <1>8, <1>9, <1>10, <1>11 DEF HookInv

\* A step that leaves the ids, the events and the feed alone.
QuietFeed == UNCHANGED <<writer, eventLock, eventIds, events, feed>>

LEMMA QuietFeedKeeps ==
  ASSUME HookInv, QuietFeed
  PROVE  LastVisible' = LastVisible /\ WriterHasLock' /\ LastIdIsWriters' /\ FeedMissesNothing'
BY DEF HookInv, QuietFeed, LastVisible, WriterHasLock, LastIdIsWriters, FeedMissesNothing

\* A step that leaves all the invariant speaks of, but for the processes' locks.
LEMMA QuietKeeps ==
  ASSUME HookInv, QuietFeed, UNCHANGED <<hook, hookStart, turn, received, passedOver>>,
         leads' \in [Gateway -> {"no", "leads", "drains"}], passLock' \in Gateway \cup {Nobody}
  PROVE  HookInv'
<1>1. LastVisible' = LastVisible /\ WriterHasLock' /\ LastIdIsWriters' /\ FeedMissesNothing'
  BY QuietFeedKeeps
<1>2. UNCHANGED <<writer, eventLock, eventIds, events, feed>>
  BY DEF QuietFeed
<1>3. HookTypes'
  BY <1>1, <1>2 DEF HookInv, HookTypes
<1>4. NoneIsQuiet' /\ TurnsSound' /\ CursorSound' /\ FirstInOrder'
  BY <1>2 DEF HookInv, NoneIsQuiet, TurnsSound, CursorSound, FirstInOrder, Handled
<1> QED
  BY <1>1, <1>3, <1>4 DEF HookInv

\* A new id becomes visible with its commit, not before.
LEMMA AddEventKeeps ==
  ASSUME HookInv, NEW w \in Writer, AddEvent(w)
  PROVE  HookInv'
<1> USE WebhooksAssumption
<1>1. /\ writer[w].pc = "idle" /\ eventIds < MaxEventIds /\ eventLock = Nobody /\ eventLock' = w /\ eventIds' = eventIds + 1
      /\ writer' = [writer EXCEPT ![w] = [pc |-> "inserted", id |-> eventIds + 1]]
      /\ UNCHANGED <<events, feed, hook, hookStart, turn, leads, passLock, received, passedOver>>
  BY DEF AddEvent, turnVars
<1>2. w # Nobody /\ eventIds \in Nat /\ eventIds' \in 0 .. MaxEventIds
  BY <1>1 DEF HookInv, HookTypes
<1>3. LastVisible' = LastVisible
  BY <1>1, <1>2 DEF LastVisible
<1>4. writer' \in [Writer -> [pc : {"idle", "inserted"}, id : 0 .. MaxEventIds]]
  BY <1>1, <1>2 DEF HookInv, HookTypes
<1>5. HookTypes'
  BY <1>1, <1>2, <1>3, <1>4 DEF HookInv, HookTypes
<1>6. \A x \in Writer : writer[x].pc # "inserted"
  BY <1>1 DEF HookInv, WriterHasLock
<1>7. WriterHasLock' /\ LastIdIsWriters'
  BY <1>1, <1>2, <1>6 DEF HookInv, HookTypes, WriterHasLock, LastIdIsWriters
<1>8. FeedMissesNothing' /\ NoneIsQuiet' /\ TurnsSound' /\ CursorSound' /\ FirstInOrder'
  BY <1>1 DEF HookInv, FeedMissesNothing, NoneIsQuiet, TurnsSound, CursorSound, FirstInOrder, Handled
<1> QED
  BY <1>5, <1>7, <1>8 DEF HookInv

\* A commit shows an event beyond all that anybody has read; a rollback shows none.
LEMMA EndTransactionKeeps ==
  ASSUME HookInv, NEW w \in Writer, EndTransaction(w)
  PROVE  HookInv'
<1> USE WebhooksAssumption
<1>1. /\ writer[w].pc = "inserted" /\ writer[w].id = eventIds /\ eventLock = w /\ eventIds > 0 /\ eventIds \in 0 .. MaxEventIds
      /\ eventLock' = Nobody /\ writer' = [writer EXCEPT ![w] = NoWriter]
      /\ UNCHANGED <<eventIds, feed, hook, hookStart, turn, leads, passLock, received, passedOver>>
  BY DEF EndTransaction, turnVars, HookInv, HookTypes, WriterHasLock, LastIdIsWriters
<1>2. events' = events \/ events' = events \cup {eventIds}
  BY <1>1 DEF EndTransaction
<1>3. w # Nobody /\ eventIds \in Nat
  BY <1>1
<1>4. LastVisible = eventIds - 1 /\ LastVisible' = eventIds /\ LastVisible \in Nat
  BY <1>1, <1>3 DEF LastVisible
<1>5. HookTypes'
  <2>2. 1 .. LastVisible \subseteq 1 .. eventIds /\ 0 .. LastVisible \subseteq 0 .. eventIds
    BY <1>3, <1>4
  <2>1. events' \subseteq 1 .. eventIds
    <3>1. events \subseteq 1 .. eventIds
      BY <2>2 DEF HookInv, HookTypes
    <3>2. eventIds \in 1 .. eventIds
      BY <1>1, <1>3
    <3> QED
      BY <1>2, <3>1, <3>2
  <2>3. feed.after \in 0 .. eventIds /\ hookStart \in 0 .. eventIds
    BY <2>2 DEF HookInv, HookTypes
  <2>4. hook \in [state : {"none", "on", "off", "deleted"}, wanted : SUBSET EventStates, cursor : 0 .. eventIds,
                  failing : {"no", "recent", "old"}, wait : BOOLEAN]
    BY <2>2 DEF HookInv, HookTypes
  <2>5. \A g \in Gateway : turn[g].batch \subseteq 1 .. eventIds /\ turn[g].cursor \in 0 .. eventIds
    BY <2>2 DEF HookInv, HookTypes
  <2>6. received \in Seq(1 .. eventIds)
    BY <2>2, SeqWithin DEF HookInv, HookTypes
  <2>7. writer' \in [Writer -> [pc : {"idle", "inserted"}, id : 0 .. MaxEventIds]]
    BY <1>1 DEF HookInv, HookTypes, NoWriter
  <2> QED
    BY <1>1, <1>4, <2>1, <2>3, <2>4, <2>5, <2>6, <2>7 DEF HookInv, HookTypes
<1>6. \A x \in Writer : x # w => writer[x].pc # "inserted"
  BY <1>1 DEF HookInv, WriterHasLock
<1>7. WriterHasLock' /\ LastIdIsWriters'
  <2>1. \A x \in Writer : writer'[x].pc # "inserted"
    BY <1>1, <1>6 DEF HookInv, HookTypes, NoWriter
  <2> QED
    BY <1>1, <2>1 DEF WriterHasLock, LastIdIsWriters
<1>8. \A e \in events' : e \in events \/ e = eventIds
  BY <1>2
<1>9. FeedMissesNothing'
  <2>1. ~(eventIds <= feed.after)
    BY <1>3, <1>4 DEF HookInv, HookTypes
  <2> QED
    BY <1>1, <1>8, <2>1 DEF HookInv, FeedMissesNothing
<1>10. NoneIsQuiet'
  BY <1>1 DEF HookInv, NoneIsQuiet
<1>11. TurnsSound'
  <2>1. \A g \in Gateway : ~(eventIds <= turn[g].cursor) /\ \A b \in turn[g].batch : ~(eventIds <= b)
    <3>1. \A x \in 0 .. LastVisible : ~(eventIds <= x)
      BY <1>3, <1>4
    <3>2. \A x \in 1 .. LastVisible : x \in 0 .. LastVisible
      OBVIOUS
    <3> QED
      BY <3>1, <3>2 DEF HookInv, HookTypes
  <2> QED
    BY <1>1, <1>8, <2>1 DEF HookInv, TurnsSound, Handled
<1>12. CursorSound'
  <2>1. ~(eventIds <= hook.cursor)
    BY <1>3, <1>4 DEF HookInv, HookTypes
  <2> QED
    BY <1>1, <1>8, <2>1 DEF HookInv, CursorSound, Handled
<1>13. FirstInOrder'
  <2>1. ASSUME NEW i \in 1 .. Len(received) PROVE ~(eventIds < received[i])
    <3>1. received[i] \in 1 .. LastVisible
      BY SeqWithin DEF HookInv, HookTypes
    <3> QED
      BY <1>3, <1>4, <3>1
  <2> QED
    BY <1>1, <1>8, <2>1 DEF HookInv, FirstInOrder
<1> QED
  BY <1>5, <1>7, <1>9, <1>10, <1>11, <1>12, <1>13 DEF HookInv

\* The feed's reader gets every event up to the last of its page.
LEMMA ListEventsKeeps ==
  ASSUME HookInv, ListEvents
  PROVE  HookInv'
<1> DEFINE A == After(feed.after)
           page == Page(A)
<1>1. /\ A # {} /\ feed' = [after |-> Max(page), seen |-> feed.seen \cup page]
      /\ UNCHANGED <<writer, eventLock, eventIds, events, hook, hookStart, turn, leads, passLock, received, passedOver>>
  BY DEF ListEvents, turnVars
<1>2. LastVisible' = LastVisible /\ LastVisible \in Nat
  BY <1>1, Visible DEF LastVisible, HookInv
<1>3. A \subseteq events /\ A \subseteq 1 .. LastVisible /\ \A e \in events : e \in A <=> e > feed.after
  BY DEF After, HookInv, HookTypes
<1> HIDE DEF A
<1>4. page \subseteq A /\ page # {} /\ \A b \in page : \A e \in A : e <= b => e \in page
  BY <1>1, <1>2, <1>3, PageHasNoGap
<1> HIDE DEF page
<1>5. Max(page) \in page /\ \A y \in page : y <= Max(page)
  <2>1. page \in SUBSET Nat /\ \A x \in page : x <= LastVisible
    BY <1>2, <1>3, <1>4
  <2> QED
    BY <1>2, <1>4, <2>1, MaxOfNaturals
<1> DEFINE m == Max(page)
<1>6. m \in 1 .. LastVisible
  BY <1>3, <1>4, <1>5
<1>7. feed'.after = m /\ feed'.seen = feed.seen \cup page
  BY <1>1
<1> HIDE DEF m
<1>8. HookTypes'
  BY <1>1, <1>2, <1>6, <1>7 DEF HookInv, HookTypes
<1>9. FeedMissesNothing'
  <2> SUFFICES ASSUME NEW e \in events, e <= m PROVE e \in feed.seen \cup page
    BY <1>1, <1>7 DEF FeedMissesNothing
  <2>1. e \in Nat /\ feed.after \in Nat
    BY <1>2 DEF HookInv, HookTypes
  <2>2. CASE e <= feed.after
    BY <2>2 DEF HookInv, FeedMissesNothing
  <2>3. CASE e > feed.after
    BY <1>3, <1>4, <1>5, <2>3 DEF m
  <2> QED
    BY <2>1, <2>2, <2>3
<1>10. WriterHasLock' /\ LastIdIsWriters' /\ NoneIsQuiet' /\ TurnsSound' /\ CursorSound' /\ FirstInOrder'
  BY <1>1 DEF HookInv, WriterHasLock, LastIdIsWriters, NoneIsQuiet, TurnsSound, CursorSound, FirstInOrder, Handled
<1> QED
  BY <1>8, <1>9, <1>10 DEF HookInv

\* A webhook starts after the latest event.
LEMMA CreateWebhookKeeps ==
  ASSUME HookInv, CreateWebhook
  PROVE  HookInv' /\ hook'.cursor >= hook.cursor
<1> DEFINE c == IF events = {} THEN 0 ELSE Max(events)
<1>1. PICK wanted \in {{}, {"ready"}} :
        hook' = [state |-> "on", wanted |-> wanted, failing |-> "no", wait |-> FALSE, cursor |-> c]
  BY DEF CreateWebhook
<1>2. hook.state = "none" /\ hookStart' = c /\ hook'.cursor = c
  BY <1>1 DEF CreateWebhook
<1>3. QuietFeed /\ UNCHANGED <<turn, leads, passLock, received, passedOver>>
  BY DEF CreateWebhook, feedVars, turnVars, QuietFeed
<1>4. LastVisible' = LastVisible /\ WriterHasLock' /\ LastIdIsWriters' /\ FeedMissesNothing'
  BY <1>3, QuietFeedKeeps
<1>5. LastVisible \in Nat
  BY Visible DEF HookInv
<1>6. c \in 0 .. LastVisible
  <2>1. CASE events = {}
    BY <1>5, <2>1
  <2>2. CASE events # {}
    <3>0. \A x \in 1 .. LastVisible : x \in Nat /\ x <= LastVisible
      BY <1>5
    <3>1. events \in SUBSET Nat /\ \A x \in events : x <= LastVisible
      BY <3>0 DEF HookInv, HookTypes
    <3>2. Max(events) \in events
      BY <1>5, <2>2, <3>1, MaxOfNaturals
    <3>3. Max(events) \in 1 .. LastVisible
      BY <3>2 DEF HookInv, HookTypes
    <3>4. \A x \in 1 .. LastVisible : x \in 0 .. LastVisible
      OBVIOUS
    <3> QED
      BY <2>2, <3>3, <3>4
  <2> QED
    BY <2>1, <2>2
<1> HIDE DEF c
<1>7. UNCHANGED <<writer, eventLock, eventIds, events, feed>>
  BY <1>3 DEF QuietFeed
<1>8. hook' \in [state : {"none", "on", "off", "deleted"}, wanted : SUBSET EventStates, cursor : 0 .. LastVisible,
                failing : {"no", "recent", "old"}, wait : BOOLEAN]
  BY <1>1, <1>6 DEF EventStates
<1>9. HookTypes'
  BY <1>2, <1>3, <1>4, <1>6, <1>7, <1>8 DEF HookInv, HookTypes
<1>10. received = <<>> /\ (\A g \in Gateway : turn[g].pc = "idle") /\ hook.cursor = 0
  BY <1>2 DEF HookInv, NoneIsQuiet
<1>11. TurnsSound' /\ FirstInOrder'
  BY <1>3, <1>7, <1>10 DEF TurnsSound, FirstInOrder
<1>12. CursorSound'
  <2>1. ASSUME NEW e \in events PROVE ~(c < e /\ e <= c)
    <3>1. e \in Nat /\ c \in Nat
      BY <1>5, <1>6 DEF HookInv, HookTypes
    <3> QED
      BY <3>1
  <2> QED
    BY <1>2, <1>7, <2>1 DEF CursorSound
<1>13. NoneIsQuiet'
  BY <1>1 DEF NoneIsQuiet
<1> QED
  BY <1>2, <1>4, <1>6, <1>9, <1>10, <1>11, <1>12, <1>13 DEF HookInv

\* A step that moves neither the cursor nor the start of a webhook that exists.
LEMMA SameCursorKeeps ==
  ASSUME HookInv, QuietFeed, UNCHANGED <<hookStart, turn, leads, passLock, received, passedOver>>,
         hook.state # "none", hook'.state # "none", hook'.cursor = hook.cursor,
         hook' \in [state : {"none", "on", "off", "deleted"}, wanted : SUBSET EventStates, cursor : 0 .. LastVisible,
                    failing : {"no", "recent", "old"}, wait : BOOLEAN]
  PROVE  HookInv'
<1>1. LastVisible' = LastVisible /\ WriterHasLock' /\ LastIdIsWriters' /\ FeedMissesNothing'
  BY QuietFeedKeeps
<1>2. UNCHANGED <<writer, eventLock, eventIds, events, feed>>
  BY DEF QuietFeed
<1>3. HookTypes'
  BY <1>1, <1>2 DEF HookInv, HookTypes
<1>4. NoneIsQuiet' /\ TurnsSound' /\ CursorSound' /\ FirstInOrder'
  BY <1>2 DEF HookInv, NoneIsQuiet, TurnsSound, CursorSound, FirstInOrder, Handled
<1> QED
  BY <1>1, <1>3, <1>4 DEF HookInv

\* The owner's changes and the passing of time.
LEMMA OwnerAndTimeKeep ==
  ASSUME HookInv, UpdateWebhook \/ DeleteWebhook \/ BackoffEnds \/ FailingAges
  PROVE  HookInv' /\ hook'.cursor = hook.cursor
<1>1. QuietFeed /\ UNCHANGED <<hookStart, turn, leads, passLock, received, passedOver>>
  BY DEF UpdateWebhook, DeleteWebhook, BackoffEnds, FailingAges, QuietFeed, feedVars, turnVars
<1>2. hook \in [state : {"none", "on", "off", "deleted"}, wanted : SUBSET EventStates, cursor : 0 .. LastVisible,
                failing : {"no", "recent", "old"}, wait : BOOLEAN]
  BY DEF HookInv, HookTypes
<1>3. hook.state # "none"
  BY DEF UpdateWebhook, DeleteWebhook, BackoffEnds, FailingAges, HookInv, NoneIsQuiet
<1> DEFINE Kept == /\ hook' \in [state : {"none", "on", "off", "deleted"}, wanted : SUBSET EventStates, cursor : 0 .. LastVisible,
                                 failing : {"no", "recent", "old"}, wait : BOOLEAN]
                   /\ hook'.state # "none" /\ hook'.cursor = hook.cursor
<1>4. Kept
  <2>1. CASE UpdateWebhook
    <3>1. CASE hook' = [hook EXCEPT !.failing = "no", !.wait = FALSE]
      BY <1>2, <1>3, <3>1
    <3>2. ASSUME NEW wanted \in {{}, {"ready"}}, hook' = [hook EXCEPT !.wanted = wanted] PROVE Kept
      BY <1>2, <1>3, <3>2 DEF EventStates
    <3>3. CASE hook' = [hook EXCEPT !.state = "off"]
      BY <1>2, <1>3, <3>3
    <3>4. CASE hook' = [hook EXCEPT !.state = "on", !.failing = "no", !.wait = FALSE]
      BY <1>2, <1>3, <3>4
    <3> QED
      BY <2>1, <3>1, <3>2, <3>3, <3>4 DEF UpdateWebhook
  <2>2. CASE DeleteWebhook
    BY <1>2, <2>2 DEF DeleteWebhook
  <2>3. CASE BackoffEnds
    BY <1>2, <1>3, <2>3 DEF BackoffEnds
  <2>4. CASE FailingAges
    BY <1>2, <1>3, <2>4 DEF FailingAges
  <2> QED
    BY <2>1, <2>2, <2>3, <2>4
<1> QED
  BY <1>1, <1>3, <1>4, SameCursorKeeps

\* The locks of the processes.
LEMMA LocksKeep ==
  ASSUME HookInv, NEW g \in Gateway, AcquireLock(g) \/ ConnectionDrops(g) \/ LosesLock(g) \/ ReleaseLock(g)
  PROVE  HookInv' /\ hook' = hook
<1>1. QuietFeed /\ UNCHANGED <<hook, hookStart, turn, received, passedOver>>
  BY DEF AcquireLock, ConnectionDrops, LosesLock, ReleaseLock, QuietFeed, feedVars, turnVars
<1>2. leads' \in [Gateway -> {"no", "leads", "drains"}] /\ passLock' \in Gateway \cup {Nobody}
  BY DEF AcquireLock, ConnectionDrops, LosesLock, ReleaseLock, HookInv, HookTypes
<1> QED
  BY <1>1, <1>2, QuietKeeps

\* A step that gives one turn another record and may move the webhook to what that
\* turn had behind it; nothing is sent.
LEMMA TurnKeeps ==
  ASSUME HookInv, QuietFeed, NEW g \in Gateway, NEW r \in TurnRecord, turn' = [turn EXCEPT ![g] = r],
         UNCHANGED <<hookStart, received>>, passedOver \subseteq passedOver',
         leads' \in [Gateway -> {"no", "leads", "drains"}], passLock' \in Gateway \cup {Nobody},
         r.batch \subseteq 1 .. LastVisible, r.cursor \in 0 .. LastVisible,
         r.pc # "idle" =>
           /\ \A e \in events : hookStart < e /\ e <= r.cursor => Handled(e)'
           /\ \A b \in r.batch : r.cursor < b
           /\ \A b \in r.batch : \A e \in events : r.cursor < e /\ e <= b => e \in r.batch,
         r.pc # "idle" => hook'.state # "none",
         hook' = hook \/ (/\ hook.state # "none" /\ hook'.state # "none" /\ turn[g].pc # "idle"
                          /\ hook'.cursor = hook.cursor \/ hook'.cursor = turn[g].cursor
                          /\ hook' \in [state : {"none", "on", "off", "deleted"}, wanted : SUBSET EventStates,
                                        cursor : 0 .. LastVisible, failing : {"no", "recent", "old"}, wait : BOOLEAN])
  PROVE  HookInv'
<1>1. LastVisible' = LastVisible /\ WriterHasLock' /\ LastIdIsWriters' /\ FeedMissesNothing'
  BY QuietFeedKeeps
<1>2. UNCHANGED <<writer, eventLock, eventIds, events, feed>>
  BY DEF QuietFeed
<1>3. \A x \in Gateway : turn'[x] = IF x = g THEN r ELSE turn[x]
  BY DEF HookInv, HookTypes
<1>4. turn' \in [Gateway -> TurnRecord]
  BY DEF HookInv, HookTypes
<1>5. \A x \in Gateway : turn'[x].batch \subseteq 1 .. LastVisible /\ turn'[x].cursor \in 0 .. LastVisible
  BY <1>3 DEF HookInv, HookTypes
<1>6. hook' \in [state : {"none", "on", "off", "deleted"}, wanted : SUBSET EventStates,
                 cursor : 0 .. LastVisible, failing : {"no", "recent", "old"}, wait : BOOLEAN]
  BY DEF HookInv, HookTypes
<1>7. HookTypes'
  BY <1>1, <1>2, <1>4, <1>5, <1>6 DEF HookInv, HookTypes
<1>8. \A e : Handled(e) => Handled(e)'
  BY DEF Handled
<1>9. TurnsSound'
  BY <1>2, <1>3, <1>8 DEF HookInv, TurnsSound
<1>10. CursorSound'
  <2>1. ASSUME NEW e \in events, hookStart < e, e <= hook'.cursor PROVE Handled(e)
    BY <2>1 DEF HookInv, CursorSound, TurnsSound
  <2> QED
    BY <1>2, <1>8, <2>1 DEF CursorSound
<1>11. NoneIsQuiet'
  BY <1>3 DEF HookInv, NoneIsQuiet
<1>12. FirstInOrder'
  BY <1>2 DEF HookInv, FirstInOrder
<1> QED
  BY <1>1, <1>7, <1>9, <1>10, <1>11, <1>12 DEF HookInv

\* A turn over and done with, whatever is recorded of it.
LEMMA NoTurnIsSound == NoTurn \in TurnRecord /\ NoTurn.pc = "idle" /\ NoTurn.batch = {} /\ NoTurn.cursor = 0
BY DEF NoTurn, TurnRecord

\* The cursor of a webhook goes where Advance says, and that is never back.
LEMMA AdvanceIsForward ==
  ASSUME HookInv, NEW g \in Gateway
  PROVE  /\ Advance(turn[g].cursor) \in 0 .. LastVisible
         /\ Advance(turn[g].cursor) = hook.cursor \/ Advance(turn[g].cursor) = turn[g].cursor
         /\ Advance(turn[g].cursor) >= hook.cursor /\ hook.cursor \in Nat
<1>1. hook.cursor \in 0 .. LastVisible /\ turn[g].cursor \in 0 .. LastVisible
  BY DEF HookInv, HookTypes
<1> DEFINE t == turn[g].cursor
           h == hook.cursor
<1>2. h \in Nat /\ t \in Nat
  BY <1>1
<1>3. Advance(t) = IF t > h THEN t ELSE h
  BY DEF Advance
<1>4. t \in 0 .. LastVisible /\ h \in 0 .. LastVisible
  BY <1>1
<1> HIDE DEF t, h
<1>5. Advance(t) \in 0 .. LastVisible /\ (Advance(t) = h \/ Advance(t) = t) /\ Advance(t) >= h
  BY <1>2, <1>3, <1>4
<1> QED
  BY <1>2, <1>5 DEF t, h

\* What the steps of a turn that end it record of it.
LEMMA TurnEndKeeps ==
  ASSUME HookInv, NEW g \in Gateway, EndTurn(g) \/ TurnedOff(g) \/ RecordFailure(g) \/ GatewayDies(g)
  PROVE  HookInv' /\ hook'.cursor >= hook.cursor
<1>1. /\ QuietFeed /\ turn' = [turn EXCEPT ![g] = NoTurn] /\ UNCHANGED <<hookStart, received, passedOver>>
      /\ leads' \in [Gateway -> {"no", "leads", "drains"}] /\ passLock' \in Gateway \cup {Nobody}
  BY DEF EndTurn, TurnedOff, RecordFailure, GatewayDies, QuietFeed, feedVars, HookInv, HookTypes
<1>2. hook \in [state : {"none", "on", "off", "deleted"}, wanted : SUBSET EventStates, cursor : 0 .. LastVisible,
                failing : {"no", "recent", "old"}, wait : BOOLEAN]
  BY DEF HookInv, HookTypes
<1>3. hook.cursor \in Nat /\ hook.cursor >= hook.cursor
  BY AdvanceIsForward
<1> DEFINE a == Advance(turn[g].cursor)
<1>4. a \in 0 .. LastVisible /\ (a = hook.cursor \/ a = turn[g].cursor) /\ a >= hook.cursor
  BY AdvanceIsForward
<1> HIDE DEF a
<1> DEFINE Moved == /\ hook.state # "none" /\ hook'.state # "none" /\ turn[g].pc # "idle"
                    /\ hook'.cursor = hook.cursor \/ hook'.cursor = turn[g].cursor
                    /\ hook'.cursor >= hook.cursor
                    /\ hook' \in [state : {"none", "on", "off", "deleted"}, wanted : SUBSET EventStates,
                                  cursor : 0 .. LastVisible, failing : {"no", "recent", "old"}, wait : BOOLEAN]
<1>5. turn[g].pc # "idle" => hook.state # "none"
  BY DEF HookInv, NoneIsQuiet
<1>6. hook' = hook \/ Moved
  <2>1. CASE EndTurn(g)
    <3>1. CASE turn[g].passed /\ hook.state # "deleted"
      <4>1. hook' = [hook EXCEPT !.cursor = a] /\ turn[g].pc = "send"
        BY <2>1, <3>1 DEF EndTurn, a
      <4> QED
        BY <1>2, <1>4, <1>5, <4>1
    <3> QED
      BY <2>1, <3>1 DEF EndTurn
  <2>2. CASE TurnedOff(g) \/ GatewayDies(g)
    BY <2>2 DEF TurnedOff, GatewayDies
  <2>3. CASE RecordFailure(g)
    <3>1. CASE hook.state # "deleted"
      <4>1. PICK f \in {"no", "recent", "old"}, st \in {"none", "on", "off", "deleted"} :
              /\ hook' = [hook EXCEPT !.cursor = a, !.wait = TRUE, !.failing = f, !.state = st]
              /\ st = "off" \/ st = hook.state
        <5> DEFINE f == IF hook.failing = "no" THEN "recent" ELSE hook.failing
                   st == IF hook.failing = "old" THEN "off" ELSE hook.state
        <5>1. f \in {"no", "recent", "old"} /\ st \in {"none", "on", "off", "deleted"} /\ (st = "off" \/ st = hook.state)
          BY <1>2
        <5>2. hook' = [hook EXCEPT !.cursor = a, !.wait = TRUE, !.failing = f, !.state = st]
          BY <2>3, <3>1 DEF RecordFailure, a
        <5> HIDE DEF f, st
        <5> QED
          BY <5>1, <5>2
      <4>2. turn[g].pc = "failed"
        BY <2>3 DEF RecordFailure
      <4> QED
        BY <1>2, <1>4, <1>5, <4>1, <4>2
    <3> QED
      BY <2>3, <3>1 DEF RecordFailure
  <2> QED
    BY <2>1, <2>2, <2>3
<1> HIDE DEF Moved
<1>7. hook' = hook \/ (/\ hook.state # "none" /\ hook'.state # "none" /\ turn[g].pc # "idle"
                       /\ hook'.cursor = hook.cursor \/ hook'.cursor = turn[g].cursor
                       /\ hook' \in [state : {"none", "on", "off", "deleted"}, wanted : SUBSET EventStates,
                                     cursor : 0 .. LastVisible, failing : {"no", "recent", "old"}, wait : BOOLEAN])
  BY <1>6 DEF Moved
<1>8. NoTurn.batch \subseteq 1 .. LastVisible /\ NoTurn.cursor \in 0 .. LastVisible /\ NoTurn \in TurnRecord /\ NoTurn.pc = "idle"
  <2>1. LastVisible \in Nat
    BY Visible DEF HookInv
  <2> QED
    BY <2>1, NoTurnIsSound
<1>9. HookInv'
  <2> DEFINE r == NoTurn
  <2>1. r \in TurnRecord /\ r.pc = "idle" /\ r.batch \subseteq 1 .. LastVisible /\ r.cursor \in 0 .. LastVisible
    BY <1>8
  <2>2. turn' = [turn EXCEPT ![g] = r]
    BY <1>1
  <2> HIDE DEF r
  <2> QED
    BY <1>1, <1>7, <2>1, <2>2, TurnKeeps
<1>10. hook'.cursor >= hook.cursor
  BY <1>3, <1>6 DEF Moved
<1> QED
  BY <1>9, <1>10

\* A turn starts at the webhook's cursor with the page that follows it.
LEMMA SubmitDueKeeps ==
  ASSUME HookInv, NEW g \in Gateway, SubmitDue(g)
  PROVE  HookInv' /\ UNCHANGED hook
<1> DEFINE A == After(hook.cursor)
           page == Page(A)
           r == [pc |-> "send", batch |-> page, cursor |-> hook.cursor, passed |-> FALSE]
<1>1. /\ QuietFeed /\ turn' = [turn EXCEPT ![g] = r] /\ UNCHANGED <<hook, hookStart, leads, passLock, received, passedOver>>
      /\ hook.state = "on"
  BY DEF SubmitDue, Due, QuietFeed, feedVars
<1>2. LastVisible \in Nat
  BY Visible DEF HookInv
<1>3. A \subseteq events /\ A \subseteq 1 .. LastVisible /\ \A e \in events : e \in A <=> e > hook.cursor
  BY DEF After, HookInv, HookTypes
<1> HIDE DEF A
<1>4. page \subseteq A /\ \A b \in page : \A e \in A : e <= b => e \in page
  BY <1>2, <1>3, PageHasNoGap
<1> HIDE DEF page
<1>5. hook.cursor \in 0 .. LastVisible /\ page \subseteq 1 .. LastVisible
  BY <1>3, <1>4 DEF HookInv, HookTypes
<1>6. r \in TurnRecord /\ r.pc = "send" /\ r.batch = page /\ r.cursor = hook.cursor
  BY <1>2, <1>5 DEF TurnRecord
<1> HIDE DEF r
<1>7. \A e \in events : hookStart < e /\ e <= r.cursor => Handled(e)'
  BY <1>1, <1>6 DEF HookInv, CursorSound, Handled
<1>8. \A b \in r.batch : \A e \in events : r.cursor < e /\ e <= b => e \in r.batch
  <2>1. ASSUME NEW b \in page, NEW e \in events, hook.cursor < e, e <= b PROVE e \in page
    <3>1. e \in Nat /\ hook.cursor \in Nat
      BY <1>2 DEF HookInv, HookTypes
    <3>2. e \in A
      BY <1>3, <2>1, <3>1
    <3> QED
      BY <1>4, <2>1, <3>2
  <2> QED
    BY <1>6, <2>1
<1>9. leads' \in [Gateway -> {"no", "leads", "drains"}] /\ passLock' \in Gateway \cup {Nobody}
  BY <1>1 DEF HookInv, HookTypes
<1>10. hook'.state # "none" /\ passedOver \subseteq passedOver'
  BY <1>1
<1>11. r.batch \subseteq 1 .. LastVisible /\ r.cursor \in 0 .. LastVisible
  BY <1>5, <1>6
<1>12. \A b \in r.batch : r.cursor < b
  BY <1>3, <1>4, <1>6
<1> QED
  BY <1>1, <1>6, <1>7, <1>8, <1>9, <1>10, <1>11, <1>12, TurnKeeps

NextOf(g) == Min(turn[g].batch)
RestOf(g) == turn[g].batch \ {NextOf(g)}

\* The next event of a turn: what is before it is handled already, and when it is handled
\* itself the turn goes on behind it.
LEMMA NextEvent ==
  ASSUME HookInv, NEW g \in Gateway, turn[g].pc # "idle", turn[g].batch # {}
  PROVE  /\ NextOf(g) \in 1 .. LastVisible /\ RestOf(g) \subseteq 1 .. LastVisible
         /\ \A e \in events : hookStart < e /\ e < NextOf(g) => Handled(e)
         /\ \A x \in RestOf(g) : NextOf(g) < x
         /\ \A x \in RestOf(g) : \A e \in events : NextOf(g) < e /\ e <= x => e \in RestOf(g)
<1> DEFINE e0 == NextOf(g)
           b == RestOf(g)
<1>0. e0 = Min(turn[g].batch) /\ b = turn[g].batch \ {e0}
  BY DEF NextOf, RestOf
<1> HIDE DEF e0, b
<1>1. e0 \in turn[g].batch /\ (\A x \in turn[g].batch : e0 <= x) /\ e0 \in 1 .. LastVisible
  BY <1>0, NextOfBatch DEF HookInv
<1>2. b \subseteq 1 .. LastVisible /\ turn[g].batch \subseteq 1 .. LastVisible /\ turn[g].cursor \in 0 .. LastVisible
  BY <1>0 DEF HookInv, HookTypes
<1>3. LastVisible \in Nat /\ \A e \in events : e \in Nat
  BY Visible DEF HookInv, HookTypes
<1>4. e0 \in Nat /\ turn[g].cursor \in Nat /\ \A x \in turn[g].batch : x \in Nat
  BY <1>1, <1>2
<1>5. /\ \A e \in events : hookStart < e /\ e <= turn[g].cursor => Handled(e)
      /\ \A x \in turn[g].batch : \A e \in events : turn[g].cursor < e /\ e <= x => e \in turn[g].batch
  BY DEF HookInv, TurnsSound
<1>6. ASSUME NEW e \in events, hookStart < e, e < e0 PROVE Handled(e)
  <2>1. e \in Nat
    BY <1>3
  <2>2. CASE e <= turn[g].cursor
    BY <1>5, <1>6, <2>2
  <2>3. CASE turn[g].cursor < e
    <3>1. e <= e0
      BY <1>4, <1>6, <2>1
    <3>2. e \in turn[g].batch
      BY <1>1, <1>5, <2>3, <3>1
    <3>3. e0 <= e
      BY <1>1, <3>2
    <3> QED
      BY <1>4, <1>6, <2>1, <3>3
  <2> QED
    BY <1>4, <2>1, <2>2, <2>3
<1>7. \A x \in b : e0 < x
  BY <1>0, <1>1, <1>4
<1>8. turn[g].cursor < e0
  BY <1>1 DEF HookInv, TurnsSound
<1>9. ASSUME NEW x \in b, NEW e \in events, e0 < e, e <= x PROVE e \in b
  <2>1. x \in turn[g].batch /\ e \in Nat /\ e # e0
    BY <1>0, <1>3, <1>4, <1>9
  <2>2. turn[g].cursor < e
    BY <1>4, <1>8, <1>9, <2>1
  <2> QED
    BY <1>0, <1>5, <1>9, <2>1, <2>2
<1> QED
  BY <1>1, <1>2, <1>6, <1>7, <1>9 DEF e0, b

\* An event the filter does not want.
LEMMA PassOverKeeps ==
  ASSUME HookInv, NEW g \in Gateway, PassOver(g)
  PROVE  HookInv' /\ UNCHANGED hook
<1> DEFINE e0 == Min(turn[g].batch)
           b == turn[g].batch \ {e0}
           r == [pc |-> "send", batch |-> b, cursor |-> e0, passed |-> TRUE]
<1>1. turn[g].pc = "send" /\ turn[g].batch # {} /\ hook.state = "on" /\ turn[g] \in TurnRecord
  BY DEF PassOver, HookInv, HookTypes
<1>2. /\ QuietFeed /\ UNCHANGED <<hook, hookStart, leads, passLock, received>>
      /\ passedOver' = passedOver \cup {e0}
  BY DEF PassOver, QuietFeed, feedVars
<1>3. turn' = [turn EXCEPT ![g] = r]
  BY DEF PassOver
<1>4. /\ e0 \in 1 .. LastVisible /\ b \subseteq 1 .. LastVisible
      /\ \A e \in events : hookStart < e /\ e < e0 => Handled(e)
      /\ \A x \in b : e0 < x
      /\ \A x \in b : \A e \in events : e0 < e /\ e <= x => e \in b
  <2>1. turn[g].pc # "idle"
    BY <1>1
  <2>2. e0 = NextOf(g) /\ b = RestOf(g)
    BY DEF NextOf, RestOf
  <2>3. /\ NextOf(g) \in 1 .. LastVisible /\ RestOf(g) \subseteq 1 .. LastVisible
        /\ \A e \in events : hookStart < e /\ e < NextOf(g) => Handled(e)
        /\ \A x \in RestOf(g) : NextOf(g) < x
        /\ \A x \in RestOf(g) : \A e \in events : NextOf(g) < e /\ e <= x => e \in RestOf(g)
    BY <1>1, <2>1, NextEvent
  <2> QED
    BY <2>2, <2>3
<1> HIDE DEF e0, b
<1>5. /\ r \in TurnRecord /\ r.pc # "idle" /\ r.batch = b /\ r.cursor = e0
      /\ r.batch \subseteq 1 .. LastVisible /\ r.cursor \in 0 .. LastVisible
  <2>1. LastVisible \in Nat
    BY Visible DEF HookInv
  <2> QED
    BY <1>4, <2>1 DEF TurnRecord
<1> HIDE DEF r
<1>6. \A e \in events : hookStart < e /\ e <= r.cursor => Handled(e)'
  <2> SUFFICES ASSUME NEW e \in events, hookStart < e, e <= e0 PROVE Handled(e)'
    BY <1>5
  <2>1. e \in Nat /\ e0 \in Nat
    BY <1>4, Visible DEF HookInv, HookTypes
  <2>2. CASE e = e0
    BY <1>2, <2>2 DEF Handled
  <2>3. CASE e < e0
    BY <1>2, <1>4, <2>3 DEF Handled
  <2> QED
    BY <2>1, <2>2, <2>3
<1>7. /\ \A x \in r.batch : r.cursor < x
      /\ \A x \in r.batch : \A e \in events : r.cursor < e /\ e <= x => e \in r.batch
  BY <1>4, <1>5
<1>8. leads' \in [Gateway -> {"no", "leads", "drains"}] /\ passLock' \in Gateway \cup {Nobody}
  BY <1>2 DEF HookInv, HookTypes
<1>9. hook'.state # "none" /\ passedOver \subseteq passedOver'
  BY <1>1, <1>2
<1> QED
  BY <1>2, <1>3, <1>5, <1>6, <1>7, <1>8, <1>9, TurnKeeps

\* What the endpoint gets: it was the next of a turn, so nothing before it is left out.
LEMMA ReceivedKeeps ==
  ASSUME HookInv, QuietFeed, NEW g \in Gateway, NEW r \in TurnRecord, turn' = [turn EXCEPT ![g] = r],
         NEW e0 \in 1 .. LastVisible, received' = Append(received, e0),
         UNCHANGED <<hook, hookStart, leads, passLock, passedOver>>, hook.state # "none",
         \A e \in events : hookStart < e /\ e < e0 => Handled(e),
         r.batch \subseteq 1 .. LastVisible, r.cursor \in 0 .. LastVisible,
         r.pc # "idle" =>
           /\ \A e \in events : hookStart < e /\ e <= r.cursor => Handled(e)'
           /\ \A b \in r.batch : r.cursor < b
           /\ \A b \in r.batch : \A e \in events : r.cursor < e /\ e <= b => e \in r.batch
  PROVE  HookInv'
<1>1. LastVisible' = LastVisible /\ WriterHasLock' /\ LastIdIsWriters' /\ FeedMissesNothing'
  BY QuietFeedKeeps
<1>2. UNCHANGED <<writer, eventLock, eventIds, events, feed>>
  BY DEF QuietFeed
<1>3. \A x \in Gateway : turn'[x] = IF x = g THEN r ELSE turn[x]
  BY DEF HookInv, HookTypes
<1>4. received \in Seq(1 .. LastVisible)
  BY DEF HookInv, HookTypes
<1>5. /\ received' \in Seq(1 .. LastVisible) /\ Len(received') = Len(received) + 1 /\ Len(received) \in Nat
      /\ \A i \in 1 .. Len(received) : received'[i] = received[i]
      /\ received'[Len(received) + 1] = e0
  BY <1>4, AppendKeeps
<1>6. turn' \in [Gateway -> TurnRecord]
  BY DEF HookInv, HookTypes
<1>7. \A x \in Gateway : turn'[x].batch \subseteq 1 .. LastVisible /\ turn'[x].cursor \in 0 .. LastVisible
  BY <1>3 DEF HookInv, HookTypes
<1>8. HookTypes'
  BY <1>1, <1>2, <1>5, <1>6, <1>7 DEF HookInv, HookTypes
<1>9. \A e : Handled(e) => Handled(e)'
  <2>1. \A i \in 1 .. Len(received) : i \in 1 .. Len(received')
    BY <1>5
  <2> QED
    BY <1>5, <2>1 DEF Handled
<1>10. TurnsSound'
  BY <1>2, <1>3, <1>9 DEF HookInv, TurnsSound
<1>11. CursorSound' /\ NoneIsQuiet'
  BY <1>2, <1>9 DEF HookInv, CursorSound, NoneIsQuiet
<1>12. FirstInOrder'
  <2> SUFFICES ASSUME NEW i \in 1 .. Len(received'), NEW e \in events \ passedOver, hookStart < e, e < received'[i]
               PROVE  \E j \in 1 .. i : received'[j] = e
    BY <1>2 DEF FirstInOrder
  <2>1. CASE i \in 1 .. Len(received)
    <3>1. PICK j \in 1 .. i : received[j] = e
      BY <1>5, <2>1 DEF HookInv, FirstInOrder
    <3>2. j \in 1 .. Len(received)
      BY <1>5, <2>1
    <3> QED
      BY <1>5, <3>1, <3>2
  <2>2. CASE i = Len(received) + 1
    <3>1. e < e0
      BY <1>5, <2>2
    <3>2. PICK j \in 1 .. Len(received) : received[j] = e
      BY <3>1 DEF Handled
    <3>3. j \in 1 .. i
      BY <1>5, <2>2
    <3> QED
      BY <1>5, <3>2, <3>3
  <2>3. i \in 1 .. Len(received) \/ i = Len(received) + 1
    BY <1>5
  <2> QED
    BY <2>1, <2>2, <2>3
<1> QED
  BY <1>1, <1>8, <1>10, <1>11, <1>12 DEF HookInv

\* A post, whether the endpoint answers, or gets the event and the answer is lost, or neither.
LEMMA PostEventKeeps ==
  ASSUME HookInv, NEW g \in Gateway, PostEvent(g)
  PROVE  HookInv' /\ UNCHANGED hook
<1> DEFINE e0 == Min(turn[g].batch)
           b == turn[g].batch \ {e0}
           sent == [pc |-> "ok", batch |-> b, cursor |-> e0, passed |-> FALSE]
           not == [turn[g] EXCEPT !.pc = "failed"]
<1>1. turn[g].pc = "send" /\ turn[g].batch # {} /\ hook.state = "on" /\ turn[g] \in TurnRecord
  BY DEF PostEvent, HookInv, HookTypes
<1>2. QuietFeed /\ UNCHANGED <<hook, hookStart, leads, passLock, passedOver>>
  BY DEF PostEvent, QuietFeed, feedVars
<1>3. \/ received' = Append(received, e0) /\ turn' = [turn EXCEPT ![g] = sent]
      \/ UNCHANGED received /\ turn' = [turn EXCEPT ![g] = not]
      \/ received' = Append(received, e0) /\ turn' = [turn EXCEPT ![g] = not]
  BY DEF PostEvent
<1>4. /\ e0 \in 1 .. LastVisible /\ b \subseteq 1 .. LastVisible
      /\ \A e \in events : hookStart < e /\ e < e0 => Handled(e)
      /\ \A x \in b : e0 < x
      /\ \A x \in b : \A e \in events : e0 < e /\ e <= x => e \in b
  <2>1. turn[g].pc # "idle"
    BY <1>1
  <2>2. e0 = NextOf(g) /\ b = RestOf(g)
    BY DEF NextOf, RestOf
  <2>3. /\ NextOf(g) \in 1 .. LastVisible /\ RestOf(g) \subseteq 1 .. LastVisible
        /\ \A e \in events : hookStart < e /\ e < NextOf(g) => Handled(e)
        /\ \A x \in RestOf(g) : NextOf(g) < x
        /\ \A x \in RestOf(g) : \A e \in events : NextOf(g) < e /\ e <= x => e \in RestOf(g)
    BY <1>1, <2>1, NextEvent
  <2> QED
    BY <2>2, <2>3
<1> HIDE DEF e0, b
<1>5. /\ sent \in TurnRecord /\ sent.batch = b /\ sent.cursor = e0
      /\ sent.batch \subseteq 1 .. LastVisible /\ sent.cursor \in 0 .. LastVisible
  <2>1. LastVisible \in Nat
    BY Visible DEF HookInv
  <2> QED
    BY <1>4, <2>1 DEF TurnRecord
<1>6. /\ not \in TurnRecord /\ not.pc # "idle" /\ not.batch = turn[g].batch /\ not.cursor = turn[g].cursor
      /\ not.batch \subseteq 1 .. LastVisible /\ not.cursor \in 0 .. LastVisible
  BY <1>1 DEF TurnRecord, HookInv, HookTypes
<1> HIDE DEF sent, not
<1>7. received \in Seq(1 .. LastVisible)
  BY DEF HookInv, HookTypes
<1>8. \A e : Handled(e) => Handled(e)'
  <2>1. CASE received' = received
    BY <1>2, <2>1 DEF Handled
  <2>2. CASE received' = Append(received, e0)
    <3>1. /\ Len(received') = Len(received) + 1 /\ Len(received) \in Nat
          /\ \A i \in 1 .. Len(received) : received'[i] = received[i]
      BY <1>4, <1>7, <2>2, AppendKeeps
    <3>2. \A i \in 1 .. Len(received) : i \in 1 .. Len(received')
      BY <3>1
    <3> QED
      BY <1>2, <3>1, <3>2 DEF Handled
  <2> QED
    BY <1>3, <2>1, <2>2
<1>9. /\ \A e \in events : hookStart < e /\ e <= not.cursor => Handled(e)'
      /\ \A x \in not.batch : not.cursor < x
      /\ \A x \in not.batch : \A e \in events : not.cursor < e /\ e <= x => e \in not.batch
  BY <1>1, <1>6, <1>8 DEF HookInv, TurnsSound
<1>10. leads' \in [Gateway -> {"no", "leads", "drains"}] /\ passLock' \in Gateway \cup {Nobody}
  BY <1>2 DEF HookInv, HookTypes
<1>11. hook.state # "none" /\ hook'.state # "none" /\ passedOver \subseteq passedOver'
  BY <1>1, <1>2
<1>12. CASE received' = Append(received, e0) /\ turn' = [turn EXCEPT ![g] = sent]
  <2>1. \A e : e = e0 => Handled(e)'
    <3>1. Len(received') = Len(received) + 1 /\ Len(received) \in Nat /\ received'[Len(received) + 1] = e0
      BY <1>4, <1>7, <1>12, AppendKeeps
    <3>2. Len(received) + 1 \in 1 .. Len(received')
      BY <3>1
    <3> QED
      BY <3>1, <3>2 DEF Handled
  <2>2. \A e \in events : hookStart < e /\ e <= sent.cursor => Handled(e)'
    <3> SUFFICES ASSUME NEW e \in events, hookStart < e, e <= e0 PROVE Handled(e)'
      BY <1>5
    <3>1. e \in Nat /\ e0 \in Nat
      BY <1>4, Visible DEF HookInv, HookTypes
    <3>2. CASE e = e0
      BY <2>1, <3>2
    <3>3. CASE e < e0
      BY <1>4, <1>8, <3>3
    <3> QED
      BY <3>1, <3>2, <3>3
  <2>3. /\ \A x \in sent.batch : sent.cursor < x
        /\ \A x \in sent.batch : \A e \in events : sent.cursor < e /\ e <= x => e \in sent.batch
    BY <1>4, <1>5
  <2> QED
    BY <1>2, <1>4, <1>5, <1>11, <1>12, <2>2, <2>3, ReceivedKeeps
<1>13. CASE UNCHANGED received /\ turn' = [turn EXCEPT ![g] = not]
  BY <1>2, <1>6, <1>9, <1>10, <1>11, <1>13, TurnKeeps
<1>14. CASE received' = Append(received, e0) /\ turn' = [turn EXCEPT ![g] = not]
  BY <1>2, <1>4, <1>6, <1>9, <1>11, <1>14, ReceivedKeeps
<1> QED
  BY <1>2, <1>3, <1>12, <1>13, <1>14

\* A delivery that went well is recorded, and the turn goes on.
LEMMA RecordProgressKeeps ==
  ASSUME HookInv, NEW g \in Gateway, RecordProgress(g)
  PROVE  HookInv' /\ hook'.cursor >= hook.cursor
<1> DEFINE r == [turn[g] EXCEPT !.pc = "send"]
           a == Advance(turn[g].cursor)
<1>1. /\ QuietFeed /\ turn' = [turn EXCEPT ![g] = r] /\ UNCHANGED <<hookStart, leads, passLock, received, passedOver>>
      /\ turn[g].pc = "ok" /\ turn[g] \in TurnRecord
  BY DEF RecordProgress, QuietFeed, feedVars, HookInv, HookTypes
<1>2. /\ r \in TurnRecord /\ r.pc # "idle" /\ r.batch = turn[g].batch /\ r.cursor = turn[g].cursor
      /\ r.batch \subseteq 1 .. LastVisible /\ r.cursor \in 0 .. LastVisible
  BY <1>1 DEF TurnRecord, HookInv, HookTypes
<1>3. hook' = hook \/ hook' = [hook EXCEPT !.cursor = a, !.failing = "no", !.wait = FALSE]
  BY DEF RecordProgress
<1>4. a \in 0 .. LastVisible /\ (a = hook.cursor \/ a = turn[g].cursor) /\ a >= hook.cursor /\ hook.cursor \in Nat
  BY AdvanceIsForward
<1> HIDE DEF r, a
<1>5. hook \in [state : {"none", "on", "off", "deleted"}, wanted : SUBSET EventStates, cursor : 0 .. LastVisible,
                failing : {"no", "recent", "old"}, wait : BOOLEAN]
  BY DEF HookInv, HookTypes
<1>6. hook.state # "none"
  BY <1>1 DEF HookInv, NoneIsQuiet
<1>7. /\ hook'.state = hook.state /\ hook'.cursor >= hook.cursor
      /\ hook'.cursor = hook.cursor \/ hook'.cursor = turn[g].cursor
      /\ hook' \in [state : {"none", "on", "off", "deleted"}, wanted : SUBSET EventStates, cursor : 0 .. LastVisible,
                    failing : {"no", "recent", "old"}, wait : BOOLEAN]
  <2>1. CASE hook' = hook
    <3>1. hook.cursor >= hook.cursor
      BY <1>4
    <3> QED
      BY <1>5, <2>1, <3>1
  <2>2. CASE hook' = [hook EXCEPT !.cursor = a, !.failing = "no", !.wait = FALSE]
    <3>1. hook'.cursor = a /\ hook'.state = hook.state
      BY <1>5, <2>2
    <3>2. hook' \in [state : {"none", "on", "off", "deleted"}, wanted : SUBSET EventStates, cursor : 0 .. LastVisible,
                     failing : {"no", "recent", "old"}, wait : BOOLEAN]
      BY <1>4, <1>5, <2>2
    <3> QED
      BY <1>4, <3>1, <3>2
  <2> QED
    BY <1>3, <2>1, <2>2
<1>8. /\ \A e \in events : hookStart < e /\ e <= r.cursor => Handled(e)'
      /\ \A x \in r.batch : r.cursor < x
      /\ \A x \in r.batch : \A e \in events : r.cursor < e /\ e <= x => e \in r.batch
  BY <1>1, <1>2 DEF HookInv, TurnsSound, Handled
<1>9. leads' \in [Gateway -> {"no", "leads", "drains"}] /\ passLock' \in Gateway \cup {Nobody} /\ passedOver \subseteq passedOver'
  BY <1>1 DEF HookInv, HookTypes
<1>10. hook'.state # "none" /\ turn[g].pc # "idle"
  BY <1>1, <1>6, <1>7
<1> QED
  BY <1>1, <1>2, <1>6, <1>7, <1>8, <1>9, <1>10, TurnKeeps

\* Events go when they are old, and nothing is asked of them any more.
LEMMA PruneEventsKeeps ==
  ASSUME HookInv, NEW g \in Gateway, PruneEvents(g)
  PROVE  HookInv' /\ UNCHANGED hook
<1>1. /\ events' \subseteq events
      /\ UNCHANGED <<writer, eventLock, eventIds, feed, hook, hookStart, turn, leads, passLock, received, passedOver>>
  BY DEF PruneEvents, turnVars
<1>2. LastVisible' = LastVisible
  BY <1>1 DEF LastVisible
<1>3. HookTypes'
  BY <1>1, <1>2 DEF HookInv, HookTypes
<1>4. WriterHasLock' /\ LastIdIsWriters' /\ FeedMissesNothing' /\ NoneIsQuiet' /\ CursorSound'
  BY <1>1 DEF HookInv, WriterHasLock, LastIdIsWriters, FeedMissesNothing, NoneIsQuiet, CursorSound, Handled
<1>5. TurnsSound'
  BY <1>1 DEF HookInv, TurnsSound, Handled
<1>6. FirstInOrder'
  BY <1>1 DEF HookInv, FirstInOrder
<1> QED
  BY <1>1, <1>3, <1>4, <1>5, <1>6 DEF HookInv

\* Every step keeps it, and none takes the cursor back.
LEMMA HookInvStep == HookInv /\ [HookNext]_hookVars => HookInv' /\ hook'.cursor >= hook.cursor
<1> SUFFICES ASSUME HookInv, [HookNext]_hookVars PROVE HookInv' /\ hook'.cursor >= hook.cursor
  OBVIOUS
<1>1. hook.cursor \in Nat /\ hook.cursor >= hook.cursor
  <2>1. hook.cursor \in 0 .. LastVisible
    BY DEF HookInv, HookTypes
  <2> QED
    BY <2>1
<1>2. CASE EventWritten
  <2>1. UNCHANGED hook
    BY <1>2 DEF EventWritten, AddEvent, EndTransaction
  <2> QED
    BY <1>1, <1>2, <2>1, AddEventKeeps, EndTransactionKeeps DEF EventWritten
<1>3. CASE ListEvents
  <2>1. UNCHANGED hook
    BY <1>3 DEF ListEvents
  <2> QED
    BY <1>1, <1>3, <2>1, ListEventsKeeps
<1>4. CASE CreateWebhook
  BY <1>4, CreateWebhookKeeps
<1>5. CASE UpdateWebhook \/ DeleteWebhook \/ BackoffEnds \/ FailingAges
  BY <1>1, <1>5, OwnerAndTimeKeep
<1>6. ASSUME NEW g \in Gateway, HookTurn(g) PROVE HookInv' /\ hook'.cursor >= hook.cursor
  <2>1. CASE AcquireLock(g) \/ LosesLock(g) \/ ReleaseLock(g)
    BY <1>1, <2>1, LocksKeep
  <2>2. CASE SubmitDue(g)
    BY <1>1, <2>2, SubmitDueKeeps
  <2>3. CASE EndTurn(g) \/ TurnedOff(g) \/ RecordFailure(g)
    BY <2>3, TurnEndKeeps
  <2>4. CASE PassOver(g)
    BY <1>1, <2>4, PassOverKeeps
  <2>5. CASE PostEvent(g)
    BY <1>1, <2>5, PostEventKeeps
  <2>6. CASE RecordProgress(g)
    BY <2>6, RecordProgressKeeps
  <2> QED
    BY <1>6, <2>1, <2>2, <2>3, <2>4, <2>5, <2>6 DEF HookTurn
<1>7. ASSUME NEW g \in Gateway, ConnectionDrops(g) PROVE HookInv' /\ hook'.cursor >= hook.cursor
  BY <1>1, <1>7, LocksKeep
<1>8. ASSUME NEW g \in Gateway, GatewayDies(g) PROVE HookInv' /\ hook'.cursor >= hook.cursor
  BY <1>8, TurnEndKeeps
<1>9. ASSUME NEW g \in Gateway, PruneEvents(g) PROVE HookInv' /\ hook'.cursor >= hook.cursor
  BY <1>1, <1>9, PruneEventsKeeps
<1>10. CASE UNCHANGED hookVars
  <2>1. QuietFeed /\ UNCHANGED <<hook, hookStart, turn, leads, passLock, received, passedOver>>
    BY <1>10 DEF hookVars, feedVars, turnVars, QuietFeed
  <2>2. leads' \in [Gateway -> {"no", "leads", "drains"}] /\ passLock' \in Gateway \cup {Nobody}
    BY <2>1 DEF HookInv, HookTypes
  <2> QED
    BY <1>1, <2>1, <2>2, QuietKeeps
<1> QED
  BY <1>2, <1>3, <1>4, <1>5, <1>6, <1>7, <1>8, <1>9, <1>10 DEF HookNext, DeliveryNext

\* What the invariant says of every state.
LEMMA HookInvSafe == HookInv => HookTypeOK /\ FeedMissesNothing /\ HookMissesNothing /\ FirstInOrder
<1> SUFFICES ASSUME HookInv PROVE HookTypeOK /\ FeedMissesNothing /\ HookMissesNothing /\ FirstInOrder
  OBVIOUS
<1>1. LastVisible \in Nat /\ eventIds \in Nat /\ LastVisible <= eventIds
  BY Visible DEF HookInv
<1>2. 1 .. LastVisible \subseteq 1 .. eventIds /\ 0 .. LastVisible \subseteq 0 .. eventIds
  BY <1>1
<1>3. HookTypeOK
  BY <1>2 DEF HookInv, HookTypes, HookTypeOK, TurnRecord
<1>4. HookMissesNothing
  <2> SUFFICES ASSUME NEW e \in events, Handled(e) PROVE e \in ToSet(received) \/ e \in passedOver
    BY DEF HookInv, CursorSound, HookMissesNothing
  <2>1. received \in Seq(1 .. LastVisible)
    BY DEF HookInv, HookTypes
  <2>2. DOMAIN received = 1 .. Len(received)
    BY <2>1
  <2> QED
    BY <2>2 DEF Handled, ToSet
<1> QED
  BY <1>3, <1>4 DEF HookInv

\* No event is missed by a reader of the feed or by the webhook, and deliveries come in
\* order the first time: the lock of add_event, the turns of webhook_loop that finish after
\* their process lost the leader's lock, and the deaths between a post and its record
\* included.
THEOREM WebhookSafetyHolds == HookSpec => WebhookSafety
<1>1. HookInv /\ [HookNext]_hookVars => HookInv'
  BY HookInvStep
<1>2. HookInv /\ [HookNext]_hookVars => [hook.cursor' >= hook.cursor]_hookVars
  BY HookInvStep
<1> QED
  BY HookInvInit, <1>1, <1>2, HookInvSafe, PTL DEF HookSpec, WebhookSafety, CursorNeverBack

(***************************************************************************)
(* Customer notices: capacity alerts.                                      *)
(***************************************************************************)

AlertStates == {"none", "waiting", "fired", "expired", "cancelled"}

AlertTypes ==
  /\ alert \in [Alert -> [state : AlertStates, want : Wants \cup {NoOne}]]
  /\ alertEvents \in [Alert -> Nat]
  /\ free \in [Machine -> 0 .. MaxFree]
  /\ userLock \in Creator \cup {NoOne}
  /\ creating \in [Creator -> {NoOne} \cup [waiting : SUBSET Alert, want : Wants]]

\* A request that has read the waiting alerts holds the customer's row, so all that wait
\* now waited then.
SawTheWaiting ==
  \A c \in Creator : creating[c] # NoOne =>
    userLock = c /\ Waiting \subseteq creating[c].waiting

WaitingWants == \A a \in Waiting : alert[a].want \in Wants

\* Until it fires an alert has no event; one whose cancel was answered never fires.
EventWithState ==
  \A a \in Alert :
    /\ alert[a].state \in {"none", "waiting"} => alertEvents[a] = 0
    /\ a \in toldCancelled => alertEvents[a] = 0 /\ alert[a].state \notin {"none", "waiting"}
    /\ alertEvents[a] <= 1

AlertInv == AlertTypes /\ SawTheWaiting /\ WaitingWants /\ EventWithState /\ AlertLimit

LEMMA AlertInvInit == AlertInit => AlertInv
<1> SUFFICES ASSUME AlertInit PROVE AlertInv
  OBVIOUS
<1> USE NoticesAssumption
<1>1. Waiting = {} /\ Cardinality(Waiting) = 0
  BY FS_EmptySet DEF AlertInit, Waiting
<1>2. AlertTypes
  BY DEF AlertInit, AlertTypes, AlertStates
<1>3. SawTheWaiting /\ WaitingWants /\ EventWithState
  BY <1>1 DEF AlertInit, SawTheWaiting, WaitingWants, EventWithState
<1>4. AlertLimit
  BY <1>1 DEF AlertLimit
<1> QED
  BY <1>2, <1>3, <1>4 DEF AlertInv

\* When fewer alerts wait, and none of them changed, the limit stays kept.
LEMMA FewerWait ==
  ASSUME AlertInv, Waiting' \subseteq Waiting, \A a \in Waiting' : alert'[a] = alert[a]
  PROVE  AlertLimit' /\ WaitingWants'
<1>1. IsFiniteSet(Waiting)
  BY NoticesAssumption, FS_Subset DEF Waiting
<1>2. /\ IsFiniteSet(Waiting') /\ Cardinality(Waiting') <= Cardinality(Waiting)
      /\ Cardinality(Waiting) \in Nat /\ Cardinality(Waiting') \in Nat
  BY <1>1, FS_Subset, FS_CardinalityType
<1>3. Cardinality(Waiting') <= MaxWaiting
  BY <1>2, NoticesAssumption DEF AlertInv, AlertLimit
<1> QED
  BY <1>3 DEF AlertInv, AlertLimit, WaitingWants

\* ... and what a request saw stays what it saw.
LEMMA StillSaw ==
  ASSUME AlertInv, Waiting' \subseteq Waiting, UNCHANGED <<creating, userLock>>
  PROVE  SawTheWaiting'
BY DEF AlertInv, SawTheWaiting

\* A request takes the customer's row when nobody has it, and reads.
LEMMA CreateAlertReadsKeeps ==
  ASSUME AlertInv, NEW c \in Creator, CreateAlertReads(c)
  PROVE  AlertInv'
<1> USE NoticesAssumption
<1>1. PICK want \in Wants : creating' = [creating EXCEPT ![c] = [waiting |-> Waiting, want |-> want]]
  BY DEF CreateAlertReads
<1>2. userLock = NoOne /\ userLock' = c /\ UNCHANGED <<alert, alertEvents, free, cancelling, toldCancelled>>
  BY DEF CreateAlertReads
<1>3. Waiting' = Waiting /\ Waiting \subseteq Alert
  BY <1>2 DEF Waiting
<1>4. \A d \in Creator : creating[d] = NoOne
  BY <1>2 DEF AlertInv, SawTheWaiting
<1> DEFINE r == [waiting |-> Waiting, want |-> want]
<1>5. r \in [waiting : SUBSET Alert, want : Wants] /\ r.waiting = Waiting
  BY <1>3
<1>6. creating' = [creating EXCEPT ![c] = r]
  BY <1>1
<1> HIDE DEF r
<1>7. creating' \in [Creator -> {NoOne} \cup [waiting : SUBSET Alert, want : Wants]]
  BY <1>5, <1>6 DEF AlertInv, AlertTypes
<1>8. AlertTypes'
  BY <1>2, <1>7 DEF AlertInv, AlertTypes
<1>9. SawTheWaiting'
  <2>1. \A d \in Creator : creating'[d] = IF d = c THEN r ELSE creating[d]
    BY <1>6 DEF AlertInv, AlertTypes
  <2> QED
    BY <1>2, <1>3, <1>4, <1>5, <2>1 DEF SawTheWaiting
<1>10. WaitingWants' /\ EventWithState' /\ AlertLimit'
  BY <1>2, <1>3 DEF AlertInv, WaitingWants, EventWithState, AlertLimit
<1> QED
  BY <1>8, <1>9, <1>10 DEF AlertInv

\* A row is added only for a request that saw room for it, and under the customer's lock.
LEMMA CreateAlertWritesKeeps ==
  ASSUME AlertInv, NEW c \in Creator, CreateAlertWrites(c)
  PROVE  AlertInv'
<1> USE NoticesAssumption
<1> DEFINE saw == creating[c]
<1>1. /\ saw # NoOne /\ creating' = [creating EXCEPT ![c] = NoOne]
      /\ userLock' = IF userLock = c THEN NoOne ELSE userLock
      /\ UNCHANGED <<alertEvents, free, cancelling, toldCancelled>>
  BY DEF CreateAlertWrites
<1>2. /\ userLock = c /\ Waiting \subseteq saw.waiting /\ saw.waiting \subseteq Alert /\ saw.want \in Wants
  BY <1>1 DEF AlertInv, SawTheWaiting, AlertTypes
<1>3. \A d \in Creator : creating'[d] = NoOne
  <2>1. \A d \in Creator : d # c => creating[d] = NoOne
    BY <1>2 DEF AlertInv, SawTheWaiting
  <2> QED
    BY <1>1, <2>1 DEF AlertInv, AlertTypes
<1>4. SawTheWaiting'
  BY <1>3 DEF SawTheWaiting
<1>5. creating' \in [Creator -> {NoOne} \cup [waiting : SUBSET Alert, want : Wants]] /\ userLock' \in Creator \cup {NoOne}
  BY <1>1 DEF AlertInv, AlertTypes
<1>6. CASE UNCHANGED alert
  <2>1. Waiting' = Waiting
    BY <1>6 DEF Waiting
  <2> QED
    BY <1>1, <1>4, <1>5, <1>6, <2>1 DEF AlertInv, AlertTypes, WaitingWants, EventWithState, AlertLimit
<1>7. ASSUME NEW a \in Alert, alert[a].state = "none",
             alert' = [alert EXCEPT ![a] = [state |-> "waiting", want |-> saw.want]],
             \A b \in saw.waiting : alert[b].want # saw.want, ~(Cardinality(saw.waiting) >= MaxWaiting)
      PROVE  AlertInv'
  <2>1. \A b \in Alert : alert'[b] = IF b = a THEN [state |-> "waiting", want |-> saw.want] ELSE alert[b]
    BY <1>7 DEF AlertInv, AlertTypes
  <2>2. alert' \in [Alert -> [state : AlertStates, want : Wants \cup {NoOne}]]
    BY <1>2, <1>7 DEF AlertInv, AlertTypes, AlertStates
  <2>3. Waiting' = Waiting \cup {a}
    BY <2>1 DEF Waiting
  <2>4. AlertTypes'
    BY <1>1, <1>5, <2>2 DEF AlertInv, AlertTypes
  <2>5. WaitingWants'
    BY <1>2, <2>1, <2>3 DEF AlertInv, WaitingWants, Waiting
  <2>6. EventWithState'
    BY <1>1, <1>7, <2>1 DEF AlertInv, EventWithState
  <2>7. Cardinality(Waiting') <= MaxWaiting
    <3>1. IsFiniteSet(saw.waiting) /\ IsFiniteSet(Waiting)
      BY <1>2, FS_Subset
    <3>2. Cardinality(Waiting) <= Cardinality(saw.waiting)
      BY <1>2, <3>1, FS_Subset
    <3>3. Cardinality(Waiting) \in Nat /\ Cardinality(saw.waiting) \in Nat
      BY <3>1, FS_CardinalityType
    <3>4. Cardinality(Waiting \cup {a}) <= Cardinality(Waiting) + 1 /\ Cardinality(Waiting \cup {a}) \in Nat
      <4>1. IsFiniteSet(Waiting \cup {a})
        BY <3>1, FS_AddElement
      <4>2. Cardinality(Waiting \cup {a}) = Cardinality(Waiting) \/ Cardinality(Waiting \cup {a}) = Cardinality(Waiting) + 1
        BY <3>1, FS_AddElement
      <4> QED
        BY <3>3, <4>1, <4>2, FS_CardinalityType
    <3> QED
      BY <1>7, <2>3, <3>2, <3>3, <3>4
  <2>8. \A x, y \in Waiting' : alert'[x].want = alert'[y].want => x = y
    <3>1. \A x \in Waiting : x \in saw.waiting /\ x # a /\ x \in Alert
      BY <1>2, <1>7 DEF Waiting
    <3>2. \A x \in Waiting : alert'[x].want # saw.want /\ alert'[x] = alert[x]
      BY <1>7, <2>1, <3>1
    <3>3. alert'[a].want = saw.want
      BY <2>1
    <3> QED
      BY <2>3, <3>2, <3>3 DEF AlertInv, AlertLimit
  <2>9. AlertLimit'
    BY <2>7, <2>8 DEF AlertLimit
  <2> QED
    BY <1>4, <2>4, <2>5, <2>6, <2>9 DEF AlertInv
<1> QED
  BY <1>6, <1>7 DEF CreateAlertWrites

\* An alert that expires, or whose cancel is written.
LEMMA AlertEndsKeeps ==
  ASSUME AlertInv, NEW a \in Alert, ExpireAlert(a) \/ CancelAlertWrites(a)
  PROVE  AlertInv' /\ UNCHANGED alertEvents
<1>1. PICK st \in {"expired", "cancelled"} : alert' = [alert EXCEPT ![a].state = st]
  BY DEF ExpireAlert, CancelAlertWrites
<1>2. UNCHANGED <<alertEvents, free, userLock, creating>>
  BY DEF ExpireAlert, CancelAlertWrites
<1>3. \A b \in Alert : /\ b # a => alert'[b] = alert[b]
                       /\ alert'[a].state = st
  BY <1>1 DEF AlertInv, AlertTypes
<1>4. Waiting' \subseteq Waiting /\ \A b \in Waiting' : alert'[b] = alert[b]
  BY <1>3 DEF Waiting
<1>5. alert' \in [Alert -> [state : AlertStates, want : Wants \cup {NoOne}]]
  BY <1>1 DEF AlertInv, AlertTypes, AlertStates
<1>6. AlertTypes'
  BY <1>2, <1>5 DEF AlertInv, AlertTypes
<1>7. \A b \in toldCancelled' : b \in toldCancelled \/ (b = a /\ alert[a].state = "waiting")
  BY DEF ExpireAlert, CancelAlertWrites
<1>8. EventWithState'
  BY <1>2, <1>3, <1>7 DEF AlertInv, EventWithState
<1>9. AlertLimit' /\ WaitingWants'
  BY <1>4, FewerWait
<1>10. SawTheWaiting'
  BY <1>2, <1>4, StillSaw
<1> QED
  BY <1>2, <1>6, <1>8, <1>9, <1>10 DEF AlertInv

\* check_once: the event and the state go together.
LEMMA CheckOnceKeeps ==
  ASSUME AlertInv, CheckOnce
  PROVE  AlertInv' /\ \A a \in Alert : alertEvents'[a] > alertEvents[a] => Fires(a)
<1>1. /\ alert' = [a \in Alert |-> IF Fires(a) THEN [alert[a] EXCEPT !.state = "fired"] ELSE alert[a]]
      /\ alertEvents' = [a \in Alert |-> IF Fires(a) THEN alertEvents[a] + 1 ELSE alertEvents[a]]
      /\ UNCHANGED <<free, userLock, creating, cancelling, toldCancelled>>
  BY DEF CheckOnce
<1>2. \A a \in Alert : Fires(a) => alert[a].state = "waiting"
  BY DEF Fires
<1>3. \A a \in Alert : alertEvents[a] \in Nat /\ alert[a] \in [state : AlertStates, want : Wants \cup {NoOne}]
  BY DEF AlertInv, AlertTypes
<1>4. \A a \in Alert : /\ Fires(a) => alert'[a].state = "fired" /\ alertEvents'[a] = alertEvents[a] + 1
                       /\ ~Fires(a) => alert'[a] = alert[a] /\ alertEvents'[a] = alertEvents[a]
  BY <1>1, <1>3
<1>5. alert' \in [Alert -> [state : AlertStates, want : Wants \cup {NoOne}]]
  BY <1>1, <1>3 DEF AlertStates
<1>6. alertEvents' \in [Alert -> Nat]
  BY <1>1, <1>3
<1>7. AlertTypes'
  BY <1>1, <1>5, <1>6 DEF AlertInv, AlertTypes
<1>8. Waiting' \subseteq Waiting /\ \A b \in Waiting' : alert'[b] = alert[b]
  BY <1>4 DEF Waiting
<1>9. EventWithState'
  <2> SUFFICES ASSUME NEW a \in Alert
               PROVE  /\ alert'[a].state \in {"none", "waiting"} => alertEvents'[a] = 0
                      /\ a \in toldCancelled => alertEvents'[a] = 0 /\ alert'[a].state \notin {"none", "waiting"}
                      /\ alertEvents'[a] <= 1
    BY <1>1 DEF EventWithState
  <2>1. CASE Fires(a)
    BY <1>2, <1>4, <2>1 DEF AlertInv, EventWithState
  <2>2. CASE ~Fires(a)
    BY <1>4, <2>2 DEF AlertInv, EventWithState
  <2> QED
    BY <2>1, <2>2
<1>10. AlertLimit' /\ WaitingWants'
  BY <1>8, FewerWait
<1>11. SawTheWaiting'
  BY <1>1, <1>8, StillSaw
<1>12. \A a \in Alert : alertEvents'[a] > alertEvents[a] => Fires(a)
  BY <1>3, <1>4
<1> QED
  BY <1>7, <1>9, <1>10, <1>11, <1>12 DEF AlertInv

\* Every step of the alerts keeps the invariant, and only check_once writes an event.
LEMMA AlertInvKept ==
  ASSUME AlertInv, [AlertNext]_alertVars
  PROVE  AlertInv' /\ \A a \in Alert : alertEvents'[a] > alertEvents[a] => Fires(a)
<1>0. UNCHANGED alertEvents => \A a \in Alert : alertEvents'[a] > alertEvents[a] => Fires(a)
  <2>1. \A a \in Alert : alertEvents[a] \in Nat
    BY DEF AlertInv, AlertTypes
  <2>2. \A a \in Alert : ~(alertEvents[a] > alertEvents[a])
    BY <2>1
  <2> QED
    BY <2>2
<1>1. ASSUME NEW c \in Creator, CreateAlertReads(c) PROVE AlertInv' /\ UNCHANGED alertEvents
  BY <1>1, CreateAlertReadsKeeps DEF CreateAlertReads
<1>2. ASSUME NEW c \in Creator, CreateAlertWrites(c) PROVE AlertInv' /\ UNCHANGED alertEvents
  BY <1>2, CreateAlertWritesKeeps DEF CreateAlertWrites
<1>3. ASSUME NEW a \in Alert, ExpireAlert(a) \/ CancelAlertWrites(a) PROVE AlertInv' /\ UNCHANGED alertEvents
  BY <1>3, AlertEndsKeeps
<1>4. CASE UNCHANGED <<alert, alertEvents, userLock, creating, toldCancelled>> /\ free' \in [Machine -> 0 .. MaxFree]
  <2>1. Waiting' = Waiting
    BY <1>4 DEF Waiting
  <2>2. AlertInv'
    BY <1>4, <2>1 DEF AlertInv, AlertTypes, SawTheWaiting, WaitingWants, EventWithState, AlertLimit
  <2> QED
    BY <1>0, <1>4, <2>2
<1>5. ASSUME NEW a \in Alert, CancelAlertReads(a)
      PROVE  UNCHANGED <<alert, alertEvents, userLock, creating, toldCancelled>> /\ free' \in [Machine -> 0 .. MaxFree]
  BY <1>5 DEF CancelAlertReads, AlertInv, AlertTypes
<1>6. CASE FreeByModel
  <2>1. UNCHANGED <<alert, alertEvents, userLock, creating, toldCancelled>> /\ free' \in [Machine -> 0 .. MaxFree]
    BY <1>6 DEF FreeByModel, AlertInv, AlertTypes
  <2> QED
    BY <1>4, <2>1
<1>7. CASE UNCHANGED alertVars
  <2>1. UNCHANGED <<alert, alertEvents, userLock, creating, toldCancelled>> /\ free' \in [Machine -> 0 .. MaxFree]
    BY <1>7 DEF alertVars, AlertInv, AlertTypes
  <2> QED
    BY <1>4, <2>1
<1>8. CASE CheckOnce
  BY <1>8, CheckOnceKeeps
<1> QED
  BY <1>0, <1>1, <1>2, <1>3, <1>4, <1>5, <1>6, <1>7, <1>8 DEF AlertNext

\* Where there is room by the units each machine has left, each rental has a machine:
\* give every rental a unit of its own, and the machine the unit is of.
LEMMA UnitsHaveRoom ==
  ASSUME NEW M, IsFiniteSet(M), NEW f, \A m \in M : f[m] \in Nat, NEW k \in Nat, Total(M, f) >= k
  PROVE  \E place \in [1 .. k -> M] :
           \A m \in M : /\ Cardinality({i \in 1 .. k : place[i] = m}) \in Nat
                        /\ Cardinality({i \in 1 .. k : place[i] = m}) <= f[m]
<1> DEFINE U == Units(M, f)
<1>1. IsFiniteSet(U) /\ Cardinality(U) \in Nat /\ Cardinality(U) >= k
  BY TotalType DEF Total
<1>2. PICK b : b \in Bijection(1 .. Cardinality(U), U)
  BY <1>1, FS_CardinalityType DEF ExistsBijection
<1>3. \A u \in U : u[1] \in M /\ u[2] \in 1 .. f[u[1]] /\ u = <<u[1], u[2]>>
  BY DEF Units
<1> HIDE DEF U
<1>4. /\ \A i \in 1 .. k : i \in 1 .. Cardinality(U) /\ b[i] \in U
      /\ \A i, j \in 1 .. k : b[i] = b[j] => i = j
  <2>1. \A i \in 1 .. k : i \in 1 .. Cardinality(U)
    BY <1>1
  <2>2. \A i \in 1 .. Cardinality(U) : b[i] \in U
    BY <1>2 DEF Bijection, Injection, Surjection
  <2>3. \A i, j \in 1 .. Cardinality(U) : b[i] = b[j] => i = j
    BY <1>2 DEF Bijection, Injection, IsInjective
  <2> QED
    BY <2>1, <2>2, <2>3
<1> DEFINE place == [i \in 1 .. k |-> b[i][1]]
<1>5. place \in [1 .. k -> M]
  BY <1>3, <1>4
<1>6. ASSUME NEW m \in M
      PROVE  Cardinality({i \in 1 .. k : place[i] = m}) \in Nat /\ Cardinality({i \in 1 .. k : place[i] = m}) <= f[m]
  <2> DEFINE I == {q \in 1 .. k : place[q] = m}
             g == [q \in I |-> b[q][2]]
  <2>1. \A i \in I : i \in 1 .. k /\ b[i][1] = m
    OBVIOUS
  <2>2. \A i \in I : b[i] = <<m, b[i][2]>> /\ b[i][2] \in 1 .. f[m]
    BY <1>3, <1>4, <2>1
  <2>3. g \in Injection(I, 1 .. f[m])
    <3>1. g \in [I -> 1 .. f[m]]
      BY <2>2
    <3>2. ASSUME NEW i \in I, NEW j \in I, g[i] = g[j] PROVE i = j
      <4>1. b[i] = <<m, b[i][2]>> /\ b[j] = <<m, b[j][2]>> /\ b[i][2] = b[j][2]
        BY <2>2, <3>2
      <4>2. b[i] = b[j] /\ i \in 1 .. k /\ j \in 1 .. k
        BY <2>1, <4>1
      <4> QED
        BY <1>4, <4>2
    <3> QED
      BY <3>1, <3>2 DEF Injection, IsInjective
  <2>4. IsFiniteSet(1 .. f[m]) /\ Cardinality(1 .. f[m]) = f[m]
    <3> DEFINE y == f[m]
    <3>1. y \in Nat
      OBVIOUS
    <3> HIDE DEF y
    <3>2. IsFiniteSet(1 .. y) /\ Cardinality(1 .. y) = y
      BY <3>1, FS_Interval
    <3> QED
      BY <3>2 DEF y
  <2> HIDE DEF I, g
  <2>5. IsFiniteSet(I) /\ Cardinality(I) <= Cardinality(1 .. f[m])
    BY <2>3, <2>4, FS_Injection
  <2>6. Cardinality(I) \in Nat
    BY <2>5, FS_CardinalityType
  <2> QED
    BY <2>4, <2>5, <2>6 DEF I
<1> QED
  BY <1>5, <1>6

\* What fires fits, each rental whole on one machine.
LEMMA FiresHasRoom ==
  ASSUME AlertInv, NEW a \in Alert, Fires(a)
  PROVE  LET want == alert[a].want IN
         \E place \in [1 .. want.count -> Machine] :
           \A m \in Machine : want.gpus * Cardinality({i \in 1 .. want.count : place[i] = m}) <= free[m]
<1> DEFINE want == alert[a].want
           f == [m \in Machine |-> free[m] \div want.gpus]
<1>1. want.gpus \in {1, 2} /\ want.count \in Nat
  BY DEF AlertInv, WaitingWants, Fires, Waiting, Wants
<1>2. Total(Machine, f) >= want.count
  BY DEF Fires, Fits
<1>3. \A m \in Machine : free[m] \in Nat
  BY NoticesAssumption DEF AlertInv, AlertTypes
<1>4. \A x \in Nat : x \div 1 = x /\ x \div 2 \in Nat /\ 2 * (x \div 2) <= x
  OBVIOUS
<1>5. \A m \in Machine : f[m] \in Nat /\ want.gpus * f[m] <= free[m]
  <2> SUFFICES ASSUME NEW m \in Machine PROVE f[m] \in Nat /\ want.gpus * f[m] <= free[m]
    OBVIOUS
  <2>1. f[m] = free[m] \div want.gpus
    OBVIOUS
  <2>2. CASE want.gpus = 1
    BY <1>3, <1>4, <2>1, <2>2
  <2>3. CASE want.gpus = 2
    BY <1>3, <1>4, <2>1, <2>3
  <2> QED
    BY <1>1, <2>2, <2>3
<1> DEFINE n == want.count
           g == want.gpus
<1> HIDE DEF f, n, g
<1>6. PICK place \in [1 .. n -> Machine] :
        \A m \in Machine : /\ Cardinality({i \in 1 .. n : place[i] = m}) \in Nat
                           /\ Cardinality({i \in 1 .. n : place[i] = m}) <= f[m]
  <2>1. n \in Nat /\ Total(Machine, f) >= n /\ IsFiniteSet(Machine) /\ \A m \in Machine : f[m] \in Nat
    BY <1>1, <1>2, <1>5, NoticesAssumption DEF n
  <2> QED
    BY <2>1, UnitsHaveRoom
<1>7. ASSUME NEW m \in Machine PROVE g * Cardinality({i \in 1 .. n : place[i] = m}) <= free[m]
  <2> DEFINE x == Cardinality({i \in 1 .. n : place[i] = m})
             y == f[m]
             z == free[m]
  <2>1. x \in Nat /\ x <= y
    BY <1>6
  <2>2. y \in Nat /\ g * y <= z /\ g \in {1, 2} /\ z \in Nat
    BY <1>1, <1>3, <1>5 DEF g
  <2> HIDE DEF x, y, z
  <2>3. g * x <= z
    BY <2>1, <2>2
  <2> QED
    BY <2>3 DEF x, z
<1> QED
  BY <1>6, <1>7 DEF n, g

(***************************************************************************)
(* Customer notices: emails about rentals that stopped.                    *)
(***************************************************************************)

StopTypes ==
  /\ noticeIds \in Nat /\ noticeIds <= MaxNoticeIds
  /\ pending \in [Customer -> 0 .. noticeIds]
  /\ stopped \subseteq 1 .. noticeIds /\ settled \subseteq 1 .. noticeIds
  /\ stopCursor \in -1 .. noticeIds /\ stopStart \in -1 .. noticeIds
  /\ emailed \in [1 .. MaxNoticeIds -> Nat]
  /\ sweeping \in [Sweeper -> -1 .. noticeIds]

\* Ids settle in their order, and none that a transaction still holds.
SettledInOrder ==
  /\ \A e \in settled : 1 .. e - 1 \subseteq settled
  /\ \A c \in Customer : pending[c] \notin settled

\* A process in the middle of a sweep has the cursor's row, so the cursor is what it read.
SweepHasCursor == \A g \in Sweeper : sweeping[g] # -1 => kvLock = g /\ sweeping[g] = stopCursor

\* After the first run the cursor only goes to settled ids.
CursorSettled ==
  /\ stopStart <= stopCursor /\ (stopStart = -1 <=> stopCursor = -1)
  /\ stopCursor = stopStart \/ stopCursor \in settled

\* No event beyond the cursor is emailed, none at all twice.
EmailedBehindCursor ==
  \A e \in 1 .. MaxNoticeIds : emailed[e] <= 1 /\ (e > stopCursor => emailed[e] = 0)

StopInv == StopTypes /\ SettledInOrder /\ SweepHasCursor /\ CursorSettled /\ EmailedBehindCursor /\ StoppedEmailedOnce

LEMMA StopInvInit == StopInit => StopInv
BY NoticesAssumption
   DEF StopInit, StopInv, StopTypes, SettledInOrder, SweepHasCursor, CursorSettled, EmailedBehindCursor,
       StoppedEmailedOnce

\* A transaction takes the next id.
LEMMA RentalFailsKeeps ==
  ASSUME StopInv, NEW c \in Customer, RentalFails(c)
  PROVE  StopInv'
<1> USE NoticesAssumption
<1>1. /\ noticeIds' = noticeIds + 1 /\ pending' = [pending EXCEPT ![c] = noticeIds + 1]
      /\ noticeIds \in Nat /\ noticeIds < MaxNoticeIds
      /\ UNCHANGED <<stopped, settled, stopCursor, stopStart, emailed, sweeping, kvLock>>
  BY DEF RentalFails, StopInv, StopTypes
<1>2. \A d \in Customer : pending'[d] = IF d = c THEN noticeIds + 1 ELSE pending[d]
  BY <1>1 DEF StopInv, StopTypes
<1>3. \A x \in 0 .. noticeIds : x \in 0 .. noticeIds'
  BY <1>1
<1>4. \A x \in -1 .. noticeIds : x \in -1 .. noticeIds'
  BY <1>1
<1>5. \A x \in 1 .. noticeIds : x \in 1 .. noticeIds' /\ x # noticeIds + 1
  BY <1>1
<1>6. pending' \in [Customer -> 0 .. noticeIds']
  BY <1>1, <1>2, <1>3 DEF StopInv, StopTypes
<1>7. sweeping' \in [Sweeper -> -1 .. noticeIds'] /\ stopCursor' \in -1 .. noticeIds' /\ stopStart' \in -1 .. noticeIds'
  BY <1>1, <1>4 DEF StopInv, StopTypes
<1>8. stopped' \subseteq 1 .. noticeIds' /\ settled' \subseteq 1 .. noticeIds'
  BY <1>1, <1>5 DEF StopInv, StopTypes
<1>9. StopTypes'
  BY <1>1, <1>6, <1>7, <1>8 DEF StopInv, StopTypes
<1>10. SettledInOrder'
  BY <1>1, <1>2, <1>5 DEF StopInv, StopTypes, SettledInOrder
<1> QED
  BY <1>1, <1>9, <1>10 DEF StopInv, SweepHasCursor, CursorSettled, EmailedBehindCursor, StoppedEmailedOnce

\* A failure commits: what a transaction still held has not settled, so no sweep has passed it.
LEMMA FailureCommitsKeeps ==
  ASSUME StopInv, NEW c \in Customer, FailureCommits(c)
  PROVE  StopInv'
<1> USE NoticesAssumption
<1> DEFINE e == pending[c]
<1>1. /\ e # 0 /\ stopped' = stopped \cup {e} /\ pending' = [pending EXCEPT ![c] = 0]
      /\ UNCHANGED <<noticeIds, settled, stopCursor, stopStart, emailed, sweeping, kvLock>>
  BY DEF FailureCommits
<1>2. e \in 1 .. noticeIds /\ e \in 1 .. MaxNoticeIds /\ e \notin settled
  BY <1>1 DEF StopInv, StopTypes, SettledInOrder
<1>3. \A d \in Customer : pending'[d] = IF d = c THEN 0 ELSE pending[d]
  BY <1>1 DEF StopInv, StopTypes
<1>4. 0 \notin settled
  BY DEF StopInv, StopTypes
<1>5. StopTypes'
  <2>1. pending' \in [Customer -> 0 .. noticeIds]
    BY <1>1 DEF StopInv, StopTypes
  <2>2. stopped' \subseteq 1 .. noticeIds
    BY <1>1, <1>2 DEF StopInv, StopTypes
  <2> QED
    BY <1>1, <2>1, <2>2 DEF StopInv, StopTypes
<1>6. SettledInOrder'
  BY <1>1, <1>3, <1>4 DEF StopInv, SettledInOrder
<1>7. SweepHasCursor' /\ CursorSettled' /\ EmailedBehindCursor'
  BY <1>1 DEF StopInv, SweepHasCursor, CursorSettled, EmailedBehindCursor
<1>8. ~(stopStart < e /\ e <= stopCursor)
  <2> SUFFICES ASSUME stopStart < e, e <= stopCursor PROVE FALSE
    OBVIOUS
  <2>1. stopCursor \in settled /\ stopCursor \in Nat
    BY <1>2 DEF StopInv, StopTypes, CursorSettled
  <2>2. e \in 1 .. stopCursor - 1 \/ e = stopCursor
    BY <1>2, <2>1
  <2> QED
    BY <1>2, <2>1, <2>2 DEF StopInv, SettledInOrder
<1>9. emailed[e] <= 1
  BY <1>2 DEF StopInv, EmailedBehindCursor
<1>10. StoppedEmailedOnce'
  BY <1>1, <1>8, <1>9 DEF StopInv, StoppedEmailedOnce
<1> QED
  BY <1>5, <1>6, <1>7, <1>10 DEF StopInv

\* SETTLE passes, in the order of the ids and after the commits.
LEMMA SettlesKeeps ==
  ASSUME StopInv, Untimely = FALSE, NEW e \in 1 .. MaxNoticeIds, Settles(e)
  PROVE  StopInv'
<1>1. /\ e \in 1 .. noticeIds /\ 1 .. e - 1 \subseteq settled /\ \A c \in Customer : pending[c] # e
      /\ settled' = settled \cup {e}
      /\ UNCHANGED <<pending, noticeIds, stopped, stopCursor, stopStart, emailed, sweeping, kvLock>>
  BY DEF Settles
<1>2. StopTypes' /\ SettledInOrder'
  BY <1>1 DEF StopInv, StopTypes, SettledInOrder
<1> QED
  BY <1>1, <1>2 DEF StopInv, SweepHasCursor, CursorSettled, EmailedBehindCursor, StoppedEmailedOnce

\* A sweep takes the row and reads the cursor.
LEMMA SweepReadsKeeps ==
  ASSUME StopInv, NEW g \in Sweeper, SweepReads(g)
  PROVE  StopInv'
<1>1. /\ kvLock = NoOne /\ kvLock' = g /\ sweeping' = [sweeping EXCEPT ![g] = stopCursor]
      /\ UNCHANGED <<pending, noticeIds, stopped, settled, stopCursor, stopStart, emailed>>
  BY DEF SweepReads
<1>2. \A h \in Sweeper : sweeping[h] = -1
  BY <1>1, NoticesAssumption DEF StopInv, SweepHasCursor
<1>3. \A h \in Sweeper : sweeping'[h] = IF h = g THEN stopCursor ELSE -1
  BY <1>1, <1>2 DEF StopInv, StopTypes
<1>4. SweepHasCursor'
  BY <1>1, <1>3 DEF SweepHasCursor
<1>5. StopTypes'
  BY <1>1 DEF StopInv, StopTypes
<1> QED
  BY <1>1, <1>4, <1>5 DEF StopInv, SettledInOrder, CursorSettled, EmailedBehindCursor, StoppedEmailedOnce

\* The last of a set of ids.
LEMMA LastId ==
  ASSUME StopInv, NEW S, S \subseteq 1 .. noticeIds, S # {}
  PROVE  Max(S) \in S /\ \A y \in S : y <= Max(S)
<1>1. S \in SUBSET Nat /\ noticeIds \in Nat /\ \A x \in S : x <= noticeIds
  BY DEF StopInv, StopTypes
<1> QED
  BY <1>1, MaxOfNaturals

\* The first sweep starts behind what stopped before it.
LEMMA FirstSweepKeeps ==
  ASSUME StopInv, NEW g \in Sweeper, FirstSweep(g)
  PROVE  StopInv'
<1>1. /\ stopCursor = -1 /\ stopCursor' = (IF stopped = {} THEN 0 ELSE Max(stopped)) /\ stopStart' = stopCursor'
      /\ UNCHANGED <<pending, noticeIds, stopped, settled, emailed, sweeping, kvLock>>
  BY DEF FirstSweep
<1>2. stopCursor' \in 0 .. noticeIds
  <2>1. noticeIds \in Nat /\ stopped \subseteq 1 .. noticeIds
    BY DEF StopInv, StopTypes
  <2>2. stopped # {} => Max(stopped) \in stopped
    BY <2>1, LastId
  <2> QED
    BY <1>1, <2>1, <2>2
<1>3. stopCursor' \in -1 .. noticeIds' /\ stopCursor' # -1 /\ stopCursor' \in Int
  BY <1>1, <1>2 DEF StopInv, StopTypes
<1>4. StopTypes'
  BY <1>1, <1>3 DEF StopInv, StopTypes
<1>5. SettledInOrder' /\ SweepHasCursor'
  BY <1>1 DEF StopInv, SettledInOrder, SweepHasCursor
<1>6. CursorSettled'
  BY <1>1, <1>3 DEF CursorSettled
<1>7. \A e \in 1 .. MaxNoticeIds : emailed'[e] = 0
  <2>1. \A e \in 1 .. MaxNoticeIds : e > stopCursor
    BY <1>1
  <2> QED
    BY <1>1, <2>1 DEF StopInv, EmailedBehindCursor
<1>8. EmailedBehindCursor'
  <2>1. \A e \in 1 .. MaxNoticeIds : emailed'[e] <= 1 /\ (e > stopCursor' => emailed'[e] = 0)
    BY <1>7
  <2> QED
    BY <2>1 DEF EmailedBehindCursor
<1>9. StoppedEmailedOnce'
  <2>1. \A e \in stopped' : e \in 1 .. MaxNoticeIds /\ e \in Int
    <3>1. stopped' \subseteq 1 .. noticeIds /\ noticeIds \in Nat /\ noticeIds <= MaxNoticeIds /\ MaxNoticeIds \in Nat
      BY <1>1, NoticesAssumption DEF StopInv, StopTypes
    <3> QED
      BY <3>1
  <2>2. \A e \in Int : ~(stopStart' < e /\ e <= stopCursor')
    BY <1>1, <1>3
  <2> QED
    BY <1>7, <2>1, <2>2 DEF StoppedEmailedOnce
<1> QED
  BY <1>4, <1>5, <1>6, <1>8, <1>9 DEF StopInv

\* A sweep emails all that settled after its cursor: ids settle in order, so none is left behind.
LEMMA SweepWritesKeeps ==
  ASSUME StopInv, NEW g \in Sweeper, SweepWrites(g)
  PROVE  StopInv'
<1> USE NoticesAssumption
<1> DEFINE batch == {e \in SettledEvents : e > sweeping[g]}
           next == IF batch = {} THEN stopCursor ELSE Max(batch)
<1>1. /\ sweeping[g] # -1 /\ stopCursor' = next
      /\ emailed' = [e \in 1 .. MaxNoticeIds |-> IF e \in batch THEN emailed[e] + 1 ELSE emailed[e]]
      /\ sweeping' = [sweeping EXCEPT ![g] = -1]
      /\ UNCHANGED <<pending, noticeIds, stopped, settled, stopStart>>
  BY DEF SweepWrites
<1>2. sweeping[g] = stopCursor /\ \A h \in Sweeper : h # g => sweeping[h] = -1
  BY <1>1 DEF StopInv, SweepHasCursor
<1>3. /\ noticeIds \in Nat /\ noticeIds <= MaxNoticeIds /\ stopCursor \in -1 .. noticeIds /\ stopStart \in -1 .. noticeIds
      /\ stopped \subseteq 1 .. noticeIds /\ settled \subseteq 1 .. noticeIds /\ stopStart <= stopCursor
      /\ stopCursor # -1
  BY <1>1, <1>2 DEF StopInv, StopTypes, CursorSettled
<1>4. \A e : e \in batch <=> e \in stopped /\ e \in settled /\ e > stopCursor
  BY <1>2 DEF SettledEvents
<1> HIDE DEF batch
<1>5. batch \subseteq 1 .. noticeIds
  BY <1>3, <1>4
<1>6. batch # {} => Max(batch) \in batch /\ \A y \in batch : y <= Max(batch)
  BY <1>5, LastId
<1>7. /\ next \in -1 .. noticeIds /\ next # -1 /\ stopCursor <= next
      /\ \A y \in batch : y <= next
      /\ next = stopCursor \/ next \in settled
  <2>1. CASE batch = {}
    BY <1>3, <2>1
  <2>2. CASE batch # {}
    <3> DEFINE x == Max(batch)
    <3>1. x \in batch /\ \A y \in batch : y <= x
      BY <1>6, <2>2
    <3>2. next = x
      BY <2>2
    <3> HIDE DEF x, next
    <3>3. x \in 1 .. noticeIds /\ x \in settled /\ x > stopCursor
      BY <1>4, <1>5, <3>1
    <3> QED
      BY <1>3, <3>1, <3>2, <3>3
  <2> QED
    BY <2>1, <2>2
<1> HIDE DEF next
<1>8. \A h \in Sweeper : sweeping'[h] = -1
  BY <1>1, <1>2 DEF StopInv, StopTypes
<1>9. \A e \in 1 .. MaxNoticeIds : emailed[e] \in Nat /\ emailed'[e] = IF e \in batch THEN emailed[e] + 1 ELSE emailed[e]
  BY <1>1 DEF StopInv, StopTypes
<1>10. sweeping' \in [Sweeper -> -1 .. noticeIds] /\ emailed' \in [1 .. MaxNoticeIds -> Nat]
  <2>1. -1 \in -1 .. noticeIds
    BY <1>3
  <2> QED
    BY <1>1, <1>9, <2>1 DEF StopInv, StopTypes
<1>11. StopTypes'
  BY <1>1, <1>3, <1>7, <1>10 DEF StopInv, StopTypes
<1>12. SettledInOrder' /\ SweepHasCursor'
  BY <1>1, <1>8 DEF StopInv, SettledInOrder, SweepHasCursor
<1>13. CursorSettled'
  BY <1>1, <1>3, <1>7 DEF StopInv, CursorSettled
<1>14. ASSUME NEW e \in 1 .. MaxNoticeIds
       PROVE  emailed'[e] <= 1 /\ (e > next => emailed'[e] = 0) /\ (e \in batch => emailed'[e] = 1)
  <2>1. emailed[e] <= 1 /\ (e > stopCursor => emailed[e] = 0) /\ e \in Int
    BY DEF StopInv, EmailedBehindCursor
  <2>2. CASE e \in batch
    <3>1. emailed'[e] = 1 /\ ~(e > next)
      BY <1>3, <1>4, <1>7, <1>9, <2>1, <2>2
    <3> QED
      BY <3>1
  <2>3. CASE e \notin batch
    BY <1>3, <1>7, <1>9, <2>1, <2>3
  <2> QED
    BY <2>2, <2>3
<1>15. EmailedBehindCursor'
  BY <1>1, <1>14 DEF EmailedBehindCursor
<1>16. StoppedEmailedOnce'
  <2> SUFFICES ASSUME NEW e \in stopped, stopStart # -1, stopStart < e, e <= next
               PROVE  emailed'[e] = 1
    <3>1. \A e \in stopped : emailed'[e] <= 1
      BY <1>3, <1>14
    <3> QED
      BY <1>1, <3>1 DEF StoppedEmailedOnce
  <2>1. e \in 1 .. noticeIds /\ e \in 1 .. MaxNoticeIds
    BY <1>3
  <2>2. CASE e <= stopCursor
    <3>1. emailed[e] = 1
      BY <2>2 DEF StopInv, StoppedEmailedOnce
    <3>2. e \notin batch
      BY <1>3, <1>4, <2>1, <2>2
    <3> QED
      BY <1>9, <2>1, <3>1, <3>2
  <2>3. CASE e > stopCursor
    <3>1. next \in settled /\ next \in Nat
      BY <1>3, <1>7, <2>1, <2>3
    <3>2. e \in 1 .. next - 1 \/ e = next
      BY <2>1, <3>1
    <3>3. e \in settled
      BY <3>1, <3>2 DEF StopInv, SettledInOrder
    <3> QED
      BY <1>4, <1>14, <2>1, <2>3, <3>3
  <2> QED
    BY <1>3, <2>1, <2>2, <2>3
<1> QED
  BY <1>11, <1>12, <1>13, <1>15, <1>16 DEF StopInv

LEMMA StopInvStep ==
  ASSUME StopInv, Untimely = FALSE, [StopNext]_stopVars
  PROVE  StopInv'
<1>1. CASE UNCHANGED stopVars
  BY <1>1 DEF stopVars, StopInv, StopTypes, SettledInOrder, SweepHasCursor, CursorSettled, EmailedBehindCursor,
              StoppedEmailedOnce
<1>2. CASE \E c \in Customer : RentalFails(c) \/ FailureCommits(c)
  BY <1>2, RentalFailsKeeps, FailureCommitsKeeps
<1>3. CASE \E e \in 1 .. MaxNoticeIds : Settles(e)
  BY <1>3, SettlesKeeps
<1>4. CASE \E g \in Sweeper : SweepReads(g) \/ FirstSweep(g) \/ SweepWrites(g)
  BY <1>4, SweepReadsKeeps, FirstSweepKeeps, SweepWritesKeeps
<1> QED
  BY <1>1, <1>2, <1>3, <1>4 DEF StopNext

(***************************************************************************)
(* Customer notices: low-credit warnings.                                  *)
(***************************************************************************)

Level == {"day", "short"}

CreditTypes ==
  /\ lasts \in {"idle", "long", "day", "short"} /\ told \in Level \cup {"none"}
  /\ lowEvents \in Seq(Level)

\* The level last told is the tightest of the events, or a tighter one told by another email.
ToldIsTightest == \A i \in 1 .. Len(lowEvents) : Tightness(lowEvents[i]) <= Tightness(told)

CreditInv == CreditTypes /\ ToldIsTightest /\ EachLevelOnce

LEMMA TightnessOf ==
  /\ Tightness("none") = 0 /\ Tightness("day") = 1 /\ Tightness("short") = 2
  /\ \A l \in Level \cup {"none"} : Tightness(l) \in 0 .. 2
  /\ \A l \in Level : Tightness(l) > 0
BY DEF Tightness, Level

LEMMA LevelForType == \A f : LevelFor(f) \in Level \cup {"none"}
BY DEF LevelFor, Level

LEMMA CreditInvInit == CreditInit => CreditInv
BY DEF CreditInit, CreditInv, CreditTypes, ToldIsTightest, EachLevelOnce, Level

\* Telling a tighter level keeps the order of the events.
LEMMA TellTighter ==
  ASSUME CreditInv, NEW level \in Level, ~AlreadyTold(level), told' = level, lowEvents' = Append(lowEvents, level),
         lasts' \in {"idle", "long", "day", "short"}
  PROVE  CreditInv'
<1> DEFINE n == Len(lowEvents)
<1>1. n \in Nat /\ lowEvents \in Seq(Level) /\ \A i \in 1 .. n : lowEvents[i] \in Level
  BY ElementOfSeq DEF CreditInv, CreditTypes
<1>2. /\ lowEvents' \in Seq(Level) /\ Len(lowEvents') = n + 1 /\ lowEvents'[n + 1] = level
      /\ \A i \in 1 .. n : lowEvents'[i] = lowEvents[i]
  BY <1>1, AppendProperties
<1> HIDE DEF n
<1>3. /\ told \in Level \cup {"none"} /\ Tightness(told) \in 0 .. 2 /\ Tightness(level) \in 1 .. 2
      /\ \A i \in 1 .. n : Tightness(lowEvents[i]) \in 1 .. 2
  BY <1>1, TightnessOf DEF CreditInv, CreditTypes
<1>4. Tightness(told) < Tightness(level)
  BY <1>3, TightnessOf DEF AlreadyTold
<1>5. \A i \in 1 .. n : Tightness(lowEvents[i]) <= Tightness(told)
  BY DEF CreditInv, ToldIsTightest, n
<1>6. \A i \in 1 .. n : Tightness(lowEvents[i]) < Tightness(level)
  BY <1>3, <1>4, <1>5
<1>7. \A i \in 1 .. n + 1 : i \in 1 .. n \/ i = n + 1
  BY <1>1
<1>8. ToldIsTightest'
  BY <1>2, <1>3, <1>6, <1>7 DEF ToldIsTightest
<1>9. EachLevelOnce'
  <2> SUFFICES ASSUME NEW i \in 1 .. n + 1, NEW j \in 1 .. n + 1, i < j
               PROVE  Tightness(lowEvents'[i]) < Tightness(lowEvents'[j])
    BY <1>2 DEF EachLevelOnce
  <2>1. i \in 1 .. n
    BY <1>1
  <2>2. CASE j = n + 1
    BY <1>2, <1>6, <2>1, <2>2
  <2>3. CASE j \in 1 .. n
    BY <1>2, <2>1, <2>3 DEF CreditInv, EachLevelOnce, n
  <2> QED
    BY <1>7, <2>2, <2>3
<1>10. CreditTypes'
  BY <1>2 DEF CreditTypes
<1> QED
  BY <1>8, <1>9, <1>10 DEF CreditInv

\* What remains of the events is a part from the first, all told at a level no tighter.
LEMMA EventsSinceIs ==
  ASSUME CreditInv, NEW level \in Level \cup {"none"}
  PROVE  \E n \in 0 .. Len(lowEvents) :
           /\ EventsSince(level) \in Seq(Level) /\ Len(EventsSince(level)) = n
           /\ \A i \in 1 .. n : /\ i \in 1 .. Len(lowEvents) /\ EventsSince(level)[i] = lowEvents[i]
                                /\ Tightness(lowEvents[i]) <= Tightness(level)
<1> DEFINE len == Len(lowEvents)
           S == {0} \cup {i \in 1 .. len : Tightness(lowEvents[i]) <= Tightness(level)}
           n == Max(S)
<1>1. len \in Nat /\ lowEvents \in Seq(Level) /\ \A i \in 1 .. len : lowEvents[i] \in Level
  BY ElementOfSeq DEF CreditInv, CreditTypes
<1>2. EventsSince(level) = SubSeq(lowEvents, 1, n)
  BY DEF EventsSince
<1>3. \A i \in 1 .. len : Tightness(lowEvents[i]) \in 0 .. 2
  BY <1>1, TightnessOf
<1>4. \A i, j \in 1 .. len : i < j => Tightness(lowEvents[i]) < Tightness(lowEvents[j])
  BY DEF CreditInv, EachLevelOnce
<1> HIDE DEF len
<1>5. S \in SUBSET Nat /\ S # {} /\ \A x \in S : x <= len
  BY <1>1
<1>6. n \in S
  BY <1>1, <1>5, MaxOfNaturals
<1>7. n \in 0 .. len /\ (n # 0 => n \in 1 .. len /\ Tightness(lowEvents[n]) <= Tightness(level))
  BY <1>1, <1>6
<1> HIDE DEF n
<1>8. Tightness(level) \in 0 .. 2
  BY TightnessOf
<1>9. \A i \in 1 .. n : i \in 1 .. len /\ Tightness(lowEvents[i]) <= Tightness(level)
  <2> SUFFICES ASSUME NEW i \in 1 .. n PROVE i \in 1 .. len /\ Tightness(lowEvents[i]) <= Tightness(level)
    OBVIOUS
  <2>1. i \in 1 .. len /\ n \in 1 .. len /\ Tightness(lowEvents[n]) <= Tightness(level)
    BY <1>1, <1>7
  <2>2. CASE i = n
    BY <2>1, <2>2
  <2>3. CASE i < n
    <3>1. Tightness(lowEvents[i]) < Tightness(lowEvents[n])
      BY <1>4, <2>1, <2>3
    <3> QED
      BY <1>3, <1>8, <2>1, <3>1
  <2> QED
    BY <2>1, <2>2, <2>3
<1>10. /\ EventsSince(level) \in Seq(Level) /\ Len(EventsSince(level)) = n
       /\ \A i \in 1 .. n : EventsSince(level)[i] = lowEvents[i]
  <2>1. 1 \in Int /\ n \in Int /\ \A i \in 1 .. n : lowEvents[i] \in Level
    BY <1>1, <1>7, <1>9
  <2>2. /\ SubSeq(lowEvents, 1, n) \in Seq(Level)
        /\ Len(SubSeq(lowEvents, 1, n)) = IF 1 <= n THEN n - 1 + 1 ELSE 0
        /\ \A i \in 1 .. n - 1 + 1 : SubSeq(lowEvents, 1, n)[i] = lowEvents[1 + i - 1]
    BY <2>1, SubSeqProperties
  <2>3. n - 1 + 1 = n /\ \A i \in 1 .. n : 1 + i - 1 = i
    BY <1>7
  <2>4. Len(SubSeq(lowEvents, 1, n)) = n
    BY <1>7, <2>2, <2>3
  <2>5. \A i \in 1 .. n : SubSeq(lowEvents, 1, n)[i] = lowEvents[i]
    BY <2>2, <2>3
  <2> QED
    BY <1>2, <2>2, <2>4, <2>5
<1> QED
  BY <1>7, <1>9, <1>10 DEF len

\* An email that informs of a looser level forgets the tighter ones.
LEMMA RearmKeeps ==
  ASSUME CreditInv, NEW level \in Level \cup {"none"}, told' = level, lowEvents' = EventsSince(level),
         lasts' \in {"idle", "long", "day", "short"}
  PROVE  CreditInv'
<1>1. PICK n \in 0 .. Len(lowEvents) :
        /\ lowEvents' \in Seq(Level) /\ Len(lowEvents') = n
        /\ \A i \in 1 .. n : /\ i \in 1 .. Len(lowEvents) /\ lowEvents'[i] = lowEvents[i]
                             /\ Tightness(lowEvents[i]) <= Tightness(level)
  BY EventsSinceIs
<1>2. ToldIsTightest'
  BY <1>1 DEF ToldIsTightest
<1>3. EachLevelOnce'
  BY <1>1 DEF CreditInv, EachLevelOnce
<1>4. CreditTypes'
  BY <1>1 DEF CreditTypes
<1> QED
  BY <1>2, <1>3, <1>4 DEF CreditInv

LEMMA CreditInvStep ==
  ASSUME CreditInv, [CreditNext]_creditVars
  PROVE  CreditInv'
<1>1. ASSUME UNCHANGED <<told, lowEvents>>, lasts' \in {"idle", "long", "day", "short"} PROVE CreditInv'
  BY <1>1 DEF CreditInv, CreditTypes, ToldIsTightest, EachLevelOnce
<1>2. CASE UNCHANGED creditVars \/ Forecast \/ CreditChanges
  <2>1. lasts \in {"idle", "long", "day", "short"}
    BY DEF CreditInv, CreditTypes
  <2> QED
    BY <1>1, <1>2, <2>1 DEF creditVars, Forecast, CreditChanges
<1>3. CASE LowCreditOnce
  <2> DEFINE level == LevelFor(forecastOf)
  <2>1. level \in Level \cup {"none"} /\ lasts' \in {"idle", "long", "day", "short"}
    BY <1>3, LevelForType DEF LowCreditOnce, CreditInv, CreditTypes
  <2>2. CASE level = "none"
    <3>1. told' = "none" /\ lowEvents' = <<>>
      BY <1>3, <2>2 DEF LowCreditOnce
    <3> QED
      BY <2>1, <3>1 DEF CreditInv, CreditTypes, ToldIsTightest, EachLevelOnce
  <2>3. CASE level # "none" /\ AlreadyTold(level)
    BY <1>1, <1>3, <2>1, <2>3 DEF LowCreditOnce
  <2>4. CASE level # "none" /\ ~AlreadyTold(level)
    <3>1. told' = level /\ lowEvents' = Append(lowEvents, level) /\ level \in Level
      BY <1>3, <2>1, <2>4 DEF LowCreditOnce
    <3> QED
      BY <2>1, <2>4, <3>1, TellTighter
  <2> QED
    BY <2>2, <2>3, <2>4
<1>4. CASE MarkInformed
  <2> DEFINE level == LevelFor(lasts)
  <2>1. /\ level \in Level \cup {"none"} /\ lasts' \in {"idle", "long", "day", "short"} /\ told' = level
    BY <1>4, LevelForType DEF MarkInformed, CreditInv, CreditTypes
  <2>2. lowEvents' = IF level # "none" /\ ~AlreadyTold(level) THEN Append(lowEvents, level)
                     ELSE IF Tightness(level) < Tightness(told) THEN EventsSince(level) ELSE lowEvents
    BY <1>4 DEF MarkInformed
  <2> HIDE DEF level
  <2>3. CASE level # "none" /\ ~AlreadyTold(level)
    <3>1. level \in Level /\ lowEvents' = Append(lowEvents, level)
      BY <2>1, <2>2, <2>3
    <3> QED
      BY <2>1, <2>3, <3>1, TellTighter
  <2>4. CASE ~(level # "none" /\ ~AlreadyTold(level)) /\ Tightness(level) < Tightness(told)
    <3>1. lowEvents' = EventsSince(level)
      BY <2>2, <2>4
    <3> QED
      BY <2>1, <3>1, RearmKeeps
  <2>5. CASE ~(level # "none" /\ ~AlreadyTold(level)) /\ ~(Tightness(level) < Tightness(told))
    <3>1. UNCHANGED lowEvents
      BY <2>2, <2>5
    <3>2. told \in Level \cup {"none"}
      BY DEF CreditInv, CreditTypes
    <3>3. Tightness(told) <= Tightness(level)
      BY <2>1, <2>5, <3>2, TightnessOf
    <3>4. told' = told
      BY <2>1, <2>5, <3>2, <3>3 DEF AlreadyTold, Tightness, Level
    <3> QED
      BY <1>1, <2>1, <3>1, <3>4
  <2> QED
    BY <2>3, <2>4, <2>5
<1> QED
  BY <1>2, <1>3, <1>4 DEF CreditNext

(***************************************************************************)
(* Customer notices: what the three sweeps promise.                        *)
(***************************************************************************)

\* What the invariants say of every state.
LEMMA NoticesTypes == AlertInv /\ StopInv /\ CreditInv => NoticesTypeOK
BY DEF AlertInv, AlertTypes, AlertStates, StopInv, StopTypes, CreditInv, CreditTypes, Level, NoticesTypeOK

LEMMA OneEventEach == AlertInv => AlertFiresOnce
BY DEF AlertInv, AlertTypes, EventWithState, AlertFiresOnce

\* Two requests for alerts never pass the limit or add the same alert, an alert fires once,
\* only with room for all its rentals and never after its cancel was answered; a stopped
\* rental is emailed about once; each level of low credit is warned of once.  The emails
\* need ids that settle in their order and after their commits, which SETTLE is for.
THEOREM NoticeSafetyHolds ==
  ASSUME Untimely = FALSE
  PROVE  AlertSpec /\ StopSpec /\ CreditSpec => NoticeSafety
<1>1. AlertInv /\ [AlertNext]_alertVars => AlertInv'
  BY AlertInvKept
<1>2. StopInv /\ [StopNext]_stopVars => StopInv'
  BY StopInvStep
<1>3. CreditInv /\ [CreditNext]_creditVars => CreditInv'
  BY CreditInvStep
<1>4. AlertInv /\ [AlertNext]_alertVars =>
        [\A a \in Alert : alertEvents'[a] > alertEvents[a] =>
           LET want == alert[a].want IN
           \E place \in [1 .. want.count -> Machine] :
             \A m \in Machine : want.gpus * Cardinality({i \in 1 .. want.count : place[i] = m}) <= free[m]]_alertVars
  BY AlertInvKept, FiresHasRoom
<1>5. AlertInv => AlertLimit
  BY DEF AlertInv
<1>6. StopInv => StoppedEmailedOnce
  BY DEF StopInv
<1>7. CreditInv => EachLevelOnce
  BY DEF CreditInv
<1> QED
  BY AlertInvInit, StopInvInit, CreditInvInit, <1>1, <1>2, <1>3, <1>4, <1>5, <1>6, <1>7, NoticesTypes, OneEventEach, PTL
  DEF AlertSpec, StopSpec, CreditSpec, NoticeSafety, FiredHadRoom

(***************************************************************************)
(* Fleets.                                                                 *)
(***************************************************************************)

PassRecord == [pc : {"idle", "held", "start", "record", "stop"}, need : 0 .. MaxTarget, used : SUBSET Nat, kill : SUBSET MemberId]
FleetRecord == [state : {"none", "active", "paused", "completed", "stopped"}, target : 0 .. MaxTarget, replace : BOOLEAN, reset : Nat]
MemberRecord == [state : {"none", "starting", "ready", "suspended", "failed", "terminated"},
                 slot : 0 .. MaxMembers + 1, ready : BOOLEAN, known : BOOLEAN, ran : BOOLEAN]

\* The rows have their types; a member that ran was recorded and seen ready, one that starts was not.
FleetTypes ==
  /\ fleet \in FleetRecord /\ member \in [MemberId -> MemberRecord] /\ fleetPass \in PassRecord
  /\ lastMember \in 0 .. MaxMembers /\ peakTarget \in 0 .. MaxTarget
  /\ fleet.state = "none" => lastMember = 0 /\ fleetPass.pc = "idle"
  /\ fleet.state # "none" => fleet.target \in 1 .. peakTarget
  /\ \A d \in MemberId : /\ member[d].ran => member[d].known /\ member[d].ready
                         /\ member[d].state = "starting" => ~member[d].ready

\* A pass that starts members found the fleet active, and nobody changes that before it ends.
StartsActive ==
  /\ fleetPass.pc \in {"start", "record"} => fleet.state = "active" /\ fleetPass.need >= 1
  /\ fleetPass.pc = "record" => lastMember >= 1

BeingRecorded(d) == fleetPass.pc = "record" /\ d = lastMember

\* The members that stand for one of those asked for: who lives, in once mode who ran, and who is being recorded.
Counting(d) == member[d].state \notin Finished \/ (~fleet.replace /\ member[d].known /\ member[d].ready) \/ BeingRecorded(d)
Counted == {d \in Started : Counting(d)}

\* They are never more than were asked for, also with those a pass has still to start.
CountFits ==
  /\ Cardinality(Counted) <= peakTarget
  /\ fleetPass.pc = "start" => Cardinality(Counted) + fleetPass.need <= fleet.target
  /\ fleetPass.pc = "record" => Cardinality(Counted) + fleetPass.need <= fleet.target + 1

\* A pass that starts members knows every slot in use, but that of the one it is about to record.
SlotsKnown ==
  /\ OneMemberPerSlot
  /\ fleetPass.pc \in {"start", "record"} =>
       /\ fleetPass.used \subseteq {member[d].slot : d \in Started}
       /\ \A d \in Live : BeingRecorded(d) \/ member[d].slot \in fleetPass.used
  /\ fleetPass.pc = "record" => member[lastMember].slot \notin fleetPass.used

\* The newest members that failed before they were ready, or may still do so.
Hopeless(d) == ~member[d].ready /\ member[d].state \in {"starting", "failed"}
Row(d) == member[d].known \/ member[d].state \notin Finished \/ BeingRecorded(d)
Hopeful == {d \in Started : member[d].known /\ ~Hopeless(d)}
Streak == {d \in Started : Row(d) /\ d > fleet.reset /\ Hopeless(d) /\ \A e \in Hopeful : e < d}

\* There are no more of them than the limit, and fewer while another is to be started.
StreakFits ==
  peakTarget = 1 => /\ Cardinality(Streak) <= FailuresBeforePause
                    /\ fleetPass.pc = "start" => Cardinality(Streak) < FailuresBeforePause

FleetInv == FleetTypes /\ StartsActive /\ CountFits /\ SlotsKnown /\ StreakFits

\* Members are finitely many, and so is every set of them.
LEMMA MembersFinite ==
  ASSUME lastMember \in 0 .. MaxMembers
  PROVE  /\ Started \subseteq MemberId /\ IsFiniteSet(Started) /\ Cardinality(Started) = lastMember
         /\ IsFiniteSet(MemberId) /\ Cardinality(MemberId) = MaxMembers
         /\ \A X \in SUBSET Started : IsFiniteSet(X) /\ Cardinality(X) \in Nat
<1>1. MaxMembers \in Nat /\ lastMember \in Nat /\ 1 \in Int /\ lastMember \in Int /\ MaxMembers \in Int
  BY FleetsAssumption
<1>2. IsFiniteSet(Started) /\ Cardinality(Started) = IF 1 > lastMember THEN 0 ELSE lastMember - 1 + 1
  BY <1>1, FS_Interval DEF Started
<1>3. IsFiniteSet(MemberId) /\ Cardinality(MemberId) = IF 1 > MaxMembers THEN 0 ELSE MaxMembers - 1 + 1
  BY <1>1, FS_Interval DEF MemberId
<1>4. Started \subseteq MemberId
  BY <1>1 DEF Started, MemberId
<1>5. ASSUME NEW X \in SUBSET Started PROVE IsFiniteSet(X) /\ Cardinality(X) \in Nat
  BY <1>2, FS_Subset, FS_CardinalityType
<1> QED
  BY <1>1, <1>2, <1>3, <1>4, <1>5

\* A part of a finite set has no more members than the whole.
LEMMA Fewer ==
  ASSUME NEW X, NEW Y, IsFiniteSet(Y), X \subseteq Y
  PROVE  IsFiniteSet(X) /\ Cardinality(X) \in Nat /\ Cardinality(Y) \in Nat /\ Cardinality(X) <= Cardinality(Y)
<1>1. X \in SUBSET Y
  OBVIOUS
<1>2. IsFiniteSet(X) /\ Cardinality(X) <= Cardinality(Y)
  BY <1>1, FS_Subset
<1> QED
  BY <1>2, FS_CardinalityType

\* A pass has no more slots in use than there are members, so the first free one exists.
LEMMA SlotIsFree ==
  ASSUME lastMember \in Nat, lastMember < MaxMembers,
         NEW used \in SUBSET Nat, used \subseteq {member[d].slot : d \in Started}
  PROVE  FreeSlot(used) \in 1 .. MaxMembers + 1 /\ FreeSlot(used) \notin used
<1> DEFINE unused == (1 .. MaxMembers + 1) \ used
           slots == {member[d].slot : d \in Started}
<1>1. IsFiniteSet(Started) /\ Cardinality(Started) = lastMember /\ MaxMembers \in Nat
  BY MembersFinite, FleetsAssumption
<1>2. IsFiniteSet(slots) /\ Cardinality(slots) <= lastMember
  <2> DEFINE f == [d \in Started |-> member[d].slot]
  <2>1. f \in Surjection(Started, slots)
    BY DEF Surjection
  <2> QED
    BY <1>1, <2>1, FS_Surjection
<1> HIDE DEF slots
<1>3. IsFiniteSet(used) /\ Cardinality(used) \in Nat /\ Cardinality(used) <= lastMember
  <2>1. used \subseteq slots
    BY DEF slots
  <2>2. IsFiniteSet(used) /\ Cardinality(used) \in Nat /\ Cardinality(slots) \in Nat /\ Cardinality(used) <= Cardinality(slots)
    BY <1>2, <2>1, Fewer
  <2>3. lastMember \in Nat
    OBVIOUS
  <2> QED
    BY <1>2, <2>2, <2>3
<1>4. IsFiniteSet(1 .. MaxMembers + 1) /\ Cardinality(1 .. MaxMembers + 1) = MaxMembers + 1
  <2>1. PICK b \in Int : b = MaxMembers + 1
    BY <1>1
  <2>2. 1 \in Int /\ b > 0
    BY <1>1, <2>1
  <2>3. IsFiniteSet(1 .. b) /\ Cardinality(1 .. b) = IF 1 > b THEN 0 ELSE b - 1 + 1
    BY <2>2, FS_Interval
  <2>4. Cardinality(1 .. b) = b
    BY <2>2, <2>3
  <2> QED
    BY <2>1, <2>3, <2>4
<1>5. ~((1 .. MaxMembers + 1) \subseteq used)
  BY <1>1, <1>3, <1>4, Fewer
<1>6. unused # {} /\ unused \in SUBSET Nat
  BY <1>5
<1>7. Min(unused) \in unused
  BY <1>6, MinOfNaturals
<1> QED
  BY <1>7 DEF FreeSlot

\* _stop_extras has an answer: some of the live members, as many as asked for, that all go before the others.
LEMMA ExtrasExist ==
  ASSUME FleetTypes, NEW live \in SUBSET Started, Cardinality(live) > fleet.target
  PROVE  Extras(live) \in SUBSET live
<1> DEFINE k == Cardinality(live) - fleet.target
           Closed(X) == \A d \in X, e \in live \ X : StopsBefore(d, e)
           Sizes == {n \in Nat : n <= k /\ \E X \in SUBSET live : Closed(X) /\ Cardinality(X) = n}
           rank == [d \in MemberId |-> member[d].slot + IF member[d].state = "ready" THEN 0 ELSE MaxMembers + 2]
<1>1. /\ MaxMembers \in Nat /\ live \subseteq MemberId /\ fleet.target \in Nat
      /\ IsFiniteSet(live) /\ Cardinality(live) \in Nat /\ k \in Nat
  <2>1. MaxMembers \in Nat /\ MaxTarget \in Nat
    BY FleetsAssumption
  <2>2. live \subseteq MemberId /\ IsFiniteSet(live) /\ Cardinality(live) \in Nat
    BY MembersFinite DEF FleetTypes
  <2>3. fleet.target \in Nat
    BY <2>1 DEF FleetTypes, FleetRecord
  <2> QED
    BY <2>1, <2>2, <2>3
<1>2. \A d \in MemberId : member[d].slot \in 0 .. MaxMembers + 1
  BY DEF FleetTypes, MemberRecord
<1>3. \A d \in live : rank[d] \in Nat /\ rank[d] <= MaxMembers + MaxMembers + 3
  BY <1>1, <1>2
<1>4. ASSUME NEW d \in live, NEW e \in live PROVE StopsBefore(d, e) <=> rank[d] >= rank[e]
  <2>1. rank[d] = member[d].slot + (IF member[d].state = "ready" THEN 0 ELSE MaxMembers + 2)
    BY <1>1
  <2>2. rank[e] = member[e].slot + (IF member[e].state = "ready" THEN 0 ELSE MaxMembers + 2)
    BY <1>1
  <2>3. member[d].slot \in 0 .. MaxMembers + 1 /\ member[e].slot \in 0 .. MaxMembers + 1
    BY <1>1, <1>2
  <2>4. StopsBefore(d, e) <=> IF (member[d].state = "ready") <=> (member[e].state = "ready")
                              THEN member[d].slot >= member[e].slot ELSE member[d].state # "ready"
    BY DEF StopsBefore
  <2> HIDE DEF rank
  <2> QED
    BY <1>1, <2>1, <2>2, <2>3, <2>4
<1> HIDE DEF rank
<1>5. \E X \in SUBSET live : Closed(X) /\ Cardinality(X) = k
  <2>1. 0 \in Sizes
    <3>1. Closed({}) /\ {} \in SUBSET live /\ Cardinality({}) = 0
      BY FS_EmptySet
    <3> HIDE DEF Closed
    <3> QED
      BY <1>1, <3>1
  <2>2. Sizes \in SUBSET Nat /\ Sizes # {} /\ \A n \in Sizes : n <= k
    BY <2>1
  <2> DEFINE n == Max(Sizes)
  <2>3. n \in Sizes /\ \A m \in Sizes : m <= n
    BY <1>1, <2>2, MaxOfNaturals
  <2> HIDE DEF n
  <2>4. PICK X \in SUBSET live : Closed(X) /\ Cardinality(X) = n
    BY <2>3
  <2>5. n \in Nat /\ n <= k
    BY <2>3
  <2>6. CASE n < k
    <3>1. live \ X # {}
      <4>1. SUFFICES ASSUME live \ X = {} PROVE FALSE
        OBVIOUS
      <4>2. X = live
        BY <4>1
      <4>3. n = Cardinality(live)
        BY <2>4, <4>2
      <4> HIDE DEF Closed
      <4> QED
        BY <1>1, <2>6, <4>3
    <3> DEFINE R == {rank[e] : e \in live \ X}
    <3>2. R \in SUBSET Nat /\ R # {} /\ \A x \in R : x <= MaxMembers + MaxMembers + 3
      BY <1>3, <3>1
    <3> HIDE DEF Closed, R
    <3>3. PICK b \in Nat : b = MaxMembers + MaxMembers + 3
      BY <1>1
    <3>4. Max(R) \in R /\ \A y \in R : y <= Max(R)
      BY <3>2, <3>3, MaxOfNaturals
    <3> USE DEF Closed, R
    <3>5. PICK d \in live \ X : \A e \in live \ X : rank[e] <= rank[d]
      BY <3>4
    <3> DEFINE Y == X \cup {d}
    <3>6. Closed(Y)
      <4>1. ASSUME NEW a \in Y, NEW e \in live \ Y PROVE StopsBefore(a, e)
        <5>1. CASE a \in X
          BY <2>4, <5>1
        <5>2. CASE a = d
          BY <1>3, <1>4, <3>5, <5>2
        <5> QED
          BY <5>1, <5>2
      <4> QED
        BY <4>1
    <3>7. Cardinality(Y) = n + 1 /\ Y \in SUBSET live
      <4>1. IsFiniteSet(X)
        BY <1>1, <2>4, FS_Subset
      <4> QED
        BY <2>4, <3>5, <4>1, FS_AddElement
    <3>8. n + 1 \in Nat /\ n + 1 <= k
      BY <1>1, <2>5, <2>6
    <3> HIDE DEF Closed, Y
    <3>9. n + 1 \in Sizes
      BY <3>6, <3>7, <3>8
    <3> QED
      BY <2>3, <2>5, <3>9
  <2> HIDE DEF Closed
  <2>7. CASE ~(n < k)
    BY <1>1, <2>4, <2>5, <2>7
  <2> QED
    BY <2>6, <2>7
<1>6. \E X \in SUBSET live : Cardinality(X) = Cardinality(live) - fleet.target /\ \A d \in X, e \in live \ X : StopsBefore(d, e)
  BY <1>5
<1> QED
  BY <1>6 DEF Extras

\* The first state satisfies the invariant.
LEMMA FleetInvInit == FleetInit => FleetInv
<1> SUFFICES ASSUME FleetInit PROVE FleetInv
  OBVIOUS
<1>1. Started = {}
  BY DEF FleetInit, Started
<1>2. FleetTypes
  BY FleetsAssumption DEF FleetInit, FleetTypes, FleetRecord, MemberRecord, PassRecord, NoPass
<1>3. fleetPass.pc = "idle" /\ peakTarget = 0
  BY DEF FleetInit, NoPass
<1>4. Counted = {} /\ Live = {} /\ Streak = {}
  BY <1>1 DEF Counted, Live, Streak
<1> QED
  BY <1>2, <1>3, <1>4, FS_EmptySet, FleetsAssumption DEF FleetInv, StartsActive, CountFits, SlotsKnown, OneMemberPerSlot, StreakFits

\* Steps in which members only go forward keep what is said about their numbers and names.
LEMMA MembersFade ==
  ASSUME FleetInv, UNCHANGED <<lastMember, peakTarget>>,
         fleet'.target = fleet.target, fleet'.replace = fleet.replace, fleet'.reset = fleet.reset,
         \A d \in Started :
           /\ Counting(d)' => Counting(d)
           /\ member'[d].slot = member[d].slot
           /\ member'[d].state \notin Finished => member[d].state \notin Finished
           /\ Row(d)' /\ Hopeless(d)' => Row(d) /\ Hopeless(d)
           /\ member[d].known /\ ~Hopeless(d) => member'[d].known /\ ~Hopeless(d)',
         fleetPass'.pc \in {"start", "record"} => UNCHANGED fleetPass
  PROVE  CountFits' /\ SlotsKnown' /\ StreakFits'
<1>1. lastMember \in 0 .. MaxMembers /\ Started' = Started
  BY DEF FleetInv, FleetTypes, Started
<1>2. IsFiniteSet(Counted) /\ IsFiniteSet(Streak)
  BY <1>1, MembersFinite DEF Counted, Streak
<1>3. Cardinality(Counted') <= Cardinality(Counted) /\ Cardinality(Counted') \in Nat /\ Cardinality(Counted) \in Nat
  <2>1. Counted' \subseteq Counted
    BY <1>1 DEF Counted
  <2> QED
    BY <1>2, <2>1, Fewer
<1>4. Cardinality(Streak') <= Cardinality(Streak) /\ Cardinality(Streak') \in Nat /\ Cardinality(Streak) \in Nat
  <2>1. Hopeful \subseteq Hopeful'
    BY <1>1 DEF Hopeful
  <2>2. Streak' \subseteq Streak
    BY <1>1, <2>1 DEF Streak
  <2> QED
    BY <1>2, <2>2, Fewer
<1>5. /\ fleet.target \in Nat /\ peakTarget \in Nat /\ fleetPass.need \in Nat /\ FailuresBeforePause \in Nat
  BY FleetsAssumption DEF FleetInv, FleetTypes, FleetRecord, PassRecord
<1>6. CountFits'
  BY <1>3, <1>5 DEF FleetInv, CountFits
<1>7. StreakFits'
  BY <1>4, <1>5 DEF FleetInv, StreakFits
<1>8. Live' \subseteq Live /\ \A d \in Live' : member'[d].slot = member[d].slot
  BY <1>1 DEF Live
<1>9. OneMemberPerSlot'
  BY <1>8 DEF FleetInv, SlotsKnown, OneMemberPerSlot
<1>10. CASE fleetPass'.pc \in {"start", "record"}
  <2>1. UNCHANGED fleetPass
    BY <1>10
  <2>2. \A d \in Started : BeingRecorded(d)' = BeingRecorded(d)
    BY <2>1 DEF BeingRecorded
  <2>3. {member'[d].slot : d \in Started'} = {member[d].slot : d \in Started}
    BY <1>1
  <2>4. Live \subseteq Started /\ Live' \subseteq Started
    BY <1>8 DEF Live
  <2>5. \A d \in Live' : BeingRecorded(d)' \/ member'[d].slot \in fleetPass'.used
    BY <1>8, <1>10, <2>1, <2>2, <2>4 DEF FleetInv, SlotsKnown
  <2>6. fleetPass.pc = "record" => lastMember \in Started /\ member'[lastMember'].slot = member[lastMember].slot
    <3>1. fleetPass.pc = "record" => lastMember \in Started
      BY <1>1 DEF FleetInv, StartsActive, Started
    <3> QED
      BY <3>1
  <2>7. fleetPass'.used \subseteq {member'[d].slot : d \in Started'}
    BY <1>10, <2>1, <2>3 DEF FleetInv, SlotsKnown
  <2>8. fleetPass'.pc = "record" => member'[lastMember'].slot \notin fleetPass'.used
    BY <2>1, <2>6 DEF FleetInv, SlotsKnown
  <2> QED
    BY <1>6, <1>7, <1>9, <2>5, <2>7, <2>8, Zenon DEF SlotsKnown
<1>11. CASE ~(fleetPass'.pc \in {"start", "record"})
  <2>1. fleetPass'.pc # "record"
    BY <1>11
  <2> QED
    BY <1>6, <1>7, <1>9, <1>11, <2>1, Zenon DEF SlotsKnown
<1> QED
  BY <1>6, <1>7, <1>10, <1>11

\* A step that leaves the members and what is asked for as they are, and starts no pass that adds members.
LEMMA MembersStay ==
  ASSUME FleetInv, FleetTypes', StartsActive', UNCHANGED <<member, lastMember, peakTarget>>,
         fleet'.target = fleet.target, fleet'.replace = fleet.replace, fleet'.reset = fleet.reset,
         fleetPass'.pc \in {"start", "record"} => UNCHANGED fleetPass
  PROVE  FleetInv'
<1>1. ASSUME NEW d \in Started
      PROVE  /\ Counting(d)' => Counting(d)
             /\ member'[d].slot = member[d].slot
             /\ member'[d].state \notin Finished => member[d].state \notin Finished
             /\ Row(d)' /\ Hopeless(d)' => Row(d) /\ Hopeless(d)
             /\ member[d].known /\ ~Hopeless(d) => member'[d].known /\ ~Hopeless(d)'
  <2>1. BeingRecorded(d)' => BeingRecorded(d)
    BY DEF BeingRecorded
  <2> QED
    BY <2>1 DEF Counting, Row, Hopeless
<1>2. CountFits' /\ SlotsKnown' /\ StreakFits'
  BY <1>1, MembersFade
<1> QED
  BY <1>2 DEF FleetInv

\* A new fleet has no members yet (create_fleet).
LEMMA CreateFleetKeeps == ASSUME FleetInv, CreateFleet PROVE FleetInv'
<1>1. /\ lastMember = 0 /\ UNCHANGED <<member, lastMember>>
      /\ fleetPass' = [NoPass EXCEPT !.pc = "held"]
  BY DEF FleetInv, FleetTypes, CreateFleet
<1>2. PICK target \in 1 .. MaxTarget, replace \in BOOLEAN :
        fleet' = [state |-> "active", target |-> target, replace |-> replace, reset |-> 0] /\ peakTarget' = target
  BY DEF CreateFleet
<1>3. MaxTarget \in Nat
  BY FleetsAssumption
<1>4. FleetTypes'
  BY <1>1, <1>2, <1>3 DEF FleetInv, FleetTypes, FleetRecord, PassRecord, NoPass
<1>5. fleetPass'.pc = "held"
  BY <1>1 DEF NoPass
<1>6. Started' = {}
  BY <1>1 DEF Started
<1>7. Counted' = {} /\ Live' = {} /\ Streak' = {}
  BY <1>6 DEF Counted, Live, Streak
<1> QED
  BY <1>2, <1>3, <1>4, <1>5, <1>7, FS_EmptySet, FleetsAssumption
  DEF FleetInv, StartsActive, CountFits, SlotsKnown, OneMemberPerSlot, StreakFits

\* An edit changes what is asked for, and a resume forgives the failures so far (update_fleet).
LEMMA UpdateFleetKeeps == ASSUME FleetInv, UpdateFleet PROVE FleetInv'
<1>1. /\ fleetPass = NoPass /\ fleetPass' = [NoPass EXCEPT !.pc = "held"] /\ UNCHANGED <<member, lastMember>>
      /\ fleet.state \in {"active", "paused", "completed"} /\ peakTarget' = Max({peakTarget, fleet'.target})
  BY DEF UpdateFleet
<1>2. /\ MaxTarget \in Nat /\ fleet \in FleetRecord /\ lastMember \in Nat /\ lastMember \in 0 .. MaxMembers
      /\ peakTarget \in 0 .. MaxTarget /\ fleet.target \in 1 .. peakTarget
  BY <1>1, FleetsAssumption DEF FleetInv, FleetTypes
<1>3. /\ fleet' \in FleetRecord /\ fleet'.state # "none" /\ fleet'.target \in 1 .. MaxTarget
      /\ fleet'.replace = fleet.replace /\ fleet'.reset \in {fleet.reset, lastMember}
  <2>1. CASE \E target \in 1 .. MaxTarget :
          fleet' = [fleet EXCEPT !.target = target,
                                 !.state = IF @ = "completed" /\ ~fleet.replace THEN "active" ELSE @]
    <3> DEFINE next == IF fleet.state = "completed" /\ ~fleet.replace THEN "active" ELSE fleet.state
    <3>1. PICK target \in 1 .. MaxTarget : fleet' = [fleet EXCEPT !.target = target, !.state = next]
      BY <1>2, <2>1 DEF FleetRecord
    <3>2. target \in 0 .. MaxTarget /\ next \in {"active", "paused", "completed"}
      BY <1>1, <1>2
    <3> HIDE DEF next
    <3> QED
      BY <1>2, <3>1, <3>2 DEF FleetRecord
  <2>2. CASE fleet' \in {[fleet EXCEPT !.state = "paused"], [fleet EXCEPT !.state = "active", !.reset = lastMember]}
    <3>1. fleet.target \in 1 .. MaxTarget
      BY <1>2
    <3> QED
      BY <1>2, <2>2, <3>1 DEF FleetRecord
  <2> QED
    BY <2>1, <2>2 DEF UpdateFleet
<1>4. peakTarget' \in 1 .. MaxTarget /\ peakTarget <= peakTarget' /\ fleet'.target \in 1 .. peakTarget'
  <2>1. peakTarget \in Int /\ fleet'.target \in Int
    BY <1>2, <1>3
  <2>2. peakTarget' \in {peakTarget, fleet'.target} /\ peakTarget <= peakTarget' /\ fleet'.target <= peakTarget'
    BY <1>1, <2>1, MaxOfTwo
  <2> QED
    BY <1>2, <1>3, <2>2
<1>5. fleetPass.pc = "idle" /\ fleetPass'.pc = "held" /\ fleetPass' \in PassRecord
  BY <1>1, <1>2 DEF NoPass, PassRecord
<1>6. FleetTypes' /\ StartsActive'
  BY <1>1, <1>3, <1>4, <1>5 DEF FleetInv, FleetTypes, StartsActive
<1>7. Started' = Started /\ \A d \in Started : Counting(d)' = Counting(d) /\ Row(d)' = Row(d) /\ Hopeless(d)' = Hopeless(d)
  BY <1>1, <1>3, <1>5 DEF Started, Counting, Row, Hopeless, BeingRecorded
<1>8. Counted' = Counted /\ Cardinality(Counted) \in Nat
  <2>1. Counted' = Counted
    BY <1>7 DEF Counted
  <2> QED
    BY <1>2, <2>1, MembersFinite DEF Counted
<1>9. CountFits'
  BY <1>2, <1>4, <1>5, <1>8 DEF FleetInv, CountFits
<1>10. SlotsKnown'
  <2>1. Live' = Live
    BY <1>1, <1>7 DEF Live
  <2>2. OneMemberPerSlot'
    BY <1>1, <2>1 DEF FleetInv, SlotsKnown, OneMemberPerSlot
  <2> QED
    BY <1>5, <2>2 DEF SlotsKnown
<1>11. ASSUME peakTarget' = 1 PROVE Cardinality(Streak') <= FailuresBeforePause
  <2>1. peakTarget = 1
    BY <1>2, <1>4, <1>11
  <2>2. Streak \subseteq Started /\ IsFiniteSet(Streak) /\ Cardinality(Streak) <= FailuresBeforePause
    BY <1>2, <2>1, MembersFinite DEF Streak, FleetInv, StreakFits
  <2>3. Hopeful' = Hopeful
    BY <1>1, <1>7 DEF Hopeful
  <2>4. CASE fleet'.reset = fleet.reset
    BY <1>7, <2>2, <2>3, <2>4 DEF Streak
  <2>5. CASE fleet'.reset = lastMember
    <3>1. ASSUME NEW d \in Started' PROVE ~(d > fleet'.reset)
      <4>1. d \in 1 .. lastMember
        BY <1>1 DEF Started
      <4> QED
        BY <1>2, <2>5, <4>1
    <3>2. Streak' = {}
      BY <3>1 DEF Streak
    <3> QED
      BY <3>2, FS_EmptySet, FleetsAssumption
  <2> QED
    BY <1>3, <2>4, <2>5
<1>12. StreakFits'
  BY <1>5, <1>11 DEF StreakFits
<1> QED
  BY <1>6, <1>9, <1>10, <1>12 DEF FleetInv

\* A stop starts nothing (stop_fleet).
LEMMA StopFleetKeeps == ASSUME FleetInv, StopFleet PROVE FleetInv'
<1>1. /\ fleet' = [fleet EXCEPT !.state = "stopped"] /\ UNCHANGED <<member, lastMember, peakTarget>>
      /\ fleet.state # "none"
  BY DEF StopFleet
<1>2. PICK keep \in BOOLEAN :
        LET kill == IF keep THEN {} ELSE {d \in Live : member[d].known} IN
        fleetPass' = [NoPass EXCEPT !.pc = IF kill = {} THEN "idle" ELSE "stop", !.kill = kill]
  BY DEF StopFleet
<1>3. Live \subseteq MemberId
  BY MembersFinite DEF FleetInv, FleetTypes, Live
<1> DEFINE kill == IF keep THEN {} ELSE {d \in Live : member[d].known}
<1>4. kill \in SUBSET MemberId
  BY <1>3
<1>5. fleetPass' = [NoPass EXCEPT !.pc = IF kill = {} THEN "idle" ELSE "stop", !.kill = kill]
  BY <1>2
<1> HIDE DEF kill
<1>6. fleetPass' \in PassRecord /\ fleetPass'.pc \in {"idle", "stop"}
  <2> DEFINE place == IF kill = {} THEN "idle" ELSE "stop"
  <2>1. place \in {"idle", "stop"} /\ fleetPass' = [NoPass EXCEPT !.pc = place, !.kill = kill]
    BY <1>5
  <2> HIDE DEF place
  <2>2. fleetPass' = [pc |-> place, need |-> 0, used |-> {}, kill |-> kill]
    BY <2>1 DEF NoPass
  <2> QED
    BY <1>4, <2>1, <2>2, FleetsAssumption DEF PassRecord
<1>7. FleetTypes' /\ StartsActive'
  BY <1>1, <1>6 DEF FleetInv, FleetTypes, FleetRecord, StartsActive
<1> QED
  BY <1>1, <1>6, <1>7, MembersStay DEF FleetInv, FleetTypes, FleetRecord

\* A refusal, a death and what changes around the fleet end a pass at most (_reconcile_locked).
LEMMA PassEndsKeeps ==
  ASSUME FleetInv, StartRefused \/ FleetGatewayDies \/ RoomChanges \/ WorkloadOrKeyDeleted \/ UNCHANGED fleetVars
  PROVE  FleetInv'
<1>1. /\ UNCHANGED <<member, lastMember, peakTarget>> /\ fleetPass' \in {fleetPass, NoPass}
      /\ \/ UNCHANGED fleet
         \/ fleet' = [fleet EXCEPT !.state = "paused"] /\ fleetPass' = NoPass /\ fleetPass.pc = "start"
  BY DEF StartRefused, FleetGatewayDies, RoomChanges, WorkloadOrKeyDeleted, fleetVars
<1>2. NoPass \in PassRecord /\ NoPass.pc = "idle"
  BY FleetsAssumption DEF NoPass, PassRecord
<1>3. FleetTypes' /\ StartsActive'
  BY <1>1, <1>2 DEF FleetInv, FleetTypes, FleetRecord, StartsActive
<1>4. fleet'.target = fleet.target /\ fleet'.replace = fleet.replace /\ fleet'.reset = fleet.reset
  BY <1>1 DEF FleetInv, FleetTypes, FleetRecord
<1>5. fleetPass'.pc \in {"start", "record"} => UNCHANGED fleetPass
  BY <1>1, <1>2
<1> QED
  BY <1>1, <1>3, <1>4, <1>5, MembersStay

\* A member that runs, pauses, fails or ends counts as before or no longer (the lifecycle of a deployment).
LEMMA MemberMovesKeeps == ASSUME FleetInv, NEW d \in Started, MemberMoves(d) PROVE FleetInv'
<1>1. d \in MemberId /\ Started \subseteq MemberId
  BY MembersFinite DEF FleetInv, FleetTypes
<1>2. UNCHANGED <<fleet, lastMember, fleetPass, peakTarget>>
  BY DEF MemberMoves
<1>3. /\ member' \in [MemberId -> MemberRecord]
      /\ \A e \in MemberId :
           /\ member'[e].slot = member[e].slot /\ member'[e].known = member[e].known /\ member'[e].ran = member[e].ran
           /\ e # d => member'[e] = member[e]
           /\ member[e].ready => member'[e].ready
      /\ \/ member[d].state \in {"starting", "suspended"} /\ member'[d].state = "ready" /\ member'[d].ready
         \/ member[d].state = "ready" /\ member'[d].state = "suspended" /\ member'[d].ready = member[d].ready
         \/ member[d].state = "starting" /\ member'[d].state = "failed" /\ member'[d].ready = member[d].ready
         \/ member[d].state \in {"ready", "suspended"} /\ member'[d].state = "terminated" /\ member'[d].ready = member[d].ready
  <2>1. member \in [MemberId -> MemberRecord]
    BY DEF FleetInv, FleetTypes
  <2>2. CASE member[d].state \in {"starting", "suspended"} /\ member' = [member EXCEPT ![d].state = "ready", ![d].ready = TRUE]
    BY <1>1, <2>1, <2>2 DEF MemberRecord
  <2>3. CASE member[d].state = "ready" /\ member' = [member EXCEPT ![d].state = "suspended"]
    BY <1>1, <2>1, <2>3 DEF MemberRecord
  <2>4. CASE member[d].state = "starting" /\ member' = [member EXCEPT ![d].state = "failed"]
    BY <1>1, <2>1, <2>4 DEF MemberRecord
  <2>5. CASE member[d].state \in {"ready", "suspended"} /\ member' = [member EXCEPT ![d].state = "terminated"]
    BY <1>1, <2>1, <2>5 DEF MemberRecord
  <2> QED
    BY <2>2, <2>3, <2>4, <2>5 DEF MemberMoves
<1>4. FleetTypes' /\ StartsActive'
  BY <1>1, <1>2, <1>3 DEF FleetInv, FleetTypes, StartsActive
<1>5. ASSUME NEW e \in Started
      PROVE  /\ Counting(e)' => Counting(e)
             /\ member'[e].slot = member[e].slot
             /\ member'[e].state \notin Finished => member[e].state \notin Finished
             /\ Row(e)' /\ Hopeless(e)' => Row(e) /\ Hopeless(e)
             /\ member[e].known /\ ~Hopeless(e) => member'[e].known /\ ~Hopeless(e)'
  <2>1. BeingRecorded(e)' = BeingRecorded(e)
    BY <1>2 DEF BeingRecorded
  <2>2. CASE e # d
    BY <1>1, <1>2, <1>3, <2>1, <2>2 DEF Counting, Row, Hopeless
  <2>3. CASE e = d
    <3>1. member[d].state \notin Finished
      BY <1>3 DEF Finished
    <3>2. member[d].known /\ ~Hopeless(d) => member'[d].known /\ ~Hopeless(d)'
      BY <1>1, <1>3 DEF Hopeless
    <3>3. Hopeless(d)' => Hopeless(d)
      BY <1>1, <1>3 DEF Hopeless
    <3> QED
      BY <1>1, <1>3, <2>3, <3>1, <3>2, <3>3 DEF Counting, Row
  <2> QED
    BY <2>2, <2>3
<1>6. CountFits' /\ SlotsKnown' /\ StreakFits'
  BY <1>2, <1>5, MembersFade
<1> QED
  BY <1>4, <1>6 DEF FleetInv

\* A member that is stopped no longer counts (_stop_extras, stop_fleet).
LEMMA StopMemberKeeps == ASSUME FleetInv, StopMember PROVE FleetInv'
<1>1. PICK d \in fleetPass.kill :
        /\ \/ member' = [member EXCEPT ![d].state = IF @ \in Finished THEN @ ELSE "terminated"]
           \/ UNCHANGED member
        /\ fleetPass' = IF fleetPass.kill = {d} THEN NoPass ELSE [fleetPass EXCEPT !.kill = @ \ {d}]
  BY DEF StopMember
<1>2. UNCHANGED <<fleet, lastMember, peakTarget>> /\ fleetPass.pc = "stop" /\ d \in MemberId /\ Started \subseteq MemberId
  BY MembersFinite DEF StopMember, FleetInv, FleetTypes, PassRecord
<1>3. /\ member' \in [MemberId -> MemberRecord]
      /\ \A e \in MemberId :
           /\ member'[e].slot = member[e].slot /\ member'[e].known = member[e].known
           /\ member'[e].ran = member[e].ran /\ member'[e].ready = member[e].ready
           /\ member'[e].state # member[e].state => member[e].state \notin Finished /\ member'[e].state = "terminated"
  <2>1. member \in [MemberId -> MemberRecord]
    BY DEF FleetInv, FleetTypes
  <2> DEFINE next == IF member[d].state \in Finished THEN member[d].state ELSE "terminated"
  <2>2. member' = [member EXCEPT ![d].state = next] \/ UNCHANGED member
    BY <1>1, <1>2, <2>1
  <2>3. /\ next \in {"none", "starting", "ready", "suspended", "failed", "terminated"}
        /\ next # member[d].state => member[d].state \notin Finished /\ next = "terminated"
    BY <1>2, <2>1 DEF MemberRecord
  <2> HIDE DEF next
  <2> QED
    BY <1>2, <2>1, <2>2, <2>3 DEF MemberRecord
<1>4. fleetPass' \in PassRecord /\ fleetPass'.pc \in {"idle", "stop"}
  <2>1. fleetPass \in PassRecord
    BY DEF FleetInv, FleetTypes
  <2>2. NoPass \in PassRecord /\ NoPass.pc = "idle"
    BY FleetsAssumption DEF NoPass, PassRecord
  <2> QED
    BY <1>1, <1>2, <2>1, <2>2 DEF PassRecord
<1>5. fleet.state # "none"
  BY <1>2 DEF FleetInv, FleetTypes
<1>6. FleetTypes' /\ StartsActive'
  BY <1>2, <1>3, <1>4, <1>5 DEF FleetInv, FleetTypes, StartsActive
<1>7. ASSUME NEW e \in Started
      PROVE  /\ Counting(e)' => Counting(e)
             /\ member'[e].slot = member[e].slot
             /\ member'[e].state \notin Finished => member[e].state \notin Finished
             /\ Row(e)' /\ Hopeless(e)' => Row(e) /\ Hopeless(e)
             /\ member[e].known /\ ~Hopeless(e) => member'[e].known /\ ~Hopeless(e)'
  <2>1. ~BeingRecorded(e)' /\ "terminated" \in Finished
    BY <1>4 DEF BeingRecorded, Finished
  <2> QED
    BY <1>2, <1>3, <2>1 DEF Counting, Row, Hopeless
<1>8. CountFits' /\ SlotsKnown' /\ StreakFits'
  BY <1>2, <1>4, <1>7, MembersFade
<1> QED
  BY <1>6, <1>8 DEF FleetInv

\* A member that is started was missing, and its slot was free (_reconcile_locked, create_deployment).
LEMMA StartMemberKeeps ==
  ASSUME FleetInv, StartMember
  PROVE  FleetInv' /\ fleet.state = "active" /\ Cardinality(Live) < fleet.target
<1> DEFINE new == lastMember + 1
           slot == FreeSlot(fleetPass.used)
           row == [state |-> "starting", slot |-> slot, ready |-> FALSE, known |-> FALSE, ran |-> FALSE]
<1>1. /\ fleetPass.pc = "start" /\ lastMember < MaxMembers /\ lastMember' = new /\ member' = [member EXCEPT ![new] = row]
      /\ fleetPass' = [fleetPass EXCEPT !.pc = "record"] /\ UNCHANGED <<fleet, peakTarget>>
  BY DEF StartMember
<1>2. /\ lastMember \in 0 .. MaxMembers /\ lastMember \in Nat /\ MaxMembers \in Nat /\ new \in MemberId /\ new >= 1
      /\ fleet \in FleetRecord /\ member \in [MemberId -> MemberRecord] /\ fleetPass \in PassRecord
      /\ FailuresBeforePause \in Nat /\ peakTarget \in Nat /\ fleet.target \in Nat /\ fleetPass.need \in Nat
  BY <1>1, FleetsAssumption DEF FleetInv, FleetTypes, FleetRecord, PassRecord, MemberId
<1>3. Started' = Started \cup {new} /\ new \notin Started /\ Started \subseteq MemberId
  BY <1>1, <1>2 DEF Started, MemberId
<1>4. fleetPass.used \in SUBSET Nat /\ fleetPass.used \subseteq {member[d].slot : d \in Started}
  BY <1>1, <1>2 DEF FleetInv, SlotsKnown, PassRecord
<1>5. slot \in 1 .. MaxMembers + 1 /\ slot \notin fleetPass.used
  BY <1>1, <1>2, <1>4, SlotIsFree
<1> HIDE DEF slot
<1>6. row \in MemberRecord
  BY <1>2, <1>5 DEF MemberRecord
<1>7. /\ member' \in [MemberId -> MemberRecord] /\ member'[new] = row
      /\ \A d \in Started : member'[d] = member[d]
  BY <1>1, <1>2, <1>3, <1>6
<1>8. /\ fleetPass' \in PassRecord /\ fleetPass'.pc = "record"
      /\ fleetPass'.need = fleetPass.need /\ fleetPass'.used = fleetPass.used
  BY <1>1, <1>2 DEF PassRecord
<1> HIDE DEF row
<1>9. /\ member'[new].state = "starting" /\ member'[new].slot = slot /\ member'[new].ready = FALSE
      /\ member'[new].known = FALSE /\ member'[new].ran = FALSE
  BY <1>7 DEF row
<1>10. fleet.state = "active" /\ fleetPass.need >= 1
  BY <1>1 DEF FleetInv, StartsActive
<1>11. FleetTypes'
  <2>1. ASSUME NEW d \in MemberId
        PROVE  /\ member'[d].ran => member'[d].known /\ member'[d].ready
               /\ member'[d].state = "starting" => ~member'[d].ready
    <3>1. CASE d = new
      BY <1>9, <3>1
    <3>2. CASE d # new
      <4>1. member'[d] = member[d]
        BY <1>1, <1>2, <3>2
      <4> QED
        BY <4>1 DEF FleetInv, FleetTypes
    <3> QED
      BY <3>1, <3>2
  <2>2. new \in 0 .. MaxMembers
    BY <1>1, <1>2
  <2> QED
    BY <1>1, <1>7, <1>8, <1>10, <2>1, <2>2 DEF FleetInv, FleetTypes
<1>12. StartsActive'
  BY <1>1, <1>2, <1>8, <1>10 DEF StartsActive
<1>13. \A d \in Started : ~BeingRecorded(d)' /\ ~BeingRecorded(d)
  BY <1>1, <1>3 DEF BeingRecorded
<1>14. IsFiniteSet(Counted) /\ Cardinality(Counted) \in Nat /\ IsFiniteSet(Streak) /\ Cardinality(Streak) \in Nat
  BY <1>2, MembersFinite DEF Counted, Streak
<1>15. Cardinality(Counted') = Cardinality(Counted) + 1
  <2>1. \A d \in Started : Counting(d)' = Counting(d)
    BY <1>1, <1>7, <1>13 DEF Counting
  <2>2. ASSUME NEW d, d = new PROVE Counting(d)'
    BY <1>9, <2>2 DEF Counting, Finished
  <2>3. Counted' = Counted \cup {new} /\ new \notin Counted
    BY <1>3, <2>1, <2>2 DEF Counted
  <2> QED
    BY <1>14, <2>3, FS_AddElement
<1>16. CountFits'
  <2>1. Cardinality(Counted) + fleetPass.need <= fleet.target /\ fleet.target <= peakTarget
    BY <1>1, <1>2, <1>10 DEF FleetInv, CountFits, FleetTypes
  <2> QED
    BY <1>1, <1>2, <1>8, <1>10, <1>14, <1>15, <2>1 DEF CountFits
<1>17. SlotsKnown'
  <2>1. Live' = Live \cup {new}
    BY <1>3, <1>7, <1>9 DEF Live, Finished
  <2>2. \A d \in Live : d \in Started /\ member'[d].slot = member[d].slot /\ member[d].slot \in fleetPass.used
    BY <1>1, <1>7, <1>13 DEF Live, FleetInv, SlotsKnown
  <2>3. OneMemberPerSlot'
    <3>1. OneMemberPerSlot
      BY DEF FleetInv, SlotsKnown
    <3> QED
      BY <1>5, <1>9, <2>1, <2>2, <3>1 DEF OneMemberPerSlot
  <2>4. \A d \in Live' : BeingRecorded(d)' \/ member'[d].slot \in fleetPass'.used
    BY <1>1, <1>8, <2>1, <2>2 DEF BeingRecorded
  <2>5. fleetPass'.used \subseteq {member'[d].slot : d \in Started'}
    BY <1>3, <1>4, <1>7, <1>8
  <2>6. member'[lastMember'].slot \notin fleetPass'.used
    BY <1>1, <1>5, <1>8, <1>9
  <2> QED
    BY <2>3, <2>4, <2>5, <2>6 DEF SlotsKnown
<1>18. StreakFits'
  <2>1. SUFFICES ASSUME peakTarget = 1 PROVE Cardinality(Streak') <= FailuresBeforePause
    BY <1>1, <1>8 DEF StreakFits
  <2>2. Cardinality(Streak) < FailuresBeforePause
    BY <1>1, <2>1 DEF FleetInv, StreakFits
  <2>3. \A d \in Started : Row(d)' = Row(d) /\ Hopeless(d)' = Hopeless(d)
    BY <1>7, <1>13 DEF Row, Hopeless
  <2>4. Hopeful' = Hopeful
    BY <1>3, <1>7, <1>9, <2>3 DEF Hopeful
  <2>5. Streak' \subseteq Streak \cup {new}
    BY <1>1, <1>3, <2>3, <2>4 DEF Streak
  <2>6. IsFiniteSet(Streak \cup {new}) /\ Cardinality(Streak \cup {new}) <= Cardinality(Streak) + 1 /\ Cardinality(Streak \cup {new}) \in Nat
    <3>1. /\ IsFiniteSet(Streak \cup {new})
          /\ Cardinality(Streak \cup {new}) = IF new \in Streak THEN Cardinality(Streak) ELSE Cardinality(Streak) + 1
      BY <1>14, FS_AddElement
    <3> QED
      BY <1>14, <3>1
  <2>7. Cardinality(Streak') <= Cardinality(Streak \cup {new}) /\ Cardinality(Streak') \in Nat
    BY <2>5, <2>6, Fewer
  <2> QED
    BY <1>2, <1>14, <2>2, <2>6, <2>7
<1>19. Cardinality(Live) < fleet.target
  <2>1. Live \subseteq Counted
    BY DEF Live, Counted, Counting
  <2>2. Cardinality(Live) \in Nat /\ Cardinality(Live) <= Cardinality(Counted)
    BY <1>14, <2>1, Fewer
  <2>3. Cardinality(Counted) + fleetPass.need <= fleet.target
    BY <1>1 DEF FleetInv, CountFits
  <2> QED
    BY <1>2, <1>10, <1>14, <2>2, <2>3
<1> QED
  BY <1>10, <1>11, <1>12, <1>16, <1>17, <1>18, <1>19 DEF FleetInv

\* The row of a started member is written: one fewer is missing, and its slot is in use (_reconcile_locked).
LEMMA RecordMemberKeeps == ASSUME FleetInv, RecordMember PROVE FleetInv'
<1> DEFINE last == lastMember
           need == fleetPass.need
           next == [fleetPass EXCEPT !.pc = "start", !.need = fleetPass.need - 1,
                                     !.used = fleetPass.used \cup {member[lastMember].slot}]
<1>1. /\ fleetPass.pc = "record" /\ UNCHANGED <<fleet, lastMember, peakTarget>>
      /\ member' = [member EXCEPT ![last].known = TRUE] /\ fleetPass' = IF need = 1 THEN NoPass ELSE next
  BY DEF RecordMember
<1>2. /\ last \in 0 .. MaxMembers /\ last \in Nat /\ last >= 1 /\ MaxMembers \in Nat
      /\ fleet \in FleetRecord /\ member \in [MemberId -> MemberRecord] /\ fleetPass \in PassRecord
      /\ FailuresBeforePause \in Nat /\ peakTarget \in Nat /\ fleet.target \in Nat /\ need \in 0 .. MaxTarget
      /\ need >= 1 /\ fleet.state = "active" /\ MaxTarget \in Nat /\ fleet.target <= peakTarget
  BY <1>1, FleetsAssumption DEF FleetInv, FleetTypes, FleetRecord, PassRecord, StartsActive
<1>3. Started' = Started /\ Started \subseteq MemberId /\ last \in Started
  BY <1>1, <1>2, MembersFinite DEF Started
<1>4. member[last].slot \in Nat
  BY <1>2, <1>3 DEF MemberRecord
<1>5. /\ fleetPass' \in PassRecord
      /\ need = 1 => fleetPass'.pc = "idle"
      /\ need # 1 => fleetPass'.pc = "start" /\ fleetPass'.need = need - 1 /\ fleetPass'.used = fleetPass.used \cup {member[last].slot}
  <2>1. CASE need = 1
    BY <1>1, <1>2, <2>1 DEF NoPass, PassRecord
  <2>2. CASE need # 1
    <3>1. need - 1 \in 0 .. MaxTarget /\ fleetPass.used \cup {member[last].slot} \in SUBSET Nat
      BY <1>2, <1>4 DEF PassRecord
    <3> QED
      BY <1>1, <1>2, <2>2, <3>1 DEF PassRecord
  <2> QED
    BY <2>1, <2>2
<1> HIDE DEF next
<1>6. /\ member' \in [MemberId -> MemberRecord]
      /\ \A d \in MemberId :
           /\ member'[d].state = member[d].state /\ member'[d].slot = member[d].slot
           /\ member'[d].ready = member[d].ready /\ member'[d].ran = member[d].ran
           /\ member'[d].known = (d = last \/ member[d].known)
  BY <1>1, <1>2, <1>3 DEF MemberRecord
<1>7. FleetTypes'
  BY <1>1, <1>2, <1>5, <1>6 DEF FleetInv, FleetTypes
<1>8. StartsActive'
  BY <1>1, <1>2, <1>5 DEF StartsActive
<1>9. /\ IsFiniteSet(Counted) /\ Cardinality(Counted) \in Nat /\ Cardinality(Counted') \in Nat
      /\ Cardinality(Counted') <= Cardinality(Counted)
  <2>1. Counted' \subseteq Counted
    BY <1>1, <1>3, <1>5, <1>6 DEF Counted, Counting, BeingRecorded
  <2>2. IsFiniteSet(Counted)
    BY <1>2, MembersFinite DEF Counted
  <2> QED
    BY <2>1, <2>2, Fewer
<1>10. Cardinality(Counted) + need <= fleet.target + 1 /\ Cardinality(Counted) <= peakTarget
  BY <1>1 DEF FleetInv, CountFits
<1>11. CountFits'
  BY <1>1, <1>2, <1>5, <1>9, <1>10 DEF CountFits
<1>12. SlotsKnown'
  <2>1. Live' = Live
    BY <1>3, <1>6 DEF Live
  <2>2. OneMemberPerSlot'
    BY <1>3, <1>6, <2>1 DEF FleetInv, SlotsKnown, OneMemberPerSlot, Live
  <2>3. CASE need = 1
    BY <1>5, <2>2, <2>3 DEF SlotsKnown
  <2>4. CASE need # 1
    <3>1. \A d \in Live : d = last \/ member[d].slot \in fleetPass.used
      BY <1>1 DEF FleetInv, SlotsKnown, BeingRecorded
    <3>2. \A d \in Live' : member'[d].slot \in fleetPass'.used
      BY <1>3, <1>5, <1>6, <2>1, <2>4, <3>1 DEF Live
    <3>3. {member'[d].slot : d \in Started'} = {member[d].slot : d \in Started}
      BY <1>3, <1>6
    <3>4. fleetPass'.used \subseteq {member'[d].slot : d \in Started'}
      BY <1>1, <1>3, <1>5, <2>4, <3>3 DEF FleetInv, SlotsKnown
    <3> QED
      BY <1>5, <2>2, <2>4, <3>2, <3>4 DEF SlotsKnown
  <2> QED
    BY <2>3, <2>4
<1>13. StreakFits'
  <2>1. SUFFICES ASSUME peakTarget = 1 PROVE Cardinality(Streak') <= FailuresBeforePause /\ fleetPass'.pc # "start"
    BY <1>1 DEF StreakFits
  <2>2. Hopeful \subseteq Hopeful' /\ \A d \in Started : Row(d)' /\ Hopeless(d)' => Row(d) /\ Hopeless(d)
    BY <1>1, <1>3, <1>5, <1>6 DEF Hopeful, Hopeless, Row, BeingRecorded
  <2>3. Streak' \subseteq Streak
    BY <1>1, <1>3, <2>2 DEF Streak
  <2>4. IsFiniteSet(Streak) /\ Cardinality(Streak) <= FailuresBeforePause
    BY <1>2, <2>1, MembersFinite DEF Streak, FleetInv, StreakFits
  <2>5. Cardinality(Streak') <= FailuresBeforePause
    BY <1>2, <2>3, <2>4, Fewer
  <2>6. Cardinality(Counted) >= 1
    <3>1. last \in Counted
      BY <1>1, <1>3 DEF Counted, Counting, BeingRecorded
    <3> QED
      BY <1>9, <3>1, FS_EmptySet
  <2>7. need = 1
    BY <1>2, <1>9, <1>10, <2>1, <2>6
  <2> QED
    BY <1>5, <2>5, <2>7
<1> QED
  BY <1>7, <1>8, <1>11, <1>12, <1>13 DEF FleetInv

\* What adopting the orphans and recording who was seen ready does to a member.
LEMMA AfterPass ==
  ASSUME FleetInv
  PROVE  /\ Progress(Adopted) \in [MemberId -> MemberRecord]
         /\ \A d \in MemberId : LET row == Progress(Adopted)[d] IN
              /\ row.state = member[d].state /\ row.slot = member[d].slot /\ row.ready = member[d].ready
              /\ row.known = (member[d].known \/ (fleet.state = "active" /\ d \in Live))
              /\ row.ran = (row.known /\ row.ready)
<1>1. /\ member \in [MemberId -> MemberRecord]
      /\ \A d \in MemberId : member[d].ran => member[d].known /\ member[d].ready
  BY DEF FleetInv, FleetTypes
<1>2. /\ Adopted \in [MemberId -> MemberRecord]
      /\ \A d \in MemberId :
           /\ Adopted[d].state = member[d].state /\ Adopted[d].slot = member[d].slot
           /\ Adopted[d].ready = member[d].ready /\ Adopted[d].ran = member[d].ran
           /\ Adopted[d].known = (member[d].known \/ (fleet.state = "active" /\ d \in Live))
  <2>1. CASE fleet.state # "active"
    <3>1. Adopted = member
      BY <2>1 DEF Adopted
    <3> QED
      BY <1>1, <2>1, <3>1 DEF MemberRecord
  <2>2. CASE fleet.state = "active"
    <3>1. Adopted = [d \in MemberId |-> IF d \in Live THEN [member[d] EXCEPT !.known = TRUE] ELSE member[d]]
      BY <2>2 DEF Adopted
    <3> QED
      BY <1>1, <2>2, <3>1 DEF MemberRecord
  <2> QED
    BY <2>1, <2>2
<1> DEFINE m == Adopted
           p == Progress(m)
<1>3. \A d \in MemberId : p[d] = IF m[d].known /\ m[d].ready THEN [m[d] EXCEPT !.ran = TRUE] ELSE m[d]
  BY DEF Progress
<1>4. p = [d \in MemberId |-> p[d]]
  BY DEF Progress
<1> HIDE DEF m, p
<1>5. ASSUME NEW d \in MemberId
      PROVE  /\ p[d] \in MemberRecord
             /\ p[d].state = m[d].state /\ p[d].slot = m[d].slot /\ p[d].ready = m[d].ready /\ p[d].known = m[d].known
             /\ p[d].ran = (m[d].ran \/ (m[d].known /\ m[d].ready))
  <2>1. m[d] \in MemberRecord
    BY <1>2 DEF m
  <2> QED
    BY <1>3, <2>1 DEF MemberRecord
<1>6. p \in [MemberId -> MemberRecord]
  BY <1>4, <1>5
<1>7. ASSUME NEW d \in MemberId
      PROVE  /\ p[d].state = member[d].state /\ p[d].slot = member[d].slot /\ p[d].ready = member[d].ready
             /\ p[d].known = (member[d].known \/ (fleet.state = "active" /\ d \in Live))
             /\ p[d].ran = (p[d].known /\ p[d].ready)
  <2>1. m[d].known \in BOOLEAN /\ m[d].ready \in BOOLEAN /\ m[d].ran \in BOOLEAN /\ member[d].known \in BOOLEAN /\ member[d].ready \in BOOLEAN
    BY <1>1, <1>2 DEF m, MemberRecord
  <2>2. m[d].ran = member[d].ran /\ (member[d].ran => member[d].known /\ member[d].ready)
    BY <1>1, <1>2 DEF m
  <2>3. /\ m[d].state = member[d].state /\ m[d].slot = member[d].slot /\ m[d].ready = member[d].ready
        /\ m[d].known = (member[d].known \/ (fleet.state = "active" /\ d \in Live))
    BY <1>2 DEF m
  <2> QED
    BY <1>5, <2>1, <2>2, <2>3
<1> QED
  BY <1>6, <1>7 DEF p, m

\* A pass adopts the orphans, so it sees every live member, and starts what is missing of what was asked for (_reconcile_locked).
LEMMA ReconcileLockedKeeps == ASSUME FleetInv, ReconcileLocked PROVE FleetInv'
<1> DEFINE m == Progress(Adopted)
           live == {d \in Live : m[d].known}
           need == Lacking(m, live)
           extras == Cardinality(live) > fleet.target
           streak == FailedStreak(m) >= FailuresBeforePause
           used == {m[d].slot : d \in live \cup RanMembers(m)}
           state == IF fleet.state = "paused" THEN fleet.state
                    ELSE IF streak \/ (need > 0 /\ ~orderable) THEN "paused"
                    ELSE IF need <= 0 /\ live = {} /\ ~fleet.replace THEN "completed" ELSE fleet.state
           surplus == Extras(live)
           halts == [NoPass EXCEPT !.pc = "stop", !.kill = surplus]
           starts == [NoPass EXCEPT !.pc = "start", !.need = need, !.used = used]
<1>1. /\ fleetPass \in {NoPass, [NoPass EXCEPT !.pc = "held"]} /\ fleet.state \in {"active", "paused"}
      /\ member' = m /\ UNCHANGED <<lastMember, peakTarget>>
      /\ fleet' = [fleet EXCEPT !.state = state]
      /\ fleetPass' = CASE extras /\ ~(fleet.state = "active" /\ streak) -> halts
                        [] fleet'.state = "active" /\ need > 0 /\ ~extras -> starts
                        [] OTHER -> NoPass
  BY DEF ReconcileLocked
<1>2. /\ lastMember \in 0 .. MaxMembers /\ MaxMembers \in Nat /\ MaxTarget \in Nat /\ fleet \in FleetRecord
      /\ FailuresBeforePause \in Nat \ {0} /\ peakTarget \in 0 .. MaxTarget /\ peakTarget \in Nat
      /\ fleet.target \in 1 .. peakTarget /\ fleet.target \in Nat /\ fleet.replace \in BOOLEAN
  BY <1>1, FleetsAssumption DEF FleetInv, FleetTypes, FleetRecord
<1>3. fleetPass.pc \in {"idle", "held"}
  BY <1>1 DEF NoPass
<1>4. Started' = Started /\ Started \subseteq MemberId /\ live \subseteq Started /\ Live \subseteq Started /\ RanMembers(m) \subseteq Started
  BY <1>1, <1>2, MembersFinite DEF Started, Live, RanMembers
<1>5. /\ m \in [MemberId -> MemberRecord]
      /\ \A d \in MemberId :
           /\ m[d].state = member[d].state /\ m[d].slot = member[d].slot /\ m[d].ready = member[d].ready
           /\ m[d].known = (member[d].known \/ (fleet.state = "active" /\ d \in Live))
           /\ m[d].ran = (m[d].known /\ m[d].ready)
  BY AfterPass
<1>6. /\ IsFiniteSet(live) /\ Cardinality(live) \in Nat
      /\ IsFiniteSet(RanMembers(m)) /\ Cardinality(RanMembers(m)) \in Nat
  BY <1>2, <1>4, MembersFinite
<1> HIDE DEF m
<1>7. need = fleet.target - Cardinality(live) - Cardinality(RanMembers(m))
  BY DEF Lacking
<1>8. extras => surplus \in SUBSET MemberId
  <2>1. live \in SUBSET Started
    BY <1>4
  <2> HIDE DEF live
  <2> QED
    BY <1>4, <2>1, ExtrasExist DEF FleetInv
<1>9. used \in SUBSET Nat /\ used \subseteq {m[d].slot : d \in Started}
  BY <1>4, <1>5 DEF MemberRecord
<1>10. state \in {"active", "paused", "completed"} /\ (state = "active" => fleet.state = "active" /\ ~streak)
  <2> HIDE DEF streak, extras, need, live
  <2> QED
    BY <1>1
<1> HIDE DEF surplus, streak, state, used, need, extras, live
<1>11. fleet' \in FleetRecord /\ fleet'.state = state /\ fleet'.target = fleet.target /\ fleet'.replace = fleet.replace /\ fleet'.reset = fleet.reset
  BY <1>1, <1>2, <1>10 DEF FleetRecord
<1>12. NoPass \in PassRecord /\ NoPass.pc = "idle"
  BY <1>2 DEF NoPass, PassRecord
<1>13. extras => halts \in PassRecord /\ halts.pc = "stop"
  <2>1. ASSUME NEW next, next = halts PROVE next = [pc |-> "stop", need |-> 0, used |-> {}, kill |-> surplus]
    BY <2>1 DEF NoPass
  <2>2. halts = [pc |-> "stop", need |-> 0, used |-> {}, kill |-> surplus]
    BY <2>1
  <2>3. 0 \in 0 .. MaxTarget
    BY <1>2
  <2> HIDE DEF halts
  <2> QED
    BY <1>8, <2>2, <2>3 DEF PassRecord
<1>14. need > 0 => starts \in PassRecord /\ starts.pc = "start" /\ starts.need = need /\ starts.used = used
  <2>1. need > 0 => need \in 0 .. MaxTarget
    BY <1>2, <1>6, <1>7
  <2> QED
    BY <1>9, <2>1 DEF NoPass, PassRecord
<1> HIDE DEF halts, starts
<1>15. /\ fleetPass' \in PassRecord
       /\ \/ fleetPass'.pc \in {"idle", "stop"}
          \/ fleetPass' = starts /\ fleetPass'.pc = "start" /\ need > 0 /\ state = "active"
  BY <1>1, <1>11, <1>12, <1>13, <1>14
<1>16. FleetTypes'
  BY <1>1, <1>2, <1>5, <1>10, <1>11, <1>15 DEF FleetInv, FleetTypes
<1>17. need \in Int
  BY <1>2, <1>6, <1>7
<1>18. StartsActive'
  BY <1>11, <1>14, <1>15, <1>17 DEF StartsActive
<1>19. CASE fleetPass'.pc \in {"idle", "stop"}
  <2>1. ASSUME NEW d \in Started
        PROVE  /\ Counting(d)' => Counting(d)
               /\ member'[d].slot = member[d].slot
               /\ member'[d].state \notin Finished => member[d].state \notin Finished
               /\ Row(d)' /\ Hopeless(d)' => Row(d) /\ Hopeless(d)
               /\ member[d].known /\ ~Hopeless(d) => member'[d].known /\ ~Hopeless(d)'
    <3>1. ~BeingRecorded(d)'
      BY <1>19 DEF BeingRecorded
    <3>2. /\ member'[d].state = member[d].state /\ member'[d].slot = member[d].slot /\ member'[d].ready = member[d].ready
          /\ member'[d].known = (member[d].known \/ (fleet.state = "active" /\ d \in Live)) /\ d \in MemberId
      BY <1>1, <1>4, <1>5
    <3>3. d \in Live <=> member[d].state \notin Finished
      BY DEF Live
    <3> QED
      BY <1>11, <3>1, <3>2, <3>3 DEF Counting, Row, Hopeless
  <2>2. CountFits' /\ SlotsKnown' /\ StreakFits'
    <3>1. fleetPass'.pc \in {"start", "record"} => UNCHANGED fleetPass
      BY <1>19
    <3> QED
      BY <1>1, <1>11, <2>1, <3>1, MembersFade
  <2> QED
    BY <1>16, <1>18, <2>2 DEF FleetInv
<1>20. CASE fleetPass' = starts /\ fleetPass'.pc = "start" /\ need > 0 /\ state = "active"
  <2>1. fleet.state = "active" /\ ~streak /\ fleetPass'.need = need /\ fleetPass'.used = used
    BY <1>10, <1>14, <1>20
  <2>2. live = Live /\ Live' = Live
    BY <1>1, <1>4, <1>5, <2>1 DEF live, Live
  <2>3. \A d : ~BeingRecorded(d)'
    BY <1>20 DEF BeingRecorded
  <2>4. Counted' \subseteq live \cup RanMembers(m)
    <3>1. ASSUME NEW d \in Started, Counting(d)' PROVE d \in live \cup RanMembers(m)
      <4>1. CASE member'[d].state \notin Finished
        BY <1>1, <1>4, <1>5, <2>2, <4>1 DEF Live
      <4>2. CASE ~fleet'.replace /\ member'[d].known /\ member'[d].ready
        BY <1>1, <1>4, <1>5, <1>11, <4>2 DEF RanMembers
      <4> QED
        BY <2>3, <3>1, <4>1, <4>2 DEF Counting
    <3> QED
      BY <1>4, <3>1 DEF Counted
  <2>5. Cardinality(Counted') \in Nat /\ Cardinality(Counted') + need <= fleet.target
    <3> DEFINE L == live
               R == RanMembers(m)
    <3>1. IsFiniteSet(L) /\ IsFiniteSet(R) /\ Cardinality(L) \in Nat /\ Cardinality(R) \in Nat
      BY <1>6
    <3> HIDE DEF L, R
    <3>2. IsFiniteSet(L \cup R) /\ Cardinality(L \cup R) = Cardinality(L) + Cardinality(R) - Cardinality(L \cap R)
      BY <3>1, FS_Union
    <3>3. Cardinality(L \cap R) \in Nat
      BY <3>1, FS_Intersection, FS_CardinalityType
    <3>4. Counted' \subseteq L \cup R
      BY <2>4 DEF L, R
    <3>5. Cardinality(Counted') \in Nat /\ Cardinality(L \cup R) \in Nat /\ Cardinality(Counted') <= Cardinality(L \cup R)
      BY <3>2, <3>4, Fewer
    <3>6. need = fleet.target - Cardinality(L) - Cardinality(R)
      BY <1>7 DEF L, R
    <3> QED
      BY <1>2, <3>1, <3>2, <3>3, <3>5, <3>6
  <2>6. CountFits'
    BY <1>1, <1>2, <1>11, <1>17, <1>20, <2>1, <2>5 DEF CountFits
  <2>7. SlotsKnown'
    <3>1. OneMemberPerSlot'
      BY <1>1, <1>4, <1>5, <2>2 DEF FleetInv, SlotsKnown, OneMemberPerSlot
    <3>2. used \subseteq {member'[d].slot : d \in Started'}
      BY <1>1, <1>4, <1>9
    <3>3. \A d \in Live' : member'[d].slot \in used
      BY <1>1, <2>2 DEF used
    <3> QED
      BY <1>20, <2>1, <3>1, <3>2, <3>3 DEF SlotsKnown
  <2>8. StreakFits'
    <3>1. SUFFICES ASSUME peakTarget = 1
                   PROVE  Cardinality(Streak') < FailuresBeforePause /\ Cardinality(Streak') \in Nat
      BY <1>1, <1>2 DEF StreakFits
    <3>2. live = {}
      <4>1. Cardinality(live) = 0
        BY <1>2, <1>6, <1>7, <1>17, <1>20, <3>1
      <4> QED
        BY <1>6, <4>1, FS_EmptySet
    <3>3. \A d \in Started : m[d].state \in Finished
      BY <1>4, <1>5, <2>2, <3>2 DEF Live
    <3> DEFINE rows == {d \in Started : m[d].known}
               Failed(d) == m[d].state = "failed" /\ ~m[d].ready /\ d > fleet.reset
               F == {d \in rows : \A e \in rows : e >= d => Failed(e)}
    <3>4. FailedStreak(m) = Cardinality(F)
      BY DEF FailedStreak
    <3>5. F \in SUBSET Started
      OBVIOUS
    <3>6. Streak' \subseteq F
      <4>1. ASSUME NEW d \in Started, Row(d)', d > fleet'.reset, Hopeless(d)', \A e \in Hopeful' : e < d
            PROVE  d \in F
        <5>1. m[d].known /\ m[d].state = "failed" /\ ~m[d].ready
          BY <1>1, <2>3, <3>3, <4>1 DEF Row, Hopeless, Finished
        <5>2. ASSUME NEW e \in rows, e >= d PROVE Failed(e)
          <6>1. d \in Nat /\ e \in Nat /\ fleet.reset \in Nat
            BY <1>2 DEF Started, FleetRecord
          <6>2. e \notin Hopeful'
            BY <4>1, <5>2, <6>1
          <6>3. Hopeless(e)'
            BY <1>1, <1>4, <6>2 DEF Hopeful
          <6>4. m[e].state = "failed" /\ ~m[e].ready
            BY <1>1, <3>3, <6>3 DEF Hopeless, Finished
          <6>5. e > fleet.reset
            BY <1>11, <4>1, <5>2, <6>1
          <6> QED
            BY <6>4, <6>5
        <5> QED
          BY <5>1, <5>2
      <4> QED
        BY <1>4, <4>1 DEF Streak
    <3> HIDE DEF F
    <3>7. IsFiniteSet(F) /\ Cardinality(F) \in Nat
      BY <1>2, <3>5, MembersFinite
    <3>8. Cardinality(F) < FailuresBeforePause
      BY <1>2, <2>1, <3>4, <3>7 DEF streak
    <3>9. Cardinality(Streak') \in Nat /\ Cardinality(Streak') <= Cardinality(F)
      BY <3>6, <3>7, Fewer
    <3> QED
      BY <1>2, <3>7, <3>8, <3>9
  <2> QED
    BY <1>16, <1>18, <2>6, <2>7, <2>8 DEF FleetInv
<1> QED
  BY <1>15, <1>19, <1>20

\* Every action of the customer, of the pass and of the members keeps the invariant.
LEMMA FleetInvKept == FleetInv /\ [FleetNext]_fleetVars => FleetInv'
BY CreateFleetKeeps, UpdateFleetKeeps, StopFleetKeeps, ReconcileLockedKeeps, StartMemberKeeps, RecordMemberKeeps,
   StopMemberKeeps, PassEndsKeeps, MemberMovesKeeps
DEF FleetNext, PassStep

\* Only a pass adds members, and only to an active fleet that lacks one.
LEMMA StartsMissing ==
  ASSUME FleetInv, [FleetNext]_fleetVars, lastMember' > lastMember
  PROVE  fleet.state = "active" /\ Cardinality(Live) < fleet.target
<1>1. CASE UNCHANGED lastMember
  BY <1>1 DEF FleetInv, FleetTypes
<1>2. CASE StartMember
  BY <1>2, StartMemberKeeps
<1>3. UNCHANGED lastMember \/ StartMember
  BY DEF FleetNext, PassStep, CreateFleet, UpdateFleet, StopFleet, ReconcileLocked, RecordMember, StartRefused, StopMember,
         FleetGatewayDies, RoomChanges, WorkloadOrKeyDeleted, MemberMoves, fleetVars
<1> QED
  BY <1>1, <1>2, <1>3

\* What the invariant says of every state.
LEMMA FleetPromises ==
  ASSUME FleetInv
  PROVE  FleetTypeOK /\ OneMemberPerSlot /\ RunsAtMostTarget /\ BrokenImageStops
<1>1. lastMember \in 0 .. MaxMembers /\ peakTarget \in Nat /\ FailuresBeforePause \in Nat
  BY FleetsAssumption DEF FleetInv, FleetTypes
<1>2. FleetTypeOK
  BY DEF FleetInv, FleetTypes, FleetRecord, MemberRecord, PassRecord, FleetTypeOK
<1>3. RunsAtMostTarget
  <2> DEFINE ran == {d \in Started : member[d].ready /\ member[d].known}
  <2>1. SUFFICES ASSUME ~fleet.replace PROVE Cardinality(ran) <= peakTarget
    BY DEF RunsAtMostTarget
  <2>2. ran \subseteq Counted
    BY <2>1 DEF Counted, Counting
  <2>3. IsFiniteSet(Counted) /\ Cardinality(Counted) <= peakTarget
    BY <1>1, MembersFinite DEF Counted, FleetInv, CountFits
  <2> HIDE DEF ran
  <2> QED
    BY <1>1, <2>2, <2>3, Fewer
<1>4. BrokenImageStops
  <2> DEFINE rows == {d \in Started : member[d].known}
             tail == {d \in rows : d > fleet.reset /\ \A e \in rows : e >= d => member[e].state = "failed" /\ ~member[e].ready}
  <2>1. SUFFICES ASSUME peakTarget = 1 PROVE Cardinality(tail) <= FailuresBeforePause
    BY DEF BrokenImageStops
  <2>2. ASSUME NEW d \in tail PROVE d \in Streak
    <3>1. d \in Started /\ member[d].known /\ d > fleet.reset /\ d \in Int
      BY DEF Started
    <3>2. member[d].state = "failed" /\ ~member[d].ready
      BY <3>1
    <3>3. ASSUME NEW e \in Hopeful PROVE e < d
      <4>1. e \in rows /\ e \in Int /\ ~Hopeless(e)
        BY DEF Hopeful, Started
      <4>2. ~(e >= d)
        BY <4>1 DEF Hopeless
      <4> QED
        BY <3>1, <4>1, <4>2
    <3> QED
      BY <3>1, <3>2, <3>3 DEF Streak, Row, Hopeless
  <2>3. IsFiniteSet(Streak) /\ Cardinality(Streak) <= FailuresBeforePause
    BY <1>1, <2>1, MembersFinite DEF Streak, FleetInv, StreakFits
  <2>4. tail \subseteq Streak
    BY <2>2
  <2> HIDE DEF tail
  <2> QED
    BY <1>1, <2>3, <2>4, Fewer
<1> QED
  BY <1>2, <1>3, <1>4 DEF FleetInv, SlotsKnown

\* One fleet by itself.
FleetSpec == FleetInit /\ [][FleetNext]_fleetVars

\* What fleets.py promises, for any target, limit of failures, number of members, edits and deaths: a pass
\* starts only what is missing, orphans included; live members have different names; in once mode no more run
\* than were asked for; a broken image costs a fleet of one no more starts than the limit before it pauses.
THEOREM FleetSafetyHolds == FleetSpec => FleetSafety
<1>1. FleetInv /\ [FleetNext]_fleetVars
      => [lastMember' > lastMember => fleet.state = "active" /\ Cardinality(Live) < fleet.target]_fleetVars
  BY StartsMissing
<1> QED
  BY FleetInvInit, FleetInvKept, FleetPromises, <1>1, PTL DEF FleetSpec, FleetSafety, StartsOnlyMissing
=============================================================================
