------------------------------ MODULE Accounts ------------------------------
(***************************************************************************)
(* The gateway's account rows: signing up, editing the profile (whose save *)
(* writes the balance column too), and the website's admins with their     *)
(* managed keys.  Each database transaction is an action; none of these    *)
(* handlers holds a lock from one transaction to the next.                 *)
(***************************************************************************)
EXTENDS Integers, FiniteSets, FiniteSetsExt

CONSTANTS
  Registrar,        \* sign-up requests for one email address
  TakenNames,       \* usernames of other customers, as positions in _unique_username's candidates
  MaxNames,         \* bound on the candidates
  MaxLedger,        \* bound on the ledger's entries
  MaxEdits,         \* bound on the profile edits
  Fetcher,          \* website_admin_key requests
  MaxAdminChanges   \* bound on the admin being added and removed

ASSUME AccountsAssumption ==
  /\ MaxNames \in Nat \ {0} /\ TakenNames \subseteq 1..MaxNames /\ IsFiniteSet(Registrar)
  /\ MaxNames > Cardinality(TakenNames) + Cardinality(Registrar)
  /\ MaxLedger \in Nat /\ MaxEdits \in Nat /\ MaxAdminChanges \in Nat

(***************************************************************************)
(* Signing up.                                                             *)
(***************************************************************************)
VARIABLES
  signup,     \* per request: [pc, name]
  accounts    \* the usernames of the accounts with this email; users.email is not unique

signVars == <<signup, accounts>>

SignInit ==
  /\ signup = [r \in Registrar |-> [pc |-> "email", name |-> 0]]
  /\ accounts = {}

\* register_user answers with the account that has this email, if there is one.
LookUpEmail(r) ==
  /\ signup[r].pc = "email"
  /\ signup' = [signup EXCEPT ![r].pc = IF accounts = {} THEN "name" ELSE "done"]
  /\ UNCHANGED accounts

\* _unique_username: the display name, the email's local part, then numbered ones.
DisplayName(taken) == 1
UniqueUsername(taken) == Min((1..MaxNames) \ taken)

PickUsername(r) ==
  /\ signup[r].pc = "name"
  /\ signup' = [signup EXCEPT ![r] = [pc |-> "save", name |-> UniqueUsername(TakenNames \cup accounts)]]
  /\ UNCHANGED accounts

\* save_user's INSERT fails on a username taken meanwhile; the website tries again.
SaveUser(r) ==
  /\ signup[r].pc = "save"
  /\ IF signup[r].name \in TakenNames \cup accounts
       THEN signup' = [signup EXCEPT ![r].pc = "email"] /\ UNCHANGED accounts
       ELSE signup' = [signup EXCEPT ![r].pc = "done"] /\ accounts' = accounts \cup {signup[r].name}

SignStep(r) == LookUpEmail(r) \/ PickUsername(r) \/ SaveUser(r)
SignNext == \E r \in Registrar : SignStep(r)
SignFairness == \A r \in Registrar : WF_signVars(SignStep(r))

\* Every sign-up ends with an account, whoever else has the same display name:
\* a taken username must never leave a customer without one (register_user).
AllSignedUp == \A r \in Registrar : signup[r].pc = "done"
SignupEnds == <>AllSignedUp

\* Registering is idempotent by email.  (Two sign-ups at once can make two.)
OneAccountPerEmail == Cardinality(accounts) <= 1

(***************************************************************************)
(* A profile edit beside the ledger, for one customer.                     *)
(***************************************************************************)
VARIABLES
  cents,        \* users.balance_credits
  ledgerSum,    \* the sum of the customer's ledger entries
  edit,         \* the balance the edit under way read, or -1
  crossedEdit,  \* history: did a ledger entry come between an edit's read and its save?
  entries, edits

profileVars == <<cents, ledgerSum, edit, crossedEdit, entries, edits>>

ProfileInit == cents = 0 /\ ledgerSum = 0 /\ edit = -1 /\ crossedEdit = FALSE /\ entries = 0 /\ edits = 0

\* credit_user and debit_user: the balance and its entry, under the row's lock.
LedgerEntry(amount) ==
  /\ entries < MaxLedger /\ cents + amount >= 0
  /\ cents' = cents + amount
  /\ ledgerSum' = ledgerSum + amount
  /\ entries' = entries + 1
  /\ crossedEdit' = (crossedEdit \/ edit # -1)
  /\ UNCHANGED <<edit, edits>>

\* update_user_profile reads the whole row ...
UpdateUserProfile ==
  /\ edit = -1 /\ edits < MaxEdits
  /\ edit' = cents /\ edits' = edits + 1
  /\ UNCHANGED <<cents, ledgerSum, crossedEdit, entries>>

\* ... and save_user writes it all back, the balance of the read included.
SavedBalance(seen) == seen
SaveProfile ==
  /\ edit # -1
  /\ cents' = SavedBalance(edit)
  /\ edit' = -1
  /\ UNCHANGED <<ledgerSum, crossedEdit, entries, edits>>

ProfileNext == (\E amount \in {-1, 1} : LedgerEntry(amount)) \/ UpdateUserProfile \/ SaveProfile

\* A profile edit that no ledger entry overlaps leaves the balance what the
\* ledger says, although save_user writes the column (ledger_drift's check).
EditKeepsBalance == ~crossedEdit => cents = ledgerSum

\* The balance is the sum of the ledger.  (An overlapped edit undoes the entry.)
BalanceIsLedger == cents = ledgerSum

(***************************************************************************)
(* The website's admins: one account, its row and its managed keys.        *)
(***************************************************************************)
VARIABLES
  isAdmin,      \* the admin_accounts row exists
  adminKeys,    \* the account's managed admin keys
  keysMade,
  fetch,        \* per request: "idle", "list", "save"
  removal,      \* remove_admin: "idle", "list", or the keys it has left to delete
  crossedFetch, \* history: was a fetch past its check when the row was removed?
  adminChanges

adminVars == <<isAdmin, adminKeys, keysMade, fetch, removal, crossedFetch, adminChanges>>

AdminInit ==
  /\ isAdmin = FALSE /\ adminKeys = {} /\ keysMade = 0
  /\ fetch = [f \in Fetcher |-> "idle"]
  /\ removal = [pc |-> "idle", doomed |-> {}] /\ crossedFetch = FALSE /\ adminChanges = 0

AddAdmin ==
  /\ ~isAdmin /\ adminChanges < MaxAdminChanges
  /\ isAdmin' = TRUE /\ adminChanges' = adminChanges + 1
  /\ UNCHANGED <<adminKeys, keysMade, fetch, removal, crossedFetch>>

\* remove_admin deletes the row, lists the managed keys, and deletes each.
RemoveAdmin ==
  /\ isAdmin /\ removal.pc = "idle"
  /\ isAdmin' = FALSE
  /\ removal' = [removal EXCEPT !.pc = "list"]
  /\ crossedFetch' = (\E f \in Fetcher : fetch[f] # "idle")
  /\ UNCHANGED <<adminKeys, keysMade, fetch, adminChanges>>

ManagedKeys(keys) == keys
ListDoomed ==
  /\ removal.pc = "list"
  /\ removal' = [pc |-> "delete", doomed |-> ManagedKeys(adminKeys)]
  /\ UNCHANGED <<isAdmin, adminKeys, keysMade, fetch, crossedFetch, adminChanges>>

DeleteDoomed ==
  /\ removal.pc = "delete"
  /\ IF removal.doomed = {}
       THEN removal' = [removal EXCEPT !.pc = "idle"] /\ UNCHANGED adminKeys
       ELSE \E k \in removal.doomed : /\ adminKeys' = adminKeys \ {k}
                                      /\ removal' = [removal EXCEPT !.doomed = @ \ {k}]
  /\ UNCHANGED <<isAdmin, keysMade, fetch, crossedFetch, adminChanges>>

\* website_admin_key checks the row, looks for the key, and makes it on first use.
FetchChecks(f) ==
  /\ fetch[f] = "idle" /\ isAdmin
  /\ fetch' = [fetch EXCEPT ![f] = "list"]
  /\ UNCHANGED <<isAdmin, adminKeys, keysMade, removal, crossedFetch, adminChanges>>

FetchLists(f) ==
  /\ fetch[f] = "list"
  /\ fetch' = [fetch EXCEPT ![f] = IF adminKeys = {} THEN "save" ELSE "idle"]
  /\ UNCHANGED <<isAdmin, adminKeys, keysMade, removal, crossedFetch, adminChanges>>

FetchSaves(f) ==
  /\ fetch[f] = "save"
  /\ keysMade' = keysMade + 1 /\ adminKeys' = adminKeys \cup {keysMade + 1}
  /\ fetch' = [fetch EXCEPT ![f] = "idle"]
  /\ UNCHANGED <<isAdmin, removal, crossedFetch, adminChanges>>

AdminNext ==
  \/ AddAdmin \/ RemoveAdmin \/ ListDoomed \/ DeleteDoomed
  \/ \E f \in Fetcher : FetchChecks(f) \/ FetchLists(f) \/ FetchSaves(f)

\* Once remove_admin has answered, the account has no managed key left, two
\* keys made at once included, unless a fetch was under way when the row went.
RemovedHasNoKey == removal.pc = "idle" /\ ~isAdmin /\ ~crossedFetch => adminKeys = {}

\* Removing an admin ends their access.  (A fetch past its check makes a key after it.)
RemovalEndsAccess == removal.pc = "idle" /\ ~isAdmin => adminKeys = {}

\* Every variable keeps its type, and no more keys exist than were made.
AccountsTypeOK ==
  /\ signup \in [Registrar -> [pc : {"email", "name", "save", "done"}, name : 0..MaxNames]]
  /\ accounts \subseteq 1..MaxNames
  /\ cents \in 0..MaxLedger /\ ledgerSum \in Int /\ edit \in -1..MaxLedger /\ crossedEdit \in BOOLEAN
  /\ isAdmin \in BOOLEAN /\ adminKeys \subseteq 1..keysMade /\ fetch \in [Fetcher -> {"idle", "list", "save"}]
  /\ removal.pc \in {"idle", "list", "delete"} /\ removal.doomed \subseteq 1..keysMade
=============================================================================
