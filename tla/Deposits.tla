------------------------------ MODULE Deposits ------------------------------
(***************************************************************************)
(* Crypto top-ups: invoices, transfers to the shared deposit address,      *)
(* verified wallets, reviews, and the ledger rows that credit them.        *)
(*                                                                         *)
(* Four parties write the same rows, one transaction per action: the       *)
(* watcher, which resolves a transfer rule by rule from lists it has read  *)
(* before; staff, who confirm, assign, ignore and reject; the customer who *)
(* links a wallet and so claims what it sent; and the expiry sweep.        *)
(* Balances are left out: every credit writes balance and ledger row in    *)
(* one transaction.  One currency and one address.                         *)
(***************************************************************************)
EXTENDS Integers, FiniteSets, FiniteSetsExt

CONSTANTS
  User, Invoice, Transfer, Tx, Address,
  None,
  TxOf,           \* [Transfer -> Tx]: the transaction a transfer is part of
  Sender,         \* [Transfer -> Address]
  Base,           \* what invoices are created for, in units of the token
  UnitsPerCent,
  MaxExtra,       \* how many units may be added to make an amount unique
  MaxPending,     \* MAX_PENDING_INVOICES_PER_USER
  Sendable,       \* amounts of transfers that are not an invoice's
  MaxRequests,    \* bound on the invoices reviewed and accounts deleted
  StaffAlone,     \* do staff act only while nobody else is halfway through a credit?
  Reconfirm       \* do staff confirm invoices that are confirmed already?

ASSUME DepositsAssumption ==
  /\ IsFiniteSet(User) /\ IsFiniteSet(Invoice) /\ IsFiniteSet(Transfer)
  /\ None \notin User \cup Invoice \cup Transfer \cup Tx \cup Address
  /\ Transfer \cap Tx = {}
  /\ TxOf \in [Transfer -> Tx] /\ Sender \in [Transfer -> Address]
  /\ Base \in Nat \ {0} /\ UnitsPerCent \in Nat \ {0} /\ MaxExtra \in Nat /\ MaxPending \in Nat
  /\ MaxRequests \in Nat
  /\ Sendable \subseteq Nat \ {0} /\ StaffAlone \in BOOLEAN /\ Reconfirm \in BOOLEAN

VARIABLES
  inv,            \* crypto_invoices: [status, owner, units, tx, review]
  age,            \* of an invoice: "fresh", "due" (past the grace), "old" (past LATE_PAYMENT_WINDOW)
  dep,            \* crypto_deposits.status, "unseen" before it is logged
  amount,         \* of a transfer, 0 before it is sent
  meant,          \* history: the invoice the payer read the amount from
  rows,           \* the top-up rows of the ledger: [user, cents, ref, dep]
  wallet,         \* verified_wallets: the owner of an address
  deleted,        \* the users whose account is deleted
  watcher, staff, claimer   \* what the three threads are halfway through

vars == <<inv, age, dep, amount, meant, rows, wallet, deleted, watcher, staff, claimer>>

InvoiceStatus == {"none", "pending", "expired", "confirmed", "rejected"}
DepositStatus == {"unseen", "unmatched", "credited", "ignored", "admin_ignored"}

NoInvoice == [status |-> "none", owner |-> None, units |-> 0, tx |-> None, review |-> "none"]
WatcherAt(pc, t, open, cand, who) == [pc |-> pc, t |-> t, open |-> open, cand |-> cand, who |-> who]
WatcherIdle == WatcherAt("idle", None, {}, {}, None)
StaffAt(pc, i, key, t, review) == [pc |-> pc, i |-> i, key |-> key, t |-> t, review |-> review]
StaffIdle == StaffAt("idle", None, None, None, FALSE)
ClaimerIdle == [who |-> None, todo |-> {}]

Init ==
  /\ inv = [i \in Invoice |-> NoInvoice]
  /\ age = [i \in Invoice |-> "fresh"]
  /\ dep = [t \in Transfer |-> "unseen"]
  /\ amount = [t \in Transfer |-> 0]
  /\ meant = [t \in Transfer |-> None]
  /\ rows = {}
  /\ wallet = [a \in Address |-> None]
  /\ deleted = {}
  /\ watcher = WatcherIdle /\ staff = StaffIdle /\ claimer = ClaimerIdle

(***************************************************************************)
(* Values and matches.                                                     *)
(***************************************************************************)

\* Cents for a number of units, to the nearest: int(round(...)).
Cents(n) == (2 * n + UnitsPerCent) \div (2 * UnitsPerCent)

\* deposit_value_cents: what a transfer is worth at the price when it arrived.
Value(t) == Cents(amount[t])

\* total_credits: an invoice is worth what it was created for, without the extra.
TotalCredits == Cents(Base)

ExactAmount(i, t) == inv[i].units = amount[t]

\* Within TOLERANT_MATCH (50% to 200%) of what the invoice asked for.
Fits(i, t) == inv[i].units > 0 /\ inv[i].units <= 2 * amount[t] /\ amount[t] <= 2 * inv[i].units

Pending == {i \in Invoice : inv[i].status = "pending"}

RecentlyExpired == {i \in Invoice : inv[i].status = "expired" /\ age[i] # "old"}

ReservedUnitsPending == {inv[i].units : i \in Pending}
ReservedUnits == {inv[i].units : i \in Pending \cup RecentlyExpired}

RowsOf(t) == {r \in rows : r.dep \in {t, TxOf[t]}}

(***************************************************************************)
(* The two primitives that credit money.                                   *)
(***************************************************************************)

\* confirm_and_credit_invoice: what it answers for invoice i and key.
ConfirmOutcome(i, key, allowExpired) ==
  IF inv[i].status = "rejected" \/ (inv[i].status = "expired" /\ ~allowExpired) THEN "refused"
  ELSE IF \E r \in rows : r.ref = i THEN "again"
  ELSE IF \E r \in rows : r.dep = key THEN "duplicate"
  ELSE "credited"

\* ... and what it writes: status, transaction and ledger row together.
ConfirmAndCredit(i, key, tx, cents, allowExpired) ==
  LET outcome == ConfirmOutcome(i, key, allowExpired) IN
  /\ inv' = IF outcome \in {"credited", "again"}
            THEN [inv EXCEPT ![i].status = "confirmed",
                             ![i].tx = IF outcome = "credited" \/ @ = None THEN tx ELSE @]
            ELSE inv
  /\ rows' = IF outcome = "credited"
             THEN rows \cup {[user |-> inv[i].owner, cents |-> cents, ref |-> i, dep |-> key]}
             ELSE rows

\* credit_deposit: a logged transfer straight to a user, unless it paid before
\* under its own key or under a manual confirm of its transaction.
CanCreditByKey(t) == \A r \in rows : r.dep # t
CanCredit(t) == dep[t] # "credited" /\ RowsOf(t) = {}

CreditDeposit(t, u, cents) ==
  /\ dep' = [dep EXCEPT ![t] = "credited"]
  /\ rows' = IF CanCredit(t)
             THEN rows \cup {[user |-> u, cents |-> cents, ref |-> None, dep |-> t]}
             ELSE rows

\* Under StaffAlone a staff operation and a credit of someone else's do not overlap.
StaffMayStart == staff = StaffIdle /\ (StaffAlone => watcher = WatcherIdle /\ claimer = ClaimerIdle)
OthersMayStart == StaffAlone => staff = StaffIdle

(***************************************************************************)
(* The customer.                                                           *)
(***************************************************************************)

\* What customers have asked for beyond paying.
Requests == Cardinality({i \in Invoice : inv[i].review # "none"}) + Cardinality(deleted)

\* An invoice asks for the base amount and a few units more that no open or
\* recently expired invoice asks for.  Reading the taken amounts and inserting
\* are two transactions; the unique index and the retry make them one.
ExtraUnits(e) ==
  LET free == {x \in 1 .. MaxExtra : Base + x \notin ReservedUnits} IN
  IF free # {} THEN e \in free ELSE e = MaxExtra + 1 + Cardinality(ReservedUnits)

CreateCryptoInvoice(u, i) ==
  /\ u \notin deleted
  /\ inv[i].status = "none"
  /\ Cardinality({j \in Pending : inv[j].owner = u}) < MaxPending
  /\ \E e \in 1 .. MaxExtra + 1 + Cardinality(Invoice) :
       /\ ExtraUnits(e)
       /\ Base + e \notin {inv[j].units : j \in Pending}
       /\ inv' = [inv EXCEPT ![i] = [NoInvoice EXCEPT !.status = "pending", !.owner = u, !.units = Base + e]]
  /\ UNCHANGED <<age, dep, amount, meant, rows, wallet, deleted, watcher, staff, claimer>>

\* The payer sends an invoice's amount, or some other amount.
Send(t) ==
  /\ amount[t] = 0
  /\ \/ \E i \in Pending \cup RecentlyExpired :
          /\ amount' = [amount EXCEPT ![t] = inv[i].units]
          /\ meant' = [meant EXCEPT ![t] = i]
     \/ \E n \in Sendable : amount' = [amount EXCEPT ![t] = n] /\ UNCHANGED meant
  /\ UNCHANGED <<inv, age, dep, rows, wallet, deleted, watcher, staff, claimer>>

\* tx_credited_to: has a transfer of this transaction been credited to the user?
TxCreditedTo(u, x) ==
  \/ \E t \in Transfer : TxOf[t] = x /\ dep[t] = "credited" /\ \E r \in RowsOf(t) : r.user = u
  \/ \E r \in rows : r.dep = x /\ r.user = u

\* POST .../review: one open review per transaction, on an unpaid invoice.
RequestInvoiceReview(i, x) ==
  /\ inv[i].status \in {"pending", "expired"} /\ inv[i].owner \notin deleted
  /\ inv[i].review # "none" \/ Requests < MaxRequests
  /\ ~TxCreditedTo(inv[i].owner, x)
  /\ \A j \in Invoice \ {i} :
       ~(inv[j].owner = inv[i].owner /\ inv[j].review = "open" /\ inv[j].tx = x)
  /\ inv' = [inv EXCEPT ![i].tx = x, ![i].review = "open"]
  /\ UNCHANGED <<age, dep, amount, meant, rows, wallet, deleted, watcher, staff, claimer>>

\* link_wallet: the address becomes the user's, then claim_wallet_deposits
\* works through the list of what it sent that nobody was credited for.
LinkWallet(u, a) ==
  /\ claimer = ClaimerIdle /\ OthersMayStart /\ u \notin deleted
  /\ wallet[a] \in {None, u}
  /\ wallet' = [wallet EXCEPT ![a] = u]
  /\ claimer' = [who |-> u,
                 todo |-> {t \in Transfer : Sender[t] = a /\ dep[t] \in {"unmatched", "admin_ignored"}}]
  /\ UNCHANGED <<inv, age, dep, amount, meant, rows, deleted, watcher, staff>>

ClaimWalletDeposit ==
  /\ claimer # ClaimerIdle
  /\ \/ /\ claimer.todo = {}
        /\ claimer' = ClaimerIdle
        /\ UNCHANGED <<dep, rows>>
     \/ \E t \in claimer.todo :
          /\ claimer' = [claimer EXCEPT !.todo = @ \ {t}]
          /\ IF Value(t) >= 1 THEN CreditDeposit(t, claimer.who, Value(t)) ELSE UNCHANGED <<dep, rows>>
  /\ UNCHANGED <<inv, age, amount, meant, wallet, deleted, watcher, staff>>

UnlinkWallet(a) ==
  /\ wallet[a] # None
  /\ wallet' = [wallet EXCEPT ![a] = None]
  /\ UNCHANGED <<inv, age, dep, amount, meant, rows, deleted, watcher, staff, claimer>>

\* delete_account: open invoices are rejected and wallets unlinked in one transaction.
DeleteAccount(u) ==
  /\ u \notin deleted /\ Requests < MaxRequests
  /\ deleted' = deleted \cup {u}
  /\ inv' = [i \in Invoice |-> IF inv[i].owner = u /\ inv[i].status = "pending"
                               THEN [inv[i] EXCEPT !.status = "rejected"] ELSE inv[i]]
  /\ wallet' = [a \in Address |-> IF wallet[a] = u THEN None ELSE wallet[a]]
  /\ UNCHANGED <<age, dep, amount, meant, rows, watcher, staff, claimer>>

(***************************************************************************)
(* The watcher: resolve_deposit, rule by rule.                             *)
(***************************************************************************)

\* record_deposit: log the transfer once; anything but "unmatched" was seen before.
RecordDeposit(t) ==
  /\ watcher = WatcherIdle /\ OthersMayStart
  /\ amount[t] > 0
  /\ dep[t] \in {"unseen", "unmatched"}
  /\ dep' = [dep EXCEPT ![t] = "unmatched"]
  /\ watcher' = WatcherAt("earlier", t, {}, {}, None)
  /\ UNCHANGED <<inv, age, amount, meant, rows, wallet, deleted, staff, claimer>>

\* earlier_credit: the ledger has paid for this transfer; the log catches up.
EarlierCredit ==
  /\ watcher.pc = "earlier"
  /\ IF RowsOf(watcher.t) # {}
     THEN dep' = [dep EXCEPT ![watcher.t] = "credited"] /\ watcher' = WatcherIdle
     ELSE watcher' = [watcher EXCEPT !.pc = "list"] /\ UNCHANGED dep
  /\ UNCHANGED <<inv, age, amount, meant, rows, wallet, deleted, staff, claimer>>

\* pending_invoices: the list rules 1 and 4 work from.
ListOpen ==
  /\ watcher.pc = "list"
  /\ watcher' = WatcherAt("exact", watcher.t, Pending, {i \in Pending : ExactAmount(i, watcher.t)}, None)
  /\ UNCHANGED <<inv, age, dep, amount, meant, rows, wallet, deleted, staff, claimer>>

\* _credit_invoice: credit invoice i for the transfer in hand.  When it is refused
\* (closed in the meantime) the watcher goes on with the next rule.
CreditInvoice(i, cents, allowExpired, next) ==
  LET t == watcher.t IN
  /\ ConfirmAndCredit(i, t, TxOf[t], cents, allowExpired)
  /\ watcher' = IF ConfirmOutcome(i, t, allowExpired) = "refused" THEN next ELSE [watcher EXCEPT !.pc = "mark"]

\* Rule 1: an open invoice asking for exactly this amount.
CreditExact ==
  /\ watcher.pc = "exact"
  /\ \/ \E i \in watcher.cand : CreditInvoice(i, TotalCredits, FALSE, [watcher EXCEPT !.cand = @ \ {i}])
     \/ /\ watcher.cand = {}
        /\ LET late == {i \in RecentlyExpired : ExactAmount(i, watcher.t)} IN
           watcher' = [watcher EXCEPT !.pc = "late", !.cand = IF Cardinality(late) = 1 THEN late ELSE {}]
        /\ UNCHANGED <<inv, rows>>
  /\ UNCHANGED <<age, dep, amount, meant, wallet, deleted, staff, claimer>>

\* Rule 2: the one recently expired invoice of this amount, at the value when it arrived.
CreditLate ==
  /\ watcher.pc = "late"
  /\ \/ \E i \in watcher.cand : CreditInvoice(i, Value(watcher.t), TRUE, [watcher EXCEPT !.cand = {}])
     \/ /\ watcher.cand = {}
        /\ watcher' = [watcher EXCEPT !.pc = "wallet", !.who = wallet[Sender[watcher.t]]]
        /\ UNCHANGED <<inv, rows>>
  /\ UNCHANGED <<age, dep, amount, meant, wallet, deleted, staff, claimer>>

\* The invoices of rule 4: within TOLERANT_MATCH and all of one customer.
OneCustomers(s) == Cardinality({inv[i].owner : i \in s}) = 1

\* Rule 3: the sender is a verified wallet.  Otherwise the candidates of rule 4 are read.
CreditWallet ==
  /\ watcher.pc = "wallet"
  /\ LET t == watcher.t
         openFit == {i \in watcher.open : Fits(i, t)}
         expiredFit == {i \in RecentlyExpired : Fits(i, t)}
     IN IF watcher.who # None /\ Value(t) >= 1
        THEN CreditDeposit(t, watcher.who, Value(t)) /\ watcher' = WatcherIdle
        ELSE /\ watcher' = WatcherAt("fit", t, openFit,
                               IF ~OneCustomers(openFit \cup expiredFit) THEN {}
                               ELSE IF openFit # {} THEN openFit ELSE expiredFit, watcher.who)
             /\ UNCHANGED <<dep, rows>>
  /\ UNCHANGED <<inv, age, amount, meant, wallet, deleted, staff, claimer>>

\* Rule 4 (_credit_one_customers_invoice), and rule 5 when it does not apply or its
\* invoice was closed: dust is ignored, anything else stays unmatched.
CreditFit ==
  /\ watcher.pc = "fit"
  /\ \/ /\ \E i \in watcher.cand :
             CreditInvoice(i, Value(watcher.t), watcher.open = {}, [watcher EXCEPT !.cand = {}])
        /\ UNCHANGED dep
     \/ /\ watcher.cand = {}
        /\ dep' = IF Value(watcher.t) < 1 THEN [dep EXCEPT ![watcher.t] = "ignored"] ELSE dep
        /\ watcher' = WatcherIdle
        /\ UNCHANGED <<inv, rows>>
  /\ UNCHANGED <<age, amount, meant, wallet, deleted, staff, claimer>>

\* mark_deposit, the last transaction of _credit_invoice.
MarkCredited ==
  /\ watcher.pc = "mark"
  /\ dep' = [dep EXCEPT ![watcher.t] = "credited"]
  /\ watcher' = WatcherIdle
  /\ UNCHANGED <<inv, age, amount, meant, rows, wallet, deleted, staff, claimer>>

\* The process dies, or a statement raises: the cursor stays and the transfer comes again.
WatcherFails ==
  /\ watcher # WatcherIdle
  /\ watcher' = WatcherIdle
  /\ UNCHANGED <<inv, age, dep, amount, meant, rows, wallet, deleted, staff, claimer>>

(***************************************************************************)
(* Staff.                                                                  *)
(***************************************************************************)

\* tx_credit_owner: has a transfer of this transaction been credited by any path?
TxPaid(x) ==
  \/ \E r \in rows : r.dep = x
  \/ \E t \in Transfer : /\ TxOf[t] = x /\ dep[t] # "unseen"
                        /\ (dep[t] = "credited" \/ \E r \in rows : r.dep = t)

\* confirm_crypto_deposit: the check before the credit.
StartConfirm(i, x) ==
  /\ StaffMayStart
  /\ inv[i].status # "none"
  /\ inv[i].status = "confirmed" => Reconfirm
  /\ ~(TxPaid(x) /\ inv[i].status # "confirmed")
  /\ staff' = StaffAt("credit", i, x, None, FALSE)
  /\ UNCHANGED <<inv, age, dep, amount, meant, rows, wallet, deleted, watcher, claimer>>

\* resolve_review("confirm_invoice"): the same for the reported transaction.
StartReviewConfirm(i) ==
  /\ StaffMayStart
  /\ inv[i].review = "open"
  /\ ~TxPaid(inv[i].tx)
  /\ staff' = StaffAt("credit", i, inv[i].tx, None, TRUE)
  /\ UNCHANGED <<inv, age, dep, amount, meant, rows, wallet, deleted, watcher, claimer>>

\* The credit under the "manual:" key; only a review may revive an expired invoice.
StaffCredit ==
  /\ staff.pc = "credit"
  /\ ConfirmAndCredit(staff.i, staff.key, staff.key, TotalCredits, staff.review)
  /\ staff' = IF ConfirmOutcome(staff.i, staff.key, staff.review) = "credited"
              THEN [staff EXCEPT !.pc = "mark"] ELSE StaffIdle
  /\ UNCHANGED <<age, dep, amount, meant, wallet, deleted, watcher, claimer>>

\* mark_deposits_by_tx: the logged transfers of the transaction are paid for.
StaffMark ==
  /\ staff.pc = "mark"
  /\ dep' = [t \in Transfer |-> IF TxOf[t] = staff.key /\ dep[t] # "unseen" THEN "credited" ELSE dep[t]]
  /\ staff' = IF staff.review THEN [staff EXCEPT !.pc = "close"] ELSE StaffIdle
  /\ UNCHANGED <<inv, age, amount, meant, rows, wallet, deleted, watcher, claimer>>

\* resolve_review("credit_deposit"): credit a logged transfer to the invoice's owner.
ReviewCreditDeposit(i, t) ==
  /\ StaffMayStart
  /\ inv[i].review = "open"
  /\ dep[t] # "unseen"
  /\ CreditDeposit(t, inv[i].owner, Value(t))
  /\ staff' = IF CanCredit(t) THEN StaffAt("close", i, None, t, FALSE) ELSE StaffIdle
  /\ UNCHANGED <<inv, age, amount, meant, wallet, deleted, watcher, claimer>>

\* set_review_status("resolved"), with paid_tx when a deposit was credited.
SetReviewResolved ==
  /\ staff.pc = "close"
  /\ inv' = [inv EXCEPT ![staff.i].review = "closed",
                        ![staff.i].status = IF staff.t # None THEN "confirmed" ELSE @,
                        ![staff.i].tx = IF staff.t # None /\ inv[staff.i].status # "confirmed"
                                        THEN TxOf[staff.t] ELSE @]
  /\ staff' = StaffIdle
  /\ UNCHANGED <<age, dep, amount, meant, rows, wallet, deleted, watcher, claimer>>

DismissReview(i) ==
  /\ StaffMayStart
  /\ inv[i].review = "open"
  /\ inv' = [inv EXCEPT ![i].review = "closed"]
  /\ UNCHANGED <<age, dep, amount, meant, rows, wallet, deleted, watcher, staff, claimer>>

\* reject_crypto_invoice, never on a confirmed one; it answers the review too.
RejectInvoice(i) ==
  /\ StaffMayStart
  /\ inv[i].status \in {"pending", "expired"}
  /\ inv' = [inv EXCEPT ![i].status = "rejected",
                        ![i].review = IF @ = "open" THEN "closed" ELSE @]
  /\ UNCHANGED <<age, dep, amount, meant, rows, wallet, deleted, watcher, staff, claimer>>

\* _assign_deposit: an unmatched transfer, whoever sent it, to a user.
AssignDeposit(t, u) ==
  /\ StaffMayStart
  /\ dep[t] # "unseen"
  /\ CreditDeposit(t, u, Value(t))
  /\ UNCHANGED <<inv, age, amount, meant, wallet, deleted, watcher, staff, claimer>>

IgnoreDeposit(t) ==
  /\ StaffMayStart
  /\ dep[t] = "unmatched"
  /\ dep' = [dep EXCEPT ![t] = "admin_ignored"]
  /\ UNCHANGED <<inv, age, amount, meant, rows, wallet, deleted, watcher, staff, claimer>>

(***************************************************************************)
(* Time.                                                                   *)
(***************************************************************************)

Deadline(i) ==
  /\ inv[i].status = "pending" /\ age[i] = "fresh"
  /\ age' = [age EXCEPT ![i] = "due"]
  /\ UNCHANGED <<inv, dep, amount, meant, rows, wallet, deleted, watcher, staff, claimer>>

\* LATE_PAYMENT_WINDOW is days, far longer than a payment takes to be resolved.
WindowPasses(i) ==
  /\ age[i] = "due" /\ inv[i].status = "expired"
  /\ \A t \in Transfer : meant[t] = i => dep[t] \notin {"unseen", "unmatched"} \/ RowsOf(t) # {}
  /\ watcher = WatcherIdle
  /\ age' = [age EXCEPT ![i] = "old"]
  /\ UNCHANGED <<inv, dep, amount, meant, rows, wallet, deleted, watcher, staff, claimer>>

\* expire_stale_pending_invoices, one UPDATE of everything past its grace.
ExpireStaleInvoices ==
  /\ \E i \in Invoice : age[i] # "fresh"
  /\ inv' = [i \in Invoice |-> IF age[i] # "fresh" THEN [inv[i] EXCEPT !.status = "expired"] ELSE inv[i]]
  /\ UNCHANGED <<age, dep, amount, meant, rows, wallet, deleted, watcher, staff, claimer>>
ExpireStalePendingInvoices ==
  /\ \E i \in Pending : age[i] # "fresh"
  /\ inv' = [i \in Invoice |-> IF inv[i].status = "pending" /\ age[i] # "fresh"
                               THEN [inv[i] EXCEPT !.status = "expired"] ELSE inv[i]]
  /\ UNCHANGED <<age, dep, amount, meant, rows, wallet, deleted, watcher, staff, claimer>>

Watch ==
  \/ \E t \in Transfer : RecordDeposit(t)
  \/ EarlierCredit \/ ListOpen \/ CreditExact \/ CreditLate \/ CreditWallet \/ CreditFit
  \/ MarkCredited \/ WatcherFails

Customers ==
  \/ \E u \in User, i \in Invoice : CreateCryptoInvoice(u, i)
  \/ \E t \in Transfer : Send(t)
  \/ \E i \in Invoice, x \in Tx : RequestInvoiceReview(i, x)
  \/ \E u \in User, a \in Address : LinkWallet(u, a)
  \/ ClaimWalletDeposit
  \/ \E a \in Address : UnlinkWallet(a)
  \/ \E u \in User : DeleteAccount(u)

Staff ==
  \/ \E i \in Invoice : StartReviewConfirm(i) \/ DismissReview(i) \/ RejectInvoice(i)
  \/ \E i \in Invoice, x \in Tx : StartConfirm(i, x)
  \/ \E i \in Invoice, t \in Transfer : ReviewCreditDeposit(i, t)
  \/ StaffCredit \/ StaffMark \/ SetReviewResolved
  \/ \E t \in Transfer, u \in User : AssignDeposit(t, u)
  \/ \E t \in Transfer : IgnoreDeposit(t)

Time ==
  \/ \E i \in Invoice : Deadline(i) \/ WindowPasses(i)
  \/ ExpireStalePendingInvoices

Next == Watch \/ Customers \/ Staff \/ Time

Spec == Init /\ [][Next]_vars

(***************************************************************************)
(* Properties.                                                             *)
(***************************************************************************)

\* Statuses, references and the three threads' states stay within their types.
TypeOK ==
  /\ inv \in [Invoice -> [status : InvoiceStatus, owner : User \cup {None}, units : Nat,
                          tx : Tx \cup {None}, review : {"none", "open", "closed"}]]
  /\ age \in [Invoice -> {"fresh", "due", "old"}]
  /\ dep \in [Transfer -> DepositStatus]
  /\ amount \in [Transfer -> Nat]
  /\ meant \in [Transfer -> Invoice \cup {None}]
  /\ rows \subseteq [user : User, cents : Nat, ref : Invoice \cup {None}, dep : Transfer \cup Tx]
  /\ wallet \in [Address -> User \cup {None}]
  /\ deleted \subseteq User
  /\ watcher \in [pc : {"idle", "earlier", "list", "exact", "late", "wallet", "fit", "mark"},
                   t : Transfer \cup {None}, open : SUBSET Invoice, cand : SUBSET Invoice, who : User \cup {None}]
  /\ staff \in [pc : {"idle", "credit", "mark", "close"}, i : Invoice \cup {None}, key : Tx \cup {None},
                 t : Transfer \cup {None}, review : BOOLEAN]
  /\ claimer \in [who : User \cup {None}, todo : SUBSET Transfer]

\* A transfer is credited at most once, whichever of the watcher, a wallet link, an
\* assignment and a confirm of its transaction gets to it, in whatever order, and
\* however often the watcher dies between crediting and marking.
CreditedOnce == \A t \in Transfer : Cardinality(RowsOf(t)) <= 1

\* A transfer the log calls credited has a ledger row: money that arrived is never
\* written off by a mark left over from another payment.
MarkedWasPaid == \A t \in Transfer : dep[t] = "credited" => RowsOf(t) # {}

\* reject_invoice: "so it is never credited".  No row of the ledger pays a rejected
\* invoice, and rejecting wins or loses cleanly against the watcher.
RejectedNeverCredited ==
  \A i \in Invoice : inv[i].status = "rejected" => \A r \in rows : r.ref # i

\* What a customer sends for an invoice that is open or recently expired is never
\* credited against another customer's invoice, even when the watcher's lists are stale.
PaidToPayer ==
  \A t \in Transfer : \A r \in rows :
    (r.dep = t /\ r.ref # None /\ meant[t] \in Pending \cup RecentlyExpired)
      => inv[r.ref].owner = inv[meant[t]].owner

\* reserved_invoice_units: the "exact amounts a new invoice must not reuse".  The amounts
\* that may still be matched to a payment differ, so that an amount says whose it is.
AmountsTellApart ==
  \A i, j \in Pending \cup RecentlyExpired : inv[i].units = inv[j].units => i = j

\* An invoice is confirmed only when something was paid to its owner for it.
ConfirmedWasCredited ==
  \A i \in Invoice : inv[i].status = "confirmed" =>
    \E r \in rows : r.user = inv[i].owner /\ (r.ref = i \/ (r.dep \in Transfer /\ TxOf[r.dep] = inv[i].tx))

\* The promises above, beside CreditedOnce: nothing is written off, nothing rejected is paid,
\* nobody is paid with another's money, an amount says whose it is, nothing is confirmed unpaid.
DepositSafety ==
  TypeOK /\ MarkedWasPaid /\ RejectedNeverCredited /\ PaidToPayer /\ AmountsTellApart /\ ConfirmedWasCredited

\* A confirmed invoice stays confirmed and a rejected one rejected: no expiry sweep, watcher,
\* review or wallet that read it as open takes the decision back.  (One that an account
\* deletion rejected keeps its open review, and staff may still credit it.)
DecisionIsFinal ==
  [][\A i \in Invoice :
       inv[i].status = "confirmed" \/ (inv[i].status = "rejected" /\ inv[i].owner \notin deleted)
         => inv'[i].status = inv[i].status]_vars

\* account_deletion.py: after a deletion a payment "shows up as an unmatched deposit to
\* refund rather than crediting an account nobody can use".
DeletedNeverCredited == [][\A r \in rows' \ rows : r.user \notin deleted]_vars
=============================================================================
