--------------------------- MODULE DepositsProofs ---------------------------
(***************************************************************************)
(* The crypto top-ups' safety, proved for every set of customers,          *)
(* invoices, transfers and transactions.                                   *)
(*                                                                         *)
(* SaneInv holds of every interleaving and carries what no schedule can    *)
(* break: a decision on an invoice is final, and a rejected one has no     *)
(* ledger row.  CreditInv needs staff who wait for a credit under way      *)
(* (StaffAlone) and do not confirm what is confirmed (~Reconfirm): then    *)
(* what each party has read still holds when it writes, and a transfer is  *)
(* credited once.  PayerInv needs no more open invoices than extra units   *)
(* (ExtrasSuffice): then open amounts differ, and the watcher's rules,     *)
(* tried in order on stale lists, cannot reach another customer's invoice. *)
(***************************************************************************)
EXTENDS Deposits, FiniteSetTheorems, TLAPS

Created(i) == inv[i].status # "none"

Open == Pending \cup RecentlyExpired

\* What the three threads hold is something that exists.
ThreadsOK ==
  /\ watcher.pc # "idle" => watcher.t \in Transfer /\ dep[watcher.t] # "unseen"
  /\ \A i \in watcher.open \cup watcher.cand : Created(i)
  /\ staff.pc # "idle" => staff.i \in Invoice /\ Created(staff.i)
  /\ staff.pc \in {"credit", "mark"} => staff.key \in Tx /\ staff.t = None
  /\ claimer # ClaimerIdle => claimer.who \in User
  /\ \A t \in claimer.todo : dep[t] # "unseen"

InvoicesOK ==
  \A i \in Invoice :
    /\ Created(i) => inv[i].owner \in User /\ inv[i].units > 0
    /\ ~Created(i) => inv[i].review = "none"
    /\ inv[i].review = "open" => inv[i].tx \in Tx

\* A logged transfer has an amount, and one meant for an invoice has the invoice's.
AmountsOK ==
  \A t \in Transfer :
    /\ dep[t] # "unseen" => amount[t] > 0
    /\ meant[t] # None => Created(meant[t]) /\ amount[t] = inv[meant[t]].units

\* A row pays a logged transfer, and the owner of the invoice it names, which is confirmed.
RowsOK ==
  \A r \in rows :
    /\ r.dep \in Transfer => dep[r.dep] # "unseen"
    /\ r.ref # None => inv[r.ref].status = "confirmed" /\ r.user = inv[r.ref].owner

\* Nobody is about to take back that staff rejected an invoice.
RejectionStands ==
  \A i \in Invoice :
    inv[i].status = "rejected" /\ inv[i].owner \notin deleted =>
      inv[i].review # "open" /\ ~(staff.pc = "close" /\ staff.t # None /\ staff.i = i)

SaneInv == TypeOK /\ ThreadsOK /\ InvoicesOK /\ AmountsOK /\ RowsOK /\ RejectionStands

\* Staff and the others do not overlap.
TakesTurns == staff.pc = "idle" \/ (watcher = WatcherIdle /\ claimer = ClaimerIdle)

\* CreditedOnce, without counting.
PaidOnce == \A t \in Transfer : \A r1, r2 \in RowsOf(t) : r1 = r2

\* What the watcher has read still holds: no manual confirm paid its transfer, the invoices
\* in its lists are unpaid, and what it is about to mark is paid.
WatcherSees ==
  /\ watcher.pc \in {"list", "exact", "late", "wallet", "fit"} =>
       \A r \in rows : r.dep # TxOf[watcher.t]
  /\ watcher.pc \in {"exact", "late", "wallet", "fit"} =>
       \A i \in watcher.open \cup watcher.cand : inv[i].status \notin {"none", "confirmed"}
  /\ watcher.pc = "mark" => RowsOf(watcher.t) # {}

\* So does what staff have read.
StaffSees ==
  /\ staff.pc = "credit" =>
       \A r \in rows : r.dep # staff.key /\ (r.dep \in Transfer => TxOf[r.dep] # staff.key)
  /\ staff.pc = "mark" => \E r \in rows : r.dep = staff.key
  /\ staff.pc = "close" /\ staff.t # None =>
       \E r \in rows : r.dep = staff.t /\ r.user = inv[staff.i].owner

CreditInv ==
  SaneInv /\ TakesTurns /\ PaidOnce /\ WatcherSees /\ StaffSees /\ MarkedWasPaid /\ ConfirmedWasCredited

\* No more invoices are open or recently expired than there are extra units (max_extra is at
\* least 20, and a customer has at most 5 open).
ExtrasSuffice == Cardinality(Open) <= MaxExtra

\* The rules have not passed over an open invoice the transfer in hand was meant for.
WatcherFinds ==
  LET j == meant[watcher.t] IN
  /\ watcher.pc = "exact" => /\ \A i \in watcher.cand : ExactAmount(i, watcher.t)
                             /\ j \in Pending => j \in watcher.cand
  /\ watcher.pc = "late" => (j \in Open => watcher.cand = {j})
  /\ watcher.pc \in {"wallet", "fit"} => j \notin Open

PayerInv == CreditInv /\ AmountsTellApart /\ WatcherFinds /\ PaidToPayer

-----------------------------------------------------------------------------
(* The two primitives.                                                     *)

\* A rounded amount is a number of cents.
LEMMA CentsType == \A n \in Nat : Cents(n) \in Nat
BY DepositsAssumption, SMT DEF Cents

\* What an amount is worth, and what an invoice is.
LEMMA ValueType == TypeOK => TotalCredits \in Nat /\ \A t \in Transfer : Value(t) \in Nat
<1>1. SUFFICES ASSUME TypeOK PROVE TotalCredits \in Nat /\ \A t \in Transfer : Value(t) \in Nat
      OBVIOUS
<1>2. TotalCredits \in Nat  BY CentsType, DepositsAssumption DEF TotalCredits
<1>3. ASSUME NEW t \in Transfer PROVE Value(t) \in Nat
      <2>1. amount[t] \in Nat  BY <1>1 DEF TypeOK
      <2> QED  BY <2>1, CentsType DEF Value
<1> QED  BY <1>2, <1>3

InvoiceType == [status : InvoiceStatus, owner : User \cup {None}, units : Nat,
                tx : Tx \cup {None}, review : {"none", "open", "closed"}]

\* confirm_and_credit_invoice refuses and writes nothing, confirms what was credited before,
\* or confirms and writes the one row of its key.
Refused(i, key) == inv' = inv /\ rows' = rows

Confirms(i, tx) ==
  /\ inv' = [inv EXCEPT ![i] = inv'[i]]
  /\ inv'[i] \in InvoiceType
  /\ inv[i].status # "rejected"
  /\ inv'[i].status = "confirmed" /\ inv'[i].tx \in {tx, inv[i].tx} \ {None}
  /\ inv'[i].owner = inv[i].owner /\ inv'[i].units = inv[i].units /\ inv'[i].review = inv[i].review

CreditedBefore(i, tx) ==
  Confirms(i, tx) /\ rows' = rows /\ \E r \in rows : r.ref = i

CreditsNow(i, key, tx, cents) ==
  /\ Confirms(i, tx)
  /\ \A r \in rows : r.ref # i /\ r.dep # key
  /\ rows' = rows \cup {[user |-> inv[i].owner, cents |-> cents, ref |-> i, dep |-> key]}

\* What confirm_and_credit_invoice does, by what it answers.
LEMMA ConfirmEffect ==
  ASSUME TypeOK, NEW i \in Invoice, NEW key, NEW tx \in Tx, NEW cents, NEW allow \in BOOLEAN,
         ConfirmAndCredit(i, key, tx, cents, allow)
  PROVE  /\ \/ ConfirmOutcome(i, key, allow) \in {"refused", "duplicate"} /\ Refused(i, key)
            \/ ConfirmOutcome(i, key, allow) = "again" /\ CreditedBefore(i, tx)
            \/ ConfirmOutcome(i, key, allow) = "credited" /\ CreditsNow(i, key, tx, cents)
         /\ ConfirmOutcome(i, key, allow) = "refused" =>
              inv[i].status = "rejected" \/ (inv[i].status = "expired" /\ ~allow)
         /\ ConfirmOutcome(i, key, allow) # "refused" => (inv[i].status = "expired" => allow)
         /\ ConfirmOutcome(i, key, allow) = "duplicate" => \E r \in rows : r.dep = key
<1> DEFINE o == ConfirmOutcome(i, key, allow)
<1>1. o \in {"refused", "again", "duplicate", "credited"}  BY DEF ConfirmOutcome
<1>2. o = "refused" => inv[i].status = "rejected" \/ (inv[i].status = "expired" /\ ~allow)
      <2>1. ASSUME ~(inv[i].status = "rejected" \/ (inv[i].status = "expired" /\ ~allow))
            PROVE o # "refused"
            <3>1. CASE allow = TRUE
                  BY <2>1, <3>1 DEF ConfirmOutcome, o
            <3>2. CASE allow = FALSE
                  BY <2>1, <3>2 DEF ConfirmOutcome, o
            <3> QED  BY <3>1, <3>2
      <2> QED  BY <2>1
<1>3. o = "again" => inv[i].status # "rejected" /\ \E r \in rows : r.ref = i
      BY DEF ConfirmOutcome
<1>4. o = "credited" => inv[i].status # "rejected" /\ \A r \in rows : r.ref # i /\ r.dep # key
      BY DEF ConfirmOutcome
<1>5. o = "duplicate" => \E r \in rows : r.dep = key  BY DEF ConfirmOutcome
<1>6. o # "refused" => (inv[i].status = "expired" => allow)  BY DEF ConfirmOutcome
<1>7. inv' = IF o \in {"credited", "again"}
             THEN [inv EXCEPT ![i] = [inv[i] EXCEPT !.status = "confirmed",
                     !.tx = IF o = "credited" \/ inv[i].tx = None THEN tx ELSE inv[i].tx]]
             ELSE inv
      BY DEF ConfirmAndCredit, TypeOK
<1>8. rows' = IF o = "credited"
              THEN rows \cup {[user |-> inv[i].owner, cents |-> cents, ref |-> i, dep |-> key]}
              ELSE rows
      BY DEF ConfirmAndCredit
<1> HIDE DEF o
<1>9. inv[i] \in InvoiceType /\ inv \in [Invoice -> InvoiceType]
      BY DEF TypeOK, InvoiceType
<1>10. ASSUME o \in {"credited", "again"}, inv[i].status # "rejected" PROVE Confirms(i, tx)
      <2> DEFINE rec == [inv[i] EXCEPT !.status = "confirmed",
                     !.tx = IF o = "credited" \/ inv[i].tx = None THEN tx ELSE inv[i].tx]
      <2>1. /\ rec.status = "confirmed" /\ rec.tx \in {tx, inv[i].tx} \ {None}
            /\ rec.owner = inv[i].owner /\ rec.units = inv[i].units /\ rec.review = inv[i].review
            /\ rec \in InvoiceType
            BY <1>9, DepositsAssumption DEF InvoiceType, InvoiceStatus
      <2>2. inv' = [inv EXCEPT ![i] = rec]  BY <1>7, <1>10
      <2> HIDE DEF rec
      <2>3. inv'[i] = rec  BY <2>2, <1>9
      <2> QED  BY <2>1, <2>2, <2>3, <1>10 DEF Confirms
<1>11. o \in {"refused", "duplicate"} => Refused(i, key)  BY <1>7, <1>8 DEF Refused
<1>12. o = "again" => CreditedBefore(i, tx)  BY <1>8, <1>10, <1>3 DEF CreditedBefore
<1>13. o = "credited" => CreditsNow(i, key, tx, cents)
      BY <1>8, <1>10, <1>4 DEF CreditsNow
<1>14. \/ o \in {"refused", "duplicate"} /\ Refused(i, key)
       \/ o = "again" /\ CreditedBefore(i, tx)
       \/ o = "credited" /\ CreditsNow(i, key, tx, cents)
       BY <1>1, <1>11, <1>12, <1>13
<1> QED  BY <1>14, <1>2, <1>5, <1>6, Zenon DEF o

\* credit_deposit marks the transfer, and writes a row unless the transfer was paid for.
LEMMA CreditEffect ==
  ASSUME TypeOK, NEW t \in Transfer, NEW u, NEW cents, CreditDeposit(t, u, cents)
  PROVE  /\ dep' = [dep EXCEPT ![t] = "credited"]
         /\ dep' \in [Transfer -> DepositStatus]
         /\ dep'[t] = "credited" /\ \A s \in Transfer \ {t} : dep'[s] = dep[s]
         /\ \/ ~CanCredit(t) /\ rows' = rows
            \/ /\ CanCredit(t)
               /\ rows' = rows \cup {[user |-> u, cents |-> cents, ref |-> None, dep |-> t]}
BY Zenon DEF CreditDeposit, TypeOK, DepositStatus

-----------------------------------------------------------------------------
(* Types.                                                                  *)

RowType == [user : User, cents : Nat, ref : Invoice \cup {None}, dep : Transfer \cup Tx]

WatcherType == [pc : {"idle", "earlier", "list", "exact", "late", "wallet", "fit", "mark"},
                t : Transfer \cup {None}, open : SUBSET Invoice, cand : SUBSET Invoice,
                who : User \cup {None}]

StaffType == [pc : {"idle", "credit", "mark", "close"}, i : Invoice \cup {None},
              key : Tx \cup {None}, t : Transfer \cup {None}, review : BOOLEAN]

ClaimerType == [who : User \cup {None}, todo : SUBSET Transfer]

WatcherPC == {"idle", "earlier", "list", "exact", "late", "wallet", "fit", "mark"}
StaffPC == {"idle", "credit", "mark", "close"}

\* The fields of a state of the watcher, and of staff.
LEMMA WatcherFields ==
  \A p, t, o, c, u : /\ WatcherAt(p, t, o, c, u).pc = p /\ WatcherAt(p, t, o, c, u).t = t
                     /\ WatcherAt(p, t, o, c, u).open = o /\ WatcherAt(p, t, o, c, u).cand = c
                     /\ WatcherAt(p, t, o, c, u).who = u
BY DEF WatcherAt

\* The fields of a state of staff.
LEMMA StaffFields ==
  \A p, i, k, t, r :
    /\ StaffAt(p, i, k, t, r).pc = p /\ StaffAt(p, i, k, t, r).i = i
    /\ StaffAt(p, i, k, t, r).key = k /\ StaffAt(p, i, k, t, r).t = t
    /\ StaffAt(p, i, k, t, r).review = r
BY DEF StaffAt

\* ... and of idle staff (whose review is a Boolean).
LEMMA StaffAreIdle == StaffIdle.pc = "idle"
BY Zenon DEF StaffIdle, StaffAt

\* The watcher's state with one field replaced.
LEMMA WatcherUpdate ==
  ASSUME NEW w \in WatcherType
  PROVE  /\ \A p \in WatcherPC : [w EXCEPT !.pc = p] = WatcherAt(p, w.t, w.open, w.cand, w.who)
         /\ \A c \in SUBSET Invoice : [w EXCEPT !.cand = c] = WatcherAt(w.pc, w.t, w.open, c, w.who)
         /\ \A u \in User \cup {None} : [w EXCEPT !.who = u] = WatcherAt(w.pc, w.t, w.open, w.cand, u)
<1>1. ASSUME NEW p \in WatcherPC PROVE [w EXCEPT !.pc = p] = WatcherAt(p, w.t, w.open, w.cand, w.who)
      BY DEF WatcherType, WatcherPC, WatcherAt
<1>2. ASSUME NEW c \in SUBSET Invoice PROVE [w EXCEPT !.cand = c] = WatcherAt(w.pc, w.t, w.open, c, w.who)
      BY DEF WatcherType, WatcherAt
<1>3. ASSUME NEW u \in User \cup {None} PROVE [w EXCEPT !.who = u] = WatcherAt(w.pc, w.t, w.open, w.cand, u)
      BY DEF WatcherType, WatcherAt
<1> QED  BY <1>1, <1>2, <1>3

\* A state of the watcher has its type when its fields have theirs, and the other way round.
LEMMA WatcherTypes ==
  /\ \A p \in WatcherPC, t \in Transfer \cup {None}, o \in SUBSET Invoice, c \in SUBSET Invoice,
        u \in User \cup {None} : WatcherAt(p, t, o, c, u) \in WatcherType
  /\ \A w \in WatcherType : /\ w.pc \in WatcherPC /\ w.t \in Transfer \cup {None}
                            /\ w.open \in SUBSET Invoice /\ w.cand \in SUBSET Invoice
                            /\ w.who \in User \cup {None}
<1>1. ASSUME NEW p \in WatcherPC, NEW t \in Transfer \cup {None}, NEW o \in SUBSET Invoice,
             NEW c \in SUBSET Invoice, NEW u \in User \cup {None}
      PROVE  WatcherAt(p, t, o, c, u) \in WatcherType
      BY DEF WatcherAt, WatcherType, WatcherPC
<1>2. ASSUME NEW w \in WatcherType
      PROVE  /\ w.pc \in WatcherPC /\ w.t \in Transfer \cup {None}
             /\ w.open \in SUBSET Invoice /\ w.cand \in SUBSET Invoice
             /\ w.who \in User \cup {None}
      BY DEF WatcherType, WatcherPC
<1> QED  BY <1>1, <1>2

\* ... or several.
LEMMA WatcherUpdates ==
  ASSUME NEW w \in WatcherType, NEW p \in WatcherPC
  PROVE  /\ \A c \in SUBSET Invoice : [w EXCEPT !.pc = p, !.cand = c] = WatcherAt(p, w.t, w.open, c, w.who)
         /\ \A u \in User \cup {None} : [w EXCEPT !.pc = p, !.who = u] = WatcherAt(p, w.t, w.open, w.cand, u)
<1> DEFINE v == [w EXCEPT !.pc = p]
<1>1. v = WatcherAt(p, w.t, w.open, w.cand, w.who)  BY WatcherUpdate
<1>2. WatcherAt(p, w.t, w.open, w.cand, w.who) \in WatcherType  BY WatcherTypes
<1>3. /\ \A c : [w EXCEPT !.pc = p, !.cand = c] = [v EXCEPT !.cand = c]
      /\ \A u : [w EXCEPT !.pc = p, !.who = u] = [v EXCEPT !.who = u]
      BY Zenon
<1> HIDE DEF v
<1>4. /\ v \in WatcherType /\ v.pc = p /\ v.t = w.t /\ v.open = w.open /\ v.cand = w.cand
      /\ v.who = w.who
      BY <1>1, <1>2, WatcherFields
<1>5. ASSUME NEW c \in SUBSET Invoice PROVE [v EXCEPT !.cand = c] = WatcherAt(p, w.t, w.open, c, w.who)
      <2> DEFINE x == [v EXCEPT !.cand = c]
      <2>1. x = WatcherAt(v.pc, v.t, v.open, c, v.who)  BY <1>4, WatcherUpdate
      <2> HIDE DEF x
      <2>2. x = WatcherAt(p, w.t, w.open, c, w.who)  BY <1>4, <2>1
      <2> QED  BY <2>2 DEF x
<1>6. ASSUME NEW u \in User \cup {None} PROVE [v EXCEPT !.who = u] = WatcherAt(p, w.t, w.open, w.cand, u)
      <2> DEFINE x == [v EXCEPT !.who = u]
      <2>1. x = WatcherAt(v.pc, v.t, v.open, v.cand, u)  BY <1>4, WatcherUpdate
      <2> HIDE DEF x
      <2>2. x = WatcherAt(p, w.t, w.open, w.cand, u)  BY <1>4, <2>1
      <2> QED  BY <2>2 DEF x
<1>7. \A c \in SUBSET Invoice : [w EXCEPT !.pc = p, !.cand = c] = WatcherAt(p, w.t, w.open, c, w.who)
       BY <1>3, <1>5, Zenon
<1>8. \A u \in User \cup {None} : [w EXCEPT !.pc = p, !.who = u] = WatcherAt(p, w.t, w.open, w.cand, u)
       BY <1>3, <1>6, Zenon
<1> QED  BY <1>7, <1>8, Zenon

\* The same for staff.
LEMMA StaffUpdates ==
  /\ \A w \in StaffType, p \in StaffPC :
       [w EXCEPT !.pc = p] = StaffAt(p, w.i, w.key, w.t, w.review)
  /\ \A p \in StaffPC, i \in Invoice \cup {None}, k \in Tx \cup {None},
        t \in Transfer \cup {None}, r \in BOOLEAN : StaffAt(p, i, k, t, r) \in StaffType
<1>1. ASSUME NEW w \in StaffType, NEW p \in StaffPC
      PROVE  [w EXCEPT !.pc = p] = StaffAt(p, w.i, w.key, w.t, w.review)
      BY DEF StaffType, StaffPC, StaffAt
<1>2. ASSUME NEW p \in StaffPC, NEW i \in Invoice \cup {None}, NEW k \in Tx \cup {None},
             NEW t \in Transfer \cup {None}, NEW r \in BOOLEAN
      PROVE  StaffAt(p, i, k, t, r) \in StaffType
      BY DEF StaffType, StaffPC, StaffAt
<1> QED  BY <1>1, <1>2

\* TypeOK, by the names of the records' types.
LEMMA Types ==
  TypeOK <=> /\ inv \in [Invoice -> InvoiceType]
             /\ age \in [Invoice -> {"fresh", "due", "old"}]
             /\ dep \in [Transfer -> DepositStatus]
             /\ amount \in [Transfer -> Nat]
             /\ meant \in [Transfer -> Invoice \cup {None}]
             /\ rows \subseteq RowType
             /\ wallet \in [Address -> User \cup {None}]
             /\ deleted \subseteq User
             /\ watcher \in WatcherType /\ staff \in StaffType /\ claimer \in ClaimerType
BY Zenon DEF TypeOK, InvoiceType, RowType, WatcherType, StaffType, ClaimerType

\* The same of the next state.
LEMMA TypesNext ==
  TypeOK' <=> /\ inv' \in [Invoice -> InvoiceType]
              /\ age' \in [Invoice -> {"fresh", "due", "old"}]
              /\ dep' \in [Transfer -> DepositStatus]
              /\ amount' \in [Transfer -> Nat]
              /\ meant' \in [Transfer -> Invoice \cup {None}]
              /\ rows' \subseteq RowType
              /\ wallet' \in [Address -> User \cup {None}]
              /\ deleted' \subseteq User
              /\ watcher' \in WatcherType /\ staff' \in StaffType /\ claimer' \in ClaimerType
BY Zenon DEF TypeOK, InvoiceType, RowType, WatcherType, StaffType, ClaimerType

\* The rules on one open invoice: what the watcher's state becomes, and the invoice and the row.
LEMMA CreditInvoiceEffect ==
  ASSUME TypeOK, watcher.t \in Transfer, NEW i \in Invoice, Created(i), InvoicesOK,
         NEW cents \in Nat, NEW allow \in BOOLEAN, NEW next, CreditInvoice(i, cents, allow, next)
  PROVE  /\ \/ /\ watcher' = next /\ Refused(i, watcher.t)
               /\ inv[i].status = "rejected" \/ (inv[i].status = "expired" /\ ~allow)
            \/ /\ watcher' = [watcher EXCEPT !.pc = "mark"]
               /\ inv[i].status = "expired" => allow
               /\ \/ Refused(i, watcher.t) /\ \E r \in rows : r.dep = watcher.t
                  \/ CreditedBefore(i, TxOf[watcher.t])
                  \/ CreditsNow(i, watcher.t, TxOf[watcher.t], cents)
         /\ inv' \in [Invoice -> InvoiceType]
         /\ rows' \subseteq RowType
<1> DEFINE t == watcher.t
           o == ConfirmOutcome(i, t, allow)
<1>1. TxOf[t] \in Tx  BY DepositsAssumption
<1>2. /\ ConfirmAndCredit(i, t, TxOf[t], cents, allow)
      /\ watcher' = IF o = "refused" THEN next ELSE [watcher EXCEPT !.pc = "mark"]
      BY Zenon DEF CreditInvoice
<1>3. /\ \/ o \in {"refused", "duplicate"} /\ Refused(i, t)
         \/ o = "again" /\ CreditedBefore(i, TxOf[t])
         \/ o = "credited" /\ CreditsNow(i, t, TxOf[t], cents)
      /\ o = "refused" => inv[i].status = "rejected" \/ (inv[i].status = "expired" /\ ~allow)
      /\ o # "refused" => (inv[i].status = "expired" => allow)
      /\ o = "duplicate" => \E r \in rows : r.dep = t
      BY <1>1, <1>2, ConfirmEffect, Zenon
<1>4. inv \in [Invoice -> InvoiceType] /\ rows \subseteq RowType  BY Types
<1>5. [user |-> inv[i].owner, cents |-> cents, ref |-> i, dep |-> t] \in RowType
      BY DEF RowType, InvoicesOK
<1> HIDE DEF o, t
<1>6. inv' \in [Invoice -> InvoiceType]
      BY <1>3, <1>4 DEF Refused, CreditedBefore, CreditsNow, Confirms
<1>7. rows' \subseteq RowType
      BY <1>3, <1>4, <1>5 DEF Refused, CreditedBefore, CreditsNow
<1>8. CASE o = "refused"
      BY <1>8, <1>2, <1>3, <1>6, <1>7 DEF t
<1>9. CASE o # "refused"
      BY <1>9, <1>2, <1>3, <1>6, <1>7 DEF t
<1> QED  BY <1>8, <1>9

-----------------------------------------------------------------------------
(* What a step may do to invoices, log and ledger.                         *)

\* The steps that write no invoice.
KeepsInvoices ==
  \/ \E t \in Transfer : RecordDeposit(t) \/ Send(t) \/ IgnoreDeposit(t)
  \/ EarlierCredit \/ ListOpen \/ CreditWallet \/ MarkCredited \/ WatcherFails
  \/ \E u \in User, a \in Address : LinkWallet(u, a)
  \/ ClaimWalletDeposit
  \/ \E a \in Address : UnlinkWallet(a)
  \/ \E i \in Invoice : StartReviewConfirm(i) \/ Deadline(i) \/ WindowPasses(i)
  \/ \E i \in Invoice, x \in Tx : StartConfirm(i, x)
  \/ \E i \in Invoice, t \in Transfer : ReviewCreditDeposit(i, t)
  \/ StaffMark
  \/ \E t \in Transfer, u \in User : AssignDeposit(t, u)

\* The steps that may write one.
WritesInvoices ==
  \/ CreditExact \/ CreditLate \/ CreditFit \/ StaffCredit \/ SetReviewResolved
  \/ ExpireStalePendingInvoices
  \/ \E u \in User, i \in Invoice : CreateCryptoInvoice(u, i)
  \/ \E i \in Invoice, x \in Tx : RequestInvoiceReview(i, x)
  \/ \E u \in User : DeleteAccount(u)
  \/ \E i \in Invoice : DismissReview(i) \/ RejectInvoice(i)

\* Every step is one of the two kinds.
LEMMA Steps == Next <=> KeepsInvoices \/ WritesInvoices
BY Zenon DEF Next, Watch, Customers, Staff, Time, KeepsInvoices, WritesInvoices

\* What becomes of invoice i.
Fate(i) ==
  LET old == inv[i]
      new == inv'[i]
  IN
  /\ old.status # "none" => /\ new.status # "none"
                            /\ new.owner = old.owner /\ new.units = old.units
  /\ new.status = "pending" => \/ old.status = "pending"
                               \/ /\ old.status = "none" /\ new.review = "none"
                                  /\ \E u \in User : CreateCryptoInvoice(u, i)
  /\ new.status = "expired" => old.status \in {"pending", "expired"}
  /\ old.status = "confirmed" => new.status = "confirmed"
  /\ new.status = "confirmed" =>
       \/ old.status = "confirmed" /\ new.tx = old.tx
       \/ \E r \in rows' : r.ref = i
       \/ staff.pc = "close" /\ staff.t # None /\ staff.i = i /\ new.tx = TxOf[staff.t]
  /\ old.status = "rejected" =>
       new.status = "rejected" \/ (staff.pc = "close" /\ staff.t # None /\ staff.i = i)
  /\ new.status = "rejected" =>
       \/ old.status = "rejected"
       \/ old.status # "none" /\ old.owner \in deleted'
       \/ new.review # "open" /\ staff = StaffIdle /\ staff' = staff
  /\ new.review = "open" => old.review = "open" \/ new.status \in {"pending", "expired"}
  /\ new.status # "none" => new.owner \in User /\ new.units > 0
  /\ new.status = "none" => new = old
  /\ new.review = "open" => new.tx \in Tx

\* One invoice whose record stays.
LEMMA FateOfKept ==
  ASSUME InvoicesOK, RowsOK, rows \subseteq rows', NEW i \in Invoice, inv'[i] = inv[i]
  PROVE  Fate(i)
BY Zenon DEF Fate, InvoicesOK, Created

\* The candidate the watcher or staff confirm, or try to.
LEMMA FateOfConfirmed ==
  ASSUME TypeOK, InvoicesOK, RowsOK, NEW i \in Invoice, Created(i), NEW key, NEW tx \in Tx, NEW cents,
         Refused(i, key) \/ CreditedBefore(i, tx) \/ CreditsNow(i, key, tx, cents)
  PROVE  (\A j \in Invoice : Fate(j)) /\ rows \subseteq rows'
<1>1. rows \subseteq rows'  BY DEF Refused, CreditedBefore, CreditsNow
<1>2. \A j \in Invoice \ {i} : inv'[j] = inv[j]
      BY DEF TypeOK, Refused, CreditedBefore, CreditsNow, Confirms
<1>3. ASSUME Refused(i, key) PROVE Fate(i)
      BY <1>1, <1>3, FateOfKept DEF Refused
<1>4. ASSUME Confirms(i, tx), \E r \in rows' : r.ref = i PROVE Fate(i)
      BY <1>4 DEF Confirms, Fate, InvoicesOK, Created, InvoiceType
<1>5. ASSUME CreditedBefore(i, tx) PROVE Fate(i)
      BY <1>4, <1>5 DEF CreditedBefore
<1>6. ASSUME CreditsNow(i, key, tx, cents) PROVE Fate(i)
      <2> DEFINE r == [user |-> inv[i].owner, cents |-> cents, ref |-> i, dep |-> key]
      <2>1. r.ref = i /\ r \in rows'  BY <1>6 DEF CreditsNow
      <2>2. Confirms(i, tx)  BY <1>6 DEF CreditsNow
      <2> QED  BY <1>4, <2>1, <2>2
<1>7. Fate(i)  BY <1>3, <1>5, <1>6
<1> QED  BY <1>1, <1>2, <1>7, FateOfKept

\* Rows are only ever added.
LEMMA RowsOnlyGrow ==
  ASSUME SaneInv, KeepsInvoices
  PROVE  inv' = inv /\ rows \subseteq rows'
<1>1. TypeOK  BY DEF SaneInv
<1>2. \A t \in Transfer : \A u, c : CreditDeposit(t, u, c) => rows \subseteq rows'
      BY DEF CreditDeposit
<1>3. CASE \E t \in Transfer : RecordDeposit(t) \/ Send(t) \/ IgnoreDeposit(t)
      BY <1>3 DEF RecordDeposit, Send, IgnoreDeposit
<1>4. CASE EarlierCredit \/ ListOpen \/ MarkCredited \/ WatcherFails
      BY <1>4 DEF EarlierCredit, ListOpen, MarkCredited, WatcherFails
<1>5. CASE CreditWallet
      <2>1. watcher.t \in Transfer  BY <1>5 DEF CreditWallet, SaneInv, ThreadsOK
      <2>2. inv' = inv  BY <1>5 DEF CreditWallet
      <2>3. rows' = rows \/ CreditDeposit(watcher.t, watcher.who, Value(watcher.t))
            BY <1>5 DEF CreditWallet
      <2> QED  BY <1>2, <2>1, <2>2, <2>3
<1>6. CASE ClaimWalletDeposit
      <2>1. inv' = inv  BY <1>6 DEF ClaimWalletDeposit
      <2>2. rows' = rows \/ \E t \in claimer.todo : CreditDeposit(t, claimer.who, Value(t))
            BY <1>6 DEF ClaimWalletDeposit
      <2>3. claimer.todo \subseteq Transfer  BY <1>1, Types DEF ClaimerType
      <2> QED  BY <1>2, <2>1, <2>2, <2>3
<1>7. CASE (\E u \in User, a \in Address : LinkWallet(u, a)) \/ (\E a \in Address : UnlinkWallet(a))
      BY <1>7 DEF LinkWallet, UnlinkWallet
<1>8. CASE \E i \in Invoice : StartReviewConfirm(i) \/ Deadline(i) \/ WindowPasses(i)
      BY <1>8 DEF StartReviewConfirm, Deadline, WindowPasses
<1>9. CASE (\E i \in Invoice, x \in Tx : StartConfirm(i, x)) \/ StaffMark
      BY <1>9 DEF StartConfirm, StaffMark
<1>10. CASE \E i \in Invoice, t \in Transfer : ReviewCreditDeposit(i, t)
      BY <1>2, <1>10 DEF ReviewCreditDeposit
<1>11. CASE \E t \in Transfer, u \in User : AssignDeposit(t, u)
      BY <1>2, <1>11 DEF AssignDeposit
<1> QED  BY <1>3, <1>4, <1>5, <1>6, <1>7, <1>8, <1>9, <1>10, <1>11 DEF KeepsInvoices

\* The rules on the watcher's candidates, as one step of each.
LEMMA RuleSteps ==
  ASSUME SaneInv, CreditExact \/ CreditLate \/ CreditFit
  PROVE  \/ inv' = inv /\ rows' = rows /\ watcher.cand = {}
         \/ \E i \in watcher.cand, cents \in Nat, allow \in BOOLEAN :
              /\ CreditInvoice(i, cents, allow, [watcher EXCEPT !.cand =
                   IF watcher.pc = "exact" THEN watcher.cand \ {i} ELSE {}])
              /\ watcher.pc = "exact" => ~allow
              /\ watcher.pc = "late" => allow
              /\ watcher.pc = "fit" => allow = (watcher.open = {})
              /\ dep' = dep
<1>1. TypeOK /\ (watcher.pc # "idle" => watcher.t \in Transfer)  BY DEF SaneInv, ThreadsOK
<1>2. TotalCredits \in Nat /\ (watcher.t \in Transfer => Value(watcher.t) \in Nat)
      BY <1>1, ValueType
<1>3. CASE CreditExact
      <2>1. watcher.pc = "exact"  BY <1>3 DEF CreditExact
      <2>2. CASE \E i \in watcher.cand : CreditInvoice(i, TotalCredits, FALSE, [watcher EXCEPT !.cand = @ \ {i}])
            /\ UNCHANGED dep
            BY <1>2, <2>1, <2>2, Zenon
      <2> QED  BY <1>3, <2>2, Zenon DEF CreditExact
<1>4. CASE CreditLate
      <2>1. watcher.pc = "late" /\ watcher.pc # "exact"  BY <1>4 DEF CreditLate
      <2>2. Value(watcher.t) \in Nat  BY <1>1, <1>2, <2>1
      <2>3. CASE \E i \in watcher.cand : CreditInvoice(i, Value(watcher.t), TRUE, [watcher EXCEPT !.cand = {}])
            /\ UNCHANGED dep
            BY <2>2, <2>1, <2>3, Zenon
      <2> QED  BY <1>4, <2>3, Zenon DEF CreditLate
<1>5. CASE CreditFit
      <2>1. watcher.pc = "fit" /\ watcher.pc # "exact" /\ watcher.pc # "late"  BY <1>5 DEF CreditFit
      <2>2. Value(watcher.t) \in Nat  BY <1>1, <1>2, <2>1
      <2>3. CASE \E i \in watcher.cand : CreditInvoice(i, Value(watcher.t), watcher.open = {}, [watcher EXCEPT !.cand = {}])
            /\ UNCHANGED dep
            <3>1. (watcher.open = {}) \in BOOLEAN  OBVIOUS
            <3> QED  BY <2>2, <2>1, <2>3, <3>1, Zenon
      <2> QED  BY <1>5, <2>3, Zenon DEF CreditFit
<1> QED  BY <1>3, <1>4, <1>5

\* Every step leaves every invoice to its fate, and every row where it is.
LEMMA Fates ==
  ASSUME SaneInv, Next
  PROVE  (\A i \in Invoice : Fate(i)) /\ rows \subseteq rows'
<1>1. /\ TypeOK /\ ThreadsOK /\ InvoicesOK /\ RowsOK
      /\ inv \in [Invoice -> InvoiceType]
      BY Types DEF SaneInv
<1>2. CASE KeepsInvoices
      BY <1>1, <1>2, RowsOnlyGrow, FateOfKept
<1>3. CASE CreditExact \/ CreditLate \/ CreditFit
      <2>1. CASE inv' = inv /\ rows' = rows
            BY <1>1, <2>1, FateOfKept
      <2>2. CASE ~(inv' = inv /\ rows' = rows)
            <3>1. PICK i \in watcher.cand, cents \in Nat, allow \in BOOLEAN :
                    CreditInvoice(i, cents, allow, [watcher EXCEPT !.cand =
                      IF watcher.pc = "exact" THEN watcher.cand \ {i} ELSE {}])
                  BY <1>3, <2>2, RuleSteps
            <3>2. i \in Invoice /\ Created(i)
                  BY <1>1, Types DEF ThreadsOK, WatcherType
            <3>3. watcher.pc # "idle"
                  BY <1>3 DEF CreditExact, CreditLate, CreditFit
            <3>4. watcher.t \in Transfer /\ TxOf[watcher.t] \in Tx
                  BY <1>1, <3>3, DepositsAssumption DEF ThreadsOK
            <3>5. \/ Refused(i, watcher.t)
                  \/ CreditedBefore(i, TxOf[watcher.t])
                  \/ CreditsNow(i, watcher.t, TxOf[watcher.t], cents)
                  BY <1>1, <3>1, <3>2, <3>4, CreditInvoiceEffect
            <3> QED  BY <1>1, <3>2, <3>4, <3>5, FateOfConfirmed
      <2> QED  BY <2>1, <2>2
<1>4. CASE StaffCredit
      <2>1. staff.pc = "credit"  BY <1>4 DEF StaffCredit
      <2>2. /\ staff.i \in Invoice /\ Created(staff.i) /\ staff.key \in Tx /\ staff.review \in BOOLEAN
            BY <1>1, <2>1, Types DEF ThreadsOK, StaffType
      <2>3. ConfirmAndCredit(staff.i, staff.key, staff.key, TotalCredits, staff.review)
            BY <1>4 DEF StaffCredit
      <2>4. \/ Refused(staff.i, staff.key) \/ CreditedBefore(staff.i, staff.key)
            \/ CreditsNow(staff.i, staff.key, staff.key, TotalCredits)
            BY <1>1, <2>2, <2>3, ConfirmEffect
      <2> QED  BY <1>1, <2>2, <2>4, FateOfConfirmed
<1>5. CASE SetReviewResolved
      <2>1. staff.pc = "close" /\ rows' = rows  BY <1>5 DEF SetReviewResolved
      <2>2. staff.i \in Invoice /\ Created(staff.i)  BY <1>1, <2>1 DEF ThreadsOK
      <2>3. \A j \in Invoice \ {staff.i} : inv'[j] = inv[j]
            BY <1>1, <1>5, Zenon DEF SetReviewResolved
      <2>4. staff.t # None => TxOf[staff.t] \in Tx
            BY <1>1, Types, DepositsAssumption DEF StaffType
      <2> DEFINE new == [inv[staff.i] EXCEPT !.review = "closed",
                          !.status = IF staff.t # None THEN "confirmed" ELSE inv[staff.i].status,
                          !.tx = IF staff.t # None /\ inv[staff.i].status # "confirmed"
                                 THEN TxOf[staff.t] ELSE inv[staff.i].tx]
      <2>5. inv[staff.i] \in InvoiceType  BY <1>1, <2>2
      <2>6. /\ new.owner = inv[staff.i].owner /\ new.units = inv[staff.i].units /\ new.review = "closed"
            /\ new.status = IF staff.t # None THEN "confirmed" ELSE inv[staff.i].status
            /\ new.tx = IF staff.t # None /\ inv[staff.i].status # "confirmed"
                        THEN TxOf[staff.t] ELSE inv[staff.i].tx
            BY <2>5 DEF InvoiceType
      <2>7. inv'[staff.i] = new  BY <1>1, <1>5, <2>2 DEF SetReviewResolved
      <2> HIDE DEF new
      <2>8. Fate(staff.i)
            BY <1>1, <2>1, <2>2, <2>6, <2>7 DEF Fate, InvoicesOK, Created
      <2> QED  BY <1>1, <2>1, <2>3, <2>8, FateOfKept
<1>6. CASE ExpireStalePendingInvoices
      <2>1. rows' = rows  BY <1>6 DEF ExpireStalePendingInvoices
      <2>2. ASSUME NEW i \in Invoice PROVE Fate(i)
            <3>1. CASE inv[i].status = "pending" /\ age[i] # "fresh"
                  <4>1. inv'[i] = [inv[i] EXCEPT !.status = "expired"]
                        BY <1>6, <3>1 DEF ExpireStalePendingInvoices
                  <4>2. inv[i] \in InvoiceType  BY <1>1
                  <4>3. /\ inv'[i].status = "expired" /\ inv'[i].owner = inv[i].owner
                        /\ inv'[i].units = inv[i].units /\ inv'[i].review = inv[i].review
                        /\ inv'[i].tx = inv[i].tx
                        BY <4>1, <4>2 DEF InvoiceType
                  <4> QED  BY <1>1, <3>1, <4>3 DEF Fate, InvoicesOK, Created
            <3>2. CASE ~(inv[i].status = "pending" /\ age[i] # "fresh")
                  <4>1. inv'[i] = inv[i]  BY <1>6, <3>2 DEF ExpireStalePendingInvoices
                  <4> QED  BY <1>1, <2>1, <4>1, FateOfKept
            <3> QED  BY <3>1, <3>2
      <2> QED  BY <2>1, <2>2
<1>7. ASSUME NEW u \in User, NEW i \in Invoice, CreateCryptoInvoice(u, i)
      PROVE  (\A j \in Invoice : Fate(j)) /\ rows \subseteq rows'
      <2>1. rows' = rows /\ inv[i].status = "none" /\ u \notin deleted  BY <1>7 DEF CreateCryptoInvoice
      <2>2. PICK e \in 1 .. MaxExtra + 1 + Cardinality(Invoice) :
              inv' = [inv EXCEPT ![i] = [NoInvoice EXCEPT !.status = "pending", !.owner = u, !.units = Base + e]]
            BY <1>7 DEF CreateCryptoInvoice
      <2>3. Base + e > 0
            <3>1. Cardinality(Invoice) \in Nat  BY FS_CardinalityType, DepositsAssumption
            <3> QED  BY <3>1, DepositsAssumption
      <2>4. \A j \in Invoice \ {i} : inv'[j] = inv[j]  BY <1>1, <2>2
      <2>5. inv'[i] = [NoInvoice EXCEPT !.status = "pending", !.owner = u, !.units = Base + e]
            BY <1>1, <2>2
      <2>6. /\ inv'[i].status = "pending" /\ inv'[i].owner = u /\ inv'[i].units = Base + e
            /\ inv'[i].review = "none"
            BY <2>5, Zenon DEF NoInvoice
      <2>7. \E v \in User : CreateCryptoInvoice(v, i)  BY <1>7
      <2>8. Fate(i)  BY <2>1, <2>3, <2>6, <2>7 DEF Fate
      <2> QED  BY <1>1, <2>1, <2>4, <2>8, FateOfKept
<1>8. ASSUME NEW i \in Invoice, NEW x \in Tx, RequestInvoiceReview(i, x)
      PROVE  (\A j \in Invoice : Fate(j)) /\ rows \subseteq rows'
      <2>1. rows' = rows /\ inv[i].status \in {"pending", "expired"}  BY <1>8 DEF RequestInvoiceReview
      <2>2. inv' = [inv EXCEPT ![i] = [inv[i] EXCEPT !.tx = x, !.review = "open"]]
            BY <1>1, <1>8 DEF RequestInvoiceReview
      <2> DEFINE new == [inv[i] EXCEPT !.tx = x, !.review = "open"]
      <2>3. /\ new.status = inv[i].status /\ new.owner = inv[i].owner /\ new.units = inv[i].units
            /\ new.tx = x /\ new.review = "open"
            <3>1. inv[i] \in InvoiceType  BY <1>1
            <3> QED  BY <3>1 DEF InvoiceType
      <2>4. inv'[i] = new /\ \A j \in Invoice \ {i} : inv'[j] = inv[j]  BY <1>1, <2>2, Zenon
      <2> HIDE DEF new
      <2>5. Fate(i)  BY <1>1, <2>1, <2>3, <2>4 DEF Fate, InvoicesOK, Created
      <2> QED  BY <1>1, <2>1, <2>4, <2>5, FateOfKept
<1>9. ASSUME NEW u \in User, DeleteAccount(u)
      PROVE  (\A j \in Invoice : Fate(j)) /\ rows \subseteq rows'
      <2>1. rows' = rows /\ deleted' = deleted \cup {u}  BY <1>9 DEF DeleteAccount
      <2>2. ASSUME NEW i \in Invoice PROVE Fate(i)
            <3>1. CASE inv[i].owner = u /\ inv[i].status = "pending"
                  <4>1. inv'[i] = [inv[i] EXCEPT !.status = "rejected"]
                        BY <1>9, <3>1 DEF DeleteAccount
                  <4>2. inv[i] \in InvoiceType  BY <1>1
                  <4>3. /\ inv'[i].status = "rejected" /\ inv'[i].owner = inv[i].owner
                        /\ inv'[i].units = inv[i].units /\ inv'[i].review = inv[i].review
                        /\ inv'[i].tx = inv[i].tx
                        BY <4>1, <4>2 DEF InvoiceType
                  <4> QED  BY <1>1, <2>1, <3>1, <4>3 DEF Fate, InvoicesOK, Created
            <3>2. CASE ~(inv[i].owner = u /\ inv[i].status = "pending")
                  <4>1. inv'[i] = inv[i]  BY <1>9, <3>2 DEF DeleteAccount
                  <4> QED  BY <1>1, <2>1, <4>1, FateOfKept
            <3> QED  BY <3>1, <3>2
      <2> QED  BY <2>1, <2>2
<1>10. ASSUME NEW i \in Invoice, DismissReview(i)
      PROVE  (\A j \in Invoice : Fate(j)) /\ rows \subseteq rows'
      <2>1. rows' = rows /\ inv' = [inv EXCEPT ![i] = [inv[i] EXCEPT !.review = "closed"]]
            BY <1>10 DEF DismissReview
      <2> DEFINE new == [inv[i] EXCEPT !.review = "closed"]
      <2>2. /\ new.status = inv[i].status /\ new.owner = inv[i].owner /\ new.units = inv[i].units
            /\ new.tx = inv[i].tx /\ new.review = "closed"
            <3>1. inv[i] \in InvoiceType  BY <1>1
            <3> QED  BY <3>1 DEF InvoiceType
      <2>3. inv'[i] = new /\ \A j \in Invoice \ {i} : inv'[j] = inv[j]  BY <1>1, <2>1, Zenon
      <2>4. Created(i)  BY <1>1, <1>10 DEF DismissReview, InvoicesOK
      <2> HIDE DEF new
      <2>5. Fate(i)  BY <1>1, <2>1, <2>2, <2>3, <2>4 DEF Fate, InvoicesOK, Created
      <2> QED  BY <1>1, <2>1, <2>3, <2>5, FateOfKept
<1>11. ASSUME NEW i \in Invoice, RejectInvoice(i)
      PROVE  (\A j \in Invoice : Fate(j)) /\ rows \subseteq rows'
      <2>1. /\ rows' = rows /\ inv[i].status \in {"pending", "expired"} /\ staff = StaffIdle /\ staff' = staff
            /\ inv' = [inv EXCEPT ![i] = [inv[i] EXCEPT !.status = "rejected",
                             !.review = IF inv[i].review = "open" THEN "closed" ELSE inv[i].review]]
            BY <1>1, <1>11 DEF RejectInvoice, StaffMayStart
      <2> DEFINE new == [inv[i] EXCEPT !.status = "rejected",
                             !.review = IF inv[i].review = "open" THEN "closed" ELSE inv[i].review]
      <2>2. /\ new.status = "rejected" /\ new.owner = inv[i].owner /\ new.units = inv[i].units
            /\ new.tx = inv[i].tx /\ new.review # "open"
            <3>1. inv[i] \in InvoiceType  BY <1>1
            <3> QED  BY <3>1 DEF InvoiceType
      <2>3. inv'[i] = new /\ \A j \in Invoice \ {i} : inv'[j] = inv[j]  BY <1>1, <2>1, Zenon
      <2> HIDE DEF new
      <2>4. Fate(i)  BY <1>1, <2>1, <2>2, <2>3 DEF Fate, InvoicesOK, Created
      <2> QED  BY <1>1, <2>1, <2>3, <2>4, FateOfKept
<1> QED  BY <1>2, <1>3, <1>4, <1>5, <1>6, <1>7, <1>8, <1>9, <1>10, <1>11, Steps DEF WritesInvoices

\* What becomes of the log entry of transfer t, and of its amount.
LogFate(t) ==
  /\ dep[t] # "unseen" => dep'[t] # "unseen"
  /\ dep'[t] # "unseen" => amount[t] > 0
  /\ amount[t] > 0 => amount'[t] = amount[t] /\ meant'[t] = meant[t]
  /\ amount[t] = 0 /\ meant'[t] # meant[t] =>
       meant'[t] \in Pending \cup RecentlyExpired /\ amount'[t] = inv[meant'[t]].units
  /\ amount'[t] # amount[t] \/ meant'[t] = meant[t]

LogTypes ==
  /\ dep' \in [Transfer -> DepositStatus]
  /\ amount' \in [Transfer -> Nat]
  /\ meant' \in [Transfer -> Invoice \cup {None}]

\* A step that may change the status of one transfer that is logged.
LEMMA LogFateOfOne ==
  ASSUME TypeOK, AmountsOK, NEW t \in Transfer, NEW s \in DepositStatus \ {"unseen"}, amount[t] > 0,
         dep' = dep \/ dep' = [dep EXCEPT ![t] = s], UNCHANGED <<amount, meant>>
  PROVE  LogTypes /\ \A x \in Transfer : LogFate(x)
<1>1. dep \in [Transfer -> DepositStatus] /\ amount \in [Transfer -> Nat]
      /\ meant \in [Transfer -> Invoice \cup {None}]
      BY Types
<1>2. LogTypes  BY <1>1 DEF LogTypes
<1>3. ASSUME NEW x \in Transfer PROVE LogFate(x)
      BY <1>1 DEF LogFate, AmountsOK
<1> QED  BY <1>2, <1>3

\* A step that leaves the log alone.
LEMMA LogFateOfKept ==
  ASSUME TypeOK, AmountsOK, UNCHANGED <<dep, amount, meant>>
  PROVE  LogTypes /\ \A x \in Transfer : LogFate(x)
<1>1. dep \in [Transfer -> DepositStatus] /\ amount \in [Transfer -> Nat]
      /\ meant \in [Transfer -> Invoice \cup {None}]
      BY Types
<1>2. LogTypes  BY <1>1 DEF LogTypes
<1>3. ASSUME NEW x \in Transfer PROVE LogFate(x)
      BY <1>1 DEF LogFate, AmountsOK
<1> QED  BY <1>2, <1>3

\* Every step leaves every transfer's log entry to its fate.
LEMMA LogFates ==
  ASSUME SaneInv, Next
  PROVE  LogTypes /\ \A t \in Transfer : LogFate(t)
<1>1. /\ TypeOK /\ ThreadsOK /\ AmountsOK
      /\ dep \in [Transfer -> DepositStatus] /\ amount \in [Transfer -> Nat]
      /\ meant \in [Transfer -> Invoice \cup {None}]
      BY Types DEF SaneInv
<1>2. watcher.pc # "idle" => watcher.t \in Transfer /\ dep[watcher.t] # "unseen" /\ amount[watcher.t] > 0
      BY <1>1 DEF ThreadsOK, AmountsOK
<1>3. "credited" \in DepositStatus \ {"unseen"} /\ "unmatched" \in DepositStatus \ {"unseen"}
      /\ "ignored" \in DepositStatus \ {"unseen"} /\ "admin_ignored" \in DepositStatus \ {"unseen"}
      BY DEF DepositStatus
<1>4. \A t \in Transfer : dep[t] # "unseen" => amount[t] > 0  BY <1>1 DEF AmountsOK
<1>5. ASSUME NEW t \in Transfer, RecordDeposit(t) PROVE LogTypes /\ \A x \in Transfer : LogFate(x)
      <2>1. amount[t] > 0 /\ dep' = [dep EXCEPT ![t] = "unmatched"] /\ UNCHANGED <<amount, meant>>
            BY <1>5 DEF RecordDeposit
      <2> QED  BY <1>1, <1>3, <2>1, LogFateOfOne
<1>6. CASE EarlierCredit \/ CreditWallet \/ CreditFit \/ MarkCredited
      <2>1. watcher.pc # "idle" /\ UNCHANGED <<amount, meant>>
            BY <1>6 DEF EarlierCredit, CreditWallet, CreditFit, MarkCredited
      <2>2. dep' = dep \/ dep' = [dep EXCEPT ![watcher.t] = "credited"]
                       \/ dep' = [dep EXCEPT ![watcher.t] = "ignored"]
            <3>1. EarlierCredit => dep' = dep \/ dep' = [dep EXCEPT ![watcher.t] = "credited"]
                  BY DEF EarlierCredit
            <3>2. CreditWallet => dep' = dep \/ dep' = [dep EXCEPT ![watcher.t] = "credited"]
                  BY DEF CreditWallet, CreditDeposit
            <3>3. CreditFit => dep' = dep \/ dep' = [dep EXCEPT ![watcher.t] = "ignored"]
                  BY DEF CreditFit
            <3>4. MarkCredited => dep' = [dep EXCEPT ![watcher.t] = "credited"]
                  BY DEF MarkCredited
            <3> QED  BY <1>6, <3>1, <3>2, <3>3, <3>4
      <2> QED  BY <1>1, <1>2, <1>3, <2>1, <2>2, LogFateOfOne
<1>7. CASE ClaimWalletDeposit
      <2>1. claimer.todo \subseteq Transfer  BY <1>1, Types DEF ClaimerType
      <2>2. UNCHANGED <<amount, meant>>  BY <1>7 DEF ClaimWalletDeposit
      <2>3. dep' = dep \/ \E t \in claimer.todo : dep' = [dep EXCEPT ![t] = "credited"]
            BY <1>7 DEF ClaimWalletDeposit, CreditDeposit
      <2>4. CASE dep' = dep  BY <1>1, <2>2, <2>4, LogFateOfKept
      <2>5. ASSUME NEW t \in claimer.todo, dep' = [dep EXCEPT ![t] = "credited"]
            PROVE  LogTypes /\ \A x \in Transfer : LogFate(x)
            <3>1. t \in Transfer /\ amount[t] > 0  BY <1>1, <1>4, <2>1, <2>5 DEF ThreadsOK
            <3> QED  BY <1>1, <1>3, <2>2, <2>5, <3>1, LogFateOfOne
      <2> QED  BY <2>3, <2>4, <2>5
<1>8. CASE StaffMark
      <2>1. /\ UNCHANGED <<amount, meant>>
            /\ dep' = [t \in Transfer |-> IF TxOf[t] = staff.key /\ dep[t] # "unseen" THEN "credited" ELSE dep[t]]
            BY <1>8 DEF StaffMark
      <2>2. LogTypes  BY <1>1, <1>3, <2>1 DEF LogTypes
      <2>3. ASSUME NEW x \in Transfer PROVE LogFate(x)
            BY <1>1, <1>4, <2>1 DEF LogFate
      <2> QED  BY <2>2, <2>3
<1>9. ASSUME NEW i \in Invoice, NEW t \in Transfer, ReviewCreditDeposit(i, t)
      PROVE  LogTypes /\ \A x \in Transfer : LogFate(x)
      <2>1. dep[t] # "unseen" /\ dep' = [dep EXCEPT ![t] = "credited"] /\ UNCHANGED <<amount, meant>>
            BY <1>9 DEF ReviewCreditDeposit, CreditDeposit
      <2> QED  BY <1>1, <1>3, <1>4, <2>1, LogFateOfOne
<1>10. ASSUME NEW t \in Transfer, NEW u \in User, AssignDeposit(t, u)
      PROVE  LogTypes /\ \A x \in Transfer : LogFate(x)
      <2>1. dep[t] # "unseen" /\ dep' = [dep EXCEPT ![t] = "credited"] /\ UNCHANGED <<amount, meant>>
            BY <1>10 DEF AssignDeposit, CreditDeposit
      <2> QED  BY <1>1, <1>3, <1>4, <2>1, LogFateOfOne
<1>11. ASSUME NEW t \in Transfer, IgnoreDeposit(t) PROVE LogTypes /\ \A x \in Transfer : LogFate(x)
      <2>1. dep[t] # "unseen" /\ dep' = [dep EXCEPT ![t] = "admin_ignored"] /\ UNCHANGED <<amount, meant>>
            BY <1>11 DEF IgnoreDeposit
      <2> QED  BY <1>1, <1>3, <1>4, <2>1, LogFateOfOne
<1>12. ASSUME NEW t \in Transfer, Send(t) PROVE LogTypes /\ \A x \in Transfer : LogFate(x)
      <2>1. amount[t] = 0 /\ dep' = dep  BY <1>12 DEF Send
      <2>2. CASE \E i \in Pending \cup RecentlyExpired : /\ amount' = [amount EXCEPT ![t] = inv[i].units]
                                                        /\ meant' = [meant EXCEPT ![t] = i]
            <3>1. PICK i \in Pending \cup RecentlyExpired : /\ amount' = [amount EXCEPT ![t] = inv[i].units]
                                                           /\ meant' = [meant EXCEPT ![t] = i]
                  BY <2>2
            <3>2. i \in Invoice /\ inv[i].units \in Nat /\ Created(i)
                  BY <1>1, Types DEF Pending, RecentlyExpired, InvoiceType, Created
            <3>3. inv[i].units > 0  BY <3>2 DEF SaneInv, InvoicesOK
            <3>4. LogTypes  BY <1>1, <2>1, <3>1, <3>2 DEF LogTypes
            <3>5. ASSUME NEW x \in Transfer PROVE LogFate(x)
                  BY <1>1, <1>4, <2>1, <3>1, <3>2, <3>3 DEF LogFate
            <3> QED  BY <3>4, <3>5
      <2>3. CASE \E n \in Sendable : amount' = [amount EXCEPT ![t] = n] /\ UNCHANGED meant
            <3>1. Sendable \subseteq Nat  BY DepositsAssumption
            <3>2. LogTypes  BY <1>1, <2>1, <2>3, <3>1 DEF LogTypes
            <3>3. ASSUME NEW x \in Transfer PROVE LogFate(x)
                  BY <1>1, <1>4, <2>1, <2>3 DEF LogFate
            <3> QED  BY <3>2, <3>3
      <2> QED  BY <1>12, <2>2, <2>3 DEF Send
<1>13. CASE ListOpen \/ CreditExact \/ CreditLate \/ WatcherFails
      <2>1. UNCHANGED <<dep, amount, meant>>
            BY <1>13 DEF ListOpen, CreditExact, CreditLate, WatcherFails
      <2> QED  BY <1>1, <2>1, LogFateOfKept
<1>14. CASE \/ \E u \in User, i \in Invoice : CreateCryptoInvoice(u, i)
            \/ \E i \in Invoice, x \in Tx : RequestInvoiceReview(i, x)
            \/ \E u \in User, a \in Address : LinkWallet(u, a)
            \/ \E a \in Address : UnlinkWallet(a)
            \/ \E u \in User : DeleteAccount(u)
      <2>1. UNCHANGED <<dep, amount, meant>>
            BY <1>14 DEF CreateCryptoInvoice, RequestInvoiceReview, LinkWallet, UnlinkWallet, DeleteAccount
      <2> QED  BY <1>1, <2>1, LogFateOfKept
<1>15. CASE \/ \E i \in Invoice : StartReviewConfirm(i) \/ DismissReview(i) \/ RejectInvoice(i)
            \/ \E i \in Invoice, x \in Tx : StartConfirm(i, x)
            \/ StaffCredit \/ SetReviewResolved
      <2>1. UNCHANGED <<dep, amount, meant>>
            BY <1>15 DEF StartReviewConfirm, DismissReview, RejectInvoice, StartConfirm, StaffCredit,
               SetReviewResolved
      <2> QED  BY <1>1, <2>1, LogFateOfKept
<1>16. CASE Time
      <2>1. UNCHANGED <<dep, amount, meant>>
            BY <1>16 DEF Time, Deadline, WindowPasses, ExpireStalePendingInvoices
      <2> QED  BY <1>1, <2>1, LogFateOfKept
<1>17. CASE Watch
      BY <1>17, <1>5, <1>6, <1>13, Zenon DEF Watch
<1>18. CASE Customers
      BY <1>18, <1>7, <1>12, <1>14, Zenon DEF Customers
<1>19. CASE Staff
      BY <1>19, <1>8, <1>9, <1>10, <1>11, <1>15, Zenon DEF Staff
<1> QED  BY <1>16, <1>17, <1>18, <1>19 DEF Next

\* The three ways a row r comes into the ledger: the watcher pays an open invoice for the
\* transfer in hand, staff pay one by hand, or a transfer is credited to a user.
PaysInvoice(r) ==
  /\ watcher.pc \in {"exact", "late", "fit"} /\ r.dep = watcher.t
  /\ r.ref \in watcher.cand /\ r.user = inv[r.ref].owner
  /\ inv[r.ref].status # "rejected" /\ (inv[r.ref].status = "expired" => watcher.pc # "exact")
  /\ inv'[r.ref].status = "confirmed"
  /\ \A s \in rows : s.ref # r.ref /\ s.dep # r.dep
  /\ watcher' = WatcherAt("mark", watcher.t, watcher.open, watcher.cand, watcher.who)
  /\ UNCHANGED <<dep, amount, meant, staff, claimer>>

PaysByHand(r) ==
  /\ staff.pc = "credit" /\ r.dep = staff.key
  /\ r.ref = staff.i /\ r.user = inv[r.ref].owner
  /\ inv'[r.ref].status = "confirmed"
  /\ \A s \in rows : s.ref # r.ref /\ s.dep # r.dep
  /\ staff' = StaffAt("mark", staff.i, staff.key, staff.t, staff.review)
  /\ UNCHANGED <<dep, amount, meant, watcher, claimer>>

PaysDeposit(r) ==
  /\ r.dep \in Transfer /\ r.ref = None
  /\ CanCredit(r.dep) /\ dep[r.dep] # "unseen"
  /\ dep' = [dep EXCEPT ![r.dep] = "credited"]
  /\ inv' = inv /\ amount' = amount /\ meant' = meant
  /\ watcher.pc = "wallet" \/ claimer # ClaimerIdle \/ StaffMayStart

NewRow == \E r \in RowType : rows' = rows \cup {r} /\ (PaysInvoice(r) \/ PaysByHand(r) \/ PaysDeposit(r))

\* A deposit that is credited to a user, in whichever step.
LEMMA DepositRow ==
  ASSUME TypeOK, NEW t \in Transfer, NEW u \in User, NEW cents \in Nat, CreditDeposit(t, u, cents),
         dep[t] # "unseen", inv' = inv, amount' = amount, meant' = meant,
         watcher.pc = "wallet" \/ claimer # ClaimerIdle \/ StaffMayStart
  PROVE  rows' = rows \/ NewRow
<1> DEFINE r == [user |-> u, cents |-> cents, ref |-> None, dep |-> t]
<1>1. r \in RowType /\ r.dep = t /\ r.ref = None  BY DEF RowType
<1>2. /\ dep' = [dep EXCEPT ![t] = "credited"]
      /\ \/ rows' = rows
         \/ CanCredit(t) /\ rows' = rows \cup {r}
      BY CreditEffect
<1> HIDE DEF r
<1>3. CanCredit(t) => PaysDeposit(r)  BY <1>1, <1>2, Zenon DEF PaysDeposit
<1> QED  BY <1>1, <1>2, <1>3 DEF NewRow

\* A step writes at most one row, in one of the three ways.
LEMMA RowEffect ==
  ASSUME SaneInv, Next
  PROVE  rows' = rows \/ NewRow
<1>1. /\ TypeOK /\ ThreadsOK /\ InvoicesOK
      /\ watcher \in WatcherType /\ staff \in StaffType /\ claimer \in ClaimerType
      BY Types DEF SaneInv
<1>2. \A t \in Transfer : Value(t) \in Nat  BY <1>1, ValueType
<1>3. CASE CreditExact \/ CreditLate \/ CreditFit
      <2>1. CASE inv' = inv /\ rows' = rows  BY <2>1
      <2>2. CASE ~(inv' = inv /\ rows' = rows)
            <3>1. watcher.pc \in {"exact", "late", "fit"}
                  /\ UNCHANGED <<amount, meant, staff, claimer>>
                  BY <1>3 DEF CreditExact, CreditLate, CreditFit
            <3>2. PICK i \in watcher.cand, cents \in Nat, allow \in BOOLEAN :
                    /\ CreditInvoice(i, cents, allow, [watcher EXCEPT !.cand =
                         IF watcher.pc = "exact" THEN watcher.cand \ {i} ELSE {}])
                    /\ watcher.pc = "exact" => ~allow
                    /\ dep' = dep
                  BY <1>3, <2>2, RuleSteps
            <3>3. i \in Invoice /\ Created(i)
                  BY <1>1 DEF ThreadsOK, WatcherType
            <3>4. watcher.t \in Transfer
                  BY <1>1, <3>1 DEF ThreadsOK
            <3> DEFINE t == watcher.t
                       r == [user |-> inv[i].owner, cents |-> cents, ref |-> i, dep |-> t]
            <3>5. \/ Refused(i, t)
                  \/ CreditedBefore(i, TxOf[t])
                  \/ /\ CreditsNow(i, t, TxOf[t], cents)
                     /\ watcher' = [watcher EXCEPT !.pc = "mark"]
                     /\ inv[i].status = "expired" => allow
                  <4>1. CreditInvoice(i, cents, allow, [watcher EXCEPT !.cand =
                         IF watcher.pc = "exact" THEN watcher.cand \ {i} ELSE {}])
                        BY <3>2
                  <4> DEFINE next == [watcher EXCEPT !.cand =
                               IF watcher.pc = "exact" THEN watcher.cand \ {i} ELSE {}]
                  <4>2. CreditInvoice(i, cents, allow, next)  BY <4>1
                  <4> HIDE DEF next
                  <4> QED  BY <1>1, <4>2, <3>3, <3>4, CreditInvoiceEffect
            <3>6. ASSUME CreditsNow(i, t, TxOf[t], cents), watcher' = [watcher EXCEPT !.pc = "mark"],
                         inv[i].status = "expired" => allow
                  PROVE  NewRow
                  <4>1. r \in RowType /\ r.user = inv[i].owner /\ r.ref = i /\ r.dep = t
                        BY <1>1, <3>3, <3>4 DEF RowType, InvoicesOK
                  <4>2. watcher' = WatcherAt("mark", watcher.t, watcher.open, watcher.cand, watcher.who)
                        BY <1>1, <3>6, WatcherUpdate DEF WatcherPC
                  <4>3. rows' = rows \cup {r}  BY <3>6 DEF CreditsNow
                  <4>4. /\ inv[i].status # "rejected" /\ inv'[i].status = "confirmed"
                        /\ \A s \in rows : s.ref # i /\ s.dep # t
                        BY <3>6 DEF CreditsNow, Confirms
                  <4>5. inv[i].status = "expired" => watcher.pc # "exact"
                        BY <3>2, <3>6
                  <4> HIDE DEF r
                  <4>6. PaysInvoice(r)
                        BY <3>1, <3>2, <4>1, <4>2, <4>4, <4>5 DEF PaysInvoice, t
                  <4> QED  BY <4>1, <4>3, <4>6 DEF NewRow
            <3> QED  BY <3>5, <3>6 DEF Refused, CreditedBefore
      <2> QED  BY <2>1, <2>2
<1>4. CASE StaffCredit
      <2>1. staff.pc = "credit" /\ UNCHANGED <<dep, amount, meant, watcher, claimer>>
            BY <1>4 DEF StaffCredit
      <2>2. /\ staff.i \in Invoice /\ Created(staff.i) /\ staff.key \in Tx /\ staff.review \in BOOLEAN
            BY <1>1, <2>1 DEF ThreadsOK, StaffType
      <2> DEFINE i == staff.i
                 k == staff.key
                 o == ConfirmOutcome(i, k, staff.review)
                 r == [user |-> inv[i].owner, cents |-> TotalCredits, ref |-> i, dep |-> k]
      <2>3. ConfirmAndCredit(i, k, k, TotalCredits, staff.review)
            BY <1>4 DEF StaffCredit
      <2>4. \/ o # "credited" /\ rows' = rows
            \/ o = "credited" /\ CreditsNow(i, k, k, TotalCredits)
            BY <1>1, <2>2, <2>3, ConfirmEffect DEF Refused, CreditedBefore
      <2>5. ASSUME o = "credited", CreditsNow(i, k, k, TotalCredits) PROVE NewRow
            <3>1. TotalCredits \in Nat  BY <1>1, ValueType
            <3>2. r \in RowType /\ r.user = inv[i].owner /\ r.ref = i /\ r.dep = k
                  BY <1>1, <2>2, <3>1 DEF RowType, InvoicesOK
            <3>3. staff' = [staff EXCEPT !.pc = "mark"]  BY <1>4, <2>5 DEF StaffCredit
            <3>4. staff' = StaffAt("mark", staff.i, staff.key, staff.t, staff.review)
                  BY <1>1, <3>3, StaffUpdates DEF StaffPC
            <3>5. rows' = rows \cup {r}  BY <2>5 DEF CreditsNow
            <3>6. inv'[i].status = "confirmed" /\ \A s \in rows : s.ref # i /\ s.dep # k
                  BY <2>5 DEF CreditsNow, Confirms
            <3> HIDE DEF r
            <3>7. PaysByHand(r)
                  BY <2>1, <3>2, <3>4, <3>6 DEF PaysByHand, i, k
            <3> QED  BY <3>2, <3>5, <3>7 DEF NewRow
      <2> QED  BY <2>4, <2>5
<1>5. CASE CreditWallet
      <2>1. /\ watcher.pc = "wallet" /\ inv' = inv /\ amount' = amount /\ meant' = meant
            /\ \/ rows' = rows
               \/ /\ watcher.who # None /\ CreditDeposit(watcher.t, watcher.who, Value(watcher.t))
            BY <1>5 DEF CreditWallet
      <2>2. watcher.t \in Transfer /\ dep[watcher.t] # "unseen"  BY <1>1, <2>1 DEF ThreadsOK
      <2>3. watcher.who # None => watcher.who \in User  BY <1>1 DEF WatcherType
      <2> QED  BY <1>1, <1>2, <2>1, <2>2, <2>3, DepositRow
<1>6. CASE ClaimWalletDeposit
      <2>1. /\ claimer # ClaimerIdle /\ inv' = inv /\ amount' = amount /\ meant' = meant
            /\ \/ rows' = rows
               \/ \E t \in claimer.todo : CreditDeposit(t, claimer.who, Value(t))
            BY <1>6 DEF ClaimWalletDeposit
      <2>2. claimer.who \in User /\ \A t \in claimer.todo : t \in Transfer /\ dep[t] # "unseen"
            BY <1>1, <2>1 DEF ThreadsOK, ClaimerType
      <2> QED  BY <1>1, <1>2, <2>1, <2>2, DepositRow
<1>7. ASSUME NEW i \in Invoice, NEW t \in Transfer, ReviewCreditDeposit(i, t) PROVE rows' = rows \/ NewRow
      <2>1. /\ StaffMayStart /\ inv[i].review = "open" /\ dep[t] # "unseen"
            /\ CreditDeposit(t, inv[i].owner, Value(t))
            /\ inv' = inv /\ amount' = amount /\ meant' = meant
            BY <1>7 DEF ReviewCreditDeposit
      <2>2. inv[i].owner \in User  BY <1>1, <2>1 DEF InvoicesOK
      <2> QED  BY <1>1, <1>2, <2>1, <2>2, DepositRow
<1>8. ASSUME NEW t \in Transfer, NEW u \in User, AssignDeposit(t, u) PROVE rows' = rows \/ NewRow
      <2>1. /\ StaffMayStart /\ dep[t] # "unseen" /\ CreditDeposit(t, u, Value(t))
            /\ inv' = inv /\ amount' = amount /\ meant' = meant
            BY <1>8 DEF AssignDeposit
      <2> QED  BY <1>1, <1>2, <2>1, DepositRow
<1>9. CASE \/ \E t \in Transfer : RecordDeposit(t)
           \/ EarlierCredit \/ ListOpen \/ MarkCredited \/ WatcherFails
      BY <1>9 DEF RecordDeposit, EarlierCredit, ListOpen, MarkCredited, WatcherFails
<1>10. CASE \/ \E u \in User, i \in Invoice : CreateCryptoInvoice(u, i)
            \/ \E i \in Invoice, x \in Tx : RequestInvoiceReview(i, x)
            \/ \E u \in User, a \in Address : LinkWallet(u, a)
            \/ \E a \in Address : UnlinkWallet(a)
            \/ \E u \in User : DeleteAccount(u)
            \/ \E t \in Transfer : Send(t)
      BY <1>10 DEF CreateCryptoInvoice, RequestInvoiceReview, LinkWallet, UnlinkWallet, DeleteAccount, Send
<1>11. CASE \/ \E i \in Invoice : StartReviewConfirm(i) \/ DismissReview(i) \/ RejectInvoice(i)
            \/ \E i \in Invoice, x \in Tx : StartConfirm(i, x)
            \/ StaffMark \/ SetReviewResolved \/ \E t \in Transfer : IgnoreDeposit(t)
      BY <1>11 DEF StartReviewConfirm, DismissReview, RejectInvoice, StartConfirm, StaffMark,
         SetReviewResolved, IgnoreDeposit
<1>12. CASE Time
      BY <1>12 DEF Time, Deadline, WindowPasses, ExpireStalePendingInvoices
<1>13. CASE Watch  BY <1>13, <1>3, <1>5, <1>9, Zenon DEF Watch
<1>14. CASE Customers  BY <1>14, <1>6, <1>10, Zenon DEF Customers
<1>15. CASE Staff  BY <1>15, <1>4, <1>7, <1>8, <1>11, Zenon DEF Staff
<1> QED  BY <1>12, <1>13, <1>14, <1>15 DEF Next

-----------------------------------------------------------------------------
(* How the threads move.                                                   *)

\* The watcher goes on to its next rule.
WatcherMove ==
  LET t == watcher.t
      At(p, o, c, u) == watcher' = WatcherAt(p, t, o, c, u)
  IN
  \/ watcher' = watcher
  \/ watcher' = WatcherIdle
  \/ /\ staff' = staff /\ claimer' = claimer
     /\ \/ /\ watcher = WatcherIdle /\ OthersMayStart /\ rows' = rows
           /\ \E s \in Transfer : dep'[s] # "unseen" /\ watcher' = WatcherAt("earlier", s, {}, {}, None)
        \/ /\ watcher.pc = "earlier" /\ RowsOf(t) = {} /\ rows' = rows /\ inv' = inv
           /\ At("list", watcher.open, watcher.cand, watcher.who)
        \/ /\ watcher.pc = "list" /\ rows' = rows /\ inv' = inv /\ UNCHANGED <<amount, meant>>
           /\ At("exact", Pending, {i \in Pending : ExactAmount(i, t)}, None)
        \/ /\ watcher.pc = "exact" /\ watcher.cand = {} /\ rows' = rows /\ inv' = inv
           /\ UNCHANGED <<age, amount, meant>>
           /\ LET late == {i \in RecentlyExpired : ExactAmount(i, t)} IN
              At("late", watcher.open, IF Cardinality(late) = 1 THEN late ELSE {}, watcher.who)
        \/ /\ watcher.pc = "late" /\ watcher.cand = {} /\ rows' = rows /\ inv' = inv
           /\ UNCHANGED <<age, amount, meant>>
           /\ \E u \in User \cup {None} : At("wallet", watcher.open, {}, u)
        \/ /\ watcher.pc = "wallet" /\ rows' = rows /\ inv' = inv /\ UNCHANGED <<age, amount, meant>>
           /\ \E o \in SUBSET watcher.open, c \in SUBSET (watcher.open \cup RecentlyExpired) :
                At("fit", o, c, watcher.who)
        \/ /\ watcher.pc \in {"exact", "late", "fit"} /\ rows' = rows /\ inv' = inv
           /\ UNCHANGED <<age, amount, meant>>
           /\ \E i \in watcher.cand :
                /\ inv[i].status = "rejected" \/ (inv[i].status = "expired" /\ watcher.pc # "late")
                /\ At(watcher.pc, watcher.open, IF watcher.pc = "exact" THEN watcher.cand \ {i} ELSE {},
                      watcher.who)
        \/ /\ watcher.pc \in {"exact", "late", "fit"}
           /\ At("mark", watcher.open, watcher.cand, watcher.who)
           /\ \/ \E r \in rows' : r.dep = t
              \/ \E i \in watcher.cand : \E r \in rows : r.ref = i

\* The rules' outcome on one candidate, as a move.
LEMMA RuleMove ==
  ASSUME SaneInv, CreditExact \/ CreditLate \/ CreditFit,
         ~(inv' = inv /\ rows' = rows /\ watcher.cand = {})
  PROVE  WatcherMove
<1>1. /\ TypeOK /\ ThreadsOK /\ InvoicesOK /\ watcher \in WatcherType
      BY Types DEF SaneInv
<1>2. /\ watcher.pc \in {"exact", "late", "fit"}
      /\ UNCHANGED <<age, amount, meant, staff, claimer>>
      BY DEF CreditExact, CreditLate, CreditFit
<1>3. PICK i \in watcher.cand, cents \in Nat, allow \in BOOLEAN :
        /\ CreditInvoice(i, cents, allow, [watcher EXCEPT !.cand =
             IF watcher.pc = "exact" THEN watcher.cand \ {i} ELSE {}])
        /\ watcher.pc = "late" => allow
      BY RuleSteps
<1> DEFINE c == IF watcher.pc = "exact" THEN watcher.cand \ {i} ELSE {}
           next == [watcher EXCEPT !.cand = c]
<1>4. CreditInvoice(i, cents, allow, next)  BY <1>3
<1>5. i \in Invoice /\ Created(i) /\ watcher.t \in Transfer
      BY <1>1, <1>2 DEF ThreadsOK, WatcherType
<1>6. next = WatcherAt(watcher.pc, watcher.t, watcher.open, c, watcher.who)
      <2>1. c \in SUBSET Invoice  BY <1>1 DEF WatcherType
      <2>2. /\ watcher.pc \in WatcherPC /\ watcher.t \in Transfer \cup {None}
            /\ watcher.open \in SUBSET Invoice /\ watcher.who \in User \cup {None}
            BY <1>1 DEF WatcherType, WatcherPC
      <2> HIDE DEF c
      <2>3. [watcher EXCEPT !.cand = c] = WatcherAt(watcher.pc, watcher.t, watcher.open, c, watcher.who)
            BY <1>1, <2>1, WatcherUpdate
      <2> QED  BY <2>3
<1> HIDE DEF next
<1>7. \/ /\ watcher' = next /\ Refused(i, watcher.t)
         /\ inv[i].status = "rejected" \/ (inv[i].status = "expired" /\ ~allow)
      \/ /\ watcher' = [watcher EXCEPT !.pc = "mark"]
         /\ \/ Refused(i, watcher.t) /\ \E r \in rows : r.dep = watcher.t
            \/ CreditedBefore(i, TxOf[watcher.t])
            \/ CreditsNow(i, watcher.t, TxOf[watcher.t], cents)
      BY <1>1, <1>4, <1>5, CreditInvoiceEffect
<1>8. CASE /\ watcher' = next /\ Refused(i, watcher.t)
           /\ inv[i].status = "rejected" \/ (inv[i].status = "expired" /\ ~allow)
      <2>1. inv[i].status = "rejected" \/ (inv[i].status = "expired" /\ watcher.pc # "late")
            BY <1>3, <1>8
      <2>2. rows' = rows /\ inv' = inv /\ staff' = staff /\ claimer' = claimer
            /\ age' = age /\ amount' = amount /\ meant' = meant
            BY <1>2, <1>8 DEF Refused
      <2>3. watcher' = WatcherAt(watcher.pc, watcher.t, watcher.open, c, watcher.who)  BY <1>6, <1>8
      <2> HIDE DEF c
      <2>4. \E j \in watcher.cand :
              /\ inv[j].status = "rejected" \/ (inv[j].status = "expired" /\ watcher.pc # "late")
              /\ watcher' = WatcherAt(watcher.pc, watcher.t, watcher.open,
                              IF watcher.pc = "exact" THEN watcher.cand \ {j} ELSE {}, watcher.who)
            BY <2>1, <2>3 DEF c
      <2> QED  BY <1>2, <2>2, <2>4, Zenon DEF WatcherMove
<1>9. CASE /\ watcher' = [watcher EXCEPT !.pc = "mark"]
           /\ \/ Refused(i, watcher.t) /\ \E r \in rows : r.dep = watcher.t
              \/ CreditedBefore(i, TxOf[watcher.t])
              \/ CreditsNow(i, watcher.t, TxOf[watcher.t], cents)
      <2>1. watcher' = WatcherAt("mark", watcher.t, watcher.open, watcher.cand, watcher.who)
            BY <1>1, <1>9, WatcherUpdate DEF WatcherPC
      <2>2. (\E r \in rows' : r.dep = watcher.t) \/ \E j \in watcher.cand : \E r \in rows : r.ref = j
            <3>1. CASE Refused(i, watcher.t) /\ \E r \in rows : r.dep = watcher.t
                  BY <3>1 DEF Refused
            <3>2. CASE CreditedBefore(i, TxOf[watcher.t])
                  BY <3>2 DEF CreditedBefore
            <3>3. CASE CreditsNow(i, watcher.t, TxOf[watcher.t], cents)
                  <4> DEFINE r == [user |-> inv[i].owner, cents |-> cents, ref |-> i, dep |-> watcher.t]
                  <4>1. r.dep = watcher.t /\ r \in rows'  BY <3>3 DEF CreditsNow
                  <4> QED  BY <4>1
            <3> QED  BY <1>9, <3>1, <3>2, <3>3
      <2> QED  BY <1>2, <2>1, <2>2, Zenon DEF WatcherMove
<1> QED  BY <1>7, <1>8, <1>9

\* Each other step of the watcher is a move too.
LEMMA WatcherMoves ==
  ASSUME SaneInv, Next
  PROVE  WatcherMove
<1>1. /\ TypeOK /\ ThreadsOK /\ InvoicesOK /\ watcher \in WatcherType
      BY Types DEF SaneInv
<1>2. /\ watcher.pc \in WatcherPC /\ watcher.t \in Transfer \cup {None}
      /\ watcher.open \in SUBSET Invoice /\ watcher.cand \in SUBSET Invoice
      /\ watcher.who \in User \cup {None}
      BY <1>1 DEF WatcherType, WatcherPC
<1>3. watcher.pc # "idle" => watcher.t \in Transfer  BY <1>1 DEF ThreadsOK
<1>4. {} \in SUBSET Invoice /\ Pending \in SUBSET Invoice /\ RecentlyExpired \in SUBSET Invoice
      BY DEF Pending, RecentlyExpired
<1>5. \A p \in WatcherPC :
        [watcher EXCEPT !.pc = p] = WatcherAt(p, watcher.t, watcher.open, watcher.cand, watcher.who)
      BY <1>1, WatcherUpdate
<1>6. ASSUME NEW p \in WatcherPC, NEW c \in SUBSET Invoice
      PROVE  [watcher EXCEPT !.pc = p, !.cand = c] = WatcherAt(p, watcher.t, watcher.open, c, watcher.who)
      BY <1>1, WatcherUpdates, Zenon
<1>7. ASSUME NEW p \in WatcherPC, NEW u \in User \cup {None}
      PROVE  [watcher EXCEPT !.pc = p, !.who = u] = WatcherAt(p, watcher.t, watcher.open, watcher.cand, u)
      BY <1>1, <1>2, WatcherUpdates, Zenon
<1>8. "list" \in WatcherPC /\ "exact" \in WatcherPC /\ "late" \in WatcherPC /\ "wallet" \in WatcherPC
      /\ "fit" \in WatcherPC /\ "earlier" \in WatcherPC
      BY DEF WatcherPC
<1>9. ASSUME NEW s \in Transfer, RecordDeposit(s) PROVE WatcherMove
      <2>1. watcher' = WatcherAt("earlier", s, {}, {}, None)  BY <1>9, Zenon DEF RecordDeposit
      <2>2. dep'[s] # "unseen"
            <3>1. dep' = [dep EXCEPT ![s] = "unmatched"]  BY <1>9 DEF RecordDeposit
            <3>2. dep'[s] = "unmatched"  BY <1>1, <3>1 DEF TypeOK
            <3> QED  BY <3>2
      <2>3. watcher = WatcherIdle /\ OthersMayStart /\ rows' = rows /\ staff' = staff /\ claimer' = claimer
            BY <1>9, Zenon DEF RecordDeposit
      <2> QED  BY <2>1, <2>2, <2>3, Zenon DEF WatcherMove
<1>10. CASE EarlierCredit
      <2>1. CASE RowsOf(watcher.t) # {}
            BY <1>10, <2>1, Zenon DEF EarlierCredit, WatcherMove
      <2>2. CASE RowsOf(watcher.t) = {}
            <3>1. watcher' = WatcherAt("list", watcher.t, watcher.open, watcher.cand, watcher.who)
                  BY <1>10, <2>2, <1>5, <1>8, Zenon DEF EarlierCredit
            <3>2. watcher.pc = "earlier" /\ rows' = rows /\ inv' = inv /\ staff' = staff /\ claimer' = claimer
                  BY <1>10, Zenon DEF EarlierCredit
            <3> QED  BY <2>2, <3>1, <3>2, Zenon DEF WatcherMove
      <2> QED  BY <2>1, <2>2
<1>11. CASE ListOpen
      <2> DEFINE c == {i \in Pending : ExactAmount(i, watcher.t)}
      <2>1. watcher' = WatcherAt("exact", watcher.t, Pending, c, None)
            BY <1>11, Zenon DEF ListOpen
      <2>2. /\ watcher.pc = "list" /\ rows' = rows /\ inv' = inv /\ staff' = staff /\ claimer' = claimer
            /\ amount' = amount /\ meant' = meant
            BY <1>11, Zenon DEF ListOpen
      <2> QED  BY <2>1, <2>2, Zenon DEF WatcherMove, c
<1>12. CASE (CreditExact \/ CreditLate \/ CreditFit) /\ ~(inv' = inv /\ rows' = rows /\ watcher.cand = {})
      BY <1>12, RuleMove
<1>13. CASE CreditExact /\ inv' = inv /\ rows' = rows /\ watcher.cand = {}
      <2> DEFINE late == {i \in RecentlyExpired : ExactAmount(i, watcher.t)}
                 c == IF Cardinality(late) = 1 THEN late ELSE {}
      <2>1. c \in SUBSET Invoice  BY <1>4
      <2>2. watcher' = [watcher EXCEPT !.pc = "late", !.cand = c]
            BY <1>13, Zenon DEF CreditExact
      <2> HIDE DEF c
      <2>3. watcher' = WatcherAt("late", watcher.t, watcher.open, c, watcher.who)
            BY <2>1, <2>2, <1>6, <1>8, Zenon
      <2>4. /\ watcher.pc = "exact" /\ staff' = staff /\ claimer' = claimer
            /\ age' = age /\ amount' = amount /\ meant' = meant
            BY <1>13, Zenon DEF CreditExact
      <2> QED  BY <1>13, <2>3, <2>4, Zenon DEF WatcherMove, c
<1>14. CASE CreditLate /\ inv' = inv /\ rows' = rows /\ watcher.cand = {}
      <2>1. watcher.pc = "late"  BY <1>14 DEF CreditLate
      <2>2. wallet[Sender[watcher.t]] \in User \cup {None}
            <3>1. watcher.t \in Transfer  BY <1>3, <2>1
            <3> QED  BY <1>1, <3>1, Types, DepositsAssumption
      <2>3. watcher' = [watcher EXCEPT !.pc = "wallet", !.who = wallet[Sender[watcher.t]]]
            BY <1>14, Zenon DEF CreditLate
      <2>4. watcher' = WatcherAt("wallet", watcher.t, watcher.open, watcher.cand, wallet[Sender[watcher.t]])
            BY <2>2, <2>3, <1>7, <1>8, Zenon
      <2>5. staff' = staff /\ claimer' = claimer /\ age' = age /\ amount' = amount /\ meant' = meant
            BY <1>14, Zenon DEF CreditLate
      <2>6. watcher' = WatcherAt("wallet", watcher.t, watcher.open, {}, wallet[Sender[watcher.t]])
            BY <1>14, <2>4
      <2> QED  BY <1>14, <2>1, <2>2, <2>5, <2>6, Zenon DEF WatcherMove
<1>15. CASE CreditFit /\ inv' = inv /\ rows' = rows /\ watcher.cand = {}
      <2>1. watcher' = WatcherIdle  BY <1>15, Zenon DEF CreditFit
      <2> QED  BY <2>1 DEF WatcherMove
<1>16. CASE CreditWallet
      <2> DEFINE o == {i \in watcher.open : Fits(i, watcher.t)}
                 e == {i \in RecentlyExpired : Fits(i, watcher.t)}
                 c == IF ~OneCustomers(o \cup e) THEN {} ELSE IF o # {} THEN o ELSE e
      <2>1. o \in SUBSET watcher.open /\ c \in SUBSET (watcher.open \cup RecentlyExpired)  OBVIOUS
      <2>2. CASE watcher' = WatcherIdle  BY <2>2 DEF WatcherMove
      <2>3. CASE watcher' # WatcherIdle
            <3>1. watcher' = WatcherAt("fit", watcher.t, o, c, watcher.who)
                  BY <1>16, <2>3, Zenon DEF CreditWallet
            <3>2. /\ watcher.pc = "wallet" /\ rows' = rows /\ inv' = inv /\ staff' = staff /\ claimer' = claimer
                  /\ age' = age /\ amount' = amount /\ meant' = meant
                  BY <1>16, <2>3, Zenon DEF CreditWallet
            <3> HIDE DEF o, c
            <3> QED  BY <2>1, <3>1, <3>2, Zenon DEF WatcherMove
      <2> QED  BY <2>2, <2>3
<1>17. CASE MarkCredited \/ WatcherFails
      BY <1>17 DEF MarkCredited, WatcherFails, WatcherMove
<1>18. CASE Watch
      BY <1>18, <1>9, <1>10, <1>11, <1>12, <1>13, <1>14, <1>15, <1>16, <1>17, Zenon DEF Watch
<1>19. CASE Customers
      <2>1. watcher' = watcher
            BY <1>19 DEF Customers, CreateCryptoInvoice, Send, RequestInvoiceReview, LinkWallet,
               ClaimWalletDeposit, UnlinkWallet, DeleteAccount
      <2> QED  BY <2>1 DEF WatcherMove
<1>20. CASE Staff
      <2>1. watcher' = watcher
            BY <1>20 DEF Staff, StartReviewConfirm, DismissReview, RejectInvoice, StartConfirm,
               ReviewCreditDeposit, StaffCredit, StaffMark, SetReviewResolved, AssignDeposit, IgnoreDeposit
      <2> QED  BY <2>1 DEF WatcherMove
<1>21. CASE Time
      <2>1. watcher' = watcher  BY <1>21 DEF Time, Deadline, WindowPasses, ExpireStalePendingInvoices
      <2> QED  BY <2>1 DEF WatcherMove
<1> QED  BY <1>18, <1>19, <1>20, <1>21 DEF Next

\* Staff begin a confirm of a transaction nobody was paid for (or one of a confirmed invoice),
\* credit it, mark it and close the review, or credit a logged transfer and close the review.
StaffMove ==
  \/ staff' = staff
  \/ staff' = StaffIdle
  \/ /\ watcher' = watcher /\ claimer' = claimer
     /\ \/ /\ StaffMayStart /\ rows' = rows
           /\ \E i \in Invoice, x \in Tx, b \in BOOLEAN :
                Created(i) /\ (~TxPaid(x) \/ Reconfirm) /\ staff' = StaffAt("credit", i, x, None, b)
        \/ /\ staff.pc = "credit" /\ \E r \in rows' : r.dep = staff.key
           /\ staff' = StaffAt("mark", staff.i, staff.key, staff.t, staff.review)
        \/ /\ staff.pc = "mark"
           /\ staff' = StaffAt("close", staff.i, staff.key, staff.t, staff.review)
        \/ /\ StaffMayStart /\ inv' = inv
           /\ \E i \in Invoice, t \in Transfer :
                /\ inv[i].review = "open"
                /\ \E r \in rows' : r.dep = t /\ r.user = inv[i].owner
                /\ staff' = StaffAt("close", i, None, t, FALSE)

\* Every step moves staff along, or leaves them.
LEMMA StaffMoves ==
  ASSUME SaneInv, Next
  PROVE  StaffMove
<1>1. /\ TypeOK /\ ThreadsOK /\ InvoicesOK /\ staff \in StaffType
      BY Types DEF SaneInv
<1>2. \A p \in StaffPC : [staff EXCEPT !.pc = p] = StaffAt(p, staff.i, staff.key, staff.t, staff.review)
      BY <1>1, StaffUpdates
<1>3. "mark" \in StaffPC /\ "close" \in StaffPC  BY DEF StaffPC
<1>4. ASSUME NEW i \in Invoice, NEW x \in Tx, StartConfirm(i, x) PROVE StaffMove
      <2>1. /\ StaffMayStart /\ rows' = rows /\ watcher' = watcher /\ claimer' = claimer
            /\ Created(i) /\ (~TxPaid(x) \/ Reconfirm)
            /\ staff' = StaffAt("credit", i, x, None, FALSE)
            BY <1>4, Zenon DEF StartConfirm, Created
      <2>2. FALSE \in BOOLEAN  OBVIOUS
      <2> QED  BY <2>1, <2>2, Zenon DEF StaffMove
<1>5. ASSUME NEW i \in Invoice, StartReviewConfirm(i) PROVE StaffMove
      <2>1. /\ StaffMayStart /\ rows' = rows /\ watcher' = watcher /\ claimer' = claimer
            /\ inv[i].review = "open" /\ ~TxPaid(inv[i].tx)
            /\ staff' = StaffAt("credit", i, inv[i].tx, None, TRUE)
            BY <1>5, Zenon DEF StartReviewConfirm
      <2>2. inv[i].tx \in Tx /\ Created(i)  BY <1>1, <2>1 DEF InvoicesOK
      <2>3. TRUE \in BOOLEAN  OBVIOUS
      <2> QED  BY <2>1, <2>2, <2>3, Zenon DEF StaffMove
<1>6. CASE StaffCredit
      <2>1. staff.pc = "credit" /\ watcher' = watcher /\ claimer' = claimer
            BY <1>6 DEF StaffCredit
      <2>2. /\ staff.i \in Invoice /\ Created(staff.i) /\ staff.key \in Tx /\ staff.review \in BOOLEAN
            BY <1>1, <2>1 DEF ThreadsOK, StaffType
      <2> DEFINE o == ConfirmOutcome(staff.i, staff.key, staff.review)
      <2>3. ConfirmAndCredit(staff.i, staff.key, staff.key, TotalCredits, staff.review)
            BY <1>6 DEF StaffCredit
      <2>4. o # "credited" \/ CreditsNow(staff.i, staff.key, staff.key, TotalCredits)
            BY <1>1, <2>2, <2>3, ConfirmEffect
      <2>5. staff' = IF o = "credited" THEN [staff EXCEPT !.pc = "mark"] ELSE StaffIdle
            BY <1>6, Zenon DEF StaffCredit
      <2> HIDE DEF o
      <2>6. CASE o = "credited"
            <3> DEFINE r == [user |-> inv[staff.i].owner, cents |-> TotalCredits, ref |-> staff.i, dep |-> staff.key]
            <3>1. r \in rows' /\ r.dep = staff.key  BY <2>4, <2>6 DEF CreditsNow
            <3>2. staff' = StaffAt("mark", staff.i, staff.key, staff.t, staff.review)
                  BY <2>5, <2>6, <1>2, <1>3, Zenon
            <3> HIDE DEF r
            <3> QED  BY <2>1, <3>1, <3>2, Zenon DEF StaffMove
      <2>7. CASE o # "credited"
            BY <2>5, <2>7, Zenon DEF StaffMove
      <2> QED  BY <2>6, <2>7
<1>7. CASE StaffMark
      <2>1. /\ staff.pc = "mark" /\ watcher' = watcher /\ claimer' = claimer
            /\ staff' = IF staff.review THEN [staff EXCEPT !.pc = "close"] ELSE StaffIdle
            BY <1>7, Zenon DEF StaffMark
      <2>2. staff' = [staff EXCEPT !.pc = "close"] \/ staff' = StaffIdle
            BY <2>1, Zenon
      <2>3. staff' = StaffAt("close", staff.i, staff.key, staff.t, staff.review) \/ staff' = StaffIdle
            BY <2>2, <1>2, <1>3, Zenon
      <2> QED  BY <2>1, <2>3, Zenon DEF StaffMove
<1>8. ASSUME NEW i \in Invoice, NEW t \in Transfer, ReviewCreditDeposit(i, t) PROVE StaffMove
      <2>1. /\ StaffMayStart /\ inv' = inv /\ watcher' = watcher /\ claimer' = claimer
            /\ inv[i].review = "open" /\ CreditDeposit(t, inv[i].owner, Value(t))
            /\ staff' = IF CanCredit(t) THEN StaffAt("close", i, None, t, FALSE) ELSE StaffIdle
            BY <1>8, Zenon DEF ReviewCreditDeposit
      <2>2. CASE CanCredit(t)
            <3> DEFINE r == [user |-> inv[i].owner, cents |-> Value(t), ref |-> None, dep |-> t]
            <3>1. rows' = rows \cup {r}  BY <2>1, <2>2, Zenon DEF CreditDeposit
            <3>2. r \in rows' /\ r.dep = t /\ r.user = inv[i].owner  BY <3>1
            <3>3. staff' = StaffAt("close", i, None, t, FALSE)  BY <2>1, <2>2, Zenon
            <3> HIDE DEF r
            <3> QED  BY <2>1, <3>2, <3>3, Zenon DEF StaffMove
      <2>3. CASE ~CanCredit(t)
            BY <2>1, <2>3, Zenon DEF StaffMove
      <2> QED  BY <2>2, <2>3
<1>9. CASE SetReviewResolved
      <2>1. staff' = StaffIdle  BY <1>9, Zenon DEF SetReviewResolved
      <2> QED  BY <2>1 DEF StaffMove
<1>10. CASE \/ \E i \in Invoice : DismissReview(i) \/ RejectInvoice(i)
            \/ \E t \in Transfer, u \in User : AssignDeposit(t, u)
            \/ \E t \in Transfer : IgnoreDeposit(t)
      <2>1. staff' = staff  BY <1>10 DEF DismissReview, RejectInvoice, AssignDeposit, IgnoreDeposit
      <2> QED  BY <2>1 DEF StaffMove
<1>11. CASE Staff
      BY <1>11, <1>4, <1>5, <1>6, <1>7, <1>8, <1>9, <1>10, Zenon DEF Staff
<1>12. CASE Watch
      <2>1. staff' = staff
            BY <1>12 DEF Watch, RecordDeposit, EarlierCredit, ListOpen, CreditExact, CreditLate, CreditWallet,
               CreditFit, MarkCredited, WatcherFails
      <2> QED  BY <2>1 DEF StaffMove
<1>13. CASE Customers
      <2>1. staff' = staff
            BY <1>13 DEF Customers, CreateCryptoInvoice, Send, RequestInvoiceReview, LinkWallet,
               ClaimWalletDeposit, UnlinkWallet, DeleteAccount
      <2> QED  BY <2>1 DEF StaffMove
<1>14. CASE Time
      <2>1. staff' = staff  BY <1>14 DEF Time, Deadline, WindowPasses, ExpireStalePendingInvoices
      <2> QED  BY <2>1 DEF StaffMove
<1> QED  BY <1>11, <1>12, <1>13, <1>14 DEF Next

\* A wallet link takes the list of what its address sent, and works it off.
ClaimerMove ==
  \/ claimer' = claimer
  \/ claimer' = ClaimerIdle
  \/ /\ claimer = ClaimerIdle /\ OthersMayStart /\ staff' = staff
     /\ \E u \in User, T \in SUBSET Transfer :
          (\A t \in T : dep[t] # "unseen") /\ claimer' = [who |-> u, todo |-> T]
  \/ /\ claimer # ClaimerIdle /\ staff' = staff
     /\ \E T \in SUBSET claimer.todo : claimer' = [who |-> claimer.who, todo |-> T]

\* What the rest may become: wallets, accounts and ages keep their types, and time goes on.
RestMove ==
  /\ wallet' \in [Address -> User \cup {None}]
  /\ deleted' \subseteq User /\ deleted \subseteq deleted'
  /\ age' \in [Invoice -> {"fresh", "due", "old"}]
  /\ \A i \in Invoice : age[i] = "old" => age'[i] = "old"

\* Every step moves the wallet links along, and time forward.
LEMMA OtherMoves ==
  ASSUME SaneInv, Next
  PROVE  ClaimerMove /\ RestMove
<1>1. /\ wallet \in [Address -> User \cup {None}] /\ deleted \subseteq User
      /\ age \in [Invoice -> {"fresh", "due", "old"}] /\ claimer \in ClaimerType
      BY Types DEF SaneInv
<1>2. UNCHANGED <<age, wallet, deleted>> => RestMove  BY <1>1 DEF RestMove
<1>3. CASE Watch
      <2>1. UNCHANGED <<age, wallet, deleted, claimer>>
            BY <1>3 DEF Watch, RecordDeposit, EarlierCredit, ListOpen, CreditExact, CreditLate, CreditWallet,
               CreditFit, MarkCredited, WatcherFails
      <2> QED  BY <1>2, <2>1 DEF ClaimerMove
<1>4. CASE Staff
      <2>1. UNCHANGED <<age, wallet, deleted, claimer>>
            BY <1>4 DEF Staff, StartReviewConfirm, DismissReview, RejectInvoice, StartConfirm,
               ReviewCreditDeposit, StaffCredit, StaffMark, SetReviewResolved, AssignDeposit, IgnoreDeposit
      <2> QED  BY <1>2, <2>1 DEF ClaimerMove
<1>5. CASE Time
      <2>1. UNCHANGED <<wallet, deleted, claimer>>
            BY <1>5 DEF Time, Deadline, WindowPasses, ExpireStalePendingInvoices
      <2>2. age' = age \/ \E i \in Invoice : age[i] # "old" /\ (age' = [age EXCEPT ![i] = "due"]
                                                            \/ age' = [age EXCEPT ![i] = "old"])
            BY <1>5 DEF Time, Deadline, WindowPasses, ExpireStalePendingInvoices
      <2> QED  BY <1>1, <2>1, <2>2 DEF ClaimerMove, RestMove
<1>6. CASE \/ \E u \in User, i \in Invoice : CreateCryptoInvoice(u, i)
           \/ \E t \in Transfer : Send(t)
           \/ \E i \in Invoice, x \in Tx : RequestInvoiceReview(i, x)
      <2>1. UNCHANGED <<age, wallet, deleted, claimer>>
            BY <1>6 DEF CreateCryptoInvoice, Send, RequestInvoiceReview
      <2> QED  BY <1>2, <2>1 DEF ClaimerMove
<1>7. CASE (\E a \in Address : UnlinkWallet(a)) \/ (\E u \in User : DeleteAccount(u))
      <2>1. UNCHANGED <<age, claimer>>  BY <1>7 DEF UnlinkWallet, DeleteAccount
      <2>2. /\ wallet' \in [Address -> User \cup {None}]
            /\ deleted' \subseteq User /\ deleted \subseteq deleted'
            BY <1>1, <1>7 DEF UnlinkWallet, DeleteAccount
      <2> QED  BY <1>1, <2>1, <2>2 DEF ClaimerMove, RestMove
<1>8. ASSUME NEW u \in User, NEW a \in Address, LinkWallet(u, a) PROVE ClaimerMove /\ RestMove
      <2> DEFINE T == {t \in Transfer : Sender[t] = a /\ dep[t] \in {"unmatched", "admin_ignored"}}
      <2>1. /\ claimer = ClaimerIdle /\ OthersMayStart /\ staff' = staff
            /\ claimer' = [who |-> u, todo |-> T]
            /\ UNCHANGED <<age, deleted>> /\ wallet' = [wallet EXCEPT ![a] = u]
            BY <1>8, Zenon DEF LinkWallet
      <2>2. T \in SUBSET Transfer /\ \A t \in T : dep[t] # "unseen"  OBVIOUS
      <2>3. wallet' \in [Address -> User \cup {None}]  BY <1>1, <2>1
      <2> HIDE DEF T
      <2>4. ClaimerMove  BY <2>1, <2>2, Zenon DEF ClaimerMove
      <2> QED  BY <1>1, <2>1, <2>3, <2>4 DEF RestMove
<1>9. CASE ClaimWalletDeposit
      <2>1. UNCHANGED <<age, wallet, deleted, staff>> /\ claimer # ClaimerIdle
            BY <1>9 DEF ClaimWalletDeposit
      <2>2. CASE claimer' = ClaimerIdle  BY <1>2, <2>1, <2>2 DEF ClaimerMove
      <2>3. ASSUME NEW t \in claimer.todo, claimer' = [claimer EXCEPT !.todo = @ \ {t}]
            PROVE  ClaimerMove /\ RestMove
            <3>1. [claimer EXCEPT !.todo = claimer.todo \ {t}] = [who |-> claimer.who, todo |-> claimer.todo \ {t}]
                  BY <1>1 DEF ClaimerType
            <3>2. claimer' = [who |-> claimer.who, todo |-> claimer.todo \ {t}]  BY <2>3, <3>1
            <3>3. claimer.todo \ {t} \in SUBSET claimer.todo  OBVIOUS
            <3>4. ClaimerMove  BY <2>1, <3>2, <3>3, Zenon DEF ClaimerMove
            <3> QED  BY <1>2, <2>1, <3>4
      <2> QED  BY <1>9, <2>2, <2>3, Zenon DEF ClaimWalletDeposit
<1>10. CASE Customers
      BY <1>10, <1>6, <1>7, <1>8, <1>9, Zenon DEF Customers
<1> QED  BY <1>3, <1>4, <1>5, <1>10 DEF Next

-----------------------------------------------------------------------------
(* What no interleaving breaks.                                            *)

\* A record of an invoice with some of its fields replaced is one.
LEMMA InvoiceTypes ==
  ASSUME SaneInv, Next
  PROVE  inv' \in [Invoice -> InvoiceType]
<1>1. /\ TypeOK /\ ThreadsOK /\ InvoicesOK /\ RowsOK
      /\ inv \in [Invoice -> InvoiceType]
      BY Types DEF SaneInv
<1>2. CASE KeepsInvoices
      BY <1>1, <1>2, RowsOnlyGrow
<1>3. CASE CreditExact \/ CreditLate \/ CreditFit
      <2>1. CASE inv' = inv
            BY <1>1, <2>1
      <2>2. CASE inv' # inv
            <3>1. PICK i \in watcher.cand, cents \in Nat, allow \in BOOLEAN :
                    CreditInvoice(i, cents, allow, [watcher EXCEPT !.cand =
                      IF watcher.pc = "exact" THEN watcher.cand \ {i} ELSE {}])
                  BY <1>3, <2>2, RuleSteps
            <3>2. i \in Invoice /\ Created(i)
                  BY <1>1, Types DEF ThreadsOK, WatcherType
            <3>3. watcher.pc # "idle"
                  BY <1>3 DEF CreditExact, CreditLate, CreditFit
            <3>4. watcher.t \in Transfer
                  BY <1>1, <3>3 DEF ThreadsOK
            <3> QED  BY <1>1, <3>1, <3>2, <3>4, CreditInvoiceEffect
      <2> QED  BY <2>1, <2>2
<1>4. CASE StaffCredit
      <2>1. staff.pc = "credit"  BY <1>4 DEF StaffCredit
      <2>2. /\ staff.i \in Invoice /\ Created(staff.i) /\ staff.key \in Tx /\ staff.review \in BOOLEAN
            BY <1>1, <2>1, Types DEF ThreadsOK, StaffType
      <2>3. ConfirmAndCredit(staff.i, staff.key, staff.key, TotalCredits, staff.review)
            BY <1>4 DEF StaffCredit
      <2>4. \/ Refused(staff.i, staff.key) \/ CreditedBefore(staff.i, staff.key)
            \/ CreditsNow(staff.i, staff.key, staff.key, TotalCredits)
            BY <1>1, <2>2, <2>3, ConfirmEffect
      <2>5. inv' = inv \/ Confirms(staff.i, staff.key)
            BY <2>4 DEF Refused, CreditedBefore, CreditsNow
      <2> QED  BY <1>1, <2>5 DEF Confirms
<1>5. CASE SetReviewResolved
      <2>1. staff.pc = "close"  BY <1>5 DEF SetReviewResolved
      <2>2. staff.i \in Invoice  BY <1>1, <2>1 DEF ThreadsOK
      <2>3. staff.t # None => TxOf[staff.t] \in Tx
            BY <1>1, Types, DepositsAssumption DEF StaffType
      <2> DEFINE s == IF staff.t # None THEN "confirmed" ELSE inv[staff.i].status
                 x == IF staff.t # None /\ inv[staff.i].status # "confirmed"
                      THEN TxOf[staff.t] ELSE inv[staff.i].tx
      <2>4. s \in InvoiceStatus /\ x \in Tx \cup {None}
            BY <1>1, <2>2, <2>3 DEF InvoiceType, InvoiceStatus
      <2>5. inv' = [inv EXCEPT ![staff.i] = [inv[staff.i] EXCEPT !.review = "closed", !.status = s, !.tx = x]]
            BY <1>1, <1>5, <2>2 DEF SetReviewResolved
      <2> HIDE DEF s, x
      <2>6. [inv[staff.i] EXCEPT !.review = "closed", !.status = s, !.tx = x] \in InvoiceType
            BY <1>1, <2>2, <2>4 DEF InvoiceType, InvoiceStatus
      <2> QED  BY <1>1, <2>2, <2>5, <2>6
<1>6. CASE ExpireStalePendingInvoices
      <2>1. \A i \in Invoice : [inv[i] EXCEPT !.status = "expired"] \in InvoiceType
            BY <1>1 DEF InvoiceType, InvoiceStatus
      <2> QED  BY <1>1, <1>6, <2>1 DEF ExpireStalePendingInvoices
<1>7. ASSUME NEW u \in User, NEW i \in Invoice, CreateCryptoInvoice(u, i)
      PROVE  inv' \in [Invoice -> InvoiceType]
      <2>1. PICK e \in 1 .. MaxExtra + 1 + Cardinality(Invoice) :
              inv' = [inv EXCEPT ![i] = [NoInvoice EXCEPT !.status = "pending", !.owner = u, !.units = Base + e]]
            BY <1>7 DEF CreateCryptoInvoice
      <2>2. Base + e \in Nat
            <3>1. Cardinality(Invoice) \in Nat  BY FS_CardinalityType, DepositsAssumption
            <3> QED  BY <3>1, DepositsAssumption
      <2>3. NoInvoice \in InvoiceType  BY DEF NoInvoice, InvoiceType, InvoiceStatus
      <2>4. [NoInvoice EXCEPT !.status = "pending", !.owner = u, !.units = Base + e] \in InvoiceType
            BY <2>2, <2>3 DEF InvoiceType, InvoiceStatus
      <2> DEFINE new == [NoInvoice EXCEPT !.status = "pending", !.owner = u, !.units = Base + e]
      <2>5. inv' = [inv EXCEPT ![i] = new] /\ new \in InvoiceType  BY <2>1, <2>4
      <2> HIDE DEF new
      <2> QED  BY <1>1, <2>5
<1>8. ASSUME NEW i \in Invoice, NEW x \in Tx, RequestInvoiceReview(i, x)
      PROVE  inv' \in [Invoice -> InvoiceType]
      <2>1. inv' = [inv EXCEPT ![i] = [inv[i] EXCEPT !.tx = x, !.review = "open"]]
            BY <1>1, <1>8 DEF RequestInvoiceReview
      <2>2. [inv[i] EXCEPT !.tx = x, !.review = "open"] \in InvoiceType
            BY <1>1 DEF InvoiceType
      <2> QED  BY <1>1, <2>1, <2>2
<1>9. ASSUME NEW u \in User, DeleteAccount(u)
      PROVE  inv' \in [Invoice -> InvoiceType]
      <2>1. \A i \in Invoice : [inv[i] EXCEPT !.status = "rejected"] \in InvoiceType
            BY <1>1 DEF InvoiceType, InvoiceStatus
      <2> QED  BY <1>1, <1>9, <2>1 DEF DeleteAccount
<1>10. ASSUME NEW i \in Invoice, DismissReview(i)
      PROVE  inv' \in [Invoice -> InvoiceType]
      <2>1. inv' = [inv EXCEPT ![i] = [inv[i] EXCEPT !.review = "closed"]]
            BY <1>10 DEF DismissReview
      <2>2. [inv[i] EXCEPT !.review = "closed"] \in InvoiceType  BY <1>1 DEF InvoiceType
      <2> QED  BY <1>1, <2>1, <2>2
<1>11. ASSUME NEW i \in Invoice, RejectInvoice(i)
      PROVE  inv' \in [Invoice -> InvoiceType]
      <2> DEFINE v == IF inv[i].review = "open" THEN "closed" ELSE inv[i].review
      <2>1. inv' = [inv EXCEPT ![i] = [inv[i] EXCEPT !.status = "rejected", !.review = v]]
            BY <1>1, <1>11 DEF RejectInvoice
      <2>2. v \in {"none", "open", "closed"}  BY <1>1 DEF InvoiceType
      <2> HIDE DEF v
      <2>3. [inv[i] EXCEPT !.status = "rejected", !.review = v] \in InvoiceType
            BY <1>1, <2>2 DEF InvoiceType, InvoiceStatus
      <2> QED  BY <1>1, <2>1, <2>3
<1> QED  BY <1>2, <1>3, <1>4, <1>5, <1>6, <1>7, <1>8, <1>9, <1>10, <1>11, Steps DEF WritesInvoices

\* Types, the first of what every interleaving keeps.
LEMMA TypesKept ==
  ASSUME SaneInv, Next
  PROVE  TypeOK'
<1>1. /\ TypeOK /\ ThreadsOK
      /\ watcher \in WatcherType /\ staff \in StaffType /\ claimer \in ClaimerType /\ rows \subseteq RowType
      BY Types DEF SaneInv
<1>2. inv' \in [Invoice -> InvoiceType]  BY InvoiceTypes
<1>3. LogTypes  BY LogFates
<1>4. ClaimerMove /\ RestMove /\ WatcherMove /\ StaffMove
      BY OtherMoves, WatcherMoves, StaffMoves
<1>5. rows' \subseteq RowType  BY <1>1, RowEffect DEF NewRow
<1>6. watcher' \in WatcherType
      <2>1. /\ watcher.pc \in WatcherPC /\ watcher.t \in Transfer \cup {None}
            /\ watcher.open \in SUBSET Invoice /\ watcher.cand \in SUBSET Invoice
            /\ watcher.who \in User \cup {None}
            BY <1>1, WatcherTypes
      <2>2. /\ {} \in SUBSET Invoice /\ Pending \in SUBSET Invoice /\ RecentlyExpired \in SUBSET Invoice
            /\ None \in User \cup {None} /\ None \in Transfer \cup {None}
            /\ {"idle", "earlier", "list", "exact", "late", "wallet", "fit", "mark"} = WatcherPC
            BY DEF Pending, RecentlyExpired, WatcherPC
      <2>3. WatcherIdle \in WatcherType  BY <2>2, WatcherTypes DEF WatcherIdle
      <2>4. \A p \in WatcherPC, o, c \in SUBSET Invoice, u \in User \cup {None} :
              WatcherAt(p, watcher.t, o, c, u) \in WatcherType
            BY <2>1, WatcherTypes
      <2>5. ASSUME NEW s \in Transfer, watcher' = WatcherAt("earlier", s, {}, {}, None)
            PROVE  watcher' \in WatcherType
            BY <2>2, <2>5, WatcherTypes
      <2>6. ASSUME NEW o \in SUBSET watcher.open, NEW c \in SUBSET (watcher.open \cup RecentlyExpired)
            PROVE  WatcherAt("fit", watcher.t, o, c, watcher.who) \in WatcherType
            <3>1. o \in SUBSET Invoice /\ c \in SUBSET Invoice  BY <2>1, <2>2
            <3> QED  BY <2>1, <2>2, <2>4, <3>1
      <2>7. \A i : (IF watcher.pc = "exact" THEN watcher.cand \ {i} ELSE {}) \in SUBSET Invoice
            BY <2>1
      <2>8. LET late == {i \in RecentlyExpired : ExactAmount(i, watcher.t)} IN
            (IF Cardinality(late) = 1 THEN late ELSE {}) \in SUBSET Invoice
            BY <2>2
      <2>9. {i \in Pending : ExactAmount(i, watcher.t)} \in SUBSET Invoice  BY <2>2
      <2> QED
            <3>1. CASE watcher' = watcher \/ watcher' = WatcherIdle
                  BY <3>1, <1>1, <2>3
            <3>2. CASE \E s \in Transfer : watcher' = WatcherAt("earlier", s, {}, {}, None)
                  BY <3>2, <2>5
            <3>3. CASE \E p \in WatcherPC, o, c \in SUBSET Invoice, u \in User \cup {None} :
                         watcher' = WatcherAt(p, watcher.t, o, c, u)
                  BY <3>3, <2>4
            <3>4. CASE \E o \in SUBSET watcher.open, c \in SUBSET (watcher.open \cup RecentlyExpired) :
                         watcher' = WatcherAt("fit", watcher.t, o, c, watcher.who)
                  BY <3>4, <2>6
            <3>5. "list" \in WatcherPC /\ "exact" \in WatcherPC /\ "late" \in WatcherPC
                  /\ "wallet" \in WatcherPC /\ "mark" \in WatcherPC
                  BY DEF WatcherPC
            <3> QED  BY <3>1, <3>2, <3>3, <3>4, <3>5, <1>4, <2>1, <2>2, <2>7, <2>8, <2>9, Zenon DEF WatcherMove
<1>7. staff' \in StaffType
      <2>1. /\ staff.i \in Invoice \cup {None} /\ staff.key \in Tx \cup {None}
            /\ staff.t \in Transfer \cup {None} /\ staff.review \in BOOLEAN
            BY <1>1 DEF StaffType
      <2>2. /\ "idle" \in StaffPC /\ "credit" \in StaffPC /\ "mark" \in StaffPC /\ "close" \in StaffPC
            /\ None \in Invoice \cup {None} /\ None \in Tx \cup {None} /\ None \in Transfer \cup {None}
            /\ FALSE \in BOOLEAN
            BY DEF StaffPC
      <2>3. /\ StaffIdle \in StaffType
            /\ StaffAt("mark", staff.i, staff.key, staff.t, staff.review) \in StaffType
            /\ StaffAt("close", staff.i, staff.key, staff.t, staff.review) \in StaffType
            BY <2>1, <2>2, StaffUpdates, Zenon DEF StaffIdle
      <2>4. \A i \in Invoice, x \in Tx, b \in BOOLEAN : StaffAt("credit", i, x, None, b) \in StaffType
            <3> TAKE i \in Invoice, x \in Tx, b \in BOOLEAN
            <3>1. i \in Invoice \cup {None} /\ x \in Tx \cup {None}  OBVIOUS
            <3> QED  BY <2>2, <3>1, StaffUpdates, Zenon
      <2>5. \A i \in Invoice, t \in Transfer : StaffAt("close", i, None, t, FALSE) \in StaffType
            <3> TAKE i \in Invoice, t \in Transfer
            <3>1. i \in Invoice \cup {None} /\ t \in Transfer \cup {None}  OBVIOUS
            <3> QED  BY <2>2, <3>1, StaffUpdates, Zenon
      <2> QED  BY <1>1, <1>4, <2>3, <2>4, <2>5, Zenon DEF StaffMove
<1>8. claimer' \in ClaimerType
      <2>1. ClaimerIdle \in ClaimerType  BY DEF ClaimerIdle, ClaimerType
      <2>2. \A u \in User \cup {None}, T \in SUBSET Transfer : [who |-> u, todo |-> T] \in ClaimerType
            BY DEF ClaimerType
      <2>3. claimer.who \in User \cup {None} /\ claimer.todo \in SUBSET Transfer
            BY <1>1 DEF ClaimerType
      <2> QED  BY <1>1, <1>4, <2>1, <2>2, <2>3 DEF ClaimerMove
<1> QED  BY <1>2, <1>3, <1>4, <1>5, <1>6, <1>7, <1>8, TypesNext DEF LogTypes, RestMove

\* Invoices keep an owner, an amount, and the transaction a review is open for.
LEMMA InvoicesKept ==
  ASSUME SaneInv, Next
  PROVE  InvoicesOK'
<1>1. \A i \in Invoice : Fate(i)  BY Fates
<1>2. InvoicesOK  BY DEF SaneInv
<1>3. ASSUME NEW i \in Invoice
      PROVE  /\ inv'[i].status # "none" => inv'[i].owner \in User /\ inv'[i].units > 0
             /\ inv'[i].status = "none" => inv'[i].review = "none"
             /\ inv'[i].review = "open" => inv'[i].tx \in Tx
      <2>1. Fate(i)  BY <1>1
      <2>2. inv'[i].status # "none" => inv'[i].owner \in User /\ inv'[i].units > 0
            BY <2>1, Zenon DEF Fate
      <2>3. inv'[i].review = "open" => inv'[i].tx \in Tx  BY <2>1, Zenon DEF Fate
      <2>4. inv'[i].status = "none" => inv'[i] = inv[i]  BY <2>1, Zenon DEF Fate
      <2> QED  BY <1>2, <2>2, <2>3, <2>4 DEF InvoicesOK, Created
<1> QED  BY <1>3 DEF InvoicesOK, Created

\* Amounts stay what the payer sent.
LEMMA AmountsKept ==
  ASSUME SaneInv, Next
  PROVE  AmountsOK'
<1>1. /\ TypeOK /\ InvoicesOK /\ AmountsOK /\ meant \in [Transfer -> Invoice \cup {None}]
      BY Types DEF SaneInv
<1>2. LogTypes /\ \A t \in Transfer : LogFate(t)  BY LogFates
<1>3. \A i \in Invoice : Fate(i)  BY Fates
<1>4. ASSUME NEW t \in Transfer
      PROVE  /\ dep'[t] # "unseen" => amount'[t] > 0
             /\ meant'[t] # None => inv'[meant'[t]].status # "none" /\ amount'[t] = inv'[meant'[t]].units
      <2>1. LogFate(t)  BY <1>2
      <2>2. amount[t] \in Nat /\ meant'[t] \in Invoice \cup {None}  BY <1>1, <1>2, Types DEF LogTypes
      <2>3. dep'[t] # "unseen" => amount'[t] > 0  BY <2>1 DEF LogFate
      <2>4. ASSUME meant'[t] # None
            PROVE  inv'[meant'[t]].status # "none" /\ amount'[t] = inv'[meant'[t]].units
            <3>1. inv[meant'[t]].status # "none" /\ amount'[t] = inv[meant'[t]].units
                  <4>1. CASE amount[t] > 0
                        BY <4>1, <2>1, <2>4, <1>1 DEF LogFate, AmountsOK, Created
                  <4>2. CASE amount[t] = 0 /\ meant'[t] # meant[t]
                        BY <4>2, <2>1 DEF LogFate, Pending, RecentlyExpired
                  <4>3. CASE amount[t] = 0 /\ meant'[t] = meant[t]
                        BY <4>3, <2>2, <2>4, <1>1 DEF AmountsOK, InvoicesOK
                  <4> QED  BY <4>1, <4>2, <4>3, <2>2
            <3>2. Fate(meant'[t])  BY <1>3, <2>2, <2>4
            <3> QED  BY <3>1, <3>2 DEF Fate
      <2> QED  BY <2>3, <2>4
<1> QED  BY <1>4 DEF AmountsOK, Created

\* Rows stay rows of logged transfers and confirmed invoices.
LEMMA RowsKept ==
  ASSUME SaneInv, Next
  PROVE  RowsOK'
<1>1. /\ TypeOK /\ ThreadsOK /\ InvoicesOK /\ RowsOK /\ rows \subseteq RowType
      /\ watcher \in WatcherType
      BY Types DEF SaneInv
<1>2. \A t \in Transfer : LogFate(t)  BY LogFates
<1>3. \A i \in Invoice : Fate(i)  BY Fates
<1>4. ASSUME NEW r \in rows'
      PROVE  /\ r.dep \in Transfer => dep'[r.dep] # "unseen"
             /\ r.ref # None => inv'[r.ref].status = "confirmed" /\ r.user = inv'[r.ref].owner
      <2>1. CASE r \in rows
            <3>1. r.ref # None => r.ref \in Invoice  BY <1>1, <2>1 DEF RowType
            <3> QED  BY <1>1, <1>2, <1>3, <2>1, <3>1 DEF RowsOK, LogFate, Fate
      <2>2. CASE r \notin rows
            <3>1. PaysInvoice(r) \/ PaysByHand(r) \/ PaysDeposit(r)
                  BY <2>2, RowEffect DEF NewRow
            <3>2. CASE PaysInvoice(r)
                  <4>1. r.ref \in Invoice /\ Created(r.ref)
                        BY <1>1, <3>2, WatcherTypes DEF PaysInvoice, ThreadsOK
                  <4>2. watcher.pc # "idle"  BY <3>2 DEF PaysInvoice
                  <4>3. dep'[r.dep] # "unseen"
                        BY <1>1, <3>2, <4>2 DEF PaysInvoice, ThreadsOK
                  <4> QED  BY <1>3, <3>2, <4>1, <4>3 DEF PaysInvoice, Fate, Created
            <3>3. CASE PaysByHand(r)
                  <4>1. r.ref \in Invoice /\ Created(r.ref) /\ r.dep \in Tx
                        BY <1>1, <3>3 DEF PaysByHand, ThreadsOK
                  <4>2. r.dep \notin Transfer  BY <4>1, DepositsAssumption
                  <4> QED  BY <1>3, <3>3, <4>1, <4>2 DEF PaysByHand, Fate, Created
            <3>4. CASE PaysDeposit(r)
                  BY <1>2, <3>4 DEF PaysDeposit, LogFate
            <3> QED  BY <3>1, <3>2, <3>3, <3>4
      <2> QED  BY <2>1, <2>2
<1> QED  BY <1>4 DEF RowsOK

\* The three threads go on holding things that exist.
LEMMA ThreadsKept ==
  ASSUME SaneInv, Next
  PROVE  ThreadsOK'
<1>1. /\ TypeOK /\ ThreadsOK /\ InvoicesOK
      /\ watcher \in WatcherType /\ staff \in StaffType /\ claimer \in ClaimerType
      BY Types DEF SaneInv
<1>2. \A t \in Transfer : dep[t] # "unseen" => dep'[t] # "unseen"  BY LogFates DEF LogFate
<1>3. \A i \in Invoice : Created(i) => inv'[i].status # "none"  BY Fates DEF Fate, Created
<1>4. ClaimerMove /\ WatcherMove /\ StaffMove  BY OtherMoves, WatcherMoves, StaffMoves
<1>5. /\ watcher'.pc # "idle" => watcher'.t \in Transfer /\ dep'[watcher'.t] # "unseen"
      /\ \A i \in watcher'.open \cup watcher'.cand : i \in Invoice /\ Created(i)
      <2>1. /\ watcher.pc # "idle" => watcher.t \in Transfer /\ dep'[watcher.t] # "unseen"
            /\ \A i \in watcher.open \cup watcher.cand : i \in Invoice /\ Created(i)
            BY <1>1, <1>2, WatcherTypes DEF ThreadsOK
      <2>2. \A i \in Pending \cup RecentlyExpired : i \in Invoice /\ Created(i)
            BY DEF Pending, RecentlyExpired, Created
      <2>3. CASE watcher' = watcher
            BY <2>1, <2>3
      <2>4. CASE watcher' = WatcherIdle
            BY <2>4, WatcherFields DEF WatcherIdle
      <2>5. ASSUME NEW s \in Transfer, dep'[s] # "unseen", watcher' = WatcherAt("earlier", s, {}, {}, None)
            PROVE  /\ watcher'.pc # "idle" => watcher'.t \in Transfer /\ dep'[watcher'.t] # "unseen"
                   /\ \A i \in watcher'.open \cup watcher'.cand : i \in Invoice /\ Created(i)
            BY <2>5, WatcherFields
      <2>6. ASSUME watcher.pc # "idle", NEW p,
                   NEW o \in SUBSET (watcher.open \cup watcher.cand \cup Pending \cup RecentlyExpired),
                   NEW c \in SUBSET (watcher.open \cup watcher.cand \cup Pending \cup RecentlyExpired),
                   NEW u, watcher' = WatcherAt(p, watcher.t, o, c, u)
            PROVE  /\ watcher'.pc # "idle" => watcher'.t \in Transfer /\ dep'[watcher'.t] # "unseen"
                   /\ \A i \in watcher'.open \cup watcher'.cand : i \in Invoice /\ Created(i)
            <3>1. watcher'.t = watcher.t /\ watcher'.open = o /\ watcher'.cand = c
                  BY <2>6, WatcherFields
            <3> QED  BY <2>1, <2>2, <2>6, <3>1
      <2> DEFINE All == watcher.open \cup watcher.cand \cup Pending \cup RecentlyExpired
      <2>7. /\ {} \in SUBSET All /\ watcher.open \in SUBSET All /\ watcher.cand \in SUBSET All
            /\ Pending \in SUBSET All /\ {i \in Pending : ExactAmount(i, watcher.t)} \in SUBSET All
            /\ \A i : (IF watcher.pc = "exact" THEN watcher.cand \ {i} ELSE {}) \in SUBSET All
            /\ LET late == {i \in RecentlyExpired : ExactAmount(i, watcher.t)} IN
               (IF Cardinality(late) = 1 THEN late ELSE {}) \in SUBSET All
            OBVIOUS
      <2>8. ASSUME NEW o \in SUBSET watcher.open, NEW c \in SUBSET (watcher.open \cup RecentlyExpired)
            PROVE  o \in SUBSET All /\ c \in SUBSET All
            OBVIOUS
      <2> HIDE DEF All
      <2>9. \/ watcher' = watcher \/ watcher' = WatcherIdle
            \/ \E s \in Transfer : dep'[s] # "unseen" /\ watcher' = WatcherAt("earlier", s, {}, {}, None)
            \/ /\ watcher.pc # "idle"
               /\ \E p, u : \E o, c \in SUBSET All : watcher' = WatcherAt(p, watcher.t, o, c, u)
            <3>1. CASE watcher.pc = "idle"
                  BY <3>1, <1>4 DEF WatcherMove
            <3>2. CASE watcher.pc # "idle"
                  BY <3>2, <1>4, <2>7, <2>8, Zenon DEF WatcherMove
            <3> QED  BY <3>1, <3>2
      <2> QED  BY <2>3, <2>4, <2>5, <2>6, <2>9, Zenon DEF All
<1>6. /\ staff'.pc # "idle" => staff'.i \in Invoice /\ Created(staff'.i)
      /\ staff'.pc \in {"credit", "mark"} => staff'.key \in Tx /\ staff'.t = None
      <2>1. \A i \in Invoice : inv[i].review = "open" => Created(i)
            BY <1>1 DEF InvoicesOK
      <2>2. CASE staff' = staff
            BY <2>2, <1>1 DEF ThreadsOK
      <2>3. CASE staff' = StaffIdle
            BY <2>3, StaffAreIdle
      <2>4. ASSUME NEW i \in Invoice, NEW x \in Tx, NEW b \in BOOLEAN, Created(i),
                   staff' = StaffAt("credit", i, x, None, b)
            PROVE  /\ staff'.pc # "idle" => staff'.i \in Invoice /\ Created(staff'.i)
                   /\ staff'.pc \in {"credit", "mark"} => staff'.key \in Tx /\ staff'.t = None
            BY <2>4, StaffFields
      <2>5. CASE staff.pc = "credit" /\ staff' = StaffAt("mark", staff.i, staff.key, staff.t, staff.review)
            BY <2>5, <1>1, StaffFields DEF ThreadsOK
      <2>6. CASE staff.pc = "mark" /\ staff' = StaffAt("close", staff.i, staff.key, staff.t, staff.review)
            BY <2>6, <1>1, StaffFields DEF ThreadsOK
      <2>7. ASSUME NEW i \in Invoice, NEW t \in Transfer, inv[i].review = "open",
                   staff' = StaffAt("close", i, None, t, FALSE)
            PROVE  /\ staff'.pc # "idle" => staff'.i \in Invoice /\ Created(staff'.i)
                   /\ staff'.pc \in {"credit", "mark"} => staff'.key \in Tx /\ staff'.t = None
            <3>1. staff'.pc = "close" /\ staff'.i = i  BY <2>7, Zenon DEF StaffAt
            <3> QED  BY <2>1, <2>7, <3>1
      <2> QED  BY <1>4, <2>2, <2>3, <2>4, <2>5, <2>6, <2>7, Zenon DEF StaffMove
<1>7. /\ claimer' # ClaimerIdle => claimer'.who \in User
      /\ \A t \in claimer'.todo : t \in Transfer /\ dep'[t] # "unseen"
      <2>1. \A t \in claimer.todo : t \in Transfer /\ dep'[t] # "unseen"
            BY <1>1, <1>2 DEF ThreadsOK, ClaimerType
      <2> QED  BY <1>1, <1>2, <1>4, <2>1 DEF ThreadsOK, ClaimerMove, ClaimerIdle
<1>8. /\ \A i \in watcher'.open \cup watcher'.cand : inv'[i].status # "none"
      /\ staff'.pc # "idle" => staff'.i \in Invoice /\ inv'[staff'.i].status # "none"
      BY <1>3, <1>5, <1>6
<1> QED  BY <1>5, <1>6, <1>7, <1>8 DEF ThreadsOK, Created

\* A rejection stands.
LEMMA RejectionKept ==
  ASSUME SaneInv, Next
  PROVE  RejectionStands'
<1>1. TypeOK /\ ThreadsOK /\ InvoicesOK /\ RejectionStands  BY DEF SaneInv
<1>2. StaffMove /\ deleted \subseteq deleted'  BY StaffMoves, OtherMoves DEF RestMove
<1>3. ASSUME NEW i \in Invoice, inv'[i].status = "rejected", inv'[i].owner \notin deleted'
      PROVE  inv'[i].review # "open" /\ ~(staff'.pc = "close" /\ staff'.t # None /\ staff'.i = i)
      <2>1. Fate(i)  BY Fates
      <2>2. CASE inv[i].status = "rejected"
            <3>1. inv[i].owner \notin deleted  BY <1>2, <1>3, <2>1, <2>2 DEF Fate
            <3>2. inv[i].review # "open" /\ ~(staff.pc = "close" /\ staff.t # None /\ staff.i = i)
                  BY <1>1, <2>2, <3>1 DEF RejectionStands
            <3>3. inv'[i].review # "open"  BY <1>3, <2>1, <3>2 DEF Fate
            <3>4. ~(staff'.pc = "close" /\ staff'.t # None /\ staff'.i = i)
                  <4>1. CASE staff.pc = "mark" /\ staff' = StaffAt("close", staff.i, staff.key, staff.t, staff.review)
                        BY <1>1, <4>1, StaffFields DEF ThreadsOK
                  <4>2. CASE \E j \in Invoice, t \in Transfer :
                               inv[j].review = "open" /\ staff' = StaffAt("close", j, None, t, FALSE)
                        <5>1. PICK j \in Invoice, t \in Transfer :
                                inv[j].review = "open" /\ staff' = StaffAt("close", j, None, t, FALSE)
                              BY <4>2
                        <5>2. staff'.i = j  BY <5>1, Zenon DEF StaffAt
                        <5> QED  BY <3>2, <5>1, <5>2
                  <4>3. CASE staff' = staff
                        BY <3>2, <4>3
                  <4>4. CASE staff' = StaffIdle \/ (\E p \in {"credit", "mark"} : \E j, k, t, b : staff' = StaffAt(p, j, k, t, b))
                        <5>1. CASE staff' = StaffIdle  BY <5>1, StaffAreIdle
                        <5>2. CASE \E p \in {"credit", "mark"} : \E j, k, t, b : staff' = StaffAt(p, j, k, t, b)
                              BY <5>2, StaffFields
                        <5> QED  BY <4>4, <5>1, <5>2
                  <4> QED  BY <1>2, <4>1, <4>2, <4>3, <4>4, Zenon DEF StaffMove
            <3> QED  BY <3>3, <3>4
      <2>3. CASE inv[i].status # "rejected"
            <3>1. inv'[i].review # "open" /\ staff = StaffIdle /\ staff' = staff
                  BY <1>3, <2>1, <2>3 DEF Fate
            <3> QED  BY <3>1, StaffAreIdle
      <2> QED  BY <2>2, <2>3
<1> QED  BY <1>3 DEF RejectionStands

\* Nothing has happened at the start.
LEMMA SaneInit == Init => SaneInv
<1>1. SUFFICES ASSUME Init PROVE SaneInv  OBVIOUS
<1>2. /\ WatcherIdle \in WatcherType /\ StaffIdle \in StaffType /\ ClaimerIdle \in ClaimerType
      /\ NoInvoice \in InvoiceType
      BY DEF WatcherIdle, WatcherAt, WatcherType, StaffIdle, StaffAt, StaffType, ClaimerIdle, ClaimerType,
             NoInvoice, InvoiceType, InvoiceStatus
<1>3. \A i \in Invoice : inv[i].status = "none" /\ inv[i].review = "none" /\ inv[i].tx = None
      BY <1>1 DEF Init, NoInvoice
<1>4. TypeOK  BY <1>1, <1>2, Types DEF Init, DepositStatus
<1>5. /\ watcher.pc = "idle" /\ watcher.open = {} /\ watcher.cand = {}
      /\ staff.pc = "idle" /\ claimer = ClaimerIdle /\ claimer.todo = {}
      BY <1>1, WatcherFields, StaffAreIdle DEF Init, WatcherIdle, ClaimerIdle
<1>6. ThreadsOK  BY <1>5 DEF ThreadsOK
<1>7. InvoicesOK /\ RejectionStands  BY <1>3 DEF InvoicesOK, Created, RejectionStands
<1>8. AmountsOK /\ RowsOK  BY <1>1 DEF Init, AmountsOK, RowsOK
<1> QED  BY <1>4, <1>6, <1>7, <1>8 DEF SaneInv

\* Every step keeps SaneInv, and so does a step in which nothing happens.
LEMMA SaneKept == SaneInv /\ [Next]_vars => SaneInv'
<1>1. ASSUME SaneInv, Next PROVE SaneInv'
      BY <1>1, TypesKept, ThreadsKept, InvoicesKept, AmountsKept, RowsKept, RejectionKept DEF SaneInv
<1>2. ASSUME SaneInv, UNCHANGED vars PROVE SaneInv'
      BY <1>2 DEF vars, SaneInv, TypeOK, ThreadsOK, InvoicesOK, AmountsOK, RowsOK, RejectionStands, Created
<1> QED  BY <1>1, <1>2

\* Types, and that no row pays a rejected invoice, whoever overlaps with whom.
THEOREM SaneHolds == Spec => [](TypeOK /\ RejectedNeverCredited)
<1>1. SaneInv => TypeOK /\ RejectedNeverCredited
      <2>1. ASSUME SaneInv, NEW i \in Invoice, inv[i].status = "rejected", NEW r \in rows PROVE r.ref # i
            <3>1. i # None  BY DepositsAssumption
            <3> QED  BY <2>1, <3>1 DEF SaneInv, RowsOK
      <2> QED  BY <2>1 DEF SaneInv, RejectedNeverCredited
<1> QED  BY <1>1, SaneInit, SaneKept, PTL DEF Spec

\* DecisionIsFinal: no expiry sweep, watcher, review or wallet link takes back what staff or
\* a payment decided of an invoice.
THEOREM DecisionIsFinalHolds == Spec => DecisionIsFinal
<1> DEFINE Final == \A i \in Invoice :
             inv[i].status = "confirmed" \/ (inv[i].status = "rejected" /\ inv[i].owner \notin deleted)
               => inv'[i].status = inv[i].status
<1>1. ASSUME SaneInv, Next PROVE Final
      BY <1>1, Fates DEF SaneInv, RejectionStands, Fate
<1>2. SaneInv /\ [Next]_vars => [Final]_vars  BY <1>1
<1> QED  BY <1>2, SaneInit, SaneKept, PTL DEF Spec, DecisionIsFinal

-----------------------------------------------------------------------------
(* What needs staff who wait, and who confirm nothing twice.               *)

\* While staff are halfway through something, nobody else is.
LEMMA TurnsKept ==
  ASSUME StaffAlone, SaneInv, TakesTurns, Next
  PROVE  TakesTurns'
<1>1. ClaimerMove /\ WatcherMove /\ StaffMove  BY OtherMoves, WatcherMoves, StaffMoves
<1>2. WatcherIdle.pc = "idle" /\ StaffIdle.pc = "idle"  BY WatcherFields, StaffAreIdle DEF WatcherIdle
<1>3. SUFFICES ASSUME staff'.pc # "idle" PROVE watcher' = WatcherIdle /\ claimer' = ClaimerIdle
      BY DEF TakesTurns
<1>4. CASE staff' = staff
      <2>1. staff.pc # "idle" /\ staff # StaffIdle  BY <1>2, <1>3, <1>4
      <2>2. watcher = WatcherIdle /\ claimer = ClaimerIdle  BY <2>1 DEF TakesTurns
      <2>3. ~OthersMayStart  BY <2>1 DEF OthersMayStart
      <2>4. watcher' = WatcherIdle
            BY <1>1, <1>2, <2>2, <2>3 DEF WatcherMove
      <2>5. claimer' = ClaimerIdle  BY <1>1, <2>2, <2>3 DEF ClaimerMove
      <2> QED  BY <2>4, <2>5
<1>5. CASE staff' # staff
      <2>1. watcher' = watcher /\ claimer' = claimer /\ (staff.pc \in {"credit", "mark"} \/ StaffMayStart)
            BY <1>1, <1>2, <1>3, <1>5, Zenon DEF StaffMove
      <2> QED  BY <2>1 DEF TakesTurns, StaffMayStart
<1> QED  BY <1>4, <1>5

\* A row that is new pays a transfer that nothing paid, by its own key or its transaction's.
LEMMA NewRowIsFirst ==
  ASSUME SaneInv, TakesTurns, WatcherSees, StaffSees, NEW r \in RowType,
         PaysInvoice(r) \/ PaysByHand(r) \/ PaysDeposit(r),
         NEW t \in Transfer, r.dep \in {t, TxOf[t]}
  PROVE  RowsOf(t) = {}
<1>1. ThreadsOK /\ Transfer \cap Tx = {} /\ TxOf[t] \in Tx  BY DepositsAssumption DEF SaneInv
<1>2. CASE PaysInvoice(r)
      <2>1. r.dep = watcher.t /\ watcher.t \in Transfer
            BY <1>1, <1>2 DEF PaysInvoice, ThreadsOK
      <2>2. t = watcher.t  BY <1>1, <2>1
      <2> QED  BY <1>2, <2>1, <2>2 DEF PaysInvoice, WatcherSees, RowsOf
<1>3. CASE PaysByHand(r)
      <2>1. r.dep = staff.key /\ staff.key \in Tx /\ staff.pc = "credit"
            BY <1>1, <1>3 DEF PaysByHand, ThreadsOK
      <2>2. TxOf[t] = staff.key  BY <1>1, <2>1
      <2> QED  BY <2>1, <2>2 DEF StaffSees, RowsOf
<1>4. CASE PaysDeposit(r)
      <2>1. t = r.dep  BY <1>1, <1>4 DEF PaysDeposit
      <2> QED  BY <1>4, <2>1 DEF PaysDeposit, CanCredit
<1> QED  BY <1>2, <1>3, <1>4

\* A new row is the first of every transfer it pays.
LEMMA PaidOnceKept ==
  ASSUME SaneInv, TakesTurns, WatcherSees, StaffSees, PaidOnce, Next
  PROVE  PaidOnce'
<1>1. CASE rows' = rows
      BY <1>1 DEF PaidOnce, RowsOf
<1>2. CASE NewRow
      <2>1. PICK r \in RowType : rows' = rows \cup {r} /\ (PaysInvoice(r) \/ PaysByHand(r) \/ PaysDeposit(r))
            BY <1>2 DEF NewRow
      <2>2. \A t \in Transfer : r.dep \in {t, TxOf[t]} => RowsOf(t) = {}
            BY <2>1, NewRowIsFirst
      <2>3. ASSUME NEW t \in Transfer, NEW r1 \in rows', NEW r2 \in rows',
                   r1.dep \in {t, TxOf[t]}, r2.dep \in {t, TxOf[t]}
            PROVE  r1 = r2
            <3>1. CASE r.dep \in {t, TxOf[t]}
                  BY <2>1, <2>2, <2>3, <3>1 DEF RowsOf
            <3>2. CASE r.dep \notin {t, TxOf[t]}
                  BY <2>1, <2>3, <3>2 DEF PaidOnce, RowsOf
            <3> QED  BY <3>1, <3>2
      <2> QED  BY <2>3 DEF PaidOnce, RowsOf
<1> QED  BY <1>1, <1>2, RowEffect

\* An invoice the watcher has yet to try is not paid behind its back.
LEMMA StaysUnpaid ==
  ASSUME StaffAlone, SaneInv, TakesTurns, Next, watcher'.pc \in {"list", "exact", "late", "wallet", "fit"}
  PROVE  /\ \A i \in Invoice : inv[i].status \notin {"none", "confirmed"} =>
              inv'[i].status \notin {"none", "confirmed"}
         /\ \A r \in rows' \ rows : r.dep # TxOf[watcher'.t]
         /\ watcher.pc # "idle" /\ watcher'.t = watcher.t
<1>1. ThreadsOK /\ RowsOK  BY DEF SaneInv
<1>2. WatcherMove  BY WatcherMoves
<1>3. WatcherIdle.pc = "idle"  BY WatcherFields DEF WatcherIdle
<1>4. watcher.pc # "idle" /\ watcher'.t = watcher.t
      <2>1. \A s : watcher' # WatcherAt("earlier", s, {}, {}, None)  BY WatcherFields
      <2>2. CASE watcher' = watcher
            BY <2>2
      <2>3. CASE watcher' # watcher /\ watcher.pc # "idle"
            <3>1. watcher' # WatcherIdle  BY <1>3
            <3>2. \E p, o, c, u : watcher' = WatcherAt(p, watcher.t, o, c, u)
                  BY <1>2, <2>1, <2>3, <3>1, Zenon DEF WatcherMove
            <3> QED  BY <2>3, <3>2, WatcherFields
      <2>4. CASE watcher' # watcher /\ watcher.pc = "idle"
            BY <1>2, <1>3, <2>1, <2>4 DEF WatcherMove
      <2> QED  BY <2>2, <2>3, <2>4
<1>5. staff.pc = "idle"  BY <1>3, <1>4 DEF TakesTurns
<1>6. watcher.t \in Transfer /\ TxOf[watcher.t] \in Tx  BY <1>1, <1>4, DepositsAssumption DEF ThreadsOK
<1>7. \A r \in rows' \ rows : PaysDeposit(r)
      <2>1. ASSUME NEW r, PaysInvoice(r) PROVE FALSE
            <3>1. watcher'.pc = "mark"  BY <2>1, WatcherFields DEF PaysInvoice
            <3> QED  BY <3>1
      <2>2. \A r : ~PaysByHand(r)  BY <1>5 DEF PaysByHand
      <2> QED  BY <2>1, <2>2, RowEffect DEF NewRow
<1>8. \A r \in rows' \ rows : r.dep # TxOf[watcher'.t] /\ r.ref = None
      BY <1>4, <1>6, <1>7, DepositsAssumption DEF PaysDeposit
<1>9. ASSUME NEW i \in Invoice, inv[i].status \notin {"none", "confirmed"}
      PROVE  inv'[i].status \notin {"none", "confirmed"}
      <2>1. Fate(i)  BY Fates
      <2>2. i # None  BY DepositsAssumption
      <2>3. \A r \in rows' : r.ref # i  BY <1>1, <1>8, <1>9, <2>2 DEF RowsOK
      <2> QED  BY <1>5, <1>9, <2>1, <2>3 DEF Fate
<1> QED  BY <1>4, <1>8, <1>9

\* What the watcher has read holds until it writes.
LEMMA WatcherSeesKept ==
  ASSUME StaffAlone, SaneInv, TakesTurns, WatcherSees, Next
  PROVE  WatcherSees'
<1>1. /\ TypeOK /\ ThreadsOK /\ RowsOK /\ watcher \in WatcherType  BY Types DEF SaneInv
<1>2. WatcherMove /\ rows \subseteq rows'  BY WatcherMoves, Fates
<1>3. WatcherIdle.pc = "idle"  BY WatcherFields DEF WatcherIdle
<1>4. ASSUME watcher'.pc \in {"list", "exact", "late", "wallet", "fit"}
      PROVE  /\ \A r \in rows' : r.dep # TxOf[watcher'.t]
             /\ watcher'.pc # "list" =>
                  \A i \in watcher'.open \cup watcher'.cand : inv'[i].status \notin {"none", "confirmed"}
      <2>1. /\ \A i \in Invoice : inv[i].status \notin {"none", "confirmed"} =>
                 inv'[i].status \notin {"none", "confirmed"}
            /\ \A r \in rows' \ rows : r.dep # TxOf[watcher'.t]
            /\ watcher.pc # "idle" /\ watcher'.t = watcher.t
            BY <1>4, StaysUnpaid
      <2> DEFINE Unpaid == {i \in Invoice : inv[i].status \notin {"none", "confirmed"}}
      <2>2. Pending \subseteq Unpaid /\ RecentlyExpired \subseteq Unpaid
            BY DEF Pending, RecentlyExpired
      <2>3. watcher.pc \in {"exact", "late", "wallet", "fit"} =>
              watcher.open \subseteq Unpaid /\ watcher.cand \subseteq Unpaid
            BY <1>1, WatcherTypes DEF WatcherSees
      <2>4. /\ {} \subseteq Unpaid /\ {i \in Pending : ExactAmount(i, watcher.t)} \subseteq Unpaid
            /\ LET late == {i \in RecentlyExpired : ExactAmount(i, watcher.t)} IN
               (IF Cardinality(late) = 1 THEN late ELSE {}) \subseteq Unpaid
            BY <2>2
      <2> HIDE DEF Unpaid
      <2>5. \A s : watcher' # WatcherAt("earlier", s, {}, {}, None)  BY <1>4, WatcherFields
      <2>6. watcher' # WatcherIdle  BY <1>3, <1>4
      <2>7. \A o, c, u : watcher' # WatcherAt("mark", watcher.t, o, c, u)  BY <1>4, WatcherFields
      <2>8. \/ watcher' = watcher
            \/ /\ watcher.pc = "earlier" /\ RowsOf(watcher.t) = {}
               /\ \E o, c, u : watcher' = WatcherAt("list", watcher.t, o, c, u)
            \/ /\ watcher.pc \in {"list", "exact", "late", "wallet", "fit"}
               /\ \E p, o, c, u : o \subseteq Unpaid /\ c \subseteq Unpaid /\ watcher' = WatcherAt(p, watcher.t, o, c, u)
            <3>1. CASE watcher.pc = "earlier"
                  BY <3>1, <1>2, <2>1, <2>5, <2>6 DEF WatcherMove
            <3>2. CASE watcher.pc = "list"
                  BY <3>2, <1>2, <2>1, <2>2, <2>4, <2>5, <2>6, <2>7 DEF WatcherMove
            <3>3. CASE watcher.pc \in {"exact", "late", "wallet", "fit"}
                  <4>1. watcher.open \subseteq Unpaid /\ watcher.cand \subseteq Unpaid  BY <2>3, <3>3
                  <4>2. \A o \in SUBSET watcher.open : o \subseteq Unpaid  BY <4>1
                  <4>3. \A c \in SUBSET (watcher.open \cup RecentlyExpired) : c \subseteq Unpaid  BY <2>2, <4>1
                  <4>4. \A i : (IF watcher.pc = "exact" THEN watcher.cand \ {i} ELSE {}) \subseteq Unpaid
                        BY <4>1
                  <4>5. watcher.pc # "idle" /\ watcher.pc # "earlier" /\ watcher.pc # "list"  BY <3>3
                  <4>6. watcher # WatcherIdle  BY <1>3, <4>5
                  <4>7. SUFFICES ASSUME watcher' # watcher
                        PROVE  \E p, o, c, u : o \subseteq Unpaid /\ c \subseteq Unpaid /\ watcher' = WatcherAt(p, watcher.t, o, c, u)
                        BY <3>3
                  <4> QED  BY <1>2, <2>4, <2>5, <2>6, <2>7, <4>1, <4>2, <4>3, <4>4, <4>5, <4>6, <4>7, Zenon DEF WatcherMove
            <3>4. CASE watcher.pc = "mark"
                  BY <3>4, <1>2, <2>1, <2>5, <2>6 DEF WatcherMove
            <3>5. watcher.pc \in WatcherPC  BY <1>1, WatcherTypes
            <3> QED  BY <3>1, <3>2, <3>3, <3>4, <3>5, <2>1 DEF WatcherPC
      <2>9. CASE watcher' = watcher
            BY <1>1, <1>4, <2>1, <2>3, <2>9, WatcherTypes DEF WatcherSees, Unpaid
      <2>10. CASE /\ watcher.pc = "earlier" /\ RowsOf(watcher.t) = {}
                  /\ \E o, c, u : watcher' = WatcherAt("list", watcher.t, o, c, u)
            <3>1. watcher'.pc = "list"  BY <2>10, WatcherFields
            <3> QED  BY <2>1, <2>10, <3>1 DEF RowsOf
      <2>11. CASE /\ watcher.pc \in {"list", "exact", "late", "wallet", "fit"}
                  /\ \E p, o, c, u : o \subseteq Unpaid /\ c \subseteq Unpaid /\ watcher' = WatcherAt(p, watcher.t, o, c, u)
            <3>1. watcher'.open \subseteq Unpaid /\ watcher'.cand \subseteq Unpaid  BY <2>11, WatcherFields
            <3>2. \A r \in rows' : r.dep # TxOf[watcher'.t]  BY <2>1, <2>11 DEF WatcherSees
            <3> QED  BY <2>1, <3>1, <3>2 DEF Unpaid
      <2> QED  BY <2>8, <2>9, <2>10, <2>11
<1>5. ASSUME watcher'.pc = "mark"
      PROVE  \E r \in rows' : r.dep \in {watcher'.t, TxOf[watcher'.t]}
      <2>1. CASE watcher' = watcher
            BY <1>2, <1>5, <2>1 DEF WatcherSees, RowsOf
      <2>2. CASE watcher' # watcher
            <3>1. /\ \E o, c, u : watcher' = WatcherAt("mark", watcher.t, o, c, u)
                  /\ watcher.pc \in {"exact", "late", "fit"}
                  /\ \/ \E r \in rows' : r.dep = watcher.t
                     \/ \E i \in watcher.cand : \E r \in rows : r.ref = i
                  <4>1. watcher' # WatcherIdle  BY <1>3, <1>5
                  <4>2. \A p \in {"earlier", "list", "exact", "late", "wallet", "fit"} :
                          \A t, o, c, u : watcher' # WatcherAt(p, t, o, c, u)
                        BY <1>5, WatcherFields
                  <4> QED  BY <1>2, <2>2, <4>1, <4>2 DEF WatcherMove
            <3>2. watcher'.t = watcher.t  BY <3>1, WatcherFields
            <3>3. ~\E i \in watcher.cand : \E r \in rows : r.ref = i
                  <4>1. ASSUME NEW i \in watcher.cand, NEW r \in rows, r.ref = i PROVE FALSE
                        <5>1. i \in Invoice /\ i # None  BY <1>1, WatcherTypes, DepositsAssumption
                        <5> QED  BY <1>1, <3>1, <4>1, <5>1 DEF RowsOK, WatcherSees
                  <4> QED  BY <4>1
            <3> QED  BY <3>1, <3>2, <3>3
      <2> QED  BY <2>1, <2>2
<1> QED  BY <1>4, <1>5 DEF WatcherSees, RowsOf

\* What staff have read holds until they write.
LEMMA StaffSeesKept ==
  ASSUME StaffAlone, ~Reconfirm, SaneInv, TakesTurns, StaffSees, Next
  PROVE  StaffSees'
<1>1. /\ TypeOK /\ ThreadsOK /\ RowsOK /\ InvoicesOK  BY DEF SaneInv
<1>2. StaffMove /\ rows \subseteq rows' /\ \A i \in Invoice : Fate(i)  BY StaffMoves, Fates
<1>3. WatcherIdle.pc = "idle" /\ StaffIdle.pc = "idle"  BY WatcherFields, StaffAreIdle DEF WatcherIdle
<1>4. ASSUME staff'.pc = "credit", NEW r \in rows'
      PROVE  r.dep # staff'.key /\ (r.dep \in Transfer => TxOf[r.dep] # staff'.key)
      <2>1. CASE staff' = staff
            <3>1. r \in rows
                  <4>1. staff.pc = "credit" /\ staff # StaffIdle /\ watcher.pc = "idle" /\ claimer = ClaimerIdle
                        BY <1>3, <1>4, <2>1 DEF TakesTurns
                  <4>2. ASSUME NEW s, PaysByHand(s) PROVE FALSE
                        <5>1. staff'.pc = "mark"  BY <4>2, StaffFields DEF PaysByHand
                        <5> QED  BY <1>4, <5>1
                  <4>3. \A s : ~PaysInvoice(s) /\ ~PaysDeposit(s)
                        BY <4>1 DEF PaysInvoice, PaysDeposit, StaffMayStart
                  <4> QED  BY <4>2, <4>3, RowEffect DEF NewRow
            <3> QED  BY <1>4, <2>1, <3>1 DEF StaffSees
      <2>2. CASE staff' # staff
            <3>1. /\ rows' = rows
                  /\ \E i \in Invoice, x \in Tx, b \in BOOLEAN : ~TxPaid(x) /\ staff' = StaffAt("credit", i, x, None, b)
                  <4>1. \A i, k, t, b : staff' # StaffAt("mark", i, k, t, b) /\ staff' # StaffAt("close", i, k, t, b)
                        BY <1>4, StaffFields
                  <4>2. \A i, t : staff' # StaffAt("close", i, None, t, FALSE)
                        <5>1. ASSUME NEW i, NEW t, staff' = StaffAt("close", i, None, t, FALSE) PROVE FALSE
                              <6>1. staff'.pc = "close"  BY <5>1, Zenon DEF StaffAt
                              <6> QED  BY <1>4, <6>1
                        <5> QED  BY <5>1
                  <4> QED  BY <1>2, <1>3, <1>4, <2>2, <4>1, <4>2 DEF StaffMove
            <3>2. ~TxPaid(staff'.key)  BY <3>1, StaffFields
            <3> QED  BY <1>1, <3>1, <3>2 DEF TxPaid, RowsOK
      <2> QED  BY <2>1, <2>2
<1>5. ASSUME staff'.pc = "mark"
      PROVE  \E r \in rows' : r.dep = staff'.key
      <2>1. CASE staff' = staff
            BY <1>2, <1>5, <2>1 DEF StaffSees
      <2>2. CASE staff' # staff
            <3>1. /\ \E r \in rows' : r.dep = staff.key
                  /\ staff' = StaffAt("mark", staff.i, staff.key, staff.t, staff.review)
                  <4>1. \A i, k, t, b : staff' # StaffAt("credit", i, k, t, b) /\ staff' # StaffAt("close", i, k, t, b)
                        BY <1>5, StaffFields
                  <4>2. \A i, t : staff' # StaffAt("close", i, None, t, FALSE)
                        <5>1. ASSUME NEW i, NEW t, staff' = StaffAt("close", i, None, t, FALSE) PROVE FALSE
                              <6>1. staff'.pc = "close"  BY <5>1, Zenon DEF StaffAt
                              <6> QED  BY <1>5, <6>1
                        <5> QED  BY <5>1
                  <4> QED  BY <1>2, <1>3, <1>5, <2>2, <4>1, <4>2 DEF StaffMove
            <3> QED  BY <3>1, StaffFields
      <2> QED  BY <2>1, <2>2
<1>6. ASSUME staff'.pc = "close", staff'.t # None
      PROVE  \E r \in rows' : r.dep = staff'.t /\ r.user = inv'[staff'.i].owner
      <2>1. CASE staff' = staff
            <3>1. \E r \in rows : r.dep = staff.t /\ r.user = inv[staff.i].owner
                  BY <1>6, <2>1 DEF StaffSees
            <3>2. staff.i \in Invoice /\ Created(staff.i)  BY <1>1, <1>6, <2>1 DEF ThreadsOK
            <3>3. inv'[staff.i].owner = inv[staff.i].owner  BY <1>2, <3>2 DEF Fate, Created
            <3> QED  BY <1>2, <2>1, <3>1, <3>3
      <2>2. CASE staff' # staff /\ staff.pc = "mark"
                 /\ staff' = StaffAt("close", staff.i, staff.key, staff.t, staff.review)
            BY <1>1, <1>6, <2>2, StaffFields DEF ThreadsOK
      <2>3. CASE /\ inv' = inv
                 /\ \E i \in Invoice, t \in Transfer :
                      /\ \E r \in rows' : r.dep = t /\ r.user = inv[i].owner
                      /\ staff' = StaffAt("close", i, None, t, FALSE)
            <3>1. PICK i \in Invoice, t \in Transfer :
                    /\ \E r \in rows' : r.dep = t /\ r.user = inv[i].owner
                    /\ staff' = StaffAt("close", i, None, t, FALSE)
                  BY <2>3
            <3>2. staff'.i = i  BY <3>1, Zenon DEF StaffAt
            <3>3. staff'.t = t  BY <3>1, Zenon DEF StaffAt
            <3> QED  BY <2>3, <3>1, <3>2, <3>3
      <2>4. \A i, k, t, b : staff' # StaffAt("credit", i, k, t, b) /\ staff' # StaffAt("mark", i, k, t, b)
            BY <1>6, StaffFields
      <2> QED  BY <1>2, <1>3, <1>6, <2>1, <2>2, <2>3, <2>4 DEF StaffMove
<1> QED  BY <1>4, <1>5, <1>6 DEF StaffSees

\* A transfer becomes credited in the log when a row pays it, or when the watcher or staff
\* mark what they have credited.
MarkMove(t) ==
  \/ dep'[t] = "credited" => dep[t] = "credited"
  \/ RowsOf(t) # {}
  \/ \E r \in rows' : r.dep = t
  \/ watcher.pc = "mark" /\ t = watcher.t
  \/ staff.pc = "mark" /\ TxOf[t] = staff.key

\* credit_deposit marks one transfer, for which it writes a row unless there is one.
LEMMA CreditMarks ==
  ASSUME TypeOK, NEW t \in Transfer, NEW u, NEW cents, CreditDeposit(t, u, cents)
  PROVE  \A x \in Transfer : MarkMove(x)
<1> DEFINE r == [user |-> u, cents |-> cents, ref |-> None, dep |-> t]
<1>1. /\ \A s \in Transfer \ {t} : dep'[s] = dep[s]
      /\ ~CanCredit(t) \/ rows' = rows \cup {r}
      BY CreditEffect
<1>2. r.dep = t  OBVIOUS
<1> HIDE DEF r
<1> QED  BY <1>1, <1>2 DEF MarkMove, CanCredit

\* Nothing else marks a transfer credited.
LEMMA MarkMoves ==
  ASSUME SaneInv, Next
  PROVE  \A t \in Transfer : MarkMove(t)
<1>1. /\ TypeOK /\ ThreadsOK /\ dep \in [Transfer -> DepositStatus] /\ claimer \in ClaimerType
      BY Types DEF SaneInv
<1>2. dep' = dep => \A t \in Transfer : MarkMove(t)  BY DEF MarkMove
<1>3. CASE \E t \in Transfer : RecordDeposit(t) \/ IgnoreDeposit(t)
      <2>1. PICK t \in Transfer, s \in {"unmatched", "admin_ignored"} : dep' = [dep EXCEPT ![t] = s]
            BY <1>3 DEF RecordDeposit, IgnoreDeposit
      <2> QED  BY <1>1, <2>1 DEF MarkMove
<1>4. CASE EarlierCredit \/ MarkCredited
      <2>1. watcher.t \in Transfer /\ (watcher.pc = "mark" \/ RowsOf(watcher.t) # {} \/ dep' = dep)
            BY <1>1, <1>4 DEF EarlierCredit, MarkCredited, ThreadsOK
      <2>2. dep' = dep \/ dep' = [dep EXCEPT ![watcher.t] = "credited"]
            BY <1>4 DEF EarlierCredit, MarkCredited
      <2> QED  BY <1>1, <2>1, <2>2 DEF MarkMove
<1>5. CASE CreditWallet
      <2>1. watcher.t \in Transfer  BY <1>1, <1>5 DEF CreditWallet, ThreadsOK
      <2>2. dep' = dep \/ CreditDeposit(watcher.t, watcher.who, Value(watcher.t))
            BY <1>5 DEF CreditWallet
      <2> QED  BY <1>1, <1>2, <2>1, <2>2, CreditMarks
<1>6. CASE CreditFit
      <2>1. watcher.t \in Transfer  BY <1>1, <1>6 DEF CreditFit, ThreadsOK
      <2>2. dep' = dep \/ dep' = [dep EXCEPT ![watcher.t] = "ignored"]  BY <1>6 DEF CreditFit
      <2> QED  BY <1>1, <2>1, <2>2 DEF MarkMove
<1>7. CASE ClaimWalletDeposit
      <2>1. dep' = dep \/ \E t \in claimer.todo : CreditDeposit(t, claimer.who, Value(t))
            BY <1>7 DEF ClaimWalletDeposit
      <2>2. claimer.todo \subseteq Transfer  BY <1>1 DEF ClaimerType
      <2> QED  BY <1>1, <1>2, <2>1, <2>2, CreditMarks
<1>8. CASE StaffMark
      BY <1>1, <1>8 DEF StaffMark, MarkMove
<1>9. CASE \E i \in Invoice, t \in Transfer : ReviewCreditDeposit(i, t)
      BY <1>1, <1>9, CreditMarks DEF ReviewCreditDeposit
<1>10. CASE \E t \in Transfer, u \in User : AssignDeposit(t, u)
      BY <1>1, <1>10, CreditMarks DEF AssignDeposit
<1>11. CASE ListOpen \/ CreditExact \/ CreditLate \/ WatcherFails
      BY <1>2, <1>11 DEF ListOpen, CreditExact, CreditLate, WatcherFails
<1>12. CASE \/ \E u \in User, i \in Invoice : CreateCryptoInvoice(u, i)
            \/ \E i \in Invoice, x \in Tx : RequestInvoiceReview(i, x)
            \/ \E u \in User, a \in Address : LinkWallet(u, a)
            \/ \E a \in Address : UnlinkWallet(a)
            \/ \E u \in User : DeleteAccount(u)
            \/ \E t \in Transfer : Send(t)
      BY <1>2, <1>12 DEF CreateCryptoInvoice, RequestInvoiceReview, LinkWallet, UnlinkWallet, DeleteAccount, Send
<1>13. CASE \/ \E i \in Invoice : StartReviewConfirm(i) \/ DismissReview(i) \/ RejectInvoice(i)
            \/ \E i \in Invoice, x \in Tx : StartConfirm(i, x)
            \/ StaffCredit \/ SetReviewResolved
      BY <1>2, <1>13 DEF StartReviewConfirm, DismissReview, RejectInvoice, StartConfirm, StaffCredit,
         SetReviewResolved
<1>14. CASE Time
      BY <1>2, <1>14 DEF Time, Deadline, WindowPasses, ExpireStalePendingInvoices
<1>15. CASE Watch
      BY <1>15, <1>3, <1>4, <1>5, <1>6, <1>11, Zenon DEF Watch
<1>16. CASE Customers  BY <1>16, <1>7, <1>12, Zenon DEF Customers
<1>17. CASE Staff  BY <1>17, <1>3, <1>8, <1>9, <1>10, <1>13, Zenon DEF Staff
<1> QED  BY <1>14, <1>15, <1>16, <1>17 DEF Next

\* A transfer called credited is paid, and a confirmed invoice too.
LEMMA PaidKept ==
  ASSUME CreditInv, Next
  PROVE  MarkedWasPaid' /\ ConfirmedWasCredited'
<1>1. /\ SaneInv /\ TypeOK /\ ThreadsOK /\ RowsOK /\ WatcherSees /\ StaffSees
      /\ MarkedWasPaid /\ ConfirmedWasCredited
      BY DEF CreditInv, SaneInv
<1>2. rows \subseteq rows' /\ \A i \in Invoice : Fate(i)  BY <1>1, Fates
<1>3. ASSUME NEW t \in Transfer, dep'[t] = "credited"
      PROVE  \E r \in rows' : r.dep \in {t, TxOf[t]}
      <2>1. MarkMove(t)  BY <1>1, MarkMoves
      <2>2. CASE dep[t] = "credited" \/ RowsOf(t) # {}
            BY <1>1, <1>2, <2>2 DEF MarkedWasPaid, RowsOf
      <2>3. CASE watcher.pc = "mark" /\ t = watcher.t
            BY <1>1, <1>2, <2>3 DEF WatcherSees, RowsOf
      <2>4. CASE staff.pc = "mark" /\ TxOf[t] = staff.key
            BY <1>1, <1>2, <2>4 DEF StaffSees
      <2> QED  BY <1>3, <2>1, <2>2, <2>3, <2>4 DEF MarkMove
<1>4. ASSUME NEW i \in Invoice, inv'[i].status = "confirmed"
      PROVE  \E r \in rows' : r.user = inv'[i].owner /\ (r.ref = i \/ (r.dep \in Transfer /\ TxOf[r.dep] = inv'[i].tx))
      <2>1. Fate(i) /\ i # None  BY <1>2, DepositsAssumption
      <2>2. CASE inv[i].status = "confirmed" /\ inv'[i].tx = inv[i].tx
            <3>1. inv'[i].owner = inv[i].owner  BY <2>1, <2>2 DEF Fate
            <3> QED  BY <1>1, <1>2, <2>2, <3>1 DEF ConfirmedWasCredited
      <2>3. CASE \E r \in rows' : r.ref = i
            BY <1>1, <2>1, <2>3, RowsKept DEF RowsOK
      <2>4. CASE staff.pc = "close" /\ staff.t # None /\ staff.i = i /\ inv'[i].tx = TxOf[staff.t]
            <3>1. Created(i) /\ staff.t \in Transfer
                  BY <1>1, <2>4, Types DEF ThreadsOK, StaffType
            <3>2. inv'[i].owner = inv[i].owner  BY <2>1, <3>1 DEF Fate, Created
            <3> QED  BY <1>1, <1>2, <2>4, <3>1, <3>2 DEF StaffSees
      <2> QED  BY <1>4, <2>1, <2>2, <2>3, <2>4 DEF Fate
<1> QED  BY <1>3, <1>4 DEF MarkedWasPaid, ConfirmedWasCredited, RowsOf

\* At the start nothing is paid, marked or confirmed.
LEMMA CreditInit == Init => CreditInv
<1>1. SUFFICES ASSUME Init PROVE CreditInv  OBVIOUS
<1>2. rows = {} /\ watcher.pc = "idle" /\ staff.pc = "idle"
      BY <1>1, WatcherFields, StaffAreIdle DEF Init, WatcherIdle
<1>3. (\A i \in Invoice : inv[i].status = "none") /\ \A t \in Transfer : dep[t] = "unseen"
      BY <1>1 DEF Init, NoInvoice
<1> QED  BY <1>1, <1>2, <1>3, SaneInit
         DEF CreditInv, TakesTurns, PaidOnce, RowsOf, WatcherSees, StaffSees, MarkedWasPaid, ConfirmedWasCredited

\* Every step keeps CreditInv.
LEMMA CreditKept ==
  ASSUME StaffAlone, ~Reconfirm
  PROVE  CreditInv /\ [Next]_vars => CreditInv'
<1>1. ASSUME CreditInv, Next PROVE CreditInv'
      BY <1>1, SaneKept, TurnsKept, PaidOnceKept, WatcherSeesKept, StaffSeesKept, PaidKept DEF CreditInv
<1>2. ASSUME CreditInv, UNCHANGED vars PROVE CreditInv'
      <2>1. SaneInv'  BY <1>2, SaneKept DEF CreditInv
      <2> QED  BY <1>2, <2>1 DEF CreditInv, vars, TakesTurns, PaidOnce, RowsOf, WatcherSees, StaffSees,
                                 MarkedWasPaid, ConfirmedWasCredited
<1> QED  BY <1>1, <1>2

\* CreditedOnce: when staff wait for a credit under way to end and confirm no invoice twice,
\* no transfer is credited more than once, by its own key or by its transaction's, whatever the
\* watcher, wallet links, customers and the clock do and however often the watcher dies; and what
\* the log calls credited, and every confirmed invoice, was paid for.
THEOREM CreditedOnceHolds ==
  ASSUME StaffAlone, ~Reconfirm
  PROVE  Spec => [](CreditedOnce /\ MarkedWasPaid /\ ConfirmedWasCredited)
<1>1. CreditInv => CreditedOnce /\ MarkedWasPaid /\ ConfirmedWasCredited
      <2>1. ASSUME CreditInv, NEW t \in Transfer PROVE Cardinality(RowsOf(t)) <= 1
            <3>1. CASE RowsOf(t) = {}
                  BY <3>1, FS_EmptySet
            <3>2. CASE RowsOf(t) # {}
                  <4>1. PICK r : RowsOf(t) = {r}  BY <2>1, <3>2 DEF CreditInv, PaidOnce
                  <4>2. Cardinality({r}) = 1  BY FS_Singleton
                  <4> QED  BY <4>1, <4>2
            <3> QED  BY <3>1, <3>2
      <2> QED  BY <2>1 DEF CreditedOnce, CreditInv
<1> QED  BY <1>1, CreditInit, CreditKept, PTL DEF Spec

-----------------------------------------------------------------------------
(* What needs enough extra units.                                          *)

\* A new invoice asks for an amount that no open one asks for: with as many extra units as
\* open invoices, the others cannot have taken them all.
LEMMA NewAmount ==
  ASSUME ExtrasSuffice', TypeOK, NEW u \in User, NEW i \in Invoice, CreateCryptoInvoice(u, i)
  PROVE  /\ \A j \in Invoice \ {i} : inv'[j] = inv[j]
         /\ \A j \in Open : inv'[i].units # inv[j].units
<1>1. PICK e \in 1 .. MaxExtra + 1 + Cardinality(Invoice) :
        /\ ExtraUnits(e)
        /\ inv' = [inv EXCEPT ![i] = [NoInvoice EXCEPT !.status = "pending", !.owner = u, !.units = Base + e]]
      BY DEF CreateCryptoInvoice
<1>2. inv \in [Invoice -> InvoiceType] /\ inv[i].status = "none"  BY Types DEF CreateCryptoInvoice
<1>3. /\ inv'[i].units = Base + e /\ inv'[i].status = "pending" /\ age' = age
      /\ \A j \in Invoice \ {i} : inv'[j] = inv[j]
      <2>1. \A j \in Invoice \ {i} : inv'[j] = inv[j]  BY <1>1, <1>2
      <2>2. inv'[i] = [NoInvoice EXCEPT !.status = "pending", !.owner = u, !.units = Base + e]
            BY <1>1, <1>2
      <2>3. inv'[i].units = Base + e /\ inv'[i].status = "pending"  BY <2>2, Zenon DEF NoInvoice
      <2>4. age' = age  BY DEF CreateCryptoInvoice
      <2> QED  BY <2>1, <2>3, <2>4
<1> DEFINE free == {x \in 1 .. MaxExtra : Base + x \notin ReservedUnits}
<1>4. free # {}
      <2>1. SUFFICES ASSUME \A x \in 1 .. MaxExtra : \E j \in Open : inv[j].units = Base + x PROVE FALSE
            BY DEF ReservedUnits, Open
      <2> DEFINE g == [x \in 1 .. MaxExtra |-> CHOOSE j \in Open : inv[j].units = Base + x]
      <2>2. \A x \in 1 .. MaxExtra : g[x] \in Open /\ inv[g[x]].units = Base + x  BY <2>1
      <2>3. g \in [1 .. MaxExtra -> Open]  BY <2>2
      <2>4. MaxExtra \in Nat /\ Base \in Nat  BY DepositsAssumption
      <2>5. /\ Open \subseteq Invoice /\ i \notin Open /\ Open' \subseteq Invoice
            /\ Open \cup {i} \subseteq Open'
            BY <1>2, <1>3 DEF Open, Pending, RecentlyExpired
      <2>6. /\ IsFiniteSet(Open) /\ IsFiniteSet(Open')
            /\ Cardinality(Open) \in Nat /\ Cardinality(Open') \in Nat
            BY <2>5, FS_Subset, FS_CardinalityType, DepositsAssumption
      <2>7. Cardinality(Open \cup {i}) = Cardinality(Open) + 1
            BY <2>5, <2>6, FS_AddElement
      <2>8. Cardinality(Open \cup {i}) <= Cardinality(Open')
            BY <2>5, <2>6, FS_Subset
      <2>9. Cardinality(Open') <= MaxExtra  BY DEF ExtrasSuffice
      <2>10. IsFiniteSet(1 .. MaxExtra) /\ Cardinality(1 .. MaxExtra) = MaxExtra
            BY <2>4, FS_Interval
      <2>11. Cardinality(Open) < Cardinality(1 .. MaxExtra)
            BY <2>4, <2>6, <2>7, <2>8, <2>9, <2>10
      <2> HIDE DEF g
      <2>12. \E x, y \in 1 .. MaxExtra : x # y /\ g[x] = g[y]
            BY <2>3, <2>6, <2>10, <2>11, FS_PigeonHole
      <2> QED  BY <2>2, <2>4, <2>12
<1>5. Base + e \notin ReservedUnits  BY <1>1, <1>4 DEF ExtraUnits
<1> QED  BY <1>3, <1>5 DEF ReservedUnits, Open

\* An invoice that is open after a step was open before it, or has just been created.
LEMMA OpenMoves ==
  ASSUME SaneInv, Next, NEW i \in Invoice
  PROVE  /\ i \in Pending' => i \in Pending \/ \E u \in User : CreateCryptoInvoice(u, i)
         /\ i \in Open' => i \in Open \/ \E u \in User : CreateCryptoInvoice(u, i)
         /\ Created(i) => /\ inv'[i].status # "none"
                          /\ inv'[i].units = inv[i].units /\ inv'[i].owner = inv[i].owner
         /\ (\E u \in User : CreateCryptoInvoice(u, i)) => ~Created(i)
<1>1. Fate(i)  BY Fates
<1>2. age[i] = "old" => age'[i] = "old"  BY OtherMoves DEF RestMove
<1>3. i \in Pending' => i \in Pending \/ \E u \in User : CreateCryptoInvoice(u, i)
      BY <1>1 DEF Fate, Pending
<1>4. i \in RecentlyExpired' => i \in Open
      BY <1>1, <1>2 DEF Fate, Pending, RecentlyExpired, Open
<1>5. Created(i) => /\ inv'[i].status # "none"
                    /\ inv'[i].units = inv[i].units /\ inv'[i].owner = inv[i].owner
      BY <1>1 DEF Fate, Created
<1>6. (\E u \in User : CreateCryptoInvoice(u, i)) => ~Created(i)
      BY DEF CreateCryptoInvoice, Created
<1> QED  BY <1>3, <1>4, <1>5, <1>6 DEF Open

\* Amounts that are open stay apart: only creating an invoice adds one.
LEMMA AmountsTellApartKept ==
  ASSUME ExtrasSuffice', SaneInv, AmountsTellApart, Next
  PROVE  AmountsTellApart'
<1>1. TypeOK /\ Open \subseteq Invoice /\ Open' \subseteq Invoice /\ \A i \in Open : Created(i)
      BY DEF SaneInv, Open, Pending, RecentlyExpired, Created
<1>2. ASSUME NEW i \in Open', NEW u \in User, CreateCryptoInvoice(u, i), NEW j \in Open',
             inv'[i].units = inv'[j].units
      PROVE  i = j
      <2>1. SUFFICES ASSUME i # j PROVE FALSE  OBVIOUS
      <2>2. /\ \A k \in Invoice \ {i} : inv'[k] = inv[k]
            /\ \A k \in Open : inv'[i].units # inv[k].units
            BY <1>1, <1>2, NewAmount
      <2>3. inv'[j] = inv[j] /\ j \in Invoice  BY <1>1, <2>1, <2>2
      <2>4. j \notin Open  BY <1>2, <2>2, <2>3
      <2>5. ~Created(j)  BY <2>3, <2>4, OpenMoves
      <2> QED  BY <2>3, <2>5 DEF Open, Pending, RecentlyExpired, Created
<1>3. ASSUME NEW i \in Open', NEW j \in Open', i \in Open, j \in Open, inv'[i].units = inv'[j].units
      PROVE  i = j
      <2>1. inv'[i].units = inv[i].units /\ inv'[j].units = inv[j].units
            BY <1>1, <1>3, OpenMoves
      <2> QED  BY <1>3, <2>1 DEF AmountsTellApart, Open
<1>4. ASSUME NEW i \in Open', NEW j \in Open', inv'[i].units = inv'[j].units
      PROVE  i = j
      <2>1. i \in Open \/ \E u \in User : CreateCryptoInvoice(u, i)  BY <1>1, OpenMoves
      <2>2. j \in Open \/ \E u \in User : CreateCryptoInvoice(u, j)  BY <1>1, OpenMoves
      <2> QED  BY <1>2, <1>3, <1>4, <2>1, <2>2
<1> QED  BY <1>4 DEF AmountsTellApart, Open

\* The transfer in hand keeps its amount and its payer's invoice.
LEMMA InHand ==
  ASSUME SaneInv, Next, NEW t \in Transfer, dep[t] # "unseen"
  PROVE  /\ amount'[t] = amount[t] /\ meant'[t] = meant[t]
         /\ meant'[t] \in Open' => meant[t] \in Open
         /\ meant'[t] \in Pending' => meant[t] \in Pending
         /\ meant[t] \in Open => meant[t] \in Invoice /\ amount[t] = inv[meant[t]].units
<1>1. AmountsOK /\ Open \subseteq Invoice /\ Open' \subseteq Invoice /\ Pending' \subseteq Invoice
      /\ None \notin Invoice
      BY DepositsAssumption DEF SaneInv, Open, Pending, RecentlyExpired
<1>2. amount'[t] = amount[t] /\ meant'[t] = meant[t]
      BY <1>1, LogFates DEF LogFate, AmountsOK
<1>3. meant[t] \in Invoice => Created(meant[t]) /\ amount[t] = inv[meant[t]].units
      BY <1>1 DEF AmountsOK
<1>4. meant[t] \in Invoice => /\ meant[t] \in Open' => meant[t] \in Open
                              /\ meant[t] \in Pending' => meant[t] \in Pending
      BY <1>3, OpenMoves
<1> QED  BY <1>1, <1>2, <1>3, <1>4

\* The rules pass over an open invoice only when the transfer was not meant for it.
LEMMA WatcherFindsKept ==
  ASSUME StaffAlone, CreditInv, AmountsTellApart, WatcherFinds, Next
  PROVE  WatcherFinds'
<1> DEFINE t == watcher.t
           j == meant[t]
           late == {i \in RecentlyExpired : ExactAmount(i, t)}
<1>1. SaneInv /\ TypeOK /\ TakesTurns /\ ThreadsOK /\ watcher \in WatcherType
      BY Types DEF CreditInv, SaneInv
<1>2. CASE watcher'.pc \notin {"exact", "late", "wallet", "fit"}
      BY <1>2 DEF WatcherFinds
<1>3. CASE watcher'.pc \in {"exact", "late", "wallet", "fit"}
      <2>1. watcher.pc # "idle" /\ watcher'.t = t
            BY <1>1, <1>3, StaysUnpaid
      <2>2. t \in Transfer /\ dep[t] # "unseen"  BY <1>1, <2>1 DEF ThreadsOK
      <2>3. /\ amount'[t] = amount[t] /\ meant'[t] = j
            /\ j \in Open' => j \in Open
            /\ j \in Pending' => j \in Pending
            /\ j \in Open => j \in Invoice /\ amount[t] = inv[j].units
            BY <1>1, <2>2, InHand
      <2>4. /\ Pending \subseteq Open /\ RecentlyExpired \subseteq Open
            /\ Open = Pending \cup RecentlyExpired /\ Open \subseteq Invoice
            BY DEF Open, Pending, RecentlyExpired
      <2>5. \A i \in watcher.cand \cup Open : i \in Invoice /\ Created(i) /\ inv'[i].units = inv[i].units
            <3>1. ASSUME NEW i \in watcher.cand \cup Open PROVE i \in Invoice /\ Created(i)
                  BY <1>1, WatcherTypes DEF ThreadsOK, Open, Pending, RecentlyExpired, Created
            <3> QED  BY <1>1, <3>1, OpenMoves
      <2>6. \A i \in watcher.cand \cup Open : inv'[i].units = amount'[t] <=> ExactAmount(i, t)
            BY <2>3, <2>5 DEF ExactAmount
      <2>7. watcher' # WatcherIdle /\ \A s : watcher' # WatcherAt("earlier", s, {}, {}, None)
            BY <1>3, WatcherFields DEF WatcherIdle
      <2>8. \A p \in {"list", "mark"} : \A o, c, u : watcher' # WatcherAt(p, t, o, c, u)
            BY <1>3, WatcherFields
      <2>9. WatcherMove  BY <1>1, WatcherMoves
      <2>10. CASE watcher'.pc = "exact"
            <3>1. \/ watcher' = watcher
                  \/ watcher'.cand = {i \in Pending : ExactAmount(i, t)}
                  \/ watcher.pc = "exact" /\ \E i \in watcher.cand :
                       inv[i].status \in {"rejected", "expired"} /\ watcher'.cand = watcher.cand \ {i}
                  <4>1. \A p \in {"late", "wallet", "fit"} : \A o, c, u : watcher' # WatcherAt(p, t, o, c, u)
                        BY <2>10, WatcherFields
                  <4>2. \A p, o, c, u : watcher' = WatcherAt(p, t, o, c, u) => p = "exact" /\ watcher'.cand = c
                        BY <2>10, WatcherFields
                  <4>3. CASE watcher.pc = "list"
                        BY <4>3, <2>7, <2>8, <2>9, <4>1, <4>2 DEF WatcherMove, t
                  <4>4. CASE watcher.pc = "exact"
                        BY <4>4, <2>7, <2>8, <2>9, <4>1, <4>2 DEF WatcherMove, t
                  <4>5. CASE watcher.pc \notin {"list", "exact"}
                        BY <4>5, <2>1, <2>7, <2>8, <2>9, <4>1, <4>2 DEF WatcherMove, t
                  <4> QED  BY <4>3, <4>4, <4>5
            <3> HIDE DEF t, j
            <3>2. ASSUME watcher' = watcher
                  PROVE  /\ \A i \in watcher'.cand : inv'[i].units = amount'[t]
                         /\ j \in Pending' => j \in watcher'.cand
                  BY <2>3, <2>6, <2>10, <3>2 DEF WatcherFinds, t, j
            <3>3. ASSUME watcher'.cand = {i \in Pending : ExactAmount(i, t)}
                  PROVE  /\ \A i \in watcher'.cand : inv'[i].units = amount'[t]
                         /\ j \in Pending' => j \in watcher'.cand
                  BY <2>3, <2>4, <2>6, <3>3 DEF ExactAmount
            <3>4. ASSUME watcher.pc = "exact", NEW i \in watcher.cand, inv[i].status \in {"rejected", "expired"},
                         watcher'.cand = watcher.cand \ {i}
                  PROVE  /\ \A k \in watcher'.cand : inv'[k].units = amount'[t]
                         /\ j \in Pending' => j \in watcher'.cand
                  <4>1. i \notin Pending  BY <3>4 DEF Pending
                  <4>2. (\A k \in watcher.cand : ExactAmount(k, t)) /\ (j \in Pending => j \in watcher.cand)
                        BY <3>4 DEF WatcherFinds, t, j
                  <4> QED  BY <2>3, <2>6, <3>4, <4>1, <4>2
            <3>5. /\ \A i \in watcher'.cand : inv'[i].units = amount'[t]
                  /\ j \in Pending' => j \in watcher'.cand
                  BY <3>1, <3>2, <3>3, <3>4
            <3> QED  BY <2>1, <2>3, <2>10, <3>5 DEF WatcherFinds, ExactAmount
      <2>11. CASE watcher'.pc = "late"
            <3>1. \/ watcher' = watcher
                  \/ /\ watcher.pc = "exact" /\ watcher.cand = {}
                     /\ watcher'.cand = IF Cardinality(late) = 1 THEN late ELSE {}
                  \/ watcher.pc = "late" /\ \E i \in watcher.cand : inv[i].status = "rejected"
                  <4>1. \A p \in {"exact", "wallet", "fit"} : \A o, c, u : watcher' # WatcherAt(p, t, o, c, u)
                        BY <2>11, WatcherFields
                  <4>2. \A p, o, c, u : watcher' = WatcherAt(p, t, o, c, u) => p = "late" /\ watcher'.cand = c
                        BY <2>11, WatcherFields
                  <4>3. CASE watcher.pc = "late"
                        BY <4>3, <2>7, <2>8, <2>9, <4>1, <4>2 DEF WatcherMove, t
                  <4>4. CASE watcher.pc = "exact"
                        BY <4>4, <2>7, <2>8, <2>9, <4>1, <4>2 DEF WatcherMove, t
                  <4>5. CASE watcher.pc \notin {"late", "exact"}
                        BY <4>5, <2>1, <2>7, <2>8, <2>9, <4>1, <4>2 DEF WatcherMove, t
                  <4> QED  BY <4>3, <4>4, <4>5
            <3> HIDE DEF t, j, late
            <3>2. CASE watcher' = watcher
                  BY <2>3, <2>11, <3>2 DEF WatcherFinds, t, j
            <3>3. ASSUME watcher.pc = "exact", watcher.cand = {}, j \in Open'
                  PROVE  late = {j} /\ Cardinality(late) = 1
                  <4>1. j \in Open /\ j \notin Pending
                        BY <2>3, <3>3 DEF WatcherFinds, t, j
                  <4>2. j \in late  BY <2>3, <2>4, <4>1 DEF late, ExactAmount
                  <4>3. \A i \in late : i = j
                        BY <2>3, <2>4, <4>1 DEF late, ExactAmount, AmountsTellApart
                  <4>4. late = {j}  BY <4>2, <4>3
                  <4> QED  BY <4>4, FS_Singleton
            <3>4. ASSUME watcher.pc = "late", NEW i \in watcher.cand, inv[i].status = "rejected"
                  PROVE  j \notin Open'
                  <4>1. i \notin Open  BY <3>4 DEF Open, Pending, RecentlyExpired
                  <4>2. j \in Open => watcher.cand = {j}  BY <3>4 DEF WatcherFinds, t, j
                  <4> QED  BY <2>3, <3>4, <4>1, <4>2
            <3>5. j \in Open' => watcher'.cand = {j}
                  BY <2>3, <2>11, <3>1, <3>2, <3>3, <3>4 DEF WatcherFinds, t, j
            <3> QED  BY <2>1, <2>3, <2>11, <3>5 DEF WatcherFinds
      <2>12. CASE watcher'.pc \in {"wallet", "fit"}
            <3>1. \/ watcher.pc \in {"wallet", "fit"}
                  \/ watcher.pc = "late" /\ watcher.cand = {}
                  <4>1. \A p \in {"exact", "late"} : \A o, c, u : watcher' # WatcherAt(p, t, o, c, u)
                        BY <2>12, WatcherFields
                  <4>2. \A p, o, c, u : watcher' = WatcherAt(p, t, o, c, u) => p \in {"wallet", "fit"}
                        BY <2>12, WatcherFields
                  <4>3. CASE watcher' = watcher
                        BY <2>12, <4>3
                  <4>4. CASE watcher' # watcher /\ watcher.pc \notin {"wallet", "fit"}
                        BY <4>4, <2>1, <2>7, <2>8, <2>9, <4>1, <4>2 DEF WatcherMove, t
                  <4> QED  BY <4>3, <4>4
            <3> HIDE DEF t, j
            <3>2. j \notin Open  BY <3>1 DEF WatcherFinds, t, j
            <3>3. j \notin Open'  BY <2>3, <3>2
            <3> QED  BY <2>1, <2>3, <2>12, <3>3 DEF WatcherFinds
      <2> QED  BY <1>3, <2>10, <2>11, <2>12
<1> QED  BY <1>2, <1>3

\* The invoice a row pays is the one its payer meant, if that is open.
LEMMA PaidToPayerKept ==
  ASSUME CreditInv, AmountsTellApart, WatcherFinds, PaidToPayer, Next
  PROVE  PaidToPayer'
<1>1. /\ SaneInv /\ TypeOK /\ ThreadsOK /\ RowsOK /\ WatcherSees
      /\ watcher \in WatcherType /\ rows \subseteq RowType
      BY Types DEF CreditInv, SaneInv
<1>2. ASSUME NEW t \in Transfer, NEW r \in rows', r.dep = t, r.ref # None, meant'[t] \in Open'
      PROVE  inv'[r.ref].owner = inv'[meant'[t]].owner
      <2>1. CASE r \in rows
            <3>1. dep[t] # "unseen" /\ r.ref \in Invoice /\ Created(r.ref)
                  BY <1>1, <1>2, <2>1 DEF RowsOK, RowType, Created
            <3>2. meant'[t] = meant[t] /\ meant[t] \in Open /\ meant[t] \in Invoice
                  BY <1>1, <1>2, <3>1, InHand
            <3>3. Created(meant[t])  BY <3>2 DEF Open, Pending, RecentlyExpired, Created
            <3>4. inv[r.ref].owner = inv[meant[t]].owner
                  BY <1>2, <2>1, <3>2 DEF PaidToPayer, Open
            <3>5. inv'[r.ref].owner = inv[r.ref].owner /\ inv'[meant[t]].owner = inv[meant[t]].owner
                  BY <1>1, <3>1, <3>2, <3>3, OpenMoves
            <3> QED  BY <3>2, <3>4, <3>5
      <2>2. CASE r \notin rows
            <3>1. PaysInvoice(r) \/ PaysByHand(r) \/ PaysDeposit(r)
                  BY <1>1, <2>2, RowEffect DEF NewRow
            <3>2. ~PaysDeposit(r)  BY <1>2 DEF PaysDeposit
            <3>3. ~PaysByHand(r)
                  BY <1>1, <1>2, DepositsAssumption DEF PaysByHand, ThreadsOK
            <3>4. PaysInvoice(r)  BY <3>1, <3>2, <3>3
            <3>5. /\ watcher.pc \in {"exact", "late", "fit"} /\ watcher.t = t
                  /\ r.ref \in watcher.cand /\ r.ref \in Invoice
                  /\ inv[r.ref].status # "rejected" /\ (inv[r.ref].status = "expired" => watcher.pc # "exact")
                  BY <1>1, <1>2, <3>4, WatcherTypes DEF PaysInvoice
            <3>6. dep[t] # "unseen"  BY <1>1, <3>5 DEF ThreadsOK
            <3>7. /\ meant'[t] = meant[t] /\ meant[t] \in Open /\ meant[t] \in Invoice
                  /\ amount[t] = inv[meant[t]].units
                  BY <1>1, <1>2, <3>6, InHand
            <3>8. inv[r.ref].status \notin {"none", "confirmed"}
                  BY <1>1, <3>5 DEF WatcherSees
            <3>9. r.ref = meant[t]
                  <4>1. CASE watcher.pc = "exact"
                        <5>1. inv[r.ref].status \in InvoiceStatus  BY <1>1, <3>5, Types DEF InvoiceType
                        <5>2. r.ref \in Pending  BY <3>5, <3>8, <4>1, <5>1 DEF Pending, InvoiceStatus
                        <5>3. inv[r.ref].units = amount[t]  BY <3>5, <4>1 DEF WatcherFinds, ExactAmount
                        <5> QED  BY <3>7, <5>2, <5>3 DEF AmountsTellApart, Open
                  <4>2. CASE watcher.pc = "late"
                        BY <3>5, <3>7, <4>2 DEF WatcherFinds
                  <4>3. CASE watcher.pc = "fit"
                        BY <3>5, <3>7, <4>3 DEF WatcherFinds
                  <4> QED  BY <3>5, <4>1, <4>2, <4>3
            <3> QED  BY <3>7, <3>9
      <2> QED  BY <2>1, <2>2
<1> QED  BY <1>2 DEF PaidToPayer, Open

\* At the start no invoice is open.
LEMMA PayerInit == Init => PayerInv
<1>1. SUFFICES ASSUME Init PROVE PayerInv  OBVIOUS
<1>2. rows = {} /\ watcher.pc = "idle" /\ \A i \in Invoice : inv[i].status = "none"
      BY <1>1, WatcherFields DEF Init, WatcherIdle, NoInvoice
<1> QED  BY <1>1, <1>2, CreditInit
         DEF PayerInv, AmountsTellApart, Pending, RecentlyExpired, WatcherFinds, PaidToPayer

\* Every step to a state with extra units enough keeps PayerInv.
LEMMA PayerKept ==
  ASSUME StaffAlone, ~Reconfirm
  PROVE  PayerInv /\ [Next]_vars /\ ExtrasSuffice' => PayerInv'
<1>1. ASSUME PayerInv, Next, ExtrasSuffice' PROVE PayerInv'
      BY <1>1, CreditKept, AmountsTellApartKept, WatcherFindsKept, PaidToPayerKept DEF PayerInv, CreditInv
<1>2. ASSUME PayerInv, UNCHANGED vars PROVE PayerInv'
      <2>1. CreditInv'  BY <1>2, CreditKept DEF PayerInv
      <2> QED  BY <1>2, <2>1 DEF PayerInv, vars, AmountsTellApart, WatcherFinds, PaidToPayer, Open, Pending,
                                 RecentlyExpired, ExactAmount
<1> QED  BY <1>1, <1>2

\* DepositSafety: under the same staff, and while there are extra units enough, nothing that
\* arrived is written off, nothing rejected is paid, nothing is confirmed unpaid, no two amounts
\* that may still be paid are equal, and what is sent for an open invoice is never credited
\* against another customer's.
THEOREM DepositSafetyHolds ==
  ASSUME StaffAlone, ~Reconfirm
  PROVE  Spec /\ []ExtrasSuffice => []DepositSafety
<1>1. PayerInv => DepositSafety
      <2>1. ASSUME SaneInv, NEW i \in Invoice, inv[i].status = "rejected", NEW r \in rows PROVE r.ref # i
            <3>1. i # None  BY DepositsAssumption
            <3> QED  BY <2>1, <3>1 DEF SaneInv, RowsOK
      <2> QED  BY <2>1 DEF PayerInv, CreditInv, SaneInv, DepositSafety, RejectedNeverCredited
<1> QED  BY <1>1, PayerInit, PayerKept, PTL DEF Spec

\* AmountsTellApart: while there are extra units enough, an amount says whose it is, even of
\* an invoice that expired a while ago, whatever staff and customers do.
THEOREM AmountsTellApartHolds == Spec /\ []ExtrasSuffice => []AmountsTellApart
<1>1. Init => AmountsTellApart
      BY DEF Init, NoInvoice, AmountsTellApart, Pending, RecentlyExpired
<1>2. SaneInv /\ AmountsTellApart /\ [Next]_vars /\ ExtrasSuffice' => AmountsTellApart'
      <2>1. ASSUME SaneInv, AmountsTellApart, Next, ExtrasSuffice' PROVE AmountsTellApart'
            BY <2>1, AmountsTellApartKept
      <2>2. ASSUME AmountsTellApart, UNCHANGED vars PROVE AmountsTellApart'
            BY <2>2 DEF vars, AmountsTellApart, Pending, RecentlyExpired
      <2> QED  BY <2>1, <2>2
<1> QED  BY <1>1, <1>2, SaneInit, SaneKept, PTL DEF Spec
=============================================================================
