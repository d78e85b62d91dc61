------------------------------- MODULE Stripe -------------------------------
(***************************************************************************)
(* Card top-ups: checkout sessions, Stripe's webhook events (delivered out *)
(* of order, concurrently and again until they are answered), the refund   *)
(* and dispute events, and the reconcile job.  A handler's transactions    *)
(* are separate actions; it may die between any two of them.               *)
(***************************************************************************)
EXTENDS Integers, FiniteSets, Totals

CONSTANTS
  Session, Handler,
  NoEvent,
  Price,            \* cents of a top-up
  RefundsListed,    \* do charge.refunded events carry the list of refunds?
  MaxEvents,        \* bound on Stripe's events
  MaxStripeFaults   \* bound on deaths and failing statements

ASSUME StripeAssumption ==
  /\ IsFiniteSet(Session) /\ IsFiniteSet(Handler)
  /\ Price \in Nat \ {0} /\ RefundsListed \in BOOLEAN /\ MaxStripeFaults \in Nat /\ MaxEvents \in Nat

VARIABLES
  remote,       \* at Stripe: [state, refunded]
  outbox,       \* Stripe's events that have not been answered: [id, kind, s, cents]
  lastId,       \* of Stripe's events
  session,      \* stripe_sessions: [status, pi]
  topups,       \* [Session -> Nat]: ledger rows with deposit_ref stripe:<session>
  reversals,    \* ledger rows with deposit_ref stripe-refund:<event>: [id, s, cents]
  skipped,      \* history: sessions a refund was skipped for
  piLost,       \* history: sessions whose payment_intent could not be written
  handler,      \* per thread: [pc, ev, s]
  stripeFaults

stripeVars == <<remote, outbox, lastId, session, topups, reversals, skipped, piLost, handler, stripeFaults>>

StripeIdle == [pc |-> "idle", ev |-> NoEvent, s |-> NoEvent]

StripeInit ==
  /\ remote = [s \in Session |-> [state |-> "none", refunded |-> 0]]
  /\ outbox = {} /\ lastId = 0
  /\ session = [s \in Session |-> [status |-> "none", pi |-> FALSE]]
  /\ topups = [s \in Session |-> 0]
  /\ reversals = {} /\ skipped = {} /\ piLost = {}
  /\ handler = [h \in Handler |-> StripeIdle]
  /\ stripeFaults = 0

StripeFault == stripeFaults < MaxStripeFaults /\ stripeFaults' = stripeFaults + 1

(***************************************************************************)
(* The customer and Stripe (external).                                     *)
(***************************************************************************)

\* create_stripe_topup: the customer gets the URL once the row is written.
CreateStripeTopup(s) ==
  /\ session[s].status = "none"
  /\ session' = [session EXCEPT ![s].status = "pending"]
  /\ remote' = [remote EXCEPT ![s].state = "open"]
  /\ UNCHANGED <<outbox, lastId, topups, reversals, skipped, piLost, handler, stripeFaults>>

Emit(kind, s, cents) ==
  /\ lastId < MaxEvents
  /\ lastId' = lastId + 1
  /\ outbox' = outbox \cup {[id |-> lastId + 1, kind |-> kind, s |-> s, cents |-> cents]}

\* The checkout completes, paid or (delayed methods) still unpaid; then the money arrives.
Checkout(s) ==
  /\ \/ remote[s].state = "open" /\ remote' = [remote EXCEPT ![s].state = "paid"] /\ Emit("paid", s, 0)
     \/ remote[s].state = "open" /\ remote' = [remote EXCEPT ![s].state = "unpaid"] /\ Emit("unpaid", s, 0)
     \/ remote[s].state = "unpaid" /\ remote' = [remote EXCEPT ![s].state = "paid"] /\ Emit("paid", s, 0)
  /\ UNCHANGED <<session, topups, reversals, skipped, piLost, handler, stripeFaults>>

\* _latest_refund_amount_cents reads the newest refund, or all that was refunded so far.
RefundEventCents(s, n) == IF RefundsListed THEN n ELSE remote[s].refunded + n

RefundCharge(s) ==
  /\ remote[s].state = "paid"
  /\ \E n \in 1 .. Price - remote[s].refunded :
       /\ remote' = [remote EXCEPT ![s].refunded = @ + n]
       /\ Emit("refund", s, RefundEventCents(s, n))
  /\ UNCHANGED <<session, topups, reversals, skipped, piLost, handler, stripeFaults>>

(***************************************************************************)
(* billing_stripe_webhook and the services behind it.                      *)
(***************************************************************************)

Answer(h) ==
  /\ outbox' = outbox \ {handler[h].ev}
  /\ handler' = [handler EXCEPT ![h] = StripeIdle]

\* An event is delivered; an unpaid completion is answered and nothing else.
StripeWebhook(h) ==
  /\ handler[h] = StripeIdle
  /\ \E e \in outbox :
       CASE e.kind = "unpaid" -> outbox' = outbox \ {e} /\ UNCHANGED handler
         [] e.kind = "paid" -> handler' = [handler EXCEPT ![h] = [pc |-> "intent", ev |-> e, s |-> e.s]]
                               /\ UNCHANGED outbox
         [] OTHER -> handler' = [handler EXCEPT ![h] = [pc |-> "resolve", ev |-> e, s |-> e.s]]
                     /\ UNCHANGED outbox
  /\ UNCHANGED <<remote, lastId, session, topups, reversals, skipped, piLost, stripeFaults>>

\* reconcile_pending_stripe_sessions: a pending session Stripe calls paid or complete.
ReconcilePendingStripeSession(h, s) ==
  /\ handler[h] = StripeIdle
  /\ session[s].status = "pending"
  /\ remote[s].state \in {"paid", "unpaid"}
  /\ handler' = [handler EXCEPT ![h] = [pc |-> "intent", ev |-> NoEvent, s |-> s]]
  /\ UNCHANGED <<remote, outbox, lastId, session, topups, reversals, skipped, piLost, stripeFaults>>

\* set_stripe_payment_intent, before the credit.
SetStripePaymentIntentNot(h) ==
  /\ handler[h].pc = "intent"
  /\ handler' = [handler EXCEPT ![h].pc = "credit"]
  /\ UNCHANGED <<remote, outbox, lastId, session, topups, reversals, skipped, piLost, stripeFaults>>
SetStripePaymentIntent(h) ==
  /\ handler[h].pc = "intent"
  /\ session' = [session EXCEPT ![handler[h].s].pi = TRUE]
  /\ handler' = [handler EXCEPT ![h].pc = "credit"]
  /\ UNCHANGED <<remote, outbox, lastId, topups, reversals, skipped, piLost, stripeFaults>>

\* It raises; the credit goes ahead without it.
PaymentIntentLost(h) ==
  /\ handler[h].pc = "intent" /\ StripeFault
  /\ piLost' = piLost \cup {handler[h].s}
  /\ handler' = [handler EXCEPT ![h].pc = "credit"]
  /\ UNCHANGED <<remote, outbox, lastId, session, topups, reversals, skipped>>

\* complete_and_credit_stripe_session, one transaction under the session row's lock.
CompleteAndCredit(h) ==
  /\ handler[h].pc = "credit"
  /\ LET s == handler[h].s IN
       IF session[s].status = "paid" THEN UNCHANGED <<session, topups>>
       ELSE /\ session' = [session EXCEPT ![s].status = "paid"]
            /\ topups' = [topups EXCEPT ![s] = @ + 1]
  /\ Answer(h)
  /\ UNCHANGED <<remote, lastId, reversals, skipped, piLost, stripeFaults>>

\* reverse_stripe_topup_for_event: the session of the payment_intent, or skip.
ResolveRefund(h) ==
  /\ handler[h].pc = "resolve"
  /\ IF session[handler[h].s].pi
     THEN handler' = [handler EXCEPT ![h].pc = "reverse"] /\ UNCHANGED <<outbox, skipped>>
     ELSE Answer(h) /\ skipped' = skipped \cup {handler[h].s}
  /\ UNCHANGED <<remote, lastId, session, topups, reversals, piLost, stripeFaults>>

\* reverse_stripe_topup: once per event id.
ReverseStripeTopup(h) ==
  /\ handler[h].pc = "reverse"
  /\ LET e == handler[h].ev IN
     reversals' = IF \E r \in reversals : r.id = e.id THEN reversals
                  ELSE reversals \cup {[id |-> e.id, s |-> e.s, cents |-> e.cents]}
  /\ Answer(h)
  /\ UNCHANGED <<remote, lastId, session, topups, skipped, piLost, stripeFaults>>

\* The handler dies or answers 500: Stripe delivers the event again.
StripeHandlerDies(h) ==
  /\ handler[h] # StripeIdle /\ StripeFault
  /\ handler' = [handler EXCEPT ![h] = StripeIdle]
  /\ UNCHANGED <<remote, outbox, lastId, session, topups, reversals, skipped, piLost>>

StripeNext ==
  \/ \E s \in Session : CreateStripeTopup(s) \/ Checkout(s) \/ RefundCharge(s)
  \/ \E h \in Handler :
       \/ StripeWebhook(h) \/ SetStripePaymentIntent(h) \/ PaymentIntentLost(h) \/ CompleteAndCredit(h)
       \/ ResolveRefund(h) \/ ReverseStripeTopup(h) \/ StripeHandlerDies(h)
       \/ \E s \in Session : ReconcilePendingStripeSession(h, s)

\* Stripe goes on delivering what was not answered, and a handler goes on.
StripeFairness ==
  /\ \A h \in Handler :
       WF_stripeVars(SetStripePaymentIntent(h) \/ CompleteAndCredit(h) \/ ResolveRefund(h) \/ ReverseStripeTopup(h))
  /\ WF_stripeVars(\E h \in Handler : StripeWebhook(h))

StripeSpec == StripeInit /\ [][StripeNext]_stripeVars /\ StripeFairness

(***************************************************************************)
(* Properties.                                                             *)
(***************************************************************************)

\* Every variable keeps its type, and every event is one Stripe made.
StripeTypeOK ==
  /\ remote \in [Session -> [state : {"none", "open", "unpaid", "paid"}, refunded : 0 .. Price]]
  /\ \A e \in outbox : e.id \in 1 .. lastId /\ e.s \in Session /\ e.cents \in Nat
  /\ session \in [Session -> [status : {"none", "pending", "paid"}, pi : BOOLEAN]]
  /\ topups \in [Session -> Nat]
  /\ skipped \subseteq Session /\ piLost \subseteq Session
  /\ stripeFaults \in 0 .. MaxStripeFaults

\* A card payment is credited at most once, although events come again, two handlers
\* and the reconcile job work on it at once and one of them dies.
SessionCreditedOnce == \A s \in Session : topups[s] <= 1

\* What refund events take back is never more than what Stripe refunded, in any order
\* of delivery and however often an event is delivered.
NeverOverReversed ==
  \A s \in Session :
    Total({r \in reversals : r.s = s}, [r \in reversals |-> r.cents]) <= remote[s].refunded

\* "Record the payment_intent BEFORE crediting so a refund that races in immediately can
\* still resolve the session": once a session is credited none of its refunds is skipped.
CreditedIsReversible ==
  [][\A s \in Session : (topups[s] > 0 /\ s \notin piLost /\ s \notin skipped) => s \notin skipped']_stripeVars

\* A payment Stripe captured ends up on the balance, although handlers die.
PaidIsCredited == \A s \in Session : remote[s].state = "paid" ~> topups[s] = 1

\* Credited once, reversed no further than refunded, and no refund of a credited session skipped.
StripeSafety == [](StripeTypeOK /\ SessionCreditedOnce /\ NeverOverReversed) /\ CreditedIsReversible
=============================================================================
