------------------------------ MODULE Checkout -----------------------------
(***************************************************************************)
(* How a workspace becomes a customer and buys a subscription: checkout    *)
(* and portal sessions of BillingService, under a Redis lock of limited    *)
(* life, up to the webhook checkout.session.completed, which also deletes  *)
(* the lock.  Stripe and the customer who pays are external; the delivery  *)
(* of webhooks is the subject of StripeWebhooks.                           *)
(***************************************************************************)
EXTENDS Handlers, Naturals, FiniteSets

CONSTANT NoOne   \* no holder, no customer, no subscription

ASSUME NoOneAssumption == NoOne \notin Request

VARIABLES
  lock,        \* Redis billing:checkout:<workspace>: the request that set it
  row,         \* the subscriptions row: [customer, sub]
  customers,   \* customers that Stripe has for the workspace
  open,        \* checkout sessions that can still be paid
  paid,        \* live subscriptions at Stripe
  checkoutHistory

checkoutState == <<lock, row, customers, open, paid, checkoutHistory>>
checkoutVars == <<checkoutState, pc, local>>

\* A customer, a session and its subscription are named by the request that
\* made them; a session and its subscription belong to a customer.
Id == Request \union {NoOne}
Session == [id: Request, customer: Request]
SubscriptionRow == [customer: Id, sub: Id]

CheckoutLocal == [op: {"checkout", "portal"}, customer: Id]

\* outstanding: a checkout found no subscription while one could still be
\* paid or was not recorded; freed: the lock of a checkout under way expired
\* or was deleted by a webhook; twice: two requests looked for a missing
\* customer at once, or one stopped after creating it.
CheckoutHistory == [outstanding: BOOLEAN, freed: BOOLEAN, twice: BOOLEAN]

CheckoutInit ==
  /\ HandlersInit
  /\ lock = NoOne
  /\ row = [customer |-> NoOne, sub |-> NoOne]
  /\ customers = {} /\ open = {} /\ paid = {}
  /\ checkoutHistory = [outstanding |-> FALSE, freed |-> FALSE, twice |-> FALSE]

Happened(what, now) == [checkoutHistory EXCEPT ![what] = @ \/ now]

\* Requests inside the try block, which believe that they hold the lock.
Buying == {r \in Request : ~ Idle(r) /\ local[r].op = "checkout"}
Creating == {r \in Request : pc[r] \in {"customer.create", "customer.set"}}

--------------------------------------------------------------------------
\* Mutant of AcquireLock: SET without NX.
AcquireLock_Always(r) ==
  /\ pc[r] = "new"
  /\ lock' = r
  /\ Go(r, [op |-> "checkout", customer |-> NoOne], "checkout.check")
  /\ UNCHANGED <<row, customers, open, paid, checkoutHistory>>

AcquireLock(r) ==
  /\ pc[r] = "new"
  /\ lock = NoOne
  /\ lock' = r
  /\ Go(r, [op |-> "checkout", customer |-> NoOne], "checkout.check")
  /\ UNCHANGED <<row, customers, open, paid, checkoutHistory>>

\* A row with a subscription is active, trialing or past due here.
CheckSubscription(r) ==
  /\ pc[r] = "checkout.check"
  /\ Goto(r, IF row.sub # NoOne THEN "checkout.release" ELSE "customer.find")
  /\ checkoutHistory' = Happened("outstanding", row.sub = NoOne /\ (open # {} \/ paid # {}))
  /\ UNCHANGED <<lock, row, customers, open, paid>>

CreatePortalSession(r) ==
  /\ pc[r] = "new"
  /\ Go(r, [op |-> "portal", customer |-> NoOne], "customer.find")
  /\ UNCHANGED <<lock, row, customers, open, paid, checkoutHistory>>

\* What ensureStripeCustomer returns to.
Then(r) == IF local[r].op = "checkout" THEN "session.create" ELSE "portal.create"

FindCustomer(r) ==
  /\ pc[r] = "customer.find"
  /\ IF row.customer # NoOne
     THEN Go(r, [local[r] EXCEPT !.customer = row.customer], Then(r)) /\ UNCHANGED checkoutHistory
     ELSE Goto(r, "customer.create") /\ checkoutHistory' = Happened("twice", Creating # {})
  /\ UNCHANGED <<lock, row, customers, open, paid>>

CreateCustomer(r) ==
  /\ pc[r] = "customer.create"
  /\ customers' = customers \union {r}
  /\ Goto(r, "customer.set")
  /\ UNCHANGED <<lock, row, open, paid, checkoutHistory>>

\* Mutant of SetCustomerId: a row that exists already is left alone.
SetCustomerId_Inserts(r) ==
  /\ pc[r] = "customer.set"
  /\ UNCHANGED row
  /\ Go(r, [local[r] EXCEPT !.customer = r], Then(r))
  /\ UNCHANGED <<lock, customers, open, paid, checkoutHistory>>

\* An upsert, whatever the row says by now.
SetCustomerId(r) ==
  /\ pc[r] = "customer.set"
  /\ row' = [row EXCEPT !.customer = r]
  /\ Go(r, [local[r] EXCEPT !.customer = r], Then(r))
  /\ UNCHANGED <<lock, customers, open, paid, checkoutHistory>>

\* The idempotency key holds the time: a second call makes a second session.
CreateSession(r) ==
  /\ pc[r] = "session.create"
  /\ open' = open \union {[id |-> r, customer |-> local[r].customer]}
  /\ Goto(r, "checkout.release")
  /\ UNCHANGED <<lock, row, customers, paid, checkoutHistory>>

CreatePortal(r) ==
  /\ pc[r] = "portal.create"
  /\ Return(r, "done")
  /\ UNCHANGED <<lock, row, customers, open, paid, checkoutHistory>>

\* DEL, whoever holds the lock by now; a failure is swallowed.
ReleaseLock(r) ==
  /\ pc[r] = "checkout.release"
  /\ \/ /\ lock' = NoOne
        /\ checkoutHistory' = Happened("freed", lock \notin {r, NoOne})
     \/ "outage" \in Faults /\ UNCHANGED <<lock, checkoutHistory>>
  /\ Return(r, "done")
  /\ UNCHANGED <<row, customers, open, paid>>

\* Stripe or the database throws: the catch releases the lock.
CheckoutThrows(r) ==
  /\ "outage" \in Faults
  /\ pc[r] \in {"checkout.check", "customer.find", "customer.create", "customer.set",
                "session.create", "portal.create"}
  /\ checkoutHistory' = Happened("twice", pc[r] = "customer.set")
  /\ IF local[r].op = "checkout" THEN Goto(r, "checkout.release") ELSE Return(r, "failed")
  /\ UNCHANGED <<lock, row, customers, open, paid>>

FailCheckout(r) ==
  /\ Stop(r)
  /\ checkoutHistory' = Happened("twice", pc[r] = "customer.set")
  /\ UNCHANGED <<lock, row, customers, open, paid>>

LockExpires ==
  /\ lock # NoOne
  /\ lock' = NoOne
  /\ checkoutHistory' = Happened("freed", lock \in Buying)
  /\ UNCHANGED <<row, customers, open, paid, pc, local>>

--------------------------------------------------------------------------
(* Stripe *)

Pay(s) ==
  /\ s \in open
  /\ open' = open \ {s}
  /\ paid' = paid \union {s}
  /\ UNCHANGED <<lock, row, customers, pc, local, checkoutHistory>>

SessionExpires(s) ==
  /\ s \in open
  /\ open' = open \ {s}
  /\ UNCHANGED <<lock, row, customers, paid, pc, local, checkoutHistory>>

\* The webhook of a paid session, at any time after it, perhaps again; the
\* row is reconciled with the subscription.
CheckoutCompleted(s) ==
  /\ s \in paid
  /\ row' = [customer |-> s.customer, sub |-> s.id]
  /\ lock' = NoOne
  /\ checkoutHistory' = Happened("freed", lock \in Buying)
  /\ UNCHANGED <<customers, open, paid, pc, local>>

\* The subscription is over, and customer.subscription.deleted is handled.
SubscriptionEnds(s) ==
  /\ s \in paid /\ row.sub = s.id
  /\ paid' = paid \ {s}
  /\ row' = [row EXCEPT !.sub = NoOne]
  /\ UNCHANGED <<lock, customers, open, pc, local, checkoutHistory>>

CheckoutRequest(r) ==
  \/ AcquireLock(r) \/ CheckSubscription(r) \/ CreatePortalSession(r)
  \/ FindCustomer(r) \/ CreateCustomer(r) \/ SetCustomerId(r)
  \/ CreateSession(r) \/ CreatePortal(r) \/ ReleaseLock(r)
  \/ CheckoutThrows(r) \/ FailCheckout(r)

CheckoutNext ==
  \/ \E r \in Request : CheckoutRequest(r)
  \/ \E s \in open : Pay(s) \/ SessionExpires(s)
  \/ \E s \in paid : CheckoutCompleted(s) \/ SubscriptionEnds(s)
  \/ LockExpires

CheckoutSpec == CheckoutInit /\ [][CheckoutNext]_checkoutVars

--------------------------------------------------------------------------
\* Types; a subscription at Stripe belongs to no session that is still open.
CheckoutTypeOK ==
  /\ lock \in Id
  /\ row \in SubscriptionRow
  /\ customers \subseteq Request /\ open \subseteq Session /\ paid \subseteq Session
  /\ open \intersect paid = {}
  /\ pc \in [Request -> {"new", "checkout.check", "customer.find", "customer.create",
                         "customer.set", "session.create", "portal.create",
                         "checkout.release", "done", "failed"}]
  /\ local \in [Request -> CheckoutLocal \union {Nothing}]
  /\ checkoutHistory \in CheckoutHistory

\* A workspace is never charged for two subscriptions at once, unless a
\* checkout was started while an earlier session could still be paid or its
\* webhook was missing, or the lock was taken from a checkout under way.
ChargedOnce ==
  Cardinality(paid) > 1 => checkoutHistory.outstanding \/ checkoutHistory.freed

\* Stripe has one customer for the workspace, and every session is for it,
\* unless two requests created it at once or one stopped between creating it
\* and storing it: the portal does not take the lock.
OneCustomer ==
  checkoutHistory.twice \/
    /\ Cardinality(customers) <= 1
    /\ \A r \in Request :
         pc[r] \in {"session.create", "portal.create"} => customers = {row.customer}
    /\ \A s \in open \union paid : s.customer = row.customer
==========================================================================
