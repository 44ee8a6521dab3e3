-------------------------- MODULE StripeWebhooks --------------------------
(***************************************************************************)
(* The subscription of one workspace, kept in step with Stripe: the        *)
(* webhook handler with its two tiers of deduplication, the subscription   *)
(* events it dispatches, and the API calls that change a subscription.     *)
(*                                                                         *)
(* Stripe is external.  It delivers every event until a delivery is        *)
(* answered 200, in any order, possibly to several handlers at once, and   *)
(* also once more after that.  A subscription there has an item with a     *)
(* price, and metadata that Stripe keeps and does not look at: the plan of *)
(* the row is read from the metadata, which only this API writes.          *)
(*                                                                         *)
(* Left out: invoices, and workspaces.plan, which signup sets to free and  *)
(* every later UPDATE of the repository sets to free again.                *)
(***************************************************************************)
EXTENDS Naturals, Sequences

CONSTANTS
  Handler,     \* concurrent executions of StripeWebhookHandler.handle
  Caller,      \* concurrent changePlan, cancel and resume requests
  Plan,        \* the plans that can be bought
  MaxEvents,   \* bound: events Stripe emits
  Faults       \* "overlap": an event is delivered again while it is handled
               \* "fail": a database or Stripe call of the dispatch throws
               \* "outage": the INSERT before it throws, the DEL after it
               \* "crash": the API process stops inside a delivery
               \* "old": an event is delivered outside the replay window

ASSUME StripeAssumption ==
  /\ {"free", "none"} \intersect Plan = {}
  /\ Handler \intersect Caller = {}
  /\ MaxEvents \in Nat
  /\ Faults \subseteq {"overlap", "fail", "outage", "crash", "old"}

VARIABLES
  stripe,     \* stripe[n], Stripe's n-th subscription of the workspace
  events,     \* the events, in the order Stripe emitted them
  acked,      \* events with a delivery answered 200
  keys,       \* events with a Redis key billing:webhook:<id>
  stored,     \* events with a billing_events row
  processed,  \* those marked processed
  row,        \* the subscriptions row
  pc,         \* pc[p], where handler or caller p stands
  at,         \* at[p], the event it handles (of a caller: its own change's)
  held,       \* held[p], the Stripe answer it waits to write
  trace       \* history: how often each event took effect, the events an
              \* attempt at which failed or was lost, the latest event whose
              \* effect is in the row, whether effects came in event order

vars == <<stripe, events, acked, keys, stored, processed, row, pc, at, held, trace>>

Process == Handler \union Caller
Event == 1 .. Len(events)

Status == {"active", "past_due", "canceled"}

\* A subscription at Stripe: the plan whose price its item has, and the plan
\* its metadata names, if any.
State == [price: Plan, metadata: Plan \union {"none"}, status: Status, ending: BOOLEAN]
Type == {"checkout", "upsert", "deleted", "payment_failed"}

\* The row has no subscription id before the first checkout and after a
\* deletion: sub = 0.
Row == [sub: Nat, price: Plan \union {"none"}, plan: Plan \union {"free"},
        status: Status, ending: BOOLEAN]

Step ==
  {"idle", "insert", "fetch", "apply", "mark", "release", "write.plan", "write.flag"}

Nothing == [price |-> "none", metadata |-> "none", status |-> "active", ending |-> FALSE]
Free(status) ==
  [sub |-> 0, price |-> "none", plan |-> "free", status |-> status, ending |-> FALSE]

Init ==
  /\ stripe = << >>
  /\ events = << >>
  /\ acked = {} /\ keys = {} /\ stored = {} /\ processed = {}
  /\ row = Free("active")
  /\ pc = [p \in Process |-> "idle"]
  /\ at = [p \in Process |-> 0]
  /\ held = [p \in Process |-> Nothing]
  /\ trace = [effects |-> << >>, missed |-> {}, last |-> 0, ordered |-> TRUE]

db == <<keys, stored, processed, row>>
locals == <<pc, at, held>>

--------------------------------------------------------------------------
(* Stripe *)

Latest == Len(stripe)
Open == Latest > 0 /\ stripe[Latest].status # "canceled"

\* The events of one change, each with the state of the subscription.
Emit(n, state, types) ==
  /\ Len(events) + Len(types) <= MaxEvents
  /\ events' = events \o [i \in 1 .. Len(types) |-> [type |-> types[i], sub |-> n, state |-> state]]
  /\ trace' = [trace EXCEPT !.effects = @ \o [i \in 1 .. Len(types) |-> 0]]

Alter(n, state, types) ==
  /\ stripe' = [stripe EXCEPT ![n] = state]
  /\ Emit(n, state, types)

Begin(p, metadata, type) ==
  LET state == [price |-> p, metadata |-> metadata, status |-> "active", ending |-> FALSE] IN
  /\ stripe' = Append(stripe, state)
  /\ Emit(Latest + 1, state, <<type>>)

\* A checkout session is paid, whose metadata the API gave it, or somebody
\* makes a subscription by hand for the customer of the row.
Subscribe ==
  /\ ~ Open
  /\ \E p \in Plan : Begin(p, p, "checkout") \/ Begin(p, "none", "upsert")
  /\ UNCHANGED <<acked, db, locals>>

\* A plan change in the customer portal, which leaves the metadata alone; a
\* payment that succeeds after all.
StripeChanges ==
  /\ Open
  /\ \/ \E p \in Plan \ {stripe[Latest].price} :
          Alter(Latest, [stripe[Latest] EXCEPT !.price = p], <<"upsert">>)
     \/ /\ stripe[Latest].status = "past_due"
        /\ Alter(Latest, [stripe[Latest] EXCEPT !.status = "active"], <<"upsert">>)
  /\ UNCHANGED <<acked, db, locals>>

PaymentFails ==
  /\ Open
  /\ Alter(Latest, [stripe[Latest] EXCEPT !.status = "past_due"], <<"payment_failed", "upsert">>)
  /\ UNCHANGED <<acked, db, locals>>

SubscriptionEnds ==
  /\ Open
  /\ Alter(Latest, [stripe[Latest] EXCEPT !.status = "canceled"], <<"deleted">>)
  /\ UNCHANGED <<acked, db, locals>>

--------------------------------------------------------------------------
(* StripeWebhookHandler *)

Goto(p, s) == pc' = [pc EXCEPT ![p] = s]

\* The answer: 200, which ends Stripe's retries, or 500.
Answer(h, ok) ==
  /\ Goto(h, "idle")
  /\ at' = [at EXCEPT ![h] = 0]
  /\ held' = [held EXCEPT ![h] = Nothing]
  /\ acked' = IF ok THEN acked \union {at[h]} ELSE acked

Outside == <<stripe, events>>

\* An event of that age is answered 200 and not looked at.  (Here and in
\* RejectSeen, a further 200 changes nothing.)
RejectOld(e) ==
  /\ "old" \in Faults
  /\ e \notin acked
  /\ acked' = acked \union {e}
  /\ trace' = [trace EXCEPT !.missed = @ \union {e}]
  /\ UNCHANGED <<Outside, db, locals>>

\* Blocked by the Redis key: answered 200.
RejectSeen(e) ==
  /\ e \in keys \ acked
  /\ "overlap" \in Faults \/ \A h \in Handler : at[h] # e
  /\ acked' = acked \union {e}
  /\ UNCHANGED <<Outside, db, locals, trace>>

\* SET ... NX succeeds.
Receive(h, e) ==
  /\ pc[h] = "idle"
  /\ e \notin keys
  /\ keys' = keys \union {e}
  /\ at' = [at EXCEPT ![h] = e]
  /\ Goto(h, "insert")
  /\ UNCHANGED <<Outside, acked, stored, processed, row, held, trace>>

\* Mutant of Insert: the event is taken up without a row of its own.
Insert_StoresNothing(h) ==
  /\ pc[h] = "insert"
  /\ Goto(h, IF events[at[h]].type = "checkout" THEN "fetch" ELSE "apply")
  /\ UNCHANGED <<Outside, acked, db, at, held, trace>>

\* Mutant of Insert: a stored event that is not processed yet is taken up
\* again, whoever else is at it.
Insert_RetriesUnprocessed(h) ==
  /\ pc[h] = "insert"
  /\ IF at[h] \in processed
     THEN Answer(h, TRUE) /\ UNCHANGED stored
     ELSE /\ stored' = stored \union {at[h]}
          /\ Goto(h, IF events[at[h]].type = "checkout" THEN "fetch" ELSE "apply")
          /\ UNCHANGED <<acked, at, held>>
  /\ UNCHANGED <<Outside, keys, processed, row, trace>>

\* insertBillingEventIfNew: a conflict is answered 200, processed or not.
Insert(h) ==
  /\ pc[h] = "insert"
  /\ IF at[h] \in stored
     THEN Answer(h, TRUE) /\ UNCHANGED stored
     ELSE /\ stored' = stored \union {at[h]}
          /\ Goto(h, IF events[at[h]].type = "checkout" THEN "fetch" ELSE "apply")
          /\ UNCHANGED <<acked, at, held>>
  /\ UNCHANGED <<Outside, keys, processed, row, trace>>

\* Mutant of Fetch: a checkout is answered before it is handled.
Fetch_AnswersEarly(h) ==
  /\ pc[h] = "fetch"
  /\ Answer(h, TRUE)
  /\ UNCHANGED <<Outside, db, trace>>

\* handleCheckoutCompleted reads the subscription as Stripe has it now.
Fetch(h) ==
  /\ pc[h] = "fetch"
  /\ held' = [held EXCEPT ![h] = stripe[events[at[h]].sub]]
  /\ Goto(h, "apply")
  /\ UNCHANGED <<Outside, acked, db, at, trace>>

\* metadata?.plan ?? 'free': the price has no say.
PlanOf(state) == IF state.metadata = "none" THEN "free" ELSE state.metadata

\* Mutant of Upsert: the plan is missing from the columns that are updated.
Upsert_KeepsPlan(n, state) ==
  [sub |-> n, price |-> state.price,
   plan |-> IF row.sub = 0 THEN PlanOf(state) ELSE row.plan,
   status |-> state.status, ending |-> state.ending]

\* upsertSubscription: every column of the workspace's row is replaced.
Upsert(n, state) ==
  [sub |-> n, price |-> state.price, plan |-> PlanOf(state),
   status |-> state.status, ending |-> state.ending]

\* updateSubscriptionByStripeId: only if the row is of that subscription.
Patch(n, newRow) == IF row.sub = n THEN newRow ELSE row

\* What an event does to the row.
Effect(event, fetched) ==
  CASE event.type = "checkout" -> Upsert(event.sub, fetched)
    [] event.type = "upsert" -> Upsert(event.sub, event.state)
    [] event.type = "deleted" -> Patch(event.sub, Free("canceled"))
    [] event.type = "payment_failed" ->
         Patch(event.sub, [row EXCEPT !.plan = "free", !.status = "past_due"])

\* The history notes an effect and whether it came in order.
Note(e, effects) ==
  trace' = [trace EXCEPT !.effects = effects, !.last = e,
                         !.ordered = @ /\ e >= trace.last]

Apply(h) ==
  LET e == at[h] IN
  /\ pc[h] = "apply"
  /\ row' = Effect(events[e], held[h])
  /\ Note(e, [trace.effects EXCEPT ![e] = @ + 1])
  /\ Goto(h, "mark")
  /\ UNCHANGED <<Outside, acked, keys, stored, processed, at, held>>

MarkProcessed(h) ==
  /\ pc[h] = "mark"
  /\ processed' = processed \union {at[h]}
  /\ Answer(h, TRUE)
  /\ UNCHANGED <<Outside, keys, stored, row, trace>>

\* A call throws and the answer is 500: inside the try block the Redis key is
\* released first, the INSERT above it is outside.
Fail(h) ==
  /\ \/ "outage" \in Faults /\ pc[h] = "insert" /\ Answer(h, FALSE)
     \/ /\ "fail" \in Faults
        /\ pc[h] \in {"fetch", "apply", "mark"}
        /\ Goto(h, "release")
        /\ UNCHANGED <<acked, at, held>>
  /\ trace' = [trace EXCEPT !.missed = @ \union {at[h]}]
  /\ UNCHANGED <<Outside, db>>

\* An error of the DEL is swallowed.
Release(h) ==
  /\ pc[h] = "release"
  /\ \/ keys' = keys \ {at[h]}
     \/ "outage" \in Faults /\ UNCHANGED keys
  /\ Answer(h, FALSE)
  /\ UNCHANGED <<Outside, stored, processed, row, trace>>

Crash(h) ==
  /\ "crash" \in Faults
  /\ pc[h] # "idle"
  /\ trace' = [trace EXCEPT !.missed = @ \union {at[h]}]
  /\ Answer(h, FALSE)
  /\ UNCHANGED <<Outside, db>>

--------------------------------------------------------------------------
(* BillingService: the change is made at Stripe, its answer then written. *)

Call(c, state, next) ==
  /\ Alter(row.sub, state, <<"upsert">>)
  /\ at' = [at EXCEPT ![c] = Len(events) + 1]
  /\ held' = [held EXCEPT ![c] = state]
  /\ Goto(c, next)
  /\ UNCHANGED <<acked, db>>

\* changePlan, cancelSubscription (at period end), resumeSubscription: Stripe
\* refuses a subscription that has ended.
ChangeSubscription(c) ==
  LET now == stripe[row.sub] IN
  /\ pc[c] = "idle"
  /\ row.sub # 0
  /\ now.status # "canceled"
  /\ \/ /\ row.status \in {"active", "past_due"}
        /\ \E p \in Plan : Call(c, [now EXCEPT !.price = p, !.metadata = p], "write.plan")
     \/ Call(c, [now EXCEPT !.ending = TRUE], "write.flag")
     \/ row.ending /\ Call(c, [now EXCEPT !.ending = FALSE], "write.flag")

\* changePlan upserts, the other two patch status and flag.
WriteAnswer(c) ==
  LET n == events[at[c]].sub IN
  /\ \/ pc[c] = "write.plan" /\ row' = Upsert(n, held[c])
     \/ /\ pc[c] = "write.flag"
        /\ row' = Patch(n, [row EXCEPT !.status = held[c].status, !.ending = held[c].ending])
  /\ Note(at[c], trace.effects)
  /\ Goto(c, "idle")
  /\ at' = [at EXCEPT ![c] = 0]
  /\ held' = [held EXCEPT ![c] = Nothing]
  /\ UNCHANGED <<Outside, acked, keys, stored, processed>>

--------------------------------------------------------------------------
Stripe == Subscribe \/ StripeChanges \/ PaymentFails \/ SubscriptionEnds

Proceed(h) ==
  Insert(h) \/ Fetch(h) \/ Apply(h) \/ MarkProcessed(h) \/ Release(h)

Next ==
  \/ Stripe
  \/ \E e \in Event : RejectOld(e) \/ RejectSeen(e) \/ \E h \in Handler : Receive(h, e)
  \/ \E h \in Handler : Proceed(h) \/ Fail(h) \/ Crash(h)
  \/ \E c \in Caller : ChangeSubscription(c) \/ WriteAnswer(c)

Spec == Init /\ [][Next]_vars

--------------------------------------------------------------------------
TypeOK ==
  /\ stripe \in Seq(State)
  /\ events \in Seq([type: Type, sub: Nat, state: State])
  /\ acked \subseteq Event
  /\ keys \subseteq Event
  /\ processed \subseteq stored /\ stored \subseteq Event
  /\ row \in Row /\ row.sub <= Latest
  /\ pc \in [Process -> Step]
  /\ at \in [Process -> Event \union {0}]
  /\ held \in [Process -> State \union {Nothing}]
  /\ trace \in [effects: Seq(Nat), missed: SUBSET Event, last: Nat, ordered: BOOLEAN]

\* Whatever Stripe repeats and however deliveries overlap, fail and are
\* retried, an event takes effect at most once.
AtMostOnce == \A e \in Event : trace.effects[e] <= 1

Handled(e) == e \in processed \/ \E h \in Handler : at[h] = e

\* An event is only ever dropped when an attempt at it failed, crashed or
\* came outside the replay window: otherwise a 200 means that it has been or
\* is being processed.
AckedIsHandled == \A e \in acked : Handled(e) \/ e \in trace.missed

\* The plan is the one named at checkout or by the last changePlan, and free
\* for a subscription that was made by hand, whatever the price.
Matches ==
  LET now == stripe[Latest] IN
  IF now.status = "canceled" THEN row = Free("canceled")
  ELSE /\ row.sub = Latest
       /\ row.price = now.price
       /\ row.plan = IF now.metadata \in Plan THEN now.metadata ELSE "free"
       /\ row.status = now.status
       /\ row.ending = now.ending

\* Every event took effect, and the effects (the answers to the API's own
\* calls included) came in the order of Stripe's changes.
CaughtUp ==
  /\ trace.ordered
  /\ Latest > 0
  /\ \A e \in Event : trace.effects[e] = 1

\* A row that has caught up is what Stripe has: price, status, end and the
\* plan of the metadata.  That plan is not the one of the price after a change
\* in the portal, although the portal is there for "self-service plan
\* management" (docs/api/billing.md:49).
Converges == CaughtUp => Matches

--------------------------------------------------------------------------
(* Statements of the documentation and comments. *)

\* "Handler failures release the Redis dedup key so Stripe can retry"
\* (docs/api/billing.md:198): where nothing but handler failures goes wrong,
\* an event is processed by the time Stripe stops retrying it.
FailedIsRetried == \A e \in acked : Handled(e)
==========================================================================
