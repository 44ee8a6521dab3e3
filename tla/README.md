# Verification of the email service API

TLA+ models of the parts of this repository in which concurrent requests,
retries, crashes and external systems meet shared rows, with TLC runs that
check them on small instances and TLAPS proofs for every instance.

The API is a Fastify process (several may run) over PostgreSQL, Redis, NATS
JetStream, Stripe and SES. JavaScript runs one callback at a time, so the unit
of interleaving is the stretch between two `await`s, and the state that
requests share is in the database, the caches and the queues. Every module
below is written from that point of view: a handler is a process whose program
counter names the `await` it stands at, each database statement, Redis command
or publish is one step, and any other request may run between two of them.

## The system

| Component | State | Operations | Hard part |
|---|---|---|---|
| Campaigns (`campaigns/`) | `campaigns` row with status and version; jobs in the stream | create, update, schedule, send, pause, resume, delete; a delivery worker outside the repository | version check after many awaits, publish after commit, rollback, crash in between |
| Sessions (`auth/services/token.service.ts`, `auth.service.ts`) | `refresh_tokens`, `users.passwordHash`, JTI denylist in Redis | login, refresh, logout, logout-all, revoke session, change and reset password, cleanup | rotation under parallel refreshes, grace window, statements that miss rows inserted meanwhile |
| Stripe webhooks and subscription (`billing/`) | `subscriptions`, `billing_events`, Redis dedup key | webhook handler, change plan, cancel, resume | redelivery, retries of failed handlers, order of events, answers of own calls |
| Transactional sends (`transactional/`) | `email_sends`, Redis idempotency record | send | retries, reservation without response, publish and rollback |
| Usage and quota (`billing.service.ts`) | `usage_counters`, cached snapshot in Redis | getUsage, recordUsage, hasQuotaRemaining | check-then-act, stale cache |
| Workspaces, members, RBAC (`workspaces/`, `rbac.service.ts`) | `workspaces`, `workspace_members`, `invitations`, cached membership | create, transfer, role change, removal, invite, accept | checks on stale rows, cache filled after its invalidation |
| Account security (`auth.service.ts`) | failed-login counter, lock, reset and verification tokens | login failure, forgot and reset password, verify email | counters under concurrency, one-time tokens |
| Checkout (`billing.service.ts`) | Redis lock, Stripe customer | create checkout and portal session | lock that outlives or is outlived by its holder |
| Segments (`segments/`, `jobs/`) | `segments` with status, memberships; core NATS message | create, update, refresh, worker | lost and overlapping refreshes, edits during one |
| Workflows (`workflows/`) | `workflows` with status and graph | create, update, publish, pause, resume, delete; graph validator | status checked on a read; a pure algorithm |
| Domains (`domains/`) | `domains` with status and version; SES identities | create, requeue verification, delete | two systems changed without a common transaction |
| Templates (`transactional/`) | `email_templates`, one row per version | create, update (clones a published version), publish, delete | clone, patch and publish are separate statements |
| Events (`events/`) | `events_raw`, counters in Redis, JetStream | track, identify, page, group, alias | row, message and usage without a common transaction |
| Contacts, API keys, plan limits | rows counted against the plan | create, import, update, delete, revoke | count and insertion are not atomic |
| Analytics, audit | none; appended rows | aggregation in SQL | none |

Components meet in few places: campaigns, sends, events and contacts call
`BillingService.recordUsage` and `hasQuotaRemaining`; webhooks change the plan
those read; segments and domains are read by a campaign before it is sent;
`authenticate` reads the denylist and the `users` row on every request.

## Modules

| Module | Models |
|---|---|
| `CampaignLifecycle` | abstract specification: the status machine of a campaign with one-step requests |
| `Campaigns` | `CampaignService` cut at its awaits, with the delivery worker; implements `CampaignLifecycle` |
| `CampaignsProofs` | theorems about `Campaigns` |
| `Sessions` | `TokenService` and the handlers of `AuthService` over it, for one user |
| `SessionsProofs` | theorems about `Sessions` |
| `StripeWebhooks` | `StripeWebhookHandler` and the subscription operations of `BillingService`, with Stripe outside |
| `StripeWebhooksProofs` | theorems about `StripeWebhooks` |
| `TransactionalSend` | `sendEmail` with the idempotency cache and the usage metering |
| `TransactionalSendProofs` | theorems about `TransactionalSend` |
| `WorkspaceMembers` | `WorkspaceService`'s operations on members and owner, `acceptInvite`, and the membership cache of `RbacService`, for one workspace |
| `WorkspaceMembersProofs` | theorems about `WorkspaceMembers` |
| `Handlers` | what the ten modules below share: a request as a program counter and local values, the faults |
| `Segments` | `SegmentService`, the refresh messages and the workers that run `SegmentRefreshProcessor`, for one segment |
| `GraphValidator` | `validateGraph` with its two searches, node by node |
| `Workflows` | `WorkflowService`, for one workflow, with the messages to the engine |
| `Domains` | `DomainService`, for one name, against the identity at SES |
| `Checkout` | checkout and portal sessions of `BillingService`, the lock and the customer, the webhook of a completed checkout |
| `Accounts` | signup, verification, password reset and the count of failed logins of `AuthService`, for one account |
| `Invites` | `inviteUser` and `acceptInvite`, for one workspace |
| `Templates` | the versions of one template name |
| `Events` | `EventService` from the write key to the answer, for one workspace |
| `PlanLimits` | the checks of resources and contacts against the plan |
| `AccountProofs` | theorems about `Accounts`, `Invites`, `PlanLimits` and `Checkout` |
| `ServicesProofs` | theorems about `Workflows`, `Segments`, `Templates`, `Events`, `Domains` and `GraphValidator` |
| `MCServices` | the ten service modules side by side: `part` says which one moves |
| `MCServicesProofs` | theorems about that composition |
| other `MC*` | instances for TLC: only symmetry sets |

Definitions named `X_Something` that stand before a definition `X` are mutants:
`X` with a plausible bug in it. Each property of a passing run is violated when
one of them takes the place of its original (PROJECT.json, "mutants").

### Campaigns

`row[c]` is the row, `pc[r]` where a request stands, `seen[r]` the row its
first read returned, `payload[r]` the row its UPDATE returned. A send is
`SendRead`, `SendCount` (the monthly count), `SendTransition`
(`transitionStatusWithVersion`), `SendPublish`, then `SendRecord` or
`SendRollback`; a resume is `ResumeRead`, `ResumeWrite`, `ResumePublish`; a
delete is `DeleteRead`, `DeleteWrite`. The guarded UPDATE of PostgreSQL is one
step, because its WHERE is re-evaluated on the locked row; two statements of a
READ COMMITTED transaction are two steps. Scheduling time is one bit per row
(`ahead`), the month never changes. The worker is outside the repository; it
is assumed to finish a campaign that is sending and to drop the jobs of the
others, and may or may not bump the version.

### Sessions

A row's index in `rows` is its id, its age, the token it stores the hash of and
the jti of the access token issued with it. `RefreshLock` and `RefreshCommit`
are the SELECT ... FOR UPDATE and the commit of `rotate`; the row is locked in
between. `SweepRead` and `SweepWrite` are one `UPDATE ... WHERE user_id`: the
rows found under its snapshot, then locked and re-evaluated. `CapRank` and
`CapRevoke` are the subselect and the update of `enforceSessionCap` in the same
way. `clock` holds the ages up to which rows are out of their grace window,
expired and deleted.

### StripeWebhooks

Stripe is the environment: it changes the subscription, emits events with the
state at that time, and delivers them in any order and any number of times
until one delivery is answered 200 (and possibly once more). A subscription
there has a price and metadata. The row's plan is that of the metadata
(`PlanOf`, `metadata?.plan ?? 'free'`), which a checkout and `changePlan` write
and a plan change in the customer portal leaves as it is; a subscription made by
hand for the customer has none. `Receive` is the SET NX,
`Insert` the `billing_events` row, `Fetch` the Stripe call of a checkout,
`Apply` the write of the subscription row, `MarkProcessed` the end; `Fail` and
`Release` are the catch block. `ChangeSubscription` and `WriteAnswer` are the
two halves of an API call that asks Stripe for a change and stores its answer.
The history variable `trace` counts the effects of each event.

### TransactionalSend

`Reserve` is SET NX, `Lookup` the GET after a failed one; `ReadSnapshot`,
`CountUsage` and `FillSnapshot` are `getUsage`, ending in the quota decision;
`InsertSend`, `Publish`, `Rollback`, `RecordUsage`, `Invalidate` and
`StoreResponse` the rest of `sendEmail`. `Serialized` is what JSON does to an
infinite limit. `era` counts the lives of the key, `history.slack` how far a
granted check was behind the truth.

### WorkspaceMembers

`GuardHit`, `GuardRead` and `GuardFill` are `workspaceGuard`: the role a
request acts with is the cached one, or one read and then cached. A role change
and a removal are a read with its checks and a write by the membership's id; a
member who was removed and invited again has a new id. A transfer is
`TransferRead` (the workspaces row), `TransferLock` (both memberships FOR
UPDATE), `TransferWorkspace` (`updateWithVersion`, which runs on the pool and
so takes effect at once) and `TransferCommit`; the locked rows block writes of
others in between. `Invalidate` deletes the cache entries one by one. The
other writers of the workspaces row (`UpdateWorkspace`) matter by their
version only. The two lower roles are one. The sessions that a removal revokes
are `Sessions`' business.

### The service modules

They share one form. `pc[r]` is the await that request `r` stands at and
`local[r]` what it holds across it; a handler of one database step has no
request. `Faults` says whether Redis, NATS, Stripe and SES fail ("outage") and
whether a process stops or a database call throws ("crash"); a handler that
stops simply makes no further step, which is also what an uncaught error does.
Each module has a history variable, never read by the actions, that notes the
races which the code does not exclude; the properties name them.

- `Segments`: `Where` compiles a filter tree as `buildWhereClause` does (a
  condition that is dropped is not a condition that selects nobody); it is a
  recursive function over the rules of the instance. `EnqueueRefresh` puts a
  message into the inbox of every worker that listens, or loses it. A worker
  takes `Receive`, `Mark`, `Query`, `Insert`, `Finish`; two workers may refresh
  at once, and `seen` is what READ COMMITTED lets the DELETE of one see of the
  other. `MemberFind` to `MemberFinish` are the two handlers that change a
  static segment by hand.
- `GraphValidator`: `WellFormed` stands for the checks of single nodes and
  edges; `StartDfs`, `FollowEdge`, `EndDfs` are `hasCycle` with its call stack
  and colors, `Visit` is `bfsReachable`. The edges of a node are followed in any
  order, so that the verdict is shown not to depend on the order of the list.
  `LeadsTo` and `Acyclic`, the reference, speak of sets of nodes closed under
  edges; a theorem says that they are about the paths of the community module
  `Graphs`.
- `Workflows`: an update is a read and a write without a status guard; a
  publication is a read, SET NX, a guarded UPDATE and a message. `registered` is
  the graph at the last message, as the engine reads the row when it gets it.
- `Domains`: `CreateCheck`, `CreateInsert`, the SES calls, `CreateUpdate` or
  `CreateRollback`; `DeleteRead`, `DeleteMark`, `DeleteSes`, `DeleteTombstone`.
  A selector is named by the registration that drew it. `cleanup` counts the
  detached calls of `deleteIdentity` after a rollback.
- `Checkout`: `lock` holds the request that set it, but is deleted by whoever
  comes; a session stays payable (`open`) long after its request. The delivery
  of webhooks in general is in `StripeWebhooks`.
- `Accounts`: `FailureRead` and `FailureWrite` are one SQL statement, whose
  subquery reads the row before the UPDATE has its lock. A link keeps the number
  of resets before it (`era`).
- `Invites`: `seen` is the count of members for which an invitation was made.
  The revocation of earlier invitations locks them until the commit.
- `Templates`: `wrote[v]` is the text that whoever published version `v` meant.
- `Events`: the counters of the workspace and of the key, the quota, the row,
  the message, the usage; a message that was not acknowledged may be stored.
- `PlanLimits`: `seen` is the count on which a request decided.

## Runs

| Run | Instance | Shows |
|---|---|---|
| `Campaigns.cfg` | 1 campaign, 4 requests, 2 contents, all faults | `OneWinner`, `VettedSend`, `UsageBacked`, `SendingIsServed`, refinement of the lifecycle, `SendingEnds` |
| `Campaigns_limit.cfg` | 2 campaigns, limit 1 | violation: two sends of different campaigns pass the monthly limit, which the comment at campaign.service.ts:414 excludes |
| `Sessions.cfg` | 3 requests, cap 1, 2 rows can age, crashes | `OneChain`, `EndedForGood`, `EndedIsDenied`, `CapEnforced`, `OldPasswordOut` |
| `Sessions_reuse.cfg` | 3 requests | violation: the family of a reused token is not revoked (the error rolls the revocation back) |
| `StripeWebhooks.cfg` | 2 handlers, 1 API call at a time, 2 plans, 3 events, all faults | `AtMostOnce`, `AckedIsHandled`, `Converges` |
| `StripeWebhooks_retry.cfg` | 1 handler, 1 event, handler failures only | violation: the retry of a failed event is taken for a duplicate and never processed |
| `TransactionalSend.cfg` | 3 requests, 2 bodies, 2 lives of the key, limit 1, all faults | `AcceptedIsReal`, `NoRequeue`, `OneBody`, `SnapshotFresh`, `QuotaBound` |
| `TransactionalSend_retry.cfg` | 2 requests one after the other | violation: a retry after an error sends twice |
| `TransactionalSend_enterprise.cfg` | unlimited quota | violation: an unlimited quota is refused on a cached snapshot |
| `WorkspaceMembers.cfg` | 3 users, 3 requests, 2 updates of the workspaces row, all faults | `OneOwner`, `OwnerRecorded`, `CacheFresh` |
| `WorkspaceMembers_owner.cfg` | 2 users, 2 requests, no faults | violation: the last owner is demoted by a role change that read the target before a transfer |
| `Services.cfg` | 3 requests (2 in `Segments`), all faults; 1 contact, 2 workers, 2 filter trees; 9 node lists with every edge set over 3 nodes; 2 graphs, 2 workspaces, 2 attempts, 2 invitees beside the owner and limit 2, 3 versions, 2 write keys with limits 1 and 2, resource limit 1, 3 emails with limit 2 | the thirteen properties below |

| Property of `Services.cfg` | Says |
|---|---|
| `TypeOK` | the types of the part that moves, with what ties its variables together |
| `SegmentConverges` | when all messages are handled, a dynamic segment is ready with the members and count of its current filter, or failed |
| `VerdictRight` | exactly the acyclic graphs with one trigger that reaches every node are accepted |
| `RunsWhatIsStored` | the engine was given the graph of a published workflow |
| `SendingIsOwned` | one workspace has the name, and its row the key that SES signs with |
| `ChargedOnce`, `OneCustomer` | no two live subscriptions; one customer, to whom every session belongs |
| `LockoutExact` | the configured number of failures locks the account, no fewer |
| `OldLinksDead` | no reset link survives a reset |
| `InvitesBounded` | members stay within the plan, and one open invitation per email |
| `PublishedIsFrozen` | a published version has and keeps the text its publisher meant |
| `EventsAccounted` | row, message and usage agree with the answer, and the key's rate limit holds |
| `PlanLimitHeld` | no more rows than the plan allows |

Several properties hold only with exceptions, and the exceptions are the point:
they name every way in which the code gives the promise up.
`SendingIsServed` excepts a crash between UPDATE and publish (any crash of a
request on that campaign, in fact, as a crashed request does not show where it
stood), and a resume whose publish failed (logged only); like `SendingEnds` it speaks of campaigns
that have a segment to deliver to (`Delivering`), since resume moves one that
lost its segment to sending and publishes nothing (see below). `OldPasswordOut` excepts sessions of a
login or refresh that overlapped the sweep, a rehash that wrote the old
password back, and, for the same reason, any state in which a request has
crashed. `AckedIsHandled` excepts events an attempt at which failed,
crashed or came outside the replay window. `Converges` speaks of effects that
came in Stripe's order, and of the plan in the metadata: after a change in the
portal the row has the new price and the old plan (see below), and that of a
subscription made by hand is free. `SnapshotFresh` excepts a reader
that counted before the last increment and wrote after it. `OneOwner` excepts
the loss of the owner to a stale role change or removal (two owners are never
possible); `OwnerRecorded` also a transfer whose update of the workspace
matched no row or whose commit did not follow; `CacheFresh` a deletion that is
pending or was lost, and a guard that cached what it had read before.

The same in `Services.cfg`. `SegmentConverges` excepts a lost message or
refresh and a type that changed under a handler; the count of a static segment
also one that was written after the members had changed again.
`RunsWhatIsStored` excepts an edit that had read a draft and was written after
the publication, and a lost message. `SendingIsOwned` excepts registrations,
deletions and clean-ups of one name that overlap, since each takes the identity
of the name for its own, and a verification requeued before there was a key.
`ChargedOnce` excepts a checkout that starts while an earlier session can be
paid or waits for its webhook, and a lock taken from its holder; `OneCustomer`
two creations at once, as the portal takes no lock, and one that stopped
half-way. `LockoutExact` excepts a failure counted on a row that had changed.
`InvitesBounded` and `PlanLimitHeld` count exactly the rows that were let in by
a count gone out of date. `PublishedIsFrozen` excepts a patch between another
request's patch and publish of the same draft.

### Bounds

Nothing is bounded by a state constraint; counters stop in the guards.
Requests are made once each, so their number bounds the runs. Four requests on
one campaign are two sends and the pause and resume, or the edit, that have to
fall between them. Sessions needs three: two refreshes with one token and a
revocation, or a login, a reset and a refresh; `Horizon` 2 lets a row and its
successor age, which the grace path needs. Three Stripe events are a checkout
and two changes in either order; two handlers are a delivery and its retry.
For sends, three requests are an attempt, its retry and one with another body
or without a key; `MaxExpiries` 1 gives two lives of the key, which all
properties about the key distinguish. `Limit` 1 makes the second send overrun.
Three users and requests are two transfers of one owner to different members
and a role change, or a stale write beside both.

`Services.cfg` explores each service by itself from one initial state: they
keep disjoint rows and do not call each other, so that steps of two of them
commute and their product would only repeat the states of each. Three requests
are two that race and a third that undoes or repeats; in `Segments`, where two
workers, messages and two requests overlap already, `MaxRequests` lets only two
begin beside the creation. Three nodes are the smallest graph with a cycle that
the trigger does not reach, and with a node reached on two paths. Limits of one
and two are reached and overrun. `MaxVersion` 3 is a version, its clone and the
clone of that. The two filter trees hold one rule of each kind. `CHECK_DEADLOCK` is off in every configuration, because a run ends when all
its requests have been answered.

### Fairness

Only `SendingEnds` needs it (`FairSpec` of `Campaigns`): a request in progress
runs on, since the event loop resumes every settled promise and every call has
a timeout, and the worker keeps consuming the stream, since a JetStream consumer
is redelivered what it does not acknowledge. No client is obliged to make a
request, and a crashed process is not obliged to return.

## Proofs

Every safety invariant and action property of the passing runs is proved for
all values of the constants; what is left to TLC is the liveness property. The
proofs assume what the ASSUMEs of the modules say, which the code justifies:
enumerations and limits have their types, a limit that is compared with a count
is at least one where the code's constants are, and a value that means "none"
is not a request, a body or a user. The sets of campaigns, requests, users,
handlers, workers and events may be of any size; `Invitee` and `Email` are
finite because they are counted, as is `Contact`. Rules are assumed to be trees:
the rules of a group are rules, and every set of rules has one without a group
inside it (JSON has no cycles). Nothing is assumed of the faults that occur.

Few of the properties are inductive: they say what holds after a write, and
whether the write happens depends on a row read many awaits before. The
strengthening is each time what a request still knows at its await. There is
one lemma per action.

**`CampaignsProofs`**: `TypeCorrect`, `OneWinnerHolds`, `VettedSendHolds`,
`SendingIsServedHolds`, `UsageBackedHolds`, `LifecycleImplemented`,
`FinishedIsFinal`.
`CampaignsInv` adds, for every request (`RequestOK`), that the version it read
is at most the row's, that equal versions mean equal contents, and that after
the UPDATE the row's version is larger than the one read; `RowAdvances` is the
lemma behind it (a step never lowers a version, and never changes a content
without raising it). `LaunchInv` adds that a status changes under an unchanged
version only when the worker finishes the campaign, so that a send which wins
its version check knows the status it may have to roll back to, and that a
request has jobs in the stream only from its publish on. `MeterInv` compares
the usage with the sends in the stream of which the request is past its
recording. On these rests the refinement: each step of the handlers is a step
of `CampaignLifecycle` or leaves its variables alone.
`FinishedIsFinal` draws from it what the machine is for: its own invariant
(`LaunchedInLifecycle`) and the steps it allows hold of the handlers.

**`SessionsProofs`**: `TypeCorrect`, `OneChainHolds`, `EndedIsDeniedHolds`,
`OldPasswordOutHolds`, and the action properties `EndedForGoodHolds` and
`CapEnforcedHolds`. `Chained` says that a row's predecessor is an older,
revoked row of its family, that a family has one active row at most, and that a
refresh holding a lock holds it on an active row: the second of two parallel
refreshes finds its row revoked. `PasswordOut` says what a sweep that has taken
its snapshot and a login under way can leave behind. `CapEnforced` counts live
rows across logins that have and have not enforced the cap; `CapInv` maps the
rows that no enforcement has counted injectively to the logins that issued them
(`OwnsFresh`), which bounds their number by that of the logins the property
excepts.

**`StripeWebhooksProofs`**: `TypeCorrect`, `AtMostOnceHolds`,
`AckedIsHandledHolds`, `ConvergesHolds`. `StripeOK` ties each event to Stripe's
subscription: the last one carries the present state. `TakenOnce` says that a
handler past the INSERT is alone with its event, which has had no effect yet;
`Accounted` that an event with a key, a row or a 200 is being handled, was, or
is missed; `InOrder` that as long as the effects come in Stripe's order and
none is missing the row is that of the latest one. `ConvergesHolds` is what it
comes to when no event is left: the last one carries the price and the metadata
that Stripe has, so the row has that price and the plan of that metadata.

**`TransactionalSendProofs`**: `TypeCorrect`, `AcceptedIsRealHolds`,
`NoRequeueHolds`, `OneBodyHolds`, `SnapshotFreshHolds`, `QuotaBoundHolds`.
`SendInv` says what a request has done by its await (`DoneBy`) and that a sendId
which was answered or stored is of a request that ended well, so that no
rollback removes its row. `KeyInv` says what the record in Redis still shows of
what a request found under the key in the same life of it. `UsageInv` is the
two properties about the quota and that a cached limit is the limit.

**`WorkspaceMembersProofs`**: `TypeCorrect`, `OneOwnerHolds`,
`OwnerRecordedHolds`, `CacheFreshHolds`. `MembersInv` adds that the actor of a
transfer is the owner from the check to the commit (`Holding`), which the row
lock guarantees; that two transfers never hold locks at once (`OneHolder`),
since both would have locked the same owner; and that a role change or removal
has read a target that was no owner, so that hitting one is a stale write.
`RecordInv` says whom the workspaces row names between the two writes of a
transfer.

**`AccountProofs`**: `LimitTypeCorrect`, `PlanLimitHolds`,
`CheckoutTypeCorrect`, `ChargedOnceHolds`, `OneCustomerHolds`. `LimitInv` adds
what a request that is about to insert has counted (`CountedOK`): if the count
still holds at the insertion, so does the limit; if not, the history grows by
the same rows. `SolePurchase` says that whoever buys holds the lock and found
nothing open or paid, `SoleCustomer` that whoever creates a customer is alone
and there was none, each until the history notes what breaks it.

Also there: `AccountTypeCorrect` (an account has one workspace),
`LockoutExactHolds`, `OldLinksDeadHolds`, `InviteTypeCorrect`,
`InvitesBoundedHolds`. The counter of the row is the number of failures in the
open window as long as no failure was counted on a row that had changed
(`CountExact`), and a failure about to be written holds the successor of the
counter it read (`CountedFromSeen`): if the row is still the one it read, the
lock falls exactly on the last attempt. For the invitations, `WithinPlan` bounds
the members by the limit and the late joins, and `OneOpen` says that a request
about to insert has closed what was open for its email.

**`ServicesProofs`**: type correctness of its six modules, and

- `RunsWhatIsStoredHolds`: a request about to write a graph has read a draft
  (`WroteOnDraft`), so that writing to anything else is noted, and a workflow
  becomes published only by a request that then stands at its message;
- `PublishedIsFrozenHolds`: a draft that its patcher is about to publish has
  the text of the patch (`PatchStands`), and a published version keeps it
  (`Frozen`);
- `EventsAccountedHolds`: `Placed` says for each await whether row and message
  are there, `Metering` and `Counting` tie usage and counters to the answers;
- `SendingIsOwnedHolds`: `DomainInv` says that, until calls overlap, a
  registration past its insertion is alone with the identity at SES
  (`PastIsAlone`), that a deletion at SES or a clean-up leaves no row in use,
  and that the key about to be stored is that of the identity (`KeyToStore`);
- `SegmentConvergesHolds`: `SegmentInv` says that what is under way is enough.
  A refresh that read an earlier filter is followed by a message
  (`StaleIsRepeated`), because an edit puts one into the inbox of every worker
  that is up. Once no refresh is to come, every member that the filter does not
  select is among the rows that the DELETE of one running refresh has seen, and
  whoever is missing is inserted by one (`MembersCome`); the status and the
  count come from whoever still has to write them (`ReadyComes`,
  `FailureComes`). The proof speaks of what a query returns (`Known`);
- `SegmentTypeCorrect` adds that this consists of contacts. For that `Where`, a
  recursive function over rules of any depth, must be shown to exist. Two
  compilations of a set of rules that is closed under groups agree, since a
  lowest rule on which they differ would have parts on which they do not
  (`CompilationsAgree`); so those of the sets below each rule join into one of
  all rules (`CompilationExists`). It is the induction over rules, done by a
  minimal counterexample;
- `VerdictRightHolds`: `ValidatorInv` says that the calls of the depth-first
  search are a path of gray nodes (`PathInv`), that an edge already followed
  leads to a black node or to the next call (`FollowedInv`), that black nodes
  lead to black ones and hold no cycle (`BlackInv`), and that the breadth-first
  search has visited or queued whatever its visited nodes lead to, and nothing
  the trigger does not lead to (`SearchInv`). It holds for lists of nodes of
  any length and any set of edges, where the run has three nodes;
- `VerdictIsAboutPaths`: the same verdict with the paths of `Graphs`. A set of
  nodes without an edge out of it contains what a path reaches, and a set that
  each of its nodes stays in contains, being finite, a path that returns.

**`MCServicesProofs`**: `ServicesTypeCorrect` and `ServicesSafe`. For every part
a lemma says that a behaviour of the composition either never runs the part or
is a behaviour of its module's specification (`SegmentsRun`, `ValidatorRuns`,
...); the theorems of the modules then hold of the part that runs.

The proofs changed the models in a few places. That of `SendingIsServed` found a
campaign that is stranded by six requests (below). Those about `StripeWebhooks`
need handlers and callers to be different processes, those about `Invites`,
`Checkout` and `Domains` that their "none" is no request and that there is
somebody to invite, those about `Segments` that rules are trees, and those about
`GraphValidator` that the lists contain nodes and no node is the stranger: true
of every instance, and now assumed by name. `VerdictRight` says with sets what
it said with paths, and `VerdictIsAboutPaths` that this is the same.

Only model-checked: `SendingEnds`, because the prover has neither ENABLED nor
fairness.

## What the code says otherwise

Beside the six findings that a run shows, the models met places where a
comment promises more than the code does; the properties above except them.

- `auth.service.ts:1059` calls `recordFailedLogin` a single statement that
  prevents races; its subquery reads the row without a lock (`LockoutExact`).
- `contact.service.ts:58` and `:248` put the count and the insertion in one
  transaction "to prevent TOCTOU races"; READ COMMITTED does not (`PlanLimitHeld`).
- `docs/api/billing.md:49` offers the customer portal for "self-service plan
  management". A plan change there alters the price only; the event's
  reconciliation stores the new price and takes the plan from the metadata
  (`billing.service.ts:455`), which still names the old one until `changePlan`
  is called: the customer pays for one plan and has the limits of another. A
  subscription made by hand at Stripe, without metadata, is reconciled to `free`
  whatever it costs (`Converges` asks for the plan of the metadata).
- `billing.service.ts:83` locks checkouts against charging twice; the lock is
  gone before the session can be paid (`ChargedOnce`).
- `domain.service.ts:105` deletes the row if step 3 or 4 fails; a failure of
  the last UPDATE leaves it pending (`SendingIsOwned`).
- `campaign.service.ts:602` says that a resumed campaign is published again "so
  the worker picks it up", on the condition that the row has a segment. A
  campaign whose send was rolled back to draft has a `startedAt`, an update may
  then take its segment away, and schedule, pause and resume bring it to
  sending, where nothing is queued for it and nothing ever will be. It takes a
  refused publish and six requests, two more than `Campaigns.cfg` has: the
  attempt to prove `SendingIsServed` for every number of requests failed on it,
  and an instance with six then showed it. `Delivering` excepts it.
- `SegmentService.refreshSegment` sets a static segment to pending, and no
  worker ever takes it out of that.
- `nextTemplateVersion` and `templateNameExists` do not see deleted rows, but
  the unique index does: a name whose first version was deleted cannot be
  created again, nor a version cloned over a deleted number (`CreateTemplateInsert`,
  `CloneInsert` fail).
- `failClosed` of `http/middleware/rate-limit.ts:32` refuses when the pipeline
  returns nothing, but an error of the single INCR lets the request pass.

## Not modelled

Invoices (a copy of Stripe's, which no decision reads) and the writes of
`workspaces.plan` by webhooks; `switchWorkspace`; creation and settings of
workspaces; attributes, tags and suppression of contacts, single-row writes;
the pool of database connections, which two handlers could exhaust by asking
for a second connection inside a transaction (`contact.service.ts:140`,
`workspace.service.ts:533`). Analytics (read-only SQL), audit (append-only),
controllers, schemas and plugins (no state of their own), mail, JWT and bcrypt
primitives, seeds and migrations, and the modules that are empty files at this
commit (admin, ai, webhooks, billing-sync, domain-poll, schedulers).

Theorems worth having next: that what two modules each say of the same row
agrees (the customer in `Checkout` and the subscription in `StripeWebhooks`),
which needs a module that composes them.
