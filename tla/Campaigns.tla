---------------------------- MODULE Campaigns ----------------------------
(***************************************************************************)
(* The campaign handlers of CampaignService over the campaigns table, as   *)
(* concurrent HTTP requests of one workspace in one calendar month.        *)
(*                                                                         *)
(* A handler is cut at its awaits: between two steps of one request any    *)
(* step of another may run.  Every guarded UPDATE of the repository is one *)
(* step, because PostgreSQL re-evaluates its WHERE on the row it locks; a  *)
(* transaction at READ COMMITTED still takes one step per statement.       *)
(* Handlers whose outcome is decided by a single guarded UPDATE (create,   *)
(* update, schedule, pause) are one step: the read before it can only      *)
(* reject the request, and a rejected request changes nothing.             *)
(*                                                                         *)
(* status = "cancelled" stands for deletedAt being set as well: softDelete *)
(* is the only writer of either.                                           *)
(***************************************************************************)
EXTENDS Naturals, FiniteSets

CONSTANTS
  Campaign,      \* rows that may ever be inserted
  Request,       \* HTTP requests, each made once
  Content,       \* revisions of subject, body, sender and segment
  Sendable,      \* contents that pass the validation of a send
  WithSegment,   \* contents with a segmentId
  MaxPerMonth,   \* PLAN_LIMITS[plan].maxCampaignsPerMonth
  Faults         \* "crash": the API process stops inside a request
                 \* "nack": the publish fails, nothing is stored
                 \* "timeout": the publish fails, the job is stored

ASSUME CampaignsAssumption ==
  /\ Sendable \subseteq WithSegment
  /\ WithSegment \subseteq Content
  /\ Content # {}
  /\ MaxPerMonth \in Nat
  /\ Faults \subseteq {"crash", "nack", "timeout"}

VARIABLES
  row,        \* row[c], the campaigns row
  pc,         \* pc[r], the await request r stands at
  target,     \* target[r], its campaign
  seen,       \* seen[r], the row its first read returned
  payload,    \* payload[r], the content of the row its UPDATE returned
  published,  \* jobs stored in the stream
  taken,      \* jobs the delivery worker has dealt with
  usage       \* emails recorded, in campaigns

vars == <<row, pc, target, seen, payload, published, taken, usage>>

Status ==
  {"absent", "draft", "scheduled", "sending", "paused", "sent", "failed", "cancelled"}

Step ==
  {"new", "send.count", "send.transition", "send.publish", "send.rollback",
   "send.record", "resume.write", "resume.publish", "delete.write",
   "done", "warned", "crashed"}

\* A request that is over: answered, answered although its publish failed
\* (resume only logs that), or cut off by the crash of its process.
Over == {"done", "warned", "crashed"}

Row == [status: Status, version: Nat, started: BOOLEAN, ahead: BOOLEAN, content: Content]

Job == [by: Request, campaign: Campaign, content: Content, kind: {"send", "resume"}]

NoContent == CHOOSE x \in Content : TRUE
NoRow ==
  [status |-> "absent", version |-> 0, started |-> FALSE, ahead |-> FALSE,
   content |-> NoContent]

\* findById: a row that exists and is not soft-deleted.
Live(c) == row[c].status \notin {"absent", "cancelled"}

Init ==
  /\ row = [c \in Campaign |-> NoRow]
  /\ pc = [r \in Request |-> "new"]
  /\ target \in [Request -> Campaign]
  /\ seen = [r \in Request |-> NoRow]
  /\ payload = [r \in Request |-> NoContent]
  /\ published = {}
  /\ taken = {}
  /\ usage = 0

--------------------------------------------------------------------------
\* Mutant of Write: the token counts down.
Write_CountsDown(c, newRow) ==
  row' = [row EXCEPT ![c] = [newRow EXCEPT !.version = row[c].version - 1]]

\* UPDATE campaigns SET ..., version = version + 1.
Write(c, newRow) ==
  row' = [row EXCEPT ![c] = [newRow EXCEPT !.version = row[c].version + 1]]

\* The request moves on; one that returns forgets its local variables.
Goto(r, s) == pc' = [pc EXCEPT ![r] = s]

Return(r, outcome) ==
  /\ Goto(r, outcome)
  /\ seen' = [seen EXCEPT ![r] = NoRow]
  /\ payload' = [payload EXCEPT ![r] = NoContent]
  /\ UNCHANGED target

Begin(r, s) ==
  /\ pc[r] = "new"
  /\ Live(target[r])
  /\ Goto(r, s)
  /\ seen' = [seen EXCEPT ![r] = row[target[r]]]
  /\ UNCHANGED <<row, target, payload, published, taken, usage>>

\* A request that is one guarded UPDATE.
Once(r) == pc[r] = "new" /\ Return(r, "done") /\ UNCHANGED <<published, taken, usage>>

--------------------------------------------------------------------------
CreateCampaign(r, x) ==
  LET c == target[r] IN
  /\ row[c].status = "absent"
  /\ Write(c, [row[c] EXCEPT !.status = "draft", !.content = x])
  /\ Once(r)

\* Mutant of UpdateCampaign: the edit leaves the version alone.
UpdateCampaign_KeepsVersion(r, x) ==
  LET c == target[r] IN
  /\ row[c].status = "draft"
  /\ row' = [row EXCEPT ![c].content = x]
  /\ Once(r)

\* updateContent: content only on a draft, the rest on a scheduled one too;
\* the caller's version has to be the row's.
UpdateCampaign(r, x) ==
  LET c == target[r] IN
  /\ \/ row[c].status = "draft"
     \/ row[c].status = "scheduled" /\ x = row[c].content
  /\ Write(c, [row[c] EXCEPT !.content = x])
  /\ Once(r)

ScheduleCampaign(r) ==
  LET c == target[r] IN
  /\ row[c].status \in {"draft", "scheduled", "paused"}
  /\ Write(c, [row[c] EXCEPT !.status = "scheduled", !.ahead = TRUE])
  /\ Once(r)

PauseCampaign(r) ==
  LET c == target[r] IN
  /\ row[c].status \in {"scheduled", "sending"}
  /\ Write(c, [row[c] EXCEPT !.status = "paused"])
  /\ Once(r)

--------------------------------------------------------------------------
\* Publication of the job: acknowledged, refused, or stored without the
\* acknowledgement reaching the client.
Publish(r, kind, acked, failed) ==
  LET job == [by |-> r, campaign |-> target[r], content |-> payload[r], kind |-> kind] IN
  \/ /\ published' = published \union {job}
     /\ acked
  \/ /\ "timeout" \in Faults
     /\ published' = published \union {job}
     /\ failed
  \/ /\ "nack" \in Faults
     /\ failed
     /\ UNCHANGED published

\* assertSendable and the validation of segment, sender, body and quota.
SendRead(r) ==
  /\ row[target[r]].status \notin {"sent", "failed"}
  /\ row[target[r]].content \in Sendable
  /\ Begin(r, "send.count")

\* countSentThisMonth: sent and sending rows started this month.
Counted == {c \in Campaign : row[c].status \in {"sent", "sending"} /\ row[c].started}

SendCount(r) ==
  /\ pc[r] = "send.count"
  /\ IF Cardinality(Counted) >= MaxPerMonth
     THEN Return(r, "done")
     ELSE Goto(r, "send.transition") /\ UNCHANGED <<target, seen, payload>>
  /\ UNCHANGED <<row, published, taken, usage>>

\* Mutant of SendTransition: transitionStatus without the version check.
SendTransition_AnyVersion(r) ==
  LET c == target[r] IN
  /\ pc[r] = "send.transition"
  /\ row[c].status \in {"draft", "scheduled", "paused"}
  /\ Write(c, [row[c] EXCEPT !.status = "sending", !.started = TRUE])
  /\ payload' = [payload EXCEPT ![r] = row[c].content]
  /\ Goto(r, "send.publish")
  /\ UNCHANGED <<target, seen, published, taken, usage>>

\* Mutant of SendTransition: the version check without the status check.
SendTransition_AnyStatus(r) ==
  LET c == target[r] IN
  /\ pc[r] = "send.transition"
  /\ row[c].version = seen[r].version
  /\ Write(c, [row[c] EXCEPT !.status = "sending", !.started = TRUE])
  /\ payload' = [payload EXCEPT ![r] = row[c].content]
  /\ Goto(r, "send.publish")
  /\ UNCHANGED <<target, seen, published, taken, usage>>

\* WHERE version = existing.version AND status IN (draft, scheduled, paused).
SendTransition(r) ==
  LET c == target[r] IN
  /\ pc[r] = "send.transition"
  /\ IF /\ row[c].version = seen[r].version
        /\ row[c].status \in {"draft", "scheduled", "paused"}
     THEN /\ Write(c, [row[c] EXCEPT !.status = "sending", !.started = TRUE])
          /\ payload' = [payload EXCEPT ![r] = row[c].content]
          /\ Goto(r, "send.publish")
          /\ UNCHANGED <<target, seen>>
     ELSE Return(r, "done") /\ UNCHANGED row
  /\ UNCHANGED <<published, taken, usage>>

SendPublish(r) ==
  /\ pc[r] = "send.publish"
  /\ Publish(r, "send", Goto(r, "send.record"), Goto(r, "send.rollback"))
  /\ UNCHANGED <<row, target, seen, payload, taken, usage>>

\* Mutant of SendRollback: usage is recorded on the way out as well.
SendRollback_Meters(r) ==
  /\ pc[r] = "send.rollback"
  /\ usage' = usage + 1
  /\ Return(r, "done")
  /\ UNCHANGED <<row, published, taken>>

\* The publish threw: sending goes back to the status that was read; startedAt stays.
SendRollback(r) ==
  LET c == target[r] IN
  /\ pc[r] = "send.rollback"
  /\ IF row[c].status = "sending"
     THEN Write(c, [row[c] EXCEPT !.status = seen[r].status])
     ELSE UNCHANGED row
  /\ Return(r, "done")
  /\ UNCHANGED <<published, taken, usage>>

SendRecord(r) ==
  /\ pc[r] = "send.record"
  /\ usage' = usage + 1
  /\ Return(r, "done")
  /\ UNCHANGED <<row, published, taken>>

--------------------------------------------------------------------------
ResumeTarget(existing) ==
  IF existing.started THEN "sending" ELSE IF existing.ahead THEN "scheduled" ELSE "draft"

ResumeRead(r) == Begin(r, "resume.write")

\* Mutant of ResumeWrite: the trigger is not published again.
ResumeWrite_Silent(r) ==
  LET c == target[r] IN
  /\ pc[r] = "resume.write"
  /\ row[c].status = "paused"
  /\ Write(c, [row[c] EXCEPT !.status = ResumeTarget(seen[r])])
  /\ Return(r, "done")
  /\ UNCHANGED <<published, taken, usage>>

\* WHERE status = paused; the status it moves to was computed from the read.
ResumeWrite(r) ==
  LET c == target[r] IN
  /\ pc[r] = "resume.write"
  /\ IF row[c].status = "paused"
     THEN /\ Write(c, [row[c] EXCEPT !.status = ResumeTarget(seen[r])])
          /\ IF ResumeTarget(seen[r]) = "sending" /\ row[c].content \in WithSegment
             THEN /\ payload' = [payload EXCEPT ![r] = row[c].content]
                  /\ Goto(r, "resume.publish")
                  /\ UNCHANGED <<target, seen>>
             ELSE Return(r, "done")
     ELSE Return(r, "done") /\ UNCHANGED row
  /\ UNCHANGED <<published, taken, usage>>

\* A failed publish is logged and the request answers 200 all the same.
ResumePublish(r) ==
  /\ pc[r] = "resume.publish"
  /\ Publish(r, "resume", Return(r, "done"), Return(r, "warned"))
  /\ UNCHANGED <<row, taken, usage>>

DeleteRead(r) ==
  /\ row[target[r]].status # "sending"
  /\ Begin(r, "delete.write")

\* softDelete: WHERE deleted_at IS NULL, whatever the status.
DeleteWrite(r) ==
  LET c == target[r] IN
  /\ pc[r] = "delete.write"
  /\ IF Live(c)
     THEN Write(c, [row[c] EXCEPT !.status = "cancelled"])
     ELSE UNCHANGED row
  /\ Return(r, "done")
  /\ UNCHANGED <<published, taken, usage>>

--------------------------------------------------------------------------
\* The API process stops while the request waits.
Crash(r) ==
  /\ "crash" \in Faults
  /\ pc[r] \notin Over \union {"new"}
  /\ Return(r, "crashed")
  /\ UNCHANGED <<row, published, taken, usage>>

\* scheduledAt moves into the past.
TimePasses(c) ==
  /\ row[c].ahead
  /\ row' = [row EXCEPT ![c].ahead = FALSE]
  /\ UNCHANGED <<pc, target, seen, payload, published, taken, usage>>

Queue == published \ taken

\* The delivery worker: it finishes the campaign of a job that is sending,
\* whether or not it touches the optimistic-concurrency token, ...
WorkerFinish(j) ==
  LET c == j.campaign IN
  /\ row[c].status = "sending"
  /\ \E s \in {"sent", "failed"}, v \in {row[c].version, row[c].version + 1} :
       row' = [row EXCEPT ![c] = [row[c] EXCEPT !.status = s, !.version = v]]
  /\ taken' = taken \union {j}
  /\ UNCHANGED <<pc, target, seen, payload, published, usage>>

\* ... and drops a job whose campaign is not.
WorkerDrop(j) ==
  /\ row[j.campaign].status # "sending"
  /\ taken' = taken \union {j}
  /\ UNCHANGED <<row, pc, target, seen, payload, published, usage>>

Proceed(r) ==
  \/ SendCount(r) \/ SendTransition(r) \/ SendPublish(r) \/ SendRollback(r)
  \/ SendRecord(r) \/ ResumeWrite(r) \/ ResumePublish(r) \/ DeleteWrite(r)

Arrive(r) ==
  \/ \E x \in Content : CreateCampaign(r, x) \/ UpdateCampaign(r, x)
  \/ ScheduleCampaign(r) \/ PauseCampaign(r)
  \/ SendRead(r) \/ ResumeRead(r) \/ DeleteRead(r)

Worker(j) == WorkerFinish(j) \/ WorkerDrop(j)

Next ==
  \/ \E r \in Request : Arrive(r) \/ Proceed(r) \/ Crash(r)
  \/ \E c \in Campaign : TimePasses(c)
  \/ \E j \in Queue : Worker(j)

Spec == Init /\ [][Next]_vars

\* A request in progress runs on (the event loop resumes every awaited
\* promise) and the worker keeps consuming the stream.
FairSpec ==
  /\ Spec
  /\ \A r \in Request : WF_vars(Proceed(r))
  /\ WF_vars(\E j \in Queue : Worker(j))
--------------------------------------------------------------------------
TypeOK ==
  /\ row \in [Campaign -> Row]
  /\ pc \in [Request -> Step]
  /\ target \in [Request -> Campaign]
  /\ seen \in [Request -> Row]
  /\ payload \in [Request -> Content]
  /\ published \in SUBSET Job
  /\ taken \in SUBSET Job
  /\ usage \in Nat

\* Requests whose UPDATE to sending took effect and that are not over.
Launching(r) == pc[r] \in {"send.publish", "send.rollback", "send.record"}

\* Of the send requests that read one version of a campaign, at most one
\* launches it, even when a pause between them makes the row launchable
\* again: the version check of transitionStatusWithVersion.
OneWinner ==
  \A r1, r2 \in Request :
    /\ r1 # r2
    /\ target[r1] = target[r2]
    /\ Launching(r1) /\ Launching(r2)
    => seen[r1].version # seen[r2].version

\* A send publishes the content it validated, although the job is built from
\* a row that other requests may have edited since the validation.
VettedSend ==
  /\ \A r \in Request : Launching(r) => payload[r] = seen[r].content
  /\ \A j \in published : j.kind = "send" => j.content \in Sendable

\* Emails are metered only for sends that reached the stream: recordUsage
\* runs after the publish, and a rolled back send is not metered.
UsageBacked == usage <= Cardinality({j \in published : j.kind = "send"})

\* The handlers together implement the lifecycle with one-step requests.
Lifecycle ==
  INSTANCE CampaignLifecycle WITH
    status <- [c \in Campaign |-> row[c].status],
    started <- {c \in Campaign : row[c].started},
    announced <- {j.campaign : j \in published}

LifecycleSpec == Lifecycle!Spec

\* Ways to lose a launch: a crash between the UPDATE and the publish, and a
\* resume whose failed publish is logged and left to the worker.  A request
\* that crashed does not show where it stood: one that crashed elsewhere, and
\* lost nothing, is excepted as well.
Dropped(c) == \E r \in Request : target[r] = c /\ pc[r] \in {"warned", "crashed"}

\* What the worker has to deliver.  resume also moves a campaign to sending
\* that an edit, after a rolled back send, left without a segment; it
\* publishes nothing for that one.
Delivering(c) == row[c].status = "sending" /\ row[c].content \in WithSegment

\* Apart from these, a sending campaign is never forgotten: a job for it is
\* queued, or the request that queues it or takes the launch back is running.
SendingIsServed ==
  \A c \in Campaign : Delivering(c) =>
    \/ \E j \in Queue : j.campaign = c
    \/ \E r \in Request :
         target[r] = c /\ pc[r] \in {"send.publish", "send.rollback", "resume.publish"}
    \/ Dropped(c)

\* Nor does it stay sending for ever: it finishes, is paused, deleted or
\* rolled back.
SendingEnds ==
  \A c \in Campaign : Delivering(c) ~> (row[c].status # "sending" \/ Dropped(c))

--------------------------------------------------------------------------
(* Statements of the documentation and comments. *)

\* "... to prevent two concurrent campaign sends both passing the monthly
\* limit check before either transitions" (campaign.service.ts:414).
MonthlyLimit == Cardinality(Counted) <= MaxPerMonth
==========================================================================
