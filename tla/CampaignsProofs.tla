------------------------- MODULE CampaignsProofs -------------------------
(***************************************************************************)
(* Proofs about Campaigns, for every set of campaigns, requests and        *)
(* contents, every limit and every combination of faults.                  *)
(*                                                                         *)
(* The argument: every write that changes a content raises the version     *)
(* (RowAdvances), so a send whose version check succeeds finds the content *)
(* it validated, and raises the version above the one it read; two         *)
(* launches that read the same version would have to succeed one after the *)
(* other, and the second finds a larger version.                           *)
(*                                                                         *)
(* The same version check tells a send which status it may have to roll    *)
(* back to, and a request has jobs in the stream only from its publish on  *)
(* (LaunchInv): from that follow what serves a campaign in delivery, what  *)
(* is metered, and that every step is a step of CampaignLifecycle.         *)
(***************************************************************************)
EXTENDS Campaigns, FiniteSetTheorems, TLAPS

\* Sends between their read and the end of their launch.
Sending(r) == pc[r] \in {"send.count", "send.transition"}

\* What request r still knows about the row it read.
RequestOK(r) ==
  /\ Sending(r) \/ Launching(r) => seen[r].content \in Sendable
  /\ Sending(r) =>
       /\ seen[r].version <= row[target[r]].version
       /\ seen[r].version = row[target[r]].version
          => seen[r].content = row[target[r]].content
  /\ Launching(r) =>
       /\ seen[r].version < row[target[r]].version
       /\ payload[r] = seen[r].content

StreamVetted == \A j \in published : j.kind = "send" => j.content \in Sendable

CampaignsInv ==
  /\ TypeOK
  /\ \A r \in Request : RequestOK(r)
  /\ OneWinner
  /\ StreamVetted

RowStep ==
  \A c \in Campaign :
    /\ row'[c].version >= row[c].version
    /\ row'[c].version = row[c].version => row'[c].content = row[c].content

--------------------------------------------------------------------------
LEMMA NoRowType == NoContent \in Content /\ NoRow \in Row
<1>1. NoContent \in Content
  BY CampaignsAssumption DEF NoContent
<1> QED
  BY <1>1 DEF NoRow, Row, Status

\* An UPDATE keeps the table well typed and raises the version of its row.
LEMMA WriteType ==
  ASSUME TypeOK, NEW c \in Campaign, NEW newRow \in Row, Write(c, newRow)
  PROVE  /\ row' \in [Campaign -> Row]
         /\ row'[c].version = row[c].version + 1
         /\ row'[c].content = newRow.content
         /\ \A d \in Campaign : d # c => row'[d] = row[d]
BY DEF TypeOK, Write, Row

LEMMA WriteAdvances ==
  ASSUME TypeOK, NEW c \in Campaign, NEW newRow \in Row, Write(c, newRow)
  PROVE  RowStep
<1>1. row[c].version \in Nat
  BY DEF TypeOK, Row
<1> QED
  BY <1>1, WriteType DEF RowStep, TypeOK, Row

LEMMA RowUnchanged ==
  ASSUME TypeOK, UNCHANGED row
  PROVE  RowStep
BY DEF TypeOK, Row, RowStep

\* What a request that returns leaves behind.
LEMMA ReturnType ==
  ASSUME TypeOK, NEW r \in Request, NEW s \in Over, Return(r, s)
  PROVE  /\ pc' \in [Request -> Step]
         /\ target' \in [Request -> Campaign]
         /\ seen' \in [Request -> Row]
         /\ payload' \in [Request -> Content]
BY NoRowType DEF TypeOK, Return, Goto, Step, Over

LEMMA OnceType ==
  ASSUME TypeOK, NEW r \in Request, Once(r), row' \in [Campaign -> Row]
  PROVE  TypeOK'
BY ReturnType DEF Over, TypeOK, Once

LEMMA BeginType ==
  ASSUME TypeOK, NEW r \in Request, NEW s \in Step, Begin(r, s)
  PROVE  TypeOK' /\ RowStep
<1>1. TypeOK'
  BY DEF TypeOK, Begin, Goto
<1> QED
  BY <1>1, RowUnchanged DEF Begin

LEMMA ArriveType ==
  ASSUME TypeOK, NEW r \in Request, Arrive(r)
  PROVE  TypeOK' /\ RowStep
<1> DEFINE c == target[r]
<1>0. c \in Campaign /\ row[c] \in Row
  BY DEF TypeOK
<1>1. ASSUME NEW x \in Content, CreateCampaign(r, x)
      PROVE  TypeOK' /\ RowStep
  <2> DEFINE new == [row[c] EXCEPT !.status = "draft", !.content = x]
  <2>1. new \in Row
    BY <1>0, <1>1 DEF Row, Status
  <2>2. Write(c, new)
    BY <1>1 DEF CreateCampaign
  <2> HIDE DEF new
  <2>3. row' \in [Campaign -> Row] /\ RowStep
    BY <1>0, <2>1, <2>2, WriteType, WriteAdvances
  <2> QED
    BY <1>1, <2>3, OnceType DEF CreateCampaign
<1>2. ASSUME NEW x \in Content, UpdateCampaign(r, x)
      PROVE  TypeOK' /\ RowStep
  <2> DEFINE new == [row[c] EXCEPT !.content = x]
  <2>1. new \in Row
    BY <1>0, <1>2 DEF Row, Status
  <2>2. Write(c, new)
    BY <1>2 DEF UpdateCampaign
  <2> HIDE DEF new
  <2>3. row' \in [Campaign -> Row] /\ RowStep
    BY <1>0, <2>1, <2>2, WriteType, WriteAdvances
  <2> QED
    BY <1>2, <2>3, OnceType DEF UpdateCampaign
<1>3. ASSUME ScheduleCampaign(r)
      PROVE  TypeOK' /\ RowStep
  <2> DEFINE new == [row[c] EXCEPT !.status = "scheduled", !.ahead = TRUE]
  <2>1. new \in Row
    BY <1>0 DEF Row, Status
  <2>2. Write(c, new)
    BY <1>3 DEF ScheduleCampaign
  <2> HIDE DEF new
  <2>3. row' \in [Campaign -> Row] /\ RowStep
    BY <1>0, <2>1, <2>2, WriteType, WriteAdvances
  <2> QED
    BY <1>3, <2>3, OnceType DEF ScheduleCampaign
<1>4. ASSUME PauseCampaign(r)
      PROVE  TypeOK' /\ RowStep
  <2> DEFINE new == [row[c] EXCEPT !.status = "paused"]
  <2>1. new \in Row
    BY <1>0 DEF Row, Status
  <2>2. Write(c, new)
    BY <1>4 DEF PauseCampaign
  <2> HIDE DEF new
  <2>3. row' \in [Campaign -> Row] /\ RowStep
    BY <1>0, <2>1, <2>2, WriteType, WriteAdvances
  <2> QED
    BY <1>4, <2>3, OnceType DEF PauseCampaign
<1>5. ASSUME SendRead(r) \/ ResumeRead(r) \/ DeleteRead(r)
      PROVE  TypeOK' /\ RowStep
  BY <1>5, BeginType DEF SendRead, ResumeRead, DeleteRead, Step
<1> QED
  BY <1>1, <1>2, <1>3, <1>4, <1>5 DEF Arrive

\* A publication adds jobs built from the request's own variables.
LEMMA PublishType ==
  ASSUME TypeOK, NEW r \in Request, NEW kind \in {"send", "resume"}, NEW job,
         job = [by |-> r, campaign |-> target[r], content |-> payload[r], kind |-> kind],
         published' = published \/ published' = published \union {job}
  PROVE  published' \in SUBSET Job
BY DEF TypeOK, Job

LEMMA ProceedType ==
  ASSUME TypeOK, NEW r \in Request, Proceed(r)
  PROVE  TypeOK' /\ RowStep
<1> DEFINE c == target[r]
<1>0. c \in Campaign /\ row[c] \in Row
  BY DEF TypeOK
<1>1. ASSUME SendCount(r)
      PROVE  TypeOK' /\ RowStep
  <2>1. UNCHANGED <<row, published, taken, usage>>
    BY <1>1 DEF SendCount
  <2>2. CASE Return(r, "done")
    BY <2>1, <2>2, ReturnType, RowUnchanged DEF Over, TypeOK
  <2>3. CASE Goto(r, "send.transition") /\ UNCHANGED <<target, seen, payload>>
    BY <2>1, <2>3, RowUnchanged DEF TypeOK, Goto, Step
  <2> QED
    BY <1>1, <2>2, <2>3 DEF SendCount
<1>2. ASSUME SendTransition(r)
      PROVE  TypeOK' /\ RowStep
  <2> DEFINE new == [row[c] EXCEPT !.status = "sending", !.started = TRUE]
  <2>1. UNCHANGED <<published, taken, usage>>
    BY <1>2 DEF SendTransition
  <2>2. CASE Return(r, "done") /\ UNCHANGED row
    BY <2>1, <2>2, ReturnType, RowUnchanged DEF Over, TypeOK
  <2>3. CASE /\ Write(c, new)
             /\ payload' = [payload EXCEPT ![r] = row[c].content]
             /\ Goto(r, "send.publish")
             /\ UNCHANGED <<target, seen>>
    <3>1. new \in Row /\ row[c].content \in Content
      BY <1>0 DEF Row, Status
    <3> HIDE DEF new
    <3>2. row' \in [Campaign -> Row] /\ RowStep
      BY <1>0, <2>3, <3>1, WriteType, WriteAdvances
    <3> QED
      BY <1>0, <2>1, <2>3, <3>1, <3>2 DEF TypeOK, Goto, Step
  <2> QED
    BY <1>2, <2>2, <2>3 DEF SendTransition
<1>3. ASSUME SendPublish(r)
      PROVE  TypeOK' /\ RowStep
  <2>1. published' \in SUBSET Job
    BY <1>3, PublishType DEF SendPublish, Publish
  <2>2. Goto(r, "send.record") \/ Goto(r, "send.rollback")
    BY <1>3 DEF SendPublish, Publish
  <2>3. UNCHANGED <<row, target, seen, payload, taken, usage>>
    BY <1>3 DEF SendPublish
  <2> QED
    BY <2>1, <2>2, <2>3, RowUnchanged DEF TypeOK, Goto, Step
<1>4. ASSUME SendRollback(r)
      PROVE  TypeOK' /\ RowStep
  <2> DEFINE new == [row[c] EXCEPT !.status = seen[r].status]
  <2>1. new \in Row
    BY <1>0 DEF TypeOK, Row
  <2>2. Write(c, new) \/ UNCHANGED row
    BY <1>4 DEF SendRollback
  <2> HIDE DEF new
  <2>3. row' \in [Campaign -> Row] /\ RowStep
    BY <1>0, <2>1, <2>2, WriteType, WriteAdvances, RowUnchanged DEF TypeOK
  <2> QED
    BY <1>4, <2>3, ReturnType DEF Over, SendRollback, TypeOK
<1>5. ASSUME SendRecord(r)
      PROVE  TypeOK' /\ RowStep
  BY <1>5, ReturnType, RowUnchanged DEF Over, SendRecord, TypeOK
<1>6. ASSUME ResumeWrite(r)
      PROVE  TypeOK' /\ RowStep
  <2> DEFINE new == [row[c] EXCEPT !.status = ResumeTarget(seen[r])]
  <2>1. new \in Row /\ row[c].content \in Content
    BY <1>0 DEF Row, Status, ResumeTarget
  <2>2. Write(c, new) \/ UNCHANGED row
    BY <1>6 DEF ResumeWrite
  <2> HIDE DEF new
  <2>3. row' \in [Campaign -> Row] /\ RowStep
    BY <1>0, <2>1, <2>2, WriteType, WriteAdvances, RowUnchanged DEF TypeOK
  <2>4. UNCHANGED <<published, taken, usage>>
    BY <1>6 DEF ResumeWrite
  <2>5. CASE Return(r, "done")
    BY <2>3, <2>4, <2>5, ReturnType DEF Over, TypeOK
  <2>6. CASE /\ payload' = [payload EXCEPT ![r] = row[c].content]
             /\ Goto(r, "resume.publish")
             /\ UNCHANGED <<target, seen>>
    BY <2>1, <2>3, <2>4, <2>6 DEF TypeOK, Goto, Step
  <2> QED
    BY <1>6, <2>5, <2>6 DEF ResumeWrite
<1>7. ASSUME ResumePublish(r)
      PROVE  TypeOK' /\ RowStep
  <2>1. published' \in SUBSET Job
    BY <1>7, PublishType DEF ResumePublish, Publish
  <2>2. \E s \in Over : Return(r, s)
    BY <1>7 DEF ResumePublish, Publish, Over
  <2> QED
    BY <1>7, <2>1, <2>2, ReturnType, RowUnchanged DEF Over, ResumePublish, TypeOK
<1>8. ASSUME DeleteWrite(r)
      PROVE  TypeOK' /\ RowStep
  <2> DEFINE new == [row[c] EXCEPT !.status = "cancelled"]
  <2>1. new \in Row
    BY <1>0 DEF Row, Status
  <2>2. Write(c, new) \/ UNCHANGED row
    BY <1>8 DEF DeleteWrite
  <2> HIDE DEF new
  <2>3. row' \in [Campaign -> Row] /\ RowStep
    BY <1>0, <2>1, <2>2, WriteType, WriteAdvances, RowUnchanged DEF TypeOK
  <2> QED
    BY <1>8, <2>3, ReturnType DEF Over, DeleteWrite, TypeOK
<1> QED
  BY <1>1, <1>2, <1>3, <1>4, <1>5, <1>6, <1>7, <1>8 DEF Proceed

LEMMA EnvironmentType ==
  ASSUME TypeOK,
         \/ \E r \in Request : Crash(r)
         \/ \E c \in Campaign : TimePasses(c)
         \/ \E j \in Queue : Worker(j)
  PROVE  TypeOK' /\ RowStep
<1>1. ASSUME NEW r \in Request, Crash(r)
      PROVE  TypeOK' /\ RowStep
  BY <1>1, ReturnType, RowUnchanged DEF Over, Crash, TypeOK
<1>2. ASSUME NEW c \in Campaign, TimePasses(c)
      PROVE  TypeOK' /\ RowStep
  <2> DEFINE new == [row[c] EXCEPT !.ahead = FALSE]
  <2>1. new \in Row /\ new.version = row[c].version /\ new.content = row[c].content
    BY DEF TypeOK, Row
  <2>2. row' = [row EXCEPT ![c] = new]
    BY <1>2, Zenon DEF TimePasses
  <2> HIDE DEF new
  <2>3. row' \in [Campaign -> Row] /\ RowStep
    BY <2>1, <2>2 DEF TypeOK, Row, RowStep
  <2> QED
    BY <1>2, <2>3 DEF TimePasses, TypeOK
<1>3. ASSUME NEW j \in Queue, Worker(j)
      PROVE  TypeOK' /\ RowStep
  <2>1. j \in Job /\ j.campaign \in Campaign
    BY DEF Queue, TypeOK, Job
  <2>2. taken' \in SUBSET Job
    BY <1>3, <2>1 DEF Worker, WorkerFinish, WorkerDrop, TypeOK
  <2>3. CASE WorkerFinish(j)
    <3> DEFINE c == j.campaign
    <3>1. PICK s \in {"sent", "failed"}, v \in {row[c].version, row[c].version + 1} :
            row' = [row EXCEPT ![c] = [row[c] EXCEPT !.status = s, !.version = v]]
      BY <2>3 DEF WorkerFinish
    <3>2. row[c] \in Row /\ v \in Nat /\ v >= row[c].version
      BY <2>1 DEF TypeOK, Row
    <3> DEFINE new == [row[c] EXCEPT !.status = s, !.version = v]
    <3>3. new \in Row /\ new.version = v /\ new.content = row[c].content
      BY <3>2 DEF Row, Status
    <3>4. row' = [row EXCEPT ![c] = new]
      BY <3>1
    <3> HIDE DEF new
    <3>5. row' \in [Campaign -> Row] /\ RowStep
      BY <2>1, <3>2, <3>3, <3>4 DEF TypeOK, Row, RowStep
    <3> QED
      BY <2>2, <2>3, <3>5 DEF WorkerFinish, TypeOK
  <2>4. CASE WorkerDrop(j)
    BY <2>2, <2>4, RowUnchanged DEF WorkerDrop, TypeOK
  <2> QED
    BY <1>3, <2>3, <2>4 DEF Worker
<1> QED
  BY <1>1, <1>2, <1>3

\* No step shrinks a version, and none changes a content under a version.
LEMMA RowAdvances ==
  ASSUME TypeOK, [Next]_vars
  PROVE  TypeOK' /\ RowStep
<1>1. CASE Next
  BY <1>1, ArriveType, ProceedType, EnvironmentType DEF Next
<1>2. CASE UNCHANGED vars
  BY <1>2, RowUnchanged DEF vars, TypeOK
<1> QED
  BY <1>1, <1>2

\* The table, the requests and the stream keep their shape: statuses stay
\* among the seven of CAMPAIGN_STATUS and versions are naturals.
THEOREM TypeCorrect == Spec => []TypeOK
<1>1. Init => TypeOK
  BY NoRowType DEF Init, TypeOK, Step
<1>2. TypeOK /\ [Next]_vars => TypeOK'
  BY RowAdvances
<1> QED
  BY <1>1, <1>2, PTL DEF Spec

--------------------------------------------------------------------------
\* The knowledge of a request survives the steps of the others.
LEMMA BystanderKeeps ==
  ASSUME TypeOK, TypeOK', RowStep, NEW r \in Request, RequestOK(r),
         pc'[r] = pc[r], target'[r] = target[r], seen'[r] = seen[r], payload'[r] = payload[r]
  PROVE  RequestOK(r)'
<1> DEFINE c == target[r]
<1>1. /\ c \in Campaign
      /\ seen[r].version \in Nat
      /\ row[c].version \in Nat
      /\ row'[c].version \in Nat
  BY DEF TypeOK, Row
<1>2. /\ row'[c].version >= row[c].version
      /\ row'[c].version = row[c].version => row'[c].content = row[c].content
  BY <1>1 DEF RowStep
<1>3. Sending(r)' = Sending(r) /\ Launching(r)' = Launching(r)
  BY DEF Sending, Launching
<1> QED
  BY <1>1, <1>2, <1>3 DEF RequestOK

\* Only request r moves in its own steps.
Others(r) ==
  \A q \in Request \ {r} :
    pc'[q] = pc[q] /\ target'[q] = target[q] /\ seen'[q] = seen[q] /\ payload'[q] = payload[q]

\* A request enters the launch only from a matching version check.
EntersFairly(r) ==
  Launching(r)' =>
    /\ target'[r] = target[r] /\ seen'[r] = seen[r]
    /\ \/ Launching(r)
       \/ seen[r].version = row[target[r]].version

\* What the steps of a request have to establish.
LEMMA RequestStep ==
  ASSUME CampaignsInv, TypeOK', RowStep, NEW r \in Request,
         Others(r), RequestOK(r)', EntersFairly(r), StreamVetted'
  PROVE  CampaignsInv'
<1>1. ASSUME NEW q \in Request
      PROVE  RequestOK(q)'
  <2>1. CASE q = r
    BY <2>1
  <2>2. CASE q # r
    BY <2>2, BystanderKeeps DEF CampaignsInv, Others
  <2> QED
    BY <2>1, <2>2
<1>2. OneWinner'
  <2> SUFFICES ASSUME NEW q \in Request, q # r, target'[q] = target'[r],
                      Launching(q)', Launching(r)'
               PROVE  seen'[q].version # seen'[r].version
    <3>1. ASSUME NEW r1 \in Request, NEW r2 \in Request, r1 # r2, r1 # r, r2 # r,
                 target'[r1] = target'[r2], Launching(r1)', Launching(r2)'
          PROVE  seen'[r1].version # seen'[r2].version
      BY <3>1 DEF CampaignsInv, OneWinner, Others, Launching
    <3> QED
      BY <3>1 DEF OneWinner
  <2>1. Launching(q) /\ target[q] = target[r] /\ seen'[q] = seen[q] /\ seen'[r] = seen[r]
    BY DEF Others, Launching, EntersFairly
  <2>2. CASE Launching(r)
    BY <2>1, <2>2 DEF CampaignsInv, OneWinner
  <2>3. CASE seen[r].version = row[target[r]].version
    <3>1. seen[q].version < row[target[r]].version
      BY <2>1 DEF CampaignsInv, RequestOK
    <3>2. seen[q].version \in Nat /\ row[target[r]].version \in Nat
      BY DEF CampaignsInv, TypeOK, Row
    <3> QED
      BY <2>1, <2>3, <3>1, <3>2
  <2> QED
    BY <2>2, <2>3 DEF EntersFairly
<1> QED
  BY <1>1, <1>2 DEF CampaignsInv

\* A request that returns, or stands outside the send, has nothing to keep.
LEMMA ReturnStep ==
  ASSUME CampaignsInv, TypeOK', RowStep, NEW r \in Request, NEW s \in Over, Return(r, s), StreamVetted'
  PROVE  CampaignsInv'
<1>1. Others(r)
  BY DEF Return, Goto, Others, CampaignsInv, TypeOK
<1>2. pc'[r] = s
  BY DEF Return, Goto, CampaignsInv, TypeOK
<1>3. RequestOK(r)' /\ EntersFairly(r)
  BY <1>2 DEF RequestOK, EntersFairly, Sending, Launching, Over
<1> QED
  BY <1>1, <1>3, RequestStep

\* Publications of a send carry the vetted content; resume's are not sends.
LEMMA PublishVetted ==
  ASSUME CampaignsInv, NEW r \in Request, NEW kind \in {"send", "resume"}, NEW job,
         kind = "send" => Launching(r),
         job = [by |-> r, campaign |-> target[r], content |-> payload[r], kind |-> kind],
         published' = published \/ published' = published \union {job}
  PROVE  StreamVetted'
<1>1. job.kind = "send" => job.content \in Sendable
  BY DEF CampaignsInv, RequestOK
<1> QED
  BY <1>1 DEF CampaignsInv, StreamVetted

LEMMA StreamKept ==
  ASSUME CampaignsInv, UNCHANGED published
  PROVE  StreamVetted'
BY DEF CampaignsInv, StreamVetted

LEMMA ArriveStep ==
  ASSUME CampaignsInv, TypeOK', RowStep, NEW r \in Request, Arrive(r)
  PROVE  CampaignsInv'
<1>1. CASE Once(r)
  BY <1>1, ReturnStep, StreamKept DEF Over, Once
<1>2. ASSUME NEW s \in {"send.count", "resume.write", "delete.write"}, Begin(r, s),
             s = "send.count" => row[target[r]].content \in Sendable
      PROVE  CampaignsInv'
  <2>1. Others(r) /\ StreamVetted'
    BY <1>2, StreamKept DEF Begin, Goto, Others, CampaignsInv, TypeOK
  <2>2. /\ pc'[r] = s
        /\ target'[r] = target[r]
        /\ seen'[r] = row[target[r]]
        /\ row' = row
    BY <1>2 DEF Begin, Goto, CampaignsInv, TypeOK
  <2>3. row[target[r]].version \in Nat
    BY DEF CampaignsInv, TypeOK, Row
  <2>4. RequestOK(r)' /\ EntersFairly(r)
    BY <1>2, <2>2, <2>3 DEF RequestOK, EntersFairly, Sending, Launching
  <2> QED
    BY <2>1, <2>4, RequestStep
<1>3. CASE SendRead(r) \/ ResumeRead(r) \/ DeleteRead(r)
  BY <1>2, <1>3 DEF SendRead, ResumeRead, DeleteRead
<1> QED
  BY <1>1, <1>3
     DEF Arrive, CreateCampaign, UpdateCampaign, ScheduleCampaign, PauseCampaign

LEMMA ProceedStep ==
  ASSUME CampaignsInv, TypeOK', RowStep, NEW r \in Request, Proceed(r)
  PROVE  CampaignsInv'
<1> DEFINE c == target[r]
<1>0. /\ c \in Campaign
      /\ row[c] \in Row
      /\ row[c].version \in Nat
      /\ seen[r].version \in Nat
  BY DEF CampaignsInv, TypeOK, Row
<1>1. CASE SendCount(r)
  <2>1. CASE Return(r, "done")
    BY <1>1, <2>1, ReturnStep, StreamKept DEF Over, SendCount
  <2>2. CASE Goto(r, "send.transition") /\ UNCHANGED <<target, seen, payload>>
    <3>1. Others(r) /\ StreamVetted'
      BY <1>1, <2>2, StreamKept DEF SendCount, Goto, Others, CampaignsInv, TypeOK
    <3>2. pc[r] = "send.count" /\ pc'[r] = "send.transition" /\ row' = row
      BY <1>1, <2>2 DEF SendCount, Goto, CampaignsInv, TypeOK
    <3>3. RequestOK(r)' /\ EntersFairly(r)
      BY <2>2, <3>2 DEF CampaignsInv, RequestOK, EntersFairly, Sending, Launching
    <3> QED
      BY <3>1, <3>3, RequestStep
  <2> QED
    BY <1>1, <2>1, <2>2 DEF SendCount
<1>2. CASE SendTransition(r)
  <2>1. CASE Return(r, "done")
    BY <1>2, <2>1, ReturnStep, StreamKept DEF Over, SendTransition
  <2>2. CASE /\ row[c].version = seen[r].version
             /\ Write(c, [row[c] EXCEPT !.status = "sending", !.started = TRUE])
             /\ payload' = [payload EXCEPT ![r] = row[c].content]
             /\ Goto(r, "send.publish")
             /\ UNCHANGED <<target, seen>>
    <3>1. Others(r) /\ StreamVetted'
      BY <1>2, <2>2, StreamKept DEF SendTransition, Goto, Others, CampaignsInv, TypeOK
    <3>2. /\ pc[r] = "send.transition"
          /\ pc'[r] = "send.publish"
          /\ payload'[r] = row[c].content
      BY <1>2, <2>2 DEF SendTransition, Goto, CampaignsInv, TypeOK
    <3>3. row'[c].version = row[c].version + 1
      BY <1>0, <2>2 DEF Write, CampaignsInv, TypeOK, Row
    <3>4. seen[r].content \in Sendable /\ seen[r].content = row[c].content
      BY <2>2, <3>2 DEF CampaignsInv, RequestOK, Sending
    <3>5. RequestOK(r)' /\ EntersFairly(r)
      BY <1>0, <2>2, <3>2, <3>3, <3>4 DEF RequestOK, EntersFairly, Sending, Launching
    <3> QED
      BY <3>1, <3>5, RequestStep
  <2> QED
    BY <1>2, <2>1, <2>2 DEF SendTransition
<1>3. CASE SendPublish(r)
  <2>1. StreamVetted'
    BY <1>3, PublishVetted DEF SendPublish, Publish, Launching
  <2>2. Goto(r, "send.record") \/ Goto(r, "send.rollback")
    BY <1>3 DEF SendPublish, Publish
  <2>3. Others(r) /\ Launching(r) /\ ~Sending(r)' /\ UNCHANGED <<row, target, seen, payload>>
    BY <1>3, <2>2 DEF SendPublish, Goto, Others, Launching, Sending, CampaignsInv, TypeOK
  <2>4. RequestOK(r)' /\ EntersFairly(r)
    BY <2>3 DEF CampaignsInv, RequestOK, EntersFairly
  <2> QED
    BY <2>1, <2>3, <2>4, RequestStep
<1>4. CASE SendRollback(r) \/ SendRecord(r) \/ DeleteWrite(r)
  BY <1>4, ReturnStep, StreamKept DEF Over, SendRollback, SendRecord, DeleteWrite
<1>5. CASE ResumeWrite(r)
  <2>1. CASE Return(r, "done")
    BY <1>5, <2>1, ReturnStep, StreamKept DEF Over, ResumeWrite
  <2>2. CASE /\ payload' = [payload EXCEPT ![r] = row[c].content]
             /\ Goto(r, "resume.publish")
             /\ UNCHANGED <<target, seen>>
    <3>1. Others(r) /\ StreamVetted' /\ pc'[r] = "resume.publish"
      BY <1>5, <2>2, StreamKept DEF ResumeWrite, Goto, Others, CampaignsInv, TypeOK
    <3>2. RequestOK(r)' /\ EntersFairly(r)
      BY <3>1 DEF RequestOK, EntersFairly, Sending, Launching
    <3> QED
      BY <3>1, <3>2, RequestStep
  <2> QED
    BY <1>5, <2>1, <2>2 DEF ResumeWrite
<1>6. CASE ResumePublish(r)
  <2>1. StreamVetted'
    BY <1>6, PublishVetted DEF ResumePublish, Publish
  <2>2. \E s \in Over : Return(r, s)
    BY <1>6 DEF ResumePublish, Publish, Over
  <2> QED
    BY <2>1, <2>2, ReturnStep
<1> QED
  BY <1>1, <1>2, <1>3, <1>4, <1>5, <1>6 DEF Proceed

LEMMA EnvironmentStep ==
  ASSUME CampaignsInv, TypeOK', RowStep,
         UNCHANGED <<pc, target, seen, payload, published>>
  PROVE  CampaignsInv'
<1>1. \A r \in Request : RequestOK(r)'
  BY BystanderKeeps DEF CampaignsInv
<1>2. OneWinner' /\ StreamVetted'
  BY DEF CampaignsInv, OneWinner, Launching, StreamVetted
<1> QED
  BY <1>1, <1>2 DEF CampaignsInv

LEMMA Inductive ==
  ASSUME CampaignsInv, [Next]_vars
  PROVE  CampaignsInv'
<1>1. TypeOK' /\ RowStep
  BY RowAdvances DEF CampaignsInv
<1>2. ASSUME NEW r \in Request, Arrive(r) \/ Proceed(r)
      PROVE  CampaignsInv'
  BY <1>1, <1>2, ArriveStep, ProceedStep
<1>3. ASSUME NEW r \in Request, Crash(r)
      PROVE  CampaignsInv'
  BY <1>1, <1>3, ReturnStep, StreamKept DEF Over, Crash
<1>4. ASSUME NEW c \in Campaign, TimePasses(c)
      PROVE  CampaignsInv'
  BY <1>1, <1>4, EnvironmentStep DEF TimePasses
<1>5. ASSUME NEW j \in Queue, Worker(j)
      PROVE  CampaignsInv'
  BY <1>1, <1>5, EnvironmentStep DEF Worker, WorkerFinish, WorkerDrop
<1>6. CASE UNCHANGED vars
  BY <1>1, <1>6, EnvironmentStep DEF vars
<1> QED
  BY <1>2, <1>3, <1>4, <1>5, <1>6 DEF Next

LEMMA Invariant == Spec => []CampaignsInv
<1>1. Init => CampaignsInv
  <2> SUFFICES ASSUME Init PROVE CampaignsInv
    OBVIOUS
  <2>1. TypeOK
    BY NoRowType DEF Init, TypeOK, Step
  <2> QED
    BY <2>1 DEF Init, CampaignsInv, RequestOK, Sending, Launching, OneWinner, StreamVetted
<1>2. CampaignsInv /\ [Next]_vars => CampaignsInv'
  BY Inductive
<1> QED
  BY <1>1, <1>2, PTL DEF Spec

\* Two send requests that read the same version of a campaign never both
\* launch it, whatever pauses, resumes, edits and crashes fall between.
THEOREM OneWinnerHolds == Spec => []OneWinner
<1>1. CampaignsInv => OneWinner
  BY DEF CampaignsInv
<1> QED
  BY <1>1, Invariant, PTL

\* Every job a send puts on the stream carries a content the same request
\* validated, however the row was edited in the meantime.
THEOREM VettedSendHolds == Spec => []VettedSend
<1>1. CampaignsInv => VettedSend
  BY DEF CampaignsInv, RequestOK, StreamVetted, VettedSend
<1> QED
  BY <1>1, Invariant, PTL

--------------------------------------------------------------------------
(* What a launch leaves behind.  A row's status changes under an unchanged *)
(* version only when the worker finishes it, so a send that wins its       *)
(* version check knows the status it may have to roll back to; a row that  *)
(* was started stays so; and a request is in the stream only once it has   *)
(* published.                                                              *)

Open == {"draft", "scheduled", "paused"}
Final == {"sent", "failed"}

\* Requests that may have a job in the stream.
Published == {"send.rollback", "send.record"} \union Over

LaunchOK(r) ==
  /\ Sending(r) /\ seen[r].version = row[target[r]].version =>
       row[target[r]].status = seen[r].status \/ row[target[r]].status \in Final
  /\ Launching(r) => seen[r].status \in Open
  /\ Launching(r) \/ pc[r] = "resume.publish" => row[target[r]].started
  /\ pc[r] = "resume.write" /\ seen[r].started => row[target[r]].started

StreamOK ==
  /\ taken \subseteq published
  /\ \A j \in published : pc[j.by] \in Published

LaunchInv ==
  /\ \A r \in Request : LaunchOK(r)
  /\ StreamOK

\* What a step may do to the rows.
RowMoves ==
  \A c \in Campaign :
    /\ row[c].started => row'[c].started
    /\ row'[c].version = row[c].version =>
         row'[c].status = row[c].status \/ row'[c].status \in Final

LEMMA WriteMoves ==
  ASSUME TypeOK, NEW c \in Campaign, NEW newRow \in Row, Write(c, newRow),
         row[c].started => newRow.started
  PROVE  RowMoves
<1>1. /\ row'[c].version = row[c].version + 1
      /\ row'[c].started = newRow.started
      /\ \A d \in Campaign : d # c => row'[d] = row[d]
  BY DEF TypeOK, Write, Row
<1>2. row[c].version \in Nat
  BY DEF TypeOK, Row
<1> QED
  BY <1>1, <1>2 DEF RowMoves

\* Steps of a request: rows are written as a whole, or left alone.
LEMMA RequestMoves ==
  ASSUME TypeOK, NEW r \in Request, Arrive(r) \/ Proceed(r)
  PROVE  RowMoves
<1> DEFINE c == target[r]
<1>0. c \in Campaign /\ row[c] \in Row /\ seen[r] \in Row
  BY DEF TypeOK
<1>1. ASSUME NEW s \in Status, Write(c, [row[c] EXCEPT !.status = s])
      PROVE  RowMoves
  <2>1. [row[c] EXCEPT !.status = s] \in Row /\ [row[c] EXCEPT !.status = s].started = row[c].started
    BY <1>0 DEF Row
  <2> QED
    BY <1>0, <1>1, <2>1, WriteMoves
<1>2. ASSUME NEW x \in Content, CreateCampaign(r, x)
      PROVE  RowMoves
  <2> DEFINE new == [row[c] EXCEPT !.status = "draft", !.content = x]
  <2>1. new \in Row /\ new.started = row[c].started
    BY <1>0 DEF Row, Status
  <2>2. Write(c, new)
    BY <1>2 DEF CreateCampaign
  <2> HIDE DEF new
  <2> QED
    BY <1>0, <2>1, <2>2, WriteMoves
<1>3. ASSUME NEW x \in Content, UpdateCampaign(r, x)
      PROVE  RowMoves
  <2> DEFINE new == [row[c] EXCEPT !.content = x]
  <2>1. new \in Row /\ new.started = row[c].started
    BY <1>0 DEF Row, Status
  <2>2. Write(c, new)
    BY <1>3 DEF UpdateCampaign
  <2> HIDE DEF new
  <2> QED
    BY <1>0, <2>1, <2>2, WriteMoves
<1>4. ASSUME ScheduleCampaign(r)
      PROVE  RowMoves
  <2> DEFINE new == [row[c] EXCEPT !.status = "scheduled", !.ahead = TRUE]
  <2>1. new \in Row /\ new.started = row[c].started
    BY <1>0 DEF Row, Status
  <2>2. Write(c, new)
    BY <1>4 DEF ScheduleCampaign
  <2> HIDE DEF new
  <2> QED
    BY <1>0, <2>1, <2>2, WriteMoves
<1>5. ASSUME Write(c, [row[c] EXCEPT !.status = "sending", !.started = TRUE])
      PROVE  RowMoves
  <2> DEFINE new == [row[c] EXCEPT !.status = "sending", !.started = TRUE]
  <2>1. new \in Row /\ new.started
    BY <1>0 DEF Row, Status
  <2>2. Write(c, new)
    BY <1>5
  <2> HIDE DEF new
  <2> QED
    BY <1>0, <2>1, <2>2, WriteMoves
<1>6. UNCHANGED row => RowMoves
  BY DEF RowMoves
<1>7. /\ {"paused", "cancelled", seen[r].status, ResumeTarget(seen[r])} \subseteq Status
  BY <1>0 DEF Row, Status, ResumeTarget
<1>8. CASE Arrive(r)
  BY <1>1, <1>2, <1>3, <1>4, <1>6, <1>7, <1>8
     DEF Arrive, PauseCampaign, SendRead, ResumeRead, DeleteRead, Begin
<1>9. CASE Proceed(r)
  BY <1>1, <1>5, <1>6, <1>7, <1>9
     DEF Proceed, SendCount, SendTransition, SendPublish, SendRollback, SendRecord,
         ResumeWrite, ResumePublish, DeleteWrite
<1> QED
  BY <1>8, <1>9

LEMMA EnvironmentMoves ==
  ASSUME TypeOK,
         \/ \E r \in Request : Crash(r)
         \/ \E c \in Campaign : TimePasses(c)
         \/ \E j \in Queue : Worker(j)
         \/ UNCHANGED vars
  PROVE  RowMoves
<1>1. UNCHANGED row => RowMoves
  BY DEF RowMoves
<1>2. ASSUME NEW c \in Campaign, TimePasses(c)
      PROVE  RowMoves
  <2>1. /\ \A d \in Campaign : d # c => row'[d] = row[d]
        /\ row'[c].started = row[c].started /\ row'[c].status = row[c].status
    BY <1>2 DEF TimePasses, TypeOK, Row
  <2> QED
    BY <2>1 DEF RowMoves
<1>3. ASSUME NEW j \in Queue, WorkerFinish(j)
      PROVE  RowMoves
  <2>1. j.campaign \in Campaign
    BY DEF Queue, TypeOK, Job
  <2>2. PICK s \in Final, v \in {row[j.campaign].version, row[j.campaign].version + 1} :
          row' = [row EXCEPT ![j.campaign] = [row[j.campaign] EXCEPT !.status = s, !.version = v]]
    BY <1>3 DEF WorkerFinish, Final
  <2>3. /\ \A d \in Campaign : d # j.campaign => row'[d] = row[d]
        /\ row'[j.campaign].started = row[j.campaign].started
        /\ row'[j.campaign].status \in Final
    BY <2>1, <2>2 DEF TypeOK, Row
  <2> QED
    BY <2>1, <2>3 DEF RowMoves
<1> QED
  BY <1>1, <1>2, <1>3 DEF Crash, Worker, WorkerDrop, vars

LEMMA LaunchBystander ==
  ASSUME CampaignsInv, TypeOK', RowStep, RowMoves, NEW r \in Request, LaunchOK(r),
         pc'[r] = pc[r], target'[r] = target[r], seen'[r] = seen[r]
  PROVE  LaunchOK(r)'
<1> DEFINE c == target[r]
<1>1. /\ c \in Campaign
      /\ seen[r].version \in Nat
      /\ row[c].version \in Nat
      /\ row'[c].version \in Nat
  BY DEF CampaignsInv, TypeOK, Row
<1>2. /\ row'[c].version >= row[c].version
      /\ row[c].started => row'[c].started
      /\ row'[c].version = row[c].version =>
           row'[c].status = row[c].status \/ row'[c].status \in Final
  BY <1>1 DEF RowStep, RowMoves
<1>3. Sending(r)' = Sending(r) /\ Launching(r)' = Launching(r)
  BY DEF Sending, Launching
<1>4. Sending(r) => seen[r].version <= row[c].version
  BY DEF CampaignsInv, RequestOK
<1>5. Sending(r)' /\ seen'[r].version = row'[target'[r]].version =>
        row'[target'[r]].status = seen'[r].status \/ row'[target'[r]].status \in Final
  <2> SUFFICES ASSUME Sending(r), seen[r].version = row'[c].version
               PROVE  row'[c].status = seen[r].status \/ row'[c].status \in Final
    BY <1>3
  <2>1. row'[c].version = row[c].version /\ seen[r].version = row[c].version
    BY <1>1, <1>2, <1>4
  <2>2. row[c].status = seen[r].status \/ row[c].status \in Final
    BY <2>1 DEF LaunchOK
  <2>3. CASE row[c].status \in Final
    BY <1>2, <2>1, <2>3
  <2> QED
    BY <1>2, <2>1, <2>2, <2>3
<1> QED
  BY <1>2, <1>3, <1>5 DEF LaunchOK

\* A step of request r that adds at most its own jobs to the stream.
LEMMA LaunchStep ==
  ASSUME CampaignsInv, LaunchInv, TypeOK', RowStep, RowMoves, NEW r \in Request,
         Others(r), LaunchOK(r)', UNCHANGED taken, published \subseteq published',
         \A j \in published' \ published : j.by = r,
         published' # published \/ pc[r] \in Published => pc'[r] \in Published
  PROVE  LaunchInv'
<1>1. ASSUME NEW q \in Request
      PROVE  LaunchOK(q)'
  <2>1. CASE q = r
    BY <2>1
  <2>2. CASE q # r
    BY <2>2, LaunchBystander DEF LaunchInv, Others
  <2> QED
    BY <2>1, <2>2
<1>2. ASSUME NEW j \in published'
      PROVE  pc'[j.by] \in Published
  <2>1. j.by \in Request
    BY DEF TypeOK, Job
  <2>2. CASE j \in published
    <3>1. pc[j.by] \in Published
      BY <2>2 DEF LaunchInv, StreamOK
    <3> QED
      BY <2>1, <3>1 DEF Others
  <2>3. CASE j \notin published
    BY <2>3
  <2> QED
    BY <2>2, <2>3
<1>3. taken' \subseteq published'
  BY DEF LaunchInv, StreamOK
<1> QED
  BY <1>1, <1>2, <1>3 DEF LaunchInv, StreamOK

LEMMA LaunchReturn ==
  ASSUME CampaignsInv, LaunchInv, TypeOK', RowStep, RowMoves, NEW r \in Request,
         NEW s \in Over, Return(r, s), UNCHANGED taken, published \subseteq published',
         \A j \in published' \ published : j.by = r
  PROVE  LaunchInv'
<1>1. pc'[r] = s /\ Others(r)
  BY DEF Return, Goto, Others, CampaignsInv, TypeOK
<1>2. LaunchOK(r)'
  BY <1>1 DEF LaunchOK, Sending, Launching, Over
<1> QED
  BY <1>1, <1>2, LaunchStep DEF Published

LEMMA LaunchArrive ==
  ASSUME CampaignsInv, LaunchInv, TypeOK', RowStep, RowMoves, NEW r \in Request, Arrive(r)
  PROVE  LaunchInv'
<1>1. CASE Once(r)
  BY <1>1, LaunchReturn DEF Once, Over
<1>2. ASSUME NEW s \in {"send.count", "resume.write", "delete.write"}, Begin(r, s)
      PROVE  LaunchInv'
  <2>1. /\ Others(r) /\ UNCHANGED <<published, taken, row>> /\ pc[r] = "new"
        /\ pc'[r] = s /\ target'[r] = target[r] /\ seen'[r] = row[target[r]]
    BY <1>2 DEF Begin, Goto, Others, CampaignsInv, TypeOK
  <2>2. LaunchOK(r)'
    BY <2>1 DEF LaunchOK, Sending, Launching
  <2> QED
    BY <2>1, <2>2, LaunchStep DEF Published, Over
<1>3. CASE SendRead(r) \/ ResumeRead(r) \/ DeleteRead(r)
  BY <1>2, <1>3 DEF SendRead, ResumeRead, DeleteRead
<1> QED
  BY <1>1, <1>3
     DEF Arrive, CreateCampaign, UpdateCampaign, ScheduleCampaign, PauseCampaign

LEMMA LaunchProceed ==
  ASSUME CampaignsInv, LaunchInv, TypeOK', RowStep, RowMoves, NEW r \in Request, Proceed(r)
  PROVE  LaunchInv'
<1> DEFINE c == target[r]
<1>0. LaunchOK(r) /\ c \in Campaign /\ row[c] \in Row
  BY DEF LaunchInv, CampaignsInv, TypeOK
<1>1. CASE SendCount(r)
  <2>1. CASE Return(r, "done")
    BY <1>1, <2>1, LaunchReturn DEF Over, SendCount
  <2>2. CASE Goto(r, "send.transition") /\ UNCHANGED <<target, seen, payload>>
    <3>1. Others(r)
      BY <2>2 DEF Goto, Others, CampaignsInv, TypeOK
    <3>2. pc[r] = "send.count" /\ pc'[r] = "send.transition" /\ UNCHANGED <<row, published, taken>>
      BY <1>1, <2>2 DEF SendCount, Goto, CampaignsInv, TypeOK
    <3>3. LaunchOK(r)'
      BY <1>0, <2>2, <3>2 DEF LaunchOK, Sending, Launching
    <3> QED
      BY <3>1, <3>2, <3>3, LaunchStep DEF Published, Over
  <2> QED
    BY <1>1, <2>1, <2>2 DEF SendCount
<1>2. CASE SendTransition(r)
  <2>1. CASE Return(r, "done")
    BY <1>2, <2>1, LaunchReturn DEF Over, SendTransition
  <2>2. CASE /\ row[c].version = seen[r].version
             /\ row[c].status \in {"draft", "scheduled", "paused"}
             /\ Write(c, [row[c] EXCEPT !.status = "sending", !.started = TRUE])
             /\ payload' = [payload EXCEPT ![r] = row[c].content]
             /\ Goto(r, "send.publish")
             /\ UNCHANGED <<target, seen>>
    <3>1. Others(r)
      BY <2>2 DEF Goto, Others, CampaignsInv, TypeOK
    <3>2. /\ pc[r] = "send.transition" /\ pc'[r] = "send.publish"
          /\ UNCHANGED <<published, taken>>
      BY <1>2, <2>2 DEF SendTransition, Goto, CampaignsInv, TypeOK
    <3>3. row'[c].started
      BY <1>0, <2>2 DEF Write, CampaignsInv, TypeOK, Row
    <3>4. seen[r].status \in Open
      BY <1>0, <2>2, <3>2 DEF LaunchOK, Sending, Open, Final
    <3>5. LaunchOK(r)'
      BY <2>2, <3>2, <3>3, <3>4 DEF LaunchOK, Sending, Launching
    <3> QED
      BY <3>1, <3>2, <3>5, LaunchStep DEF Published, Over
  <2> QED
    BY <1>2, <2>1, <2>2 DEF SendTransition
<1>3. CASE SendPublish(r)
  <2>1. published \subseteq published' /\ \A j \in published' \ published : j.by = r
    BY <1>3 DEF SendPublish, Publish
  <2>2. Goto(r, "send.record") \/ Goto(r, "send.rollback")
    BY <1>3 DEF SendPublish, Publish
  <2>3. /\ Others(r) /\ pc[r] = "send.publish" /\ pc'[r] \in {"send.record", "send.rollback"}
        /\ UNCHANGED <<row, target, seen, taken>>
    BY <1>3, <2>2 DEF SendPublish, Goto, Others, CampaignsInv, TypeOK
  <2>4. LaunchOK(r)'
    BY <1>0, <2>3 DEF LaunchOK, Sending, Launching
  <2> QED
    BY <2>1, <2>3, <2>4, LaunchStep DEF Published
<1>4. CASE SendRollback(r) \/ SendRecord(r) \/ DeleteWrite(r)
  BY <1>4, LaunchReturn DEF Over, SendRollback, SendRecord, DeleteWrite
<1>5. CASE ResumeWrite(r)
  <2>1. CASE Return(r, "done")
    BY <1>5, <2>1, LaunchReturn DEF Over, ResumeWrite
  <2>2. CASE /\ ResumeTarget(seen[r]) = "sending"
             /\ payload' = [payload EXCEPT ![r] = row[c].content]
             /\ Goto(r, "resume.publish")
             /\ UNCHANGED <<target, seen>>
    <3>1. /\ Others(r) /\ pc[r] = "resume.write" /\ pc'[r] = "resume.publish"
          /\ UNCHANGED <<published, taken>>
      BY <1>5, <2>2 DEF ResumeWrite, Goto, Others, CampaignsInv, TypeOK
    <3>2. row[c].started
      BY <1>0, <2>2, <3>1 DEF LaunchOK, ResumeTarget
    <3>3. row'[c].started
      BY <1>0, <3>2 DEF RowMoves
    <3>4. LaunchOK(r)'
      BY <2>2, <3>1, <3>3 DEF LaunchOK, Sending, Launching
    <3> QED
      BY <3>1, <3>4, LaunchStep DEF Published, Over
  <2> QED
    BY <1>5, <2>1, <2>2 DEF ResumeWrite
<1>6. CASE ResumePublish(r)
  <2>1. /\ published \subseteq published' /\ \A j \in published' \ published : j.by = r
        /\ UNCHANGED taken
    BY <1>6 DEF ResumePublish, Publish
  <2>2. \E s \in Over : Return(r, s)
    BY <1>6 DEF ResumePublish, Publish, Over
  <2> QED
    BY <2>1, <2>2, LaunchReturn
<1> QED
  BY <1>1, <1>2, <1>3, <1>4, <1>5, <1>6 DEF Proceed

LEMMA LaunchEnvironment ==
  ASSUME CampaignsInv, LaunchInv, TypeOK', RowStep, RowMoves,
         UNCHANGED <<pc, target, seen, payload, published>>,
         taken' \subseteq published
  PROVE  LaunchInv'
<1>1. \A r \in Request : LaunchOK(r)'
  BY LaunchBystander DEF LaunchInv
<1>2. StreamOK'
  BY DEF LaunchInv, StreamOK
<1> QED
  BY <1>1, <1>2 DEF LaunchInv

LEMMA LaunchInductive ==
  ASSUME CampaignsInv, LaunchInv, [Next]_vars
  PROVE  LaunchInv'
<1>1. TypeOK' /\ RowStep
  BY RowAdvances DEF CampaignsInv
<1>2. RowMoves
  BY RequestMoves, EnvironmentMoves DEF CampaignsInv, Next
<1>3. ASSUME NEW r \in Request, Arrive(r) \/ Proceed(r)
      PROVE  LaunchInv'
  BY <1>1, <1>2, <1>3, LaunchArrive, LaunchProceed
<1>4. ASSUME NEW r \in Request, Crash(r)
      PROVE  LaunchInv'
  BY <1>1, <1>2, <1>4, LaunchReturn DEF Crash, Over
<1>5. ASSUME NEW c \in Campaign, TimePasses(c)
      PROVE  LaunchInv'
  BY <1>1, <1>2, <1>5, LaunchEnvironment DEF TimePasses, LaunchInv, StreamOK
<1>6. ASSUME NEW j \in Queue, Worker(j)
      PROVE  LaunchInv'
  <2>1. taken' \subseteq published
    BY <1>6 DEF Worker, WorkerFinish, WorkerDrop, Queue, LaunchInv, StreamOK
  <2> QED
    BY <1>1, <1>2, <1>6, <2>1, LaunchEnvironment DEF Worker, WorkerFinish, WorkerDrop
<1>7. CASE UNCHANGED vars
  BY <1>1, <1>2, <1>7, LaunchEnvironment DEF vars, LaunchInv, StreamOK
<1> QED
  BY <1>3, <1>4, <1>5, <1>6, <1>7 DEF Next

LEMMA LaunchInvariant == Spec => []LaunchInv
<1>1. Init => LaunchInv
  BY DEF Init, LaunchInv, LaunchOK, Sending, Launching, StreamOK
<1>2. CampaignsInv /\ LaunchInv /\ [Next]_vars => LaunchInv'
  BY LaunchInductive
<1> QED
  BY Invariant, <1>1, <1>2, PTL DEF Spec

--------------------------------------------------------------------------
(* A campaign that is being delivered has a job in the queue, or a request *)
(* that is about to put one there, to take the launch back, or that is     *)
(* known to have dropped it.                                               *)

Serves(r) == pc[r] \in {"send.publish", "send.rollback", "resume.publish", "warned", "crashed"}

Served(c) ==
  \/ \E j \in Queue : j.campaign = c
  \/ \E r \in Request : target[r] = c /\ Serves(r)

LEMMA ServedMeans == SendingIsServed <=> \A c \in Campaign : Delivering(c) => Served(c)
BY DEF SendingIsServed, Served, Serves, Dropped

\* A step of request r may stop serving its campaign only when it ends the
\* delivery or leaves it to another server.
LEMMA ServedStep ==
  ASSUME SendingIsServed, NEW r \in Request, Others(r), UNCHANGED <<target, taken>>,
         published \subseteq published',
         \A d \in Campaign : Delivering(d)' =>
           Served(d)' \/ (Delivering(d) /\ ~ (target[r] = d /\ Serves(r)))
  PROVE  SendingIsServed'
<1>1. SUFFICES ASSUME NEW d \in Campaign, Delivering(d), ~ (target[r] = d /\ Serves(r))
               PROVE  Served(d)'
  <2>1. \A d \in Campaign : Delivering(d)' => Served(d)'
    BY <1>1
  <2> QED
    BY <2>1 DEF SendingIsServed, Delivering, Served, Serves, Dropped, Queue
<1>2. CASE \E j \in Queue : j.campaign = d
  BY <1>2 DEF Served, Queue
<1>3. CASE \E q \in Request : target[q] = d /\ Serves(q)
  BY <1>1, <1>3 DEF Served, Serves, Others
<1> QED
  BY <1>1, <1>2, <1>3, ServedMeans DEF Served

\* Only the rows of its own campaign change in a step of a request.
LEMMA OtherRows ==
  ASSUME TypeOK, NEW r \in Request, Arrive(r) \/ Proceed(r)
  PROVE  \A d \in Campaign : d # target[r] => row'[d] = row[d]
<1>1. UNCHANGED row \/ \E new : Write(target[r], new)
  BY DEF Arrive, CreateCampaign, UpdateCampaign, ScheduleCampaign, PauseCampaign,
     SendRead, ResumeRead, DeleteRead, Begin, Proceed, SendCount, SendTransition,
     SendPublish, SendRollback, SendRecord, ResumeWrite, ResumePublish, DeleteWrite
<1> QED
  BY <1>1 DEF Write, TypeOK

LEMMA ServedArrive ==
  ASSUME CampaignsInv, SendingIsServed, NEW r \in Request, Arrive(r)
  PROVE  SendingIsServed'
<1> DEFINE c == target[r]
<1>1. /\ Others(r) /\ UNCHANGED <<target, taken, published>> /\ pc[r] = "new"
  BY DEF Arrive, CreateCampaign, UpdateCampaign, ScheduleCampaign, PauseCampaign,
     SendRead, ResumeRead, DeleteRead, Begin, Once, Return, Goto, Others, CampaignsInv, TypeOK
<1>2. UNCHANGED row \/ row'[c].status # "sending"
  <2>1. c \in Campaign /\ row[c] \in Row
    BY DEF CampaignsInv, TypeOK
  <2>2. ASSUME NEW x \in Content, CreateCampaign(r, x)
        PROVE  row'[c].status = "draft"
    BY <2>1, <2>2 DEF CreateCampaign, Write, CampaignsInv, TypeOK, Row
  <2>3. ASSUME NEW x \in Content, UpdateCampaign(r, x)
        PROVE  row'[c].status # "sending"
    BY <2>1, <2>3 DEF UpdateCampaign, Write, CampaignsInv, TypeOK, Row
  <2>4. ASSUME ScheduleCampaign(r)
        PROVE  row'[c].status = "scheduled"
    BY <2>1, <2>4 DEF ScheduleCampaign, Write, CampaignsInv, TypeOK, Row
  <2>5. ASSUME PauseCampaign(r)
        PROVE  row'[c].status = "paused"
    BY <2>1, <2>5 DEF PauseCampaign, Write, CampaignsInv, TypeOK, Row
  <2> QED
    BY <2>2, <2>3, <2>4, <2>5 DEF Arrive, SendRead, ResumeRead, DeleteRead, Begin
<1>3. \A d \in Campaign : Delivering(d)' => Delivering(d)
  BY <1>2, OtherRows DEF Delivering, CampaignsInv
<1>4. ~ Serves(r)
  BY <1>1 DEF Serves
<1> QED
  BY <1>1, <1>3, <1>4, ServedStep

LEMMA ServedProceed ==
  ASSUME CampaignsInv, LaunchInv, SendingIsServed, NEW r \in Request, Proceed(r)
  PROVE  SendingIsServed'
<1>0. PICK c \in Campaign :
        /\ c = target[r] /\ row[c] \in Row
        /\ LaunchOK(r)
        /\ pc \in [Request -> Step]
  BY DEF LaunchInv, CampaignsInv, TypeOK
<1>1. Others(r) /\ UNCHANGED <<target, taken>> /\ published \subseteq published'
  BY DEF Proceed, SendCount, SendTransition, SendPublish, SendRollback, SendRecord,
     ResumeWrite, ResumePublish, DeleteWrite, Publish, Return, Goto, Others, CampaignsInv, TypeOK
<1>2. \A d \in Campaign : d # c => row'[d] = row[d]
  BY <1>0, OtherRows DEF CampaignsInv
\* It is enough to look at the campaign of the request.
<1>3. ASSUME Delivering(c)' => Served(c)' \/ (Delivering(c) /\ ~ Serves(r))
      PROVE  SendingIsServed'
  <2>1. \A d \in Campaign : Delivering(d)' =>
          Served(d)' \/ (Delivering(d) /\ ~ (target[r] = d /\ Serves(r)))
    <3> TAKE d \in Campaign
    <3>1. CASE d = c
      BY <1>0, <1>3, <3>1
    <3>2. CASE d # c
      BY <1>0, <1>2, <3>2 DEF Delivering
    <3> QED
      BY <3>1, <3>2
  <2> QED
    BY <1>1, <2>1, ServedStep
<1>4. CASE SendCount(r) \/ SendRecord(r)
  BY <1>3, <1>4 DEF SendCount, SendRecord, Delivering, Serves
<1>5. CASE SendTransition(r)
  <2>1. CASE UNCHANGED row
    BY <1>3, <1>5, <2>1 DEF SendTransition, Delivering, Serves
  <2>2. CASE Goto(r, "send.publish")
    <3>1. target'[r] = target[r] /\ Serves(r)'
      BY <1>0, <1>1, <2>2 DEF Goto, Serves
    <3> QED
      BY <1>0, <1>3, <3>1 DEF Served
  <2> QED
    BY <1>5, <2>1, <2>2 DEF SendTransition
<1>6. CASE SendPublish(r) \/ ResumePublish(r)
  <2>1. pc[r] \in {"send.publish", "resume.publish"}
    BY <1>6 DEF SendPublish, ResumePublish
  <2>2. ASSUME NEW kind \in {"send", "resume"}, NEW job,
               job = [by |-> r, campaign |-> c, content |-> payload[r], kind |-> kind],
               job \in published'
        PROVE  SendingIsServed'
    <3>1. job \notin taken
      <4>1. pc[job.by] \notin Published
        BY <2>1, <2>2 DEF Published, Over
      <4> QED
        BY <4>1 DEF LaunchInv, StreamOK
    <3>2. job \in Queue' /\ job.campaign = target'[r]
      BY <1>0, <1>1, <2>2, <3>1 DEF Queue
    <3> QED
      BY <1>0, <1>1, <1>3, <3>2 DEF Served
  <2>3. ASSUME Serves(r)'
        PROVE  SendingIsServed'
    BY <1>0, <1>1, <1>3, <2>3 DEF Served
  <2>4. Goto(r, "send.rollback") \/ Return(r, "warned") => Serves(r)'
    BY <1>0 DEF Return, Goto, Serves
  <2>5. CASE SendPublish(r)
    BY <1>0, <2>2, <2>3, <2>4, <2>5 DEF SendPublish, Publish
  <2>6. CASE ResumePublish(r)
    BY <1>0, <2>2, <2>3, <2>4, <2>6 DEF ResumePublish, Publish
  <2> QED
    BY <1>6, <2>5, <2>6
<1>7. CASE SendRollback(r)
  <2>1. seen[r].status \in Open
    BY <1>0, <1>7 DEF SendRollback, LaunchOK, Launching
  <2>2. row'[c].status # "sending"
    BY <1>0, <1>7, <2>1 DEF SendRollback, Write, Open, CampaignsInv, TypeOK, Row
  <2> QED
    BY <1>1, <1>3, <2>2 DEF Delivering
<1>8. CASE ResumeWrite(r)
  <2>1. ~ Serves(r)
    BY <1>8 DEF ResumeWrite, Serves
  <2>2. CASE UNCHANGED row
    BY <1>3, <2>1, <2>2 DEF Delivering
  <2>3. CASE Write(c, [row[c] EXCEPT !.status = ResumeTarget(seen[r])])
    <3>1. row'[c].status = ResumeTarget(seen[r]) /\ row'[c].content = row[c].content
      BY <1>0, <2>3 DEF Write, CampaignsInv, TypeOK, Row
    <3>2. CASE Goto(r, "resume.publish")
      <4>1. target'[r] = target[r] /\ Serves(r)'
        BY <1>0, <1>1, <3>2 DEF Goto, Serves
      <4> QED
        BY <1>0, <1>3, <4>1 DEF Served
    <3>3. CASE ~ (ResumeTarget(seen[r]) = "sending" /\ row[c].content \in WithSegment)
      BY <1>3, <3>1, <3>3 DEF Delivering
    <3> QED
      BY <1>0, <1>8, <2>2, <3>2, <3>3 DEF ResumeWrite
  <2> QED
    BY <1>0, <1>8, <2>2, <2>3 DEF ResumeWrite
<1>9. CASE DeleteWrite(r)
  <2>1. UNCHANGED row \/ row'[c].status = "cancelled"
    BY <1>0, <1>9 DEF DeleteWrite, Write, CampaignsInv, TypeOK, Row
  <2> QED
    BY <1>3, <1>9, <2>1 DEF DeleteWrite, Delivering, Serves
<1> QED
  BY <1>4, <1>5, <1>6, <1>7, <1>8, <1>9 DEF Proceed

LEMMA ServedInductive ==
  ASSUME CampaignsInv, LaunchInv, SendingIsServed, [Next]_vars
  PROVE  SendingIsServed'
<1>1. ASSUME NEW r \in Request, Crash(r)
      PROVE  SendingIsServed'
  <2>1. /\ Others(r) /\ UNCHANGED <<target, taken, published, row>>
        /\ target'[r] = target[r] /\ Serves(r)'
    BY <1>1 DEF Crash, Return, Goto, Others, Serves, CampaignsInv, TypeOK
  <2>2. \A d \in Campaign : Delivering(d)' =>
          Served(d)' \/ (Delivering(d) /\ ~ (target[r] = d /\ Serves(r)))
    BY <2>1 DEF Delivering, Served
  <2> QED
    BY <2>1, <2>2, ServedStep
<1>2. ASSUME UNCHANGED <<pc, target, published>>, UNCHANGED taken,
             \A d \in Campaign : row'[d].status = row[d].status /\ row'[d].content = row[d].content
      PROVE  SendingIsServed'
  BY <1>2 DEF SendingIsServed, Delivering, Dropped, Queue
<1>3. ASSUME NEW c \in Campaign, TimePasses(c)
      PROVE  SendingIsServed'
  <2>1. \A d \in Campaign : row'[d].status = row[d].status /\ row'[d].content = row[d].content
    BY <1>3 DEF TimePasses, CampaignsInv, TypeOK, Row
  <2> QED
    BY <1>2, <1>3, <2>1 DEF TimePasses
<1>4. ASSUME NEW j \in Queue, Worker(j)
      PROVE  SendingIsServed'
  <2>1. j.campaign \in Campaign
    BY DEF Queue, CampaignsInv, TypeOK, Job
  <2>2. row'[j.campaign].status # "sending"
    <3>1. CASE WorkerDrop(j)
      BY <3>1 DEF WorkerDrop
    <3>2. CASE WorkerFinish(j)
      <4>1. PICK s \in Final, v \in {row[j.campaign].version, row[j.campaign].version + 1} :
              row' = [row EXCEPT ![j.campaign] = [row[j.campaign] EXCEPT !.status = s, !.version = v]]
        BY <3>2 DEF WorkerFinish, Final
      <4>2. row'[j.campaign].status = s
        BY <2>1, <4>1 DEF CampaignsInv, TypeOK, Row
      <4> QED
        BY <4>2 DEF Final
    <3> QED
      BY <1>4, <3>1, <3>2 DEF Worker
  <2>3. \A d \in Campaign : d # j.campaign => row'[d] = row[d]
    BY <1>4, <2>1 DEF Worker, WorkerFinish, WorkerDrop, CampaignsInv, TypeOK
  <2>4. /\ UNCHANGED <<pc, target, published>>
        /\ taken' = taken \union {j}
    BY <1>4 DEF Worker, WorkerFinish, WorkerDrop
  <2> QED
    BY <2>2, <2>3, <2>4 DEF SendingIsServed, Delivering, Dropped, Queue
<1>5. CASE UNCHANGED vars
  BY <1>2, <1>5 DEF vars
<1> QED
  BY <1>1, <1>3, <1>4, <1>5, ServedArrive, ServedProceed DEF Next

\* A campaign that is being delivered is never forgotten, apart from a crash
\* between the UPDATE and the publish and a publish of resume that failed: a
\* job is queued, or the request that queues it or takes the launch back is
\* running (sendCampaign, resumeCampaign).
THEOREM SendingIsServedHolds == Spec => []SendingIsServed
<1>1. Init => SendingIsServed
  BY DEF Init, NoRow, SendingIsServed, Delivering
<1>2. CampaignsInv /\ LaunchInv /\ SendingIsServed /\ [Next]_vars => SendingIsServed'
  BY ServedInductive
<1> QED
  BY Invariant, LaunchInvariant, <1>1, <1>2, PTL DEF Spec

--------------------------------------------------------------------------
(* Usage.  A request that is about to record a usage has published its     *)
(* send; setting the jobs of these requests aside, there are at least as   *)
(* many sends in the stream as usages recorded.                            *)

Sends == {j \in published : j.kind = "send"}
Due(j) == pc[j.by] = "send.record"
Settled == {j \in Sends : ~ Due(j)}

MeterInv ==
  /\ IsFiniteSet(published)
  /\ \A r \in Request : pc[r] = "send.record" => \E j \in Sends : j.by = r
  /\ usage <= Cardinality(Settled)

LEMMA SettledFinite ==
  ASSUME IsFiniteSet(published)
  PROVE  /\ IsFiniteSet(Sends) /\ IsFiniteSet(Settled)
         /\ Cardinality(Settled) \in Nat /\ Cardinality(Settled) <= Cardinality(Sends)
<1>1. Sends \subseteq published /\ Settled \subseteq Sends
  BY DEF Sends, Settled
<1>2. IsFiniteSet(Sends)
  BY <1>1, FS_Subset
<1> QED
  BY <1>1, <1>2, FS_Subset, FS_CardinalityType

\* Steps that record nothing: no settled send becomes due or disappears.
LEMMA MeterKept ==
  ASSUME MeterInv, TypeOK, UNCHANGED usage, IsFiniteSet(published'),
         Settled \subseteq Settled',
         \A r \in Request : pc'[r] = "send.record" => \E j \in Sends' : j.by = r
  PROVE  MeterInv'
<1>1. IsFiniteSet(Settled) /\ IsFiniteSet(Settled)'
  BY SettledFinite, FS_Subset DEF MeterInv, Sends, Settled
<1>2. Cardinality(Settled) <= Cardinality(Settled')
  BY <1>1, FS_Subset
<1>3. Cardinality(Settled) \in Nat /\ Cardinality(Settled') \in Nat /\ usage \in Nat
  BY <1>1, FS_CardinalityType DEF TypeOK
<1> QED
  BY <1>2, <1>3 DEF MeterInv

\* Every step but the recording one leaves its request not due, or has just
\* published a send of it.
LEMMA MeterOther ==
  ASSUME MeterInv, TypeOK, TypeOK', UNCHANGED <<usage, published>>,
         \A r \in Request : pc'[r] = "send.record" => pc[r] = "send.record"
  PROVE  MeterInv'
<1>1. Settled \subseteq Settled'
  BY DEF Settled, Sends, Due, TypeOK, Job
<1> QED
  BY <1>1, MeterKept DEF MeterInv, Sends

LEMMA MeterPublish ==
  ASSUME MeterInv, StreamOK, TypeOK, TypeOK', NEW r \in Request,
         SendPublish(r) \/ ResumePublish(r)
  PROVE  MeterInv'
<1>1. /\ pc[r] \in {"send.publish", "resume.publish"} /\ UNCHANGED usage
      /\ \A q \in Request : q # r => pc'[q] = pc[q]
  BY DEF SendPublish, ResumePublish, Publish, Return, Goto, TypeOK
<1>2. \A j \in published : j.by \in Request /\ j.by # r
  BY <1>1 DEF StreamOK, Published, Over, TypeOK, Job
<1>3. PICK job : published' = published \/ published' = published \union {job}
  BY DEF SendPublish, ResumePublish, Publish
<1>4. IsFiniteSet(published')
  BY <1>3, FS_AddElement DEF MeterInv
<1>5. published \subseteq published'
  BY <1>3
<1>6. Settled \subseteq Settled'
  BY <1>1, <1>2, <1>5 DEF Settled, Sends, Due
<1>7. ASSUME NEW q \in Request, pc'[q] = "send.record"
      PROVE  \E j \in Sends' : j.by = q
  <2>1. CASE q = r
    <3> DEFINE sent == [by |-> r, campaign |-> target[r], content |-> payload[r], kind |-> "send"]
    <3>1. sent \in published'
      BY <1>7, <2>1 DEF SendPublish, ResumePublish, Publish, Return, Goto, TypeOK
    <3>2. sent.kind = "send" /\ sent.by = r
      OBVIOUS
    <3> QED
      BY <2>1, <3>1, <3>2 DEF Sends
  <2>2. CASE q # r
    BY <1>1, <1>5, <1>7, <2>2 DEF MeterInv, Sends
  <2> QED
    BY <2>1, <2>2
<1> QED
  BY <1>1, <1>4, <1>6, <1>7, MeterKept

\* Recording a usage settles the send of the request.
LEMMA MeterRecord ==
  ASSUME MeterInv, TypeOK, NEW r \in Request, SendRecord(r)
  PROVE  MeterInv'
<1>1. /\ pc[r] = "send.record" /\ pc'[r] = "done"
      /\ \A q \in Request : q # r => pc'[q] = pc[q]
      /\ published' = published /\ usage' = usage + 1
  BY DEF SendRecord, Return, Goto, TypeOK
<1>2. PICK job \in Sends : job.by = r
  BY <1>1 DEF MeterInv
<1>3. job \notin Settled /\ Settled \union {job} \subseteq Settled'
  BY <1>1, <1>2 DEF Settled, Sends, Due, TypeOK, Job
<1>4. IsFiniteSet(Settled) /\ IsFiniteSet(Settled') /\ Cardinality(Settled) \in Nat
  BY <1>1, SettledFinite, FS_Subset DEF MeterInv, Settled, Sends
<1>5. IsFiniteSet(Settled \union {job}) /\ Cardinality(Settled \union {job}) = Cardinality(Settled) + 1
  BY <1>3, <1>4, FS_AddElement
<1>6. Cardinality(Settled \union {job}) <= Cardinality(Settled')
  BY <1>3, <1>4, FS_Subset
<1>7. Cardinality(Settled') \in Nat /\ usage \in Nat
  BY <1>4, FS_CardinalityType DEF TypeOK
<1>8. usage' <= Cardinality(Settled')
  BY <1>1, <1>4, <1>5, <1>6, <1>7 DEF MeterInv
<1>9. \A q \in Request : pc'[q] = "send.record" => \E j \in Sends' : j.by = q
  BY <1>1 DEF MeterInv, Sends
<1> QED
  BY <1>1, <1>8, <1>9 DEF MeterInv

LEMMA MeterInductive ==
  ASSUME CampaignsInv, LaunchInv, MeterInv, [Next]_vars
  PROVE  MeterInv'
<1>0. TypeOK /\ TypeOK' /\ StreamOK
  BY RowAdvances DEF CampaignsInv, LaunchInv
<1>1. ASSUME NEW r \in Request, Arrive(r) \/ Crash(r)
      PROVE  MeterInv'
  <2>1. UNCHANGED <<usage, published>>
    BY <1>1 DEF Arrive, CreateCampaign, UpdateCampaign, ScheduleCampaign, PauseCampaign,
       SendRead, ResumeRead, DeleteRead, Begin, Once, Crash
  <2>2. \A q \in Request : pc'[q] = "send.record" => pc[q] = "send.record"
    BY <1>0, <1>1 DEF Arrive, CreateCampaign, UpdateCampaign, ScheduleCampaign, PauseCampaign,
       SendRead, ResumeRead, DeleteRead, Begin, Once, Crash, Return, Goto, TypeOK
  <2> QED
    BY <1>0, <2>1, <2>2, MeterOther
<1>2. ASSUME NEW r \in Request,
             SendCount(r) \/ SendTransition(r) \/ SendRollback(r) \/ ResumeWrite(r) \/ DeleteWrite(r)
      PROVE  MeterInv'
  <2>1. UNCHANGED <<usage, published>>
    BY <1>2 DEF SendCount, SendTransition, SendRollback, ResumeWrite, DeleteWrite
  <2>2. \A q \in Request : pc'[q] = "send.record" => pc[q] = "send.record"
    BY <1>0, <1>2 DEF SendCount, SendTransition, SendRollback, ResumeWrite, DeleteWrite,
       Return, Goto, TypeOK
  <2> QED
    BY <1>0, <2>1, <2>2, MeterOther
<1>3. ASSUME NEW r \in Request, Proceed(r)
      PROVE  MeterInv'
  BY <1>0, <1>2, <1>3, MeterPublish, MeterRecord DEF Proceed
<1>4. CASE UNCHANGED <<pc, published, usage>>
  BY <1>0, <1>4, MeterOther
<1> QED
  BY <1>1, <1>3, <1>4 DEF Next, TimePasses, Worker, WorkerFinish, WorkerDrop, vars

\* Emails are metered only for sends that reached the stream, however often
\* publishes fail or time out (sendCampaign, recordUsage).
THEOREM UsageBackedHolds == Spec => []UsageBacked
<1>1. Init => MeterInv
  <2> SUFFICES ASSUME Init PROVE MeterInv
    OBVIOUS
  <2>1. Settled = {} /\ published = {} /\ usage = 0
    BY DEF Init, Settled, Sends
  <2>2. IsFiniteSet({}) /\ Cardinality({}) = 0
    BY FS_EmptySet
  <2> QED
    BY <2>1, <2>2 DEF Init, MeterInv
<1>2. CampaignsInv /\ LaunchInv /\ MeterInv /\ [Next]_vars => MeterInv'
  BY MeterInductive
<1>3. CampaignsInv /\ MeterInv => UsageBacked
  <2> SUFFICES ASSUME CampaignsInv, MeterInv PROVE UsageBacked
    OBVIOUS
  <2>1. usage \in Nat /\ Cardinality(Settled) \in Nat /\ Cardinality(Settled) <= Cardinality(Sends)
    BY SettledFinite DEF CampaignsInv, TypeOK, MeterInv
  <2>2. IsFiniteSet(Sends) /\ Cardinality(Sends) \in Nat
    BY SettledFinite, FS_CardinalityType DEF MeterInv
  <2>3. usage <= Cardinality(Sends)
    BY <2>1, <2>2 DEF MeterInv
  <2> QED
    BY <2>3 DEF UsageBacked, Sends
<1> QED
  BY Invariant, LaunchInvariant, <1>1, <1>2, <1>3, PTL DEF Spec

--------------------------------------------------------------------------
(* The handlers implement CampaignLifecycle: every step of a request, of   *)
(* the clock or of the worker is one of its steps or changes nothing of    *)
(* what it speaks of.                                                      *)

StatusOf == [c \in Campaign |-> row[c].status]
StartedOf == {c \in Campaign : row[c].started}
AnnouncedOf == {j.campaign : j \in published}

Maps == [Lifecycle!Next]_(Lifecycle!lifecycleVars)

\* One row written, nothing published: the abstract step has to account for
\* the new status, and for the start.
LEMMA StatusWritten ==
  ASSUME TypeOK, NEW c \in Campaign, NEW newRow \in Row,
         \/ Write(c, newRow)
         \/ row' = [row EXCEPT ![c] = newRow]
  PROVE  /\ StatusOf' = [StatusOf EXCEPT ![c] = newRow.status]
         /\ newRow.started = row[c].started => StartedOf' = StartedOf
         /\ newRow.started => StartedOf' = StartedOf \union {c}
<1>1. /\ row'[c].status = newRow.status
      /\ row'[c].started = newRow.started
      /\ \A d \in Campaign : d # c => row'[d] = row[d]
  BY DEF TypeOK, Write, Row
<1>2. StatusOf' = [StatusOf EXCEPT ![c] = newRow.status]
  BY <1>1 DEF StatusOf
<1>3. newRow.started = row[c].started => StartedOf' = StartedOf
  BY <1>1 DEF StartedOf
<1>4. newRow.started => StartedOf' = StartedOf \union {c}
  BY <1>1 DEF StartedOf
<1> QED
  BY <1>2, <1>3, <1>4

\* A status that moves along an edge of the machine, with no other change.
LEMMA StatusMoves ==
  ASSUME NEW c \in Campaign, NEW s,
         StatusOf' = [StatusOf EXCEPT ![c] = s], StartedOf' = StartedOf, UNCHANGED published,
         \/ s = row[c].status
         \/ row[c].status = "absent" /\ s = "draft"
         \/ row[c].status \in Open \union {"sending"} /\ s \in {"draft", "scheduled"}
         \/ row[c].status \in {"scheduled", "sending"} /\ s = "paused"
         \/ row[c].status \in Open \union Final \union {"sending"} /\ s = "cancelled"
         \/ row[c].status = "sending" /\ c \in AnnouncedOf /\ s \in Final
  PROVE  Maps
<1>1. AnnouncedOf' = AnnouncedOf
  BY DEF AnnouncedOf
<1>2. StatusOf[c] = row[c].status
  BY DEF StatusOf
<1>3. CASE s = row[c].status
  <2>1. StatusOf' = StatusOf
    BY <1>3 DEF StatusOf
  <2> QED
    BY <1>1, <2>1 DEF Maps, Lifecycle!lifecycleVars, StatusOf, StartedOf, AnnouncedOf
<1>4. Lifecycle!Goes(c, s)
  BY <1>1 DEF Lifecycle!Goes, StatusOf, StartedOf, AnnouncedOf
<1>5. CASE s # row[c].status
  <2>1. \/ Lifecycle!Create(c) \/ Lifecycle!Reopen(c) \/ Lifecycle!Hold(c)
        \/ Lifecycle!Finish(c) \/ Lifecycle!Discard(c)
    BY <1>2, <1>4, <1>5
       DEF Open, Final, Lifecycle!Create, Lifecycle!Reopen, Lifecycle!Hold, Lifecycle!Finish,
           Lifecycle!Discard, Lifecycle!Open, Lifecycle!Final, Lifecycle!Live,
           StatusOf, AnnouncedOf
  <2> QED
    BY <2>1 DEF Maps, Lifecycle!Next
<1> QED
  BY <1>3, <1>5

LEMMA LaunchMaps ==
  ASSUME NEW c \in Campaign, row[c].status \in Open, UNCHANGED published,
         StatusOf' = [StatusOf EXCEPT ![c] = "sending"],
         StartedOf' = StartedOf \union {c}
  PROVE  Maps
<1>1. StatusOf[c] \in Lifecycle!Open
  BY DEF StatusOf, Open, Lifecycle!Open
<1>2. AnnouncedOf' = AnnouncedOf
  BY DEF AnnouncedOf
<1>3. Lifecycle!Launch(c)
  BY <1>1, <1>2 DEF Lifecycle!Launch, StatusOf, StartedOf, AnnouncedOf
<1> QED
  BY <1>3 DEF Maps, Lifecycle!Next

LEMMA AnnounceMaps ==
  ASSUME NEW c \in Campaign, row[c].started, UNCHANGED row, NEW job, job.campaign = c,
         published' = published \/ published' = published \union {job}
  PROVE  Maps
<1>1. UNCHANGED <<StatusOf, StartedOf>>
  BY DEF StatusOf, StartedOf
<1>2. CASE published' = published
  BY <1>1, <1>2 DEF Maps, Lifecycle!lifecycleVars, StatusOf, StartedOf, AnnouncedOf
<1>3. CASE published' = published \union {job}
  <2>1. AnnouncedOf' = AnnouncedOf \union {c}
    BY <1>3 DEF AnnouncedOf
  <2>2. c \in StartedOf
    BY DEF StartedOf
  <2>3. Lifecycle!Announce(c)
    BY <1>1, <2>1, <2>2 DEF Lifecycle!Announce, StatusOf, StartedOf, AnnouncedOf
  <2> QED
    BY <2>3 DEF Maps, Lifecycle!Next
<1> QED
  BY <1>2, <1>3

LEMMA NothingMaps ==
  ASSUME UNCHANGED <<row, published>>
  PROVE  Maps
BY DEF Maps, Lifecycle!lifecycleVars

LEMMA ArriveMaps ==
  ASSUME TypeOK, NEW r \in Request, Arrive(r)
  PROVE  Maps
<1> DEFINE c == target[r]
<1>0. c \in Campaign /\ row[c] \in Row
  BY DEF TypeOK
<1>1. ASSUME NEW new \in Row, Write(c, new), new.started = row[c].started
      PROVE  /\ StatusOf' = [StatusOf EXCEPT ![c] = new.status]
             /\ StartedOf' = StartedOf
  BY <1>0, <1>1, StatusWritten
<1>2. ASSUME NEW x \in Content, CreateCampaign(r, x)
      PROVE  Maps
  <2> DEFINE new == [row[c] EXCEPT !.status = "draft", !.content = x]
  <2>1. new \in Row /\ new.started = row[c].started /\ new.status = "draft"
    BY <1>0, <1>2 DEF Row, Status
  <2>2. Write(c, new) /\ row[c].status = "absent" /\ UNCHANGED published
    BY <1>2 DEF CreateCampaign, Once
  <2> HIDE DEF new
  <2>3. StatusOf' = [StatusOf EXCEPT ![c] = "draft"] /\ StartedOf' = StartedOf
    BY <1>1, <2>1, <2>2
  <2> QED
    BY <1>0, <2>2, <2>3, StatusMoves
<1>3. ASSUME NEW x \in Content, UpdateCampaign(r, x)
      PROVE  Maps
  <2> DEFINE new == [row[c] EXCEPT !.content = x]
  <2>1. new \in Row /\ new.started = row[c].started /\ new.status = row[c].status
    BY <1>0, <1>3 DEF Row, Status
  <2>2. Write(c, new) /\ UNCHANGED published
    BY <1>3 DEF UpdateCampaign, Once
  <2> HIDE DEF new
  <2>3. StatusOf' = [StatusOf EXCEPT ![c] = row[c].status] /\ StartedOf' = StartedOf
    BY <1>1, <2>1, <2>2
  <2> QED
    BY <1>0, <2>2, <2>3, StatusMoves
<1>4. ASSUME ScheduleCampaign(r)
      PROVE  Maps
  <2> DEFINE new == [row[c] EXCEPT !.status = "scheduled", !.ahead = TRUE]
  <2>1. new \in Row /\ new.started = row[c].started /\ new.status = "scheduled"
    BY <1>0 DEF Row, Status
  <2>2. Write(c, new) /\ row[c].status \in Open /\ UNCHANGED published
    BY <1>4 DEF ScheduleCampaign, Once, Open
  <2> HIDE DEF new
  <2>3. StatusOf' = [StatusOf EXCEPT ![c] = "scheduled"] /\ StartedOf' = StartedOf
    BY <1>1, <2>1, <2>2
  <2> QED
    BY <1>0, <2>2, <2>3, StatusMoves
<1>5. ASSUME PauseCampaign(r)
      PROVE  Maps
  <2> DEFINE new == [row[c] EXCEPT !.status = "paused"]
  <2>1. new \in Row /\ new.started = row[c].started /\ new.status = "paused"
    BY <1>0 DEF Row, Status
  <2>2. Write(c, new) /\ row[c].status \in {"scheduled", "sending"} /\ UNCHANGED published
    BY <1>5 DEF PauseCampaign, Once
  <2> HIDE DEF new
  <2>3. StatusOf' = [StatusOf EXCEPT ![c] = "paused"] /\ StartedOf' = StartedOf
    BY <1>1, <2>1, <2>2
  <2> QED
    BY <1>0, <2>2, <2>3, StatusMoves
<1>6. CASE SendRead(r) \/ ResumeRead(r) \/ DeleteRead(r)
  BY <1>6, NothingMaps DEF SendRead, ResumeRead, DeleteRead, Begin
<1> QED
  BY <1>2, <1>3, <1>4, <1>5, <1>6 DEF Arrive

LEMMA ProceedMaps ==
  ASSUME TypeOK, LaunchInv, NEW r \in Request, Proceed(r)
  PROVE  Maps
<1> DEFINE c == target[r]
<1>0. c \in Campaign /\ row[c] \in Row /\ seen[r] \in Row /\ LaunchOK(r)
  BY DEF TypeOK, LaunchInv
\* A guarded UPDATE of the status alone.
<1>1. ASSUME NEW s \in Status, Write(c, [row[c] EXCEPT !.status = s])
      PROVE  /\ StatusOf' = [StatusOf EXCEPT ![c] = s]
             /\ StartedOf' = StartedOf
             /\ row[c].started => StartedOf' = StartedOf \union {c}
  <2> DEFINE new == [row[c] EXCEPT !.status = s]
  <2>1. new \in Row /\ new.started = row[c].started /\ new.status = s
    BY <1>0 DEF Row
  <2>2. Write(c, new)
    BY <1>1
  <2> HIDE DEF new
  <2>3. /\ StatusOf' = [StatusOf EXCEPT ![c] = s]
        /\ StartedOf' = StartedOf
    BY <1>0, <2>1, <2>2, StatusWritten
  <2>4. row[c].started => StartedOf = StartedOf \union {c}
    BY <1>0 DEF StartedOf
  <2> QED
    BY <2>3, <2>4
<1>2. CASE SendTransition(r)
  <2> DEFINE new == [row[c] EXCEPT !.status = "sending", !.started = TRUE]
  <2>1. CASE UNCHANGED row
    BY <1>2, <2>1, NothingMaps DEF SendTransition
  <2>2. CASE Write(c, new) /\ row[c].status \in Open
    <3>1. new \in Row /\ new.started /\ new.status = "sending"
      BY <1>0 DEF Row, Status
    <3>2. Write(c, new)
      BY <2>2
    <3> HIDE DEF new
    <3>3. StatusOf' = [StatusOf EXCEPT ![c] = "sending"] /\ StartedOf' = StartedOf \union {c}
      BY <1>0, <3>1, <3>2, StatusWritten
    <3> QED
      BY <1>0, <1>2, <2>2, <3>3, LaunchMaps DEF SendTransition
  <2> QED
    BY <1>2, <2>1, <2>2 DEF SendTransition, Open
<1>3. CASE SendPublish(r) \/ ResumePublish(r)
  <2>1. PICK kind \in {"send", "resume"} :
          \/ published' = published
          \/ published' = published \union
               {[by |-> r, campaign |-> c, content |-> payload[r], kind |-> kind]}
    BY <1>3 DEF SendPublish, ResumePublish, Publish
  <2>2. row[c].started /\ UNCHANGED row
    BY <1>0, <1>3 DEF SendPublish, ResumePublish, LaunchOK, Launching
  <2> QED
    BY <1>0, <2>1, <2>2, AnnounceMaps
<1>4. CASE SendRollback(r)
  <2>1. seen[r].status \in Open /\ UNCHANGED published
    BY <1>0, <1>4 DEF SendRollback, LaunchOK, Launching
  <2>2. CASE UNCHANGED row
    BY <2>1, <2>2, NothingMaps
  <2>3. CASE row[c].status = "sending" /\ Write(c, [row[c] EXCEPT !.status = seen[r].status])
    <3>1. /\ StatusOf' = [StatusOf EXCEPT ![c] = seen[r].status]
          /\ StartedOf' = StartedOf
      BY <1>1, <2>1, <2>3 DEF Open, Status
    <3> QED
      BY <1>0, <2>1, <2>3, <3>1, StatusMoves DEF Open
  <2> QED
    BY <1>4, <2>2, <2>3 DEF SendRollback
<1>5. CASE ResumeWrite(r)
  <2> DEFINE s == ResumeTarget(seen[r])
  <2>1. /\ UNCHANGED published /\ s \in {"draft", "scheduled", "sending"}
        /\ s = "sending" => row[c].started
    BY <1>0, <1>5 DEF ResumeWrite, ResumeTarget, LaunchOK
  <2>2. CASE UNCHANGED row
    BY <2>1, <2>2, NothingMaps
  <2>3. CASE row[c].status = "paused" /\ Write(c, [row[c] EXCEPT !.status = s])
    <3> HIDE DEF s
    <3>1. /\ StatusOf' = [StatusOf EXCEPT ![c] = s]
          /\ StartedOf' = StartedOf
          /\ row[c].started => StartedOf' = StartedOf \union {c}
      BY <1>1, <2>1, <2>3 DEF Status
    <3>2. CASE s = "sending"
      BY <1>0, <2>1, <2>3, <3>1, <3>2, LaunchMaps DEF Open
    <3>3. CASE s # "sending"
      BY <1>0, <2>1, <2>3, <3>1, <3>3, StatusMoves DEF Open
    <3> QED
      BY <3>2, <3>3
  <2> QED
    BY <1>5, <2>2, <2>3 DEF ResumeWrite
<1>6. CASE DeleteWrite(r)
  <2>1. CASE UNCHANGED row
    BY <1>6, <2>1, NothingMaps DEF DeleteWrite
  <2>2. CASE Live(c) /\ Write(c, [row[c] EXCEPT !.status = "cancelled"])
    <3>1. StatusOf' = [StatusOf EXCEPT ![c] = "cancelled"] /\ StartedOf' = StartedOf
      BY <1>1, <2>2 DEF Status
    <3>2. row[c].status \in Open \union Final \union {"sending"}
      BY <1>0, <2>2 DEF Live, Row, Status, Open, Final
    <3> QED
      BY <1>0, <1>6, <3>1, <3>2, StatusMoves DEF DeleteWrite
  <2> QED
    BY <1>6, <2>1, <2>2 DEF DeleteWrite
<1>7. CASE SendCount(r) \/ SendRecord(r)
  BY <1>7, NothingMaps DEF SendCount, SendRecord
<1> QED
  BY <1>2, <1>3, <1>4, <1>5, <1>6, <1>7 DEF Proceed

LEMMA EnvironmentMaps ==
  ASSUME TypeOK, LaunchInv,
         \/ \E r \in Request : Crash(r)
         \/ \E c \in Campaign : TimePasses(c)
         \/ \E j \in Queue : Worker(j)
         \/ UNCHANGED vars
  PROVE  Maps
<1>1. ASSUME NEW c \in Campaign, TimePasses(c)
      PROVE  Maps
  <2> DEFINE new == [row[c] EXCEPT !.ahead = FALSE]
  <2>1. new \in Row /\ new.started = row[c].started /\ new.status = row[c].status
    BY DEF TypeOK, Row
  <2>2. row' = [row EXCEPT ![c] = new] /\ UNCHANGED published
    BY <1>1, Zenon DEF TimePasses
  <2> HIDE DEF new
  <2>3. StatusOf' = [StatusOf EXCEPT ![c] = row[c].status] /\ StartedOf' = StartedOf
    BY <2>1, <2>2, StatusWritten
  <2> QED
    BY <2>2, <2>3, StatusMoves
<1>2. ASSUME NEW j \in Queue, WorkerFinish(j)
      PROVE  Maps
  <2>1. PICK c \in Campaign : c = j.campaign /\ c \in AnnouncedOf
    BY DEF Queue, TypeOK, Job, AnnouncedOf
  <2>2. PICK s \in Final, v \in {row[c].version, row[c].version + 1} :
          row' = [row EXCEPT ![c] = [row[c] EXCEPT !.status = s, !.version = v]]
    BY <1>2, <2>1 DEF WorkerFinish, Final
  <2> DEFINE new == [row[c] EXCEPT !.status = s, !.version = v]
  <2>3. new \in Row /\ new.started = row[c].started /\ new.status = s
    <3>1. row[c] \in Row /\ v \in Nat /\ s \in Status
      BY DEF TypeOK, Row, Status, Final
    <3> QED
      BY <3>1 DEF Row
  <2>4. row' = [row EXCEPT ![c] = new]
    BY <2>2
  <2> HIDE DEF new
  <2>5. StatusOf' = [StatusOf EXCEPT ![c] = s] /\ StartedOf' = StartedOf
    BY <2>3, <2>4, StatusWritten
  <2>6. row[c].status = "sending" /\ UNCHANGED published
    BY <1>2, <2>1 DEF WorkerFinish
  <2> QED
    BY <2>1, <2>5, <2>6, StatusMoves
<1>3. UNCHANGED <<row, published>> => Maps
  BY NothingMaps
<1> QED
  BY <1>1, <1>2, <1>3 DEF Crash, Worker, WorkerDrop, vars

\* The concurrent handlers implement the machine with one-step requests:
\* sent and failed are left only by deletion, nothing is finished that was
\* not announced, nothing is announced that was not started
\* (CAMPAIGN_STATUS in schema/campaigns.ts and all of CampaignService).
THEOREM LifecycleImplemented == Spec => LifecycleSpec
<1>1. Init => Lifecycle!Init
  <2> SUFFICES ASSUME Init PROVE Lifecycle!Init
    OBVIOUS
  <2>1. \A c \in Campaign : row[c].status = "absent" /\ ~ row[c].started
    BY DEF Init, NoRow
  <2> QED
    BY <2>1 DEF Init, Lifecycle!Init
<1>2. CampaignsInv /\ LaunchInv /\ [Next]_vars => Maps
  BY ArriveMaps, ProceedMaps, EnvironmentMaps DEF CampaignsInv, Next
<1> QED
  BY Invariant, LaunchInvariant, <1>1, <1>2, PTL DEF Spec, Maps, LifecycleSpec, Lifecycle!Spec

--------------------------------------------------------------------------
(* What the machine promises, the handlers keep.                            *)

\* Who is sent or failed had a job published, and whoever had was sending.
FinishedWasLaunched ==
  /\ \A c \in Campaign : row[c].status \in {"sent", "failed"} => \E j \in published : j.campaign = c
  /\ \A j \in published : j.campaign \in Campaign /\ row[j.campaign].started

StaysFinished(c) ==
  /\ row[c].status \in {"sent", "failed"} => row'[c].status \in {row[c].status, "cancelled"}
  /\ row[c].status = "cancelled" => row'[c].status = "cancelled"

\* Deletion alone leaves sent and failed, and nothing leaves deletion.
FinishedForGood == [][\A c \in Campaign : StaysFinished(c)]_row

\* FinishedWasLaunched in terms of the machine.
LaunchedInLifecycle ==
  /\ \A c \in Campaign : StatusOf[c] \in Lifecycle!Final => c \in AnnouncedOf
  /\ AnnouncedOf \subseteq StartedOf

LEMMA LifecycleSteps ==
  ASSUME Maps
  PROVE  /\ LaunchedInLifecycle => LaunchedInLifecycle'
         /\ \A c \in Campaign : StaysFinished(c)
<1>1. \A c \in Campaign : StatusOf[c] = row[c].status /\ StatusOf'[c] = row'[c].status
  BY DEF StatusOf
<1>2. CASE UNCHANGED <<StatusOf, StartedOf, AnnouncedOf>>
  BY <1>1, <1>2 DEF LaunchedInLifecycle, StaysFinished
<1>3. ASSUME NEW c \in Campaign, NEW s, StatusOf' = [StatusOf EXCEPT ![c] = s],
             StartedOf \subseteq StartedOf', AnnouncedOf' = AnnouncedOf,
             s \in Lifecycle!Final => c \in AnnouncedOf,
             StatusOf[c] \in Lifecycle!Final \union {"cancelled"} => s = "cancelled",
             StatusOf[c] = "cancelled" => FALSE
      PROVE  /\ LaunchedInLifecycle => LaunchedInLifecycle'
             /\ \A d \in Campaign : StaysFinished(d)
  <2>1. \A d \in Campaign : StatusOf'[d] = IF d = c THEN s ELSE StatusOf[d]
    BY <1>3 DEF StatusOf
  <2>2. LaunchedInLifecycle => LaunchedInLifecycle'
    BY <1>3, <2>1 DEF LaunchedInLifecycle
  <2>3. ASSUME NEW d \in Campaign PROVE StaysFinished(d)
    BY <1>1, <1>3, <2>1 DEF StaysFinished, Lifecycle!Final
  <2> QED
    BY <2>2, <2>3
<1>4. ASSUME NEW c \in Campaign, Lifecycle!Announce(c)
      PROVE  /\ LaunchedInLifecycle => LaunchedInLifecycle'
             /\ \A d \in Campaign : StaysFinished(d)
  <2>1. c \in StartedOf /\ AnnouncedOf' = AnnouncedOf \union {c}
        /\ StatusOf' = StatusOf /\ StartedOf' = StartedOf
    BY <1>4 DEF Lifecycle!Announce, StatusOf, StartedOf, AnnouncedOf
  <2> QED
    BY <1>1, <2>1 DEF LaunchedInLifecycle, StaysFinished
<1>5. ASSUME NEW c \in Campaign,
             \/ Lifecycle!Create(c) \/ Lifecycle!Reopen(c) \/ Lifecycle!Hold(c)
             \/ Lifecycle!Launch(c) \/ Lifecycle!Finish(c) \/ Lifecycle!Discard(c)
      PROVE  \E s : /\ StatusOf' = [StatusOf EXCEPT ![c] = s]
                    /\ StartedOf \subseteq StartedOf' /\ AnnouncedOf' = AnnouncedOf
                    /\ s \in Lifecycle!Final => c \in AnnouncedOf
                    /\ StatusOf[c] \in Lifecycle!Final \union {"cancelled"} => s = "cancelled"
                    /\ StatusOf[c] # "cancelled"
  BY <1>5 DEF Lifecycle!Create, Lifecycle!Reopen, Lifecycle!Hold, Lifecycle!Launch,
     Lifecycle!Finish, Lifecycle!Discard, Lifecycle!Goes, Lifecycle!Open, Lifecycle!Final,
     Lifecycle!Live, StatusOf, StartedOf, AnnouncedOf
<1>6. CASE Lifecycle!Next
  <2>1. PICK c \in Campaign :
          \/ Lifecycle!Create(c) \/ Lifecycle!Reopen(c) \/ Lifecycle!Hold(c)
          \/ Lifecycle!Launch(c) \/ Lifecycle!Announce(c) \/ Lifecycle!Finish(c)
          \/ Lifecycle!Discard(c)
    BY <1>6 DEF Lifecycle!Next
  <2> QED
    BY <1>3, <1>4, <1>5, <2>1
<1> QED
  BY <1>2, <1>6 DEF Maps, Lifecycle!lifecycleVars, StatusOf, StartedOf, AnnouncedOf

\* A campaign is sent or failed only after a job for it was published, which
\* happens only to campaigns that were sending; it stays so until it is
\* deleted, and deleted it stays for good, however requests, worker and
\* crashes interleave (the comment above CAMPAIGN_STATUS in
\* schema/campaigns.ts): read off the machine, which the handlers implement.
THEOREM FinishedIsFinal == Spec => []FinishedWasLaunched /\ FinishedForGood
<1>1. Lifecycle!Init => LaunchedInLifecycle
  BY DEF Lifecycle!Init, LaunchedInLifecycle, Lifecycle!Final, StatusOf, StartedOf, AnnouncedOf
<1>2. LaunchedInLifecycle /\ Maps => LaunchedInLifecycle'
  BY LifecycleSteps
<1>3. Maps => [\A c \in Campaign : StaysFinished(c)]_row
  BY LifecycleSteps
<1>4. LaunchedInLifecycle => FinishedWasLaunched
  BY DEF LaunchedInLifecycle, FinishedWasLaunched, Lifecycle!Final, StatusOf, StartedOf, AnnouncedOf
<1> QED
  BY LifecycleImplemented, <1>1, <1>2, <1>3, <1>4, PTL
     DEF LifecycleSpec, Lifecycle!Spec, Maps, FinishedForGood
============================================================================
