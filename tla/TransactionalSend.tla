------------------------ MODULE TransactionalSend ------------------------
(***************************************************************************)
(* POST /emails/send of one workspace: TransactionalService.sendEmail with *)
(* the idempotency cache, the email quota (BillingService.getUsage and     *)
(* recordUsage with the cached usage snapshot) and the queue, as           *)
(* concurrent requests that use one idempotency key or none.               *)
(*                                                                         *)
(* A request is cut at its awaits.  Its send, its row, its job and its     *)
(* sendId are named by the request.  The checks of the sender's domain and *)
(* of the template can only reject; they are the action Reject, as is a    *)
(* call that throws before anything but the key was written.  One billing  *)
(* period, one plan.                                                       *)
(***************************************************************************)
EXTENDS Naturals, FiniteSets

CONSTANTS
  Request,       \* HTTP requests, each made once
  Body,          \* request bodies, up to their hash
  Limit,         \* PLAN_QUOTAS[plan].emails
  Infinity,      \* Number.POSITIVE_INFINITY
  None,          \* null
  MaxExpiries,   \* bound: times the key reaches its TTL
  Faults         \* "overlap": requests run concurrently
                 \* "outage": a Redis or database call throws
                 \* "nack": the publish throws, nothing is stored
                 \* "timeout": the publish throws, the job is stored
                 \* "crash": the API process stops inside a request

ASSUME TransactionalAssumption ==
  /\ None \notin Request /\ None \notin Body
  /\ Infinity \notin Nat
  /\ Limit \in Nat \union {Infinity}
  /\ MaxExpiries \in Nat
  /\ Faults \subseteq {"overlap", "outage", "nack", "timeout", "crash"}

VARIABLES
  body,       \* body[r], None if the request has no idempotency key
  pc,         \* pc[r], the await request r stands at
  local,      \* local[r], what it holds across its awaits
  answer,     \* answer[r], the sendId of its 202
  idem,       \* the Redis record idempotency:<workspace>:<key>
  era,        \* times it has expired
  snapshot,   \* the Redis record billing:usage:<workspace>
  sends,      \* email_sends
  published,  \* jobs in the stream
  metered,    \* the sends usage_counters has counted
  history     \* how far a granted quota check ever was behind, whether a
              \* deletion of the snapshot was ever lost

vars == <<body, pc, local, answer, idem, era, snapshot, sends, published, metered, history>>

Step ==
  {"new", "lookup", "usage", "count", "fill", "insert", "publish", "rollback",
   "record", "invalidate", "store", "accepted", "replayed", "conflict",
   "quota", "error", "crashed"}

Over == {"accepted", "replayed", "conflict", "quota", "error", "crashed"}

\* used: the usage that was counted.  era, basis and stored are history: in
\* which life of the key it was looked up, what the lookup found, whether an
\* answer was stored in that life when the request arrived.
Local ==
  [used: Nat, era: Nat, basis: {"none", "reserved", "pending", "expired"}, stored: BOOLEAN]

Record == [body: Body \union {None}, answer: Request \union {None}]
NoRecord == [body |-> None, answer |-> None]

\* late (history): more was counted by the time the snapshot was written.
Snapshot == [present: BOOLEAN, used: Nat, limit: Nat, late: BOOLEAN]
NoSnapshot == [present |-> FALSE, used |-> 0, limit |-> 0, late |-> FALSE]

Usage == Cardinality(metered)

Init ==
  /\ body \in [Request -> Body \union {None}]
  /\ pc = [r \in Request |-> "new"]
  /\ local = [r \in Request |-> [used |-> 0, era |-> 0, basis |-> "none", stored |-> FALSE]]
  /\ answer = [r \in Request |-> None]
  /\ idem = NoRecord
  /\ era = 0
  /\ snapshot = NoSnapshot
  /\ sends = {} /\ published = {} /\ metered = {}
  /\ history = [slack |-> 0, lost |-> FALSE]

redis == <<idem, era, snapshot>>
tables == <<sends, published, metered>>

Goto(r, s) == pc' = [pc EXCEPT ![r] = s]

Answer(r, s, id) == Goto(r, s) /\ answer' = [answer EXCEPT ![r] = id]

--------------------------------------------------------------------------
(* IdempotencyCache *)

MayArrive(r) ==
  /\ pc[r] = "new"
  /\ "overlap" \in Faults \/ \A q \in Request : pc[q] \in Over \union {"new"}

Note(r, basis) ==
  local' = [local EXCEPT ![r] =
    [@ EXCEPT !.era = era, !.basis = basis, !.stored = idem.answer # None]]

\* Mutant of Reserve: SET without NX.
Reserve_Overwrites(r) ==
  /\ MayArrive(r)
  /\ body[r] # None
  /\ idem' = [body |-> body[r], answer |-> None]
  /\ Note(r, "reserved")
  /\ Goto(r, "usage")
  /\ UNCHANGED <<body, answer, era, snapshot, tables, history>>

\* SET ... NX.
Reserve(r) ==
  /\ MayArrive(r)
  /\ body[r] # None
  /\ IF idem = NoRecord
     THEN /\ idem' = [body |-> body[r], answer |-> None]
          /\ Note(r, "reserved")
          /\ Goto(r, "usage")
     ELSE /\ Note(r, "none")
          /\ Goto(r, "lookup")
          /\ UNCHANGED idem
  /\ UNCHANGED <<body, answer, era, snapshot, tables, history>>

NoKey(r) ==
  /\ MayArrive(r)
  /\ body[r] = None
  /\ Goto(r, "usage")
  /\ UNCHANGED <<body, local, answer, redis, tables, history>>

Miss(r, basis) ==
  /\ local' = [local EXCEPT ![r] =
       [@ EXCEPT !.basis = basis, !.era = era,
                 !.stored = local[r].stored /\ local[r].era = era]]
  /\ Goto(r, "usage")
  /\ UNCHANGED answer

\* Mutant of Lookup: the body is not compared.
Lookup_AnyBody(r) ==
  /\ pc[r] = "lookup"
  /\ \/ idem = NoRecord /\ Miss(r, "expired")
     \/ idem # NoRecord /\ idem.answer # None /\ Answer(r, "replayed", idem.answer) /\ UNCHANGED local
     \/ idem # NoRecord /\ idem.answer = None /\ Miss(r, "pending")
  /\ UNCHANGED <<body, redis, tables, history>>

\* GET.  A hit that has no response yet is taken for a miss.
Lookup(r) ==
  /\ pc[r] = "lookup"
  /\ \/ idem = NoRecord /\ Miss(r, "expired")
     \/ idem # NoRecord /\ idem.body # body[r] /\ Goto(r, "conflict") /\ UNCHANGED <<local, answer>>
     \/ /\ idem.body = body[r]
        /\ idem.answer # None
        /\ Answer(r, "replayed", idem.answer)
        /\ UNCHANGED local
     \/ idem.body = body[r] /\ idem.answer = None /\ Miss(r, "pending")
  /\ UNCHANGED <<body, redis, tables, history>>

--------------------------------------------------------------------------
(* BillingService: hasQuotaRemaining(emails, 1) *)

\* Checked and not counted yet.
Pending == {r \in Request : pc[r] \in {"insert", "publish", "record"}}

\* Mutant of Fits: the last unit is granted twice.
Fits_OffByOne(used, limit) == limit = Infinity \/ used <= limit

Fits(used, limit) == limit = Infinity \/ used + 1 <= limit

Decide(r, used, limit) ==
  LET behind == Usage + Cardinality(Pending) - used IN
  IF Fits(used, limit)
  THEN /\ Goto(r, "insert")
       /\ history' = [history EXCEPT !.slack = IF behind > @ THEN behind ELSE @]
  ELSE Goto(r, "quota") /\ UNCHANGED history

\* JSON has no Infinity: it is written as null, and null - used is -used.
Serialized(limit) == IF limit = Infinity THEN 0 ELSE limit

\* A Redis error counts as a cache miss.
ReadSnapshot(r) ==
  /\ pc[r] = "usage"
  /\ \/ snapshot.present /\ Decide(r, snapshot.used, snapshot.limit)
     \/ /\ ~ snapshot.present \/ "outage" \in Faults
        /\ Goto(r, "count")
        /\ UNCHANGED history
  /\ UNCHANGED <<body, local, answer, redis, tables>>

CountUsage(r) ==
  /\ pc[r] = "count"
  /\ local' = [local EXCEPT ![r].used = Usage]
  /\ Goto(r, "fill")
  /\ UNCHANGED <<body, answer, redis, tables, history>>

FillSnapshot(r) ==
  LET used == local[r].used IN
  /\ pc[r] = "fill"
  /\ \/ snapshot' = [present |-> TRUE, used |-> used, limit |-> Serialized(Limit), late |-> used # Usage]
     \/ "outage" \in Faults /\ UNCHANGED snapshot
  /\ Decide(r, used, Limit)
  /\ UNCHANGED <<body, local, answer, idem, era, tables>>

\* Another check of the request fails, or a call throws.
Reject(r) ==
  /\ pc[r] \in {"usage", "insert"}
  /\ Goto(r, "error")
  /\ UNCHANGED <<body, local, answer, redis, tables, history>>

--------------------------------------------------------------------------
(* TransactionalService *)

\* Mutant of InsertSend: usage is recorded together with the row.
InsertSend_Meters(r) ==
  /\ pc[r] = "insert"
  /\ sends' = sends \union {r}
  /\ metered' = metered \union {r}
  /\ Goto(r, "publish")
  /\ UNCHANGED <<body, local, answer, redis, published, history>>

InsertSend(r) ==
  /\ pc[r] = "insert"
  /\ sends' = sends \union {r}
  /\ Goto(r, "publish")
  /\ UNCHANGED <<body, local, answer, redis, published, metered, history>>

Publish(r) ==
  /\ pc[r] = "publish"
  /\ \/ published' = published \union {r} /\ Goto(r, "record")
     \/ "timeout" \in Faults /\ published' = published \union {r} /\ Goto(r, "rollback")
     \/ "nack" \in Faults /\ UNCHANGED published /\ Goto(r, "rollback")
  /\ UNCHANGED <<body, local, answer, redis, sends, metered, history>>

\* The row is deleted again, unless that throws as well.
Rollback(r) ==
  /\ pc[r] = "rollback"
  /\ \/ sends' = sends \ {r}
     \/ "outage" \in Faults /\ UNCHANGED sends
  /\ Goto(r, "error")
  /\ UNCHANGED <<body, local, answer, redis, published, metered, history>>

\* Mutant of RecordUsage: its errors are swallowed.
RecordUsage_Swallows(r) ==
  /\ pc[r] = "record"
  /\ \/ metered' = metered \union {r}
     \/ "outage" \in Faults /\ UNCHANGED metered
  /\ Goto(r, "invalidate")
  /\ UNCHANGED <<body, local, answer, redis, sends, published, history>>

\* INSERT ... ON CONFLICT DO UPDATE usage_count + 1.  An error is answered
\* 500, whether or not the statement took effect.
RecordUsage(r) ==
  /\ pc[r] = "record"
  /\ \/ /\ metered' = metered \union {r}
        /\ Goto(r, "invalidate")
        /\ UNCHANGED history
     \/ /\ "outage" \in Faults
        /\ \/ UNCHANGED <<metered, history>>
           \/ metered' = metered \union {r} /\ history' = [history EXCEPT !.lost = TRUE]
        /\ Goto(r, "error")
  /\ UNCHANGED <<body, local, answer, redis, sends, published>>

AfterRecord(r) ==
  IF body[r] = None THEN Answer(r, "accepted", r) ELSE Goto(r, "store") /\ UNCHANGED answer

\* Mutant of Invalidate: the snapshot stays.
Invalidate_Keeps(r) ==
  /\ pc[r] = "invalidate"
  /\ AfterRecord(r)
  /\ UNCHANGED <<body, local, redis, tables, history>>

\* DEL; an error is swallowed.
Invalidate(r) ==
  /\ pc[r] = "invalidate"
  /\ \/ snapshot' = NoSnapshot /\ UNCHANGED history
     \/ /\ "outage" \in Faults
        /\ history' = [history EXCEPT !.lost = TRUE]
        /\ UNCHANGED snapshot
  /\ AfterRecord(r)
  /\ UNCHANGED <<body, local, idem, era, tables>>

\* SET, whoever holds the key by now; an error is only logged.
StoreResponse(r) ==
  /\ pc[r] = "store"
  /\ \/ idem' = [body |-> body[r], answer |-> r]
     \/ "outage" \in Faults /\ UNCHANGED idem
  /\ Answer(r, "accepted", r)
  /\ UNCHANGED <<body, local, era, snapshot, tables, history>>

--------------------------------------------------------------------------
Crash(r) ==
  /\ "crash" \in Faults
  /\ pc[r] \notin Over \union {"new"}
  /\ Goto(r, "crashed")
  /\ history' = [history EXCEPT !.lost = @ \/ pc[r] = "invalidate"]
  /\ UNCHANGED <<body, local, answer, redis, tables>>

\* 24 hours.
KeyExpires ==
  /\ idem # NoRecord
  /\ era < MaxExpiries
  /\ idem' = NoRecord
  /\ era' = era + 1
  /\ UNCHANGED <<body, pc, local, answer, snapshot, tables, history>>

\* 30 seconds, or a Stripe webhook of the workspace deletes it.
SnapshotExpires ==
  /\ snapshot.present
  /\ snapshot' = NoSnapshot
  /\ UNCHANGED <<body, pc, local, answer, idem, era, tables, history>>

Handle(r) ==
  \/ Reserve(r) \/ NoKey(r) \/ Lookup(r)
  \/ ReadSnapshot(r) \/ CountUsage(r) \/ FillSnapshot(r) \/ Reject(r)
  \/ InsertSend(r) \/ Publish(r) \/ Rollback(r)
  \/ RecordUsage(r) \/ Invalidate(r) \/ StoreResponse(r)

Next ==
  \/ \E r \in Request : Handle(r) \/ Crash(r)
  \/ KeyExpires \/ SnapshotExpires

Spec == Init /\ [][Next]_vars

--------------------------------------------------------------------------
TypeOK ==
  /\ body \in [Request -> Body \union {None}]
  /\ pc \in [Request -> Step]
  /\ local \in [Request -> Local]
  /\ answer \in [Request -> Request \union {None}]
  /\ idem \in Record /\ (idem.body = None => idem.answer = None)
  /\ era \in 0 .. MaxExpiries
  /\ snapshot \in Snapshot
  /\ sends \subseteq Request
  /\ metered \subseteq published /\ published \subseteq Request
  /\ history \in [slack: Nat, lost: BOOLEAN]

\* Every sendId that a 202 carries, a replayed one too, and every sendId
\* stored for replay is a send with the body of the request, whose row is
\* there, whose job is queued and which is metered.
AcceptedIsReal ==
  \A r \in Request, id \in Request :
    answer[r] = id \/ (idem.answer = id /\ idem.body = body[r]) =>
      /\ id \in sends \intersect metered
      /\ body[id] = body[r]

\* Requests that went on to send under the key, knowing its record.
Sender(r) == body[r] # None /\ local[r].basis \in {"reserved", "pending"}

\* A retry that arrives when the answer is stored is never queued again, and
\* never overwrites it.
NoRequeue == \A r \in Request : Sender(r) => ~ local[r].stored

\* During one life of the key, everything sent under it has one body.
OneBody ==
  \A r, q \in Request :
    Sender(r) /\ Sender(q) /\ local[r].era = local[q].era => body[r] = body[q]

\* The cached usage differs from the counter only while its deletion is on
\* the way, or if that was lost, or if the reader that wrote the snapshot had
\* counted before the last increment.
SnapshotFresh ==
  snapshot.present /\ snapshot.used # Usage =>
    \/ snapshot.late
    \/ history.lost
    \/ \E r \in Request : pc[r] = "invalidate"

\* Usage outgrows the limit by no more than a granted check was behind: by
\* what others had been granted or a stale snapshot concealed.
QuotaBound == Limit # Infinity => Usage + Cardinality(Pending) <= Limit + history.slack

--------------------------------------------------------------------------
(* Statements of the documentation and comments. *)

\* "... remember the response payload so retries return the same
\* sendId/status without re-queuing" (idempotency.ts:9).
Idempotent ==
  \A r, q \in published :
    r # q => ~ (Sender(r) /\ Sender(q) /\ local[r].era = local[q].era)

\* enterprise "must get unlimited quotas" (plan-limits.ts:197).
EnterpriseUnlimited == Limit = Infinity => \A r \in Request : pc[r] # "quota"
==========================================================================
