----------------------------- MODULE Segments ------------------------------
(***************************************************************************)
(* One segment of contacts: SegmentService edits it and asks for a refresh *)
(* by a core NATS message, which reaches each segment worker that listens  *)
(* at that moment; SegmentRefreshProcessor, in each worker, recomputes the *)
(* members of a dynamic segment.  Nothing orders the two but the message.  *)
(*                                                                         *)
(* The contacts and their attributes do not change.  The plan's limit on   *)
(* segments is in PlanLimits.                                              *)
(***************************************************************************)
EXTENDS Handlers, Naturals, Sequences, FiniteSets

CONSTANTS
  Contact,
  Worker,     \* processes of segment-worker.ts
  Rule,       \* groups and conditions, closed under the rules of a group
  Filter,     \* the groups that requests have as filterTree
  NoFilter    \* the filterTree {} of a static segment

VARIABLES
  segment,    \* the segments row
  members,    \* the contacts with a segment_memberships row
  inbox,      \* inbox[w], how many refresh messages worker w has not taken
  worker,     \* worker[w], what worker w is doing
  segmentHistory

segmentState == <<segment, members, inbox, worker, segmentHistory>>
segmentVars == <<segmentState, pc, local>>

--------------------------------------------------------------------------
(* Filter trees.  A group has an operator and rules; a rule is a set of     *)
(* contacts (the condition it compiles to), "dropped" (an unknown field or  *)
(* operator, an empty list, days that are no positive number) or "throws"   *)
(* (a malformed event name or property key).                                *)

IsGroup(rule) == "rules" \in DOMAIN rule

\* buildRuleCondition: what the compilation of a single rule can return.
Condition == [kind: {"set"}, matches: SUBSET Contact] \union [kind: {"dropped", "throws"}]

\* Each rule of a group is a rule, and a filter tree is finite: of any rules,
\* one has none of them below it.
ASSUME RulesAssumption ==
  /\ \A rule \in Rule : IF IsGroup(rule) THEN \A i \in DOMAIN rule.rules : rule.rules[i] \in Rule
                         ELSE rule \in Condition
  /\ \A S \in SUBSET Rule : S # {} =>
       \E rule \in S : IsGroup(rule) => \A i \in DOMAIN rule.rules : rule.rules[i] \notin S
  /\ Filter \subseteq Rule

ASSUME ContactsAssumption == IsFiniteSet(Contact)

\* buildWhereClause: no condition at all matches everyone.
Conditions(group, where) ==
  {where[group.rules[i]] : i \in DOMAIN group.rules} \ {[kind |-> "dropped"]}

Where[rule \in Rule] ==
  IF ~ IsGroup(rule) THEN rule
  ELSE LET conditions == Conditions(rule, Where)
           sets == {c.matches : c \in conditions}
       IN
       IF [kind |-> "throws"] \in conditions THEN [kind |-> "throws"]
       ELSE IF conditions = {} THEN [kind |-> "dropped"]
       ELSE [kind |-> "set",
             matches |-> IF rule.operator = "AND" THEN {c \in Contact : \A s \in sets : c \in s}
                         ELSE UNION sets]

Throws(filter) == Where[filter].kind = "throws"
QueryContacts(filter) == IF Where[filter].kind = "set" THEN Where[filter].matches ELSE Contact

--------------------------------------------------------------------------
Row ==
  [exists: BOOLEAN, type: {"static", "dynamic"}, filter: Filter \union {NoFilter},
   status: {"pending", "computing", "ready", "failed"}, count: 0 .. Cardinality(Contact)]

\* filter: read with the row; seen: the membership rows its DELETE removes.
IdleWorker == [at |-> "idle", filter |-> NoFilter, seen |-> {}]
Down == [IdleWorker EXCEPT !.at = "down"]
WorkerState ==
  [at: {"down", "idle", "mark", "query", "insert", "finish", "fail"},
   filter: Filter \union {NoFilter}, seen: SUBSET Contact]

\* patch: the fields an update sets; type: of the row it read.
SegmentLocal ==
  [op: {"update"}, patch: [type: {"same", "static", "dynamic"}, filter: Filter \union {NoFilter}],
   type: {"static", "dynamic"}]
    \union [op: {"add", "remove"}, contact: Contact, count: 0 .. Cardinality(Contact)]

\* lost: a refresh message did not reach a worker, or was dropped by a crash;
\* raced: an update wrote a status for a type that was not the row's any
\* more, or a member was written by hand into a dynamic segment; overtaken:
\* contactCount was written after the members had changed again.
SegmentHistory == [lost: BOOLEAN, raced: BOOLEAN, overtaken: BOOLEAN]

SegmentInit ==
  /\ HandlersInit
  /\ segment = [exists |-> FALSE, type |-> "static", filter |-> NoFilter,
                status |-> "pending", count |-> 0]
  /\ members = {}
  /\ inbox = [w \in Worker |-> 0]
  /\ worker = [w \in Worker |-> IdleWorker]
  /\ segmentHistory = [lost |-> FALSE, raced |-> FALSE, overtaken |-> FALSE]

--------------------------------------------------------------------------
Note(what, happened) == [segmentHistory EXCEPT ![what] = @ \/ happened]

\* UPDATE ... WHERE id AND deleted_at IS NULL.
Update(row) == segment' = IF segment.exists THEN row ELSE segment

Up(w) == worker[w].at # "down"

\* enqueueRefresh: a message nobody listens to is gone; a failed publish is
\* logged.
EnqueueRefresh(raced) ==
  \/ /\ inbox' = [w \in Worker |-> IF Up(w) THEN inbox[w] + 1 ELSE inbox[w]]
     /\ segmentHistory' = [segmentHistory EXCEPT !.lost = @ \/ \A w \in Worker : ~ Up(w), !.raced = @ \/ raced]
  \/ /\ Faults # {}
     /\ segmentHistory' = [segmentHistory EXCEPT !.lost = TRUE, !.raced = @ \/ raced]
     /\ UNCHANGED inbox

CreateSegment(type, filter) ==
  /\ ~ segment.exists /\ segment.status = "pending"    \* once
  /\ type = "dynamic" <=> filter # NoFilter
  /\ segment' = [exists |-> TRUE, type |-> type, filter |-> filter, count |-> 0,
                 status |-> IF type = "static" THEN "ready" ELSE "pending"]
  /\ IF type = "dynamic" THEN EnqueueRefresh(FALSE) ELSE UNCHANGED <<inbox, segmentHistory>>
  /\ UNCHANGED <<members, worker, pc, local>>

UpdateRead(r, patch) ==
  /\ pc[r] = "new"
  /\ segment.exists
  /\ Go(r, [op |-> "update", patch |-> patch, type |-> segment.type], "update")
  /\ UNCHANGED <<segment, members, inbox, worker, segmentHistory>>

\* The status, and whether a refresh is asked for, follow the type that was
\* read unless the patch has one.
UpdateWrite(r) ==
  LET patch == local[r].patch
      type == IF patch.type = "same" THEN local[r].type ELSE patch.type
  IN
  /\ pc[r] = "update"
  /\ Update([segment EXCEPT
       !.type = IF patch.type = "same" THEN @ ELSE patch.type,
       !.filter = IF patch.filter = NoFilter THEN @ ELSE patch.filter,
       !.status = IF type = "static" THEN "ready" ELSE "pending"])
  /\ IF type = "dynamic" /\ segment.exists
     THEN EnqueueRefresh(segment.type # type /\ patch.type = "same")
     ELSE segmentHistory' = Note("raced", segment'.type # type) /\ UNCHANGED inbox
  /\ Return(r, "done")
  /\ UNCHANGED <<members, worker>>

\* The row is gone for the handlers; its memberships stay.
DeleteSegment(r) ==
  /\ pc[r] = "new"
  /\ segment.exists
  /\ segment' = [segment EXCEPT !.exists = FALSE, !.status = "ready"]
  /\ Return(r, "done")
  /\ UNCHANGED <<members, inbox, worker, segmentHistory>>

\* Whatever the type: a static segment is left pending.
RefreshSegment(r) ==
  /\ pc[r] = "new"
  /\ segment.exists
  /\ segment' = [segment EXCEPT !.status = "pending"]
  /\ EnqueueRefresh(FALSE)
  /\ Return(r, "done")
  /\ UNCHANGED <<members, worker>>

--------------------------------------------------------------------------
(* addContactToSegment, removeContactFromSegment: find the segment; write   *)
(* the member; count the members; write the count.                          *)

MemberFind(r, op, c) ==
  /\ pc[r] = "new"
  /\ segment.exists /\ segment.type = "static"
  /\ Go(r, [op |-> op, contact |-> c, count |-> 0], "member")
  /\ UNCHANGED <<segment, members, inbox, worker, segmentHistory>>

\* A row that was deleted, or inserted again, is not the one a running
\* DELETE of a worker has seen.
Unseen(rows) == [w \in Worker |-> [worker[w] EXCEPT !.seen = @ \ rows]]

MemberWrite(r) ==
  LET c == local[r].contact IN
  /\ pc[r] = "member"
  /\ members' = IF local[r].op = "add" THEN members \union {c} ELSE members \ {c}
  /\ worker' = IF c \in members' THEN worker ELSE Unseen({c})
  /\ segmentHistory' = Note("raced", segment.type = "dynamic")
  /\ Goto(r, "count")
  /\ UNCHANGED <<segment, inbox>>

MemberCount(r) ==
  /\ pc[r] = "count"
  /\ Go(r, [local[r] EXCEPT !.count = Cardinality(members)], "count.write")
  /\ UNCHANGED <<segment, members, inbox, worker, segmentHistory>>

MemberFinish(r) ==
  LET count == local[r].count IN
  /\ pc[r] = "count.write"
  /\ Update([segment EXCEPT !.count = count,
       !.status = IF local[r].op = "add" THEN "ready" ELSE @])
  /\ segmentHistory' = [segmentHistory EXCEPT !.raced = @ \/ segment.type = "dynamic",
                                !.overtaken = @ \/ count # Cardinality(members)]
  /\ Return(r, "done")
  /\ UNCHANGED <<members, inbox, worker>>

\* A member written and not counted, or an update not followed by its message.
FailRequest(r) ==
  /\ Stop(r)
  /\ segmentHistory' = Note("overtaken", pc[r] \in {"count", "count.write"})
  /\ UNCHANGED <<segment, members, inbox, worker>>

--------------------------------------------------------------------------
(* The worker: one message after the other, processRefresh.                 *)

Set(w, state) == worker' = [worker EXCEPT ![w] = state]
To(w, s) == Set(w, [worker[w] EXCEPT !.at = s])

Receive(w) ==
  /\ worker[w].at = "idle" /\ inbox[w] > 0
  /\ inbox' = [inbox EXCEPT ![w] = @ - 1]
  /\ IF segment.exists /\ segment.type = "dynamic"
     THEN Set(w, [IdleWorker EXCEPT !.at = "mark", !.filter = segment.filter])
     ELSE UNCHANGED worker
  /\ UNCHANGED <<segment, members, pc, local, segmentHistory>>

Mark(w) ==
  /\ worker[w].at = "mark"
  /\ Update([segment EXCEPT !.status = "computing"])
  /\ To(w, "query")
  /\ UNCHANGED <<members, inbox, pc, local, segmentHistory>>

\* queryContacts, and the DELETE that opens the transaction.
Query(w) ==
  /\ worker[w].at = "query"
  /\ IF worker[w].filter = NoFilter \/ Throws(worker[w].filter)
     THEN To(w, "fail")
     ELSE Set(w, [worker[w] EXCEPT !.at = "insert", !.seen = members])
  /\ UNCHANGED <<segment, members, inbox, pc, local, segmentHistory>>

\* Mutant of Insert: the old members are not deleted.
Insert_Merges(w) ==
  /\ worker[w].at = "insert"
  /\ members' = members \union QueryContacts(worker[w].filter)
  /\ To(w, "finish")
  /\ UNCHANGED <<segment, inbox, pc, local, segmentHistory>>

\* INSERT ... ON CONFLICT DO NOTHING, and the commit.  At READ COMMITTED the
\* DELETE left the rows that a replacement committed meanwhile had inserted.
Insert(w) ==
  LET seen == worker[w].seen IN
  /\ worker[w].at = "insert"
  /\ members' = (members \ seen) \union QueryContacts(worker[w].filter)
  /\ worker' = [Unseen(seen) EXCEPT ![w] = [worker[w] EXCEPT !.at = "finish", !.seen = {}]]
  /\ UNCHANGED <<segment, inbox, pc, local, segmentHistory>>

\* Whatever the row's filter and status are by now.
Finish(w) ==
  LET found == Cardinality(QueryContacts(worker[w].filter)) IN
  /\ worker[w].at = "finish"
  /\ Update([segment EXCEPT !.status = "ready", !.count = found])
  /\ segmentHistory' = Note("overtaken", found # Cardinality(members))
  /\ Set(w, IdleWorker)
  /\ UNCHANGED <<members, inbox, pc, local>>

Failed(w) ==
  /\ worker[w].at = "fail"
  /\ Update([segment EXCEPT !.status = "failed"])
  /\ Set(w, IdleWorker)
  /\ UNCHANGED <<members, inbox, pc, local, segmentHistory>>

\* A database call of the refresh throws: caught.
QueryThrows(w) ==
  /\ "outage" \in Faults
  /\ worker[w].at \in {"query", "insert"}
  /\ To(w, "fail")
  /\ segmentHistory' = Note("lost", TRUE)
  /\ UNCHANGED <<segment, members, inbox, pc, local>>

WorkerCrash(w) ==
  /\ "crash" \in Faults
  /\ Up(w)
  /\ Set(w, Down)
  /\ inbox' = [inbox EXCEPT ![w] = 0]
  /\ segmentHistory' = Note("lost", worker[w].at # "idle" \/ inbox[w] > 0)
  /\ UNCHANGED <<segment, members, pc, local>>

WorkerStart(w) ==
  /\ ~ Up(w)
  /\ Set(w, IdleWorker)
  /\ UNCHANGED <<segment, members, inbox, pc, local, segmentHistory>>

SegmentRequest(r) ==
  \/ \E type \in {"same", "static", "dynamic"}, f \in Filter \union {NoFilter} :
       UpdateRead(r, [type |-> type, filter |-> f])
  \/ UpdateWrite(r) \/ DeleteSegment(r) \/ RefreshSegment(r)
  \/ \E c \in Contact, op \in {"add", "remove"} : MemberFind(r, op, c)
  \/ MemberWrite(r) \/ MemberCount(r) \/ MemberFinish(r) \/ FailRequest(r)

SegmentWorker(w) ==
  \/ Receive(w) \/ Mark(w) \/ Query(w) \/ Insert(w) \/ Finish(w) \/ Failed(w)
  \/ QueryThrows(w) \/ WorkerCrash(w) \/ WorkerStart(w)

SegmentNext ==
  \/ \E type \in {"static", "dynamic"}, f \in Filter \union {NoFilter} : CreateSegment(type, f)
  \/ \E r \in Request : SegmentRequest(r)
  \/ \E w \in Worker : SegmentWorker(w)

SegmentSpec == SegmentInit /\ [][SegmentNext]_segmentVars

--------------------------------------------------------------------------
\* Types; a worker that refreshes has read a filter.
SegmentTypeOK ==
  /\ segment \in Row
  /\ members \subseteq Contact
  /\ inbox \in [Worker -> Nat]
  /\ worker \in [Worker -> WorkerState]
  /\ pc \in [Request -> {"new", "update", "member", "count", "count.write", "done", "failed"}]
  /\ local \in [Request -> SegmentLocal \union {Nothing}]
  /\ segmentHistory \in SegmentHistory

SegmentSettled ==
  /\ \A r \in Request : Idle(r)
  /\ \A w \in Worker : inbox[w] = 0 /\ worker[w].at \in {"idle", "down"}

\* Once every message is handled, a dynamic segment is ready with exactly the
\* contacts its current filter selects, or failed if the filter is malformed:
\* however edits and the refreshes of several workers overlapped, unless a
\* message or a refresh was lost or the type changed under a handler.  The
\* count of a static segment is that of its members, unless they changed
\* between the counting and the write of the count.
SegmentConverges ==
  SegmentSettled /\ segment.exists =>
    /\ segment.type = "dynamic" /\ ~ segmentHistory.lost /\ ~ segmentHistory.raced =>
         IF segment.filter = NoFilter \/ Throws(segment.filter) THEN segment.status = "failed"
         ELSE /\ segment.status = "ready"
              /\ members = QueryContacts(segment.filter)
              /\ segment.count = Cardinality(members)
    /\ segment.type = "static" /\ ~ segmentHistory.lost /\ ~ segmentHistory.raced /\ ~ segmentHistory.overtaken =>
         segment.count = Cardinality(members)
==========================================================================
