------------------------------- MODULE Events ------------------------------
(***************************************************************************)
(* Ingestion of events of one workspace (EventService.track, identify,     *)
(* page, group, alias): a write key, a rate limit by counters in Redis, a  *)
(* row, a message on JetStream, and the usage.  The row is deleted when    *)
(* the message cannot be published.  The quota check and its cache are the *)
(* subject of TransactionalSend; here it passes or refuses.                *)
(***************************************************************************)
EXTENDS Handlers, Naturals, FiniteSets

CONSTANTS
  WriteKey,   \* active api_keys rows of the workspace at the start
  RateLimit   \* RateLimit[k]: rate_limit of key k, per window

ASSUME RateLimitAssumption == RateLimit \in [WriteKey -> Nat \ {0}]

VARIABLES
  activeKeys,   \* the keys that are not revoked
  counter,      \* of the window: counter.ws and counter.key[k]
  events,       \* events[r]: has request r a row, a message on the stream
  metered,      \* usage_counters, metric events
  eventHistory

eventState == <<activeKeys, counter, events, metered, eventHistory>>
eventVars == <<eventState, pc, local>>

EventRow == [row: BOOLEAN, queued: BOOLEAN]
EventLocal == [op: {"event"}, key: WriteKey]
NoCount == [ws |-> 0, key |-> [k \in WriteKey |-> 0]]

\* admitted[k]: requests of the window that the counters let through;
\* accepted: requests answered 202; failed: those that ended otherwise after
\* their row was inserted;
\* unacked: messages stored although publish failed; stranded: rows whose
\* request stopped, or whose deletion failed.
EventHistory ==
  [admitted: [WriteKey -> Nat], accepted: SUBSET Request, failed: SUBSET Request,
   unacked: SUBSET Request, stranded: SUBSET Request]

EventInit ==
  /\ HandlersInit
  /\ activeKeys = WriteKey
  /\ counter = NoCount
  /\ events = [r \in Request |-> [row |-> FALSE, queued |-> FALSE]]
  /\ metered = 0
  /\ eventHistory = [admitted |-> [k \in WriteKey |-> 0], accepted |-> {}, failed |-> {},
                     unacked |-> {}, stranded |-> {}]

--------------------------------------------------------------------------
\* The key, its scope, and the workspace's status.
ResolveWriteKey(r, k) ==
  /\ pc[r] = "new"
  /\ k \in activeKeys
  /\ Go(r, [op |-> "event", key |-> k], "event.limit")
  /\ UNCHANGED <<activeKeys, counter, events, metered, eventHistory>>

\* INCR of the workspace's and the key's counter, both against the limit of
\* the key.  The counter of the IP, with at least twice that limit, refuses
\* only a caller of several workspaces.  A refused request stays counted.
EnforceRateLimit(r) ==
  LET k == local[r].key
      counted == [counter EXCEPT !.ws = @ + 1, !.key[k] = @ + 1]
      admit == counted.ws <= RateLimit[k] /\ counted.key[k] <= RateLimit[k]
  IN
  /\ pc[r] = "event.limit"
  /\ counter' = counted
  /\ eventHistory' = IF admit THEN [eventHistory EXCEPT !.admitted[k] = @ + 1] ELSE eventHistory
  /\ IF admit THEN Goto(r, "event.quota") ELSE Return(r, "failed")
  /\ UNCHANGED <<activeKeys, events, metered>>

\* Without Redis nothing is counted and everything admitted.
RateLimitOpen(r) ==
  /\ pc[r] = "event.limit"
  /\ "outage" \in Faults
  /\ Goto(r, "event.quota")
  /\ UNCHANGED <<activeKeys, counter, events, metered, eventHistory>>

\* hasQuotaRemaining, in each of the five endpoints.
CheckQuota(r, remaining) ==
  /\ pc[r] = "event.quota"
  /\ IF remaining THEN Goto(r, "event.insert") ELSE Return(r, "failed")
  /\ UNCHANGED <<activeKeys, counter, events, metered, eventHistory>>

\* A schema in hard mode refuses; what one in soft mode finds is stored with
\* the row.
ViolatesSchema(r) ==
  /\ pc[r] = "event.insert"
  /\ Return(r, "failed")
  /\ UNCHANGED <<activeKeys, counter, events, metered, eventHistory>>

InsertEvent(r) ==
  /\ pc[r] = "event.insert"
  /\ events' = [events EXCEPT ![r].row = TRUE]
  /\ Goto(r, "event.publish")
  /\ UNCHANGED <<activeKeys, counter, metered, eventHistory>>

PublishEvent(r) ==
  /\ pc[r] = "event.publish"
  /\ events' = [events EXCEPT ![r].queued = TRUE]
  /\ Goto(r, "event.usage")
  /\ UNCHANGED <<activeKeys, counter, metered, eventHistory>>

\* js.publish throws: the message was not stored, or its acknowledgement
\* was lost.
PublishEventFails(r, stored) ==
  /\ pc[r] = "event.publish"
  /\ "outage" \in Faults
  /\ events' = [events EXCEPT ![r].queued = stored]
  /\ eventHistory' = IF stored THEN [eventHistory EXCEPT !.unacked = @ \union {r}] ELSE eventHistory
  /\ Goto(r, "event.delete")
  /\ UNCHANGED <<activeKeys, counter, metered>>

\* Mutant of DeleteEvent: the row is left behind.
DeleteEvent_Not(r) ==
  /\ pc[r] = "event.delete"
  /\ eventHistory' = [eventHistory EXCEPT !.failed = @ \union {r}]
  /\ Return(r, "failed")
  /\ UNCHANGED <<activeKeys, counter, events, metered>>

DeleteEvent(r) ==
  /\ pc[r] = "event.delete"
  /\ events' = [events EXCEPT ![r].row = FALSE]
  /\ eventHistory' = [eventHistory EXCEPT !.failed = @ \union {r}]
  /\ Return(r, "failed")
  /\ UNCHANGED <<activeKeys, counter, metered>>

RecordEventUsage(r) ==
  /\ pc[r] = "event.usage"
  /\ metered' = metered + 1
  /\ eventHistory' = [eventHistory EXCEPT !.accepted = @ \union {r}]
  /\ Return(r, "done")
  /\ UNCHANGED <<activeKeys, counter, events>>

\* A crash, or an error of the database, the deletion's own included.
FailEvent(r) ==
  /\ Stop(r)
  /\ eventHistory' = IF events[r].row
                     THEN [eventHistory EXCEPT !.failed = @ \union {r}, !.stranded = @ \union {r}]
                     ELSE eventHistory
  /\ UNCHANGED <<activeKeys, counter, events, metered>>

NextWindow ==
  /\ counter # NoCount
  /\ counter' = NoCount
  /\ eventHistory' = [eventHistory EXCEPT !.admitted = NoCount.key]
  /\ UNCHANGED <<activeKeys, events, metered, pc, local>>

\* revokeApiKey; requests that have resolved the key go on.
RevokeWriteKey(k) ==
  /\ k \in activeKeys
  /\ activeKeys' = activeKeys \ {k}
  /\ UNCHANGED <<counter, events, metered, pc, local, eventHistory>>

EventRequest(r) ==
  \/ \E k \in WriteKey : ResolveWriteKey(r, k)
  \/ EnforceRateLimit(r) \/ RateLimitOpen(r)
  \/ \E remaining \in BOOLEAN : CheckQuota(r, remaining)
  \/ ViolatesSchema(r)
  \/ InsertEvent(r) \/ PublishEvent(r)
  \/ \E stored \in BOOLEAN : PublishEventFails(r, stored)
  \/ DeleteEvent(r) \/ RecordEventUsage(r) \/ FailEvent(r)

EventNext ==
  \/ \E r \in Request : EventRequest(r)
  \/ \E k \in WriteKey : RevokeWriteKey(k)
  \/ NextWindow

EventSpec == EventInit /\ [][EventNext]_eventVars

--------------------------------------------------------------------------
EventTypeOK ==
  /\ activeKeys \subseteq WriteKey
  /\ counter \in [ws: Nat, key: [WriteKey -> Nat]]
  /\ events \in [Request -> EventRow]
  /\ metered \in Nat
  /\ pc \in [Request -> {"new", "event.limit", "event.quota", "event.insert", "event.publish",
                         "event.delete", "event.usage", "done", "failed"}]
  /\ local \in [Request -> EventLocal \union {Nothing}]
  /\ eventHistory \in EventHistory

\* An accepted event has its row, its message and its usage, and nothing
\* else is metered; a request that failed has left neither row nor message,
\* except a row when it stopped or could not delete it, and a message when
\* it stopped or the acknowledgement was lost.  And no key lets more through
\* in a window than its limit while Redis counts.
EventsAccounted ==
  /\ \A r \in eventHistory.accepted : events[r].row /\ events[r].queued
  /\ \A r \in eventHistory.failed \ eventHistory.stranded :
       ~ events[r].row /\ (events[r].queued => r \in eventHistory.unacked)
  /\ metered = Cardinality(eventHistory.accepted)
  /\ \A k \in WriteKey : eventHistory.admitted[k] <= RateLimit[k]
==========================================================================
