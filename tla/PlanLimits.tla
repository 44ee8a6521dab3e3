----------------------------- MODULE PlanLimits ----------------------------
(***************************************************************************)
(* How many resources a workspace can have on its plan.  API keys,         *)
(* segments, workflows and domains are counted and then inserted; contacts *)
(* are counted and inserted in one transaction, but READ COMMITTED and     *)
(* without a lock, so that another transaction can commit in between.      *)
(* The plan is fixed here: a downgrade removes nothing.                    *)
(***************************************************************************)
EXTENDS Handlers, Naturals, FiniteSets

CONSTANTS
  Resource,       \* of "api_key", "segment", "workflow", "domain"
  ResourceLimit,  \* RESOURCE_LIMITS of the plan, by resource
  Email,          \* emails of contacts
  ContactLimit    \* PLAN_QUOTAS of the plan, contacts

\* A plan without a limit on a resource does not count it.
ResourceLimits == [Resource -> Nat]

ASSUME LimitsAssumption ==
  /\ ResourceLimit \in ResourceLimits
  /\ IsFiniteSet(Email)
  /\ ContactLimit \in Nat

VARIABLES
  owned,     \* owned[k]: rows of resource k that are not deleted
  contacts,  \* contacts[e]: the contact with email e
  limitHistory

limitState == <<owned, contacts, limitHistory>>
limitVars == <<limitState, pc, local>>

LimitLocal ==
  [op: {"resource"}, kind: Resource, seen: Nat] \union
  [op: {"contact"}, emails: SUBSET Email, bulk: BOOLEAN, seen: Nat]

\* Rows inserted after a count that was too low by then: resources, contacts.
LimitHistory == [stale: [Resource -> Nat], staleContacts: Nat]

LimitInit ==
  /\ HandlersInit
  /\ owned = [k \in Resource |-> 0]
  /\ contacts = [e \in Email |-> "none"]
  /\ limitHistory = [stale |-> [k \in Resource |-> 0], staleContacts |-> 0]

\* findByEmail: deleted_at IS NULL.
Found(e) == contacts[e] = "live"
LiveContacts == {e \in Email : Found(e)}
ContactCount == Cardinality(LiveContacts)

--------------------------------------------------------------------------
(* createApiKey, createSegment, createWorkflow, createDomain *)

CountResources(r, k) ==
  /\ pc[r] = "new"
  /\ owned[k] < ResourceLimit[k]
  /\ Go(r, [op |-> "resource", kind |-> k, seen |-> owned[k]], "resource.insert")
  /\ UNCHANGED <<owned, contacts, limitHistory>>

InsertResource(r) ==
  LET k == local[r].kind IN
  /\ pc[r] = "resource.insert"
  /\ owned' = [owned EXCEPT ![k] = @ + 1]
  /\ limitHistory' = IF owned[k] > local[r].seen THEN [limitHistory EXCEPT !.stale[k] = @ + 1] ELSE limitHistory
  /\ Return(r, "done")
  /\ UNCHANGED contacts

\* revokeApiKey, or a deletion.
RemoveResource(k) ==
  /\ owned[k] > 0
  /\ owned' = [owned EXCEPT ![k] = @ - 1]
  /\ UNCHANGED <<contacts, limitHistory, pc, local>>

--------------------------------------------------------------------------
(* createContact, bulkImport, updateContact, deleteContact *)

CountForCreate(r, e) ==
  /\ pc[r] = "new"
  /\ ~ Found(e)
  /\ ContactCount < ContactLimit
  /\ Go(r, [op |-> "contact", emails |-> {e}, bulk |-> FALSE, seen |-> ContactCount], "contact.insert")
  /\ UNCHANGED <<owned, contacts, limitHistory>>

\* Mutant of CountForImport: the check of a single creation.
CountForImport_One(r, E) ==
  /\ pc[r] = "new"
  /\ E # {} /\ ContactCount < ContactLimit
  /\ Go(r, [op |-> "contact", emails |-> E, bulk |-> TRUE, seen |-> ContactCount], "contact.insert")
  /\ UNCHANGED <<owned, contacts, limitHistory>>

CountForImport(r, E) ==
  /\ pc[r] = "new"
  /\ E # {} /\ ContactCount + Cardinality(E) <= ContactLimit
  /\ Go(r, [op |-> "contact", emails |-> E, bulk |-> TRUE, seen |-> ContactCount], "contact.insert")
  /\ UNCHANGED <<owned, contacts, limitHistory>>

\* The unique index keeps the email of a deleted contact: a creation of it
\* fails, an import skips it.
InsertContacts(r) ==
  LET l == local[r]
      fresh == {e \in l.emails : contacts[e] = "none"}
  IN
  /\ pc[r] = "contact.insert"
  /\ IF ~ l.bulk /\ fresh = {}
     THEN UNCHANGED <<contacts, limitHistory>> /\ Return(r, "failed")
     ELSE /\ contacts' = [e \in Email |-> IF e \in fresh THEN "live" ELSE contacts[e]]
          /\ limitHistory' = IF ContactCount > l.seen
                        THEN [limitHistory EXCEPT !.staleContacts = @ + Cardinality(fresh)]
                        ELSE limitHistory
          /\ Return(r, "done")
  /\ UNCHANGED owned

\* updateContact with another email; a taken one, deleted or not, refuses.
ChangeEmail(e, f) ==
  /\ Found(e) /\ contacts[f] = "none"
  /\ contacts' = [contacts EXCEPT ![e] = "none", ![f] = "live"]
  /\ UNCHANGED <<owned, limitHistory, pc, local>>

DeleteContact(e) ==
  /\ Found(e)
  /\ contacts' = [contacts EXCEPT ![e] = "deleted"]
  /\ UNCHANGED <<owned, limitHistory, pc, local>>

FailCreation(r) == Stop(r) /\ UNCHANGED <<owned, contacts, limitHistory>>

LimitRequest(r) ==
  \/ \E k \in Resource : CountResources(r, k)
  \/ InsertResource(r)
  \/ \E e \in Email : CountForCreate(r, e)
  \/ \E E \in SUBSET Email : CountForImport(r, E)
  \/ InsertContacts(r) \/ FailCreation(r)

LimitNext ==
  \/ \E r \in Request : LimitRequest(r)
  \/ \E k \in Resource : RemoveResource(k)
  \/ \E e, f \in Email : ChangeEmail(e, f)
  \/ \E e \in Email : DeleteContact(e)

LimitSpec == LimitInit /\ [][LimitNext]_limitVars

--------------------------------------------------------------------------
LimitTypeOK ==
  /\ owned \in [Resource -> Nat]
  /\ contacts \in [Email -> {"none", "live", "deleted"}]
  /\ pc \in [Request -> {"new", "resource.insert", "contact.insert", "done", "failed"}]
  /\ local \in [Request -> LimitLocal \union {Nothing}]
  /\ limitHistory \in LimitHistory

\* The plan's limit is exceeded by no more than the rows whose insertion
\* went by a count that another insertion had made too low.  For contacts
\* the transaction around count and insertion does not change that.
PlanLimitHeld ==
  /\ \A k \in Resource : owned[k] <= ResourceLimit[k] + limitHistory.stale[k]
  /\ ContactCount <= ContactLimit + limitHistory.staleContacts
==========================================================================
