------------------------------ MODULE Domains ------------------------------
(***************************************************************************)
(* One domain name that workspaces register for sending: DomainService's   *)
(* rows, one per workspace, against the one identity that SES keeps for    *)
(* the name.  SES is written between two writes of the row, and neither    *)
(* side knows of the other.  The limit of the plan is in PlanLimits.       *)
(***************************************************************************)
EXTENDS Handlers, Naturals

CONSTANTS
  Tenant,      \* workspaces
  NoSelector   \* no DKIM key: a row before step 4, or no SES identity

ASSUME SelectorAssumption == NoSelector \notin Request

VARIABLES
  domain,      \* domain[w], the row of workspace w
  identity,    \* the selector of the SES identity of the name
  cleanup,     \* how many detached calls of deleteIdentity are under way
  domainHistory

domainState == <<domain, identity, cleanup, domainHistory>>
domainVars == <<domainState, pc, local>>

\* A selector is drawn for each registration, as is an id: both are the
\* request that made them.
Selector == Request \union {NoSelector}

DomainRow ==
  [status: {"none", "pending", "verifying", "verified", "deleting", "deleted"},
   id: Selector, version: Nat, selector: Selector]
NoDomain == [status |-> "none", id |-> NoSelector, version |-> 0, selector |-> NoSelector]

DomainLocal == [op: {"create", "delete"}, ws: Tenant, id: Selector, version: Nat]

\* overlap: a row was inserted while another registration, a deletion or a
\* detached clean-up was under way; early: a verification was requeued for a
\* row that had no key yet.
DomainHistory == [overlap: BOOLEAN, early: BOOLEAN]

DomainInit ==
  /\ HandlersInit
  /\ domain = [w \in Tenant |-> NoDomain]
  /\ identity = NoSelector
  /\ cleanup = 0
  /\ domainHistory = [overlap |-> FALSE, early |-> FALSE]

--------------------------------------------------------------------------
\* deletedAt IS NULL
Registered(w) == domain[w].status \notin {"none", "deleted"}

ClaimedByAnother(w) == \E v \in Tenant \ {w} : Registered(v)

\* WHERE id AND version.
Matches(w, id, version) == domain[w].id = id /\ domain[w].version = version
Patch(w, row) == domain' = [domain EXCEPT ![w] = [row EXCEPT !.version = @ + 1]]

InsertRow(r, w) ==
  domain' = [domain EXCEPT ![w] =
    [status |-> "pending", id |-> r, version |-> 1, selector |-> NoSelector]]

\* The row stays, with deleted_at.
SoftDelete(w, id, version) ==
  /\ Matches(w, id, version) /\ Registered(w)
  /\ Patch(w, [domain[w] EXCEPT !.status = "deleted"])

--------------------------------------------------------------------------
(* createDomain *)

CreateCheck(r, w) ==
  /\ pc[r] = "new"
  /\ ~ Registered(w) /\ ~ ClaimedByAnother(w)
  /\ Go(r, [op |-> "create", ws |-> w, id |-> r, version |-> 1], "create.insert")
  /\ UNCHANGED <<domain, identity, cleanup, domainHistory>>

\* The unique index is of the workspace and the name, deleted rows included.
CreateInsert(r) ==
  LET w == local[r].ws IN
  /\ pc[r] = "create.insert"
  /\ IF domain[w].status # "none"
     THEN Return(r, "failed") /\ UNCHANGED <<domain, domainHistory>>
     ELSE /\ InsertRow(r, w)
          /\ domainHistory' = [domainHistory EXCEPT
               !.overlap = @ \/ cleanup > 0 \/ \E q \in Request \ {r} : ~ Idle(q)]
          /\ Goto(r, "ses.get")
  /\ UNCHANGED <<identity, cleanup>>

SesGet(r) ==
  /\ pc[r] = "ses.get"
  /\ Goto(r, IF identity = NoSelector THEN "ses.create" ELSE "ses.replace")
  /\ UNCHANGED <<domain, identity, cleanup, domainHistory>>

SesReplace(r) ==
  /\ pc[r] = "ses.replace"
  /\ identity' = NoSelector
  /\ Goto(r, "ses.create")
  /\ UNCHANGED <<domain, cleanup, domainHistory>>

\* CreateEmailIdentity throws if the name has an identity.
SesCreate(r) ==
  /\ pc[r] = "ses.create"
  /\ IF identity = NoSelector
     THEN identity' = r /\ Goto(r, "create.update")
     ELSE UNCHANGED identity /\ Goto(r, "create.rollback")
  /\ UNCHANGED <<domain, cleanup, domainHistory>>

\* A call to SES throws, whether or not it took effect.
SesThrows(r) ==
  /\ "outage" \in Faults
  /\ pc[r] \in {"ses.get", "ses.replace", "ses.create"}
  /\ \/ UNCHANGED identity
     \/ pc[r] = "ses.replace" /\ identity' = NoSelector
     \/ pc[r] = "ses.create" /\ identity = NoSelector /\ identity' = r
  /\ Goto(r, "create.rollback")
  /\ UNCHANGED <<domain, cleanup, domainHistory>>

\* The row is deleted by its id; deleteIdentity is called and not awaited.
CreateRollback(r) ==
  LET w == local[r].ws IN
  /\ pc[r] = "create.rollback"
  /\ domain' = IF domain[w].id = r THEN [domain EXCEPT ![w] = NoDomain] ELSE domain
  /\ cleanup' = cleanup + 1
  /\ Return(r, "failed")
  /\ UNCHANGED <<identity, domainHistory>>

Cleanup ==
  /\ cleanup > 0
  /\ cleanup' = cleanup - 1
  /\ \/ identity' = NoSelector
     \/ Faults # {} /\ UNCHANGED identity
  /\ UNCHANGED <<domain, pc, local, domainHistory>>

\* Mutant of CreateUpdate: the key of the new identity is not stored.
CreateUpdate_NoKey(r) ==
  LET w == local[r].ws IN
  /\ pc[r] = "create.update"
  /\ IF Matches(w, r, local[r].version)
     THEN Patch(w, [domain[w] EXCEPT !.status = "verifying"]) /\ Return(r, "done")
     ELSE UNCHANGED domain /\ Return(r, "failed")
  /\ UNCHANGED <<identity, cleanup, domainHistory>>

CreateUpdate(r) ==
  LET w == local[r].ws IN
  /\ pc[r] = "create.update"
  /\ IF Matches(w, r, local[r].version)
     THEN Patch(w, [domain[w] EXCEPT !.status = "verifying", !.selector = r]) /\ Return(r, "done")
     ELSE UNCHANGED domain /\ Return(r, "failed")
  /\ UNCHANGED <<identity, cleanup, domainHistory>>

--------------------------------------------------------------------------
\* requeueVerification: a read and a guarded UPDATE; a lost one changes nothing.
RequeueVerification(r, w) ==
  /\ pc[r] = "new"
  /\ domain[w].status \in {"pending", "verifying"}
  /\ Patch(w, [domain[w] EXCEPT !.status = "verifying"])
  /\ domainHistory' = [domainHistory EXCEPT !.early = @ \/ domain[w].selector = NoSelector]
  /\ Return(r, "done")
  /\ UNCHANGED <<identity, cleanup>>

\* The poller, which is not in this code: SES has seen the row's DNS records.
PollVerified(w) ==
  /\ domain[w].status = "verifying"
  /\ identity # NoSelector /\ identity = domain[w].selector
  /\ Patch(w, [domain[w] EXCEPT !.status = "verified"])
  /\ UNCHANGED <<identity, cleanup, pc, local, domainHistory>>

--------------------------------------------------------------------------
(* deleteDomain *)

DeleteRead(r, w) ==
  /\ pc[r] = "new"
  /\ Registered(w)
  /\ Go(r, [op |-> "delete", ws |-> w, id |-> domain[w].id, version |-> domain[w].version],
        "delete.mark")
  /\ UNCHANGED <<domain, identity, cleanup, domainHistory>>

DeleteMark(r) ==
  LET l == local[r] IN
  /\ pc[r] = "delete.mark"
  /\ IF Matches(l.ws, l.id, l.version)
     THEN /\ Patch(l.ws, [domain[l.ws] EXCEPT !.status = "deleting"])
          /\ Go(r, [l EXCEPT !.version = @ + 1], "delete.ses")
     ELSE UNCHANGED domain /\ Return(r, "failed")
  /\ UNCHANGED <<identity, cleanup, domainHistory>>

\* An error is logged: the row is tombstoned anyway.
DeleteSes(r) ==
  /\ pc[r] = "delete.ses"
  /\ \/ identity' = NoSelector
     \/ "outage" \in Faults /\ UNCHANGED identity
  /\ Goto(r, "delete.tombstone")
  /\ UNCHANGED <<domain, cleanup, domainHistory>>

DeleteTombstone(r) ==
  LET l == local[r] IN
  /\ pc[r] = "delete.tombstone"
  /\ \/ SoftDelete(l.ws, l.id, l.version) /\ Return(r, "done")
     \/ ~ (Matches(l.ws, l.id, l.version) /\ Registered(l.ws)) /\ UNCHANGED domain /\ Return(r, "failed")
  /\ UNCHANGED <<identity, cleanup, domainHistory>>

FailDomain(r) ==
  /\ Stop(r)
  /\ UNCHANGED <<domain, identity, cleanup, domainHistory>>

DomainRequest(r) ==
  \/ CreateInsert(r) \/ SesGet(r) \/ SesReplace(r) \/ SesCreate(r) \/ SesThrows(r)
  \/ CreateRollback(r) \/ CreateUpdate(r)
  \/ DeleteMark(r) \/ DeleteSes(r) \/ DeleteTombstone(r) \/ FailDomain(r)
  \/ \E w \in Tenant : CreateCheck(r, w) \/ RequeueVerification(r, w) \/ DeleteRead(r, w)

DomainNext ==
  \/ \E r \in Request : DomainRequest(r)
  \/ \E w \in Tenant : PollVerified(w)
  \/ Cleanup

DomainSpec == DomainInit /\ [][DomainNext]_domainVars

--------------------------------------------------------------------------
\* Types; a row that exists has the id of its registration.
DomainTypeOK ==
  /\ domain \in [Tenant -> DomainRow]
  /\ \A w \in Tenant : domain[w].status = "none" <=> domain[w].id = NoSelector
  /\ identity \in Selector
  /\ cleanup \in Nat
  /\ pc \in [Request -> {"new", "create.insert", "ses.get", "ses.replace", "ses.create",
                         "create.update", "create.rollback", "delete.mark", "delete.ses",
                         "delete.tombstone", "done", "failed"}]
  /\ local \in [Request -> DomainLocal \union {Nothing}]
  /\ domainHistory \in DomainHistory

\* The name belongs to one workspace, and a row that is being verified or is
\* verified has the key that SES signs with, however calls to SES fail and
\* handlers stop half-way; unless two registrations, or one and a deletion or
\* clean-up, overlapped, or a verification was requeued before there was a key.
SendingIsOwned ==
  domainHistory.overlap \/ domainHistory.early \/
    /\ \A w, v \in Tenant : Registered(w) /\ Registered(v) => w = v
    /\ \A w \in Tenant :
         domain[w].status \in {"verifying", "verified"} => domain[w].selector = identity
==========================================================================
