------------------------ MODULE WorkspaceMembers -------------------------
(***************************************************************************)
(* The members of one workspace and its owner: role changes, removals,     *)
(* transfer of ownership and accepted invitations, as concurrent requests  *)
(* that were authorised by a cached membership (RbacService), beside the   *)
(* other writers of the workspaces row.                                    *)
(*                                                                         *)
(* A request is cut at its awaits.  A transfer reads both memberships FOR  *)
(* UPDATE and holds the row locks until its transaction commits; the       *)
(* workspaces row it writes in between on another connection.  A role      *)
(* change and a removal read the membership without a lock and write it by *)
(* its id.  Requests that the handlers reject change nothing and are left  *)
(* out.  "member" stands for the two lower roles.                          *)
(***************************************************************************)
EXTENDS Naturals, Sequences

CONSTANTS
  User,
  NoUser,       \* stands where no user has been read
  Request,      \* HTTP requests, each made once
  MaxVersion,   \* bound: version of the workspaces row
  Faults        \* "outage": a Redis call throws
                \* "crash": the API process stops, or a database call throws

ASSUME WorkspaceAssumption ==
  /\ NoUser \notin User
  /\ MaxVersion \in Nat
  /\ Faults \subseteq {"outage", "crash"}

VARIABLES
  member,    \* member[u], the workspace_members row
  ws,        \* the workspaces row
  cache,     \* cache[u], the Redis record rbac:<workspace>:<u>
  pc,        \* pc[r], the await request r stands at
  local,     \* local[r], what it holds across its awaits
  history    \* what went wrong so far: see NoHistory

vars == <<member, ws, cache, pc, local, history>>

Role == {"owner", "admin", "member"}
Weight == [none |-> 0, member |-> 50, admin |-> 75, owner |-> 100]

Step ==
  {"new", "guard.fill", "handle", "update.write", "remove.write", "transfer.lock",
   "transfer.workspace", "transfer.commit", "invalidate", "done", "failed"}

\* A user who joins again gets a row with a new id.
Member == [role: Role \union {"none"}, id: Nat]

Workspace == [owner: User, version: 0 .. MaxVersion, active: BOOLEAN]

\* late (history): the role had changed by the time it was cached.
Entry == [present: BOOLEAN, role: Role \union {"none"}, late: BOOLEAN]
NoEntry == [present |-> FALSE, role |-> "none", late |-> FALSE]

\* actor and role: who makes the request, with which role it was authorised;
\* target, seen: the membership it read; new: the role it asks for; version:
\* of the workspace it read; dirty: users whose cache entry it has to delete.
NoLocal ==
  [actor |-> NoUser, role |-> "none", target |-> NoUser,
   seen |-> [role |-> "none", id |-> 0], new |-> "none", version |-> 0, dirty |-> << >>]

Local ==
  [actor: User \union {NoUser}, role: Role \union {"none"}, target: User \union {NoUser},
   seen: Member, new: Role \union {"none"}, version: Nat, dirty: Seq(User)]

\* stale: a membership was written that had changed since it was read;
\* missed: a transfer's update of the workspace matched no row; torn: a
\* transfer stopped after that update; lost: a cache entry was not deleted.
NoHistory == [stale |-> FALSE, missed |-> FALSE, torn |-> FALSE, lost |-> FALSE]

Init ==
  /\ \E owner \in User :
       /\ member \in [User -> [role: Role \union {"none"}, id: {0}]]
       /\ \A u \in User : member[u].role = "owner" <=> u = owner
       /\ ws = [owner |-> owner, version |-> 0, active |-> TRUE]
  /\ cache = [u \in User |-> NoEntry]
  /\ pc = [r \in Request |-> "new"]
  /\ local = [r \in Request |-> NoLocal]
  /\ history = NoHistory

--------------------------------------------------------------------------
IsMember(u) == member[u].role # "none"
Owners == {u \in User : member[u].role = "owner"}

Goto(r, s) == pc' = [pc EXCEPT ![r] = s]
Return(r, outcome) == Goto(r, outcome) /\ local' = [local EXCEPT ![r] = NoLocal]
Go(r, l, s) == Goto(r, s) /\ local' = [local EXCEPT ![r] = l]

\* Rows locked by the transactions of transfers.
Locked ==
  UNION {{local[r].actor, local[r].target} :
           r \in {q \in Request : pc[q] \in {"transfer.workspace", "transfer.commit"}}}

--------------------------------------------------------------------------
(* workspaceGuard: getMembershipContext *)

GuardHit(r, u) ==
  /\ pc[r] = "new"
  /\ cache[u].present
  /\ Go(r, [NoLocal EXCEPT !.actor = u, !.role = cache[u].role], "handle")
  /\ UNCHANGED <<member, ws, cache, history>>

\* Mutant of GuardRead: that there is no membership is not noticed.
GuardRead_Anyone(r, u) ==
  /\ pc[r] = "new"
  /\ ~ cache[u].present \/ "outage" \in Faults
  /\ Go(r, [NoLocal EXCEPT !.actor = u, !.role = member[u].role], "guard.fill")
  /\ UNCHANGED <<member, ws, cache, history>>

\* A Redis error counts as a miss.
GuardRead(r, u) ==
  /\ pc[r] = "new"
  /\ ~ cache[u].present \/ "outage" \in Faults
  /\ IsMember(u)
  /\ Go(r, [NoLocal EXCEPT !.actor = u, !.role = member[u].role], "guard.fill")
  /\ UNCHANGED <<member, ws, cache, history>>

GuardFill(r) ==
  LET u == local[r].actor
      role == local[r].role
  IN
  /\ pc[r] = "guard.fill"
  /\ \/ cache' = [cache EXCEPT ![u] = [present |-> TRUE, role |-> role, late |-> role # member[u].role]]
     \/ "outage" \in Faults /\ UNCHANGED cache
  /\ Goto(r, "handle")
  /\ UNCHANGED <<member, ws, local, history>>

Outranks(r, u) == Weight[local[r].role] > Weight[member[u].role]

--------------------------------------------------------------------------
(* updateMemberRole, removeMember *)

UpdateRoleRead(r, u, new) ==
  /\ pc[r] = "handle"
  /\ local[r].role \in {"owner", "admin"}
  /\ IsMember(u) /\ u # local[r].actor
  /\ Outranks(r, u)
  /\ Weight[local[r].role] > Weight[new]
  /\ Go(r, [local[r] EXCEPT !.target = u, !.seen = member[u], !.new = new], "update.write")
  /\ UNCHANGED <<member, ws, cache, history>>

Note(r) == history' = [history EXCEPT !.stale = @ \/ member[local[r].target] # local[r].seen]

\* UPDATE ... WHERE id: whatever the role is by now.
UpdateRoleWrite(r) ==
  LET u == local[r].target IN
  /\ pc[r] = "update.write"
  /\ u \notin Locked
  /\ member' = IF IsMember(u) /\ member[u].id = local[r].seen.id
               THEN [member EXCEPT ![u].role = local[r].new]
               ELSE member
  /\ Note(r)
  /\ Go(r, [local[r] EXCEPT !.dirty = <<u>>], "invalidate")
  /\ UNCHANGED <<ws, cache>>

\* Nobody outranks an owner: the count of the other owners is never reached.
RemoveRead(r, u) ==
  /\ pc[r] = "handle"
  /\ local[r].role \in {"owner", "admin"}
  /\ IsMember(u) /\ u # local[r].actor
  /\ Outranks(r, u)
  /\ Go(r, [local[r] EXCEPT !.target = u, !.seen = member[u]], "remove.write")
  /\ UNCHANGED <<member, ws, cache, history>>

\* DELETE ... WHERE id.
RemoveWrite(r) ==
  LET u == local[r].target IN
  /\ pc[r] = "remove.write"
  /\ u \notin Locked
  /\ member' = IF IsMember(u) /\ member[u].id = local[r].seen.id
               THEN [member EXCEPT ![u].role = "none"]
               ELSE member
  /\ Note(r)
  /\ Go(r, [local[r] EXCEPT !.dirty = <<u>>], "invalidate")
  /\ UNCHANGED <<ws, cache>>

--------------------------------------------------------------------------
(* transferOwnership *)

TransferRead(r, u) ==
  /\ pc[r] = "handle"
  /\ local[r].role = "owner"
  /\ u # local[r].actor
  /\ ws.active
  /\ ws.owner = local[r].actor
  /\ Go(r, [local[r] EXCEPT !.target = u, !.version = ws.version], "transfer.lock")
  /\ UNCHANGED <<member, ws, cache, history>>

\* Mutant of TransferLock: the actor's own membership is not checked again.
TransferLock_Trusts(r) ==
  LET u == local[r].target
      v == local[r].actor
  IN
  /\ pc[r] = "transfer.lock"
  /\ {u, v} \intersect Locked = {}
  /\ IF IsMember(u) /\ IsMember(v)
     THEN Goto(r, "transfer.workspace") /\ UNCHANGED local
     ELSE Return(r, "done")
  /\ UNCHANGED <<member, ws, cache, history>>

\* SELECT ... FOR UPDATE of both memberships.  The rows of their roles, which
\* the join locks too, are left out: they delay, or deadlock (Fail).
TransferLock(r) ==
  LET u == local[r].target
      v == local[r].actor
  IN
  /\ pc[r] = "transfer.lock"
  /\ {u, v} \intersect Locked = {}
  /\ IF IsMember(u) /\ member[v].role = "owner"
     THEN Goto(r, "transfer.workspace") /\ UNCHANGED local
     ELSE Return(r, "done")
  /\ UNCHANGED <<member, ws, cache, history>>

Write(newWs) == ws.version < MaxVersion /\ ws' = [newWs EXCEPT !.version = ws.version + 1]

\* Mutant of TransferWorkspace: the workspaces row is left alone.
TransferWorkspace_Forgets(r) ==
  /\ pc[r] = "transfer.workspace"
  /\ Goto(r, "transfer.commit")
  /\ UNCHANGED <<member, ws, cache, local, history>>

\* updateWithVersion on the pool, outside the transaction; that it matched no
\* row goes unnoticed.
TransferWorkspace(r) ==
  /\ pc[r] = "transfer.workspace"
  /\ \/ /\ ws.version = local[r].version
        /\ Write([ws EXCEPT !.owner = local[r].target])
        /\ UNCHANGED history
     \/ /\ ws.version # local[r].version
        /\ history' = [history EXCEPT !.missed = TRUE]
        /\ UNCHANGED ws
  /\ Goto(r, "transfer.commit")
  /\ UNCHANGED <<member, cache, local>>

\* Mutant of TransferCommit: only the actor's cache entry is deleted.
TransferCommit_OneEntry(r) ==
  LET u == local[r].target
      v == local[r].actor
  IN
  /\ pc[r] = "transfer.commit"
  /\ member' = [member EXCEPT ![u].role = "owner", ![v].role = "admin"]
  /\ Go(r, [local[r] EXCEPT !.dirty = <<v>>], "invalidate")
  /\ UNCHANGED <<ws, cache, history>>

TransferCommit(r) ==
  LET u == local[r].target
      v == local[r].actor
  IN
  /\ pc[r] = "transfer.commit"
  /\ member' = [member EXCEPT ![u].role = "owner", ![v].role = "admin"]
  /\ Go(r, [local[r] EXCEPT !.dirty = <<v, u>>], "invalidate")
  /\ UNCHANGED <<ws, cache, history>>

--------------------------------------------------------------------------
\* acceptInvite of a user who is no member (yet, or any more).
AcceptInvite(r, u) ==
  /\ pc[r] = "new"
  /\ ~ IsMember(u)
  /\ \E role \in {"admin", "member"} :
       member' = [member EXCEPT ![u] = [role |-> role, id |-> member[u].id + 1]]
  /\ Go(r, [NoLocal EXCEPT !.actor = u, !.dirty = <<u>>], "invalidate")
  /\ UNCHANGED <<ws, cache, history>>

\* rbac.invalidate, for one user after the other; errors are swallowed.
Invalidate(r) ==
  LET dirty == local[r].dirty IN
  /\ pc[r] = "invalidate"
  /\ \/ cache' = [cache EXCEPT ![Head(dirty)] = NoEntry] /\ UNCHANGED history
     \/ /\ "outage" \in Faults
        /\ history' = [history EXCEPT !.lost = TRUE]
        /\ UNCHANGED cache
  /\ IF Len(dirty) > 1
     THEN local' = [local EXCEPT ![r].dirty = Tail(dirty)] /\ UNCHANGED pc
     ELSE Return(r, "done")
  /\ UNCHANGED <<member, ws>>

\* updateWorkspace, deactivate, reactivate: a read, a check and one guarded
\* UPDATE.
UpdateWorkspace(r) ==
  /\ pc[r] = "handle"
  /\ \/ local[r].role \in {"owner", "admin"} /\ ws.active /\ Write(ws)
     \/ local[r].role = "owner" /\ ws.active /\ Write([ws EXCEPT !.active = FALSE])
     \/ local[r].role \in {"owner", "admin"} /\ ~ ws.active /\ Write([ws EXCEPT !.active = TRUE])
  /\ Return(r, "done")
  /\ UNCHANGED <<member, cache, history>>

\* An open transaction is rolled back.
Fail(r) ==
  /\ "crash" \in Faults
  /\ pc[r] \notin {"new", "done", "failed"}
  /\ Return(r, "failed")
  /\ history' = [history EXCEPT
       !.torn = @ \/ (pc[r] = "transfer.commit"),
       !.lost = @ \/ (pc[r] = "invalidate")]
  /\ UNCHANGED <<member, ws, cache>>

\* 60 seconds, an invalidation of the whole workspace, or the listener of
\* another replica that repeats an invalidation.
CacheExpires(u) ==
  /\ cache[u].present
  /\ cache' = [cache EXCEPT ![u] = NoEntry]
  /\ UNCHANGED <<member, ws, pc, local, history>>

Handle(r, u) ==
  \/ GuardHit(r, u) \/ GuardRead(r, u) \/ AcceptInvite(r, u)
  \/ \E new \in {"admin", "member"} : UpdateRoleRead(r, u, new)
  \/ RemoveRead(r, u) \/ TransferRead(r, u)

Proceed(r) ==
  \/ GuardFill(r) \/ UpdateRoleWrite(r) \/ RemoveWrite(r)
  \/ TransferLock(r) \/ TransferWorkspace(r) \/ TransferCommit(r)
  \/ Invalidate(r) \/ UpdateWorkspace(r)

Next ==
  \/ \E r \in Request : Proceed(r) \/ Fail(r) \/ \E u \in User : Handle(r, u)
  \/ \E u \in User : CacheExpires(u)

Spec == Init /\ [][Next]_vars

--------------------------------------------------------------------------
\* Types; and what is cached is the role of some membership.
TypeOK ==
  /\ member \in [User -> Member]
  /\ ws \in Workspace
  /\ cache \in [User -> Entry]
  /\ \A u \in User : cache[u].present <=> cache[u].role # "none"
  /\ pc \in [Request -> Step]
  /\ local \in [Request -> Local]
  /\ history \in [stale: BOOLEAN, missed: BOOLEAN, torn: BOOLEAN, lost: BOOLEAN]

\* There are never two owners, however transfers race; and there is one,
\* unless a role change or removal hit a membership that was promoted or
\* otherwise changed after it had been read.
OneOwner ==
  /\ \A u, v \in Owners : u = v
  /\ ~ history.stale => Owners # {}

\* ownerUserId names the owner whenever no transfer is at its commit, unless
\* a stale write took the owner away, or a transfer's update of the workspace
\* lost against another one or was not followed by the commit.
OwnerRecorded ==
  \/ \E r \in Request : pc[r] = "transfer.commit"
  \/ history.stale \/ history.missed \/ history.torn
  \/ member[ws.owner].role = "owner"

\* A request is authorised with a role its user does not have only while the
\* deletion of the cache entry is on the way, if it was lost, or if a guard
\* that had read the old role cached it after the change.
CacheFresh ==
  \A u \in User : cache[u].present /\ cache[u].role # member[u].role =>
    \/ cache[u].late
    \/ history.lost
    \/ \E r \in Request, i \in 1 .. 2 :
         pc[r] = "invalidate" /\ i <= Len(local[r].dirty) /\ local[r].dirty[i] = u

--------------------------------------------------------------------------
(* Statements of the documentation and comments. *)

\* "Owner protection: the last owner can never be demoted, removed ..."
\* (workspace.service.ts:63).
LastOwnerStays == Owners # {}
==========================================================================
