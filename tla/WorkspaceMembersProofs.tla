--------------------- MODULE WorkspaceMembersProofs ----------------------
(***************************************************************************)
(* Proofs about WorkspaceMembers, for every set of users and requests and  *)
(* every combination of faults.                                            *)
(*                                                                         *)
(* The argument: a transfer holds the lock of the owner's membership from  *)
(* the check that its actor is the owner to its commit (Holding).  As      *)
(* there is one owner, two transfers never hold locks at the same time     *)
(* (OneHolder), and the commit replaces that owner by the other.  All      *)
(* other writes give lower roles, and hit an owner only when the           *)
(* membership has changed since it was read (RequestOK).  The same lock    *)
(* keeps the name in the workspaces row right (RecordInv), and each change *)
(* of a membership hands the deletion of its cache entry to the request    *)
(* that made it (Pending).                                                 *)
(***************************************************************************)
EXTENDS WorkspaceMembers, TLAPS

\* Between the check of the memberships and the commit.
Holds(r) == pc[r] \in {"transfer.workspace", "transfer.commit"}

Holding(r) ==
  Holds(r) =>
    /\ local[r].actor \in User
    /\ local[r].target \in User
    /\ local[r].actor # local[r].target
    /\ member[local[r].actor].role = "owner"

OneHolder == \A r, q \in Request : Holds(r) /\ Holds(q) => r = q

\* What request r knows between its awaits.
RequestOK(r) ==
  /\ pc[r] = "guard.fill" => local[r].actor \in User /\ local[r].role \in Role
  /\ pc[r] = "handle" => local[r].role \in Role
  /\ pc[r] = "update.write" => local[r].new \in {"admin", "member"}
  /\ pc[r] \in {"update.write", "remove.write"} =>
       local[r].target \in User /\ local[r].seen.role # "owner"
  /\ pc[r] = "transfer.lock" =>
       /\ local[r].actor \in User
       /\ local[r].target \in User
       /\ local[r].actor # local[r].target
  /\ pc[r] = "invalidate" => local[r].dirty # << >>

MembersInv ==
  /\ TypeOK
  /\ OneOwner
  /\ OneHolder
  /\ \A r \in Request : Holding(r) /\ RequestOK(r)

--------------------------------------------------------------------------
LEMMA NoLocalType == NoLocal \in Local
BY DEF NoLocal, Local, Member

LEMMA DirtyType ==
  ASSUME NEW l \in Local, NEW d \in Seq(User)
  PROVE  /\ [l EXCEPT !.dirty = d] \in Local
         /\ [l EXCEPT !.dirty = d].dirty = d
BY DEF Local

LEMMA VersionType ==
  ASSUME NEW l \in Local, NEW u \in User, NEW n \in Nat
  PROVE  LET m == [l EXCEPT !.target = u, !.version = n]
         IN  m \in Local /\ m.target = u /\ m.actor = l.actor
BY DEF Local

\* Nobody is heavier than an owner.
LEMMA OwnerIsTop ==
  ASSUME NEW a \in Role, NEW b \in Role \union {"none"}, Weight[a] > Weight[b]
  PROVE  b # "owner"
BY DEF Role, Weight

LEMMA HoldersLock ==
  ASSUME NEW r \in Request, Holds(r)
  PROVE  local[r].actor \in Locked /\ local[r].target \in Locked
BY DEF Holds, Locked

\* A request that returns, or that goes on with a record of its type.
LEMMA GoType ==
  ASSUME TypeOK, NEW r \in Request, NEW l \in Local, NEW s \in Step, Go(r, l, s)
  PROVE  /\ pc' \in [Request -> Step]
         /\ local' \in [Request -> Local]
         /\ pc'[r] = s /\ local'[r] = l
         /\ \A q \in Request : q # r => pc'[q] = pc[q] /\ local'[q] = local[q]
BY DEF TypeOK, Go, Goto

LEMMA ReturnType ==
  ASSUME TypeOK, NEW r \in Request, NEW s \in Step, Return(r, s)
  PROVE  /\ pc' \in [Request -> Step]
         /\ local' \in [Request -> Local]
         /\ pc'[r] = s
         /\ \A q \in Request : q # r => pc'[q] = pc[q] /\ local'[q] = local[q]
BY NoLocalType DEF TypeOK, Return, Goto

\* The inductive invariant holds initially.
THEOREM InitInv == Init => MembersInv
<1> SUFFICES ASSUME Init PROVE MembersInv
  OBVIOUS
<1>1. TypeOK
  <2>1. member \in [User -> Member]
    BY DEF Init, Member
  <2>2. ws \in Workspace
    BY WorkspaceAssumption DEF Init, Workspace
  <2>3. cache \in [User -> Entry] /\ \A u \in User : cache[u].present <=> cache[u].role # "none"
    BY DEF Init, Entry, NoEntry
  <2>4. pc \in [Request -> Step] /\ local \in [Request -> Local]
    BY NoLocalType DEF Init, Step
  <2>5. history \in [stale: BOOLEAN, missed: BOOLEAN, torn: BOOLEAN, lost: BOOLEAN]
    BY DEF Init, NoHistory
  <2> QED
    BY <2>1, <2>2, <2>3, <2>4, <2>5 DEF TypeOK
<1>2. OneOwner
  <2>1. PICK o \in User : \A u \in User : member[u].role = "owner" <=> u = o
    BY DEF Init
  <2> QED
    BY <2>1 DEF OneOwner, Owners
<1>3. OneHolder /\ \A r \in Request : Holding(r) /\ RequestOK(r)
  BY DEF Init, OneHolder, Holds, Holding, RequestOK
<1> QED
  BY <1>1, <1>2, <1>3 DEF MembersInv

--------------------------------------------------------------------------
(* Steps.  Most move one request and leave the locked memberships alone. *)

LEMMA StepOfOne ==
  ASSUME MembersInv, NEW r \in Request,
         \A q \in Request : q # r => pc'[q] = pc[q] /\ local'[q] = local[q],
         \A u \in Locked : member'[u] = member[u],
         Holds(r)' => Holds(r), Holding(r)', RequestOK(r)'
  PROVE  OneHolder' /\ \A q \in Request : Holding(q)' /\ RequestOK(q)'
<1>1. \A q \in Request : Holds(q)' => Holds(q)
  BY DEF Holds
<1>2. OneHolder'
  BY <1>1 DEF MembersInv, OneHolder
<1>3. ASSUME NEW q \in Request, q # r
      PROVE  Holding(q)' /\ RequestOK(q)'
  BY <1>3, HoldersLock DEF MembersInv, Holding, RequestOK, Holds
<1> QED
  BY <1>2, <1>3

LEMMA SameMembers ==
  ASSUME OneOwner, UNCHANGED member, history.stale => history'.stale
  PROVE  OneOwner'
BY DEF OneOwner, Owners

LEMMA GuardHitInv ==
  ASSUME MembersInv, NEW r \in Request, NEW u \in User, GuardHit(r, u)
  PROVE  MembersInv'
<1> DEFINE l == [NoLocal EXCEPT !.actor = u, !.role = cache[u].role]
<1>1. cache[u].role \in Role /\ l \in Local
  BY NoLocalType DEF GuardHit, MembersInv, TypeOK, Entry, Local, NoLocal
<1>2. /\ pc' \in [Request -> Step]
      /\ local' \in [Request -> Local]
      /\ pc'[r] = "handle" /\ local'[r] = l
      /\ \A q \in Request : q # r => pc'[q] = pc[q] /\ local'[q] = local[q]
  BY <1>1, GoType DEF GuardHit, MembersInv, Step
<1>3. TypeOK'
  BY <1>2 DEF GuardHit, MembersInv, TypeOK
<1>4. Holding(r)' /\ RequestOK(r)' /\ ~ Holds(r)'
  BY <1>1, <1>2 DEF Holding, Holds, RequestOK, NoLocal
<1>5. OneOwner'
  BY SameMembers DEF GuardHit, MembersInv
<1> QED
  BY <1>2, <1>3, <1>4, <1>5, StepOfOne DEF GuardHit, MembersInv

LEMMA GuardReadInv ==
  ASSUME MembersInv, NEW r \in Request, NEW u \in User, GuardRead(r, u)
  PROVE  MembersInv'
<1> DEFINE l == [NoLocal EXCEPT !.actor = u, !.role = member[u].role]
<1>1. member[u].role \in Role /\ l \in Local
  BY NoLocalType DEF GuardRead, IsMember, MembersInv, TypeOK, Member, Local, NoLocal
<1>2. /\ pc' \in [Request -> Step]
      /\ local' \in [Request -> Local]
      /\ pc'[r] = "guard.fill" /\ local'[r] = l
      /\ \A q \in Request : q # r => pc'[q] = pc[q] /\ local'[q] = local[q]
  BY <1>1, GoType DEF GuardRead, MembersInv, Step
<1>3. TypeOK'
  BY <1>2 DEF GuardRead, MembersInv, TypeOK
<1>4. Holding(r)' /\ RequestOK(r)' /\ ~ Holds(r)'
  BY <1>1, <1>2 DEF Holding, Holds, RequestOK, NoLocal
<1>5. OneOwner'
  BY SameMembers DEF GuardRead, MembersInv
<1> QED
  BY <1>2, <1>3, <1>4, <1>5, StepOfOne DEF GuardRead, MembersInv

LEMMA GuardFillInv ==
  ASSUME MembersInv, NEW r \in Request, GuardFill(r)
  PROVE  MembersInv'
<1>1. local[r].actor \in User /\ local[r].role \in Role /\ pc[r] = "guard.fill"
  BY DEF GuardFill, MembersInv, RequestOK
<1>2. cache' \in [User -> Entry] /\ \A u \in User : cache'[u].present <=> cache'[u].role # "none"
  <2> DEFINE late == local[r].role # member[local[r].actor].role
             e == [present |-> TRUE, role |-> local[r].role, late |-> late]
  <2>1. late \in BOOLEAN
    OBVIOUS
  <2>2. e \in Entry /\ e.present /\ e.role # "none"
    BY <1>1, <2>1 DEF Entry, Role
  <2>3. cache' = [cache EXCEPT ![local[r].actor] = e] \/ cache' = cache
    BY DEF GuardFill
  <2> HIDE DEF e
  <2> QED
    BY <1>1, <2>2, <2>3 DEF MembersInv, TypeOK
<1>3. /\ pc' \in [Request -> Step] /\ pc'[r] = "handle"
      /\ \A q \in Request : q # r => pc'[q] = pc[q]
  BY DEF GuardFill, Goto, MembersInv, TypeOK, Step
<1>4. TypeOK'
  BY <1>2, <1>3 DEF GuardFill, MembersInv, TypeOK
<1>5. Holding(r)' /\ RequestOK(r)' /\ ~ Holds(r)'
  BY <1>1, <1>3 DEF GuardFill, Holding, Holds, RequestOK
<1>6. OneOwner'
  BY SameMembers DEF GuardFill, MembersInv
<1> QED
  BY <1>3, <1>4, <1>5, <1>6, StepOfOne DEF GuardFill, MembersInv

LEMMA UpdateRoleReadInv ==
  ASSUME MembersInv, NEW r \in Request, NEW u \in User, NEW new \in {"admin", "member"},
         UpdateRoleRead(r, u, new)
  PROVE  MembersInv'
<1> DEFINE l == [local[r] EXCEPT !.target = u, !.seen = member[u], !.new = new]
<1>1. l \in Local /\ l.target = u /\ l.seen = member[u] /\ l.new = new
  BY DEF MembersInv, TypeOK, Local, Role
<1>2. /\ pc' \in [Request -> Step]
      /\ local' \in [Request -> Local]
      /\ pc'[r] = "update.write" /\ local'[r] = l
      /\ \A q \in Request : q # r => pc'[q] = pc[q] /\ local'[q] = local[q]
  BY <1>1, GoType DEF UpdateRoleRead, MembersInv, Step
<1>3. member[u].role # "owner"
  BY OwnerIsTop DEF UpdateRoleRead, Outranks, MembersInv, RequestOK, TypeOK, Member
<1>4. TypeOK'
  BY <1>2 DEF UpdateRoleRead, MembersInv, TypeOK
<1>5. Holding(r)' /\ RequestOK(r)' /\ ~ Holds(r)'
  BY <1>1, <1>2, <1>3 DEF Holding, Holds, RequestOK
<1>6. OneOwner'
  BY SameMembers DEF UpdateRoleRead, MembersInv
<1> QED
  BY <1>2, <1>4, <1>5, <1>6, StepOfOne DEF UpdateRoleRead, MembersInv

LEMMA RemoveReadInv ==
  ASSUME MembersInv, NEW r \in Request, NEW u \in User, RemoveRead(r, u)
  PROVE  MembersInv'
<1> DEFINE l == [local[r] EXCEPT !.target = u, !.seen = member[u]]
<1>1. l \in Local /\ l.target = u /\ l.seen = member[u]
  BY DEF MembersInv, TypeOK, Local
<1>2. /\ pc' \in [Request -> Step]
      /\ local' \in [Request -> Local]
      /\ pc'[r] = "remove.write" /\ local'[r] = l
      /\ \A q \in Request : q # r => pc'[q] = pc[q] /\ local'[q] = local[q]
  BY <1>1, GoType DEF RemoveRead, MembersInv, Step
<1>3. member[u].role # "owner"
  BY OwnerIsTop DEF RemoveRead, Outranks, MembersInv, RequestOK, TypeOK, Member
<1>4. TypeOK'
  BY <1>2 DEF RemoveRead, MembersInv, TypeOK
<1>5. Holding(r)' /\ RequestOK(r)' /\ ~ Holds(r)'
  BY <1>1, <1>2, <1>3 DEF Holding, Holds, RequestOK
<1>6. OneOwner'
  BY SameMembers DEF RemoveRead, MembersInv
<1> QED
  BY <1>2, <1>4, <1>5, <1>6, StepOfOne DEF RemoveRead, MembersInv

\* A role change or removal that hits an owner hits a changed membership.
LEMMA NoteStale ==
  ASSUME MembersInv, NEW r \in Request, pc[r] \in {"update.write", "remove.write"}, Note(r)
  PROVE  /\ local[r].target \in User
         /\ history' \in [stale: BOOLEAN, missed: BOOLEAN, torn: BOOLEAN, lost: BOOLEAN]
         /\ ~ history'.stale => ~ history.stale /\ member[local[r].target].role # "owner"
<1>1. local[r].target \in User /\ local[r].seen.role # "owner"
  BY DEF MembersInv, RequestOK
<1>2. history \in [stale: BOOLEAN, missed: BOOLEAN, torn: BOOLEAN, lost: BOOLEAN]
  BY DEF MembersInv, TypeOK
<1>3. history'.stale = (history.stale \/ member[local[r].target] # local[r].seen)
  BY <1>2 DEF Note
<1>4. history' \in [stale: BOOLEAN, missed: BOOLEAN, torn: BOOLEAN, lost: BOOLEAN]
  BY <1>2 DEF Note
<1> QED
  BY <1>1, <1>3, <1>4

LEMMA UpdateRoleWriteInv ==
  ASSUME MembersInv, NEW r \in Request, UpdateRoleWrite(r)
  PROVE  MembersInv'
<1> DEFINE u == local[r].target
           l == [local[r] EXCEPT !.dirty = <<u>>]
<1>1. /\ u \in User /\ u \notin Locked /\ local[r].new \in {"admin", "member"}
      /\ history' \in [stale: BOOLEAN, missed: BOOLEAN, torn: BOOLEAN, lost: BOOLEAN]
      /\ ~ history'.stale => ~ history.stale /\ member[u].role # "owner"
  BY NoteStale DEF UpdateRoleWrite, MembersInv, RequestOK
<1>2. l \in Local /\ l.dirty # << >>
  <2>1. <<u>> \in Seq(User) /\ <<u>> # << >> /\ local[r] \in Local
    BY <1>1 DEF MembersInv, TypeOK
  <2> QED
    BY <2>1, DirtyType
<1>3. /\ pc' \in [Request -> Step]
      /\ local' \in [Request -> Local]
      /\ pc'[r] = "invalidate" /\ local'[r] = l
      /\ \A q \in Request : q # r => pc'[q] = pc[q] /\ local'[q] = local[q]
  BY <1>2, GoType DEF UpdateRoleWrite, MembersInv, Step
<1>4. /\ member' \in [User -> Member]
      /\ member'[u].role # "owner" \/ member' = member
      /\ \A v \in User : v # u => member'[v] = member[v]
  BY <1>1 DEF UpdateRoleWrite, MembersInv, TypeOK, Member, Role
<1>5. TypeOK'
  BY <1>1, <1>3, <1>4 DEF UpdateRoleWrite, MembersInv, TypeOK
<1>6. Holding(r)' /\ RequestOK(r)' /\ ~ Holds(r)'
  BY <1>2, <1>3 DEF Holding, Holds, RequestOK
<1>7. OneOwner'
  BY <1>1, <1>4 DEF MembersInv, OneOwner, Owners
<1>8. \A v \in Locked : member'[v] = member[v]
  BY <1>1 DEF UpdateRoleWrite
<1> QED
  BY <1>3, <1>5, <1>6, <1>7, <1>8, StepOfOne DEF MembersInv

LEMMA RemoveWriteInv ==
  ASSUME MembersInv, NEW r \in Request, RemoveWrite(r)
  PROVE  MembersInv'
<1> DEFINE u == local[r].target
           l == [local[r] EXCEPT !.dirty = <<u>>]
<1>1. /\ u \in User /\ u \notin Locked
      /\ history' \in [stale: BOOLEAN, missed: BOOLEAN, torn: BOOLEAN, lost: BOOLEAN]
      /\ ~ history'.stale => ~ history.stale /\ member[u].role # "owner"
  BY NoteStale DEF RemoveWrite
<1>2. l \in Local /\ l.dirty # << >>
  <2>1. <<u>> \in Seq(User) /\ <<u>> # << >> /\ local[r] \in Local
    BY <1>1 DEF MembersInv, TypeOK
  <2> QED
    BY <2>1, DirtyType
<1>3. /\ pc' \in [Request -> Step]
      /\ local' \in [Request -> Local]
      /\ pc'[r] = "invalidate" /\ local'[r] = l
      /\ \A q \in Request : q # r => pc'[q] = pc[q] /\ local'[q] = local[q]
  BY <1>2, GoType DEF RemoveWrite, MembersInv, Step
<1>4. /\ member' \in [User -> Member]
      /\ member'[u].role # "owner" \/ member' = member
      /\ \A v \in User : v # u => member'[v] = member[v]
  BY <1>1 DEF RemoveWrite, MembersInv, TypeOK, Member
<1>5. TypeOK'
  BY <1>1, <1>3, <1>4 DEF RemoveWrite, MembersInv, TypeOK
<1>6. Holding(r)' /\ RequestOK(r)' /\ ~ Holds(r)'
  BY <1>2, <1>3 DEF Holding, Holds, RequestOK
<1>7. OneOwner'
  BY <1>1, <1>4 DEF MembersInv, OneOwner, Owners
<1>8. \A v \in Locked : member'[v] = member[v]
  BY <1>1 DEF RemoveWrite
<1> QED
  BY <1>3, <1>5, <1>6, <1>7, <1>8, StepOfOne DEF MembersInv

LEMMA TransferReadInv ==
  ASSUME MembersInv, NEW r \in Request, NEW u \in User, TransferRead(r, u)
  PROVE  MembersInv'
<1> DEFINE l == [local[r] EXCEPT !.target = u, !.version = ws.version]
<1>1. /\ l \in Local /\ l.target = u /\ l.actor = local[r].actor
      /\ local[r].actor \in User /\ u # local[r].actor
  <2>1. /\ local[r] \in Local /\ ws.version \in Nat
        /\ local[r].actor \in User /\ u # local[r].actor
    BY WorkspaceAssumption DEF TransferRead, MembersInv, TypeOK, Workspace
  <2> QED
    BY <2>1, VersionType
<1>2. /\ pc' \in [Request -> Step]
      /\ local' \in [Request -> Local]
      /\ pc'[r] = "transfer.lock" /\ local'[r] = l
      /\ \A q \in Request : q # r => pc'[q] = pc[q] /\ local'[q] = local[q]
  BY <1>1, GoType DEF TransferRead, MembersInv, Step
<1>3. TypeOK'
  BY <1>2 DEF TransferRead, MembersInv, TypeOK
<1>4. Holding(r)' /\ RequestOK(r)' /\ ~ Holds(r)'
  BY <1>1, <1>2 DEF Holding, Holds, RequestOK
<1>5. OneOwner'
  BY SameMembers DEF TransferRead, MembersInv
<1> QED
  BY <1>2, <1>3, <1>4, <1>5, StepOfOne DEF TransferRead, MembersInv

\* The lock excludes every other transfer: its actor would be the same owner.
LEMMA TransferLockInv ==
  ASSUME MembersInv, NEW r \in Request, TransferLock(r)
  PROVE  MembersInv'
<1> DEFINE u == local[r].target
           v == local[r].actor
<1>1. /\ pc[r] = "transfer.lock" /\ ~ Holds(r)
      /\ u \in User /\ v \in User /\ v # u
      /\ u \notin Locked /\ v \notin Locked
  BY DEF TransferLock, MembersInv, RequestOK, Holds
<1>2. OneOwner'
  BY SameMembers DEF TransferLock, MembersInv
<1>3. CASE Return(r, "done")
  <2>1. /\ pc' \in [Request -> Step]
        /\ local' \in [Request -> Local]
        /\ pc'[r] = "done"
        /\ \A q \in Request : q # r => pc'[q] = pc[q] /\ local'[q] = local[q]
    BY <1>3, ReturnType DEF MembersInv, Step
  <2>2. TypeOK'
    BY <2>1 DEF TransferLock, MembersInv, TypeOK
  <2>3. Holding(r)' /\ RequestOK(r)' /\ ~ Holds(r)'
    BY <2>1 DEF Holding, Holds, RequestOK
  <2> QED
    BY <1>2, <2>1, <2>2, <2>3, StepOfOne DEF TransferLock, MembersInv
<1>4. CASE member[v].role = "owner" /\ Goto(r, "transfer.workspace") /\ UNCHANGED local
  <2>1. /\ pc' \in [Request -> Step] /\ pc'[r] = "transfer.workspace"
        /\ \A q \in Request : q # r => pc'[q] = pc[q]
    BY <1>4 DEF Goto, MembersInv, TypeOK, Step
  <2>2. TypeOK'
    BY <1>4, <2>1 DEF TransferLock, MembersInv, TypeOK
  <2>3. ASSUME NEW q \in Request, Holds(q)
        PROVE  FALSE
    <3>1. local[q].actor \in User /\ member[local[q].actor].role = "owner"
      BY <2>3 DEF MembersInv, Holding
    <3>2. local[q].actor = v
      BY <1>1, <1>4, <3>1 DEF MembersInv, OneOwner, Owners
    <3> QED
      BY <1>1, <2>3, <3>2, HoldersLock
  <2>4. OneHolder'
    BY <2>1, <2>3 DEF OneHolder, Holds
  <2>5. ASSUME NEW q \in Request
        PROVE  Holding(q)' /\ RequestOK(q)'
    <3>1. CASE q = r
      BY <1>1, <1>4, <2>1, <3>1 DEF TransferLock, Holding, Holds, RequestOK
    <3>2. CASE q # r
      BY <1>4, <2>1, <3>2 DEF TransferLock, MembersInv, Holding, Holds, RequestOK
    <3> QED
      BY <3>1, <3>2
  <2> QED
    BY <1>2, <2>2, <2>4, <2>5 DEF MembersInv
<1> QED
  BY <1>3, <1>4 DEF TransferLock

LEMMA WriteType ==
  ASSUME MembersInv, NEW newWs \in Workspace, Write(newWs)
  PROVE  ws' \in Workspace
<1>1. ws.version \in 0 .. MaxVersion /\ ws.version < MaxVersion
  BY DEF MembersInv, TypeOK, Workspace, Write
<1>2. ws.version + 1 \in 0 .. MaxVersion
  BY <1>1, WorkspaceAssumption
<1> QED
  BY <1>2 DEF Write, Workspace

LEMMA TransferWorkspaceInv ==
  ASSUME MembersInv, NEW r \in Request, TransferWorkspace(r)
  PROVE  MembersInv'
<1>1. Holds(r) /\ local[r].target \in User
  BY DEF TransferWorkspace, MembersInv, Holding, Holds
<1>2. /\ pc' \in [Request -> Step] /\ pc'[r] = "transfer.commit"
      /\ \A q \in Request : q # r => pc'[q] = pc[q]
  BY DEF TransferWorkspace, Goto, MembersInv, TypeOK, Step
<1>3. ws' \in Workspace
  <2>1. [ws EXCEPT !.owner = local[r].target] \in Workspace /\ ws \in Workspace
    BY <1>1 DEF MembersInv, TypeOK, Workspace
  <2> QED
    BY <2>1, WriteType DEF TransferWorkspace
<1>4. /\ history' \in [stale: BOOLEAN, missed: BOOLEAN, torn: BOOLEAN, lost: BOOLEAN]
      /\ history'.stale = history.stale
  BY DEF TransferWorkspace, MembersInv, TypeOK
<1>5. TypeOK'
  BY <1>2, <1>3, <1>4 DEF TransferWorkspace, MembersInv, TypeOK
<1>6. Holding(r)' /\ RequestOK(r)'
  BY <1>1, <1>2 DEF TransferWorkspace, MembersInv, Holding, Holds, RequestOK
<1>7. OneOwner'
  BY <1>4, SameMembers DEF TransferWorkspace, MembersInv
<1> QED
  BY <1>1, <1>2, <1>5, <1>6, <1>7, StepOfOne DEF TransferWorkspace, MembersInv

\* The one owner is replaced by the other member.
LEMMA TransferCommitInv ==
  ASSUME MembersInv, NEW r \in Request, TransferCommit(r)
  PROVE  MembersInv'
<1> DEFINE u == local[r].target
           v == local[r].actor
<1>1. /\ Holds(r)
      /\ u \in User /\ v \in User /\ v # u
      /\ member[v].role = "owner"
  BY DEF TransferCommit, MembersInv, Holding, Holds
<1>2. <<v, u>> \in Seq(User) /\ <<v, u>> # << >> /\ local[r] \in Local
  BY <1>1 DEF MembersInv, TypeOK
<1>3. PICK d \in Seq(User) : d = <<v, u>>
  BY <1>2
<1>4. /\ pc' \in [Request -> Step]
      /\ local' \in [Request -> Local]
      /\ pc'[r] = "invalidate" /\ local'[r].dirty = d
      /\ \A q \in Request : q # r => pc'[q] = pc[q] /\ local'[q] = local[q]
  <2>1. Go(r, [local[r] EXCEPT !.dirty = d], "invalidate")
    BY <1>3 DEF TransferCommit
  <2>2. [local[r] EXCEPT !.dirty = d] \in Local /\ [local[r] EXCEPT !.dirty = d].dirty = d
    BY <1>2, DirtyType
  <2> QED
    BY <2>1, <2>2, GoType DEF MembersInv, Step
<1>5. /\ member' \in [User -> Member]
      /\ member'[u].role = "owner" /\ member'[v].role = "admin"
      /\ \A w \in User : w # u /\ w # v => member'[w] = member[w]
  BY <1>1 DEF TransferCommit, MembersInv, TypeOK, Member, Role
<1>6. TypeOK'
  BY <1>4, <1>5 DEF TransferCommit, MembersInv, TypeOK
<1>7. OneOwner'
  <2>1. \A w \in User : member'[w].role = "owner" => w = u
    BY <1>1, <1>5 DEF MembersInv, OneOwner, Owners
  <2> QED
    BY <1>1, <1>5, <2>1 DEF OneOwner, Owners
<1>8. \A q \in Request : ~ Holds(q)'
  BY <1>1, <1>4 DEF MembersInv, OneHolder, Holds
<1>9. ASSUME NEW q \in Request
      PROVE  Holding(q)' /\ RequestOK(q)'
  <2>1. CASE q = r
    BY <1>2, <1>3, <1>4, <1>8, <2>1 DEF Holding, RequestOK
  <2>2. CASE q # r
    BY <1>4, <1>8, <2>2 DEF MembersInv, Holding, RequestOK
  <2> QED
    BY <2>1, <2>2
<1> QED
  BY <1>6, <1>7, <1>8, <1>9 DEF MembersInv, OneHolder

LEMMA AcceptInviteInv ==
  ASSUME MembersInv, NEW r \in Request, NEW u \in User, AcceptInvite(r, u)
  PROVE  MembersInv'
<1>1. PICK role \in {"admin", "member"} :
        member' = [member EXCEPT ![u] = [role |-> role, id |-> member[u].id + 1]]
  BY DEF AcceptInvite
<1>2. PICK d \in Seq(User) : d = <<u>> /\ d # << >>
  <2>1. <<u>> \in Seq(User) /\ <<u>> # << >>
    OBVIOUS
  <2> QED
    BY <2>1
<1>3. [NoLocal EXCEPT !.actor = u, !.dirty = d] \in Local
      /\ [NoLocal EXCEPT !.actor = u, !.dirty = d].dirty = d
  BY NoLocalType DEF Local
<1>4. /\ pc' \in [Request -> Step]
      /\ local' \in [Request -> Local]
      /\ pc'[r] = "invalidate" /\ local'[r].dirty = d
      /\ \A q \in Request : q # r => pc'[q] = pc[q] /\ local'[q] = local[q]
  <2>1. Go(r, [NoLocal EXCEPT !.actor = u, !.dirty = d], "invalidate")
    BY <1>2 DEF AcceptInvite
  <2> QED
    BY <1>3, <2>1, GoType DEF MembersInv, Step
<1>5. /\ member' \in [User -> Member]
      /\ member[u].role # "owner" /\ member'[u].role # "owner"
      /\ \A v \in User : v # u => member'[v] = member[v]
  BY <1>1 DEF AcceptInvite, IsMember, MembersInv, TypeOK, Member, Role
<1>6. TypeOK'
  BY <1>4, <1>5 DEF AcceptInvite, MembersInv, TypeOK
<1>7. OneOwner'
  BY <1>5 DEF AcceptInvite, MembersInv, OneOwner, Owners
<1>8. ASSUME NEW q \in Request
      PROVE  Holding(q)' /\ RequestOK(q)' /\ (Holds(q)' => Holds(q))
  <2>1. CASE q = r
    BY <1>2, <1>4, <2>1 DEF Holding, Holds, RequestOK
  <2>2. CASE q # r
    BY <1>4, <1>5, <2>2 DEF MembersInv, Holding, Holds, RequestOK
  <2> QED
    BY <2>1, <2>2
<1> QED
  BY <1>6, <1>7, <1>8 DEF MembersInv, OneHolder

LEMMA InvalidateInv ==
  ASSUME MembersInv, NEW r \in Request, Invalidate(r)
  PROVE  MembersInv'
<1> DEFINE d == local[r].dirty
<1>1. d \in Seq(User) /\ d # << >> /\ Head(d) \in User /\ pc[r] = "invalidate" /\ local[r] \in Local
  BY DEF Invalidate, MembersInv, RequestOK, TypeOK, Local
<1>2. cache' \in [User -> Entry] /\ \A u \in User : cache'[u].present <=> cache'[u].role # "none"
  <2>1. NoEntry \in Entry /\ ~ NoEntry.present /\ NoEntry.role = "none"
    BY DEF NoEntry, Entry
  <2>2. cache' = [cache EXCEPT ![Head(d)] = NoEntry] \/ cache' = cache
    BY DEF Invalidate
  <2> QED
    BY <1>1, <2>1, <2>2 DEF MembersInv, TypeOK
<1>3. /\ history' \in [stale: BOOLEAN, missed: BOOLEAN, torn: BOOLEAN, lost: BOOLEAN]
      /\ history'.stale = history.stale
  BY DEF Invalidate, MembersInv, TypeOK
<1>4. OneOwner'
  BY <1>3, SameMembers DEF Invalidate, MembersInv
<1>5. /\ pc' \in [Request -> Step]
      /\ local' \in [Request -> Local]
      /\ pc'[r] = "invalidate" => local'[r].dirty # << >>
      /\ pc'[r] \in {"invalidate", "done"}
      /\ \A q \in Request : q # r => pc'[q] = pc[q] /\ local'[q] = local[q]
  <2>1. CASE Len(d) > 1
    <3>1. PICK t \in Seq(User) : t = Tail(d) /\ t # << >>
      <4>1. Tail(d) \in Seq(User) /\ Len(Tail(d)) = Len(d) - 1 /\ Len(d) \in Nat
        BY <1>1
      <4>2. Tail(d) # << >>
        BY <2>1, <4>1
      <4> QED
        BY <4>1, <4>2
    <3>2. local' = [local EXCEPT ![r] = [local[r] EXCEPT !.dirty = t]] /\ pc' = pc
      BY <2>1, <3>1 DEF Invalidate
    <3> QED
      BY <1>1, <3>1, <3>2, DirtyType DEF MembersInv, TypeOK
  <2>2. CASE ~ (Len(d) > 1)
    <3>1. Return(r, "done")
      BY <2>2 DEF Invalidate
    <3> QED
      BY <3>1, ReturnType DEF MembersInv, Step
  <2> QED
    BY <2>1, <2>2
<1>6. TypeOK'
  BY <1>2, <1>3, <1>5 DEF Invalidate, MembersInv, TypeOK
<1>7. Holding(r)' /\ RequestOK(r)' /\ ~ Holds(r)'
  BY <1>5 DEF Holding, Holds, RequestOK
<1> QED
  BY <1>4, <1>5, <1>6, <1>7, StepOfOne DEF Invalidate, MembersInv

LEMMA UpdateWorkspaceInv ==
  ASSUME MembersInv, NEW r \in Request, UpdateWorkspace(r)
  PROVE  MembersInv'
<1>1. /\ pc' \in [Request -> Step]
      /\ local' \in [Request -> Local]
      /\ pc'[r] = "done"
      /\ \A q \in Request : q # r => pc'[q] = pc[q] /\ local'[q] = local[q]
  BY ReturnType DEF UpdateWorkspace, MembersInv, Step
<1>2. ws' \in Workspace
  <2>1. /\ ws \in Workspace
        /\ [ws EXCEPT !.active = TRUE] \in Workspace
        /\ [ws EXCEPT !.active = FALSE] \in Workspace
    BY DEF MembersInv, TypeOK, Workspace
  <2> QED
    BY <2>1, WriteType DEF UpdateWorkspace
<1>3. TypeOK'
  BY <1>1, <1>2 DEF UpdateWorkspace, MembersInv, TypeOK
<1>4. Holding(r)' /\ RequestOK(r)' /\ ~ Holds(r)'
  BY <1>1 DEF Holding, Holds, RequestOK
<1>5. OneOwner'
  BY SameMembers DEF UpdateWorkspace, MembersInv
<1> QED
  BY <1>1, <1>3, <1>4, <1>5, StepOfOne DEF UpdateWorkspace, MembersInv

LEMMA FailInv ==
  ASSUME MembersInv, NEW r \in Request, Fail(r)
  PROVE  MembersInv'
<1>1. /\ pc' \in [Request -> Step]
      /\ local' \in [Request -> Local]
      /\ pc'[r] = "failed"
      /\ \A q \in Request : q # r => pc'[q] = pc[q] /\ local'[q] = local[q]
  BY ReturnType DEF Fail, MembersInv, Step
<1>2. /\ history' \in [stale: BOOLEAN, missed: BOOLEAN, torn: BOOLEAN, lost: BOOLEAN]
      /\ history'.stale = history.stale
  BY DEF Fail, MembersInv, TypeOK
<1>3. TypeOK'
  BY <1>1, <1>2 DEF Fail, MembersInv, TypeOK
<1>4. Holding(r)' /\ RequestOK(r)' /\ ~ Holds(r)'
  BY <1>1 DEF Holding, Holds, RequestOK
<1>5. OneOwner'
  BY <1>2, SameMembers DEF Fail, MembersInv
<1> QED
  BY <1>1, <1>3, <1>4, <1>5, StepOfOne DEF Fail, MembersInv

\* Steps that leave the members and the requests as they are.
LEMMA IdleInv ==
  ASSUME MembersInv, UNCHANGED <<member, pc, local, history>>, TypeOK'
  PROVE  MembersInv'
<1>1. OneOwner'
  BY SameMembers DEF MembersInv
<1> QED
  BY <1>1 DEF MembersInv, OneHolder, Holding, Holds, RequestOK

LEMMA CacheExpiresInv ==
  ASSUME MembersInv, NEW u \in User, CacheExpires(u)
  PROVE  MembersInv'
<1>1. cache' \in [User -> Entry] /\ \A v \in User : cache'[v].present <=> cache'[v].role # "none"
  BY DEF CacheExpires, MembersInv, TypeOK, Entry, NoEntry
<1>2. TypeOK'
  BY <1>1 DEF CacheExpires, MembersInv, TypeOK
<1> QED
  BY <1>2, IdleInv DEF CacheExpires

--------------------------------------------------------------------------
\* Every step keeps the inductive invariant.
THEOREM StepInv == MembersInv /\ [Next]_vars => MembersInv'
<1> SUFFICES ASSUME MembersInv, [Next]_vars
             PROVE  MembersInv'
  OBVIOUS
<1>1. ASSUME NEW r \in Request, Proceed(r)
      PROVE  MembersInv'
  BY <1>1, GuardFillInv, UpdateRoleWriteInv, RemoveWriteInv, TransferLockInv,
     TransferWorkspaceInv, TransferCommitInv, InvalidateInv, UpdateWorkspaceInv
     DEF Proceed
<1>2. ASSUME NEW r \in Request, NEW u \in User, Handle(r, u)
      PROVE  MembersInv'
  BY <1>2, GuardHitInv, GuardReadInv, AcceptInviteInv, UpdateRoleReadInv,
     RemoveReadInv, TransferReadInv
     DEF Handle
<1>3. CASE UNCHANGED vars
  <2>1. TypeOK'
    BY <1>3 DEF vars, MembersInv, TypeOK
  <2> QED
    BY <1>3, <2>1, IdleInv DEF vars
<1> QED
  BY <1>1, <1>2, <1>3, FailInv, CacheExpiresInv DEF Next

\* Every reachable state is well typed, and what is cached is the role of
\* some membership (getMembershipContext returns before it caches a miss).
THEOREM TypeCorrect == Spec => []TypeOK
<1>1. MembersInv => TypeOK
  BY DEF MembersInv
<1> QED
  BY InitInv, StepInv, <1>1, PTL DEF Spec

\* However many transfers race, there are never two owners; and the owner is
\* lost only by a role change or removal written after a promotion that it
\* has not seen (transferOwnership, updateMemberRole, removeMember).
THEOREM OneOwnerHolds == Spec => []OneOwner
<1>1. MembersInv => OneOwner
  BY DEF MembersInv
<1> QED
  BY InitInv, StepInv, <1>1, PTL DEF Spec

--------------------------------------------------------------------------
(* The workspaces row names the owner.  Between the two writes of a        *)
(* transfer it names the member who becomes the owner at the commit, and   *)
(* as only one transfer holds locks (OneHolder), nobody else writes it.    *)

Excused == history.stale \/ history.missed \/ history.torn
Committing(r) == pc[r] = "transfer.commit"

RecordInv ==
  \/ Excused
  \/ /\ \A r \in Request : Committing(r) => ws.owner = local[r].target
     /\ (\E r \in Request : Committing(r)) \/ member[ws.owner].role = "owner"

\* What a step leaves behind that neither enters nor leaves a commit.
LEMMA RecordKept ==
  ASSUME RecordInv, NEW r \in Request,
         \A q \in Request : q # r => pc'[q] = pc[q] /\ local'[q] = local[q],
         ~ Committing(r), ~ Committing(r)',
         ws'.owner = ws.owner,
         Excused => Excused',
         ~ Excused' => (member[ws.owner].role = "owner" => member'[ws.owner].role = "owner")
  PROVE  RecordInv'
<1> SUFFICES ASSUME ~ Excused'
             PROVE  /\ \A q \in Request : Committing(q)' => ws'.owner = local'[q].target
                    /\ (\E q \in Request : Committing(q)') \/ member'[ws'.owner].role = "owner"
  BY DEF RecordInv
<1>1. ~ Excused
  OBVIOUS
<1>2. \A q \in Request : Committing(q)' <=> Committing(q)
  BY DEF Committing
<1>3. \A q \in Request : Committing(q) => q # r
  OBVIOUS
<1> QED
  BY <1>1, <1>2, <1>3 DEF RecordInv

LEMMA RecordOther ==
  ASSUME MembersInv, RecordInv, NEW r \in Request,
         ~ Committing(r), UNCHANGED <<member, history>>,
         UpdateWorkspace(r) \/ UNCHANGED ws,
         \A q \in Request : q # r => pc'[q] = pc[q] /\ local'[q] = local[q],
         ~ Committing(r)'
  PROVE  RecordInv'
<1>1. ws'.owner = ws.owner
  <2>1. ws \in Workspace
    BY DEF MembersInv, TypeOK
  <2> QED
    BY <2>1 DEF UpdateWorkspace, Write, Workspace
<1> QED
  BY <1>1, RecordKept DEF Excused

\* The steps before a transfer holds its locks, and those of other requests.
LEMMA RecordHandle ==
  ASSUME MembersInv, RecordInv, NEW r \in Request, NEW u \in User, Handle(r, u)
  PROVE  RecordInv'
<1>1. /\ pc[r] \in {"new", "handle"}
      /\ \E l : \E s \in {"handle", "guard.fill", "update.write", "remove.write",
                          "transfer.lock", "invalidate"} : Go(r, l, s)
  BY DEF Handle, GuardHit, GuardRead, AcceptInvite, UpdateRoleRead, RemoveRead, TransferRead
<1>2. /\ \A q \in Request : q # r => pc'[q] = pc[q] /\ local'[q] = local[q]
      /\ ~ Committing(r) /\ ~ Committing(r)'
  BY <1>1 DEF Go, Goto, Committing, MembersInv, TypeOK
<1>3. ws' = ws /\ history' = history
  BY DEF Handle, GuardHit, GuardRead, AcceptInvite, UpdateRoleRead, RemoveRead, TransferRead
<1>4. member[ws.owner].role = "owner" => member'[ws.owner] = member[ws.owner]
  <2>1. CASE AcceptInvite(r, u)
    <3>1. member[u].role # "owner"
      BY <2>1 DEF AcceptInvite, IsMember
    <3>2. \A v \in User : v # u => member'[v] = member[v]
      BY <2>1 DEF AcceptInvite, MembersInv, TypeOK
    <3> QED
      BY <3>1, <3>2 DEF MembersInv, TypeOK, Workspace
  <2>2. CASE UNCHANGED member
    BY <2>2
  <2> QED
    BY <2>1, <2>2 DEF Handle, GuardHit, GuardRead, UpdateRoleRead, RemoveRead, TransferRead
<1> QED
  BY <1>2, <1>3, <1>4, RecordKept DEF Excused

LEMMA RecordWrite ==
  ASSUME MembersInv, RecordInv, NEW r \in Request, UpdateRoleWrite(r) \/ RemoveWrite(r)
  PROVE  RecordInv'
<1> DEFINE u == local[r].target
<1>1. pc[r] \in {"update.write", "remove.write"} /\ Note(r) /\ ws' = ws
  BY DEF UpdateRoleWrite, RemoveWrite
<1>2. /\ u \in User
      /\ ~ history'.stale => ~ history.stale /\ member[u].role # "owner"
  BY <1>1, NoteStale
<1>3. history'.missed = history.missed /\ history'.torn = history.torn
  BY <1>1 DEF Note, MembersInv, TypeOK
<1>4. \A v \in User : v # u => member'[v] = member[v]
  BY <1>2 DEF UpdateRoleWrite, RemoveWrite, MembersInv, TypeOK
<1>5. /\ \A q \in Request : q # r => pc'[q] = pc[q] /\ local'[q] = local[q]
      /\ ~ Committing(r) /\ ~ Committing(r)'
  BY <1>1 DEF UpdateRoleWrite, RemoveWrite, Go, Goto, Committing, MembersInv, TypeOK
<1>6. ws.owner \in User
  BY DEF MembersInv, TypeOK, Workspace
<1> QED
  BY <1>1, <1>2, <1>3, <1>4, <1>5, <1>6, RecordKept DEF Excused

LEMMA RecordTransferLock ==
  ASSUME MembersInv, RecordInv, NEW r \in Request, TransferLock(r)
  PROVE  RecordInv'
<1>1. /\ ~ Committing(r)
      /\ UNCHANGED <<member, ws, history>>
  BY DEF TransferLock, Committing
<1>2. /\ \A q \in Request : q # r => pc'[q] = pc[q] /\ local'[q] = local[q]
      /\ ~ Committing(r)'
  BY DEF TransferLock, Return, Goto, Committing, MembersInv, TypeOK
<1> QED
  BY <1>1, <1>2, RecordOther

\* The row gets the name of the next owner, or the update is noted as missed.
LEMMA RecordTransferWorkspace ==
  ASSUME MembersInv, RecordInv, NEW r \in Request, TransferWorkspace(r)
  PROVE  RecordInv'
<1>1. pc' = [pc EXCEPT ![r] = "transfer.commit"] /\ local' = local /\ member' = member
  BY DEF TransferWorkspace, Goto
<1>2. \A q \in Request : Committing(q)' => q = r
  <2>1. Holds(r)
    BY DEF TransferWorkspace, Holds
  <2>2. \A q \in Request : q # r => ~ Holds(q)
    BY <2>1 DEF MembersInv, OneHolder
  <2> QED
    BY <1>1, <2>2 DEF Committing, Holds, MembersInv, TypeOK
<1>3. Committing(r)'
  BY <1>1 DEF Committing, MembersInv, TypeOK
<1>4. CASE history'.missed
  BY <1>4 DEF RecordInv, Excused
<1>5. CASE ~ history'.missed
  <2>1. Write([ws EXCEPT !.owner = local[r].target])
    BY <1>5 DEF TransferWorkspace, MembersInv, TypeOK
  <2>2. ws'.owner = local[r].target
    BY <2>1 DEF Write, MembersInv, TypeOK, Workspace
  <2> QED
    BY <1>1, <1>2, <1>3, <2>2 DEF RecordInv
<1> QED
  BY <1>4, <1>5

\* The commit makes the user an owner whom the row already names.
LEMMA RecordTransferCommit ==
  ASSUME MembersInv, RecordInv, NEW r \in Request, TransferCommit(r)
  PROVE  RecordInv'
<1> DEFINE u == local[r].target
           v == local[r].actor
<1>1. Holds(r) /\ Committing(r)
  BY DEF TransferCommit, Holds, Committing
<1>2. u \in User /\ v \in User /\ v # u
  BY <1>1 DEF MembersInv, Holding
<1>3. UNCHANGED <<ws, history>>
  BY DEF TransferCommit
<1>4. member'[u].role = "owner"
  BY <1>2 DEF TransferCommit, MembersInv, TypeOK, Member
<1>5. \A q \in Request : ~ Committing(q)'
  <2>1. \A q \in Request : q # r => ~ Holds(q)
    BY <1>1 DEF MembersInv, OneHolder
  <2>2. pc' = [pc EXCEPT ![r] = "invalidate"]
    BY DEF TransferCommit, Go, Goto
  <2> QED
    BY <2>1, <2>2 DEF Committing, Holds, MembersInv, TypeOK
<1> QED
  BY <1>1, <1>3, <1>4, <1>5 DEF RecordInv, Excused

LEMMA RecordInvalidate ==
  ASSUME MembersInv, RecordInv, NEW r \in Request, Invalidate(r)
  PROVE  RecordInv'
<1>1. ~ Committing(r) /\ UNCHANGED <<member, ws>>
  BY DEF Invalidate, Committing
<1>2. /\ \A q \in Request : q # r => pc'[q] = pc[q] /\ local'[q] = local[q]
      /\ ~ Committing(r)'
  BY DEF Invalidate, Return, Goto, Committing, MembersInv, TypeOK
<1>3. Excused' = Excused
  BY DEF Invalidate, Excused, MembersInv, TypeOK
<1> QED
  BY <1>1, <1>2, <1>3, RecordKept

LEMMA RecordFail ==
  ASSUME MembersInv, RecordInv, NEW r \in Request, Fail(r)
  PROVE  RecordInv'
<1>1. UNCHANGED <<member, ws>>
  BY DEF Fail
<1>2. /\ \A q \in Request : q # r => pc'[q] = pc[q] /\ local'[q] = local[q]
      /\ ~ Committing(r)'
  BY DEF Fail, Return, Goto, Committing, MembersInv, TypeOK
<1>3. /\ Excused => Excused'
      /\ Committing(r) => Excused'
  <2>1. history'.stale = history.stale /\ history'.missed = history.missed
        /\ history'.torn = (history.torn \/ (pc[r] = "transfer.commit"))
    BY DEF Fail, MembersInv, TypeOK
  <2> QED
    BY <2>1 DEF Excused, Committing
<1>4. CASE Committing(r)
  BY <1>3, <1>4 DEF RecordInv
<1>5. CASE ~ Committing(r)
  BY <1>1, <1>2, <1>3, <1>5, RecordKept
<1> QED
  BY <1>4, <1>5

LEMMA RecordStep ==
  ASSUME MembersInv, RecordInv, [Next]_vars
  PROVE  RecordInv'
<1>1. ASSUME NEW r \in Request, GuardFill(r)
      PROVE  RecordInv'
  <2>1. ~ Committing(r) /\ ~ Committing(r)' /\ UNCHANGED <<member, ws, history>>
        /\ \A q \in Request : q # r => pc'[q] = pc[q] /\ local'[q] = local[q]
    BY <1>1 DEF GuardFill, Goto, Committing, MembersInv, TypeOK
  <2> QED
    BY <2>1, RecordOther
<1>2. ASSUME NEW r \in Request, UpdateWorkspace(r)
      PROVE  RecordInv'
  <2>1. ~ Committing(r) /\ ~ Committing(r)' /\ UNCHANGED <<member, history>>
        /\ \A q \in Request : q # r => pc'[q] = pc[q] /\ local'[q] = local[q]
    BY <1>2 DEF UpdateWorkspace, Return, Goto, Committing, MembersInv, TypeOK
  <2> QED
    BY <1>2, <2>1, RecordOther
<1>3. ASSUME NEW r \in Request, Proceed(r)
      PROVE  RecordInv'
  BY <1>1, <1>2, <1>3, RecordWrite, RecordTransferLock, RecordTransferWorkspace,
     RecordTransferCommit, RecordInvalidate
     DEF Proceed
<1>4. ASSUME NEW u \in User, CacheExpires(u)
      PROVE  RecordInv'
  BY <1>4 DEF CacheExpires, RecordInv, Excused, Committing
<1>5. CASE UNCHANGED vars
  BY <1>5 DEF vars, RecordInv, Excused, Committing
<1> QED
  BY <1>3, <1>4, <1>5, RecordHandle, RecordFail DEF Next

\* ownerUserId names the owner whenever no transfer is between its two
\* writes, unless a stale write took the owner away, or an update of the
\* workspaces row missed it or was not followed by its commit
\* (transferOwnership, updateWithVersion).
THEOREM OwnerRecordedHolds == Spec => []OwnerRecorded
<1>1. Init => RecordInv
  BY DEF Init, RecordInv, Committing
<1>2. MembersInv /\ RecordInv /\ [Next]_vars => RecordInv'
  BY RecordStep
<1>3. RecordInv => OwnerRecorded
  BY DEF RecordInv, Excused, Committing, OwnerRecorded
<1> QED
  BY InitInv, StepInv, <1>1, <1>2, <1>3, PTL DEF Spec

--------------------------------------------------------------------------
(* What the cache holds.  CacheFresh is inductive beside MembersInv: a     *)
(* guard that caches a role that has changed is noted (late), and every    *)
(* change of a membership leaves the deletion of the entry to its request. *)

Pending(r, u) ==
  /\ pc[r] = "invalidate"
  /\ \E i \in 1 .. 2 : i <= Len(local[r].dirty) /\ local[r].dirty[i] = u

Stale(u) == cache[u].present /\ cache[u].role # member[u].role

\* A step of one request may add a difference only if it accounts for it.
LEMMA FreshKept ==
  ASSUME MembersInv, CacheFresh, NEW r \in Request,
         \A q \in Request : q # r => pc'[q] = pc[q] /\ local'[q] = local[q],
         history.lost => history'.lost,
         \A u \in User : Stale(u)' =>
           \/ cache'[u].late \/ history'.lost \/ Pending(r, u)'
           \/ ~ Pending(r, u) /\ cache'[u] = cache[u] /\ member'[u] = member[u]
  PROVE  CacheFresh'
<1> SUFFICES ASSUME NEW u \in User, Stale(u)', ~ cache'[u].late, ~ history'.lost
             PROVE  \E q \in Request : Pending(q, u)'
  BY DEF CacheFresh, Stale, Pending
<1>1. CASE Pending(r, u)'
  BY <1>1
<1>2. CASE ~ Pending(r, u) /\ cache'[u] = cache[u] /\ member'[u] = member[u]
  <2>1. Stale(u) /\ ~ cache[u].late /\ ~ history.lost
    BY <1>2 DEF Stale
  <2>2. PICK q \in Request : Pending(q, u)
    BY <2>1 DEF CacheFresh, Stale, Pending
  <2>3. Pending(q, u)'
    BY <1>2, <2>2 DEF Pending
  <2> QED
    BY <2>3
<1> QED
  BY <1>1, <1>2

\* Steps that change neither a membership nor the cache.
LEMMA FreshOther ==
  ASSUME MembersInv, CacheFresh, NEW r \in Request,
         \A q \in Request : q # r => pc'[q] = pc[q] /\ local'[q] = local[q],
         UNCHANGED <<member, cache>>,
         history.lost => history'.lost,
         pc[r] # "invalidate" \/ history'.lost
  PROVE  CacheFresh'
BY FreshKept DEF Pending

\* The request that changes the memberships of two users (of one, if u = v)
\* has both in the list of the entries to delete.
LEMMA FreshWrite ==
  ASSUME MembersInv, CacheFresh, NEW r \in Request, NEW u \in User, NEW v \in User,
         \A q \in Request : q # r => pc'[q] = pc[q] /\ local'[q] = local[q],
         \A w \in User : w # u /\ w # v => member'[w] = member[w],
         UNCHANGED cache,
         history'.lost = history.lost,
         pc[r] # "invalidate",
         Pending(r, u)', Pending(r, v)'
  PROVE  CacheFresh'
BY FreshKept DEF Pending

LEMMA OneDirty ==
  ASSUME NEW u \in User, NEW r \in Request, pc'[r] = "invalidate", local'[r].dirty = <<u>>
  PROVE  Pending(r, u)'
<1>1. 1 \in 1 .. 2 /\ 1 <= Len(<<u>>) /\ <<u>>[1] = u
  OBVIOUS
<1> QED
  BY <1>1 DEF Pending

LEMMA TwoDirty ==
  ASSUME NEW u \in User, NEW v \in User, NEW r \in Request,
         pc'[r] = "invalidate", local'[r].dirty = <<v, u>>
  PROVE  Pending(r, u)' /\ Pending(r, v)'
<1>1. /\ 1 \in 1 .. 2 /\ 1 <= Len(<<v, u>>) /\ <<v, u>>[1] = v
      /\ 2 \in 1 .. 2 /\ 2 <= Len(<<v, u>>) /\ <<v, u>>[2] = u
  OBVIOUS
<1> QED
  BY <1>1 DEF Pending

LEMMA FreshHandle ==
  ASSUME MembersInv, CacheFresh, NEW r \in Request, NEW u \in User, Handle(r, u)
  PROVE  CacheFresh'
<1>1. /\ pc[r] \in {"new", "handle"}
      /\ \E l, s : Go(r, l, s)
      /\ UNCHANGED <<cache, history>>
  BY DEF Handle, GuardHit, GuardRead, AcceptInvite, UpdateRoleRead, RemoveRead, TransferRead
<1>2. \A q \in Request : q # r => pc'[q] = pc[q] /\ local'[q] = local[q]
  BY <1>1 DEF Go, Goto, MembersInv, TypeOK
<1>3. CASE AcceptInvite(r, u)
  <2> DEFINE l == [NoLocal EXCEPT !.actor = u, !.dirty = <<u>>]
  <2>1. pc'[r] = "invalidate" /\ local'[r] = l
    BY <1>3 DEF AcceptInvite, Go, Goto, MembersInv, TypeOK
  <2>2. l.dirty = <<u>>
    BY DEF NoLocal
  <2>3. Pending(r, u)'
    BY <2>1, <2>2, OneDirty
  <2>4. \A w \in User : w # u => member'[w] = member[w]
    BY <1>3 DEF AcceptInvite, MembersInv, TypeOK
  <2> QED
    BY <1>1, <1>2, <2>3, <2>4, FreshWrite
<1>4. CASE UNCHANGED member
  BY <1>1, <1>2, <1>4, FreshOther
<1> QED
  BY <1>3, <1>4 DEF Handle, GuardHit, GuardRead, UpdateRoleRead, RemoveRead, TransferRead

LEMMA FreshGuardFill ==
  ASSUME MembersInv, CacheFresh, NEW r \in Request, GuardFill(r)
  PROVE  CacheFresh'
<1>1. /\ pc[r] = "guard.fill" /\ UNCHANGED <<member, local, history>>
      /\ \A q \in Request : q # r => pc'[q] = pc[q]
  BY DEF GuardFill, Goto, MembersInv, TypeOK
<1>2. PICK a \in User : a = local[r].actor
  BY <1>1 DEF MembersInv, RequestOK
<1>3. /\ \A v \in User : v # a => cache'[v] = cache[v]
      /\ cache'[a] = cache[a] \/ (cache'[a].role # member[a].role => cache'[a].late)
  <2> DEFINE late == local[r].role # member[a].role
             e == [present |-> TRUE, role |-> local[r].role, late |-> late]
  <2>1. e.role # member[a].role => e.late
    OBVIOUS
  <2>2. cache' = [cache EXCEPT ![a] = e] \/ cache' = cache
    BY <1>2 DEF GuardFill
  <2> HIDE DEF e
  <2> QED
    BY <2>1, <2>2 DEF MembersInv, TypeOK
<1> QED
  BY <1>1, <1>3, FreshKept DEF Pending, Stale

LEMMA FreshRoleWrite ==
  ASSUME MembersInv, CacheFresh, NEW r \in Request, UpdateRoleWrite(r) \/ RemoveWrite(r)
  PROVE  CacheFresh'
<1>1. pc[r] \in {"update.write", "remove.write"} /\ Note(r) /\ UNCHANGED cache
      /\ Go(r, [local[r] EXCEPT !.dirty = <<local[r].target>>], "invalidate")
  BY DEF UpdateRoleWrite, RemoveWrite
<1>2. PICK u \in User : u = local[r].target
  BY <1>1, NoteStale
<1>3. history'.lost = history.lost
  BY <1>1 DEF Note, MembersInv, TypeOK
<1>4. \A w \in User : w # u => member'[w] = member[w]
  BY <1>2 DEF UpdateRoleWrite, RemoveWrite, MembersInv, TypeOK
<1>5. /\ \A q \in Request : q # r => pc'[q] = pc[q] /\ local'[q] = local[q]
      /\ pc'[r] = "invalidate" /\ local'[r] = [local[r] EXCEPT !.dirty = <<u>>]
  BY <1>1, <1>2 DEF Go, Goto, MembersInv, TypeOK
<1>6. local'[r].dirty = <<u>>
  BY <1>5 DEF MembersInv, TypeOK, Local
<1>7. Pending(r, u)'
  BY <1>2, <1>5, <1>6, OneDirty
<1> QED
  BY <1>1, <1>3, <1>4, <1>5, <1>7, FreshWrite

LEMMA FreshTransferCommit ==
  ASSUME MembersInv, CacheFresh, NEW r \in Request, TransferCommit(r)
  PROVE  CacheFresh'
<1>1. pc[r] = "transfer.commit" /\ UNCHANGED <<cache, history>>
      /\ Go(r, [local[r] EXCEPT !.dirty = <<local[r].actor, local[r].target>>], "invalidate")
  BY DEF TransferCommit
<1>2. PICK u \in User, v \in User : u = local[r].target /\ v = local[r].actor
  BY <1>1 DEF MembersInv, Holding, Holds
<1>3. \A w \in User : w # u /\ w # v => member'[w] = member[w]
  BY <1>2 DEF TransferCommit, MembersInv, TypeOK
<1>4. /\ \A q \in Request : q # r => pc'[q] = pc[q] /\ local'[q] = local[q]
      /\ pc'[r] = "invalidate" /\ local'[r] = [local[r] EXCEPT !.dirty = <<v, u>>]
  BY <1>1, <1>2 DEF Go, Goto, MembersInv, TypeOK
<1>5. local'[r].dirty = <<v, u>>
  BY <1>4 DEF MembersInv, TypeOK, Local
<1>6. Pending(r, u)' /\ Pending(r, v)'
  BY <1>2, <1>4, <1>5, TwoDirty
<1> QED
  BY <1>1, <1>3, <1>4, <1>6, FreshWrite

\* The head of the list is deleted, the rest is still to be.
LEMMA FreshInvalidate ==
  ASSUME MembersInv, CacheFresh, NEW r \in Request, Invalidate(r)
  PROVE  CacheFresh'
<1> DEFINE d == local[r].dirty
<1>1. d \in Seq(User) /\ d # << >> /\ Head(d) \in User /\ pc[r] = "invalidate" /\ local[r] \in Local
  BY DEF Invalidate, MembersInv, RequestOK, TypeOK, Local
<1>2. \A q \in Request : q # r => pc'[q] = pc[q] /\ local'[q] = local[q]
  BY DEF Invalidate, Return, Goto, MembersInv, TypeOK
<1>3. history.lost => history'.lost
  BY DEF Invalidate, MembersInv, TypeOK
<1>4. CASE history'.lost
  BY <1>2, <1>3, <1>4, FreshKept
<1>5. CASE ~ history'.lost
  <2>1. cache' = [cache EXCEPT ![Head(d)] = NoEntry] /\ member' = member
    BY <1>5 DEF Invalidate, MembersInv, TypeOK
  <2>2. ASSUME NEW u \in User, Stale(u)'
        PROVE  Pending(r, u)' \/ (~ Pending(r, u) /\ cache'[u] = cache[u] /\ member'[u] = member[u])
    <3>1. u # Head(d) /\ cache'[u] = cache[u]
      BY <1>1, <2>1, <2>2 DEF Stale, NoEntry, MembersInv, TypeOK
    <3>2. ASSUME Pending(r, u)
          PROVE  Pending(r, u)'
      <4>1. 2 <= Len(d) /\ d[2] = u
        BY <1>1, <3>1, <3>2 DEF Pending
      <4>2. Len(Tail(d)) >= 1 /\ Tail(d)[1] = u
        BY <1>1, <4>1
      <4>3. Len(d) > 1
        BY <1>1, <4>1
      <4>4. pc'[r] = "invalidate" /\ local'[r].dirty = Tail(d)
        BY <1>1, <4>3 DEF Invalidate, MembersInv, TypeOK, Local
      <4>5. 1 \in 1 .. 2 /\ 1 <= Len(Tail(d))
        BY <1>1, <4>2
      <4> QED
        BY <4>2, <4>4, <4>5 DEF Pending
    <3> QED
      BY <2>1, <3>1, <3>2
  <2> QED
    BY <1>2, <1>3, <2>2, FreshKept
<1> QED
  BY <1>4, <1>5

LEMMA FreshStep ==
  ASSUME MembersInv, CacheFresh, [Next]_vars
  PROVE  CacheFresh'
<1>1. ASSUME NEW r \in Request,
             TransferLock(r) \/ TransferWorkspace(r) \/ UpdateWorkspace(r)
      PROVE  CacheFresh'
  <2>1. pc[r] # "invalidate" /\ UNCHANGED <<member, cache>>
    BY <1>1 DEF TransferLock, TransferWorkspace, UpdateWorkspace
  <2>2. \A q \in Request : q # r => pc'[q] = pc[q] /\ local'[q] = local[q]
    BY <1>1 DEF TransferLock, TransferWorkspace, UpdateWorkspace, Return, Goto, MembersInv, TypeOK
  <2>3. history'.lost = history.lost
    BY <1>1 DEF TransferLock, TransferWorkspace, UpdateWorkspace, MembersInv, TypeOK
  <2> QED
    BY <2>1, <2>2, <2>3, FreshOther
<1>2. ASSUME NEW r \in Request, Fail(r)
      PROVE  CacheFresh'
  <2>1. UNCHANGED <<member, cache>>
    BY <1>2 DEF Fail
  <2>2. \A q \in Request : q # r => pc'[q] = pc[q] /\ local'[q] = local[q]
    BY <1>2 DEF Fail, Return, Goto, MembersInv, TypeOK
  <2>3. history'.lost = (history.lost \/ (pc[r] = "invalidate"))
    BY <1>2 DEF Fail, MembersInv, TypeOK
  <2> QED
    BY <2>1, <2>2, <2>3, FreshOther
<1>3. ASSUME NEW r \in Request, Proceed(r)
      PROVE  CacheFresh'
  BY <1>1, <1>3, FreshGuardFill, FreshRoleWrite, FreshTransferCommit, FreshInvalidate
     DEF Proceed
<1>4. ASSUME NEW u \in User, CacheExpires(u)
      PROVE  CacheFresh'
  <2>1. \A v \in User : Stale(v)' => Stale(v) /\ cache'[v] = cache[v]
    BY <1>4 DEF CacheExpires, Stale, NoEntry, MembersInv, TypeOK
  <2>2. UNCHANGED <<pc, local, history>>
    BY <1>4 DEF CacheExpires
  <2> QED
    BY <2>1, <2>2 DEF CacheFresh, Stale
<1>5. CASE UNCHANGED vars
  BY <1>5 DEF vars, CacheFresh
<1> QED
  BY <1>2, <1>3, <1>4, <1>5, FreshHandle DEF Next

\* A cached role differs from the membership only while the deletion of the
\* entry is on the way, if it was lost, or if a guard cached a role that had
\* changed since it read it (getMembershipContext, rbac.invalidate).
THEOREM CacheFreshHolds == Spec => []CacheFresh
<1>1. Init => CacheFresh
  BY DEF Init, NoEntry, CacheFresh
<1>2. MembersInv /\ CacheFresh /\ [Next]_vars => CacheFresh'
  BY FreshStep
<1> QED
  BY InitInv, StepInv, <1>1, <1>2, PTL DEF Spec
============================================================================
