------------------------------ MODULE Invites ------------------------------
(***************************************************************************)
(* Invitations to one workspace (inviteUser and acceptInvite of            *)
(* AuthService): the member limit that is checked when an invitation is    *)
(* made and not when it is accepted, the revocation of earlier invitations *)
(* of the same email, and the account that an acceptance creates.  What a  *)
(* membership is worth afterwards is the subject of WorkspaceMembers.      *)
(***************************************************************************)
EXTENDS Handlers, Naturals, FiniteSets

CONSTANTS
  Invitee,      \* emails, each of one person
  MaxMembers    \* PLAN_LIMITS[plan].maxMembers

ASSUME InviteesAssumption ==
  IsFiniteSet(Invitee) /\ Invitee # {} /\ MaxMembers \in Nat \ {0}

VARIABLES
  users,    \* the invitees that have an account
  joined,   \* those that are members; the owner is one more
  invites,  \* invites[r], the row that request r has inserted
  inviteHistory

inviteState == <<users, joined, invites, inviteHistory>>
inviteVars == <<inviteState, pc, local>>

\* seen: the members that were counted for the invitation.
Invite == [state: {"none", "open", "accepted", "closed"}, email: Invitee, seen: Nat]

\* revoking: the open rows that the UPDATE of the transaction has locked.
InviteLocal == [op: {"invite"}, email: Invitee, seen: Nat, revoking: SUBSET Request]

\* overlapped: emails invited by two transactions at once; late: joins by an
\* invitation with fewer members counted than there were at the join.
InviteHistory == [overlapped: SUBSET Invitee, late: Nat]

InviteInit ==
  /\ HandlersInit
  /\ users = {}
  /\ joined = {}
  /\ invites = [r \in Request |-> [state |-> "none", email |-> CHOOSE e \in Invitee : TRUE, seen |-> 0]]
  /\ inviteHistory = [overlapped |-> {}, late |-> 0]

Members == Cardinality(joined) + 1
OpenInvites(e) == {t \in Request : invites[t].state = "open" /\ invites[t].email = e}
Revoking(t) == \E s \in Request : pc[s] = "invite.insert" /\ t \in local[s].revoking

--------------------------------------------------------------------------
\* Mutant of CountMembers: one member too many.
CountMembers_Inclusive(r, e) ==
  /\ pc[r] = "new"
  /\ Members <= MaxMembers
  /\ Go(r, [op |-> "invite", email |-> e, seen |-> Members, revoking |-> {}], "invite.revoke")
  /\ UNCHANGED <<users, joined, invites, inviteHistory>>

CountMembers(r, e) ==
  /\ pc[r] = "new"
  /\ Members < MaxMembers
  /\ Go(r, [op |-> "invite", email |-> e, seen |-> Members, revoking |-> {}], "invite.revoke")
  /\ UNCHANGED <<users, joined, invites, inviteHistory>>

\* The UPDATE waits for rows that another transaction is revoking, and does
\* not see a row that is not committed.
RevokeOpen(r) ==
  LET e == local[r].email IN
  /\ pc[r] = "invite.revoke"
  /\ IF e \in joined
     THEN Return(r, "failed")
     ELSE /\ \A t \in OpenInvites(e) : ~ Revoking(t)
          /\ Go(r, [local[r] EXCEPT !.revoking = OpenInvites(e)], "invite.insert")
  /\ UNCHANGED <<users, joined, invites, inviteHistory>>

\* Inserts and commits; a mail that cannot be sent fails the request and
\* leaves the invitation open.
InsertInvite(r) ==
  LET l == local[r] IN
  /\ pc[r] = "invite.insert"
  /\ invites' = [t \in Request |->
                  IF t = r THEN [state |-> "open", email |-> l.email, seen |-> l.seen]
                  ELSE IF t \in l.revoking THEN [invites[t] EXCEPT !.state = "closed"]
                  ELSE invites[t]]
  /\ inviteHistory' = [inviteHistory EXCEPT !.overlapped =
                  IF OpenInvites(l.email) \subseteq l.revoking THEN @ ELSE @ \union {l.email}]
  /\ Return(r, "done") \/ (Faults # {} /\ Return(r, "failed"))
  /\ UNCHANGED <<users, joined>>

\* One transaction from the invitation FOR UPDATE on.  authed: the request
\* is that of the invitee's account; without an account one is created.
AcceptInvitation(t, authed) ==
  LET e == invites[t].email IN
  /\ invites[t].state = "open"
  /\ ~ Revoking(t)
  /\ authed = (e \in users)
  /\ users' = users \union {e}
  /\ joined' = joined \union {e}
  /\ invites' = [invites EXCEPT ![t].state = "accepted"]
  /\ inviteHistory' = [inviteHistory EXCEPT !.late =
                  IF e \notin joined /\ Members > invites[t].seen THEN @ + 1 ELSE @]
  /\ UNCHANGED <<pc, local>>

InviteExpires(t) ==
  /\ invites[t].state = "open"
  /\ ~ Revoking(t)
  /\ invites' = [invites EXCEPT ![t].state = "closed"]
  /\ UNCHANGED <<users, joined, pc, local, inviteHistory>>

\* removeMember of WorkspaceService, and signup.
LeaveWorkspace(e) ==
  /\ e \in joined
  /\ joined' = joined \ {e}
  /\ UNCHANGED <<users, invites, pc, local, inviteHistory>>

SignUpInvitee(e) ==
  /\ e \notin users
  /\ users' = users \union {e}
  /\ UNCHANGED <<joined, invites, pc, local, inviteHistory>>

FailInvite(r) == Stop(r) /\ UNCHANGED <<users, joined, invites, inviteHistory>>

InviteRequest(r) ==
  \/ \E e \in Invitee : CountMembers(r, e)
  \/ RevokeOpen(r) \/ InsertInvite(r)
  \/ FailInvite(r)

InviteNext ==
  \/ \E r \in Request : InviteRequest(r)
  \/ \E t \in Request : InviteExpires(t) \/ \E authed \in BOOLEAN : AcceptInvitation(t, authed)
  \/ \E e \in Invitee : LeaveWorkspace(e) \/ SignUpInvitee(e)

InviteSpec == InviteInit /\ [][InviteNext]_inviteVars

--------------------------------------------------------------------------
InviteTypeOK ==
  /\ joined \subseteq users /\ users \subseteq Invitee
  /\ invites \in [Request -> Invite]
  /\ pc \in [Request -> {"new", "invite.revoke", "invite.insert", "done", "failed"}]
  /\ local \in [Request -> InviteLocal \union {Nothing}]
  /\ inviteHistory \in InviteHistory

\* The plan's member limit is exceeded by no more than the people who joined
\* by an invitation whose count of members had gone out of date: nothing
\* counts again on acceptance.  And only transactions that overlapped leave
\* two open invitations of one email, so that the last one sent need not be
\* the only one that works.
InvitesBounded ==
  /\ Members <= MaxMembers + inviteHistory.late
  /\ \A e \in Invitee \ inviteHistory.overlapped : Cardinality(OpenInvites(e)) <= 1
==========================================================================
