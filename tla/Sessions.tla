---------------------------- MODULE Sessions ----------------------------
(***************************************************************************)
(* TokenService and the AuthService handlers built on it, for one user:    *)
(* login, refresh, logout, logout-all, revoke-session and the two ways to  *)
(* change a password, as concurrent HTTP requests, with the cron job that  *)
(* deletes expired rows.                                                   *)
(*                                                                         *)
(* A handler is cut at its awaits.  refresh holds a row lock from its      *)
(* SELECT ... FOR UPDATE to its commit, so it takes two steps and other    *)
(* statements wait for the row in between.  An UPDATE over many rows takes *)
(* two as well: the rows are found under the snapshot the statement began  *)
(* with, then locked and re-evaluated one by one; a row inserted in        *)
(* between is not seen.  Requests the handlers reject change nothing and   *)
(* are left out, but for the answer TOKEN_REUSE.                           *)
(*                                                                         *)
(* A row's index is its id, its place in created_at order, the token it is *)
(* the hash of and the jti of the access token signed with it.  Time is    *)
(* kept as three marks on that order: the rows up to a mark are out of     *)
(* their grace window, expired, deleted.                                   *)
(***************************************************************************)
EXTENDS Naturals, Sequences, FiniteSets

CONSTANTS
  Request,       \* HTTP requests, each made once
  MaxSessions,   \* config.MAX_SESSIONS_PER_USER
  Horizon,       \* bound: rows beyond it stay in their grace window
  Outdated,      \* TRUE: the first hash has an older bcrypt cost
  Faults         \* "crash": the API process stops inside a request

ASSUME SessionsAssumption ==
  /\ MaxSessions \in Nat \ {0}
  /\ Horizon \in Nat
  /\ Outdated \in BOOLEAN
  /\ Faults \subseteq {"crash"}

VARIABLES
  rows,     \* refresh_tokens, in order of insertion
  clock,    \* the three marks
  user,     \* the users row: which password it holds, how often it changed
  denied,   \* jtis in the Redis denylist
  sweeps,   \* revocations of all rows begun so far
  pc,       \* pc[r], the await request r stands at
  local     \* local[r], what the handler holds across its awaits

vars == <<rows, clock, user, denied, sweeps, pc, local>>

Token == 1 .. Len(rows)

\* revokedReason; "ended" stands for logout_all, user_revoked,
\* password_reset and password_changed.
Reason == {"active", "rotated", "session_cap", "logout", "ended"}

Step ==
  {"new", "login.rehash", "login.issue", "cap.rank", "cap.revoke", "rotate.commit",
   "change.write", "sweep.read", "sweep.write", "deny", "done", "reuse", "crashed"}

Over == {"done", "reuse", "crashed"}

\* family: the row the chain began with; prev: the row whose hash is
\* previousTokenHash (0: none); proof: the password its login proved;
\* late: the request that inserted the row overlapped a revokeAllForUser.
Row == [family: Nat, prev: Nat, revoked: Reason, proof: Nat, late: BOOLEAN]

Local == [token: Nat, doomed: SUBSET Nat, proof: Nat, began: Nat]
NoLocal == [token |-> 0, doomed |-> {}, proof |-> 0, began |-> 0]

\* The user has signed up, which issues the first row.
FirstRow == [family |-> 1, prev |-> 0, revoked |-> "active", proof |-> 0, late |-> FALSE]

Init ==
  /\ rows = <<FirstRow>>
  /\ clock = [lapsed |-> 0, expired |-> 0, cleaned |-> 0]
  /\ user = [password |-> 0, changes |-> 0, outdated |-> Outdated]
  /\ denied = {}
  /\ sweeps = 0
  /\ pc = [r \in Request |-> "new"]
  /\ local = [r \in Request |-> NoLocal]

--------------------------------------------------------------------------
Kept(i) == i \in Token /\ i > clock.cleaned
Active(i) == Kept(i) /\ rows[i].revoked = "active"
Live(i) == Active(i) /\ i > clock.expired

\* Row locks held by transactions of refresh.
Locked == {local[r].token : r \in {q \in Request : pc[q] = "rotate.commit"}}

\* The rows rotate selects: the token's own and its successor's.
Found(i) == {j \in Token : Kept(j) /\ (j = i \/ rows[j].prev = i)}

\* authenticate: signed, not denylisted.
Bearer == Token \ denied

Revoke(S, reason) ==
  rows' = [i \in Token |-> IF i \in S THEN [rows[i] EXCEPT !.revoked = reason] ELSE rows[i]]

\* A revocation of all rows may have overlooked the row r inserts.
Late(r) == local[r].began < sweeps \/ \E q \in Request : pc[q] = "sweep.write"

Insert(older, row) == rows' = Append(older, row)

Goto(r, s) == pc' = [pc EXCEPT ![r] = s]

Keep(r, l) == local' = [local EXCEPT ![r] = l]

Return(r, outcome) == Goto(r, outcome) /\ Keep(r, NoLocal)

--------------------------------------------------------------------------
\* login: read the user and verify the password on what was read.
LoginVerify(r) ==
  /\ pc[r] = "new"
  /\ Keep(r, [NoLocal EXCEPT !.proof = user.password, !.began = sweeps])
  /\ Goto(r, IF user.outdated THEN "login.rehash" ELSE "login.issue")
  /\ UNCHANGED <<rows, clock, user, denied, sweeps>>

\* The password that was verified is hashed anew and stored by user id alone.
LoginRehash(r) ==
  /\ pc[r] = "login.rehash"
  /\ user' = [user EXCEPT !.password = local[r].proof, !.outdated = FALSE]
  /\ Goto(r, "login.issue")
  /\ UNCHANGED <<rows, clock, denied, sweeps, local>>

\* issueTokens: a row of a new family.
LoginIssue(r) ==
  /\ pc[r] = "login.issue"
  /\ Insert(rows,
       [family |-> Len(rows) + 1, prev |-> 0, revoked |-> "active",
        proof |-> local[r].proof, late |-> Late(r)])
  /\ Goto(r, "cap.rank")
  /\ UNCHANGED <<clock, user, denied, sweeps, local>>

\* ROW_NUMBER() OVER (ORDER BY created_at DESC) of a live row.
Rank(i) == Cardinality({j \in Token : Live(j) /\ j >= i})

\* Mutant of CapRank: one session more than the cap is left.
CapRank_OffByOne(r) ==
  /\ pc[r] = "cap.rank"
  /\ Keep(r, [local[r] EXCEPT !.doomed = {i \in Token : Live(i) /\ Rank(i) > MaxSessions + 1},
                              !.token = Len(rows)])
  /\ Goto(r, "cap.revoke")
  /\ UNCHANGED <<rows, clock, user, denied, sweeps>>

\* enforceSessionCap: the rows ranked beyond the cap (and, for CapEnforced,
\* the newest row the ranking saw) ...
CapRank(r) ==
  /\ pc[r] = "cap.rank"
  /\ Keep(r, [local[r] EXCEPT !.doomed = {i \in Token : Live(i) /\ Rank(i) > MaxSessions},
                              !.token = Len(rows)])
  /\ Goto(r, "cap.revoke")
  /\ UNCHANGED <<rows, clock, user, denied, sweeps>>

\* ... are revoked by id, also one that was revoked in the meantime.
CapRevoke(r) ==
  /\ pc[r] = "cap.revoke"
  /\ local[r].doomed \intersect Locked = {}
  /\ Revoke({i \in local[r].doomed : Kept(i)}, "session_cap")
  /\ Return(r, "done")
  /\ UNCHANGED <<clock, user, denied, sweeps>>

--------------------------------------------------------------------------
\* The row a refresh with token i goes on with: the token's own row if it
\* is there, else its successor inside the grace window.
Rotatable(i, j) ==
  IF Kept(i) THEN j = i /\ Live(i)
  ELSE rows[j].prev = i /\ Active(j) /\ j > clock.lapsed

\* Mutant of RefreshLock: the SELECT does not lock.
RefreshLock_NoLock(r, i) ==
  /\ pc[r] = "new"
  /\ \E j \in Found(i) :
       /\ Rotatable(i, j)
       /\ Keep(r, [NoLocal EXCEPT !.token = j, !.began = sweeps])
  /\ Goto(r, "rotate.commit")
  /\ UNCHANGED <<rows, clock, user, denied, sweeps>>

\* Mutant of RefreshLock: the grace path does not ask whether the successor
\* has been revoked.
RefreshLock_GraceRevives(r, i) ==
  /\ pc[r] = "new"
  /\ Found(i) \intersect Locked = {}
  /\ \E j \in Found(i) :
       /\ IF Kept(i) THEN j = i /\ Live(i) ELSE j > clock.lapsed
       /\ Keep(r, [NoLocal EXCEPT !.token = j, !.began = sweeps])
  /\ Goto(r, "rotate.commit")
  /\ UNCHANGED <<rows, clock, user, denied, sweeps>>

\* SELECT ... FOR UPDATE finds a row to rotate and locks it.
RefreshLock(r, i) ==
  /\ pc[r] = "new"
  /\ Found(i) \intersect Locked = {}
  /\ \E j \in Found(i) :
       /\ Rotatable(i, j)
       /\ Keep(r, [NoLocal EXCEPT !.token = j, !.began = sweeps])
  /\ Goto(r, "rotate.commit")
  /\ UNCHANGED <<rows, clock, user, denied, sweeps>>

\* The token is spent: compromiseFamilyTx revokes the family, but in the
\* transaction that the TokenReuseError thrown next rolls back.
RefreshReuse(r, i) ==
  /\ pc[r] = "new"
  /\ Found(i) # {}
  /\ Found(i) \intersect Locked = {}
  /\ ~ \E j \in Found(i) : Rotatable(i, j)
  /\ Kept(i) => rows[i].revoked # "active"
  /\ Goto(r, "reuse")
  /\ Keep(r, [NoLocal EXCEPT !.token = i])
  /\ UNCHANGED <<rows, clock, user, denied, sweeps>>

\* The successor is inserted, the old row marked rotated, by id.
RefreshCommit(r) ==
  LET old == local[r].token IN
  /\ pc[r] = "rotate.commit"
  /\ Insert([rows EXCEPT ![old].revoked = "rotated"],
       [family |-> rows[old].family, prev |-> old, revoked |-> "active",
        proof |-> rows[old].proof, late |-> rows[old].late \/ Late(r)])
  /\ Return(r, "done")
  /\ UNCHANGED <<clock, user, denied, sweeps>>

--------------------------------------------------------------------------
\* revokeByPlaintext; the denylist then gets the jti of the bearer, which
\* need not be the row's.
Logout(r, i, bearer) ==
  /\ pc[r] = "new"
  /\ bearer \in Bearer
  /\ i \notin Locked
  /\ Revoke({i} \intersect {j \in Token : Active(j)}, "logout")
  /\ Keep(r, [NoLocal EXCEPT !.doomed = {bearer}])
  /\ Goto(r, "deny")
  /\ UNCHANGED <<clock, user, denied, sweeps>>

RevokeSession(r, i) ==
  /\ pc[r] = "new"
  /\ Active(i)
  /\ i \notin Locked
  /\ Revoke({i}, "ended")
  /\ Keep(r, [NoLocal EXCEPT !.doomed = {i}])
  /\ Goto(r, "deny")
  /\ UNCHANGED <<clock, user, denied, sweeps>>

LogoutAll(r, bearer) ==
  /\ pc[r] = "new"
  /\ bearer \in Bearer
  /\ Keep(r, [NoLocal EXCEPT !.token = bearer])
  /\ Goto(r, "sweep.read")
  /\ UNCHANGED <<rows, clock, user, denied, sweeps>>

\* changePassword: the current password is verified on what was read.
ChangeRead(r) ==
  /\ pc[r] = "new"
  /\ Goto(r, "change.write")
  /\ UNCHANGED <<rows, clock, user, denied, sweeps, local>>

\* changePassword's UPDATE, or the commit of resetPassword.
NewPassword(r) ==
  /\ pc[r] \in {"new", "change.write"}
  /\ user' = [password |-> user.changes + 1, changes |-> user.changes + 1, outdated |-> FALSE]
  /\ Goto(r, "sweep.read")
  /\ UNCHANGED <<rows, clock, denied, sweeps, local>>

\* Mutant of SweepRead: only the latest row.
SweepRead_LatestOnly(r) ==
  /\ pc[r] = "sweep.read"
  /\ Keep(r, [local[r] EXCEPT !.doomed = {i \in Token : Active(i) /\ i = Len(rows)}])
  /\ sweeps' = sweeps + 1
  /\ Goto(r, "sweep.write")
  /\ UNCHANGED <<rows, clock, user, denied>>

\* revokeAllForUser: the rows its UPDATE finds ...
SweepRead(r) ==
  /\ pc[r] = "sweep.read"
  /\ Keep(r, [local[r] EXCEPT !.doomed = {i \in Token : Active(i)}])
  /\ sweeps' = sweeps + 1
  /\ Goto(r, "sweep.write")
  /\ UNCHANGED <<rows, clock, user, denied>>

\* Mutant of SweepWrite: only the caller's own jti goes to the denylist.
SweepWrite_CallerOnly(r) ==
  /\ pc[r] = "sweep.write"
  /\ local[r].doomed \intersect Locked = {}
  /\ Revoke({i \in local[r].doomed : Active(i)}, "ended")
  /\ Keep(r, [local[r] EXCEPT !.doomed = {local[r].token} \intersect Token])
  /\ Goto(r, "deny")
  /\ UNCHANGED <<clock, user, denied, sweeps>>

\* ... and revokes, unless they have been revoked in the meantime.  Their
\* ids and the bearer's jti are denylisted next.
SweepWrite(r) ==
  LET ended == {i \in local[r].doomed : Active(i)} IN
  /\ pc[r] = "sweep.write"
  /\ local[r].doomed \intersect Locked = {}
  /\ Revoke(ended, "ended")
  /\ Keep(r, [local[r] EXCEPT !.doomed = ended \union ({local[r].token} \intersect Token)])
  /\ Goto(r, "deny")
  /\ UNCHANGED <<clock, user, denied, sweeps>>

Deny(r) ==
  /\ pc[r] = "deny"
  /\ denied' = denied \union local[r].doomed
  /\ Return(r, "done")
  /\ UNCHANGED <<rows, clock, user, sweeps>>

--------------------------------------------------------------------------
\* The process stops: an open transaction is rolled back, a pipeline of
\* denylist writes may have been executed in part.
Crash(r) ==
  /\ "crash" \in Faults
  /\ pc[r] \notin Over \union {"new"}
  /\ IF pc[r] = "deny"
     THEN /\ \E part \in SUBSET local[r].doomed : denied' = denied \union part
          /\ Keep(r, [NoLocal EXCEPT !.doomed = local[r].doomed])
     ELSE UNCHANGED denied /\ Keep(r, NoLocal)
  /\ Goto(r, "crashed")
  /\ UNCHANGED <<rows, clock, user, sweeps>>

GraceLapses ==
  /\ clock.lapsed < Len(rows) /\ clock.lapsed < Horizon
  /\ clock' = [clock EXCEPT !.lapsed = @ + 1]
  /\ UNCHANGED <<rows, user, denied, sweeps, pc, local>>

Expires ==
  /\ clock.expired < clock.lapsed
  /\ clock' = [clock EXCEPT !.expired = @ + 1]
  /\ UNCHANGED <<rows, user, denied, sweeps, pc, local>>

\* Mutant of CleanupExpired: the rows out of grace are deleted.
CleanupExpired_TooMuch ==
  /\ clock.cleaned < clock.lapsed
  /\ clock' = [clock EXCEPT !.cleaned = clock.lapsed]
  /\ UNCHANGED <<rows, user, denied, sweeps, pc, local>>

\* cleanupExpired deletes every expired row.
CleanupExpired ==
  /\ clock.cleaned < clock.expired
  /\ (clock.cleaned + 1 .. clock.expired) \intersect Locked = {}
  /\ clock' = [clock EXCEPT !.cleaned = clock.expired]
  /\ UNCHANGED <<rows, user, denied, sweeps, pc, local>>

Arrive(r) ==
  \/ LoginVerify(r) \/ ChangeRead(r)
  \/ \E i \in Token : RefreshLock(r, i) \/ RefreshReuse(r, i) \/ RevokeSession(r, i)
  \/ \E i, bearer \in Token : Logout(r, i, bearer)
  \/ \E bearer \in Token : LogoutAll(r, bearer)

Proceed(r) ==
  \/ LoginRehash(r) \/ LoginIssue(r) \/ CapRank(r) \/ CapRevoke(r)
  \/ RefreshCommit(r) \/ NewPassword(r) \/ SweepRead(r) \/ SweepWrite(r) \/ Deny(r)

Next ==
  \/ \E r \in Request : Arrive(r) \/ Proceed(r) \/ Crash(r)
  \/ GraceLapses \/ Expires \/ CleanupExpired

Spec == Init /\ [][Next]_vars

--------------------------------------------------------------------------
TypeOK ==
  /\ rows \in Seq(Row)
  /\ clock \in [lapsed: Nat, expired: Nat, cleaned: Nat]
  /\ clock.cleaned <= clock.expired /\ clock.expired <= clock.lapsed
  /\ user \in [password: Nat, changes: Nat, outdated: BOOLEAN]
  /\ denied \subseteq Nat
  /\ sweeps \in Nat
  /\ pc \in [Request -> Step]
  /\ local \in [Request -> Local]

\* Parallel refreshes never fork a session: a row has at most one successor,
\* and a family at most one active row ("must NOT produce two independent
\* valid tokens", hardening.test.ts:144).
OneChain ==
  \A i, j \in Token :
    i # j /\ rows[i].family = rows[j].family =>
      /\ rows[i].prev # rows[j].prev
      /\ ~ (Active(i) /\ Active(j))

Ended(f) == f \in Token /\ ~ \E i \in Token : rows[i].family = f /\ Active(i)

\* A session without an active row is over: no refresh that was under way,
\* no replay of an older token and no grace window brings it back.
EndedForGood == [][\A f \in Token : Ended(f) => Ended(f)']_vars

\* The jti of every session ended by logout-all, revoke-session or a new
\* password is denylisted, or the request that ended it still has to do it
\* (or crashed before it could).
EndedIsDenied ==
  \A i \in Token : rows[i].revoked = "ended" =>
    i \in denied \/ \E r \in Request : i \in local[r].doomed /\ pc[r] \in {"deny", "crashed"}

\* Logins that have yet to enforce the cap, or crashed before they could.
Uncapped == {r \in Request : pc[r] \in {"cap.rank", "cap.revoke", "crashed"}}

\* Enforcing the cap leaves at most MaxSessions live sessions, not counting
\* logins that are about to enforce it themselves, and one more for every
\* refresh that committed between the ranking and the revocation.
CapEnforced ==
  [][\A r \in Request : pc[r] = "cap.revoke" /\ pc'[r] = "done" =>
       Cardinality({i \in Token : Live(i)}') <=
         MaxSessions + Cardinality(Uncapped') +
         Cardinality({i \in Token : i > local[r].token /\ rows[i].prev # 0})]_vars

\* After a password change the sessions of the old password are gone, but
\* for those of a login or refresh that began before the sweep and outlived
\* it, and unless a login's rehash has put the old password back.  The sweep
\* may be yet to come, or have crashed: any crashed request is excepted, since
\* it does not show where it stood.
OldPasswordOut ==
  \A i \in Token : Active(i) /\ rows[i].proof # user.changes =>
    \/ rows[i].late
    \/ user.password # user.changes
    \/ \E r \in Request : pc[r] \in {"sweep.read", "sweep.write", "crashed"}

--------------------------------------------------------------------------
(* Statements of the documentation and comments. *)

\* "Already-revoked token (and not in grace window) -> REUSE, kill family."
\* (token.service.ts:113)
FamilyKilled ==
  \A r \in Request : pc[r] = "reuse" =>
    \A i \in Token : rows[i].family = rows[local[r].token].family => ~ Active(i)
==========================================================================
