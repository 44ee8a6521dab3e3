--------------------------- MODULE SessionsProofs ---------------------------
(***************************************************************************)
(* Proofs about Sessions, for any number of requests, any session cap and  *)
(* any horizon, with and without crashes.                                  *)
(*                                                                         *)
(* The inductive invariant has four parts:                                 *)
(*   Shape        types, bounds, and what a handler can hold;              *)
(*   Chained      a row's predecessor is an older, revoked row of its      *)
(*                family, a family has at most one active row, and a       *)
(*                refresh that holds a lock holds that of an active row;   *)
(*   EndedIsDenied  as stated in Sessions;                                 *)
(*   PasswordOut  what a sweep and a login under way leave behind.         *)
(*                                                                         *)
(* CapEnforced counts, so it needs a map: CapInv owns every row that no    *)
(* enforcement has counted yet (Fresh) to a login of its own that still    *)
(* has to enforce the cap, or crashed before it could (OwnsFresh), and     *)
(* what a login is about to revoke is all that exceeds the cap among the   *)
(* rows it ranked (Ranked). The live rows are then at most the cap and one *)
(* for each of those logins.                                               *)
(***************************************************************************)
EXTENDS Sessions, SequenceTheorems, FiniteSetTheorems, TLAPS

Clock == [lapsed: Nat, expired: Nat, cleaned: Nat]
User == [password: Nat, changes: Nat, outdated: BOOLEAN]

ClockOK ==
  /\ clock \in Clock
  /\ clock.cleaned <= clock.expired /\ clock.expired <= clock.lapsed

\* The first hash alone is outdated.
UserOK ==
  /\ user \in User /\ user.password <= user.changes
  /\ user.outdated => user.changes = 0

LocalOK(r) ==
  /\ local[r].token \in Token \union {0}
  /\ local[r].doomed \subseteq Token
  /\ local[r].began <= sweeps
  /\ local[r].proof <= user.changes
  /\ pc[r] = "login.rehash" => local[r].proof = 0
  /\ pc[r] = "rotate.commit" => local[r].token # 0

RequestsOK ==
  /\ pc \in [Request -> Step]
  /\ local \in [Request -> Local]
  /\ \A r \in Request : LocalOK(r)

RowsOK ==
  /\ rows \in Seq(Row)
  /\ \A i \in Token : rows[i].proof <= user.changes

Shape == RowsOK /\ ClockOK /\ UserOK /\ denied \subseteq Nat /\ sweeps \in Nat /\ RequestsOK

RowOK(i) ==
  /\ rows[i].prev < i /\ rows[i].family <= i
  /\ rows[i].prev = 0 => rows[i].family = i
  /\ rows[i].prev # 0 => /\ rows[rows[i].prev].family = rows[i].family
                         /\ rows[rows[i].prev].revoked # "active"

Apart(i, j) ==
  rows[i].prev # rows[j].prev /\ ~ (rows[i].revoked = "active" /\ rows[j].revoked = "active")

Rotating == {r \in Request : pc[r] = "rotate.commit"}

Chained ==
  /\ \A i \in Token : RowOK(i)
  /\ \A i, j \in Token : i # j /\ rows[i].family = rows[j].family => Apart(i, j)
  /\ \A r \in Rotating : Active(local[r].token)
  /\ \A r, q \in Rotating : r # q => local[r].token # local[q].token

\* A password that is not the latest, and a sweep that has yet to begin.
Excused == user.password # user.changes \/ \E r \in Request : pc[r] \in {"sweep.read", "crashed"}

PasswordOut ==
  /\ OldPasswordOut
  /\ \A r \in Request : pc[r] = "sweep.write" =>
       \A i \in Token : Active(i) /\ i \notin local[r].doomed => rows[i].late
  /\ \A r \in Request : pc[r] \in {"login.rehash", "login.issue"} =>
       local[r].began < sweeps \/ local[r].proof = user.changes \/ Excused

SessionsInv == Shape /\ Chained /\ EndedIsDenied /\ PasswordOut

--------------------------------------------------------------------------
(* Rows. *)

LEMMA RowsNat ==
  ASSUME Shape
  PROVE  /\ Len(rows) \in Nat /\ Token \subseteq Nat /\ \A i \in Token : i > 0 /\ i <= Len(rows)
         /\ \A i \in Token : rows[i] \in Row
<1>1. rows \in Seq(Row) /\ Len(rows) \in Nat
  BY LenProperties DEF Shape, RowsOK
<1>2. \A i \in Token : rows[i] \in Row
  BY <1>1, ElementOfSeq DEF Token
<1> QED
  BY <1>1, <1>2 DEF Token

LEMMA RowFacts ==
  ASSUME NEW row \in Row
  PROVE  /\ row.family \in Nat /\ row.prev \in Nat /\ row.revoked \in Reason
         /\ row.proof \in Nat /\ row.late \in BOOLEAN
BY DEF Row

LEMMA RevokedRow ==
  ASSUME NEW row \in Row, NEW reason \in Reason
  PROVE  /\ [row EXCEPT !.revoked = reason] \in Row
         /\ [row EXCEPT !.revoked = reason].revoked = reason
         /\ [row EXCEPT !.revoked = reason].family = row.family
         /\ [row EXCEPT !.revoked = reason].prev = row.prev
         /\ [row EXCEPT !.revoked = reason].proof = row.proof
         /\ [row EXCEPT !.revoked = reason].late = row.late
BY Zenon DEF Row

LEMMA NewRow ==
  ASSUME NEW family \in Nat, NEW prev \in Nat, NEW proof \in Nat, NEW late \in BOOLEAN
  PROVE  [family |-> family, prev |-> prev, revoked |-> "active", proof |-> proof, late |-> late] \in Row
BY DEF Row, Reason

LEMMA FunctionIsSeq ==
  ASSUME NEW S, NEW n \in Nat, NEW f \in [1 .. n -> S]
  PROVE  f \in Seq(S) /\ Len(f) = n
<1>1. f \in Seq(S)
  BY SeqDef
<1> QED
  BY <1>1, LenProperties

\* A row but for why it was revoked.
Alike(a, b) == a.family = b.family /\ a.prev = b.prev /\ a.proof = b.proof /\ a.late = b.late

LEMMA RevokeFacts ==
  ASSUME Shape, NEW S, NEW reason \in Reason, Revoke(S, reason)
  PROVE  /\ rows' \in Seq(Row) /\ Len(rows') = Len(rows) /\ Token' = Token
         /\ \A i \in Token : /\ Alike(rows'[i], rows[i])
                             /\ rows'[i].revoked = IF i \in S THEN reason ELSE rows[i].revoked
<1> DEFINE changed(i) == [rows[i] EXCEPT !.revoked = reason]
<1>1. \A i \in Token : changed(i) \in Row /\ rows[i] \in Row /\ Alike(changed(i), rows[i])
                         /\ changed(i).revoked = reason
  BY RowsNat, RevokedRow DEF Alike
<1>2. rows' = [i \in Token |-> IF i \in S THEN changed(i) ELSE rows[i]]
  BY DEF Revoke
<1> HIDE DEF changed
<1>3. rows' \in [1 .. Len(rows) -> Row]
  BY <1>1, <1>2 DEF Token
<1>4. rows' \in Seq(Row) /\ Len(rows') = Len(rows)
  BY <1>3, FunctionIsSeq, RowsNat
<1>5. \A i \in Token : rows'[i] = IF i \in S THEN changed(i) ELSE rows[i]
  BY <1>2
<1>6. \A i \in Token : /\ Alike(rows'[i], rows[i])
                       /\ rows'[i].revoked = IF i \in S THEN reason ELSE rows[i].revoked
  BY <1>1, <1>5 DEF Alike
<1> QED
  BY <1>4, <1>6 DEF Token

LEMMA InsertFacts ==
  ASSUME Shape, NEW older \in Seq(Row), Len(older) = Len(rows), NEW row \in Row, Insert(older, row)
  PROVE  /\ rows' \in Seq(Row) /\ Len(rows') = Len(rows) + 1
         /\ Token' = Token \union {Len(rows) + 1} /\ Token \subseteq Token'
         /\ Len(rows) + 1 \notin Token
         /\ \A i \in Token : rows'[i] = older[i]
         /\ rows'[Len(rows) + 1] = row
<1>1. rows' = Append(older, row) /\ Len(rows) \in Nat
  BY RowsNat DEF Insert
<1>2. /\ rows' \in Seq(Row) /\ Len(rows') = Len(rows) + 1
      /\ \A i \in 1 .. Len(rows) : rows'[i] = older[i]
      /\ rows'[Len(rows) + 1] = row
  BY <1>1, AppendProperties
<1> QED
  BY <1>1, <1>2 DEF Token

--------------------------------------------------------------------------
(* Requests. *)

Moved(r, s, l) == pc' = [pc EXCEPT ![r] = s] /\ local' = [local EXCEPT ![r] = l]

LEMMA NoLocalType == NoLocal \in Local /\ NoLocal.token = 0 /\ NoLocal.doomed = {}
                       /\ NoLocal.proof = 0 /\ NoLocal.began = 0
BY DEF NoLocal, Local

LEMMA LocalFacts ==
  ASSUME Shape, NEW r \in Request
  PROVE  /\ local[r] \in Local /\ LocalOK(r) /\ pc[r] \in Step
         /\ local[r].token \in Nat /\ local[r].doomed \in SUBSET Nat
         /\ local[r].proof \in Nat /\ local[r].began \in Nat
BY DEF Shape, RequestsOK, Local

LEMMA MovedFacts ==
  ASSUME Shape, NEW r \in Request, NEW s \in Step, NEW l \in Local, Moved(r, s, l)
  PROVE  /\ pc' \in [Request -> Step] /\ local' \in [Request -> Local]
         /\ pc'[r] = s /\ local'[r] = l
         /\ \A q \in Request : q # r => pc'[q] = pc[q] /\ local'[q] = local[q]
BY DEF Shape, RequestsOK, Moved

\* What a request holds is still good in a later state.
Good(s, l) ==
  /\ s \in Step /\ l \in Local
  /\ l.token \in Token' \union {0} /\ l.doomed \subseteq Token'
  /\ l.began <= sweeps' /\ l.proof <= user.changes'
  /\ s = "login.rehash" => l.proof = 0
  /\ s = "rotate.commit" => l.token # 0

LEMMA RequestsKeep ==
  ASSUME Shape, NEW r \in Request, NEW s, NEW l, Moved(r, s, l), Good(s, l),
         Token \subseteq Token', sweeps' \in Nat, sweeps <= sweeps',
         user.changes' \in Nat, user.changes <= user.changes'
  PROVE  RequestsOK'
<1>1. s \in Step /\ l \in Local
  BY DEF Good
<1>2. /\ pc' \in [Request -> Step] /\ local' \in [Request -> Local]
      /\ pc'[r] = s /\ local'[r] = l
      /\ \A q \in Request : q # r => pc'[q] = pc[q] /\ local'[q] = local[q]
  BY <1>1, MovedFacts
<1>3. LocalOK(r)'
  BY <1>2 DEF Good, LocalOK
<1>4. ASSUME NEW q \in Request, q # r PROVE LocalOK(q)'
  <2>1. LocalOK(q) /\ local[q].began \in Nat /\ local[q].proof \in Nat
    BY LocalFacts
  <2>2. sweeps \in Nat /\ user.changes \in Nat
    BY DEF Shape, UserOK, User
  <2>3. local[q].began <= sweeps' /\ local[q].proof <= user.changes'
    BY <2>1, <2>2 DEF LocalOK
  <2> QED
    BY <1>2, <1>4, <2>1, <2>3 DEF LocalOK
<1> QED
  BY <1>2, <1>3, <1>4 DEF RequestsOK

--------------------------------------------------------------------------
(* What leaves each part alone. *)

LEMMA LockedActive ==
  ASSUME Shape, Chained
  PROVE  /\ \A t \in Locked : t \in Token /\ t > clock.cleaned /\ rows[t].revoked = "active"
         /\ \A q \in Rotating : local[q].token \in Locked
BY DEF Chained, Rotating, Locked, Active, Kept

\* The chains stay as they are when rows are only revoked, but not those a
\* refresh has locked.
LEMMA ChainedKept ==
  ASSUME Shape, Chained, Token' = Token,
         \A i \in Token : /\ Alike(rows'[i], rows[i])
                          /\ rows'[i].revoked = "active" => rows[i].revoked = "active",
         \A t \in Locked : t > clock'.cleaned /\ rows'[t].revoked = "active",
         \A q \in Request : pc'[q] = "rotate.commit" =>
           pc[q] = "rotate.commit" /\ local'[q].token = local[q].token
  PROVE  Chained'
<1>1. \A i \in Token : RowOK(i)'
  <2> SUFFICES ASSUME NEW i \in Token PROVE RowOK(i)'
    OBVIOUS
  <2>1. RowOK(i) /\ i \in Nat /\ i <= Len(rows) /\ Len(rows) \in Nat /\ rows[i].prev \in Nat
    BY RowsNat, RowFacts DEF Chained
  <2>2. rows[i].prev # 0 => rows[i].prev \in Token
    BY <2>1 DEF RowOK, Token
  <2> QED
    BY <2>1, <2>2 DEF RowOK, Alike
<1>2. \A i, j \in Token : i # j /\ rows'[i].family = rows'[j].family => Apart(i, j)'
  BY DEF Chained, Apart, Alike
<1>3. \A q \in Rotating' : q \in Rotating /\ local'[q].token = local[q].token
  BY DEF Rotating
<1>4. \A q \in Rotating' : Active(local[q].token)'
  <2>1. ASSUME NEW q \in Rotating' PROVE Kept(local[q].token)' /\ rows'[local'[q].token].revoked = "active"
    <3>1. local'[q].token \in Locked /\ local'[q].token \in Token
      BY <1>3, <2>1, LockedActive
    <3> QED
      BY <3>1 DEF Kept
  <2> QED
    BY <2>1 DEF Active
<1>5. \A q, k \in Rotating' : q # k => local'[q].token # local'[k].token
  BY <1>3 DEF Chained
<1> QED
  BY <1>1, <1>2, <1>4, <1>5 DEF Chained

\* A new row at the end of its chain.
LEMMA ChainedGrown ==
  ASSUME Shape, Chained, NEW n, n = Len(rows) + 1, Token' = Token \union {n},
         \A i \in Token : /\ Alike(rows'[i], rows[i])
                          /\ rows'[i].revoked = "active" => rows[i].revoked = "active",
         RowOK(n)', \A i \in Token : rows'[i].family = rows'[n].family => Apart(i, n)',
         \A q \in Request : pc'[q] = "rotate.commit" =>
           /\ pc[q] = "rotate.commit" /\ local'[q].token = local[q].token
           /\ local[q].token > clock'.cleaned /\ rows'[local[q].token].revoked = "active"
  PROVE  Chained'
<1>1. \A i \in Token : RowOK(i)'
  <2> SUFFICES ASSUME NEW i \in Token PROVE RowOK(i)'
    OBVIOUS
  <2>1. RowOK(i) /\ i \in Nat /\ i <= Len(rows) /\ Len(rows) \in Nat /\ rows[i].prev \in Nat
    BY RowsNat, RowFacts DEF Chained
  <2>2. rows[i].prev # 0 => rows[i].prev \in Token
    BY <2>1 DEF RowOK, Token
  <2> QED
    BY <2>1, <2>2 DEF RowOK, Alike
<1>2. \A i, j \in Token : i # j /\ rows'[i].family = rows'[j].family => Apart(i, j)'
  BY DEF Chained, Apart, Alike
<1>3. \A i, j \in Token' : i # j /\ rows'[i].family = rows'[j].family => Apart(i, j)'
  <2>1. \A i : Apart(i, n)' => Apart(n, i)'
    BY DEF Apart
  <2> QED
    BY <1>2, <2>1
<1>4. \A q \in Rotating' : q \in Rotating /\ local'[q].token = local[q].token
  BY DEF Rotating
<1>5. \A q \in Rotating' : Active(local[q].token)'
  <2>1. ASSUME NEW q \in Rotating' PROVE Kept(local[q].token)' /\ rows'[local'[q].token].revoked = "active"
    <3>1. local'[q].token \in Locked /\ local'[q].token \in Token
      BY <1>4, <2>1, LockedActive
    <3> QED
      BY <1>4, <2>1, <3>1 DEF Kept, Rotating
  <2> QED
    BY <2>1 DEF Active
<1>6. \A q, k \in Rotating' : q # k => local'[q].token # local'[k].token
  BY <1>4 DEF Chained
<1> QED
  BY <1>1, <1>3, <1>5, <1>6 DEF Chained

\* No session is ended and no denial that is due is forgotten.
LEMMA DeniedKept ==
  ASSUME Shape, EndedIsDenied, denied \subseteq denied',
         \A i \in Token' : rows'[i].revoked = "ended" => i \in Token /\ rows[i].revoked = "ended",
         \A q \in Request : pc[q] \in {"deny", "crashed"} => pc'[q] = pc[q] /\ local'[q] = local[q]
  PROVE  EndedIsDenied'
BY DEF EndedIsDenied

\* Nothing a password change or a login under way relies on changes.
LEMMA PasswordKept ==
  ASSUME Shape, PasswordOut, UNCHANGED <<user, sweeps>>,
         \A i \in Token' : Active(i)' =>
           i \in Token /\ Active(i) /\ rows'[i].proof = rows[i].proof /\ rows'[i].late = rows[i].late,
         \A q \in Request : pc[q] \in {"sweep.read", "crashed"} => pc'[q] \in {"sweep.read", "crashed"},
         \A q \in Request : pc[q] = "sweep.write" => pc'[q] \in {"sweep.write", "crashed"},
         \A q \in Request : pc'[q] = "sweep.write" =>
           pc[q] = "sweep.write" /\ local'[q].doomed = local[q].doomed,
         \A q \in Request : pc'[q] \in {"login.rehash", "login.issue"} =>
           pc[q] \in {"login.rehash", "login.issue"} /\ local'[q] = local[q]
  PROVE  PasswordOut'
<1>1. Excused => Excused'
  BY DEF Excused
<1>2. (\E r \in Request : pc[r] \in {"sweep.read", "sweep.write", "crashed"})
        => \E r \in Request : pc'[r] \in {"sweep.read", "sweep.write", "crashed"}
  OBVIOUS
<1>3. OldPasswordOut'
  BY <1>2 DEF PasswordOut, OldPasswordOut
<1>4. \A r \in Request : pc'[r] = "sweep.write" =>
        \A i \in Token' : Active(i)' /\ i \notin local'[r].doomed => rows'[i].late
  BY DEF PasswordOut
<1>5. \A r \in Request : pc'[r] \in {"login.rehash", "login.issue"} =>
        local'[r].began < sweeps' \/ local'[r].proof = user'.changes \/ Excused'
  BY <1>1 DEF PasswordOut
<1> QED
  BY <1>3, <1>4, <1>5 DEF PasswordOut

--------------------------------------------------------------------------
(* The steps. *)

\* A step that changes no row and touches no lock, sweep or denial.
LEMMA QuietKeeps ==
  ASSUME SessionsInv, NEW r \in Request, NEW s, NEW l, Moved(r, s, l), Good(s, l),
         UNCHANGED <<rows, clock, user, denied, sweeps>>,
         pc[r] \notin {"deny", "crashed", "sweep.read", "sweep.write"},
         s \notin {"rotate.commit", "sweep.write", "login.rehash", "login.issue"}
  PROVE  SessionsInv'
<1>1. /\ s \in Step /\ l \in Local /\ Token' = Token /\ Shape
      /\ sweeps \in Nat /\ user.changes \in Nat
  BY DEF Good, Token, SessionsInv, Shape, UserOK, User
<1>2. /\ pc'[r] = s /\ local'[r] = l
      /\ \A q \in Request : q # r => pc'[q] = pc[q] /\ local'[q] = local[q]
  BY <1>1, MovedFacts
<1>3. RequestsOK'
  BY <1>1, RequestsKeep
<1>4. Shape'
  BY <1>1, <1>3 DEF Shape, RowsOK, ClockOK, UserOK
<1>5. Chained'
  BY <1>1, <1>2, LockedActive, ChainedKept DEF SessionsInv, Alike
<1>6. EndedIsDenied'
  BY <1>1, <1>2, DeniedKept DEF SessionsInv
<1>7. PasswordOut'
  <2>1. \A i : Active(i)' <=> Active(i)
    BY <1>1 DEF Active, Kept
  <2> QED
    BY <1>1, <1>2, <2>1, PasswordKept DEF SessionsInv
<1> QED
  BY <1>4, <1>5, <1>6, <1>7 DEF SessionsInv

\* What every revocation keeps.
LEMMA RevokeKeeps ==
  ASSUME SessionsInv, NEW r \in Request, NEW s, NEW l, Moved(r, s, l), Good(s, l),
         NEW S, NEW reason \in Reason \ {"active"}, Revoke(S, reason), S \intersect Locked = {},
         UNCHANGED <<clock, user, denied, sweeps>>, s # "rotate.commit"
  PROVE  /\ Shape' /\ Chained' /\ Token' = Token
         /\ pc'[r] = s /\ local'[r] = l
         /\ \A q \in Request : q # r => pc'[q] = pc[q] /\ local'[q] = local[q]
         /\ \A i \in Token : /\ rows'[i].revoked = IF i \in S THEN reason ELSE rows[i].revoked
                             /\ Active(i)' => Active(i) /\ i \notin S
                             /\ rows'[i].proof = rows[i].proof /\ rows'[i].late = rows[i].late
<1>1. s \in Step /\ l \in Local /\ Shape /\ sweeps \in Nat /\ user.changes \in Nat
  BY DEF Good, SessionsInv, Shape, UserOK, User
<1>2. /\ pc'[r] = s /\ local'[r] = l
      /\ \A q \in Request : q # r => pc'[q] = pc[q] /\ local'[q] = local[q]
  BY <1>1, MovedFacts
<1>3. /\ rows' \in Seq(Row) /\ Len(rows') = Len(rows) /\ Token' = Token
      /\ \A i \in Token : /\ Alike(rows'[i], rows[i])
                          /\ rows'[i].revoked = IF i \in S THEN reason ELSE rows[i].revoked
  BY <1>1, RevokeFacts
<1>4. RequestsOK'
  BY <1>1, <1>3, RequestsKeep
<1>5. Shape'
  BY <1>1, <1>3, <1>4 DEF Shape, RowsOK, ClockOK, UserOK, Alike
<1>6. Chained'
  <2>1. \A t \in Locked : t > clock'.cleaned /\ rows'[t].revoked = "active"
    BY <1>1, <1>3, LockedActive DEF SessionsInv
  <2>2. \A i \in Token : rows'[i].revoked = "active" => rows[i].revoked = "active"
    BY <1>3
  <2> QED
    BY <1>1, <1>2, <1>3, <2>1, <2>2, ChainedKept DEF SessionsInv
<1>7. \A i \in Token : Active(i)' => Active(i) /\ i \notin S
  BY <1>3 DEF Active, Kept
<1> QED
  BY <1>2, <1>3, <1>5, <1>6, <1>7 DEF Alike

LEMMA CapRevokeKeeps ==
  ASSUME SessionsInv, NEW r \in Request, CapRevoke(r)
  PROVE  SessionsInv'
<1> DEFINE S == {i \in local[r].doomed : Kept(i)}
<1>1. /\ pc[r] = "cap.revoke" /\ S \intersect Locked = {} /\ Revoke(S, "session_cap")
      /\ Moved(r, "done", NoLocal) /\ UNCHANGED <<clock, user, denied, sweeps>>
  BY DEF CapRevoke, Return, Goto, Keep, Moved
<1>2. Good("done", NoLocal)
  BY <1>1, NoLocalType DEF Good, Step, SessionsInv, Shape, UserOK, User
<1>3. "session_cap" \in Reason \ {"active"} /\ "session_cap" # "ended"
  BY DEF Reason
<1> HIDE DEF S
<1>4. /\ Shape' /\ Chained' /\ Token' = Token
      /\ pc'[r] = "done" /\ local'[r] = NoLocal
      /\ \A q \in Request : q # r => pc'[q] = pc[q] /\ local'[q] = local[q]
      /\ \A i \in Token : /\ rows'[i].revoked = IF i \in S THEN "session_cap" ELSE rows[i].revoked
                          /\ Active(i)' => Active(i) /\ i \notin S
                          /\ rows'[i].proof = rows[i].proof /\ rows'[i].late = rows[i].late
  BY <1>1, <1>2, <1>3, RevokeKeeps
<1>5. EndedIsDenied'
  BY <1>1, <1>4, DeniedKept DEF SessionsInv
<1>6. PasswordOut'
  BY <1>1, <1>4, PasswordKept DEF SessionsInv
<1> QED
  BY <1>4, <1>5, <1>6 DEF SessionsInv

LEMMA LogoutKeeps ==
  ASSUME SessionsInv, NEW r \in Request, NEW i \in Token, NEW bearer \in Token, Logout(r, i, bearer)
  PROVE  SessionsInv'
<1> DEFINE S == {i} \intersect {j \in Token : Active(j)}
           l == [NoLocal EXCEPT !.doomed = {bearer}]
<1>1. /\ pc[r] = "new" /\ S \intersect Locked = {} /\ Revoke(S, "logout")
      /\ Moved(r, "deny", l) /\ UNCHANGED <<clock, user, denied, sweeps>>
  BY DEF Logout, Goto, Keep, Moved
<1>2. "logout" \in Reason \ {"active"} /\ "logout" # "ended"
  BY DEF Reason
<1>3. Token' = Token
  BY <1>1, <1>2, RevokeFacts DEF SessionsInv
<1>4. Good("deny", l)
  BY <1>1, <1>3, RowsNat, NoLocalType DEF Good, Step, SessionsInv, Shape, UserOK, User, Local
<1> HIDE DEF S, l
<1>5. /\ Shape' /\ Chained' /\ Token' = Token
      /\ pc'[r] = "deny" /\ local'[r] = l
      /\ \A q \in Request : q # r => pc'[q] = pc[q] /\ local'[q] = local[q]
      /\ \A k \in Token : /\ rows'[k].revoked = IF k \in S THEN "logout" ELSE rows[k].revoked
                          /\ Active(k)' => Active(k) /\ k \notin S
                          /\ rows'[k].proof = rows[k].proof /\ rows'[k].late = rows[k].late
  BY <1>1, <1>2, <1>4, RevokeKeeps
<1>6. EndedIsDenied'
  BY <1>1, <1>2, <1>5, DeniedKept DEF SessionsInv
<1>7. PasswordOut'
  BY <1>1, <1>5, PasswordKept DEF SessionsInv
<1> QED
  BY <1>5, <1>6, <1>7 DEF SessionsInv

LEMMA RevokeSessionKeeps ==
  ASSUME SessionsInv, NEW r \in Request, NEW i \in Token, RevokeSession(r, i)
  PROVE  SessionsInv'
<1> DEFINE l == [NoLocal EXCEPT !.doomed = {i}]
<1>1. /\ pc[r] = "new" /\ {i} \intersect Locked = {} /\ Revoke({i}, "ended")
      /\ Moved(r, "deny", l) /\ UNCHANGED <<clock, user, denied, sweeps>>
  BY DEF RevokeSession, Goto, Keep, Moved
<1>2. "ended" \in Reason \ {"active"}
  BY DEF Reason
<1>3. Token' = Token
  BY <1>1, <1>2, RevokeFacts DEF SessionsInv
<1>4. Good("deny", l) /\ l.doomed = {i}
  BY <1>1, <1>3, RowsNat, NoLocalType DEF Good, Step, SessionsInv, Shape, UserOK, User, Local
<1> HIDE DEF l
<1>5. /\ Shape' /\ Chained' /\ Token' = Token
      /\ pc'[r] = "deny" /\ local'[r] = l
      /\ \A q \in Request : q # r => pc'[q] = pc[q] /\ local'[q] = local[q]
      /\ \A k \in Token : /\ rows'[k].revoked = IF k \in {i} THEN "ended" ELSE rows[k].revoked
                          /\ Active(k)' => Active(k) /\ k \notin {i}
                          /\ rows'[k].proof = rows[k].proof /\ rows'[k].late = rows[k].late
  BY <1>1, <1>2, <1>4, RevokeKeeps
<1>6. EndedIsDenied'
  BY <1>1, <1>4, <1>5 DEF SessionsInv, EndedIsDenied
<1>7. PasswordOut'
  BY <1>1, <1>5, PasswordKept DEF SessionsInv
<1> QED
  BY <1>5, <1>6, <1>7 DEF SessionsInv

LEMMA SweepWriteKeeps ==
  ASSUME SessionsInv, NEW r \in Request, SweepWrite(r)
  PROVE  SessionsInv'
<1> DEFINE S == {i \in local[r].doomed : Active(i)}
           denials == S \union ({local[r].token} \intersect Token)
           l == [local[r] EXCEPT !.doomed = denials]
<1>1. /\ pc[r] = "sweep.write" /\ S \intersect Locked = {} /\ Revoke(S, "ended")
      /\ Moved(r, "deny", l) /\ UNCHANGED <<clock, user, denied, sweeps>>
  BY DEF SweepWrite, Goto, Keep, Moved
<1>2. "ended" \in Reason \ {"active"}
  BY DEF Reason
<1>3. Token' = Token
  BY <1>1, <1>2, RevokeFacts DEF SessionsInv
<1>4. denials \subseteq Token /\ S \subseteq denials /\ \A i : Active(i) /\ i \in local[r].doomed => i \in S
  BY DEF Active, Kept
<1> HIDE DEF S, denials
<1>5. Good("deny", l) /\ l.doomed = denials
  <2>1. local[r] \in Local /\ LocalOK(r)
    BY LocalFacts DEF SessionsInv
  <2> QED
    BY <1>1, <1>3, <1>4, <2>1, RowsNat DEF Good, Step, SessionsInv, LocalOK, Local
<1> HIDE DEF l
<1>6. /\ Shape' /\ Chained' /\ Token' = Token
      /\ pc'[r] = "deny" /\ local'[r] = l
      /\ \A q \in Request : q # r => pc'[q] = pc[q] /\ local'[q] = local[q]
      /\ \A k \in Token : /\ rows'[k].revoked = IF k \in S THEN "ended" ELSE rows[k].revoked
                          /\ Active(k)' => Active(k) /\ k \notin S
                          /\ rows'[k].proof = rows[k].proof /\ rows'[k].late = rows[k].late
  BY <1>1, <1>2, <1>5, RevokeKeeps
<1>7. EndedIsDenied'
  BY <1>1, <1>4, <1>5, <1>6 DEF SessionsInv, EndedIsDenied
<1>8. PasswordOut'
  <2>1. \A i \in Token' : Active(i)' => rows'[i].late
    BY <1>1, <1>4, <1>6 DEF SessionsInv, PasswordOut
  <2>2. OldPasswordOut'
    BY <2>1 DEF OldPasswordOut
  <2>3. Excused => Excused'
    BY <1>1, <1>6 DEF Excused
  <2>4. \A q \in Request : pc'[q] \in {"login.rehash", "login.issue"} =>
          local'[q].began < sweeps' \/ local'[q].proof = user'.changes \/ Excused'
    BY <1>1, <1>6, <2>3 DEF SessionsInv, PasswordOut
  <2> QED
    BY <2>1, <2>2, <2>4 DEF PasswordOut
<1> QED
  BY <1>6, <1>7, <1>8 DEF SessionsInv

LEMMA CapRankKeeps ==
  ASSUME SessionsInv, NEW r \in Request, CapRank(r)
  PROVE  SessionsInv'
<1> DEFINE beyond == {i \in Token : Live(i) /\ Rank(i) > MaxSessions}
           l == [local[r] EXCEPT !.doomed = beyond, !.token = Len(rows)]
<1>1. /\ pc[r] = "cap.rank" /\ Moved(r, "cap.revoke", l)
      /\ UNCHANGED <<rows, clock, user, denied, sweeps>>
  BY DEF CapRank, Goto, Keep, Moved
<1>2. Token' = Token /\ beyond \subseteq Token /\ Len(rows) \in Nat /\ Len(rows) \in Token \union {0}
  BY <1>1, RowsNat DEF Token, SessionsInv
<1> HIDE DEF beyond
<1>3. Good("cap.revoke", l)
  <2>1. local[r] \in Local /\ LocalOK(r)
    BY LocalFacts DEF SessionsInv
  <2> QED
    BY <1>1, <1>2, <2>1, RowsNat DEF Good, Step, SessionsInv, LocalOK, Local
<1> QED
  BY <1>1, <1>3, QuietKeeps

LEMMA RefreshReuseKeeps ==
  ASSUME SessionsInv, NEW r \in Request, NEW i \in Token, RefreshReuse(r, i)
  PROVE  SessionsInv'
<1> DEFINE l == [NoLocal EXCEPT !.token = i]
<1>1. /\ pc[r] = "new" /\ Moved(r, "reuse", l) /\ UNCHANGED <<rows, clock, user, denied, sweeps>>
  BY DEF RefreshReuse, Goto, Keep, Moved
<1>2. Good("reuse", l)
  BY <1>1, RowsNat, NoLocalType DEF Good, Step, SessionsInv, Shape, UserOK, User, Local, Token
<1> QED
  BY <1>1, <1>2, QuietKeeps

LEMMA LogoutAllKeeps ==
  ASSUME SessionsInv, NEW r \in Request, NEW bearer \in Token, LogoutAll(r, bearer)
  PROVE  SessionsInv'
<1> DEFINE l == [NoLocal EXCEPT !.token = bearer]
<1>1. /\ pc[r] = "new" /\ Moved(r, "sweep.read", l) /\ UNCHANGED <<rows, clock, user, denied, sweeps>>
  BY DEF LogoutAll, Goto, Keep, Moved
<1>2. Good("sweep.read", l)
  BY <1>1, RowsNat, NoLocalType DEF Good, Step, SessionsInv, Shape, UserOK, User, Local, Token
<1> QED
  BY <1>1, <1>2, QuietKeeps

\* A step that leaves what its request holds.
LEMMA Standing ==
  ASSUME Shape, NEW r \in Request, NEW s \in Step, Goto(r, s), UNCHANGED local
  PROVE  Moved(r, s, local[r]) /\ local[r] \in Local
BY DEF Shape, RequestsOK, Goto, Moved

LEMMA ChangeReadKeeps ==
  ASSUME SessionsInv, NEW r \in Request, ChangeRead(r)
  PROVE  SessionsInv'
<1>1. pc[r] = "new" /\ Goto(r, "change.write") /\ UNCHANGED <<rows, clock, user, denied, sweeps, local>>
  BY DEF ChangeRead
<1>2. "change.write" \in Step
  BY DEF Step
<1>3. Moved(r, "change.write", local[r]) /\ local[r] \in Local /\ LocalOK(r)
  BY <1>1, <1>2, Standing, LocalFacts DEF SessionsInv
<1>4. Good("change.write", local[r])
  BY <1>1, <1>2, <1>3 DEF Good, LocalOK, Token
<1> QED
  BY <1>1, <1>3, <1>4, QuietKeeps

\* Rows, clock and denials stay, the request takes no lock.
LEMMA StandKeeps ==
  ASSUME SessionsInv, NEW r \in Request, NEW s, NEW l, Moved(r, s, l), Good(s, l),
         UNCHANGED <<rows, clock, denied>>, UserOK', user.changes <= user'.changes,
         sweeps' \in Nat, sweeps <= sweeps', pc[r] \notin {"deny", "crashed"}, s # "rotate.commit"
  PROVE  /\ Shape' /\ Chained' /\ EndedIsDenied' /\ Token' = Token
         /\ pc'[r] = s /\ local'[r] = l
         /\ \A q \in Request : q # r => pc'[q] = pc[q] /\ local'[q] = local[q]
         /\ \A i : Active(i)' <=> Active(i)
<1>1. /\ s \in Step /\ l \in Local /\ Token' = Token /\ Shape
      /\ user.changes \in Nat /\ user'.changes \in Nat
  BY DEF Good, Token, SessionsInv, Shape, UserOK, User
<1>2. /\ pc'[r] = s /\ local'[r] = l
      /\ \A q \in Request : q # r => pc'[q] = pc[q] /\ local'[q] = local[q]
  BY <1>1, MovedFacts
<1>3. RequestsOK'
  BY <1>1, RequestsKeep
<1>4. RowsOK'
  <2>1. \A i \in Token : rows[i].proof \in Nat /\ rows[i].proof <= user.changes
    BY <1>1, RowsNat, RowFacts DEF Shape, RowsOK
  <2>2. \A i \in Token : rows[i].proof <= user'.changes
    BY <1>1, <2>1
  <2> QED
    BY <1>1, <2>2 DEF Shape, RowsOK
<1>5. Shape'
  BY <1>1, <1>3, <1>4 DEF Shape, ClockOK
<1>6. Chained'
  BY <1>1, <1>2, LockedActive, ChainedKept DEF SessionsInv, Alike
<1>7. EndedIsDenied'
  BY <1>1, <1>2, DeniedKept DEF SessionsInv
<1>8. \A i : Active(i)' <=> Active(i)
  BY <1>1 DEF Active, Kept
<1> QED
  BY <1>1, <1>2, <1>5, <1>6, <1>7, <1>8

LEMMA LoginVerifyKeeps ==
  ASSUME SessionsInv, NEW r \in Request, LoginVerify(r)
  PROVE  SessionsInv'
<1> DEFINE l == [NoLocal EXCEPT !.proof = user.password, !.began = sweeps]
           s == IF user.outdated THEN "login.rehash" ELSE "login.issue"
<1>1. /\ pc[r] = "new" /\ Moved(r, s, l) /\ UNCHANGED <<rows, clock, user, denied, sweeps>>
  BY DEF LoginVerify, Goto, Keep, Moved
<1>2. /\ user \in User /\ user.password \in Nat /\ user.changes \in Nat /\ sweeps \in Nat
      /\ user.password <= user.changes /\ (user.outdated => user.password = 0)
  BY DEF SessionsInv, Shape, UserOK, User
<1>3. s \in {"login.rehash", "login.issue"} /\ (s = "login.rehash" => user.password = 0) /\ s \in Step
  BY <1>2 DEF Step
<1> HIDE DEF s
<1>4. l \in Local /\ l.token = 0 /\ l.doomed = {} /\ l.proof = user.password /\ l.began = sweeps
  BY <1>2 DEF NoLocal, Local
<1> HIDE DEF l
<1>5. Good(s, l) /\ UserOK'
  BY <1>1, <1>2, <1>3, <1>4 DEF Good, SessionsInv, Shape, UserOK
<1>6. /\ Shape' /\ Chained' /\ EndedIsDenied' /\ Token' = Token
      /\ pc'[r] = s /\ local'[r] = l
      /\ \A q \in Request : q # r => pc'[q] = pc[q] /\ local'[q] = local[q]
      /\ \A i : Active(i)' <=> Active(i)
  BY <1>1, <1>2, <1>3, <1>5, StandKeeps
<1>7. PasswordOut'
  <2>1. Excused => Excused'
    BY <1>1, <1>6 DEF Excused
  <2>2. OldPasswordOut'
    BY <1>1, <1>6 DEF SessionsInv, PasswordOut, OldPasswordOut
  <2>3. \A q \in Request : pc'[q] = "sweep.write" =>
          \A i \in Token' : Active(i)' /\ i \notin local'[q].doomed => rows'[i].late
    BY <1>1, <1>3, <1>6 DEF SessionsInv, PasswordOut
  <2>4. user'.password # user'.changes => Excused'
    BY DEF Excused
  <2>5. \A q \in Request : pc'[q] \in {"login.rehash", "login.issue"} =>
          local'[q].began < sweeps' \/ local'[q].proof = user'.changes \/ Excused'
    BY <1>1, <1>4, <1>6, <2>1, <2>4 DEF SessionsInv, PasswordOut
  <2> QED
    BY <2>2, <2>3, <2>5 DEF PasswordOut
<1> QED
  BY <1>6, <1>7 DEF SessionsInv

\* Only the first password has a hash to renew: storing it after a password
\* change leaves a password that is not the latest.
LEMMA LoginRehashKeeps ==
  ASSUME SessionsInv, NEW r \in Request, LoginRehash(r)
  PROVE  SessionsInv'
<1> DEFINE s == "login.issue"
           l == local[r]
<1>1. /\ pc[r] = "login.rehash" /\ UNCHANGED <<rows, clock, denied, sweeps, local>> /\ Goto(r, s)
      /\ user' = [user EXCEPT !.password = l.proof, !.outdated = FALSE]
  BY DEF LoginRehash
<1>2. s \in Step
  BY DEF Step
<1>3. Moved(r, s, l) /\ l \in Local /\ LocalOK(r) /\ l.proof = 0
  BY <1>1, <1>2, Standing, LocalFacts DEF SessionsInv, LocalOK
<1>4. user \in User /\ user.changes \in Nat /\ sweeps \in Nat
  BY DEF SessionsInv, Shape, UserOK, User
<1>5. user' \in User /\ user'.password = 0 /\ user'.changes = user.changes /\ user'.outdated = FALSE
  <2>1. user' = [user EXCEPT !.password = 0, !.outdated = FALSE] /\ 0 \in Nat /\ FALSE \in BOOLEAN
    BY <1>1, <1>3
  <2> QED
    BY <1>4, <2>1, Zenon DEF User
<1>6. Good(s, l) /\ UserOK'
  BY <1>1, <1>2, <1>3, <1>4, <1>5 DEF Good, UserOK, LocalOK, Token
<1>7. /\ Shape' /\ Chained' /\ EndedIsDenied' /\ Token' = Token
      /\ pc'[r] = s /\ local'[r] = l
      /\ \A q \in Request : q # r => pc'[q] = pc[q] /\ local'[q] = local[q]
      /\ \A i : Active(i)' <=> Active(i)
  BY <1>1, <1>3, <1>4, <1>5, <1>6, StandKeeps
<1>8. PasswordOut'
  <2>1. CASE user.changes = 0
    <3>1. \A i \in Token : rows[i].proof \in Nat /\ rows[i].proof <= user.changes
      BY RowsNat, RowFacts DEF SessionsInv, Shape, RowsOK
    <3>2. \A q \in Request : local[q].proof \in Nat /\ local[q].proof <= user.changes
      BY LocalFacts DEF SessionsInv, LocalOK
    <3>3. OldPasswordOut'
      BY <1>1, <1>5, <1>7, <2>1, <3>1 DEF OldPasswordOut
    <3>4. \A q \in Request : local'[q].proof = user'.changes
      BY <1>1, <1>5, <2>1, <3>2
    <3>5. \A q \in Request : pc'[q] = "sweep.write" =>
            \A i \in Token' : Active(i)' /\ i \notin local'[q].doomed => rows'[i].late
      BY <1>1, <1>7 DEF SessionsInv, PasswordOut
    <3> QED
      BY <3>3, <3>4, <3>5 DEF PasswordOut
  <2>2. CASE user.changes # 0
    <3>1. user'.password # user'.changes
      BY <1>5, <2>2
    <3>2. OldPasswordOut' /\ Excused'
      BY <3>1 DEF OldPasswordOut, Excused
    <3>3. \A q \in Request : pc'[q] = "sweep.write" =>
            \A i \in Token' : Active(i)' /\ i \notin local'[q].doomed => rows'[i].late
      BY <1>1, <1>7 DEF SessionsInv, PasswordOut
    <3> QED
      BY <3>2, <3>3 DEF PasswordOut
  <2> QED
    BY <2>1, <2>2
<1> QED
  BY <1>7, <1>8 DEF SessionsInv

LEMMA NewPasswordKeeps ==
  ASSUME SessionsInv, NEW r \in Request, NewPassword(r)
  PROVE  SessionsInv'
<1> DEFINE s == "sweep.read"
           l == local[r]
<1>1. /\ pc[r] \in {"new", "change.write"} /\ UNCHANGED <<rows, clock, denied, sweeps, local>> /\ Goto(r, s)
      /\ user' = [password |-> user.changes + 1, changes |-> user.changes + 1, outdated |-> FALSE]
  BY DEF NewPassword
<1>2. s \in Step
  BY DEF Step
<1>3. Moved(r, s, l) /\ l \in Local /\ LocalOK(r) /\ l.proof \in Nat
  BY <1>1, <1>2, Standing, LocalFacts DEF SessionsInv
<1>4. user.changes \in Nat /\ sweeps \in Nat
  BY DEF SessionsInv, Shape, UserOK, User
<1>5. UserOK' /\ user'.changes = user.changes + 1
  BY <1>1, <1>4 DEF User, UserOK
<1>6. Good(s, l)
  BY <1>1, <1>2, <1>3, <1>4, <1>5 DEF Good, LocalOK, Token
<1>7. /\ Shape' /\ Chained' /\ EndedIsDenied' /\ Token' = Token
      /\ pc'[r] = s /\ local'[r] = l
      /\ \A q \in Request : q # r => pc'[q] = pc[q] /\ local'[q] = local[q]
      /\ \A i : Active(i)' <=> Active(i)
  BY <1>1, <1>3, <1>4, <1>5, <1>6, StandKeeps
<1>8. PasswordOut'
  <2>1. Excused' /\ OldPasswordOut'
    BY <1>7 DEF Excused, OldPasswordOut
  <2>2. \A q \in Request : pc'[q] = "sweep.write" =>
          \A i \in Token' : Active(i)' /\ i \notin local'[q].doomed => rows'[i].late
    BY <1>1, <1>7 DEF SessionsInv, PasswordOut
  <2> QED
    BY <2>1, <2>2 DEF PasswordOut
<1> QED
  BY <1>7, <1>8 DEF SessionsInv

LEMMA SweepReadKeeps ==
  ASSUME SessionsInv, NEW r \in Request, SweepRead(r)
  PROVE  SessionsInv'
<1> DEFINE s == "sweep.write"
           found == {i \in Token : Active(i)}
           l == [local[r] EXCEPT !.doomed = found]
<1>1. /\ pc[r] = "sweep.read" /\ Moved(r, s, l) /\ sweeps' = sweeps + 1
      /\ UNCHANGED <<rows, clock, user, denied>>
  BY DEF SweepRead, Goto, Keep, Moved
<1>2. /\ user.changes \in Nat /\ sweeps \in Nat /\ UserOK' /\ Token' = Token
  BY <1>1 DEF SessionsInv, Shape, UserOK, User, Token
<1>3. found \subseteq Token /\ \A i : Active(i) => i \in found
  BY DEF Active, Kept
<1> HIDE DEF found
<1>4. Good(s, l) /\ l.doomed = found
  <2>1. local[r] \in Local /\ LocalOK(r) /\ local[r].began \in Nat
    BY LocalFacts DEF SessionsInv
  <2> QED
    BY <1>1, <1>2, <1>3, <2>1, RowsNat DEF Good, Step, SessionsInv, LocalOK, Local
<1> HIDE DEF l
<1>5. /\ Shape' /\ Chained' /\ EndedIsDenied' /\ Token' = Token
      /\ pc'[r] = s /\ local'[r] = l
      /\ \A q \in Request : q # r => pc'[q] = pc[q] /\ local'[q] = local[q]
      /\ \A i : Active(i)' <=> Active(i)
  BY <1>1, <1>2, <1>4, StandKeeps
<1>6. PasswordOut'
  <2>1. OldPasswordOut'
    BY <1>5 DEF OldPasswordOut
  <2>2. \A q \in Request : pc'[q] = "sweep.write" =>
          \A i \in Token' : Active(i)' /\ i \notin local'[q].doomed => rows'[i].late
    BY <1>1, <1>3, <1>4, <1>5 DEF SessionsInv, PasswordOut
  <2>3. \A q \in Request : q # r => local'[q].began < sweeps'
    <3>1. \A q \in Request : local[q].began \in Nat /\ local[q].began <= sweeps
      BY LocalFacts DEF SessionsInv, LocalOK
    <3> QED
      BY <1>1, <1>2, <1>5, <3>1
  <2> QED
    BY <1>5, <2>1, <2>2, <2>3 DEF PasswordOut
<1> QED
  BY <1>5, <1>6 DEF SessionsInv

LEMMA LoginIssueKeeps ==
  ASSUME SessionsInv, NEW r \in Request, LoginIssue(r)
  PROVE  SessionsInv'
<1>1. PICK n : n = Len(rows) + 1
  OBVIOUS
<1> DEFINE s == "cap.rank"
           l == local[r]
           late == Late(r)
           row == [family |-> n, prev |-> 0, revoked |-> "active", proof |-> l.proof, late |-> late]
<1>2. /\ pc[r] = "login.issue" /\ Insert(rows, row) /\ Goto(r, s)
      /\ UNCHANGED <<clock, user, denied, sweeps, local>>
  BY <1>1 DEF LoginIssue
<1>3. s \in Step
  BY DEF Step
<1>4. Moved(r, s, l) /\ l \in Local /\ LocalOK(r) /\ l.proof \in Nat /\ l.began \in Nat
  BY <1>2, <1>3, Standing, LocalFacts DEF SessionsInv
<1>5. /\ Len(rows) \in Nat /\ n \in Nat /\ n > 0 /\ \A i \in Token : i < n /\ i \in Nat
      /\ user.changes \in Nat /\ sweeps \in Nat /\ late \in BOOLEAN
  BY <1>1, RowsNat DEF SessionsInv, Shape, UserOK, User, Late
<1>6. late <=> l.began < sweeps \/ \E q \in Request : pc[q] = "sweep.write"
  BY DEF Late
<1> HIDE DEF late
<1>7. /\ row \in Row /\ row.family = n /\ row.prev = 0 /\ row.revoked = "active"
      /\ row.proof = l.proof /\ row.late = late
  BY <1>4, <1>5, NewRow
<1> HIDE DEF row
<1>8. /\ rows' \in Seq(Row) /\ Len(rows') = n /\ Token' = Token \union {n} /\ n \notin Token
      /\ \A i \in Token : rows'[i] = rows[i]
      /\ rows'[n] = row
  BY <1>1, <1>2, <1>7, InsertFacts DEF SessionsInv, Shape, RowsOK
<1>9. /\ pc'[r] = s /\ local'[r] = l
      /\ \A q \in Request : q # r => pc'[q] = pc[q] /\ local'[q] = local[q]
  BY <1>3, <1>4, MovedFacts DEF SessionsInv
<1>10. Shape'
  <2>1. Good(s, l)
    BY <1>2, <1>3, <1>4, <1>8 DEF Good, LocalOK
  <2>2. RequestsOK'
    BY <1>2, <1>4, <1>5, <1>8, <2>1, RequestsKeep DEF SessionsInv
  <2>3. RowsOK'
    BY <1>2, <1>4, <1>7, <1>8 DEF SessionsInv, Shape, RowsOK, LocalOK
  <2> QED
    BY <1>2, <2>2, <2>3 DEF SessionsInv, Shape, ClockOK, UserOK
<1>11. Chained'
  <2>1. RowOK(n)'
    BY <1>5, <1>7, <1>8 DEF RowOK
  <2>2. \A i \in Token : rows'[i].family # n
    <3>1. \A i \in Token : rows[i].family \in Nat /\ rows[i].family <= i
      BY RowsNat, RowFacts DEF SessionsInv, Chained, RowOK
    <3> QED
      BY <1>5, <1>8, <3>1
  <2>3. \A i \in Token : rows'[i].family = rows'[n].family => Apart(i, n)'
    BY <1>7, <1>8, <2>2
  <2>4. \A i \in Token : Alike(rows'[i], rows[i]) /\ (rows'[i].revoked = "active" => rows[i].revoked = "active")
    BY <1>8 DEF Alike
  <2>5. \A q \in Request : pc'[q] = "rotate.commit" =>
          /\ pc[q] = "rotate.commit" /\ local'[q].token = local[q].token
          /\ local[q].token > clock'.cleaned /\ rows'[local[q].token].revoked = "active"
    <3>1. \A q \in Rotating : /\ local[q].token \in Token /\ local[q].token > clock.cleaned
                              /\ rows[local[q].token].revoked = "active"
      BY LockedActive DEF SessionsInv
    <3> QED
      BY <1>2, <1>8, <1>9, <3>1 DEF Rotating
  <2> QED
    BY <1>1, <1>8, <2>1, <2>3, <2>4, <2>5, ChainedGrown DEF SessionsInv
<1>12. EndedIsDenied'
  BY <1>2, <1>7, <1>8, <1>9, DeniedKept DEF SessionsInv
<1>13. PasswordOut'
  <2>1. \A i \in Token : Active(i)' => Active(i)
    BY <1>2, <1>8 DEF Active, Kept
  <2>2. Excused => Excused'
    BY <1>2, <1>9 DEF Excused
  <2>3. \A q \in Request : pc'[q] = "sweep.write" =>
          \A i \in Token' : Active(i)' /\ i \notin local'[q].doomed => rows'[i].late
    BY <1>2, <1>6, <1>7, <1>8, <1>9, <2>1 DEF SessionsInv, PasswordOut
  <2>4. OldPasswordOut'
    <3>1. ASSUME NEW i \in Token, Active(i)', rows'[i].proof # user'.changes
          PROVE  \/ rows'[i].late \/ user'.password # user'.changes
                 \/ \E q \in Request : pc'[q] \in {"sweep.read", "sweep.write", "crashed"}
      BY <1>2, <1>8, <1>9, <2>1, <3>1 DEF SessionsInv, PasswordOut, OldPasswordOut
    <3>2. ASSUME rows'[n].proof # user'.changes
          PROVE  \/ rows'[n].late \/ user'.password # user'.changes
                 \/ \E q \in Request : pc'[q] \in {"sweep.read", "sweep.write", "crashed"}
      <4>1. l.began < sweeps \/ Excused
        BY <1>2, <1>7, <1>8, <3>2 DEF SessionsInv, PasswordOut
      <4>2. CASE l.began < sweeps
        BY <1>6, <1>7, <1>8, <4>2
      <4>3. CASE Excused
        BY <2>2, <4>3 DEF Excused
      <4> QED
        BY <4>1, <4>2, <4>3
    <3> QED
      BY <1>8, <3>1, <3>2 DEF OldPasswordOut
  <2>5. \A q \in Request : pc'[q] \in {"login.rehash", "login.issue"} =>
          local'[q].began < sweeps' \/ local'[q].proof = user'.changes \/ Excused'
    BY <1>2, <1>9, <2>2 DEF SessionsInv, PasswordOut
  <2> QED
    BY <2>3, <2>4, <2>5 DEF PasswordOut
<1> QED
  BY <1>10, <1>11, <1>12, <1>13 DEF SessionsInv

\* The row a refresh locks is active.
LEMMA RefreshLockKeeps ==
  ASSUME SessionsInv, NEW r \in Request, NEW i \in Token, RefreshLock(r, i)
  PROVE  SessionsInv'
<1>1. PICK j \in Found(i) : Rotatable(i, j) /\ Keep(r, [NoLocal EXCEPT !.token = j, !.began = sweeps])
  BY DEF RefreshLock
<1> DEFINE s == "rotate.commit"
           l == [NoLocal EXCEPT !.token = j, !.began = sweeps]
<1>2. /\ pc[r] = "new" /\ Moved(r, s, l) /\ UNCHANGED <<rows, clock, user, denied, sweeps>>
      /\ j \notin Locked
  BY <1>1 DEF RefreshLock, Goto, Keep, Moved
<1>3. j \in Token /\ Active(j)
  BY <1>1 DEF Found, Rotatable, Live
<1>4. /\ user.changes \in Nat /\ sweeps \in Nat /\ Token' = Token /\ j \in Nat /\ j > 0 /\ s \in Step
  BY <1>2, <1>3, RowsNat DEF SessionsInv, Shape, UserOK, User, Token, Step
<1>5. l \in Local /\ l.token = j /\ l.doomed = {} /\ l.proof = 0 /\ l.began = sweeps
  BY <1>4 DEF NoLocal, Local
<1> HIDE DEF l
<1>6. Good(s, l)
  BY <1>2, <1>3, <1>4, <1>5 DEF Good
<1>7. /\ pc'[r] = s /\ local'[r] = l
      /\ \A q \in Request : q # r => pc'[q] = pc[q] /\ local'[q] = local[q]
  BY <1>2, <1>4, <1>5, MovedFacts DEF SessionsInv
<1>8. Shape'
  <2>1. RequestsOK'
    BY <1>2, <1>4, <1>6, RequestsKeep DEF SessionsInv
  <2> QED
    BY <1>2, <1>4, <2>1 DEF SessionsInv, Shape, RowsOK, ClockOK, UserOK
<1>9. Chained'
  <2>1. \A k \in Token : RowOK(k)'
    BY <1>2 DEF SessionsInv, Chained, RowOK
  <2>2. \A k, m \in Token : k # m /\ rows'[k].family = rows'[m].family => Apart(k, m)'
    BY <1>2 DEF SessionsInv, Chained, Apart
  <2>3. \A q \in Rotating' : q = r \/ (q # r /\ q \in Rotating /\ local'[q] = local[q])
    BY <1>7 DEF Rotating
  <2>4. \A q \in Rotating' : Kept(local[q].token)' /\ rows'[local'[q].token].revoked = "active"
    <3>1. \A q \in Rotating : Active(local[q].token)
      BY DEF SessionsInv, Chained
    <3>2. \A q \in Rotating' : Active(local'[q].token)
      BY <1>3, <1>5, <1>7, <2>3, <3>1
    <3> QED
      BY <1>2, <1>4, <3>2 DEF Active, Kept
  <2>5. \A q, k \in Rotating' : q # k => local'[q].token # local'[k].token
    <3>1. \A q \in Rotating : local[q].token # j
      BY <1>2, LockedActive DEF SessionsInv
    <3> QED
      BY <1>5, <1>7, <2>3, <3>1 DEF SessionsInv, Chained
  <2> QED
    BY <1>4, <2>1, <2>2, <2>4, <2>5 DEF Chained, Active
<1>10. EndedIsDenied'
  BY <1>2, <1>4, <1>7, DeniedKept DEF SessionsInv
<1>11. PasswordOut'
  <2>1. \A k : Active(k)' <=> Active(k)
    BY <1>2, <1>4 DEF Active, Kept
  <2> QED
    BY <1>2, <1>4, <1>7, <2>1, PasswordKept DEF SessionsInv
<1> QED
  BY <1>8, <1>9, <1>10, <1>11 DEF SessionsInv

\* The successor takes the place of the locked row, the one active row of its
\* family.
LEMMA RefreshCommitKeeps ==
  ASSUME SessionsInv, NEW r \in Request, RefreshCommit(r)
  PROVE  SessionsInv' /\ local[r].token \in Token /\ Active(local[r].token)
         /\ Token' = Token \union {Len(rows) + 1} /\ Len(rows) + 1 \notin Token
         /\ rows'[Len(rows) + 1].family = rows[local[r].token].family
         /\ rows'[Len(rows) + 1].prev = local[r].token
         /\ \A i \in Token : Alike(rows'[i], rows[i]) /\ (Active(i)' => Active(i))
<1>1. PICK n, old : n = Len(rows) + 1 /\ old = local[r].token
  OBVIOUS
<1> DEFINE late == rows[old].late \/ Late(r)
           row == [family |-> rows[old].family, prev |-> old, revoked |-> "active",
                   proof |-> rows[old].proof, late |-> late]
           spent == [rows[old] EXCEPT !.revoked = "rotated"]
           older == [rows EXCEPT ![old] = spent]
<1>2. /\ pc[r] = "rotate.commit" /\ Insert(older, row) /\ Moved(r, "done", NoLocal)
      /\ UNCHANGED <<clock, user, denied, sweeps>>
  BY <1>1 DEF RefreshCommit, Return, Goto, Keep, Moved
<1>3. /\ old \in Token /\ old > clock.cleaned /\ rows[old].revoked = "active" /\ rows[old] \in Row
      /\ r \in Rotating /\ Active(old)
  <2>1. r \in Rotating /\ Active(old)
    BY <1>1, <1>2 DEF SessionsInv, Chained, Rotating
  <2> QED
    BY <2>1, RowsNat DEF SessionsInv, Active, Kept
<1>4. /\ Len(rows) \in Nat /\ n \in Nat /\ n > 0 /\ old > 0
      /\ \A i \in Token : i < n /\ i \in Nat /\ rows[i].family \in Nat /\ rows[i].prev \in Nat
      /\ rows[old].proof \in Nat /\ late \in BOOLEAN /\ user.changes \in Nat /\ sweeps \in Nat
  BY <1>1, <1>3, RowsNat, RowFacts DEF SessionsInv, Shape, UserOK, User, Late
<1>5. late <=> (rows[old].late \/ local[r].began < sweeps \/ \E q \in Request : pc[q] = "sweep.write")
  BY DEF Late
<1> HIDE DEF late
<1>6. /\ row \in Row /\ row.family = rows[old].family /\ row.prev = old /\ row.revoked = "active"
      /\ row.proof = rows[old].proof /\ row.late = late
  BY <1>3, <1>4, NewRow
<1> HIDE DEF row
<1>7. spent \in Row /\ Alike(spent, rows[old]) /\ spent.revoked = "rotated"
  BY <1>3, RevokedRow DEF Reason, Alike
<1> HIDE DEF spent
<1>8. /\ older \in Seq(Row) /\ Len(older) = Len(rows)
      /\ \A i \in Token : older[i] = IF i = old THEN spent ELSE rows[i]
  <2>1. rows \in Seq(Row) /\ old \in 1 .. Len(rows)
    BY <1>3 DEF SessionsInv, Shape, RowsOK, Token
  <2> QED
    BY <1>7, <2>1, ExceptSeq DEF Token
<1> HIDE DEF older
<1>9. /\ rows' \in Seq(Row) /\ Len(rows') = n /\ Token' = Token \union {n} /\ n \notin Token
      /\ \A i \in Token : rows'[i] = older[i]
      /\ rows'[n] = row
  BY <1>1, <1>2, <1>6, <1>8, InsertFacts DEF SessionsInv
<1>10. \A i \in Token : /\ Alike(rows'[i], rows[i])
                        /\ rows'[i].revoked # "ended" \/ rows[i].revoked = "ended"
                        /\ rows'[i].revoked = "active" => rows[i].revoked = "active" /\ i # old
                        /\ i # old => rows'[i] = rows[i]
  BY <1>7, <1>8, <1>9 DEF Alike
<1>11. /\ pc'[r] = "done" /\ local'[r] = NoLocal
       /\ \A q \in Request : q # r => pc'[q] = pc[q] /\ local'[q] = local[q]
  BY <1>2, NoLocalType, MovedFacts DEF SessionsInv, Step
<1>12. Shape'
  <2>1. Good("done", NoLocal)
    BY <1>2, <1>4, NoLocalType DEF Good, Step
  <2>2. RequestsOK'
    BY <1>2, <1>4, <1>9, <2>1, RequestsKeep DEF SessionsInv
  <2>3. \A i \in Token' : rows'[i].proof <= user'.changes
    BY <1>2, <1>3, <1>6, <1>9, <1>10 DEF SessionsInv, Shape, RowsOK, Alike
  <2> QED
    BY <1>2, <1>9, <2>2, <2>3 DEF SessionsInv, Shape, RowsOK, ClockOK, UserOK
<1>13. Chained'
  <2>1. RowOK(n)'
    <3>1. rows'[old].family = rows[old].family /\ rows'[old].revoked = "rotated"
      BY <1>3, <1>7, <1>8, <1>9 DEF Alike
    <3>2. rows[old].family <= old /\ rows[old].family \in Nat /\ old \in Nat /\ old < n
      BY <1>3, <1>4 DEF SessionsInv, Chained, RowOK
    <3>3. rows'[n].prev = old /\ rows'[n].family = rows[old].family
      BY <1>6, <1>9
    <3>4. rows[old].family <= n
      BY <1>4, <3>2
    <3> QED
      BY <1>4, <3>1, <3>2, <3>3, <3>4 DEF RowOK
  <2>2. ASSUME NEW i \in Token, rows'[i].family = rows'[n].family PROVE Apart(i, n)'
    <3>1. rows[i].family = rows[old].family /\ rows'[i].prev = rows[i].prev
      BY <1>6, <1>9, <1>10, <2>2 DEF Alike
    <3>2. rows[i].prev # old
      BY <1>3, <1>4 DEF SessionsInv, Chained, RowOK
    <3>3. rows'[i].revoked # "active"
      BY <1>3, <1>10, <3>1 DEF SessionsInv, Chained, Apart
    <3> QED
      BY <1>6, <1>9, <3>1, <3>2, <3>3 DEF Apart
  <2>3. \A q \in Request : pc'[q] = "rotate.commit" =>
          /\ pc[q] = "rotate.commit" /\ local'[q].token = local[q].token
          /\ local[q].token > clock'.cleaned /\ rows'[local[q].token].revoked = "active"
    <3>1. \A q \in Rotating : /\ local[q].token \in Token /\ local[q].token > clock.cleaned
                              /\ rows[local[q].token].revoked = "active"
      BY LockedActive DEF SessionsInv
    <3>2. \A q \in Rotating : q # r => local[q].token # old
      BY <1>1, <1>3 DEF SessionsInv, Chained
    <3> QED
      BY <1>2, <1>10, <1>11, <3>1, <3>2 DEF Rotating
  <2> QED
    BY <1>1, <1>9, <1>10, <2>1, <2>2, <2>3, ChainedGrown DEF SessionsInv
<1>14. EndedIsDenied'
  BY <1>2, <1>6, <1>9, <1>10, <1>11, DeniedKept DEF SessionsInv
<1>15. \A i \in Token : Active(i)' => Active(i) /\ rows'[i] = rows[i]
  BY <1>2, <1>9, <1>10 DEF Active, Kept
<1>16. PasswordOut'
  <2>1. Excused => Excused'
    BY <1>2, <1>11 DEF Excused
  <2>2. \A q \in Request : pc'[q] = "sweep.write" =>
          \A i \in Token' : Active(i)' /\ i \notin local'[q].doomed => rows'[i].late
    BY <1>2, <1>5, <1>6, <1>9, <1>11, <1>15 DEF SessionsInv, PasswordOut
  <2>3. OldPasswordOut'
    <3>1. \A i \in Token : Active(i) /\ rows[i].proof # user.changes =>
            rows[i].late \/ user'.password # user'.changes
              \/ \E q \in Request : pc'[q] \in {"sweep.read", "sweep.write", "crashed"}
      BY <1>2, <1>11 DEF SessionsInv, PasswordOut, OldPasswordOut
    <3> QED
      BY <1>2, <1>3, <1>5, <1>6, <1>9, <1>15, <3>1 DEF OldPasswordOut
  <2>4. \A q \in Request : pc'[q] \in {"login.rehash", "login.issue"} =>
          local'[q].began < sweeps' \/ local'[q].proof = user'.changes \/ Excused'
    BY <1>2, <1>11, <2>1 DEF SessionsInv, PasswordOut
  <2> QED
    BY <2>2, <2>3, <2>4 DEF PasswordOut
<1> QED
  BY <1>1, <1>3, <1>6, <1>9, <1>10, <1>12, <1>13, <1>14, <1>15, <1>16 DEF SessionsInv

LEMMA DenyKeeps ==
  ASSUME SessionsInv, NEW r \in Request, Deny(r) \/ Crash(r)
  PROVE  SessionsInv' /\ UNCHANGED <<rows, clock>>
<1>0. NoLocal \in Local /\ [NoLocal EXCEPT !.doomed = local[r].doomed] \in Local
  <2>1. local[r] \in Local
    BY LocalFacts DEF SessionsInv, Shape
  <2> QED
    BY <2>1 DEF NoLocal, Local
<1>1. PICK s \in {"done", "crashed"}, l \in Local :
        /\ Moved(r, s, l) /\ UNCHANGED <<rows, clock, user, sweeps>>
        /\ denied \subseteq denied' /\ denied' \subseteq denied \union local[r].doomed
        /\ pc[r] \notin {"new", "done", "reuse", "crashed"}
        /\ \/ pc[r] = "deny" /\ s = "done" /\ l = NoLocal /\ denied' = denied \union local[r].doomed
           \/ pc[r] = "deny" /\ s = "crashed" /\ l = [NoLocal EXCEPT !.doomed = local[r].doomed]
           \/ pc[r] # "deny" /\ s = "crashed" /\ l = NoLocal /\ UNCHANGED denied
  <2>1. CASE Deny(r)
    BY <1>0, <2>1 DEF Deny, Return, Goto, Keep, Moved
  <2>2. CASE Crash(r) /\ pc[r] = "deny"
    BY <1>0, <2>2 DEF Crash, Over, Goto, Keep, Moved
  <2>3. CASE Crash(r) /\ pc[r] # "deny"
    BY <1>0, <2>3 DEF Crash, Over, Goto, Keep, Moved
  <2> QED
    BY <2>1, <2>2, <2>3
<1>2. local[r] \in Local /\ LocalOK(r) /\ user.changes \in Nat /\ sweeps \in Nat /\ Token' = Token
  BY <1>1, LocalFacts DEF SessionsInv, Shape, UserOK, User, Token
<1>3. Good(s, l) /\ s \in Step /\ l \in Local /\ (s = "crashed" /\ pc[r] = "deny" => l.doomed = local[r].doomed)
  <2>1. [NoLocal EXCEPT !.doomed = local[r].doomed] \in Local
        /\ [NoLocal EXCEPT !.doomed = local[r].doomed].doomed = local[r].doomed
        /\ [NoLocal EXCEPT !.doomed = local[r].doomed].token = 0
        /\ [NoLocal EXCEPT !.doomed = local[r].doomed].proof = 0
        /\ [NoLocal EXCEPT !.doomed = local[r].doomed].began = 0
    BY <1>2 DEF NoLocal, Local
  <2>2. l \in Local /\ l.token = 0 /\ l.doomed \subseteq local[r].doomed /\ l.proof = 0 /\ l.began = 0
    BY <1>1, <2>1, NoLocalType
  <2> QED
    <3>1. s \in Step /\ s \notin {"login.rehash", "rotate.commit"}
      BY <1>1 DEF Step
    <3>2. l.doomed \subseteq Token' /\ l.began <= sweeps' /\ l.proof <= user.changes'
      BY <1>1, <1>2, <2>2 DEF LocalOK
    <3>3. s = "crashed" /\ pc[r] = "deny" => l.doomed = local[r].doomed
      BY <1>1, <2>1
    <3> QED
      BY <2>2, <3>1, <3>2, <3>3 DEF Good
<1>4. /\ pc'[r] = s /\ local'[r] = l
      /\ \A q \in Request : q # r => pc'[q] = pc[q] /\ local'[q] = local[q]
  BY <1>1, <1>3, MovedFacts DEF SessionsInv
<1>5. Shape'
  <2>1. RequestsOK'
    BY <1>1, <1>2, <1>3, RequestsKeep DEF SessionsInv
  <2>2. denied' \subseteq Nat
    BY <1>1, <1>2, RowsNat DEF SessionsInv, Shape, LocalOK
  <2> QED
    BY <1>1, <1>2, <2>1, <2>2 DEF SessionsInv, Shape, RowsOK, ClockOK, UserOK
<1>6. Chained'
  <2>1. \A t \in Locked : t > clock'.cleaned /\ rows'[t].revoked = "active"
    BY <1>1, LockedActive DEF SessionsInv
  <2>2. \A i \in Token : Alike(rows'[i], rows[i]) /\ (rows'[i].revoked = "active" => rows[i].revoked = "active")
    BY <1>1 DEF Alike
  <2>3. \A q \in Request : pc'[q] = "rotate.commit" => pc[q] = "rotate.commit" /\ local'[q].token = local[q].token
    BY <1>1, <1>4
  <2> QED
    BY <1>2, <2>1, <2>2, <2>3, ChainedKept DEF SessionsInv
<1>7. EndedIsDenied'
  <2> SUFFICES ASSUME NEW i \in Token, rows[i].revoked = "ended"
               PROVE  i \in denied' \/ \E q \in Request : i \in local'[q].doomed /\ pc'[q] \in {"deny", "crashed"}
    BY <1>1, <1>2 DEF EndedIsDenied
  <2>1. CASE i \in denied
    BY <1>1, <2>1
  <2>2. ASSUME NEW q \in Request, i \in local[q].doomed, pc[q] \in {"deny", "crashed"}
        PROVE  i \in denied' \/ \E k \in Request : i \in local'[k].doomed /\ pc'[k] \in {"deny", "crashed"}
    <3>1. CASE q # r
      BY <1>4, <2>2, <3>1
    <3>2. CASE q = r
      BY <1>1, <1>3, <1>4, <2>2, <3>2
    <3> QED
      BY <3>1, <3>2
  <2> QED
    BY <2>1, <2>2 DEF SessionsInv, EndedIsDenied
<1>8. PasswordOut'
  <2>1. \A k : Active(k)' <=> Active(k)
    BY <1>1, <1>2 DEF Active, Kept
  <2>2. pc[r] = "sweep.read" \/ pc[r] = "sweep.write" => s = "crashed"
    BY <1>1
  <2> QED
    BY <1>1, <1>2, <1>4, <2>1, <2>2, PasswordKept DEF SessionsInv
<1> QED
  BY <1>1, <1>5, <1>6, <1>7, <1>8 DEF SessionsInv

LEMMA TimeKeeps ==
  ASSUME SessionsInv, GraceLapses \/ Expires \/ CleanupExpired
  PROVE  /\ SessionsInv' /\ Token' = Token /\ UNCHANGED <<rows, pc, local>>
         /\ \A i : Active(i)' => Active(i)
         /\ \A i : Live(i)' => Live(i)
<1>1. /\ UNCHANGED <<rows, user, denied, sweeps, pc, local>> /\ Token' = Token
      /\ \/ clock.lapsed < Len(rows) /\ clock' = [clock EXCEPT !.lapsed = @ + 1]
         \/ clock.expired < clock.lapsed /\ clock' = [clock EXCEPT !.expired = @ + 1]
         \/ /\ clock.cleaned < clock.expired /\ clock' = [clock EXCEPT !.cleaned = clock.expired]
            /\ (clock.cleaned + 1 .. clock.expired) \intersect Locked = {}
  BY DEF GraceLapses, Expires, CleanupExpired, Token
<1>2. /\ ClockOK' /\ clock.cleaned \in Nat /\ clock'.cleaned \in Nat /\ clock.cleaned <= clock'.cleaned
      /\ clock'.cleaned = clock.cleaned \/ (clock.cleaned + 1 .. clock'.cleaned) \intersect Locked = {}
  <2>1. /\ clock \in Clock /\ clock.cleaned \in Nat /\ clock.expired \in Nat /\ clock.lapsed \in Nat
        /\ clock.cleaned <= clock.expired /\ clock.expired <= clock.lapsed
    BY DEF SessionsInv, Shape, ClockOK, Clock
  <2> QED
    BY <1>1, <2>1 DEF ClockOK, Clock
<1>3. Shape'
  BY <1>1, <1>2 DEF SessionsInv, Shape, RowsOK, UserOK, RequestsOK, LocalOK
<1>4. Chained'
  <2>1. \A t \in Locked : t > clock'.cleaned /\ rows'[t].revoked = "active"
    <3>1. \A t \in Locked : t \in Nat /\ t > clock.cleaned /\ rows[t].revoked = "active"
      BY LockedActive, RowsNat DEF SessionsInv
    <3>2. \A t \in Locked : t <= clock'.cleaned /\ clock'.cleaned # clock.cleaned =>
            t \in clock.cleaned + 1 .. clock'.cleaned
      BY <1>2, <3>1
    <3> QED
      BY <1>1, <1>2, <3>1, <3>2
  <2>2. \A i \in Token : Alike(rows'[i], rows[i]) /\ (rows'[i].revoked = "active" => rows[i].revoked = "active")
    BY <1>1 DEF Alike
  <2>3. \A q \in Request : pc'[q] = "rotate.commit" => pc[q] = "rotate.commit" /\ local'[q].token = local[q].token
    BY <1>1
  <2> QED
    BY <1>1, <2>1, <2>2, <2>3, ChainedKept DEF SessionsInv
<1>5. EndedIsDenied'
  BY <1>1, DeniedKept DEF SessionsInv
<1>6. \A i : Active(i)' => Active(i)
  <2>1. \A i \in Token : i \in Nat
    BY RowsNat DEF SessionsInv
  <2> QED
    BY <1>1, <1>2, <2>1 DEF Active, Kept
<1>7. PasswordOut'
  <2>1. \A i : Active(i) => i \in Token
    BY DEF Active, Kept
  <2> QED
    BY <1>1, <1>6, <2>1, PasswordKept DEF SessionsInv
<1>8. \A i : Live(i)' => Live(i)
  <2>1. clock.expired \in Nat /\ clock'.expired \in Nat /\ clock.expired <= clock'.expired
    BY <1>1 DEF SessionsInv, Shape, ClockOK, Clock
  <2>2. \A i : Active(i) => i \in Nat
    BY RowsNat DEF SessionsInv, Active, Kept
  <2> QED
    BY <1>6, <2>1, <2>2 DEF Live
<1> QED
  BY <1>1, <1>3, <1>4, <1>5, <1>6, <1>7, <1>8 DEF SessionsInv

--------------------------------------------------------------------------
(* The invariant and what follows from it. *)

LEMMA InitHolds ==
  ASSUME Init
  PROVE  SessionsInv
<1>1. rows = <<FirstRow>> /\ Len(rows) = 1 /\ Token = {1} /\ rows[1] = FirstRow
  BY DEF Init, Token
<1>2. /\ FirstRow \in Row /\ FirstRow.family = 1 /\ FirstRow.prev = 0
      /\ FirstRow.revoked = "active" /\ FirstRow.proof = 0
  BY DEF FirstRow, Row, Reason
<1> HIDE DEF FirstRow
<1>3. rows \in Seq(Row)
  BY <1>1, <1>2
<1>4. /\ UserOK /\ user.password = 0 /\ user.changes = 0
  BY SessionsAssumption DEF Init, UserOK, User
<1>5. ClockOK
  BY DEF Init, ClockOK, Clock
<1>6. /\ \A r \in Request : pc[r] = "new" /\ local[r] = NoLocal
      /\ pc \in [Request -> Step] /\ local \in [Request -> Local]
  <2> HIDE DEF NoLocal
  <2> QED
    BY NoLocalType DEF Init, Step
<1>7. RequestsOK
  BY <1>4, <1>6, NoLocalType DEF Init, RequestsOK, LocalOK
<1>8. Shape
  BY <1>1, <1>2, <1>3, <1>4, <1>5, <1>7 DEF Init, Shape, RowsOK
<1>9. Chained
  BY <1>1, <1>2, <1>6 DEF Chained, RowOK, Rotating
<1>10. EndedIsDenied
  BY <1>1, <1>2 DEF EndedIsDenied
<1>11. PasswordOut
  BY <1>1, <1>2, <1>4, <1>6 DEF PasswordOut, OldPasswordOut
<1> QED
  BY <1>8, <1>9, <1>10, <1>11 DEF SessionsInv

LEMMA StutterKeeps ==
  ASSUME SessionsInv, UNCHANGED vars
  PROVE  SessionsInv'
<1>1. /\ UNCHANGED <<rows, clock, user, denied, sweeps, pc, local>> /\ Token' = Token
      /\ Locked' = Locked /\ Rotating' = Rotating
  BY DEF vars, Token, Locked, Rotating
<1>2. \A i : Active(i)' <=> Active(i)
  BY <1>1 DEF Active, Kept
<1>3. Shape'
  BY <1>1 DEF SessionsInv, Shape, RowsOK, ClockOK, UserOK, RequestsOK, LocalOK
<1>4. Chained'
  BY <1>1, LockedActive, ChainedKept DEF SessionsInv, Alike
<1>5. EndedIsDenied'
  BY <1>1, DeniedKept DEF SessionsInv
<1>6. PasswordOut'
  <2>1. \A i : Active(i) => i \in Token
    BY DEF Active, Kept
  <2> QED
    BY <1>1, <1>2, <2>1, PasswordKept DEF SessionsInv
<1> QED
  BY <1>3, <1>4, <1>5, <1>6 DEF SessionsInv

LEMMA NextKeeps ==
  ASSUME SessionsInv, [Next]_vars
  PROVE  SessionsInv'
<1>1. ASSUME NEW r \in Request, Arrive(r) PROVE SessionsInv'
  BY <1>1, LoginVerifyKeeps, ChangeReadKeeps, RefreshLockKeeps, RefreshReuseKeeps, RevokeSessionKeeps,
     LogoutKeeps, LogoutAllKeeps DEF Arrive
<1>2. ASSUME NEW r \in Request, Proceed(r) PROVE SessionsInv'
  BY <1>2, LoginRehashKeeps, LoginIssueKeeps, CapRankKeeps, CapRevokeKeeps, RefreshCommitKeeps,
     NewPasswordKeeps, SweepReadKeeps, SweepWriteKeeps, DenyKeeps DEF Proceed
<1>3. ASSUME NEW r \in Request, Crash(r) PROVE SessionsInv'
  BY <1>3, DenyKeeps
<1>4. ASSUME GraceLapses \/ Expires \/ CleanupExpired PROVE SessionsInv'
  BY <1>4, TimeKeeps
<1> QED
  BY <1>1, <1>2, <1>3, <1>4, StutterKeeps DEF Next

\* The four parts hold together in every state, for any requests, any cap and
\* horizon, with crashes and without.
THEOREM SessionsInvariant == Spec => []SessionsInv
<1>1. Init => SessionsInv
  BY InitHolds
<1>2. SessionsInv /\ [Next]_vars => SessionsInv'
  BY NextKeeps
<1> QED
  BY <1>1, <1>2, PTL DEF Spec

\* Every variable keeps its type, and rows lapse, expire and are deleted in
\* that order.
THEOREM TypeCorrect == Spec => []TypeOK
<1>1. SessionsInv => TypeOK
  BY DEF SessionsInv, Shape, RowsOK, ClockOK, Clock, UserOK, User, RequestsOK, TypeOK
<1> QED
  BY <1>1, SessionsInvariant, PTL

\* However refreshes interleave, a refresh token has at most one successor
\* and a family at most one active row: SELECT ... FOR UPDATE makes the second
\* of two parallel refreshes find the row spent.
THEOREM OneChainHolds == Spec => []OneChain
<1>1. SessionsInv => OneChain
  BY DEF SessionsInv, Chained, Apart, OneChain, Active
<1> QED
  BY <1>1, SessionsInvariant, PTL

\* A session that logout-all, revoke-session or a new password has ended is
\* denylisted, or its request still has to do it or crashed before it could.
THEOREM EndedIsDeniedHolds == Spec => []EndedIsDenied
<1>1. SessionsInv => EndedIsDenied
  BY DEF SessionsInv
<1> QED
  BY <1>1, SessionsInvariant, PTL

\* A new password puts the sessions of the old one out, but for rows of
\* requests that overlapped the sweep and a rehash that came after it.
THEOREM OldPasswordOutHolds == Spec => []OldPasswordOut
<1>1. SessionsInv => OldPasswordOut
  BY DEF SessionsInv, PasswordOut
<1> QED
  BY <1>1, SessionsInvariant, PTL

\* What a step does to the rows there are: they keep their place in the chain
\* and none becomes active or live again; a new row is of a new family or of
\* that of an active row, and has a predecessor unless a login inserted it.
Aging ==
  /\ Token \subseteq Token'
  /\ \A i \in Token :
       /\ rows'[i].family = rows[i].family /\ rows'[i].prev = rows[i].prev
       /\ Active(i)' => Active(i)
       /\ Live(i)' => Live(i)
  /\ \A i \in Token' : i \in Token \/ rows'[i].prev # 0 \/ \E r \in Request : LoginIssue(r)
  /\ \A i \in Token' : i \in Token \/ rows'[i].family \notin Token
       \/ \E j \in Token : Active(j) /\ rows[j].family = rows'[i].family

LEMMA NextAges ==
  ASSUME SessionsInv, [Next]_vars
  PROVE  Aging
<1>1. ASSUME UNCHANGED <<rows, clock>> PROVE Aging
  BY <1>1 DEF Aging, Token, Active, Kept, Live
<1>2. ASSUME NEW S, NEW reason \in Reason \ {"active"}, Revoke(S, reason), UNCHANGED clock PROVE Aging
  <2>1. /\ Token' = Token
        /\ \A i \in Token : /\ Alike(rows'[i], rows[i])
                            /\ rows'[i].revoked = IF i \in S THEN reason ELSE rows[i].revoked
    BY <1>2, RevokeFacts DEF SessionsInv
  <2> QED
    BY <1>2, <2>1 DEF Aging, Alike, Active, Kept, Live
<1>3. ASSUME NEW r \in Request, Arrive(r) PROVE Aging
  <2>1. CASE \E i \in Token : RevokeSession(r, i)
    BY <1>2, <2>1 DEF RevokeSession, Reason
  <2>2. CASE \E i, bearer \in Token : Logout(r, i, bearer)
    BY <1>2, <2>2 DEF Logout, Reason
  <2> QED
    BY <1>1, <1>3, <2>1, <2>2 DEF Arrive, LoginVerify, ChangeRead, RefreshLock, RefreshReuse, LogoutAll
<1>4. ASSUME NEW r \in Request, Proceed(r) PROVE Aging
  <2>1. CASE LoginIssue(r)
    <3> DEFINE n == Len(rows) + 1
    <3>1. PICK row : row.family = n /\ Insert(rows, row) /\ row \in Row /\ UNCHANGED clock
      <4> DEFINE late == Late(r)
                 row == [family |-> n, prev |-> 0, revoked |-> "active", proof |-> local[r].proof, late |-> late]
      <4>1. late \in BOOLEAN /\ n \in Nat /\ local[r].proof \in Nat
        BY RowsNat, LocalFacts DEF SessionsInv, Late
      <4>2. Insert(rows, row) /\ UNCHANGED clock
        BY <2>1 DEF LoginIssue
      <4> HIDE DEF late
      <4>3. row \in Row /\ row.family = n
        BY <4>1, NewRow
      <4> QED
        BY <4>2, <4>3
    <3>2. /\ Token' = Token \union {n} /\ n \notin Token
          /\ \A i \in Token : rows'[i] = rows[i]
          /\ rows'[n] = row
      BY <3>1, InsertFacts DEF SessionsInv, Shape, RowsOK
    <3> HIDE DEF n
    <3> QED
      BY <2>1, <3>1, <3>2 DEF Aging, Active, Kept, Live
  <2>2. CASE RefreshCommit(r)
    <3> DEFINE n == Len(rows) + 1
    <3>1. /\ local[r].token \in Token /\ Active(local[r].token)
          /\ Token' = Token \union {n}
          /\ rows'[n].family = rows[local[r].token].family /\ rows'[n].prev # 0
          /\ \A i \in Token : Alike(rows'[i], rows[i]) /\ (Active(i)' => Active(i))
          /\ UNCHANGED clock
      BY <2>2, RefreshCommitKeeps, RowsNat DEF RefreshCommit, SessionsInv
    <3> HIDE DEF n
    <3> QED
      BY <3>1 DEF Aging, Alike, Live
  <2>3. CASE CapRevoke(r)
    BY <1>2, <2>3 DEF CapRevoke, Reason
  <2>4. CASE SweepWrite(r)
    BY <1>2, <2>4 DEF SweepWrite, Reason
  <2> QED
    BY <1>1, <1>4, <2>1, <2>2, <2>3, <2>4 DEF Proceed, LoginRehash, CapRank, NewPassword, SweepRead, Deny
<1>5. ASSUME NEW r \in Request, Crash(r) PROVE Aging
  BY <1>1, <1>5 DEF Crash
<1>6. ASSUME GraceLapses \/ Expires \/ CleanupExpired PROVE Aging
  BY <1>6, TimeKeeps DEF Aging
<1>7. ASSUME UNCHANGED vars PROVE Aging
  BY <1>1, <1>7 DEF vars
<1> QED
  BY <1>3, <1>4, <1>5, <1>6, <1>7 DEF Next

\* No refresh under way, no replay of an older token and no grace window
\* brings back a session without an active row.
THEOREM EndedForGoodHolds == Spec => EndedForGood
<1>1. SessionsInv /\ [Next]_vars => [\A f \in Token : Ended(f) => Ended(f)']_vars
  <2> SUFFICES ASSUME SessionsInv, [Next]_vars, NEW f \in Token, Ended(f) PROVE Ended(f)'
    OBVIOUS
  <2>1. Aging
    BY NextAges
  <2>2. ASSUME NEW i \in Token', rows'[i].family = f PROVE ~ Active(i)'
    BY <2>1, <2>2 DEF Aging, Ended
  <2> QED
    BY <2>1, <2>2 DEF Aging, Ended
<1> QED
  BY <1>1, SessionsInvariant, PTL DEF Spec, EndedForGood

--------------------------------------------------------------------------
(* The session cap. *)

LiveUpTo(t) == {j \in Token : j <= t /\ Live(j)}

\* Once the rows up to t are within the cap they stay so: no row comes back.
Capped(t) == Cardinality(LiveUpTo(t)) <= MaxSessions

\* The rows of logins that no enforcement has counted yet.
Fresh == {i \in Token : rows[i].prev = 0 /\ ~ \E t \in Token : i <= t /\ Capped(t)}

\* Each is of a login of its own that has yet to enforce the cap, or crashed
\* before it could; one that is about to revoke has counted its own row.
OwnsFresh(own) ==
  /\ own \in [Fresh -> Request]
  /\ \A i \in Fresh : own[i] \in Uncapped
  /\ \A i, j \in Fresh : own[i] = own[j] => i = j
  /\ \A i \in Fresh : pc[own[i]] = "cap.revoke" => i <= local[own[i]].token

\* What a login is about to revoke is all that exceeds the cap, among the rows
\* that it ranked.
Ranked(r) == Cardinality(LiveUpTo(local[r].token) \ local[r].doomed) <= MaxSessions

Begun == {r \in Request : pc[r] # "new"}

CapInv ==
  /\ 1 \in Token /\ Capped(1)
  /\ IsFiniteSet(Begun)
  /\ \E own \in [Fresh -> Request] : OwnsFresh(own)
  /\ \A r \in Request : pc[r] = "cap.revoke" => Ranked(r)

--------------------------------------------------------------------------
LEMMA LeastOf ==
  ASSUME NEW S \in SUBSET Nat, S # {}
  PROVE  \E m \in S : \A k \in S : m <= k
<1> DEFINE R == OpToRel(<, Nat)
<1>1. IsWellFoundedOn(R, Nat)
  BY NatLessThanWellFounded
<1>2. \A x \in Nat, y \in Nat : y < x => <<y, x>> \in R
  BY DEF OpToRel
<1> HIDE DEF R
<1>3. PICK m \in S : \A k \in S : ~ (<<k, m>> \in R)
  BY <1>1, WFMin
<1>4. ASSUME NEW k \in S
      PROVE  m <= k
  <2>1. m \in Nat /\ k \in Nat /\ ~ (<<k, m>> \in R)
    BY <1>3
  <2>2. ~ (k < m)
    BY <1>2, <2>1, Zenon
  <2> QED
    BY <2>1, <2>2
<1> QED
  BY <1>4

LEMMA GreatestOf ==
  ASSUME NEW n \in Nat, NEW S \in SUBSET (0 .. n), S # {}
  PROVE  \E m \in S : \A k \in S : k <= m
<1> DEFINE T == {n - k : k \in S}
<1>1. T \in SUBSET Nat /\ T # {}
  <2>1. \A k \in S : n - k \in Nat
    OBVIOUS
  <2> QED
    BY <2>1
<1> HIDE DEF T
<1>2. PICK x \in T : \A y \in T : x <= y
  BY <1>1, LeastOf
<1>3. PICK m \in S : x = n - m
  BY DEF T
<1>4. ASSUME NEW k \in S
      PROVE  k <= m
  <2>1. n - k \in T
    BY DEF T
  <2> QED
    BY <1>2, <1>3, <2>1
<1> QED
  BY <1>4

LEMMA LiveUpToFinite ==
  ASSUME Shape, NEW t
  PROVE  IsFiniteSet(Token) /\ IsFiniteSet(LiveUpTo(t)) /\ Cardinality(LiveUpTo(t)) \in Nat
<1>1. IsFiniteSet(Token)
  BY RowsNat, FS_Interval DEF Token
<1>2. IsFiniteSet(LiveUpTo(t))
  BY <1>1, FS_Subset DEF LiveUpTo
<1> QED
  BY <1>1, <1>2, FS_CardinalityType

LEMMA Fewer ==
  ASSUME NEW A, NEW B, IsFiniteSet(B), A \subseteq B, Cardinality(B) <= MaxSessions
  PROVE  Cardinality(A) <= MaxSessions
<1>1. IsFiniteSet(A) /\ Cardinality(A) <= Cardinality(B)
  BY FS_Subset
<1>2. Cardinality(A) \in Nat /\ Cardinality(B) \in Nat /\ MaxSessions \in Nat
  BY <1>1, FS_CardinalityType, SessionsAssumption
<1> QED
  BY <1>1, <1>2

\* What was live up to a row that there is can only become less.
LEMMA LiveWanes ==
  ASSUME SessionsInv, SessionsInv', Aging, NEW t \in Token \union {0}
  PROVE  LiveUpTo(t)' \subseteq LiveUpTo(t)
<1>1. \A j \in Token' : j <= t => j \in Token
  BY RowsNat DEF SessionsInv, Token
<1> QED
  BY <1>1 DEF LiveUpTo, Aging

LEMMA CappedStays ==
  ASSUME SessionsInv, SessionsInv', Aging, NEW t \in Token, Capped(t)
  PROVE  Capped(t)'
BY LiveWanes, LiveUpToFinite, Fewer DEF Capped, SessionsInv

LEMMA RankedStays ==
  ASSUME SessionsInv, SessionsInv', Aging, NEW q \in Request, Ranked(q), local'[q] = local[q]
  PROVE  Ranked(q)'
<1> DEFINE t == local[q].token
           D == local[q].doomed
<1>1. LiveUpTo(t)' \subseteq LiveUpTo(t) /\ IsFiniteSet(LiveUpTo(t))
  BY LiveWanes, LocalFacts, LiveUpToFinite DEF SessionsInv, LocalOK
<1>2. IsFiniteSet(LiveUpTo(t) \ D) /\ LiveUpTo(t)' \ D \subseteq LiveUpTo(t) \ D
  BY <1>1, FS_Difference
<1>3. Cardinality(LiveUpTo(t) \ D) <= MaxSessions
  BY DEF Ranked
<1>4. Cardinality(LiveUpTo(t)' \ D) <= MaxSessions
  BY <1>2, <1>3, Fewer
<1> QED
  BY <1>4 DEF Ranked, LiveUpTo

\* A step by which no login issues a row and none is done with the cap.
LEMMA CapKept ==
  ASSUME SessionsInv, SessionsInv', CapInv, Aging, NEW r, Begun' \subseteq Begun \union {r},
         \A q \in Request : ~ LoginIssue(q),
         Uncapped \subseteq Uncapped',
         \A q \in Request : pc'[q] = "cap.revoke" =>
           \/ pc[q] = "cap.revoke" /\ local'[q] = local[q]
           \/ Len(rows) <= local'[q].token /\ Ranked(q)'
  PROVE  CapInv'
<1>1. (1 \in Token /\ Capped(1))' /\ IsFiniteSet(Begun')
  <2>1. 1 \in Token' /\ Capped(1)'
    BY CappedStays DEF CapInv, Aging
  <2>2. IsFiniteSet(Begun \union {r})
    BY FS_AddElement DEF CapInv
  <2> QED
    BY <2>1, <2>2, FS_Subset
<1>2. Fresh' \subseteq Fresh
  BY CappedStays DEF Fresh, Aging
<1>3. PICK own \in [Fresh -> Request] : OwnsFresh(own)
  BY DEF CapInv
<1>4. PICK f \in [Fresh' -> Request] : \A i \in Fresh' : f[i] = own[i]
  <2>1. [i \in Fresh' |-> own[i]] \in [Fresh' -> Request]
    BY <1>2
  <2> QED
    BY <2>1
<1>5. \A i \in Fresh' : f[i] \in Uncapped'
  BY <1>2, <1>3, <1>4 DEF OwnsFresh
<1>6. \A i \in Fresh', j \in Fresh' : f[i] = f[j] => i = j
  BY <1>2, <1>3, <1>4 DEF OwnsFresh
<1>7. ASSUME NEW i \in Fresh', pc'[f[i]] = "cap.revoke"
      PROVE  i <= local'[f[i]].token
  <2>1. i \in Fresh /\ f[i] = own[i] /\ i <= Len(rows) /\ i \in Nat /\ Len(rows) \in Nat
    BY <1>2, <1>4, RowsNat DEF Fresh, SessionsInv
  <2>2. f[i] \in Request
    BY <1>4
  <2>3. local'[f[i]].token \in Nat
    BY <2>2 DEF SessionsInv, Shape, RequestsOK, Local
  <2> QED
    BY <1>3, <1>7, <2>1, <2>2, <2>3 DEF OwnsFresh
<1>8. OwnsFresh(f)'
  BY <1>4, <1>5, <1>6, <1>7 DEF OwnsFresh
<1>9. \A q \in Request : pc'[q] = "cap.revoke" => Ranked(q)'
  BY RankedStays DEF CapInv
<1> QED
  BY <1>1, <1>4, <1>8, <1>9 DEF CapInv

\* Of n live rows in order, the newest MaxSessions are ranked within the cap.
LEMMA RankBound ==
  ASSUME SessionsInv
  PROVE  Cardinality({i \in Token : Live(i) /\ ~ (Rank(i) > MaxSessions)}) <= MaxSessions
<1> DEFINE S == {i \in Token : Live(i) /\ ~ (Rank(i) > MaxSessions)}
<1>1. CASE S = {}
  BY <1>1, FS_EmptySet, SessionsAssumption
<1>2. CASE S # {}
  <2>1. S \in SUBSET Nat
    BY RowsNat DEF SessionsInv
  <2>2. PICK m \in S : \A k \in S : m <= k
    BY <1>2, <2>1, LeastOf
  <2> DEFINE T == {j \in Token : Live(j) /\ j >= m}
  <2>3. S \subseteq T
    BY <2>1, <2>2
  <2>4. IsFiniteSet(T) /\ Cardinality(T) \in Nat
    BY LiveUpToFinite, FS_Subset, FS_CardinalityType DEF SessionsInv
  <2>5. Cardinality(T) <= MaxSessions
    BY <2>2, <2>4, SessionsAssumption DEF Rank
  <2> QED
    BY <2>3, <2>4, <2>5, Fewer
<1> QED
  BY <1>1, <1>2

LEMMA CapRankCounts ==
  ASSUME SessionsInv, NEW r \in Request, CapRank(r)
  PROVE  Ranked(r)' /\ Len(rows) <= local'[r].token
<1> DEFINE beyond == {i \in Token : Live(i) /\ Rank(i) > MaxSessions}
           S == {i \in Token : Live(i) /\ ~ (Rank(i) > MaxSessions)}
<1>1. UNCHANGED <<rows, clock>> /\ local' = [local EXCEPT ![r] =
        [local[r] EXCEPT !.doomed = beyond, !.token = Len(rows)]]
  BY DEF CapRank, Keep
<1>2. local[r] \in Local /\ Len(rows) \in Nat
  BY LocalFacts, RowsNat DEF SessionsInv
<1> HIDE DEF beyond
<1>3. local'[r].doomed = beyond /\ local'[r].token = Len(rows)
  BY <1>1, <1>2 DEF SessionsInv, Shape, RequestsOK, Local
<1>4. LiveUpTo(Len(rows))' = {j \in Token : Live(j)}
  BY <1>1, RowsNat DEF SessionsInv, LiveUpTo, Token, Live, Active, Kept
<1>5. LiveUpTo(Len(rows))' \ beyond = S
  BY <1>4 DEF beyond
<1>6. Cardinality(S) <= MaxSessions
  BY RankBound
<1>7. LiveUpTo(local[r].token)' = LiveUpTo(Len(rows))'
  BY <1>1, <1>3 DEF LiveUpTo
<1>8. (LiveUpTo(local[r].token) \ local[r].doomed)' = S
  BY <1>3, <1>5, <1>7
<1>9. Ranked(r)'
  BY <1>6, <1>8 DEF Ranked
<1> QED
  BY <1>2, <1>3, <1>9

\* The row of a login is its own until the login has enforced the cap.
LEMMA LoginIssueCaps ==
  ASSUME SessionsInv, SessionsInv', CapInv, Aging, NEW r \in Request, LoginIssue(r)
  PROVE  CapInv'
<1> DEFINE n == Len(rows) + 1
<1>1. /\ pc[r] = "login.issue" /\ Goto(r, "cap.rank") /\ UNCHANGED local
      /\ \E row : rows' = Append(rows, row)
  BY DEF LoginIssue, Insert
<1>2. /\ pc'[r] = "cap.rank" /\ \A q \in Request : q # r => pc'[q] = pc[q]
  BY <1>1 DEF Goto, SessionsInv, Shape, RequestsOK
<1>3. Token' \subseteq Token \union {n}
  <2>1. Len(rows') = n /\ Len(rows) \in Nat
    BY <1>1 DEF SessionsInv, Shape, RowsOK
  <2> QED
    BY <2>1 DEF Token
<1> HIDE DEF n
<1>4. (1 \in Token /\ Capped(1))' /\ IsFiniteSet(Begun')
  <2>1. 1 \in Token' /\ Capped(1)'
    BY CappedStays DEF CapInv, Aging
  <2>2. Begun' \subseteq Begun
    BY <1>1, <1>2 DEF Begun
  <2> QED
    BY <2>1, <2>2, FS_Subset DEF CapInv
<1>5. Fresh' \subseteq Fresh \union {n}
  BY <1>3, CappedStays DEF Fresh, Aging
<1>6. PICK own \in [Fresh -> Request] : OwnsFresh(own)
  BY DEF CapInv
<1>7. PICK f \in [Fresh' -> Request] : \A i \in Fresh' : f[i] = IF i \in Fresh THEN own[i] ELSE r
  <2>1. [i \in Fresh' |-> IF i \in Fresh THEN own[i] ELSE r] \in [Fresh' -> Request]
    OBVIOUS
  <2> QED
    BY <2>1
<1>8. \A i \in Fresh : own[i] # r
  BY <1>1, <1>6 DEF OwnsFresh, Uncapped
<1>9. \A i \in Fresh' : f[i] \in Uncapped'
  BY <1>2, <1>6, <1>7 DEF OwnsFresh, Uncapped
<1>10. \A i \in Fresh', j \in Fresh' : f[i] = f[j] => i = j
  BY <1>5, <1>6, <1>7, <1>8 DEF OwnsFresh
<1>11. \A i \in Fresh' : pc'[f[i]] = "cap.revoke" => i <= local'[f[i]].token
  BY <1>1, <1>2, <1>6, <1>7 DEF OwnsFresh
<1>12. OwnsFresh(f)'
  BY <1>7, <1>9, <1>10, <1>11 DEF OwnsFresh
<1>13. \A q \in Request : pc'[q] = "cap.revoke" => Ranked(q)'
  BY <1>1, <1>2, RankedStays DEF CapInv
<1> QED
  BY <1>4, <1>7, <1>12, <1>13 DEF CapInv

\* A login that has revoked what it ranked beyond the cap leaves the rows it
\* ranked within the cap, its own among them.
LEMMA CapRevokeCaps ==
  ASSUME SessionsInv, SessionsInv', CapInv, Aging, NEW r \in Request, CapRevoke(r),
         NEW t, t = local[r].token
  PROVE  CapInv' /\ Token' = Token /\ (t \in Token => Capped(t)')
<1> DEFINE D == local[r].doomed
<1>1. /\ pc[r] = "cap.revoke" /\ Moved(r, "done", NoLocal) /\ UNCHANGED clock
      /\ Revoke({i \in D : Kept(i)}, "session_cap")
  BY DEF CapRevoke, Return, Goto, Keep, Moved
<1>2. /\ pc'[r] = "done" /\ \A q \in Request : q # r => pc'[q] = pc[q] /\ local'[q] = local[q]
  BY <1>1, MovedFacts, NoLocalType DEF SessionsInv, Step
<1>3. /\ Token' = Token
      /\ \A i \in Token : i \in D /\ Kept(i) => rows'[i].revoked = "session_cap"
  BY <1>1, RevokeFacts DEF SessionsInv, Reason
<1>4. \A i \in Token : Live(i)' => i \notin D
  BY <1>1, <1>3 DEF Live, Active, Kept
<1>5. ASSUME t \in Token
      PROVE  Capped(t)'
  <2>1. LiveUpTo(t)' \subseteq LiveUpTo(t) \ D
    BY <1>3, <1>4, <1>5, LiveWanes DEF LiveUpTo
  <2>2. IsFiniteSet(LiveUpTo(t) \ D)
    BY LiveUpToFinite, FS_Difference DEF SessionsInv
  <2>3. Cardinality(LiveUpTo(t) \ D) <= MaxSessions
    BY <1>1 DEF CapInv, Ranked
  <2>4. Cardinality(LiveUpTo(t)') <= MaxSessions
    BY <2>1, <2>2, <2>3, Fewer
  <2> QED
    BY <2>4 DEF Capped, LiveUpTo
<1>6. (1 \in Token /\ Capped(1))' /\ IsFiniteSet(Begun')
  <2>1. 1 \in Token' /\ Capped(1)'
    BY CappedStays DEF CapInv, Aging
  <2>2. Begun' \subseteq Begun
    BY <1>1, <1>2 DEF Begun
  <2> QED
    BY <2>1, <2>2, FS_Subset DEF CapInv
<1>7. PICK own \in [Fresh -> Request] : OwnsFresh(own)
  BY DEF CapInv
<1>8. Fresh' \subseteq Fresh
  BY <1>3, CappedStays DEF Fresh, Aging
<1>9. \A i \in Fresh' : own[i] # r
  <2> SUFFICES ASSUME NEW i \in Fresh', own[i] = r
               PROVE  FALSE
    OBVIOUS
  <2>1. i \in Fresh /\ i \in Token /\ i <= t /\ i \in Nat /\ i > 0
    BY <1>1, <1>7, <1>8, RowsNat DEF OwnsFresh, Fresh, SessionsInv
  <2>2. t \in Token
    BY <2>1, LocalFacts DEF SessionsInv, LocalOK
  <2> QED
    BY <1>3, <1>5, <2>1, <2>2 DEF Fresh
<1>10. PICK f \in [Fresh' -> Request] : \A i \in Fresh' : f[i] = own[i]
  <2>1. [i \in Fresh' |-> own[i]] \in [Fresh' -> Request]
    BY <1>8
  <2> QED
    BY <2>1
<1>11. \A i \in Fresh' : f[i] \in Uncapped' /\ pc'[f[i]] = pc[f[i]] /\ local'[f[i]] = local[f[i]]
  BY <1>2, <1>7, <1>8, <1>9, <1>10 DEF OwnsFresh, Uncapped
<1>12. \A i \in Fresh', j \in Fresh' : f[i] = f[j] => i = j
  BY <1>7, <1>8, <1>10 DEF OwnsFresh
<1>13. OwnsFresh(f)'
  BY <1>7, <1>8, <1>10, <1>11, <1>12 DEF OwnsFresh
<1>14. \A q \in Request : pc'[q] = "cap.revoke" => Ranked(q)'
  BY <1>2, RankedStays DEF CapInv
<1> QED
  BY <1>3, <1>5, <1>6, <1>10, <1>13, <1>14 DEF CapInv

\* A request that is not at the cap, or stops there.
LEMMA CapAside ==
  ASSUME SessionsInv, SessionsInv', CapInv, Aging, \A q \in Request : ~ LoginIssue(q),
         NEW r \in Request, NEW s, Goto(r, s), s # "cap.revoke",
         pc[r] \in {"cap.rank", "cap.revoke", "crashed"} => s = "crashed",
         \A q \in Request : q # r => local'[q] = local[q]
  PROVE  CapInv'
<1>1. pc'[r] = s /\ \A q \in Request : q # r => pc'[q] = pc[q]
  BY DEF Goto, SessionsInv, Shape, RequestsOK
<1>2. Begun' \subseteq Begun \union {r} /\ Uncapped \subseteq Uncapped'
  BY <1>1 DEF Begun, Uncapped
<1>3. \A q \in Request : pc'[q] = "cap.revoke" => pc[q] = "cap.revoke" /\ local'[q] = local[q]
  BY <1>1
<1> QED
  BY <1>2, <1>3, CapKept

LEMMA CapRankCaps ==
  ASSUME SessionsInv, SessionsInv', CapInv, Aging, NEW r \in Request, CapRank(r)
  PROVE  CapInv'
<1>1. /\ pc[r] = "cap.rank" /\ pc'[r] = "cap.revoke"
      /\ \A q \in Request : q # r => pc'[q] = pc[q] /\ local'[q] = local[q]
  BY DEF CapRank, Goto, Keep, SessionsInv, Shape, RequestsOK
<1>2. \A q \in Request : ~ LoginIssue(q)
  BY <1>1 DEF LoginIssue, Goto, SessionsInv, Shape, RequestsOK
<1>3. Begun' \subseteq Begun \union {r} /\ Uncapped \subseteq Uncapped'
  BY <1>1 DEF Begun, Uncapped
<1>4. \A q \in Request : pc'[q] = "cap.revoke" =>
        \/ pc[q] = "cap.revoke" /\ local'[q] = local[q]
        \/ Len(rows) <= local'[q].token /\ Ranked(q)'
  BY <1>1, CapRankCounts
<1> QED
  BY <1>2, <1>3, <1>4, CapKept

LEMMA CapStep ==
  ASSUME SessionsInv, CapInv, [Next]_vars
  PROVE  CapInv'
<1>1. SessionsInv' /\ Aging
  BY NextKeeps, NextAges
<1>2. CASE \E r \in Request : LoginIssue(r)
  BY <1>1, <1>2, LoginIssueCaps
<1>3. CASE \E r \in Request : CapRank(r) \/ CapRevoke(r)
  BY <1>1, <1>3, CapRankCaps, CapRevokeCaps
<1> DEFINE Others == \A q \in Request : ~ LoginIssue(q)
<1>4. ASSUME Others, NEW r \in Request, Arrive(r)
      PROVE  CapInv'
  <2>1. pc[r] = "new" /\ (\A q \in Request : q # r => local'[q] = local[q])
        /\ \E s \in Step \ {"cap.revoke"} : Goto(r, s)
    BY <1>4 DEF Arrive, LoginVerify, ChangeRead, RefreshLock, RefreshReuse, RevokeSession, Logout,
       LogoutAll, Keep, Step, SessionsInv, Shape, RequestsOK
  <2> QED
    BY <1>1, <1>4, <2>1, CapAside
<1>5. ASSUME Others, NEW r \in Request, Proceed(r), ~ CapRank(r), ~ CapRevoke(r)
      PROVE  CapInv'
  <2>1. pc[r] \notin {"cap.rank", "cap.revoke", "crashed"} /\ (\A q \in Request : q # r => local'[q] = local[q])
        /\ \E s \in Step \ {"cap.revoke"} : Goto(r, s)
    BY <1>5 DEF Proceed, LoginRehash, RefreshCommit, NewPassword, SweepRead, SweepWrite, Deny,
       Return, Keep, Step, SessionsInv, Shape, RequestsOK
  <2> QED
    BY <1>1, <1>5, <2>1, CapAside
<1>6. ASSUME Others, NEW r \in Request, Crash(r)
      PROVE  CapInv'
  <2>1. Goto(r, "crashed") /\ \A q \in Request : q # r => local'[q] = local[q]
    BY <1>6 DEF Crash, Keep, SessionsInv, Shape, RequestsOK
  <2> QED
    BY <1>1, <1>6, <2>1, CapAside
<1>7. ASSUME Others, UNCHANGED <<pc, local>>
      PROVE  CapInv'
  <2>1. /\ Begun' \subseteq Begun \union {0} /\ Uncapped \subseteq Uncapped'
        /\ \A q \in Request : pc'[q] = "cap.revoke" => pc[q] = "cap.revoke" /\ local'[q] = local[q]
    BY <1>7 DEF Begun, Uncapped
  <2> QED
    BY <1>1, <1>7, <2>1, CapKept
<1>8. GraceLapses \/ Expires \/ CleanupExpired \/ UNCHANGED vars => UNCHANGED <<pc, local>>
  BY DEF GraceLapses, Expires, CleanupExpired, vars
<1> QED
  BY <1>2, <1>3, <1>4, <1>5, <1>6, <1>7, <1>8 DEF Next

LEMMA CapInit ==
  ASSUME Init
  PROVE  CapInv
<1>1. rows = <<FirstRow>> /\ Len(rows) = 1 /\ Token = {1}
  BY DEF Init, Token
<1>2. Capped(1)
  <2>1. LiveUpTo(1) \subseteq {1}
    BY <1>1 DEF LiveUpTo
  <2>2. IsFiniteSet({1}) /\ Cardinality({1}) <= MaxSessions
    BY FS_Singleton, SessionsAssumption
  <2> QED
    BY <2>1, <2>2, Fewer DEF Capped
<1>3. Fresh = {}
  BY <1>1, <1>2 DEF Fresh
<1>4. Begun = {} /\ \A r \in Request : pc[r] # "cap.revoke"
  BY DEF Init, Begun
<1>5. PICK own \in [Fresh -> Request] : TRUE
  <2>1. [i \in {} |-> i] \in [{} -> Request]
    OBVIOUS
  <2> QED
    BY <1>3, <2>1
<1>6. OwnsFresh(own)
  BY <1>3 DEF OwnsFresh
<1> QED
  BY <1>1, <1>2, <1>4, <1>5, <1>6, FS_EmptySet DEF CapInv

\* Only enforcing the cap ends a request that stands before its revocation.
LEMMA CapEnds ==
  ASSUME SessionsInv, [Next]_vars, NEW r \in Request, pc[r] = "cap.revoke", pc'[r] = "done"
  PROVE  CapRevoke(r)
<1>1. ASSUME NEW q \in Request, q # r, NEW s, Goto(q, s)
      PROVE  FALSE
  BY <1>1 DEF Goto, SessionsInv, Shape, RequestsOK
<1>2. ASSUME NEW q \in Request, Arrive(q) \/ Proceed(q) \/ Crash(q)
      PROVE  \E s : Goto(q, s)
  BY <1>2 DEF Arrive, LoginVerify, ChangeRead, RefreshLock, RefreshReuse, RevokeSession, Logout,
     LogoutAll, Proceed, LoginRehash, LoginIssue, CapRank, CapRevoke, RefreshCommit, NewPassword,
     SweepRead, SweepWrite, Deny, Crash, Return
<1>3. Arrive(r) \/ Proceed(r) \/ Crash(r)
  BY <1>1, <1>2 DEF Next, GraceLapses, Expires, CleanupExpired, vars
<1>4. ~ Arrive(r)
  BY DEF Arrive, LoginVerify, ChangeRead, RefreshLock, RefreshReuse, RevokeSession, Logout, LogoutAll
<1>5. ~ Crash(r)
  BY DEF Crash, Goto, SessionsInv, Shape, RequestsOK
<1> QED
  BY <1>3, <1>4, <1>5 DEF Proceed, LoginRehash, LoginIssue, CapRank, RefreshCommit, NewPassword,
     SweepRead, SweepWrite, Deny

\* The live rows are those up to the last row that is within the cap, those
\* that a refresh inserted since, and those of logins that are not done.
LEMMA CapRevokeLeaves ==
  ASSUME SessionsInv, CapInv, [Next]_vars, NEW r \in Request, CapRevoke(r)
  PROVE  Cardinality({i \in Token : Live(i)}') <=
           MaxSessions + Cardinality(Uncapped') +
           Cardinality({i \in Token : i > local[r].token /\ rows[i].prev # 0})
<1>1. PICK t : t = local[r].token
  OBVIOUS
<1>2. SessionsInv' /\ Aging /\ CapInv' /\ Token' = Token /\ (t \in Token => Capped(t)')
  BY <1>1, NextKeeps, NextAges, CapRevokeCaps
<1> DEFINE S == {k \in Token : Capped(k)'}
           A == {i \in Token : Live(i)'}
           Z == {i \in Token : i > t /\ rows[i].prev # 0}
<1>3. t \in Nat /\ (t = 0 \/ t \in Token) /\ Len(rows) \in Nat /\ Token \subseteq Nat
  BY <1>1, LocalFacts, RowsNat DEF SessionsInv, LocalOK
<1>4. PICK m \in S : \A k \in S : k <= m
  <2>1. S # {} /\ S \in SUBSET (0 .. Len(rows))
    BY <1>2, <1>3 DEF CapInv, Token
  <2> HIDE DEF S
  <2> QED
    BY <1>3, <2>1, GreatestOf
<1>5. m \in Token /\ m \in Nat /\ t <= m /\ Capped(m)'
  BY <1>2, <1>3, <1>4
<1> DEFINE X == LiveUpTo(m)'
           Y == Fresh'
<1>6. A \subseteq X \union Y \union Z
  <2> SUFFICES ASSUME NEW i \in Token, Live(i)', ~ (i <= m), rows[i].prev = 0 \/ ~ (i > t)
               PROVE  i \in Fresh'
    BY <1>2 DEF LiveUpTo
  <2>1. i \in Nat /\ i > m /\ i > t /\ rows'[i].prev = 0
    BY <1>2, <1>3, <1>5 DEF Aging
  <2>2. \A k \in Token : i <= k => ~ Capped(k)'
    BY <1>3, <1>4, <1>5, <2>1
  <2> QED
    BY <1>2, <2>1, <2>2 DEF Fresh
<1>7. IsFiniteSet(Token) /\ Cardinality(X) <= MaxSessions
  BY <1>5, LiveUpToFinite DEF Capped, SessionsInv, LiveUpTo
<1>8. IsFiniteSet(X) /\ IsFiniteSet(Y) /\ IsFiniteSet(Z) /\ IsFiniteSet(Uncapped')
  <2>1. X \subseteq Token /\ Y \subseteq Token /\ Z \subseteq Token
    BY <1>2 DEF LiveUpTo, Fresh
  <2>2. Uncapped' \subseteq Begun' /\ IsFiniteSet(Begun')
    BY <1>2 DEF Uncapped, Begun, CapInv
  <2> QED
    BY <1>7, <2>1, <2>2, FS_Subset
<1>9. Cardinality(Y) <= Cardinality(Uncapped')
  <2>1. PICK own \in [Y -> Request] : OwnsFresh(own)'
    BY <1>2 DEF CapInv
  <2>2. own \in [Y -> Uncapped'] /\ \A i \in Y, j \in Y : own[i] = own[j] => i = j
    BY <2>1 DEF OwnsFresh
  <2>3. ~ (Cardinality(Uncapped') < Cardinality(Y))
    BY <1>8, <2>2, FS_PigeonHole
  <2> QED
    BY <1>8, <2>3, FS_CardinalityType
<1> HIDE DEF A, X, Y, Z
<1>10. /\ Cardinality(X \union Y \union Z) <= Cardinality(X) + Cardinality(Y) + Cardinality(Z)
       /\ IsFiniteSet(X \union Y \union Z)
  <2>1. IsFiniteSet(X \union Y) /\ IsFiniteSet((X \union Y) \intersect Z) /\ IsFiniteSet(X \intersect Y)
    BY <1>8, FS_Union, FS_Intersection
  <2>2. Cardinality(X \union Y) = Cardinality(X) + Cardinality(Y) - Cardinality(X \intersect Y)
    BY <1>8, FS_Union
  <2>3. /\ IsFiniteSet(X \union Y \union Z)
        /\ Cardinality(X \union Y \union Z) =
             Cardinality(X \union Y) + Cardinality(Z) - Cardinality((X \union Y) \intersect Z)
    BY <1>8, <2>1, FS_Union
  <2>4. /\ Cardinality(X) \in Nat /\ Cardinality(Y) \in Nat /\ Cardinality(Z) \in Nat
        /\ Cardinality(X \intersect Y) \in Nat /\ Cardinality((X \union Y) \intersect Z) \in Nat
        /\ Cardinality(X \union Y) \in Nat
    BY <1>8, <2>1, FS_CardinalityType
  <2> QED
    BY <2>2, <2>3, <2>4
<1>11. Cardinality(A) <= Cardinality(X \union Y \union Z) /\ IsFiniteSet(A)
  BY <1>6, <1>10, FS_Subset
<1>12. /\ Cardinality(A) \in Nat /\ Cardinality(X) \in Nat /\ Cardinality(Y) \in Nat
       /\ Cardinality(Z) \in Nat /\ Cardinality(Uncapped') \in Nat /\ MaxSessions \in Nat
       /\ Cardinality(X \union Y \union Z) \in Nat
  BY <1>8, <1>10, <1>11, FS_CardinalityType, SessionsAssumption
<1>13. Cardinality(A) <= MaxSessions + Cardinality(Uncapped') + Cardinality(Z)
  BY <1>7, <1>9, <1>10, <1>11, <1>12
<1>14. {i \in Token : Live(i)}' = A /\ {i \in Token : i > local[r].token /\ rows[i].prev # 0} = Z
  BY <1>1, <1>2 DEF A, Z
<1> QED
  BY <1>13, <1>14

\* CapEnforced: a login that has enforced the cap leaves at most MaxSessions
\* live sessions, not counting logins that still have to enforce it and
\* refreshes that committed between its ranking and its revocation.
THEOREM CapEnforcedHolds == Spec => CapEnforced
<1> DEFINE P == SessionsInv /\ CapInv
<1>1. Init => P
  BY InitHolds, CapInit
<1>2. P /\ [Next]_vars => P'
  BY NextKeeps, CapStep
<1>3. P /\ [Next]_vars =>
        [\A r \in Request : pc[r] = "cap.revoke" /\ pc'[r] = "done" =>
           Cardinality({i \in Token : Live(i)}') <=
             MaxSessions + Cardinality(Uncapped') +
             Cardinality({i \in Token : i > local[r].token /\ rows[i].prev # 0})]_vars
  BY CapEnds, CapRevokeLeaves
<1> QED
  BY <1>1, <1>2, <1>3, PTL DEF Spec, CapEnforced
============================================================================
