---------------------------- MODULE AccountProofs --------------------------
(***************************************************************************)
(* Proofs about the modules of an account and of what its plan lets it do: *)
(* Accounts, Invites, PlanLimits and Checkout, for every limit, plan, set  *)
(* of requests, invitees, resources and emails and every combination of    *)
(* faults.                                                                 *)
(*                                                                         *)
(* The argument for the lockout: as long as no failed login was counted on *)
(* a row that had changed, the row's counter is the number of failures in  *)
(* the open window (CountExact), and a failure that is about to be written *)
(* holds the successor of the counter it read (CountedFromSeen). For the   *)
(* links: one that is usable was issued after the last reset, because a    *)
(* reset consumes every link that can reset.                               *)
(*                                                                         *)
(* For the invitations: an open one was made on a count below the limit,   *)
(* so that the members exceed it only by joins that are noted as late      *)
(* (WithinPlan). At most one is open of an email whose transactions never  *)
(* overlapped (OneOpen): a request that is about to insert has closed all  *)
(* that were open, and nobody else opened one since.                       *)
(*                                                                         *)
(* The argument for the limits: a request that is about to insert has      *)
(* counted few enough rows for what it will insert (CountedOK). If the     *)
(* count still holds when it inserts, the limit holds afterwards; if not,  *)
(* the rows it inserts are among those that the history allows for.        *)
(*                                                                         *)
(* For checkout: unless one started while an earlier session was           *)
(* outstanding, or a lock was freed from under its holder, whoever buys    *)
(* holds the lock and found no session open or paid, and there is one such *)
(* session at most (SolePurchase). Unless two requests created a customer  *)
(* at once, or one did not store it, whoever creates one is alone and      *)
(* there was none (SoleCustomer).                                          *)
(***************************************************************************)
EXTENDS Accounts, Invites, PlanLimits, Checkout, FiniteSetTheorems, TLAPS

--------------------------------------------------------------------------
(* Account security *)

AccountSteps == {"new", "signup.insert", "signup.verify", "login.success",
                 "login.failure", "failure.write", "done", "failed"}

NextCount(seen) == IF seen.window = "open" THEN seen.attempts + 1 ELSE 1

FailureLocal == [op: {"failure"}, count: 1 .. MaxAttempts, window: {"open"}, seen: Account]

CountedFromSeen ==
  \A r \in Request : pc[r] = "failure.write" =>
    local[r] \in FailureLocal /\ local[r].count = NextCount(local[r].seen)

AccountRequestsOK ==
  /\ pc \in [Request -> AccountSteps]
  /\ local \in [Request -> AccountLocal \union {Nothing}]
  /\ CountedFromSeen

RowOK == account \in Account /\ account.workspaces = IF account.exists THEN 1 ELSE 0

CountExact ==
  accountHistory.overlapped \/
    /\ accountHistory.streak = IF account.window = "open" THEN account.attempts ELSE 0
    /\ accountHistory.lockedBy = MaxAttempts

LinksOK == links \in [Request -> Link] /\ OldLinksDead

AccountInv ==
  AccountRequestsOK /\ RowOK /\ accountHistory \in AccountHistory /\ CountExact /\ LinksOK

--------------------------------------------------------------------------
\* A request that moves, with what it holds, leaves the others alone.
LEMMA AccountGoOK ==
  ASSUME AccountRequestsOK, NEW r \in Request, NEW s \in AccountSteps,
         NEW l \in AccountLocal \union {Nothing}, Go(r, l, s),
         s = "failure.write" => l \in FailureLocal /\ l.count = NextCount(l.seen)
  PROVE  AccountRequestsOK'
<1>1. pc' = [pc EXCEPT ![r] = s] /\ local' = [local EXCEPT ![r] = l]
  BY DEF Go
<1>2. pc' \in [Request -> AccountSteps] /\ pc'[r] = s /\ \A q \in Request : q # r => pc'[q] = pc[q]
  BY <1>1 DEF AccountRequestsOK
<1>3. local' \in [Request -> AccountLocal \union {Nothing}]
      /\ local'[r] = l /\ \A q \in Request : q # r => local'[q] = local[q]
  <2> DEFINE L == AccountLocal \union {Nothing}
  <2>1. local \in [Request -> L] /\ l \in L
    BY DEF AccountRequestsOK
  <2> HIDE DEF L
  <2>2. local' \in [Request -> L] /\ local'[r] = l /\ \A q \in Request : q # r => local'[q] = local[q]
    BY <1>1, <2>1
  <2> QED
    BY <2>2 DEF L
<1>4. ASSUME NEW q \in Request, pc'[q] = "failure.write"
      PROVE  local'[q] \in FailureLocal /\ local'[q].count = NextCount(local'[q].seen)
  <2>1. CASE q = r
    BY <1>2, <1>3, <1>4, <2>1
  <2>2. CASE q # r
    <3>1. pc[q] = "failure.write" /\ local'[q] = local[q]
      BY <1>2, <1>3, <1>4, <2>2
    <3> QED
      BY <3>1 DEF AccountRequestsOK, CountedFromSeen
  <2> QED
    BY <2>1, <2>2
<1>5. CountedFromSeen'
  BY <1>4 DEF CountedFromSeen, NextCount, FailureLocal, Account
<1> QED
  BY <1>2, <1>3, <1>5 DEF AccountRequestsOK, AccountLocal, Account

LEMMA AccountGotoOK ==
  ASSUME AccountRequestsOK, NEW r \in Request, NEW s \in AccountSteps, Goto(r, s), s # "failure.write"
  PROVE  AccountRequestsOK'
<1>1. pc' = [pc EXCEPT ![r] = s] /\ local' = local
  BY DEF Goto
<1>2. pc' \in [Request -> AccountSteps] /\ \A q \in Request : pc'[q] = "failure.write" => pc[q] = "failure.write"
  BY <1>1 DEF AccountRequestsOK
<1>3. CountedFromSeen'
  BY <1>1, <1>2 DEF AccountRequestsOK, CountedFromSeen
<1> QED
  BY <1>1, <1>2, <1>3 DEF AccountRequestsOK

LEMMA AccountReturnOK ==
  ASSUME AccountRequestsOK, NEW r \in Request, NEW s \in {"done", "failed"}, Return(r, s)
  PROVE  AccountRequestsOK'
<1>1. Nothing \in AccountLocal \union {Nothing} /\ s \in AccountSteps /\ s # "failure.write"
  BY DEF AccountSteps
<1>2. Go(r, Nothing, s)
  BY DEF Return
<1> HIDE DEF Nothing
<1> QED
  BY <1>1, <1>2, AccountGoOK

LEMMA AccountRequestsUnchanged ==
  ASSUME AccountRequestsOK, UNCHANGED <<pc, local>>
  PROVE  AccountRequestsOK'
BY DEF AccountRequestsOK, CountedFromSeen

\* A new link is of the present era.
LEMMA IssueOK ==
  ASSUME LinksOK, accountHistory \in AccountHistory, NEW r \in Request,
         NEW kind \in {"verify", "reset"}, Issue(r, kind), UNCHANGED accountHistory
  PROVE  LinksOK'
<1> DEFINE link == [kind |-> kind, usable |-> TRUE, era |-> accountHistory.era]
<1>1. links' = [links EXCEPT ![r] = link]
  BY DEF Issue
<1>2. link \in Link /\ link.era = accountHistory'.era
  BY DEF Link, AccountHistory
<1> HIDE DEF link
<1>3. links' \in [Request -> Link] /\ links'[r] = link /\ \A t \in Request : t # r => links'[t] = links[t]
  BY <1>1, <1>2 DEF LinksOK
<1>4. ASSUME NEW t \in Request, Usable(t, "reset")'
      PROVE  links'[t].era = accountHistory'.era
  <2>1. CASE t = r
    BY <1>2, <1>3, <2>1
  <2>2. CASE t # r
    BY <1>3, <1>4, <2>2 DEF LinksOK, OldLinksDead, Usable
  <2> QED
    BY <2>1, <2>2
<1> QED
  BY <1>3, <1>4 DEF LinksOK, OldLinksDead, Usable

\* Links that only become unusable.
LEMMA ConsumeOK ==
  ASSUME LinksOK, NEW t \in Request, links' = [links EXCEPT ![t].usable = FALSE],
         UNCHANGED accountHistory
  PROVE  LinksOK'
<1> DEFINE link == [links[t] EXCEPT !.usable = FALSE]
<1>1. links' = [links EXCEPT ![t] = link]
  OBVIOUS
<1>2. link \in Link /\ link.usable = FALSE
  <2>1. links[t] \in Link
    BY DEF LinksOK
  <2> QED
    BY <2>1 DEF Link
<1> HIDE DEF link
<1>3. links' \in [Request -> Link] /\ links'[t] = link /\ \A s \in Request : s # t => links'[s] = links[s]
  BY <1>1, <1>2 DEF LinksOK
<1>4. ASSUME NEW s \in Request, Usable(s, "reset")'
      PROVE  links'[s].era = accountHistory'.era
  <2>1. s # t
    BY <1>2, <1>3, <1>4 DEF Usable
  <2> QED
    BY <1>3, <1>4, <2>1 DEF LinksOK, OldLinksDead, Usable
<1> QED
  BY <1>3, <1>4 DEF LinksOK, OldLinksDead, Usable

LEMMA RowUnchanged ==
  ASSUME RowOK, accountHistory \in AccountHistory, CountExact, UNCHANGED <<account, accountHistory>>
  PROVE  RowOK' /\ accountHistory' \in AccountHistory /\ CountExact'
BY DEF RowOK, CountExact

LEMMA LinksUnchanged ==
  ASSUME LinksOK, links' = links, accountHistory'.era = accountHistory.era
  PROVE  LinksOK'
BY DEF LinksOK, OldLinksDead, Usable

--------------------------------------------------------------------------
\* The row after a success or a reset: nothing is counted.
LEMMA ClearedOK ==
  ASSUME RowOK
  PROVE  /\ Cleared \in Account
         /\ Cleared.workspaces = account.workspaces /\ Cleared.exists = account.exists
         /\ Cleared.window = "none"
<1>1. 0 \in 0 .. MaxAttempts - 1
  BY AttemptsAssumption
<1>2. account \in Account
  BY DEF RowOK
<1> QED
  BY <1>1, <1>2, Zenon DEF Account, Cleared

\* Signup, verification and the two mails.
LEMMA SignupInsertStep ==
  ASSUME AccountInv, NEW r \in Request, SignupInsert(r)
  PROVE  AccountInv'
<1>1. AccountRequestsOK'
  BY AccountGotoOK, AccountReturnOK DEF SignupInsert, AccountInv, AccountSteps
<1>2. accountHistory' = accountHistory /\ LinksOK'
  BY LinksUnchanged DEF SignupInsert, AccountInv
<1>3. CASE account' = account
  BY <1>1, <1>2, <1>3, RowUnchanged DEF AccountInv
<1>4. CASE ~ account.exists /\ account' = [account EXCEPT !.exists = TRUE, !.workspaces = @ + 1]
  <2>1. account \in Account /\ account.workspaces = 0
    BY <1>4 DEF AccountInv, RowOK
  <2>2. account' \in Account /\ account'.workspaces = 1 /\ account'.exists
        /\ account'.window = account.window /\ account'.attempts = account.attempts
    <3>1. account.workspaces + 1 = 1 /\ 1 \in Nat
      BY <2>1
    <3> QED
      BY <1>4, <2>1, <3>1, Zenon DEF Account
  <2>3. RowOK' /\ CountExact'
    BY <1>2, <2>2 DEF RowOK, CountExact, AccountInv
  <2> QED
    BY <1>1, <1>2, <2>3 DEF AccountInv
<1> QED
  BY <1>3, <1>4 DEF SignupInsert

LEMMA MailStep ==
  ASSUME AccountInv, NEW r \in Request, SignupVerify(r) \/ ResendVerification(r) \/ ForgotPassword(r)
  PROVE  AccountInv'
<1>1. AccountRequestsOK'
  BY AccountReturnOK DEF SignupVerify, ResendVerification, ForgotPassword, AccountInv
<1>2. account' = account /\ accountHistory' = accountHistory
  BY DEF SignupVerify, ResendVerification, ForgotPassword
<1>3. LinksOK'
  BY <1>2, IssueOK, LinksUnchanged DEF SignupVerify, ResendVerification, ForgotPassword, AccountInv
<1> QED
  BY <1>1, <1>2, <1>3, RowUnchanged DEF AccountInv

LEMMA VerifyStep ==
  ASSUME AccountInv, NEW t \in Request, VerifyEmail(t)
  PROVE  AccountInv'
<1>1. AccountRequestsOK'
  BY AccountRequestsUnchanged DEF VerifyEmail, AccountInv
<1>2. LinksOK'
  BY ConsumeOK DEF VerifyEmail, AccountInv
<1>3. account' \in Account /\ account'.workspaces = account.workspaces
      /\ account'.exists = account.exists
      /\ account'.window = account.window /\ account'.attempts = account.attempts
  BY DEF VerifyEmail, AccountInv, RowOK, Account
<1>4. RowOK' /\ CountExact'
  BY <1>3 DEF VerifyEmail, RowOK, CountExact, AccountInv
<1> QED
  BY <1>1, <1>2, <1>4 DEF VerifyEmail, AccountInv

LEMMA ExpiryStep ==
  ASSUME AccountInv, NEW t \in Request, LinkExpires(t)
  PROVE  AccountInv'
BY AccountRequestsUnchanged, ConsumeOK, RowUnchanged DEF LinkExpires, AccountInv

\* A reset opens an era in which no link that can reset is left.
LEMMA ResetStep ==
  ASSUME AccountInv, NEW t \in Request, ResetPassword(t)
  PROVE  AccountInv'
<1>1. AccountRequestsOK'
  BY AccountRequestsUnchanged DEF ResetPassword, AccountInv
<1>2. accountHistory' \in AccountHistory /\ accountHistory'.streak = 0
      /\ accountHistory'.lockedBy = accountHistory.lockedBy
      /\ accountHistory'.overlapped = accountHistory.overlapped
  <2>1. accountHistory \in AccountHistory /\ accountHistory.era + 1 \in Nat /\ 0 \in Nat
    BY DEF AccountInv, AccountHistory
  <2> QED
    BY <2>1, Zenon DEF ResetPassword, AccountHistory
<1>3. RowOK' /\ CountExact'
  <2>1. account' = Cleared
    BY DEF ResetPassword
  <2> QED
    BY <1>2, <2>1, ClearedOK DEF RowOK, CountExact, AccountInv
<1>4. ASSUME NEW s \in Request
      PROVE  links'[s] \in Link /\ ~ (links'[s].usable /\ links'[s].kind = "reset")
  <2>1. links'[s] = IF links[s].kind = "reset" THEN [links[s] EXCEPT !.usable = FALSE] ELSE links[s]
    BY DEF ResetPassword
  <2>2. links[s] \in Link
    BY DEF AccountInv, LinksOK
  <2>3. CASE links[s].kind = "reset"
    BY <2>1, <2>2, <2>3 DEF Link
  <2>4. CASE links[s].kind # "reset"
    BY <2>1, <2>2, <2>4
  <2> QED
    BY <2>3, <2>4
<1>5. links' \in [Request -> Link]
  <2>1. links' = [s \in Request |-> links'[s]]
    BY DEF ResetPassword
  <2> QED
    BY <1>4, <2>1
<1>6. LinksOK'
  BY <1>4, <1>5 DEF LinksOK, OldLinksDead, Usable
<1> QED
  BY <1>1, <1>2, <1>3, <1>6 DEF AccountInv

--------------------------------------------------------------------------
\* Logins.  A failure that reads the row holds the successor of its counter.
LEMMA BeginStep ==
  ASSUME AccountInv, NEW r \in Request,
         SignupCheck(r) \/ \E right \in BOOLEAN : LoginRead(r, right)
  PROVE  AccountInv'
<1>1. UNCHANGED <<account, links, accountHistory>>
  BY DEF SignupCheck, LoginRead
<1>2. PICK op \in {"signup", "login"}, s \in AccountSteps \ {"failure.write"} : Go(r, [op |-> op], s)
  BY DEF SignupCheck, LoginRead, AccountSteps
<1> DEFINE l == [op |-> op]
<1>3. l \in AccountLocal \union {Nothing} /\ Go(r, l, s)
  BY <1>2 DEF AccountLocal
<1> HIDE DEF l
<1>4. AccountRequestsOK'
  BY <1>2, <1>3, AccountGoOK DEF AccountInv
<1> QED
  BY <1>1, <1>4, RowUnchanged, LinksUnchanged DEF AccountInv

LEMMA FailureReadStep ==
  ASSUME AccountInv, NEW r \in Request, FailureRead(r)
  PROVE  AccountInv'
<1> DEFINE n == NextCount(account)
           l == [op |-> "failure", seen |-> account, window |-> "open", count |-> n]
<1>1. UNCHANGED <<account, links, accountHistory>> /\ Go(r, l, "failure.write")
  BY DEF FailureRead, NextCount
<1>2. account \in Account /\ n \in 1 .. MaxAttempts
  BY AttemptsAssumption DEF AccountInv, RowOK, Account, NextCount
<1>3. l \in FailureLocal /\ l.seen = account /\ l.count = n
  <2> HIDE DEF n
  <2> QED
    BY <1>2 DEF FailureLocal
<1>4. l.count = NextCount(l.seen)
  BY <1>3
<1>5. l \in AccountLocal \union {Nothing}
  BY <1>3 DEF FailureLocal, AccountLocal
<1> HIDE DEF l
<1>6. AccountRequestsOK'
  BY <1>1, <1>3, <1>4, <1>5, AccountGoOK DEF AccountInv, AccountSteps
<1> QED
  BY <1>1, <1>6, RowUnchanged, LinksUnchanged DEF AccountInv

LEMMA SuccessStep ==
  ASSUME AccountInv, NEW r \in Request, LoginSuccess(r)
  PROVE  AccountInv'
<1>1. AccountRequestsOK'
  BY AccountReturnOK DEF LoginSuccess, AccountInv
<1>2. accountHistory' \in AccountHistory /\ accountHistory'.streak = 0
      /\ accountHistory'.era = accountHistory.era
      /\ accountHistory'.lockedBy = accountHistory.lockedBy
      /\ accountHistory'.overlapped = accountHistory.overlapped
  <2>1. accountHistory \in AccountHistory /\ 0 \in Nat
    BY DEF AccountInv
  <2> QED
    BY <2>1, Zenon DEF LoginSuccess, AccountHistory
<1>3. account' = Cleared /\ links' = links
  BY DEF LoginSuccess
<1>4. RowOK' /\ CountExact'
  BY <1>2, <1>3, ClearedOK DEF RowOK, CountExact, AccountInv
<1>5. LinksOK'
  BY <1>2, <1>3, LinksUnchanged DEF AccountInv
<1> QED
  BY <1>1, <1>2, <1>4, <1>5 DEF AccountInv

\* The counter that a failure writes succeeds the one it read, so it succeeds
\* the present one unless the row has changed, which is then noted.
LEMMA FailureWriteStep ==
  ASSUME AccountInv, NEW r \in Request, FailureWrite(r)
  PROVE  AccountInv'
<1> DEFINE n == local[r].count
           locks == n >= MaxAttempts
           attempts == IF locks THEN 0 ELSE n
           window == IF locks THEN "none" ELSE local[r].window
           streak == accountHistory.streak
           stale == account # local[r].seen
<1>1. AccountRequestsOK' /\ links' = links
  BY AccountReturnOK DEF FailureWrite, AccountInv
<1>2. local[r] \in FailureLocal /\ n = NextCount(local[r].seen)
  BY DEF FailureWrite, AccountInv, AccountRequestsOK, CountedFromSeen
<1>3. /\ n \in 1 .. MaxAttempts /\ local[r].window = "open"
      /\ attempts \in 0 .. MaxAttempts - 1
      /\ window \in {"none", "open", "aged"}
  BY <1>2, AttemptsAssumption DEF FailureLocal
<1>4. account \in Account /\ accountHistory \in AccountHistory /\ streak \in Nat
  BY DEF AccountInv, RowOK, AccountHistory
<1>5. account' = [account EXCEPT !.attempts = attempts, !.window = window, !.locked = @ \/ locks]
  BY DEF FailureWrite
<1>6. accountHistory' = [accountHistory EXCEPT
        !.streak = IF locks THEN 0 ELSE @ + 1,
        !.lockedBy = IF locks THEN streak + 1 ELSE @,
        !.overlapped = @ \/ stale]
  BY DEF FailureWrite
<1>7. locks \in BOOLEAN /\ stale \in BOOLEAN
  OBVIOUS
<1>8. /\ account' \in Account /\ account'.attempts = attempts /\ account'.window = window
      /\ account'.exists = account.exists /\ account'.workspaces = account.workspaces
  <2> HIDE DEF attempts, window, locks
  <2> QED
    BY <1>3, <1>4, <1>5, <1>7, Zenon DEF Account
<1>9. /\ accountHistory' \in AccountHistory /\ accountHistory'.era = accountHistory.era
      /\ accountHistory'.streak = (IF locks THEN 0 ELSE streak + 1)
      /\ accountHistory'.lockedBy = (IF locks THEN streak + 1 ELSE accountHistory.lockedBy)
      /\ accountHistory'.overlapped <=> (accountHistory.overlapped \/ stale)
  <2>1. streak + 1 \in Nat /\ 0 \in Nat /\ accountHistory.lockedBy \in Nat
    BY <1>4 DEF AccountHistory
  <2> HIDE DEF locks, stale
  <2> QED
    BY <1>4, <1>6, <1>7, <2>1, Zenon DEF AccountHistory
<1>10. ASSUME stale
       PROVE  CountExact'
  BY <1>9, <1>10 DEF CountExact
<1>11. ASSUME ~ stale
       PROVE  CountExact'
  <2>1. CASE accountHistory.overlapped
    BY <1>9, <2>1 DEF CountExact
  <2>2. CASE ~ accountHistory.overlapped
    <3>1. n = streak + 1 /\ accountHistory.lockedBy = MaxAttempts
      BY <1>2, <1>4, <1>11, <2>2, AttemptsAssumption DEF CountExact, AccountInv, NextCount, Account
    <3>2. accountHistory'.lockedBy = MaxAttempts
      BY <1>3, <1>9, <3>1, AttemptsAssumption
    <3>3. accountHistory'.streak = IF account'.window = "open" THEN account'.attempts ELSE 0
      BY <1>3, <1>8, <1>9, <3>1
    <3> QED
      BY <3>2, <3>3 DEF CountExact
  <2> QED
    BY <2>1, <2>2
<1>12. RowOK'
  BY <1>8 DEF RowOK, AccountInv
<1>13. LinksOK'
  BY <1>1, <1>9, LinksUnchanged DEF AccountInv
<1> QED
  BY <1>1, <1>9, <1>10, <1>11, <1>12, <1>13 DEF AccountInv

LEMMA AccountFailStep ==
  ASSUME AccountInv, NEW r \in Request, FailAccount(r)
  PROVE  AccountInv'
BY AccountReturnOK, RowUnchanged, LinksUnchanged DEF FailAccount, Stop, AccountInv

\* The clock: a window that is over is not counted, a lock ends by itself.
LEMMA AgesStep ==
  ASSUME AccountInv, WindowAges
  PROVE  AccountInv'
<1>1. AccountRequestsOK' /\ links' = links
  BY AccountRequestsUnchanged DEF WindowAges, AccountInv
<1>2. /\ account' \in Account /\ account'.window = "aged"
      /\ account'.exists = account.exists /\ account'.workspaces = account.workspaces
  BY Zenon DEF WindowAges, AccountInv, RowOK, Account
<1>3. /\ accountHistory' \in AccountHistory /\ accountHistory'.streak = 0
      /\ accountHistory'.era = accountHistory.era
      /\ accountHistory'.lockedBy = accountHistory.lockedBy
      /\ accountHistory'.overlapped = accountHistory.overlapped
  <2>1. accountHistory \in AccountHistory /\ 0 \in Nat
    BY DEF AccountInv
  <2> QED
    BY <2>1, Zenon DEF WindowAges, AccountHistory
<1>4. RowOK' /\ CountExact'
  BY <1>2, <1>3 DEF RowOK, CountExact, AccountInv
<1> QED
  BY <1>1, <1>3, <1>4, LinksUnchanged DEF AccountInv

LEMMA LapsesStep ==
  ASSUME AccountInv, LockLapses
  PROVE  AccountInv'
<1>1. AccountRequestsOK' /\ UNCHANGED <<links, accountHistory>>
  BY AccountRequestsUnchanged DEF LockLapses, AccountInv
<1>2. /\ account' \in Account
      /\ account'.attempts = account.attempts /\ account'.window = account.window
      /\ account'.exists = account.exists /\ account'.workspaces = account.workspaces
  BY Zenon DEF LockLapses, AccountInv, RowOK, Account
<1>3. RowOK' /\ CountExact'
  BY <1>1, <1>2 DEF RowOK, CountExact, AccountInv
<1> QED
  BY <1>1, <1>3, LinksUnchanged DEF AccountInv

--------------------------------------------------------------------------
LEMMA AccountInvInit == AccountInit => AccountInv
<1> SUFFICES ASSUME AccountInit PROVE AccountInv
  OBVIOUS
<1>1. AccountRequestsOK
  BY DEF AccountInit, HandlersInit, AccountRequestsOK, CountedFromSeen, AccountSteps
<1>2. RowOK
  BY AttemptsAssumption DEF AccountInit, RowOK, Account
<1>3. accountHistory \in AccountHistory /\ CountExact
  BY AttemptsAssumption DEF AccountInit, AccountHistory, CountExact
<1>4. LinksOK
  BY DEF AccountInit, LinksOK, OldLinksDead, Usable, NoLink, Link
<1> QED
  BY <1>1, <1>2, <1>3, <1>4 DEF AccountInv

LEMMA AccountInvStep == AccountInv /\ [AccountNext]_accountVars => AccountInv'
<1> SUFFICES ASSUME AccountInv, [AccountNext]_accountVars
             PROVE  AccountInv'
  OBVIOUS
<1>1. CASE UNCHANGED accountVars
  <2>1. UNCHANGED <<account, links, accountHistory, pc, local>>
    BY <1>1 DEF accountVars, accountState
  <2> QED
    BY <2>1, AccountRequestsUnchanged, RowUnchanged, LinksUnchanged DEF AccountInv
<1>2. ASSUME NEW r \in Request, AccountRequest(r)
      PROVE  AccountInv'
  BY <1>2, BeginStep, SignupInsertStep, MailStep, SuccessStep, FailureReadStep,
     FailureWriteStep, AccountFailStep DEF AccountRequest
<1>3. ASSUME NEW t \in Request, VerifyEmail(t) \/ ResetPassword(t) \/ LinkExpires(t)
      PROVE  AccountInv'
  BY <1>3, VerifyStep, ResetStep, ExpiryStep
<1>4. CASE WindowAges \/ LockLapses
  BY <1>4, AgesStep, LapsesStep
<1> QED
  BY <1>1, <1>2, <1>3, <1>4 DEF AccountNext

\* The inductive invariant holds in every state.
THEOREM AccountInvariant == AccountSpec => []AccountInv
<1> QED
  BY AccountInvInit, AccountInvStep, PTL DEF AccountSpec

\* The row, the links, the requests and the history keep their types, and a
\* signup gives an account exactly one workspace, however signups overlap.
THEOREM AccountTypeCorrect == AccountSpec => []AccountTypeOK
<1>1. AccountInv => AccountTypeOK
  BY DEF AccountInv, AccountRequestsOK, RowOK, LinksOK, AccountSteps, AccountTypeOK
<1> QED
  BY <1>1, AccountInvariant, PTL

\* Exactly MaxAttempts failures within a window lock the account, in every
\* execution in which no failed login was counted on a row that had changed.
THEOREM LockoutExactHolds == AccountSpec => []LockoutExact
<1>1. AccountInv => LockoutExact
  BY AttemptsAssumption DEF AccountInv, RowOK, Account, CountExact, LockoutExact
<1> QED
  BY <1>1, AccountInvariant, PTL

\* No link to reset the password outlives a reset, however many are open and
\* whichever is used, sent or expires meanwhile.
THEOREM OldLinksDeadHolds == AccountSpec => []OldLinksDead
<1>1. AccountInv => OldLinksDead
  BY DEF AccountInv, LinksOK
<1> QED
  BY <1>1, AccountInvariant, PTL

--------------------------------------------------------------------------
(* Invitations *)

\* A transaction under way counted fewer members than the plan allows.
InviteRequests ==
  /\ pc \in [Request -> {"new", "invite.revoke", "invite.insert", "done", "failed"}]
  /\ local \in [Request -> InviteLocal \union {Nothing}]
  /\ \A r \in Request : pc[r] \in {"invite.revoke", "invite.insert"} =>
       local[r] \in InviteLocal /\ local[r].seen < MaxMembers

\* So did the one that inserted an invitation that is open.
InviteRows ==
  /\ joined \subseteq users /\ users \subseteq Invitee
  /\ invites \in [Request -> Invite]
  /\ \A t \in Request : invites[t].state = "open" => invites[t].seen < MaxMembers

WithinPlan == inviteHistory \in InviteHistory /\ Members <= MaxMembers + inviteHistory.late

Opens(e, t) == invites[t].state = "open" /\ invites[t].email = e

OneOpen ==
  \A e \in Invitee \ inviteHistory.overlapped : \A s \in Request, t \in Request :
    Opens(e, s) /\ Opens(e, t) => s = t

InviteInv == InviteRequests /\ InviteRows /\ WithinPlan /\ OneOpen

\* A request that moves, with what it holds.
LEMMA InviteGoOK ==
  ASSUME InviteRequests, NEW r \in Request,
         NEW s \in {"new", "invite.revoke", "invite.insert", "done", "failed"},
         NEW l \in InviteLocal \union {Nothing}, Go(r, l, s),
         s \in {"invite.revoke", "invite.insert"} => l \in InviteLocal /\ l.seen < MaxMembers
  PROVE  InviteRequests'
<1> DEFINE L == InviteLocal \union {Nothing}
<1>1. local \in [Request -> L] /\ l \in L
  BY DEF InviteRequests
<1>2. L' = L
  BY DEF InviteLocal, Nothing
<1> HIDE DEF L
<1>3. /\ local' \in [Request -> L] /\ local'[r] = l
      /\ \A q \in Request : q # r => local'[q] = local[q]
  BY <1>1 DEF Go
<1>4. /\ pc' \in [Request -> {"new", "invite.revoke", "invite.insert", "done", "failed"}]
      /\ pc'[r] = s /\ \A q \in Request : q # r => pc'[q] = pc[q]
  BY DEF Go, InviteRequests
<1>5. ASSUME NEW q \in Request, pc'[q] \in {"invite.revoke", "invite.insert"}
      PROVE  local'[q] \in InviteLocal /\ local'[q].seen < MaxMembers
  <2>1. CASE q = r
    BY <1>3, <1>4, <1>5, <2>1
  <2>2. CASE q # r
    <3>1. pc'[q] = pc[q] /\ local'[q] = local[q]
      BY <1>3, <1>4, <2>2
    <3> QED
      BY <1>5, <3>1 DEF InviteRequests
  <2> QED
    BY <2>1, <2>2
<1>6. local' \in [Request -> InviteLocal \union {Nothing}]
  BY <1>3 DEF L
<1> QED
  BY <1>4, <1>5, <1>6 DEF InviteRequests, InviteLocal

LEMMA InviteReturnOK ==
  ASSUME InviteRequests, NEW r \in Request, NEW s \in {"done", "failed"}, Return(r, s)
  PROVE  InviteRequests'
<1>1. Nothing \in InviteLocal \union {Nothing} /\ s \notin {"invite.revoke", "invite.insert"}
      /\ s \in {"new", "invite.revoke", "invite.insert", "done", "failed"}
  OBVIOUS
<1>2. Go(r, Nothing, s)
  BY DEF Return
<1> HIDE DEF Nothing
<1> QED
  BY <1>1, <1>2, InviteGoOK

LEMMA InviteRequestsUnchanged ==
  ASSUME InviteRequests, UNCHANGED <<pc, local>>
  PROVE  InviteRequests'
BY DEF InviteRequests

LEMMA InviteRowsUnchanged ==
  ASSUME InviteRows, WithinPlan, OneOpen, UNCHANGED <<users, joined, invites, inviteHistory>>
  PROVE  InviteRows' /\ WithinPlan' /\ OneOpen'
BY DEF InviteRows, WithinPlan, OneOpen, Opens, Members

\* An invitation that is closed or accepted.
LEMMA CloseOK ==
  ASSUME InviteRows, OneOpen, NEW t \in Request, NEW s \in {"closed", "accepted"},
         invites' = [invites EXCEPT ![t].state = s],
         inviteHistory'.overlapped = inviteHistory.overlapped
  PROVE  /\ invites' \in [Request -> Invite]
         /\ \A u \in Request : invites'[u].state = "open" => invites'[u].seen < MaxMembers
         /\ OneOpen'
<1> DEFINE closed == [invites[t] EXCEPT !.state = s]
<1>1. invites' = [invites EXCEPT ![t] = closed]
  OBVIOUS
<1>2. closed \in Invite /\ closed.state = s
  <2>1. invites[t] \in Invite
    BY DEF InviteRows
  <2> QED
    BY <2>1 DEF Invite
<1> HIDE DEF closed
<1>3. /\ invites' \in [Request -> Invite] /\ invites'[t] = closed
      /\ \A u \in Request : u # t => invites'[u] = invites[u]
  BY <1>1, <1>2 DEF InviteRows
<1>4. ASSUME NEW u \in Request, invites'[u].state = "open"
      PROVE  invites'[u] = invites[u]
  BY <1>2, <1>3, <1>4
<1>5. \A u \in Request : invites'[u].state = "open" => invites'[u].seen < MaxMembers
  BY <1>4 DEF InviteRows
<1>6. OneOpen'
  BY <1>4 DEF OneOpen, Opens
<1> QED
  BY <1>3, <1>5, <1>6

--------------------------------------------------------------------------
LEMMA CountMembersStep ==
  ASSUME InviteInv, NEW r \in Request, NEW e \in Invitee, CountMembers(r, e)
  PROVE  InviteInv'
<1> DEFINE l == [op |-> "invite", email |-> e, seen |-> Members, revoking |-> {}]
<1>1. Members \in Nat /\ Members < MaxMembers
  <2>1. IsFiniteSet(joined)
    BY InviteesAssumption, FS_Subset DEF InviteInv, InviteRows
  <2> QED
    BY <2>1, FS_CardinalityType DEF Members, CountMembers
<1>2. l \in InviteLocal /\ l.seen < MaxMembers /\ Go(r, l, "invite.revoke")
  <2>1. Go(r, l, "invite.revoke")
    BY DEF CountMembers
  <2> HIDE DEF Members
  <2> QED
    BY <1>1, <2>1 DEF InviteLocal
<1> HIDE DEF l
<1>3. InviteRequests'
  BY <1>2, InviteGoOK DEF InviteInv
<1> QED
  BY <1>3, InviteRowsUnchanged DEF InviteInv, CountMembers

LEMMA RevokeOpenStep ==
  ASSUME InviteInv, NEW r \in Request, RevokeOpen(r)
  PROVE  InviteInv'
<1>1. CASE Return(r, "failed")
  BY <1>1, InviteReturnOK, InviteRowsUnchanged DEF InviteInv, RevokeOpen
<1>2. CASE Go(r, [local[r] EXCEPT !.revoking = OpenInvites(local[r].email)], "invite.insert")
  <2> DEFINE R == OpenInvites(local[r].email)
             l == [local[r] EXCEPT !.revoking = R]
  <2>1. R \in SUBSET Request
    BY DEF OpenInvites
  <2>2. local[r] \in InviteLocal /\ local[r].seen < MaxMembers
    BY DEF RevokeOpen, InviteInv, InviteRequests
  <2>3. Go(r, l, "invite.insert")
    BY <1>2
  <2> HIDE DEF R
  <2>4. l \in InviteLocal /\ l.seen < MaxMembers
    BY <2>1, <2>2 DEF InviteLocal
  <2> HIDE DEF l
  <2>5. InviteRequests'
    BY <2>3, <2>4, InviteGoOK DEF InviteInv
  <2> QED
    BY <2>5, InviteRowsUnchanged DEF InviteInv, RevokeOpen
<1> QED
  BY <1>1, <1>2 DEF RevokeOpen

\* Unless another transaction has inserted one meanwhile, every open
\* invitation of the email is among those that are revoked.
LEMMA InsertInviteStep ==
  ASSUME InviteInv, NEW r \in Request, InsertInvite(r)
  PROVE  InviteInv'
<1> DEFINE l == local[r]
           fresh == [state |-> "open", email |-> l.email, seen |-> l.seen]
           overlaps == ~ (OpenInvites(l.email) \subseteq l.revoking)
           H == inviteHistory
<1>1. InviteRequests'
  BY InviteReturnOK DEF InsertInvite, InviteInv
<1>2. l \in InviteLocal /\ l.seen < MaxMembers
  BY DEF InsertInvite, InviteInv, InviteRequests
<1>3. fresh \in Invite /\ fresh.state = "open" /\ fresh.email = l.email /\ fresh.seen = l.seen
  BY <1>2 DEF InviteLocal, Invite
<1>4. \A t \in Request : invites[t] \in Invite
  BY DEF InviteInv, InviteRows
<1>5. invites' = [t \in Request |-> invites'[t]]
  BY DEF InsertInvite
<1>6. \A t \in Request : invites'[t] = IF t = r THEN fresh
                   ELSE IF t \in l.revoking THEN [invites[t] EXCEPT !.state = "closed"]
                   ELSE invites[t]
  BY DEF InsertInvite
<1>7. \A t \in Request : invites'[t] \in Invite
  <2> TAKE t \in Request
  <2>1. [invites[t] EXCEPT !.state = "closed"] \in Invite
    BY <1>4 DEF Invite
  <2> HIDE DEF fresh
  <2> QED
    BY <1>3, <1>4, <1>6, <2>1
<1>8. ASSUME NEW t \in Request, invites'[t].state = "open", t # r
      PROVE  invites'[t] = invites[t] /\ t \notin l.revoking
  <2>1. [invites[t] EXCEPT !.state = "closed"].state = "closed"
    BY <1>4 DEF Invite
  <2> QED
    BY <1>6, <1>8, <2>1
<1>9. InviteRows'
  <2>1. invites' \in [Request -> Invite]
    BY <1>5, <1>7
  <2>2. ASSUME NEW t \in Request, invites'[t].state = "open"
        PROVE  invites'[t].seen < MaxMembers
    <3>1. CASE t = r
      BY <1>2, <1>3, <1>6, <3>1
    <3>2. CASE t # r
      BY <1>8, <2>2, <3>2 DEF InviteInv, InviteRows
    <3> QED
      BY <3>1, <3>2
  <2>3. UNCHANGED <<users, joined>> /\ Invite' = Invite
    BY DEF InsertInvite, Invite
  <2> QED
    BY <2>1, <2>2, <2>3 DEF InviteInv, InviteRows
<1>10. /\ inviteHistory' \in InviteHistory /\ inviteHistory'.late = H.late
       /\ inviteHistory'.overlapped = IF overlaps THEN H.overlapped \union {l.email} ELSE H.overlapped
  <2>1. H \in InviteHistory /\ l.email \in Invitee
    BY <1>2 DEF InviteInv, WithinPlan, InviteLocal
  <2>2. inviteHistory' = [inviteHistory EXCEPT !.overlapped =
           IF overlaps THEN H.overlapped \union {l.email} ELSE H.overlapped]
    BY DEF InsertInvite
  <2> HIDE DEF overlaps
  <2> QED
    BY <2>1, <2>2 DEF InviteHistory
<1>11. WithinPlan'
  BY <1>10 DEF InsertInvite, InviteInv, WithinPlan, Members, InviteHistory
<1>12. OneOpen'
  <2> SUFFICES ASSUME NEW e \in Invitee \ inviteHistory'.overlapped, NEW s \in Request, NEW t \in Request,
                      invites'[s].state = "open", invites'[s].email = e,
                      invites'[t].state = "open", invites'[t].email = e
               PROVE  s = t
    BY DEF OneOpen, Opens
  <2>1. e \in Invitee \ H.overlapped
    BY <1>10
  <2>2. CASE e = l.email
    <3>1. OpenInvites(e) \subseteq l.revoking
      BY <1>10, <2>2
    <3>2. \A u \in Request : u # r => ~ (invites'[u].state = "open" /\ invites'[u].email = e)
      BY <1>8, <3>1 DEF OpenInvites
    <3> QED
      BY <3>2
  <2>3. CASE e # l.email
    <3>1. s # r /\ t # r
      BY <1>3, <1>6, <2>3
    <3>2. invites'[s] = invites[s] /\ invites'[t] = invites[t]
      BY <1>8, <3>1
    <3> QED
      BY <2>1, <3>2 DEF InviteInv, OneOpen, Opens
  <2> QED
    BY <2>2, <2>3
<1> QED
  BY <1>1, <1>9, <1>11, <1>12 DEF InviteInv

\* The invitation was made when the plan had a place: the join exceeds it
\* only if more members were there than it had counted, which is noted.
LEMMA AcceptStep ==
  ASSUME InviteInv, NEW t \in Request, NEW authed \in BOOLEAN, AcceptInvitation(t, authed)
  PROVE  InviteInv'
<1> DEFINE e == invites[t].email
           H == inviteHistory
           now == IF e \notin joined /\ Members > invites[t].seen THEN H.late + 1 ELSE H.late
<1>1. InviteRequests'
  BY InviteRequestsUnchanged DEF AcceptInvitation, InviteInv
<1>2. e \in Invitee /\ invites[t].seen \in Nat /\ invites[t].seen < MaxMembers
  BY DEF AcceptInvitation, InviteInv, InviteRows, Invite
<1>3. /\ H \in InviteHistory /\ H.late \in Nat /\ now \in Nat
      /\ inviteHistory' = [H EXCEPT !.late = now]
  BY DEF AcceptInvitation, InviteInv, WithinPlan, InviteHistory
<1>4. inviteHistory' \in InviteHistory /\ inviteHistory'.late = now
      /\ inviteHistory'.overlapped = H.overlapped
  <2> HIDE DEF now
  <2> QED
    BY <1>3 DEF InviteHistory
<1>5. InviteRows' /\ OneOpen'
  <2>1. /\ invites' \in [Request -> Invite] /\ OneOpen'
        /\ \A u \in Request : invites'[u].state = "open" => invites'[u].seen < MaxMembers
    BY <1>4, CloseOK DEF AcceptInvitation, InviteInv
  <2>2. joined' \subseteq users' /\ users' \subseteq Invitee
    BY <1>2 DEF AcceptInvitation, InviteInv, InviteRows
  <2> QED
    BY <2>1, <2>2 DEF InviteRows, Invite
<1>6. WithinPlan'
  <2>1. IsFiniteSet(joined) /\ Cardinality(joined) \in Nat
    BY InviteesAssumption, FS_Subset, FS_CardinalityType DEF InviteInv, InviteRows
  <2>2. joined' = joined \union {e}
    BY DEF AcceptInvitation
  <2>3. CASE e \in joined
    <3>1. joined' = joined
      BY <2>2, <2>3
    <3> QED
      BY <1>3, <1>4, <2>3, <3>1 DEF InviteInv, WithinPlan, Members
  <2>4. CASE e \notin joined
    <3>1. Cardinality(joined') = Cardinality(joined) + 1
      BY <2>1, <2>2, <2>4, FS_AddElement
    <3> QED
      BY <1>2, <1>3, <1>4, <2>1, <2>4, <3>1, InviteesAssumption DEF InviteInv, WithinPlan, Members
  <2> QED
    BY <2>3, <2>4
<1> QED
  BY <1>1, <1>5, <1>6 DEF InviteInv

LEMMA ExpiresStep ==
  ASSUME InviteInv, NEW t \in Request, InviteExpires(t)
  PROVE  InviteInv'
<1>1. InviteRequests'
  BY InviteRequestsUnchanged DEF InviteExpires, InviteInv
<1>2. /\ invites' \in [Request -> Invite] /\ OneOpen'
      /\ \A u \in Request : invites'[u].state = "open" => invites'[u].seen < MaxMembers
  BY CloseOK DEF InviteExpires, InviteInv
<1>3. InviteRows' /\ WithinPlan'
  BY <1>2 DEF InviteExpires, InviteInv, InviteRows, WithinPlan, Members, Invite
<1> QED
  BY <1>1, <1>2, <1>3 DEF InviteInv

LEMMA PeopleStep ==
  ASSUME InviteInv, NEW e \in Invitee, LeaveWorkspace(e) \/ SignUpInvitee(e)
  PROVE  InviteInv'
<1>1. UNCHANGED <<invites, pc, local, inviteHistory>>
      /\ joined' \subseteq users' /\ users' \subseteq Invitee /\ joined' \subseteq joined
  BY DEF LeaveWorkspace, SignUpInvitee, InviteInv, InviteRows
<1>2. Members' <= Members /\ Members \in Nat /\ Members' \in Nat
  <2>1. IsFiniteSet(joined)
    BY InviteesAssumption, FS_Subset DEF InviteInv, InviteRows
  <2>2. IsFiniteSet(joined') /\ Cardinality(joined') <= Cardinality(joined)
    BY <1>1, <2>1, FS_Subset
  <2> QED
    BY <2>1, <2>2, FS_CardinalityType DEF Members
<1>3. WithinPlan'
  BY <1>1, <1>2, InviteesAssumption DEF InviteInv, WithinPlan, InviteHistory
<1>4. InviteRows' /\ OneOpen'
  BY <1>1 DEF InviteInv, InviteRows, OneOpen, Opens
<1> QED
  BY <1>1, <1>3, <1>4, InviteRequestsUnchanged DEF InviteInv

LEMMA InviteInvariant == InviteSpec => []InviteInv
<1>1. InviteInit => InviteInv
  <2> SUFFICES ASSUME InviteInit
               PROVE  InviteInv
    OBVIOUS
  <2>1. InviteRequests
    BY DEF InviteInit, HandlersInit, InviteRequests
  <2> DEFINE none == [state |-> "none", email |-> CHOOSE e \in Invitee : TRUE, seen |-> 0]
  <2>2. none \in Invite /\ none.state = "none"
    BY InviteesAssumption DEF Invite
  <2>3. invites = [r \in Request |-> none]
    BY DEF InviteInit
  <2> HIDE DEF none
  <2>4. \A t \in Request : invites[t] = none
    BY <2>3
  <2>5. InviteRows /\ OneOpen
    BY <2>2, <2>3, <2>4 DEF InviteInit, InviteRows, OneOpen, Opens
  <2>6. Cardinality(joined) = 0
    BY FS_EmptySet DEF InviteInit
  <2>7. WithinPlan
    BY <2>6, InviteesAssumption DEF InviteInit, WithinPlan, InviteHistory, Members
  <2> QED
    BY <2>1, <2>5, <2>7 DEF InviteInv
<1>2. InviteInv /\ [InviteNext]_inviteVars => InviteInv'
  <2> SUFFICES ASSUME InviteInv, [InviteNext]_inviteVars
               PROVE  InviteInv'
    OBVIOUS
  <2>1. CASE UNCHANGED inviteVars
    BY <2>1, InviteRequestsUnchanged, InviteRowsUnchanged DEF inviteVars, inviteState, InviteInv
  <2>2. ASSUME NEW r \in Request, InviteRequest(r)
        PROVE  InviteInv'
    <3>1. CASE FailInvite(r)
      BY <3>1, InviteReturnOK, InviteRowsUnchanged DEF FailInvite, Stop, InviteInv
    <3> QED
      BY <2>2, <3>1, CountMembersStep, RevokeOpenStep, InsertInviteStep DEF InviteRequest
  <2>3. ASSUME NEW t \in Request, InviteExpires(t) \/ \E authed \in BOOLEAN : AcceptInvitation(t, authed)
        PROVE  InviteInv'
    BY <2>3, ExpiresStep, AcceptStep
  <2> QED
    BY <2>1, <2>2, <2>3, PeopleStep DEF InviteNext
<1> QED
  BY <1>1, <1>2, PTL DEF InviteSpec

\* Every reachable state of the invitations has the types of InviteTypeOK.
THEOREM InviteTypeCorrect == InviteSpec => []InviteTypeOK
<1>1. InviteInv => InviteTypeOK
  BY DEF InviteInv, InviteRequests, InviteRows, WithinPlan, InviteTypeOK
<1> QED
  BY <1>1, InviteInvariant, PTL

\* The plan's member limit is exceeded by no more than the joins whose
\* invitation had counted too few members, and only overlapping transactions
\* of inviteUser leave two open invitations of one email.
THEOREM InvitesBoundedHolds == InviteSpec => []InvitesBounded
<1>1. InviteInv => InvitesBounded
  <2> SUFFICES ASSUME InviteInv
               PROVE  InvitesBounded
    OBVIOUS
  <2>1. ASSUME NEW e \in Invitee \ inviteHistory.overlapped
        PROVE  Cardinality(OpenInvites(e)) <= 1
    <3>1. CASE OpenInvites(e) = {}
      BY <3>1, FS_EmptySet
    <3>2. CASE OpenInvites(e) # {}
      <4>1. PICK t \in Request : OpenInvites(e) = {t}
        BY <3>2 DEF OpenInvites, InviteInv, OneOpen, Opens
      <4> QED
        BY <4>1, FS_Singleton
    <3> QED
      BY <3>1, <3>2
  <2> QED
    BY <2>1 DEF InvitesBounded, InviteInv, WithinPlan
<1> QED
  BY <1>1, InviteInvariant, PTL

--------------------------------------------------------------------------
(* Plan limits *)

\* What a request still knows of the count it made.
CountedOK(r) ==
  /\ pc[r] = "resource.insert" =>
       /\ local[r].kind \in Resource /\ local[r].seen \in Nat
       /\ local[r].seen < ResourceLimit[local[r].kind]
  /\ pc[r] = "contact.insert" =>
       /\ local[r].emails \in SUBSET Email /\ local[r].seen \in Nat
       /\ local[r].seen + Cardinality(local[r].emails) <= ContactLimit

LimitInv ==
  /\ LimitTypeOK
  /\ \A r \in Request : CountedOK(r)
  /\ PlanLimitHeld

--------------------------------------------------------------------------
\* Cardinalities of sets of emails.
LEMMA EmailCount ==
  ASSUME NEW S \in SUBSET Email
  PROVE  IsFiniteSet(S) /\ Cardinality(S) \in Nat
BY LimitsAssumption, FS_Subset, FS_CardinalityType

LEMMA SubsetCount ==
  ASSUME NEW S \in SUBSET Email, NEW R \in SUBSET S
  PROVE  Cardinality(R) <= Cardinality(S)
BY EmailCount, FS_Subset

LEMMA DisjointCount ==
  ASSUME NEW S \in SUBSET Email, NEW R \in SUBSET Email, S \intersect R = {}
  PROVE  Cardinality(S \union R) = Cardinality(S) + Cardinality(R)
<1>1. Cardinality(S \union R) = Cardinality(S) + Cardinality(R) - Cardinality(S \intersect R)
  BY EmailCount, FS_Union
<1>2. Cardinality(S \intersect R) = 0
  BY FS_EmptySet
<1> QED
  BY <1>1, <1>2, EmailCount

LEMMA SingleCount ==
  ASSUME NEW e \in Email
  PROVE  Cardinality({e}) = 1
BY FS_Singleton

\* The contacts that a change leaves live.
LEMMA LiveType == LiveContacts \in SUBSET Email /\ ContactCount \in Nat
BY EmailCount DEF LiveContacts, ContactCount

LEMMA HeldUnchanged ==
  ASSUME PlanLimitHeld, UNCHANGED <<owned, contacts, limitHistory>>
  PROVE  PlanLimitHeld'
BY DEF PlanLimitHeld, ContactCount, LiveContacts, Found

--------------------------------------------------------------------------
\* A step that changes no request keeps what the requests have counted.
LEMMA CountedUnchanged ==
  ASSUME \A r \in Request : CountedOK(r), UNCHANGED <<pc, local>>
  PROVE  \A r \in Request : CountedOK(r)'
BY DEF CountedOK

\* So does a request that ends.
LEMMA CountedReturn ==
  ASSUME LimitTypeOK, \A q \in Request : CountedOK(q),
         NEW r \in Request, NEW outcome \in {"done", "failed"}, Return(r, outcome)
  PROVE  /\ pc' \in [Request -> {"new", "resource.insert", "contact.insert", "done", "failed"}]
         /\ local' \in [Request -> LimitLocal \union {Nothing}]
         /\ \A q \in Request : CountedOK(q)'
<1>1. pc' = [pc EXCEPT ![r] = outcome] /\ local' = [local EXCEPT ![r] = Nothing]
  BY DEF Return, Go
<1>2. pc' \in [Request -> {"new", "resource.insert", "contact.insert", "done", "failed"}]
  BY <1>1 DEF LimitTypeOK
<1>3. local' \in [Request -> LimitLocal \union {Nothing}]
  BY <1>1 DEF LimitTypeOK
<1>4. ASSUME NEW q \in Request
      PROVE  CountedOK(q)'
  <2>1. CASE q = r
    BY <1>1, <2>1 DEF LimitTypeOK, CountedOK
  <2>2. CASE q # r
    <3>1. pc'[q] = pc[q] /\ local'[q] = local[q]
      BY <1>1, <2>2 DEF LimitTypeOK
    <3> QED
      BY <3>1 DEF CountedOK
  <2> QED
    BY <2>1, <2>2
<1> QED
  BY <1>2, <1>3, <1>4

\* And a request that starts with a count that leaves room.
LEMMA CountedGo ==
  ASSUME LimitTypeOK, \A q \in Request : CountedOK(q),
         NEW r \in Request, NEW l \in LimitLocal, NEW s \in {"resource.insert", "contact.insert"},
         Go(r, l, s),
         s = "resource.insert" => l.kind \in Resource /\ l.seen \in Nat /\ l.seen < ResourceLimit[l.kind],
         s = "contact.insert" => /\ l.emails \in SUBSET Email /\ l.seen \in Nat
                                 /\ l.seen + Cardinality(l.emails) <= ContactLimit
  PROVE  /\ pc' \in [Request -> {"new", "resource.insert", "contact.insert", "done", "failed"}]
         /\ local' \in [Request -> LimitLocal \union {Nothing}]
         /\ \A q \in Request : CountedOK(q)'
<1>1. pc' = [pc EXCEPT ![r] = s] /\ local' = [local EXCEPT ![r] = l]
  BY DEF Go
<1>2. pc' \in [Request -> {"new", "resource.insert", "contact.insert", "done", "failed"}]
  BY <1>1 DEF LimitTypeOK
<1>3. local' \in [Request -> LimitLocal \union {Nothing}]
  BY <1>1 DEF LimitTypeOK
<1>4. ASSUME NEW q \in Request
      PROVE  CountedOK(q)'
  <2>1. CASE q = r
    BY <1>1, <2>1 DEF LimitTypeOK, CountedOK
  <2>2. CASE q # r
    <3>1. pc'[q] = pc[q] /\ local'[q] = local[q]
      BY <1>1, <2>2 DEF LimitTypeOK
    <3> QED
      BY <3>1 DEF CountedOK
  <2> QED
    BY <2>1, <2>2
<1> QED
  BY <1>2, <1>3, <1>4
--------------------------------------------------------------------------
\* Creation and removal of resources.
LEMMA CountResourcesStep ==
  ASSUME LimitInv, NEW r \in Request, NEW k \in Resource, CountResources(r, k)
  PROVE  LimitInv'
<1> DEFINE l == [op |-> "resource", kind |-> k, seen |-> owned[k]]
<1>1. owned[k] \in Nat
  BY DEF LimitInv, LimitTypeOK
<1>2. l \in LimitLocal
  BY <1>1 DEF LimitLocal
<1>3. l.kind = k /\ l.seen = owned[k] /\ owned[k] < ResourceLimit[k] /\ Go(r, l, "resource.insert")
  BY DEF CountResources
<1> HIDE DEF l
<1>4. /\ pc' \in [Request -> {"new", "resource.insert", "contact.insert", "done", "failed"}]
      /\ local' \in [Request -> LimitLocal \union {Nothing}]
      /\ \A q \in Request : CountedOK(q)'
  BY <1>1, <1>2, <1>3, CountedGo DEF LimitInv
<1>5. UNCHANGED <<owned, contacts, limitHistory>>
  BY DEF CountResources
<1> QED
  BY <1>4, <1>5, HeldUnchanged DEF LimitInv, LimitTypeOK

LEMMA InsertResourceStep ==
  ASSUME LimitInv, NEW r \in Request, InsertResource(r)
  PROVE  LimitInv'
<1> DEFINE k == local[r].kind
<1>1. /\ k \in Resource /\ local[r].seen \in Nat /\ local[r].seen < ResourceLimit[k]
      /\ owned[k] \in Nat /\ ResourceLimit[k] \in Nat
  BY LimitsAssumption DEF LimitInv, CountedOK, InsertResource, LimitTypeOK, ResourceLimits
<1>2. /\ pc' \in [Request -> {"new", "resource.insert", "contact.insert", "done", "failed"}]
      /\ local' \in [Request -> LimitLocal \union {Nothing}]
      /\ \A q \in Request : CountedOK(q)'
  BY CountedReturn DEF LimitInv, InsertResource
<1>3. /\ owned' = [owned EXCEPT ![k] = @ + 1] /\ contacts' = contacts
      /\ limitHistory' = IF owned[k] > local[r].seen
                         THEN [limitHistory EXCEPT !.stale[k] = @ + 1] ELSE limitHistory
  BY DEF InsertResource
<1> HIDE DEF k
<1>4. /\ limitHistory' \in LimitHistory
      /\ limitHistory'.staleContacts = limitHistory.staleContacts
      /\ \A j \in Resource : limitHistory'.stale[j] =
           IF j = k /\ owned[k] > local[r].seen THEN limitHistory.stale[j] + 1
           ELSE limitHistory.stale[j]
  BY <1>1, <1>3 DEF LimitInv, LimitTypeOK, LimitHistory
<1>5. owned' \in [Resource -> Nat]
  BY <1>1, <1>3 DEF LimitInv, LimitTypeOK
<1>6. ASSUME NEW j \in Resource
      PROVE  owned'[j] <= ResourceLimit[j] + limitHistory'.stale[j]
  <2>1. /\ owned[j] \in Nat /\ ResourceLimit[j] \in Nat /\ limitHistory.stale[j] \in Nat
        /\ owned[j] <= ResourceLimit[j] + limitHistory.stale[j]
    BY LimitsAssumption DEF LimitInv, LimitTypeOK, LimitHistory, PlanLimitHeld, ResourceLimits
  <2>2. owned'[j] = IF j = k THEN owned[j] + 1 ELSE owned[j]
    BY <1>3 DEF LimitInv, LimitTypeOK
  <2> QED
    BY <1>1, <1>4, <2>1, <2>2
<1>7. ContactCount' <= ContactLimit + limitHistory'.staleContacts
  BY <1>3, <1>4 DEF LimitInv, PlanLimitHeld, ContactCount, LiveContacts, Found
<1> QED
  BY <1>2, <1>3, <1>4, <1>5, <1>6, <1>7 DEF LimitInv, LimitTypeOK, PlanLimitHeld

LEMMA RemoveResourceStep ==
  ASSUME LimitInv, NEW k \in Resource, RemoveResource(k)
  PROVE  LimitInv'
<1>1. /\ owned[k] \in Nat /\ owned[k] > 0 /\ owned' = [owned EXCEPT ![k] = owned[k] - 1]
      /\ UNCHANGED <<contacts, limitHistory, pc, local>>
  BY DEF LimitInv, LimitTypeOK, RemoveResource
<1>2. owned' \in [Resource -> Nat] /\ \A j \in Resource : owned'[j] <= owned[j]
  BY <1>1 DEF LimitInv, LimitTypeOK
<1>3. \A j \in Resource : owned'[j] <= ResourceLimit[j] + limitHistory'.stale[j]
  BY <1>1, <1>2, LimitsAssumption DEF LimitInv, LimitTypeOK, LimitHistory, PlanLimitHeld, ResourceLimits
<1>4. ContactCount' <= ContactLimit + limitHistory'.staleContacts
  BY <1>1 DEF LimitInv, PlanLimitHeld, ContactCount, LiveContacts, Found
<1>5. LimitTypeOK'
  BY <1>1, <1>2 DEF LimitInv, LimitTypeOK
<1> QED
  BY <1>1, <1>3, <1>4, <1>5, CountedUnchanged DEF LimitInv, PlanLimitHeld

--------------------------------------------------------------------------
\* Creation and import of contacts.
LEMMA CountForCreateStep ==
  ASSUME LimitInv, NEW r \in Request, NEW e \in Email, CountForCreate(r, e)
  PROVE  LimitInv'
<1> DEFINE l == [op |-> "contact", emails |-> {e}, bulk |-> FALSE, seen |-> ContactCount]
<1>1. l \in LimitLocal
  BY LiveType DEF LimitLocal
<1>2. /\ l.emails = {e} /\ l.seen = ContactCount /\ ContactCount < ContactLimit
      /\ Go(r, l, "contact.insert")
  BY DEF CountForCreate
<1> HIDE DEF l
<1>3. l.seen + Cardinality(l.emails) <= ContactLimit
  BY <1>2, LiveType, SingleCount, LimitsAssumption
<1>4. /\ pc' \in [Request -> {"new", "resource.insert", "contact.insert", "done", "failed"}]
      /\ local' \in [Request -> LimitLocal \union {Nothing}]
      /\ \A q \in Request : CountedOK(q)'
  BY <1>1, <1>2, <1>3, LiveType, CountedGo DEF LimitInv
<1>5. UNCHANGED <<owned, contacts, limitHistory>>
  BY DEF CountForCreate
<1> QED
  BY <1>4, <1>5, HeldUnchanged DEF LimitInv, LimitTypeOK

LEMMA CountForImportStep ==
  ASSUME LimitInv, NEW r \in Request, NEW E \in SUBSET Email, CountForImport(r, E)
  PROVE  LimitInv'
<1> DEFINE l == [op |-> "contact", emails |-> E, bulk |-> TRUE, seen |-> ContactCount]
<1>1. l \in LimitLocal
  BY LiveType DEF LimitLocal
<1>2. /\ l.emails = E /\ l.seen = ContactCount /\ l.seen + Cardinality(l.emails) <= ContactLimit
      /\ Go(r, l, "contact.insert")
  BY DEF CountForImport
<1> HIDE DEF l
<1>3. /\ pc' \in [Request -> {"new", "resource.insert", "contact.insert", "done", "failed"}]
      /\ local' \in [Request -> LimitLocal \union {Nothing}]
      /\ \A q \in Request : CountedOK(q)'
  BY <1>1, <1>2, LiveType, CountedGo DEF LimitInv
<1>4. UNCHANGED <<owned, contacts, limitHistory>>
  BY DEF CountForImport
<1> QED
  BY <1>3, <1>4, HeldUnchanged DEF LimitInv, LimitTypeOK

LEMMA InsertContactsStep ==
  ASSUME LimitInv, NEW r \in Request, InsertContacts(r)
  PROVE  LimitInv'
<1> DEFINE l == local[r]
           fresh == {e \in l.emails : contacts[e] = "none"}
<1>1. /\ l.emails \in SUBSET Email /\ l.seen \in Nat
      /\ l.seen + Cardinality(l.emails) <= ContactLimit
  BY DEF LimitInv, CountedOK, InsertContacts
<1>2. /\ pc' \in [Request -> {"new", "resource.insert", "contact.insert", "done", "failed"}]
      /\ local' \in [Request -> LimitLocal \union {Nothing}]
      /\ \A q \in Request : CountedOK(q)'
  BY CountedReturn DEF LimitInv, InsertContacts
<1>3. CASE UNCHANGED <<contacts, limitHistory>>
  BY <1>2, <1>3, HeldUnchanged DEF LimitInv, LimitTypeOK, InsertContacts
<1>4. CASE /\ contacts' = [e \in Email |-> IF e \in fresh THEN "live" ELSE contacts[e]]
           /\ limitHistory' = IF ContactCount > l.seen
                              THEN [limitHistory EXCEPT !.staleContacts = @ + Cardinality(fresh)]
                              ELSE limitHistory
  <2>1. fresh \in SUBSET Email /\ fresh \in SUBSET l.emails /\ LiveContacts \intersect fresh = {}
    BY <1>1 DEF LiveContacts, Found
  <2>2. LiveContacts' = LiveContacts \union fresh
    BY <1>4, <2>1 DEF LimitInv, LimitTypeOK, LiveContacts, Found
  <2>3. contacts' \in [Email -> {"none", "live", "deleted"}]
    BY <1>4 DEF LimitInv, LimitTypeOK
  <2>4. owned' = owned
    BY DEF InsertContacts
  <2> HIDE DEF fresh, l
  <2>5. ContactCount' = ContactCount + Cardinality(fresh)
    BY <2>1, <2>2, LiveType, DisjointCount DEF ContactCount
  <2>6. Cardinality(fresh) <= Cardinality(l.emails) /\ Cardinality(fresh) \in Nat /\ Cardinality(l.emails) \in Nat
    BY <1>1, <2>1, SubsetCount, EmailCount
  <2>7. /\ limitHistory' \in LimitHistory
        /\ limitHistory'.stale = limitHistory.stale
        /\ limitHistory'.staleContacts =
             IF ContactCount > l.seen THEN limitHistory.staleContacts + Cardinality(fresh)
             ELSE limitHistory.staleContacts
    BY <1>4, <2>6 DEF LimitInv, LimitTypeOK, LimitHistory
  <2>8. limitHistory.staleContacts \in Nat /\ ContactCount <= ContactLimit + limitHistory.staleContacts
    BY DEF LimitInv, LimitTypeOK, LimitHistory, PlanLimitHeld
  <2>9. ContactCount' <= ContactLimit + limitHistory'.staleContacts
    BY <1>1, <2>5, <2>6, <2>7, <2>8, LiveType, LimitsAssumption
  <2>10. \A k \in Resource : owned'[k] <= ResourceLimit[k] + limitHistory'.stale[k]
    BY <2>4, <2>7 DEF LimitInv, PlanLimitHeld
  <2> QED
    BY <1>2, <2>3, <2>4, <2>7, <2>9, <2>10 DEF LimitInv, LimitTypeOK, PlanLimitHeld
<1> QED
  BY <1>3, <1>4 DEF InsertContacts

\* Changes that leave at most as many contacts.
LEMMA NoMoreContacts ==
  ASSUME LimitInv, UNCHANGED <<owned, limitHistory, pc, local>>,
         contacts' \in [Email -> {"none", "live", "deleted"}], ContactCount' <= ContactCount
  PROVE  LimitInv'
<1>1. LimitTypeOK'
  BY DEF LimitInv, LimitTypeOK
<1>2. limitHistory.staleContacts \in Nat /\ ContactCount \in Nat
  BY LiveType DEF LimitInv, LimitTypeOK, LimitHistory
<1>3. contacts' \in [Email -> {"none", "live", "deleted"}] => ContactCount' \in Nat
  BY EmailCount DEF ContactCount, LiveContacts
<1>4. PlanLimitHeld'
  BY <1>2, <1>3, LimitsAssumption DEF LimitInv, PlanLimitHeld
<1> QED
  BY <1>1, <1>4, CountedUnchanged DEF LimitInv

LEMMA ChangeEmailStep ==
  ASSUME LimitInv, NEW e \in Email, NEW f \in Email, ChangeEmail(e, f)
  PROVE  LimitInv'
<1>1. /\ contacts[e] = "live" /\ contacts[f] = "none"
      /\ contacts' = [contacts EXCEPT ![e] = "none", ![f] = "live"]
      /\ UNCHANGED <<owned, limitHistory, pc, local>>
      /\ contacts \in [Email -> {"none", "live", "deleted"}]
  BY DEF ChangeEmail, Found, LimitInv, LimitTypeOK
<1>2. contacts' \in [Email -> {"none", "live", "deleted"}]
  BY <1>1
<1> DEFINE rest == LiveContacts \ {e}
<1>3. LiveContacts = rest \union {e} /\ LiveContacts' = rest \union {f} /\ rest \in SUBSET Email
  BY <1>1 DEF LiveContacts, Found
<1>4. rest \intersect {e} = {} /\ rest \intersect {f} = {}
  BY <1>1 DEF LiveContacts, Found
<1> HIDE DEF rest
<1>5. ContactCount = Cardinality(rest) + 1 /\ ContactCount' = Cardinality(rest) + 1
  BY <1>3, <1>4, DisjointCount, SingleCount DEF ContactCount
<1>6. ContactCount' <= ContactCount
  BY <1>3, <1>5, EmailCount
<1> QED
  BY <1>1, <1>2, <1>6, NoMoreContacts

LEMMA DeleteContactStep ==
  ASSUME LimitInv, NEW e \in Email, DeleteContact(e)
  PROVE  LimitInv'
<1>1. /\ contacts' = [contacts EXCEPT ![e] = "deleted"]
      /\ UNCHANGED <<owned, limitHistory, pc, local>>
      /\ contacts \in [Email -> {"none", "live", "deleted"}]
  BY DEF DeleteContact, LimitInv, LimitTypeOK
<1>2. contacts' \in [Email -> {"none", "live", "deleted"}]
  BY <1>1
<1>3. LiveContacts' \in SUBSET LiveContacts
  BY <1>1 DEF LiveContacts, Found
<1>4. ContactCount' <= ContactCount
  BY <1>3, LiveType, SubsetCount DEF ContactCount
<1> QED
  BY <1>1, <1>2, <1>4, NoMoreContacts

LEMMA FailCreationStep ==
  ASSUME LimitInv, NEW r \in Request, FailCreation(r)
  PROVE  LimitInv'
<1>1. Return(r, "failed") /\ UNCHANGED <<owned, contacts, limitHistory>>
  BY DEF FailCreation, Stop
<1>2. /\ pc' \in [Request -> {"new", "resource.insert", "contact.insert", "done", "failed"}]
      /\ local' \in [Request -> LimitLocal \union {Nothing}]
      /\ \A q \in Request : CountedOK(q)'
  BY <1>1, CountedReturn DEF LimitInv
<1> QED
  BY <1>1, <1>2, HeldUnchanged DEF LimitInv, LimitTypeOK

--------------------------------------------------------------------------
LEMMA LimitInvInit == LimitInit => LimitInv
<1> SUFFICES ASSUME LimitInit
             PROVE  LimitInv
  OBVIOUS
<1>1. LimitTypeOK
  BY DEF LimitInit, HandlersInit, LimitTypeOK, LimitHistory
<1>2. \A r \in Request : CountedOK(r)
  BY DEF LimitInit, HandlersInit, CountedOK
<1>3. ContactCount = 0
  <2>1. LiveContacts = {}
    BY DEF LimitInit, LiveContacts, Found
  <2> QED
    BY <2>1, FS_EmptySet DEF ContactCount
<1>4. PlanLimitHeld
  BY <1>3, LimitsAssumption DEF LimitInit, PlanLimitHeld, ResourceLimits
<1> QED
  BY <1>1, <1>2, <1>4 DEF LimitInv

LEMMA LimitInvStep == LimitInv /\ [LimitNext]_limitVars => LimitInv'
<1> SUFFICES ASSUME LimitInv, [LimitNext]_limitVars
             PROVE  LimitInv'
  OBVIOUS
<1>1. CASE UNCHANGED limitVars
  BY <1>1, HeldUnchanged, CountedUnchanged DEF limitVars, limitState, LimitInv, LimitTypeOK
<1>2. ASSUME NEW r \in Request, LimitRequest(r)
      PROVE  LimitInv'
  BY <1>2, CountResourcesStep, InsertResourceStep, CountForCreateStep, CountForImportStep,
     InsertContactsStep, FailCreationStep DEF LimitRequest
<1>3. ASSUME NEW k \in Resource, RemoveResource(k)
      PROVE  LimitInv'
  BY <1>3, RemoveResourceStep
<1>4. ASSUME NEW e \in Email, NEW f \in Email, ChangeEmail(e, f)
      PROVE  LimitInv'
  BY <1>4, ChangeEmailStep
<1>5. ASSUME NEW e \in Email, DeleteContact(e)
      PROVE  LimitInv'
  BY <1>5, DeleteContactStep
<1> QED
  BY <1>1, <1>2, <1>3, <1>4, <1>5 DEF LimitNext

\* The inductive invariant holds in every state.
THEOREM LimitInvariant == LimitSpec => []LimitInv
<1> QED
  BY LimitInvInit, LimitInvStep, PTL DEF LimitSpec

\* Every reachable state of the limits has the types of LimitTypeOK.
THEOREM LimitTypeCorrect == LimitSpec => []LimitTypeOK
<1>1. LimitInv => LimitTypeOK
  BY DEF LimitInv
<1> QED
  BY <1>1, LimitInvariant, PTL

\* However creations, imports, changes and deletions overlap, a workspace has
\* no more resources and contacts than its plan allows and the rows that were
\* inserted on a count that had gone out of date.
THEOREM PlanLimitHolds == LimitSpec => []PlanLimitHeld
<1>1. LimitInv => PlanLimitHeld
  BY DEF LimitInv
<1> QED
  BY <1>1, LimitInvariant, PTL

--------------------------------------------------------------------------
(* Checkout *)

CheckoutSteps ==
  {"new", "checkout.check", "customer.find", "customer.create", "customer.set",
   "session.create", "portal.create", "checkout.release", "done", "failed"}

Locals == CheckoutLocal \union {Nothing}

\* A request under way knows what it is; one that is about to make a session
\* has a customer.
Knows(s, l) ==
  /\ s \notin {"new", "done", "failed"} => l \in CheckoutLocal
  /\ s \in {"checkout.check", "session.create", "checkout.release"} => l.op = "checkout"
  /\ s = "session.create" => l.customer \in Request

CheckoutRequests ==
  /\ pc \in [Request -> CheckoutSteps]
  /\ local \in [Request -> Locals]
  /\ \A r \in Request : Knows(pc[r], local[r])

CheckoutRows ==
  /\ lock \in Id /\ row \in SubscriptionRow /\ customers \subseteq Request
  /\ open \subseteq Session /\ paid \subseteq Session /\ open \intersect paid = {}
  /\ \A s \in open \union paid : pc[s.id] \in {"checkout.release", "done", "failed"}
  /\ checkoutHistory \in CheckoutHistory

Buys(r) == pc[r] \notin {"new", "done", "failed"} /\ local[r].op = "checkout"
Chooses(r) == Buys(r) /\ pc[r] \in {"customer.find", "customer.create", "customer.set", "session.create"}

\* Whoever buys holds the lock, and found nothing that was or could be paid.
SolePurchase ==
  checkoutHistory.outstanding \/ checkoutHistory.freed \/
    /\ \A r \in Request : Buys(r) => lock = r
    /\ \A r \in Request : Chooses(r) => open = {} /\ paid = {}
    /\ \A s \in open \union paid, t \in open \union paid : s = t

Makes(r) == pc[r] \in {"customer.create", "customer.set"}
Uses(r) == pc[r] \in {"session.create", "portal.create"}

\* Whoever makes a customer is alone, and there is none yet.
SoleCustomer ==
  checkoutHistory.twice \/
    /\ \A r \in Request, q \in Request : Makes(r) /\ Makes(q) => r = q
    /\ \A r \in Request : Makes(r) =>
         row.customer = NoOne /\ customers = IF pc[r] = "customer.set" THEN {r} ELSE {}
    /\ row.customer # NoOne => customers = {row.customer}
    /\ row.customer = NoOne /\ customers # {} => \E r \in Request : pc[r] = "customer.set"
    /\ \A r \in Request : Uses(r) => local[r].customer = row.customer /\ row.customer # NoOne
    /\ \A s \in open \union paid : s.customer = row.customer /\ row.customer # NoOne

CheckoutInv == CheckoutRequests /\ CheckoutRows /\ SolePurchase /\ SoleCustomer

--------------------------------------------------------------------------
\* A request that moves, with what it holds, leaves the others alone.
Moves(r, l, s) ==
  /\ pc'[r] = s /\ local'[r] = l
  /\ \A q \in Request : q # r => pc'[q] = pc[q] /\ local'[q] = local[q]

LEMMA CheckoutGoOK ==
  ASSUME CheckoutRequests, NEW r \in Request, NEW s \in CheckoutSteps, NEW l \in Locals,
         Go(r, l, s), Knows(s, l)
  PROVE  CheckoutRequests' /\ Moves(r, l, s)
<1>1. /\ local' \in [Request -> Locals] /\ local'[r] = l
      /\ \A q \in Request : q # r => local'[q] = local[q]
  BY DEF Go, CheckoutRequests
<1>2. /\ pc' \in [Request -> CheckoutSteps] /\ pc'[r] = s
      /\ \A q \in Request : q # r => pc'[q] = pc[q]
  BY DEF Go, CheckoutRequests
<1>3. \A q \in Request : Knows(pc'[q], local'[q])
  BY <1>1, <1>2 DEF CheckoutRequests
<1> QED
  BY <1>1, <1>2, <1>3 DEF CheckoutRequests, Moves, Knows, Locals, CheckoutLocal, Nothing,
                          CheckoutSteps, Id

LEMMA CheckoutGotoOK ==
  ASSUME CheckoutRequests, NEW r \in Request, NEW s \in CheckoutSteps, Goto(r, s),
         Knows(s, local[r])
  PROVE  CheckoutRequests' /\ Moves(r, local[r], s)
<1>1. Go(r, local[r], s) /\ local[r] \in Locals
  BY DEF Goto, Go, CheckoutRequests
<1> QED
  BY <1>1, CheckoutGoOK

LEMMA CheckoutReturnOK ==
  ASSUME CheckoutRequests, NEW r \in Request, NEW s \in {"done", "failed"}, Return(r, s)
  PROVE  CheckoutRequests' /\ Moves(r, Nothing, s)
<1>1. Go(r, Nothing, s) /\ Nothing \in Locals
  BY DEF Return, Locals
<1>2. Knows(s, Nothing) /\ s \in CheckoutSteps
  BY DEF Knows, CheckoutSteps
<1> HIDE DEF Nothing
<1> QED
  BY <1>1, <1>2, CheckoutGoOK

LEMMA CheckoutRequestsUnchanged ==
  ASSUME CheckoutRequests, UNCHANGED <<pc, local>>
  PROVE  CheckoutRequests'
BY DEF CheckoutRequests, Knows, Locals, CheckoutLocal, Nothing, CheckoutSteps, Id

LEMMA HappenedOK ==
  ASSUME checkoutHistory \in CheckoutHistory, NEW what \in {"outstanding", "freed", "twice"},
         NEW now \in BOOLEAN
  PROVE  /\ Happened(what, now) \in CheckoutHistory
         /\ checkoutHistory[what] \/ now => Happened(what, now)[what]
         /\ Happened(what, now)[what] => checkoutHistory[what] \/ now
         /\ \A w \in {"outstanding", "freed", "twice"} :
              w # what => Happened(what, now)[w] = checkoutHistory[w]
<1> DEFINE h == checkoutHistory
<1>1. h = [outstanding |-> h.outstanding, freed |-> h.freed, twice |-> h.twice]
      /\ h.outstanding \in BOOLEAN /\ h.freed \in BOOLEAN /\ h.twice \in BOOLEAN
  BY Zenon DEF CheckoutHistory
<1>2. CASE what = "outstanding"
  <2>1. Happened(what, now) = [h EXCEPT !.outstanding = @ \/ now]
    BY <1>2 DEF Happened
  <2>2. Happened(what, now) \in CheckoutHistory
        /\ (Happened(what, now).outstanding <=> (h.outstanding \/ now))
        /\ Happened(what, now).freed = h.freed /\ Happened(what, now).twice = h.twice
    BY <2>1, Zenon DEF CheckoutHistory
  <2> HIDE DEF h
  <2> QED
    BY <1>2, <2>2 DEF h
<1>3. CASE what = "freed"
  <2>1. Happened(what, now) = [h EXCEPT !.freed = @ \/ now]
    BY <1>3 DEF Happened
  <2>2. Happened(what, now) \in CheckoutHistory
        /\ (Happened(what, now).freed <=> (h.freed \/ now))
        /\ Happened(what, now).outstanding = h.outstanding /\ Happened(what, now).twice = h.twice
    BY <2>1, Zenon DEF CheckoutHistory
  <2> QED
    BY <1>3, <2>2
<1>4. CASE what = "twice"
  <2>1. Happened(what, now) = [h EXCEPT !.twice = @ \/ now]
    BY <1>4 DEF Happened
  <2>2. Happened(what, now) \in CheckoutHistory
        /\ (Happened(what, now).twice <=> (h.twice \/ now))
        /\ Happened(what, now).outstanding = h.outstanding /\ Happened(what, now).freed = h.freed
    BY <2>1, Zenon DEF CheckoutHistory
  <2> QED
    BY <1>4, <2>2
<1> QED
  BY <1>2, <1>3, <1>4

\* What happened stays so.
Recorded(w) == checkoutHistory[w] => checkoutHistory'[w]

\* Nothing that the purchases rest on is lost.
LEMMA SolePurchaseKept ==
  ASSUME SolePurchase, lock' = lock,
         \A r \in Request : Buys(r)' => Buys(r), \A r \in Request : Chooses(r)' => Chooses(r),
         open' \union paid' \subseteq open \union paid,
         Recorded("outstanding"), Recorded("freed")
  PROVE  SolePurchase'
BY DEF SolePurchase, Recorded

\* No more is made, and what is made, used or sold is for the same customer.
LEMMA SoleCustomerKept ==
  ASSUME SoleCustomer, customers' = customers, row'.customer = row.customer,
         \A r \in Request : Makes(r)' => pc'[r] = pc[r],
         checkoutHistory'.twice \/ \A r \in Request : pc[r] = "customer.set" => pc'[r] = pc[r],
         \A r \in Request : Uses(r)' => Uses(r) /\ local'[r] = local[r],
         \A s \in open' \union paid' : s \in open \union paid,
         Recorded("twice")
  PROVE  SoleCustomer'
BY DEF SoleCustomer, Recorded, Makes, Uses

LEMMA BuyersKept ==
  ASSUME NEW r \in Request, NEW l, NEW s, Moves(r, l, s),
         s \in {"done", "failed"} \/ l.op # "checkout" \/ Buys(r),
         s \in {"customer.find", "customer.create", "customer.set", "session.create"}
           /\ l.op = "checkout" => Chooses(r)
  PROVE  \A q \in Request : (Buys(q)' => Buys(q)) /\ (Chooses(q)' => Chooses(q))
BY DEF Moves, Buys, Chooses

LEMMA RowsKept ==
  ASSUME CheckoutRows, NEW r \in Request, NEW l, NEW s, Moves(r, l, s),
         pc[r] \notin {"checkout.release", "done", "failed"} \/ s \in {"done", "failed"},
         UNCHANGED <<row, customers, open, paid>>, lock' \in Id, checkoutHistory' \in CheckoutHistory
  PROVE  CheckoutRows'
BY DEF CheckoutRows, Moves, Id, SubscriptionRow, Session, CheckoutHistory

\* What is known of a request that takes a step.
LEMMA UnderWay ==
  ASSUME CheckoutInv, NEW r \in Request
  PROVE  /\ local[r] \in Locals /\ Knows(pc[r], local[r]) /\ pc[r] \in CheckoutSteps
         /\ checkoutHistory \in CheckoutHistory
BY DEF CheckoutInv, CheckoutRequests, CheckoutRows

--------------------------------------------------------------------------
LEMMA AcquireStep ==
  ASSUME CheckoutInv, NEW r \in Request, AcquireLock(r)
  PROVE  CheckoutInv'
<1> DEFINE l == [op |-> "checkout", customer |-> NoOne]
<1>1. l \in CheckoutLocal /\ l.op = "checkout" /\ l \in Locals
  BY DEF CheckoutLocal, Id, Locals
<1>2. Go(r, l, "checkout.check")
  BY DEF AcquireLock
<1> HIDE DEF l
<1>3. CheckoutRequests' /\ Moves(r, l, "checkout.check")
  BY <1>1, <1>2, CheckoutGoOK DEF CheckoutInv, Knows, CheckoutSteps
<1>4. CheckoutRows'
  BY <1>3, RowsKept DEF AcquireLock, CheckoutInv, CheckoutRows, Id
<1>5. SolePurchase'
  <2>1. \A q \in Request : q # r => (Buys(q)' => Buys(q)) /\ (Chooses(q)' => Chooses(q))
    BY <1>3 DEF Moves, Buys, Chooses
  <2>2. ~ Chooses(r)'
    BY <1>3 DEF Moves, Chooses
  <2>3. lock = NoOne /\ lock' = r /\ UNCHANGED <<open, paid, checkoutHistory>>
    BY DEF AcquireLock
  <2> QED
    BY <2>1, <2>2, <2>3, NoOneAssumption DEF SolePurchase, CheckoutInv
<1>6. SoleCustomer'
  BY <1>3, SoleCustomerKept DEF AcquireLock, CheckoutInv, Moves, Makes, Uses, Recorded
<1> QED
  BY <1>3, <1>4, <1>5, <1>6 DEF CheckoutInv

\* A checkout that finds no subscription finds no session either, or says so.
LEMMA CheckStep ==
  ASSUME CheckoutInv, NEW r \in Request, CheckSubscription(r)
  PROVE  CheckoutInv'
<1> DEFINE s == IF row.sub # NoOne THEN "checkout.release" ELSE "customer.find"
           now == row.sub = NoOne /\ (open # {} \/ paid # {})
<1>1. pc[r] = "checkout.check" /\ local[r] \in CheckoutLocal /\ local[r].op = "checkout"
  BY UnderWay DEF CheckSubscription, Knows
<1>2. s \in CheckoutSteps /\ Knows(s, local[r]) /\ Goto(r, s)
  BY <1>1 DEF CheckSubscription, CheckoutSteps, Knows
<1>3. CheckoutRequests' /\ Moves(r, local[r], s)
  BY <1>2, CheckoutGotoOK DEF CheckoutInv
<1>4. /\ checkoutHistory' \in CheckoutHistory
      /\ checkoutHistory'["outstanding"] <=> (checkoutHistory["outstanding"] \/ now)
      /\ checkoutHistory'["freed"] = checkoutHistory["freed"]
      /\ checkoutHistory'["twice"] = checkoutHistory["twice"]
  <2>1. checkoutHistory' = Happened("outstanding", now) /\ now \in BOOLEAN
    BY DEF CheckSubscription
  <2> HIDE DEF now
  <2> QED
    BY <2>1, UnderWay, HappenedOK
<1>5. UNCHANGED <<lock, row, customers, open, paid>>
  BY DEF CheckSubscription
<1>6. CheckoutRows'
  BY <1>1, <1>3, <1>4, <1>5, RowsKept DEF CheckoutInv, CheckoutRows
<1>7. SolePurchase'
  <2>1. \A q \in Request : Buys(q)' => Buys(q)
    BY <1>1, <1>3 DEF Moves, Buys
  <2>2. \A q \in Request : Chooses(q)' => Chooses(q) \/ row.sub = NoOne
    BY <1>3 DEF Moves, Buys, Chooses
  <2> QED
    BY <1>4, <1>5, <2>1, <2>2 DEF SolePurchase, CheckoutInv
<1>8. SoleCustomer'
  BY <1>1, <1>3, <1>4, <1>5, SoleCustomerKept DEF CheckoutInv, Moves, Makes, Uses, Recorded
<1> QED
  BY <1>3, <1>6, <1>7, <1>8 DEF CheckoutInv

LEMMA PortalStep ==
  ASSUME CheckoutInv, NEW r \in Request, CreatePortalSession(r)
  PROVE  CheckoutInv'
<1> DEFINE l == [op |-> "portal", customer |-> NoOne]
<1>1. l \in CheckoutLocal /\ l.op = "portal" /\ l \in Locals
  BY DEF CheckoutLocal, Id, Locals
<1>2. Go(r, l, "customer.find") /\ pc[r] = "new"
      /\ UNCHANGED <<lock, row, customers, open, paid, checkoutHistory>>
  BY DEF CreatePortalSession
<1> HIDE DEF l
<1>3. CheckoutRequests' /\ Moves(r, l, "customer.find")
  BY <1>1, <1>2, CheckoutGoOK DEF CheckoutInv, Knows, CheckoutSteps
<1>4. CheckoutRows'
  BY <1>2, <1>3, RowsKept DEF CheckoutInv, CheckoutRows
<1>5. SolePurchase'
  BY <1>1, <1>2, <1>3, BuyersKept, SolePurchaseKept DEF CheckoutInv, Recorded
<1>6. SoleCustomer'
  BY <1>2, <1>3, SoleCustomerKept DEF CheckoutInv, Moves, Makes, Uses, Recorded
<1> QED
  BY <1>3, <1>4, <1>5, <1>6 DEF CheckoutInv

\* With no customer on the row and nobody making one, Stripe has none.
LEMMA FindStep ==
  ASSUME CheckoutInv, NEW r \in Request, FindCustomer(r)
  PROVE  CheckoutInv'
<1>1. pc[r] = "customer.find" /\ local[r] \in CheckoutLocal
      /\ UNCHANGED <<lock, row, customers, open, paid>>
  BY UnderWay DEF FindCustomer, Knows
<1>2. CASE row.customer # NoOne
  <2> DEFINE l == [local[r] EXCEPT !.customer = row.customer]
             s == Then(r)
  <2>1. row.customer \in Request
    BY <1>2 DEF CheckoutInv, CheckoutRows, SubscriptionRow, Id
  <2>2. l \in CheckoutLocal /\ l.op = local[r].op /\ l.customer = row.customer
    BY <1>1, <2>1 DEF CheckoutLocal, Id
  <2>3. Go(r, l, s) /\ checkoutHistory' = checkoutHistory /\ s \in CheckoutSteps
        /\ s \in {"session.create", "portal.create"}
        /\ (s = "session.create" => l.op = "checkout")
    BY <1>2, <2>2 DEF FindCustomer, Then, CheckoutSteps
  <2> HIDE DEF l, s
  <2>4. CheckoutRequests' /\ Moves(r, l, s)
    BY <2>1, <2>2, <2>3, CheckoutGoOK DEF CheckoutInv, Knows, Locals
  <2>5. CheckoutRows'
    BY <1>1, <2>3, <2>4, RowsKept DEF CheckoutInv, CheckoutRows
  <2>6. SolePurchase'
    <3>1. l.op # "checkout" \/ (Buys(r) /\ Chooses(r))
      BY <1>1, <2>2 DEF Buys, Chooses
    <3> QED
      BY <1>1, <2>3, <2>4, <3>1, BuyersKept, SolePurchaseKept DEF CheckoutInv, Recorded
  <2>7. SoleCustomer'
    <3>1. \A q \in Request : Makes(q)' => pc'[q] = pc[q]
      BY <2>3, <2>4 DEF Moves, Makes
    <3>2. \A q \in Request : (pc'[q] = "customer.set" <=> pc[q] = "customer.set")
      BY <1>1, <2>3, <2>4 DEF Moves
    <3>3. \A q \in Request : Uses(q)' => q = r \/ (Uses(q) /\ local'[q] = local[q])
      BY <2>4 DEF Moves, Uses
    <3>4. local'[r].customer = row.customer
      BY <2>2, <2>4 DEF Moves
    <3> QED
      BY <1>1, <1>2, <2>3, <3>1, <3>2, <3>3, <3>4 DEF SoleCustomer, CheckoutInv, Makes
  <2> QED
    BY <2>4, <2>5, <2>6, <2>7 DEF CheckoutInv
<1>3. CASE row.customer = NoOne
  <2> DEFINE now == Creating # {}
  <2>1. Goto(r, "customer.create") /\ checkoutHistory' = Happened("twice", now) /\ now \in BOOLEAN
    BY <1>3 DEF FindCustomer
  <2>2. CheckoutRequests' /\ Moves(r, local[r], "customer.create")
    BY <1>1, <2>1, CheckoutGotoOK DEF CheckoutInv, Knows, CheckoutSteps
  <2>3. /\ checkoutHistory' \in CheckoutHistory
        /\ checkoutHistory'["twice"] <=> (checkoutHistory["twice"] \/ now)
        /\ checkoutHistory'["freed"] = checkoutHistory["freed"]
        /\ checkoutHistory'["outstanding"] = checkoutHistory["outstanding"]
    <3> HIDE DEF now
    <3> QED
      BY <2>1, UnderWay, HappenedOK
  <2>4. CheckoutRows'
    BY <1>1, <2>2, <2>3, RowsKept DEF CheckoutInv, CheckoutRows
  <2>5. SolePurchase'
    <3>1. local[r].op # "checkout" \/ (Buys(r) /\ Chooses(r))
      BY <1>1 DEF Buys, Chooses
    <3> QED
      BY <1>1, <2>2, <2>3, <3>1, BuyersKept, SolePurchaseKept DEF CheckoutInv, Recorded
  <2>6. SoleCustomer'
    <3>1. CASE checkoutHistory.twice \/ now
      BY <2>3, <3>1 DEF SoleCustomer
    <3>2. CASE ~ checkoutHistory.twice /\ ~ now
      <4>1. \A q \in Request : ~ Makes(q)
        BY <3>2 DEF Creating, Makes
      <4>2. customers = {}
        BY <1>3, <3>2, <4>1 DEF SoleCustomer, CheckoutInv, Makes
      <4>3. \A q \in Request : Makes(q)' => q = r
        BY <2>2, <4>1 DEF Moves, Makes
      <4>4. pc'[r] = "customer.create"
        BY <2>2 DEF Moves
      <4>5. \A q \in Request : Uses(q)' => Uses(q) /\ local'[q] = local[q]
        BY <2>2 DEF Moves, Uses
      <4> QED
        BY <1>1, <1>3, <3>2, <4>2, <4>3, <4>4, <4>5 DEF SoleCustomer, CheckoutInv
    <3> QED
      BY <3>1, <3>2
  <2> QED
    BY <2>2, <2>4, <2>5, <2>6 DEF CheckoutInv
<1> QED
  BY <1>2, <1>3

LEMMA CreateCustomerStep ==
  ASSUME CheckoutInv, NEW r \in Request, CreateCustomer(r)
  PROVE  CheckoutInv'
<1>1. pc[r] = "customer.create" /\ local[r] \in CheckoutLocal
      /\ customers' = customers \union {r} /\ Goto(r, "customer.set")
      /\ UNCHANGED <<lock, row, open, paid, checkoutHistory>>
  BY UnderWay DEF CreateCustomer, Knows
<1>2. CheckoutRequests' /\ Moves(r, local[r], "customer.set")
  BY <1>1, CheckoutGotoOK DEF CheckoutInv, Knows, CheckoutSteps
<1>3. CheckoutRows'
  BY <1>1, <1>2 DEF CheckoutInv, CheckoutRows, Moves, Id, SubscriptionRow, Session, CheckoutHistory
<1>4. SolePurchase'
  <2>1. local[r].op # "checkout" \/ (Buys(r) /\ Chooses(r))
    BY <1>1 DEF Buys, Chooses
  <2> QED
    BY <1>1, <1>2, <2>1, BuyersKept, SolePurchaseKept DEF CheckoutInv, Recorded
<1>5. SoleCustomer'
  <2>1. CASE checkoutHistory.twice
    BY <1>1, <2>1 DEF SoleCustomer
  <2>2. CASE ~ checkoutHistory.twice
    <3>1. Makes(r) /\ customers' = {r} /\ row.customer = NoOne
      BY <1>1, <2>2 DEF SoleCustomer, CheckoutInv, Makes
    <3>2. \A q \in Request : Makes(q)' => q = r
      BY <1>2, <2>2, <3>1 DEF SoleCustomer, CheckoutInv, Makes, Moves
    <3>3. pc'[r] = "customer.set"
      BY <1>2 DEF Moves
    <3>4. \A q \in Request : Uses(q)' => Uses(q) /\ local'[q] = local[q]
      BY <1>2 DEF Moves, Uses
    <3> QED
      BY <1>1, <2>2, <3>1, <3>2, <3>3, <3>4 DEF SoleCustomer, CheckoutInv
  <2> QED
    BY <2>1, <2>2
<1> QED
  BY <1>2, <1>3, <1>4, <1>5 DEF CheckoutInv

\* The one customer that was made is the one that is stored.
LEMMA SetCustomerStep ==
  ASSUME CheckoutInv, NEW r \in Request, SetCustomerId(r)
  PROVE  CheckoutInv'
<1> DEFINE l == [local[r] EXCEPT !.customer = r]
           s == Then(r)
<1>1. pc[r] = "customer.set" /\ local[r] \in CheckoutLocal
      /\ row' = [row EXCEPT !.customer = r] /\ Go(r, l, s)
      /\ UNCHANGED <<lock, customers, open, paid, checkoutHistory>>
  BY UnderWay DEF SetCustomerId, Knows
<1>2. l \in CheckoutLocal /\ l.op = local[r].op /\ l.customer = r
  BY <1>1 DEF CheckoutLocal, Id
<1>3. s \in {"session.create", "portal.create"} /\ (s = "session.create" => l.op = "checkout")
  BY <1>2 DEF Then
<1> HIDE DEF l, s
<1>4. CheckoutRequests' /\ Moves(r, l, s)
  BY <1>1, <1>2, <1>3, CheckoutGoOK DEF CheckoutInv, Knows, CheckoutSteps, Locals
<1>5. row' \in SubscriptionRow /\ row'.customer = r
  BY <1>1 DEF CheckoutInv, CheckoutRows, SubscriptionRow, Id
<1>6. CheckoutRows'
  BY <1>1, <1>4, <1>5 DEF CheckoutInv, CheckoutRows, Moves, Id, SubscriptionRow, Session, CheckoutHistory
<1>7. SolePurchase'
  <2>1. local[r].op # "checkout" \/ (Buys(r) /\ Chooses(r))
    BY <1>1 DEF Buys, Chooses
  <2> QED
    BY <1>1, <1>2, <1>4, <2>1, BuyersKept, SolePurchaseKept DEF CheckoutInv, Recorded
<1>8. SoleCustomer'
  <2>1. CASE checkoutHistory.twice
    BY <1>1, <2>1 DEF SoleCustomer
  <2>2. CASE ~ checkoutHistory.twice
    <3>1. Makes(r) /\ customers = {r} /\ row.customer = NoOne /\ r # NoOne
      BY <1>1, <2>2, NoOneAssumption DEF SoleCustomer, CheckoutInv, Makes
    <3>2. open \union paid = {} /\ \A q \in Request : ~ Uses(q)
      BY <2>2, <3>1 DEF SoleCustomer, CheckoutInv
    <3>3. \A q \in Request : ~ Makes(q)'
      BY <1>3, <1>4, <2>2, <3>1 DEF SoleCustomer, CheckoutInv, Makes, Moves
    <3>4. \A q \in Request : Uses(q)' => q = r
      BY <1>4, <3>2 DEF Moves, Uses
    <3>5. local'[r].customer = r
      BY <1>2, <1>4 DEF Moves
    <3> QED
      BY <1>1, <1>5, <3>1, <3>2, <3>3, <3>4, <3>5 DEF SoleCustomer
  <2> QED
    BY <2>1, <2>2
<1> QED
  BY <1>4, <1>6, <1>7, <1>8 DEF CheckoutInv

\* The lock keeps every other checkout out, and nothing could be paid when
\* this one looked: its session is the only one.
LEMMA CreateSessionStep ==
  ASSUME CheckoutInv, NEW r \in Request, CreateSession(r)
  PROVE  CheckoutInv'
<1> DEFINE s == [id |-> r, customer |-> local[r].customer]
           l == local[r]
<1>1. pc[r] = "session.create" /\ local[r] \in CheckoutLocal /\ local[r].op = "checkout"
      /\ local[r].customer \in Request
      /\ open' = open \union {s} /\ Goto(r, "checkout.release")
      /\ UNCHANGED <<lock, row, customers, paid, checkoutHistory>>
  BY UnderWay DEF CreateSession, Knows
<1>2. CheckoutRequests' /\ Moves(r, l, "checkout.release")
  BY <1>1, CheckoutGotoOK DEF CheckoutInv, Knows, CheckoutSteps
<1>3. s \in Session /\ s.id = r /\ s.customer = l.customer /\ s \notin paid
  <2>1. s \in Session /\ s.id = r /\ s.customer = l.customer
    BY <1>1 DEF Session
  <2> HIDE DEF s
  <2> QED
    BY <1>1, <2>1 DEF CheckoutInv, CheckoutRows
<1> HIDE DEF s
<1>4. CheckoutRows'
  <2>1. \A t \in open \union paid : t.id \in Request
    BY DEF CheckoutInv, CheckoutRows, Session
  <2>2. \A t \in open' \union paid' : pc'[t.id] \in {"checkout.release", "done", "failed"}
    BY <1>1, <1>2, <1>3, <2>1 DEF CheckoutInv, CheckoutRows, Moves
  <2> QED
    BY <1>1, <1>3, <2>2 DEF CheckoutInv, CheckoutRows, Id, SubscriptionRow, Session, CheckoutHistory
<1>5. SolePurchase'
  <2>1. CASE checkoutHistory.outstanding \/ checkoutHistory.freed
    BY <1>1, <2>1 DEF SolePurchase
  <2>2. CASE ~ (checkoutHistory.outstanding \/ checkoutHistory.freed)
    <3>1. Buys(r) /\ Chooses(r)
      BY <1>1 DEF Buys, Chooses
    <3>2. open = {} /\ paid = {} /\ lock = r
      BY <2>2, <3>1 DEF CheckoutInv, SolePurchase
    <3>3. \A q \in Request : Buys(q) => q = r
      BY <2>2, <3>2 DEF CheckoutInv, SolePurchase
    <3>4. \A q \in Request : Buys(q)' => q = r
      BY <1>2, <3>3 DEF Moves, Buys
    <3>5. ~ Chooses(r)'
      BY <1>2 DEF Moves, Chooses
    <3>6. \A q \in Request : ~ Chooses(q)'
      BY <3>4, <3>5 DEF Chooses
    <3> QED
      BY <1>1, <3>2, <3>4, <3>6 DEF SolePurchase
  <2> QED
    BY <2>1, <2>2
<1>6. SoleCustomer'
  <2>1. CASE checkoutHistory.twice
    BY <1>1, <2>1 DEF SoleCustomer
  <2>2. CASE ~ checkoutHistory.twice
    <3>1. s.customer = row.customer /\ row.customer # NoOne
      BY <1>1, <1>3, <2>2 DEF SoleCustomer, CheckoutInv, Uses
    <3>2. \A q \in Request : ~ Makes(q)'
      BY <1>2, <2>2, <3>1 DEF SoleCustomer, CheckoutInv, Makes, Moves
    <3>3. \A q \in Request : Uses(q)' => Uses(q) /\ local'[q] = local[q]
      BY <1>2 DEF Moves, Uses
    <3> QED
      BY <1>1, <2>2, <3>1, <3>2, <3>3 DEF SoleCustomer, CheckoutInv
  <2> QED
    BY <2>1, <2>2
<1> QED
  BY <1>2, <1>4, <1>5, <1>6 DEF CheckoutInv

LEMMA CreatePortalStep ==
  ASSUME CheckoutInv, NEW r \in Request, CreatePortal(r)
  PROVE  CheckoutInv'
<1>1. pc[r] = "portal.create" /\ UNCHANGED <<lock, row, customers, open, paid, checkoutHistory>>
  BY DEF CreatePortal
<1>2. CheckoutRequests' /\ Moves(r, Nothing, "done")
  BY CheckoutReturnOK DEF CreatePortal, CheckoutInv
<1>3. CheckoutRows' /\ SolePurchase' /\ SoleCustomer'
  <2>1. CheckoutRows'
    BY <1>1, <1>2, RowsKept DEF CheckoutInv, CheckoutRows
  <2>2. SolePurchase'
    BY <1>1, <1>2, BuyersKept, SolePurchaseKept DEF CheckoutInv, Recorded
  <2>3. SoleCustomer'
    BY <1>1, <1>2, SoleCustomerKept DEF CheckoutInv, Moves, Makes, Uses, Recorded
  <2> QED
    BY <2>1, <2>2, <2>3
<1> QED
  BY <1>2, <1>3 DEF CheckoutInv

--------------------------------------------------------------------------
\* Whoever buys holds the lock, so that the lock of nobody who buys can be
\* given up.
LEMMA LockGone ==
  ASSUME SolePurchase, lock' = NoOne, NEW stays \in SUBSET Request,
         \A r \in Request : (Buys(r)' => Buys(r) /\ r \in stays) /\ (Chooses(r)' => Chooses(r)),
         open' \union paid' \subseteq open \union paid,
         Recorded("outstanding"), Recorded("freed"),
         lock \in stays /\ Buys(lock) => checkoutHistory'.freed
  PROVE  SolePurchase'
<1>1. CASE checkoutHistory'.outstanding \/ checkoutHistory'.freed
  BY <1>1 DEF SolePurchase
<1>2. CASE ~ (checkoutHistory'.outstanding \/ checkoutHistory'.freed)
  <2>1. ~ checkoutHistory.outstanding /\ ~ checkoutHistory.freed
    BY <1>2 DEF Recorded
  <2>2. \A r \in Request : ~ Buys(r)'
    BY <1>2, <2>1 DEF SolePurchase
  <2>3. \A r \in Request : ~ Chooses(r)'
    BY <2>2 DEF Chooses
  <2>4. \A s \in open' \union paid', t \in open' \union paid' : s = t
    BY <2>1 DEF SolePurchase
  <2> QED
    BY <2>2, <2>3, <2>4 DEF SolePurchase
<1> QED
  BY <1>1, <1>2

LEMMA ReleaseStep ==
  ASSUME CheckoutInv, NEW r \in Request, ReleaseLock(r)
  PROVE  CheckoutInv'
<1>1. pc[r] = "checkout.release" /\ local[r].op = "checkout" /\ UNCHANGED <<row, customers, open, paid>>
  BY UnderWay DEF ReleaseLock, Knows
<1>2. CheckoutRequests' /\ Moves(r, Nothing, "done")
  BY CheckoutReturnOK DEF ReleaseLock, CheckoutInv
<1>3. \A q \in Request : (Buys(q)' => Buys(q) /\ q # r) /\ (Chooses(q)' => Chooses(q))
  BY <1>2 DEF Moves, Buys, Chooses
<1>4. CASE UNCHANGED <<lock, checkoutHistory>>
  <2>1. CheckoutRows' /\ SolePurchase' /\ Recorded("twice")
    BY <1>1, <1>2, <1>3, <1>4, RowsKept, SolePurchaseKept DEF CheckoutInv, CheckoutRows, Recorded
  <2>2. SoleCustomer'
    BY <1>1, <1>2, <2>1, SoleCustomerKept DEF CheckoutInv, Moves, Makes, Uses
  <2> QED
    BY <1>2, <2>1, <2>2 DEF CheckoutInv
<1>5. CASE lock' = NoOne /\ checkoutHistory' = Happened("freed", lock \notin {r, NoOne})
  <2> DEFINE now == lock \notin {r, NoOne}
  <2>1. /\ checkoutHistory' \in CheckoutHistory
        /\ checkoutHistory'["freed"] <=> (checkoutHistory["freed"] \/ now)
        /\ checkoutHistory'["twice"] = checkoutHistory["twice"]
        /\ checkoutHistory'["outstanding"] = checkoutHistory["outstanding"]
    <3>1. now \in BOOLEAN /\ checkoutHistory' = Happened("freed", now)
      BY <1>5
    <3> HIDE DEF now
    <3> QED
      BY <3>1, UnderWay, HappenedOK
  <2>2. CheckoutRows'
    BY <1>1, <1>2, <1>5, <2>1, RowsKept DEF CheckoutInv, Id
  <2>3. SolePurchase'
    <3> DEFINE stays == Request \ {r}
    <3>1. lock \in stays => now
      BY NoOneAssumption
    <3>2. stays \in SUBSET Request /\ \A q \in Request : Buys(q)' => Buys(q) /\ q \in stays
      BY <1>3
    <3> HIDE DEF stays, now
    <3> QED
      BY <1>1, <1>3, <1>5, <2>1, <3>1, <3>2, LockGone DEF CheckoutInv, Recorded
  <2>4. SoleCustomer'
    BY <1>1, <1>2, <2>1, SoleCustomerKept DEF CheckoutInv, Moves, Makes, Uses, Recorded
  <2> QED
    BY <1>2, <2>2, <2>3, <2>4 DEF CheckoutInv
<1> QED
  BY <1>4, <1>5 DEF ReleaseLock

\* A failure between the creation of a customer and its storage is noted.
LEMMA ThrowStep ==
  ASSUME CheckoutInv, NEW r \in Request, CheckoutThrows(r) \/ FailCheckout(r)
  PROVE  CheckoutInv'
<1> DEFINE now == pc[r] = "customer.set"
<1>1. ~ Idle(r) /\ local[r] \in CheckoutLocal /\ UNCHANGED <<lock, row, customers, open, paid>>
  BY UnderWay DEF CheckoutThrows, FailCheckout, Stop, Idle, Ended, Knows
<1>2. PICK s \in {"checkout.release", "failed"}, l \in Locals :
        /\ CheckoutRequests' /\ Moves(r, l, s)
        /\ s = "failed" \/ (pc[r] \notin {"new", "checkout.release", "done", "failed"} /\ l = local[r] /\ Buys(r))
  <2>1. CASE Return(r, "failed")
    BY <2>1, CheckoutReturnOK DEF CheckoutInv, Locals
  <2>2. CASE ~ Return(r, "failed")
    <3>1. /\ Goto(r, "checkout.release") /\ local[r].op = "checkout"
          /\ pc[r] \notin {"new", "checkout.release", "done", "failed"}
      BY <2>2 DEF CheckoutThrows, FailCheckout, Stop
    <3>2. CheckoutRequests' /\ Moves(r, local[r], "checkout.release")
      BY <1>1, <3>1, CheckoutGotoOK DEF CheckoutInv, Knows, CheckoutSteps
    <3> QED
      BY <1>1, <3>1, <3>2 DEF Locals, Buys
  <2> QED
    BY <2>1, <2>2
<1>3. /\ checkoutHistory' \in CheckoutHistory
      /\ checkoutHistory'["twice"] <=> (checkoutHistory["twice"] \/ now)
      /\ checkoutHistory'["freed"] = checkoutHistory["freed"]
      /\ checkoutHistory'["outstanding"] = checkoutHistory["outstanding"]
  <2>1. checkoutHistory' = Happened("twice", now) /\ now \in BOOLEAN
    BY DEF CheckoutThrows, FailCheckout
  <2> HIDE DEF now
  <2> QED
    BY <2>1, UnderWay, HappenedOK
<1>4. CheckoutRows'
  BY <1>1, <1>2, <1>3, RowsKept DEF CheckoutInv, CheckoutRows
<1>5. SolePurchase'
  BY <1>1, <1>2, <1>3, BuyersKept, SolePurchaseKept DEF CheckoutInv, Recorded
<1>6. SoleCustomer'
  <2>1. \A q \in Request : Makes(q)' => pc'[q] = pc[q]
    BY <1>2 DEF Moves, Makes
  <2>2. \A q \in Request : Uses(q)' => Uses(q) /\ local'[q] = local[q]
    BY <1>2 DEF Moves, Uses
  <2>3. checkoutHistory'.twice \/ \A q \in Request : pc[q] = "customer.set" => pc'[q] = pc[q]
    BY <1>2, <1>3 DEF Moves
  <2> QED
    BY <1>1, <1>3, <2>1, <2>2, <2>3, SoleCustomerKept DEF CheckoutInv, Recorded
<1> QED
  BY <1>2, <1>4, <1>5, <1>6 DEF CheckoutInv

\* No request moves: the lock runs out, or a webhook deletes it.
LEMMA FreedOK ==
  ASSUME CheckoutInv, lock' = NoOne, UNCHANGED <<pc, local, open, paid>>,
         checkoutHistory' = Happened("freed", lock \in Buying)
  PROVE  /\ checkoutHistory' \in CheckoutHistory /\ Recorded("twice")
         /\ checkoutHistory'["twice"] => checkoutHistory["twice"]
         /\ SolePurchase'
<1> DEFINE now == lock \in Buying
<1>1. /\ checkoutHistory' \in CheckoutHistory
      /\ checkoutHistory'["freed"] <=> (checkoutHistory["freed"] \/ now)
      /\ checkoutHistory'["twice"] = checkoutHistory["twice"]
      /\ checkoutHistory'["outstanding"] = checkoutHistory["outstanding"]
  <2>1. checkoutHistory' = Happened("freed", now) /\ now \in BOOLEAN
    OBVIOUS
  <2>2. checkoutHistory \in CheckoutHistory
    BY DEF CheckoutInv, CheckoutRows
  <2> HIDE DEF now
  <2> QED
    BY <2>1, <2>2, HappenedOK
<1>2. \A r \in Request : (Buys(r)' => Buys(r) /\ r \in Request) /\ (Chooses(r)' => Chooses(r))
  BY DEF Buys, Chooses
<1>3. lock \in Request /\ Buys(lock) => now
  BY DEF Buying, Buys, Idle, Ended
<1> HIDE DEF now
<1>4. Recorded("outstanding") /\ Recorded("freed")
  BY <1>1 DEF Recorded
<1>5. Request \in SUBSET Request
  OBVIOUS
<1>6. SolePurchase
  BY DEF CheckoutInv
<1>7. open' \union paid' \subseteq open \union paid
  OBVIOUS
<1>8. lock \in Request /\ Buys(lock) => checkoutHistory'.freed
  BY <1>1, <1>3
<1>9. SolePurchase'
  BY <1>2, <1>4, <1>5, <1>6, <1>7, <1>8, LockGone
<1> QED
  BY <1>1, <1>9 DEF Recorded

LEMMA LockExpiresStep ==
  ASSUME CheckoutInv, LockExpires
  PROVE  CheckoutInv'
<1>1. lock' = NoOne /\ UNCHANGED <<row, customers, open, paid, pc, local>>
      /\ checkoutHistory' = Happened("freed", lock \in Buying)
  BY DEF LockExpires
<1>2. checkoutHistory' \in CheckoutHistory /\ Recorded("twice") /\ SolePurchase'
  BY <1>1, FreedOK
<1>3. CheckoutRequests' /\ CheckoutRows'
  BY <1>1, <1>2, CheckoutRequestsUnchanged
  DEF CheckoutInv, CheckoutRows, Id, SubscriptionRow, Session, CheckoutHistory
<1>4. SoleCustomer'
  BY <1>1, <1>2, SoleCustomerKept DEF CheckoutInv, Makes, Uses
<1> QED
  BY <1>2, <1>3, <1>4 DEF CheckoutInv

LEMMA CompletedStep ==
  ASSUME CheckoutInv, NEW s \in paid, CheckoutCompleted(s)
  PROVE  CheckoutInv'
<1>1. lock' = NoOne /\ UNCHANGED <<customers, open, paid, pc, local>>
      /\ row' = [customer |-> s.customer, sub |-> s.id]
      /\ checkoutHistory' = Happened("freed", lock \in Buying)
  BY DEF CheckoutCompleted
<1>2. checkoutHistory' \in CheckoutHistory /\ Recorded("twice") /\ SolePurchase'
      /\ (checkoutHistory'["twice"] => checkoutHistory["twice"])
  BY <1>1, FreedOK
<1>3. s.customer \in Request /\ s.id \in Request
  BY DEF CheckoutInv, CheckoutRows, Session
<1>4. CheckoutRequests' /\ CheckoutRows'
  BY <1>1, <1>2, <1>3, CheckoutRequestsUnchanged
  DEF CheckoutInv, CheckoutRows, Id, SubscriptionRow, Session, CheckoutHistory
<1>5. SoleCustomer'
  <2>1. CASE checkoutHistory.twice
    BY <1>2, <2>1 DEF SoleCustomer, Recorded
  <2>2. CASE ~ checkoutHistory.twice
    <3>1. row'.customer = row.customer
      BY <1>1, <2>2 DEF CheckoutInv, SoleCustomer
    <3> QED
      BY <1>1, <1>2, <3>1, SoleCustomerKept DEF CheckoutInv, Makes, Uses
  <2> QED
    BY <2>1, <2>2
<1> QED
  BY <1>2, <1>4, <1>5 DEF CheckoutInv

\* A session is paid, expires or ends: no new one, and none is in two states.
LEMMA SessionStep ==
  ASSUME CheckoutInv,
         NEW s, \/ s \in open /\ (Pay(s) \/ SessionExpires(s))
                \/ s \in paid /\ SubscriptionEnds(s)
  PROVE  CheckoutInv'
<1>1. UNCHANGED <<lock, customers, pc, local, checkoutHistory>>
      /\ open' \union paid' \subseteq open \union paid /\ open' \intersect paid' = {}
  BY DEF Pay, SessionExpires, SubscriptionEnds, CheckoutInv, CheckoutRows
<1>2. row' \in SubscriptionRow /\ row'.customer = row.customer
  BY DEF Pay, SessionExpires, SubscriptionEnds, CheckoutInv, CheckoutRows, SubscriptionRow, Id
<1>3. CheckoutRequests' /\ CheckoutRows'
  BY <1>1, <1>2, CheckoutRequestsUnchanged
  DEF CheckoutInv, CheckoutRows, Id, SubscriptionRow, Session, CheckoutHistory
<1>4. SolePurchase'
  BY <1>1, SolePurchaseKept DEF CheckoutInv, Buys, Chooses, Recorded
<1>5. SoleCustomer'
  BY <1>1, <1>2, SoleCustomerKept DEF CheckoutInv, Makes, Uses, Recorded
<1> QED
  BY <1>3, <1>4, <1>5 DEF CheckoutInv

LEMMA CheckoutInvariant == CheckoutSpec => []CheckoutInv
<1>1. CheckoutInit => CheckoutInv
  <2> SUFFICES ASSUME CheckoutInit
               PROVE  CheckoutInv
    OBVIOUS
  <2>1. \A r \in Request : pc[r] = "new" /\ local[r] = Nothing
    BY DEF CheckoutInit, HandlersInit
  <2>2. CheckoutRequests
    BY <2>1 DEF CheckoutInit, HandlersInit, CheckoutRequests, CheckoutSteps, Locals, Knows
  <2>3. row \in SubscriptionRow /\ checkoutHistory \in CheckoutHistory /\ row.customer = NoOne
    BY DEF CheckoutInit, SubscriptionRow, Id, CheckoutHistory
  <2>4. CheckoutRows
    BY <2>3 DEF CheckoutInit, CheckoutRows, Id
  <2>5. SolePurchase /\ SoleCustomer
    BY <2>1, <2>3 DEF CheckoutInit, SolePurchase, SoleCustomer, Buys, Chooses, Makes, Uses
  <2> QED
    BY <2>2, <2>4, <2>5 DEF CheckoutInv
<1>2. CheckoutInv /\ [CheckoutNext]_checkoutVars => CheckoutInv'
  <2> SUFFICES ASSUME CheckoutInv, [CheckoutNext]_checkoutVars
               PROVE  CheckoutInv'
    OBVIOUS
  <2>1. CASE UNCHANGED checkoutVars
    <3>1. UNCHANGED <<lock, row, customers, open, paid, checkoutHistory, pc, local>>
      BY <2>1 DEF checkoutVars, checkoutState
    <3>2. CheckoutRequests' /\ CheckoutRows'
      BY <3>1, CheckoutRequestsUnchanged
      DEF CheckoutInv, CheckoutRows, Id, SubscriptionRow, Session, CheckoutHistory
    <3>3. SolePurchase' /\ SoleCustomer'
      BY <3>1 DEF CheckoutInv, SolePurchase, SoleCustomer, Buys, Chooses, Makes, Uses
    <3> QED
      BY <3>2, <3>3 DEF CheckoutInv
  <2>2. ASSUME NEW r \in Request, CheckoutRequest(r)
        PROVE  CheckoutInv'
    BY <2>2, AcquireStep, CheckStep, PortalStep, FindStep, CreateCustomerStep, SetCustomerStep,
       CreateSessionStep, CreatePortalStep, ReleaseStep, ThrowStep DEF CheckoutRequest
  <2> QED
    BY <2>1, <2>2, LockExpiresStep, CompletedStep, SessionStep DEF CheckoutNext
<1> QED
  BY <1>1, <1>2, PTL DEF CheckoutSpec

\* Every reachable state of the checkout has the types of CheckoutTypeOK; no
\* session can be paid twice.
THEOREM CheckoutTypeCorrect == CheckoutSpec => []CheckoutTypeOK
<1>1. CheckoutInv => CheckoutTypeOK
  BY DEF CheckoutInv, CheckoutRequests, CheckoutRows, CheckoutTypeOK, CheckoutSteps, Locals
<1> QED
  BY <1>1, CheckoutInvariant, PTL

\* The lock of createCheckoutSession and the look at the row keep a workspace
\* from two live subscriptions, unless a checkout was started while an earlier
\* session could be paid or its webhook was missing, or the lock was lost.
THEOREM ChargedOnceHolds == CheckoutSpec => []ChargedOnce
<1>1. CheckoutInv => ChargedOnce
  <2> SUFFICES ASSUME CheckoutInv, ~ (checkoutHistory.outstanding \/ checkoutHistory.freed)
               PROVE  Cardinality(paid) \in {0, 1}
    BY DEF ChargedOnce
  <2>1. CASE paid = {}
    BY <2>1, FS_EmptySet
  <2>2. CASE paid # {}
    <3>1. PICK s \in paid : paid = {s}
      BY <2>2 DEF CheckoutInv, SolePurchase
    <3> QED
      BY <3>1, FS_Singleton
  <2> QED
    BY <2>1, <2>2
<1> QED
  BY <1>1, CheckoutInvariant, PTL

\* ensureStripeCustomer makes one customer for the workspace, and every
\* session is for it, unless two requests made it at once or one stopped
\* between making it and storing it.
THEOREM OneCustomerHolds == CheckoutSpec => []OneCustomer
<1>1. CheckoutInv => OneCustomer
  <2> SUFFICES ASSUME CheckoutInv, ~ checkoutHistory.twice
               PROVE  /\ Cardinality(customers) <= 1
                      /\ \A r \in Request :
                           pc[r] \in {"session.create", "portal.create"} => customers = {row.customer}
                      /\ \A s \in open \union paid : s.customer = row.customer
    BY DEF OneCustomer
  <2>1. customers = {} \/ \E c \in customers : customers = {c}
    <3>1. CASE row.customer # NoOne
      BY <3>1 DEF CheckoutInv, SoleCustomer
    <3>2. CASE row.customer = NoOne /\ customers # {}
      <4>1. PICK r \in Request : pc[r] = "customer.set"
        BY <3>2 DEF CheckoutInv, SoleCustomer
      <4> QED
        BY <4>1 DEF CheckoutInv, SoleCustomer, Makes
    <3> QED
      BY <3>1, <3>2
  <2>2. Cardinality(customers) <= 1
    BY <2>1, FS_EmptySet, FS_Singleton
  <2> QED
    BY <2>2 DEF CheckoutInv, SoleCustomer, Uses
<1> QED
  BY <1>1, CheckoutInvariant, PTL
============================================================================
