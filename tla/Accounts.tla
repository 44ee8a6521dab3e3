------------------------------ MODULE Accounts -----------------------------
(***************************************************************************)
(* One account, by its email: signup, verification of the email, links     *)
(* that reset the password, and the count of failed logins that locks the  *)
(* account (AuthService).  The sessions that logins open and resets end    *)
(* are in Sessions; whether a login has the right password is its input.   *)
(***************************************************************************)
EXTENDS Handlers, Naturals, FiniteSets

CONSTANT MaxAttempts   \* ACCOUNT_LOCKOUT_MAX_ATTEMPTS

ASSUME AttemptsAssumption == MaxAttempts \in Nat \ {0}

VARIABLES
  account,   \* the users row
  links,     \* links[r], the one-time token that request r has issued
  accountHistory

accountState == <<account, links, accountHistory>>
accountVars == <<accountState, pc, local>>

\* window: of failed_login_window_start, whether it is older than the window.
Account ==
  [exists: BOOLEAN, workspaces: Nat, verified: BOOLEAN,
   attempts: 0 .. MaxAttempts - 1, window: {"none", "open", "aged"}, locked: BOOLEAN]

Link == [kind: {"none", "verify", "reset"}, usable: BOOLEAN, era: Nat]
NoLink == [kind |-> "none", usable |-> FALSE, era |-> 0]

\* count, window: what the failed login's subquery has computed; seen: the
\* row it read.
AccountLocal ==
  [op: {"signup", "login"}] \union
  [op: {"failure"}, count: 1 .. MaxAttempts, window: {"open"}, seen: Account]

\* era: password resets so far; streak: failed logins since the last reset,
\* success, lock or lapse of the window; lockedBy: the streak that set the
\* lock; overlapped: a failed login was counted on a row that had changed.
AccountHistory == [era: Nat, streak: Nat, lockedBy: Nat, overlapped: BOOLEAN]

AccountInit ==
  /\ HandlersInit
  /\ account = [exists |-> FALSE, workspaces |-> 0, verified |-> FALSE,
                attempts |-> 0, window |-> "none", locked |-> FALSE]
  /\ links = [r \in Request |-> NoLink]
  /\ accountHistory = [era |-> 0, streak |-> 0, lockedBy |-> MaxAttempts, overlapped |-> FALSE]

Issue(r, kind) == links' = [links EXCEPT ![r] = [kind |-> kind, usable |-> TRUE, era |-> accountHistory.era]]
Usable(t, kind) == links[t].usable /\ links[t].kind = kind
Cleared == [account EXCEPT !.attempts = 0, !.window = "none", !.locked = FALSE]

--------------------------------------------------------------------------
(* signup, verifyEmail, resendVerification *)

SignupCheck(r) ==
  /\ pc[r] = "new"
  /\ ~ account.exists
  /\ Go(r, [op |-> "signup"], "signup.insert")
  /\ UNCHANGED <<account, links, accountHistory>>

\* User, workspace and membership in one transaction; the unique index on
\* the email stops the second of two.
SignupInsert(r) ==
  /\ pc[r] = "signup.insert"
  /\ IF account.exists
     THEN UNCHANGED account /\ Return(r, "failed")
     ELSE /\ account' = [account EXCEPT !.exists = TRUE, !.workspaces = @ + 1]
          /\ Goto(r, "signup.verify")
  /\ UNCHANGED <<links, accountHistory>>

\* issueEmailVerification; its failure is swallowed.
SignupVerify(r) ==
  /\ pc[r] = "signup.verify"
  /\ Issue(r, "verify") \/ (Faults # {} /\ UNCHANGED links)
  /\ Return(r, "done")
  /\ UNCHANGED <<account, accountHistory>>

ResendVerification(r) ==
  /\ pc[r] = "new"
  /\ account.exists /\ ~ account.verified
  /\ Issue(r, "verify")
  /\ Return(r, "done")
  /\ UNCHANGED <<account, accountHistory>>

\* The other links stay usable: they verify the same email.
VerifyEmail(t) ==
  /\ Usable(t, "verify")
  /\ account' = [account EXCEPT !.verified = TRUE]
  /\ links' = [links EXCEPT ![t].usable = FALSE]
  /\ UNCHANGED <<accountHistory, pc, local>>

--------------------------------------------------------------------------
(* forgotPassword, resetPassword *)

ForgotPassword(r) ==
  /\ pc[r] = "new"
  /\ account.exists
  /\ Issue(r, "reset")
  /\ Return(r, "done")
  /\ UNCHANGED <<account, accountHistory>>

\* Mutant of ResetPassword: only the presented token is consumed.
ResetPassword_OneLink(t) ==
  /\ Usable(t, "reset")
  /\ account' = Cleared
  /\ links' = [links EXCEPT ![t].usable = FALSE]
  /\ accountHistory' = [accountHistory EXCEPT !.era = @ + 1, !.streak = 0]
  /\ UNCHANGED <<pc, local>>

\* One transaction, from the token FOR UPDATE on: of two links of one
\* account used at once, one finds itself consumed or is the deadlock victim.
ResetPassword(t) ==
  /\ Usable(t, "reset")
  /\ account' = Cleared
  /\ links' = [s \in Request |->
                IF links[s].kind = "reset" THEN [links[s] EXCEPT !.usable = FALSE] ELSE links[s]]
  /\ accountHistory' = [accountHistory EXCEPT !.era = @ + 1, !.streak = 0]
  /\ UNCHANGED <<pc, local>>

LinkExpires(t) ==
  /\ links[t].usable
  /\ links' = [links EXCEPT ![t].usable = FALSE]
  /\ UNCHANGED <<account, pc, local, accountHistory>>

--------------------------------------------------------------------------
(* login: a locked account is refused before the password is compared.      *)

LoginRead(r, right) ==
  /\ pc[r] = "new"
  /\ account.exists /\ ~ account.locked
  /\ Go(r, [op |-> "login"], IF right THEN "login.success" ELSE "login.failure")
  /\ UNCHANGED <<account, links, accountHistory>>

\* Also a lock that was set since the account was read.
LoginSuccess(r) ==
  /\ pc[r] = "login.success"
  /\ account' = Cleared
  /\ accountHistory' = [accountHistory EXCEPT !.streak = 0]
  /\ Return(r, "done")
  /\ UNCHANGED links

\* recordFailedLogin is one statement, but its CTE reads the row without a
\* lock: an update that had to wait for another still writes what it read.
FailureRead(r) ==
  /\ pc[r] = "login.failure"
  /\ Go(r, [op |-> "failure", seen |-> account, window |-> "open",
            count |-> IF account.window = "open" THEN account.attempts + 1 ELSE 1],
        "failure.write")
  /\ UNCHANGED <<account, links, accountHistory>>

\* Mutant of FailureWrite: one attempt too many.
FailureWrite_OffByOne(r) ==
  LET l == local[r]
      lock == l.count > MaxAttempts
  IN
  /\ pc[r] = "failure.write"
  /\ account' = [account EXCEPT !.attempts = IF lock THEN 0 ELSE l.count,
                                !.window = IF lock THEN "none" ELSE l.window,
                                !.locked = @ \/ lock]
  /\ accountHistory' = [accountHistory EXCEPT !.streak = IF lock THEN 0 ELSE @ + 1,
                                !.lockedBy = IF lock THEN accountHistory.streak + 1 ELSE @,
                                !.overlapped = @ \/ account # l.seen]
  /\ Return(r, "done")
  /\ UNCHANGED links

FailureWrite(r) ==
  LET l == local[r]
      lock == l.count >= MaxAttempts
  IN
  /\ pc[r] = "failure.write"
  /\ account' = [account EXCEPT !.attempts = IF lock THEN 0 ELSE l.count,
                                !.window = IF lock THEN "none" ELSE l.window,
                                !.locked = @ \/ lock]
  /\ accountHistory' = [accountHistory EXCEPT !.streak = IF lock THEN 0 ELSE @ + 1,
                                !.lockedBy = IF lock THEN accountHistory.streak + 1 ELSE @,
                                !.overlapped = @ \/ account # l.seen]
  /\ Return(r, "done")
  /\ UNCHANGED links

\* The window, or the lock, is over.
WindowAges ==
  /\ account.window = "open"
  /\ account' = [account EXCEPT !.window = "aged"]
  /\ accountHistory' = [accountHistory EXCEPT !.streak = 0]
  /\ UNCHANGED <<links, pc, local>>

LockLapses ==
  /\ account.locked
  /\ account' = [account EXCEPT !.locked = FALSE]
  /\ UNCHANGED <<links, pc, local, accountHistory>>

FailAccount(r) == Stop(r) /\ UNCHANGED <<account, links, accountHistory>>

AccountRequest(r) ==
  \/ SignupCheck(r) \/ SignupInsert(r) \/ SignupVerify(r)
  \/ ResendVerification(r) \/ ForgotPassword(r)
  \/ \E right \in BOOLEAN : LoginRead(r, right)
  \/ LoginSuccess(r) \/ FailureRead(r) \/ FailureWrite(r)
  \/ FailAccount(r)

AccountNext ==
  \/ \E r \in Request : AccountRequest(r)
  \/ \E t \in Request : VerifyEmail(t) \/ ResetPassword(t) \/ LinkExpires(t)
  \/ WindowAges \/ LockLapses

AccountSpec == AccountInit /\ [][AccountNext]_accountVars

--------------------------------------------------------------------------
\* Types; an account has one workspace from its signup.
AccountTypeOK ==
  /\ account \in Account
  /\ account.workspaces = IF account.exists THEN 1 ELSE 0
  /\ links \in [Request -> Link]
  /\ pc \in [Request -> {"new", "signup.insert", "signup.verify", "login.success",
                         "login.failure", "failure.write", "done", "failed"}]
  /\ local \in [Request -> AccountLocal \union {Nothing}]
  /\ accountHistory \in AccountHistory

\* MaxAttempts failed logins within a window lock the account, and nothing
\* less does, unless a failed login was counted on a row that another request
\* or the clock had changed since the statement read it.
LockoutExact ==
  accountHistory.overlapped \/ (accountHistory.streak < MaxAttempts /\ accountHistory.lockedBy = MaxAttempts)

\* After a password reset no link from before it can set the password again.
OldLinksDead ==
  \A t \in Request : Usable(t, "reset") => links[t].era = accountHistory.era
==========================================================================
