----------------------------- MODULE Handlers ------------------------------
(***************************************************************************)
(* What the service modules share.  A handler is an async function of one  *)
(* HTTP request, cut at its awaits: pc[r] is the await request r stands    *)
(* at, local[r] what it holds across its awaits.  A handler of one step    *)
(* takes no request.  Each module adds a history, observed and never read  *)
(* by the code: what went wrong so far, for the properties.                *)
(***************************************************************************)
CONSTANTS
  Request,   \* HTTP requests, each made once
  Faults     \* "outage": Redis, NATS, Stripe or SES fails
             \* "crash": a process stops, or a database call throws

ASSUME FaultsAssumption == Faults \subseteq {"outage", "crash"}

VARIABLES pc, local

Nothing == [op |-> "none"]

HandlersInit ==
  /\ pc = [r \in Request |-> "new"]
  /\ local = [r \in Request |-> Nothing]

Goto(r, s) == pc' = [pc EXCEPT ![r] = s] /\ UNCHANGED local
Go(r, l, s) == pc' = [pc EXCEPT ![r] = s] /\ local' = [local EXCEPT ![r] = l]
Return(r, outcome) == Go(r, Nothing, outcome)

Ended(r) == pc[r] \in {"done", "failed"}
Idle(r) == pc[r] = "new" \/ Ended(r)

\* A handler that fails at an await; its later steps do not happen.
Stop(r) == "crash" \in Faults /\ ~ Idle(r) /\ Return(r, "failed")
==========================================================================
