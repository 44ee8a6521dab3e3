------------------------ MODULE CampaignLifecycle ------------------------
(***************************************************************************)
(* What the campaign API promises about one campaign, with every request   *)
(* taken as a single step: the status machine drawn above CAMPAIGN_STATUS  *)
(* in schema/campaigns.ts, completed with the moves the documentation of   *)
(* the endpoints adds to it (reschedule, resume to draft, the rollback of  *)
(* a send whose job could not be queued).                                  *)
(*                                                                         *)
(*  - a campaign is sent or failed only after a job for it was announced   *)
(*    to the delivery worker, and a job is announced only once the         *)
(*    campaign was started;                                                *)
(*  - sent and failed are left only by deletion, deletion is final;        *)
(*  - a draft is never paused.                                             *)
(***************************************************************************)

CONSTANT Campaign

VARIABLES
  status,     \* status[c], the row's status ("absent" before the insert)
  started,    \* campaigns that were sending at least once
  announced   \* campaigns a send job was published for

lifecycleVars == <<status, started, announced>>

Open == {"draft", "scheduled", "paused"}
Final == {"sent", "failed"}
Live == Open \union Final \union {"sending"}

Init ==
  /\ status = [c \in Campaign |-> "absent"]
  /\ started = {}
  /\ announced = {}

Goes(c, s) ==
  /\ status' = [status EXCEPT ![c] = s]
  /\ UNCHANGED <<started, announced>>

Create(c) == status[c] = "absent" /\ Goes(c, "draft")

\* Plans and rollbacks: back to an open status without having finished.
Reopen(c) ==
  /\ status[c] \in Open \union {"sending"}
  /\ \E s \in {"draft", "scheduled"} : Goes(c, s)

Hold(c) == status[c] \in {"scheduled", "sending"} /\ Goes(c, "paused")

Launch(c) ==
  /\ status[c] \in Open
  /\ status' = [status EXCEPT ![c] = "sending"]
  /\ started' = started \union {c}
  /\ UNCHANGED announced

Announce(c) ==
  /\ c \in started
  /\ announced' = announced \union {c}
  /\ UNCHANGED <<status, started>>

Finish(c) ==
  /\ status[c] = "sending"
  /\ c \in announced
  /\ \E s \in Final : Goes(c, s)

Discard(c) == status[c] \in Live /\ Goes(c, "cancelled")

Next ==
  \E c \in Campaign :
    \/ Create(c) \/ Reopen(c) \/ Hold(c) \/ Launch(c)
    \/ Announce(c) \/ Finish(c) \/ Discard(c)

Spec == Init /\ [][Next]_lifecycleVars
==========================================================================
