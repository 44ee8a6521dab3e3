------------------------ MODULE MCStripeWebhooks ------------------------
(* Model values for the runs of StripeWebhooks. *)
EXTENDS StripeWebhooks, TLC

Symmetric == Permutations(Handler) \union Permutations(Plan)
==========================================================================
