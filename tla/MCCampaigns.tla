--------------------------- MODULE MCCampaigns ---------------------------
(* Instances of Campaigns for TLC.  Requests are interchangeable, and so   *)
(* are campaigns: no property names one.                                   *)
EXTENDS Campaigns, TLC

Symmetric == Permutations(Request) \union Permutations(Campaign)
==========================================================================
