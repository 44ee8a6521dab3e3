---------------------------- MODULE MCSessions ----------------------------
(* Model values for the runs of Sessions; requests are interchangeable. *)
EXTENDS Sessions, TLC

Symmetric == Permutations(Request)
==========================================================================
