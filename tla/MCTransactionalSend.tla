----------------------- MODULE MCTransactionalSend -----------------------
(* TransactionalSend on small sets of requests and bodies. *)
EXTENDS TransactionalSend, TLC

\* Requests and bodies are interchangeable.
Symmetric == Permutations(Request) \union Permutations(Body)
==========================================================================
