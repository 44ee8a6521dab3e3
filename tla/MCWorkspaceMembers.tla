----------------------- MODULE MCWorkspaceMembers ------------------------
(* WorkspaceMembers on small sets of users and requests. *)
EXTENDS WorkspaceMembers, TLC

\* Users and requests are interchangeable: Init allows every owner.
Symmetric == Permutations(User) \union Permutations(Request)
==========================================================================
