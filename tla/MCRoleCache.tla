---------------------------- MODULE MCRoleCache ----------------------------
(***************************************************************************)
(* Two requests of one user at a time.  The requests are interchangeable.  *)
(***************************************************************************)
EXTENDS RoleCache, TLC

CONSTANTS r1, r2, u, admin

\* A reload turns the cache off.
CachedThenNot == [e \in 0 .. 1 |-> 1 - e]

Symmetric == Permutations(Requests)
=============================================================================
