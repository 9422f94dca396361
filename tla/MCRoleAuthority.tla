-------------------------- MODULE MCRoleAuthority --------------------------
(* Menus, sessions and threads are interchangeable; roles are not. *)
EXTENDS RoleAuthority, TLC

Symmetric == Permutations(Menus) \cup Permutations(Sessions)
                 \cup Permutations(Requests)
=============================================================================
