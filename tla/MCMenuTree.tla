----------------------------- MODULE MCMenuTree -----------------------------
(* Menus, codes, roles and threads are interchangeable. *)
EXTENDS MenuTree, TLC

Symmetric == Permutations(Menus) \cup Permutations(Codes)
                 \cup Permutations(Requests)
=============================================================================
