--------------------------- MODULE MCAdminWindow ---------------------------
(* Roles are interchangeable and so are names; pages and ids are not. *)
EXTENDS AdminWindow, TLC

Symmetric == Permutations(Roles) \cup Permutations(Names)
=============================================================================
