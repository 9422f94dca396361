----------------------------- MODULE MCDeptTree -----------------------------
(* Departments and threads are interchangeable. *)
EXTENDS DeptTree, TLC

Symmetric == Permutations(Depts) \cup Permutations(Requests)
=============================================================================
