------------------------------- MODULE Tables -------------------------------
(***************************************************************************)
(* A database table, as every module of this project uses it: a function   *)
(* from the primary keys of its stored rows to the rows.  The mappers of    *)
(* the repository reach a row only by primary key, one statement at a time; *)
(* each statement is one of the three operators below.  The mapper library  *)
(* itself (tk.mybatis over MySQL) is not in the repository: the operators   *)
(* are what the callers rely on.                                            *)
(***************************************************************************)

\* mapper.insert(row): the row is stored under a key that holds none.
Insert(table, id, row) ==
    [k \in DOMAIN table \cup {id} |-> IF k = id THEN row ELSE table[k]]

\* mapper.deleteByPrimaryKey(id): no error, and no effect, without a row.
Delete(table, id) == [k \in DOMAIN table \ {id} |-> table[k]]

\* mapper.updateByPrimaryKey(row): no error, and no effect, without a row.
Update(table, id, row) ==
    [k \in DOMAIN table |-> IF k = id THEN row ELSE table[k]]

\* The table every installation starts from, in a bounded model.
EmptyTable == [k \in {} |-> k]

\* A table whose keys are among ids and whose rows are in rows.
IsTable(table, ids, rows) ==
    /\ DOMAIN table \subseteq ids
    /\ table \in [DOMAIN table -> rows]
=============================================================================
