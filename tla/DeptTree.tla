------------------------------ MODULE DeptTree ------------------------------
(***************************************************************************)
(* The departments (DeptController, DeptServiceImpl).  Each row has its     *)
(* parent, pid, and the path to it, pids: the ids of all its ancestors, the *)
(* text "[0],[28],[30]," in the table, a sequence here.  What is below a    *)
(* department is found by its id in the paths of the others, by deletion    *)
(* and by the data scope of users alike.                                    *)
(*                                                                          *)
(* Adding or updating below a parent reads the parent's path in one         *)
(* statement and writes the row in another; a deletion finds the rows in    *)
(* one and deletes them in a transaction that ends with its commit.         *)
(***************************************************************************)
EXTENDS Integers, Sequences, Tables

CONSTANTS
    Depts,          \* ids of sys_dept; deleted ids are not handed out again
    Top,            \* the id 0, of no department: the parent of the top ones
    MaxPath,        \* ids that fit into the column pids, a varchar(255)
    Requests        \* threads that serve requests

ASSUME TopOK == Top \notin Depts
ASSUME MaxPathOK == MaxPath \in Nat \ {0}

VARIABLES
    dept,           \* sys_dept
    usedDepts,      \* ids handed out so far
    request         \* what each thread is doing

deptVars == <<dept, usedDepts>>
vars == <<dept, usedDepts, request>>

-----------------------------------------------------------------------------
Parents == Depts \cup {Top}
Paths == {path \in Seq(Parents) : Len(path) \in 1..MaxPath}
DeptRow == [pid: Parents, pids: Paths]

Idle == [pc |-> "idle"]

Init ==
    /\ dept = EmptyTable
    /\ usedDepts = {}
    /\ request = [r \in Requests |-> Idle]

Continue(r, q) == request' = [request EXCEPT ![r] = q]
-----------------------------------------------------------------------------
(* Adding and updating *)

\* Bug: the path ends with the grandparent, not the parent.
BelowOwnPath(p) ==
    [pid |-> p, pids |-> IF p = Top THEN <<Top>> ELSE dept[p].pids]

\* deptSetPids: the columns of a department put below p.
Below(p) ==
    IF p = Top THEN [pid |-> Top, pids |-> <<Top>>]
    ELSE [pid |-> p, pids |-> Append(dept[p].pids, p)]

\* A parent that is gone is an exception, and nothing happens.
CanBeBelow(p) == p = Top \/ p \in DOMAIN dept

AddRead(r, p) ==
    /\ request[r] = Idle
    /\ CanBeBelow(p)
    /\ Continue(r, [pc |-> "add", row |-> Below(p)])
    /\ UNCHANGED deptVars

\* Bug: the column takes one id more than it holds.
FitsAlmost(row) == Len(row.pids) <= MaxPath + 1

\* A path that is too long for its column is an exception.
Fits(row) == Len(row.pids) <= MaxPath

AddInsert(r, d) ==
    /\ request[r].pc = "add"
    /\ d \notin usedDepts
    /\ IF Fits(request[r].row)
       THEN /\ dept' = Insert(dept, d, request[r].row)
            /\ usedDepts' = usedDepts \cup {d}
       ELSE UNCHANGED deptVars
    /\ Continue(r, Idle)

\* The form may put a department anywhere, below itself included.
UpdateRead(r, d, p) ==
    /\ request[r] = Idle
    /\ d \in usedDepts
    /\ CanBeBelow(p)
    /\ Continue(r, [pc |-> "update", dept |-> d, row |-> Below(p)])
    /\ UNCHANGED deptVars

\* Both columns of this row are written, the paths of the rows below it not.
UpdateWrite(r) ==
    /\ request[r].pc = "update"
    /\ dept' = IF Fits(request[r].row)
               THEN Update(dept, request[r].dept, request[r].row) ELSE dept
    /\ Continue(r, Idle)
    /\ UNCHANGED usedDepts
-----------------------------------------------------------------------------
(* Deleting *)

InPath(d, path) == \E i \in 1..Len(path) : path[i] = d

\* Bug: only the departments directly below d.
SubDeptsDirect(d) == {e \in DOMAIN dept : dept[e].pid = d}

\* where pids like '%[d]%': getSubDeptId, and the search of deleteDept.
SubDepts(d) == {e \in DOMAIN dept : InPath(d, dept[e].pids)}

DeleteRead(r, d) ==
    /\ request[r] = Idle
    /\ d \in DOMAIN dept
    /\ Continue(r, [pc |-> "delete", dept |-> d,
                    depts |-> SubDepts(d) \cup {d}])
    /\ UNCHANGED deptVars

\* Bug: the departments below the deleted one are left.
DeleteWriteAlone(r) ==
    /\ request[r].pc = "delete"
    /\ dept' = Delete(dept, request[r].dept)
    /\ Continue(r, Idle)
    /\ UNCHANGED usedDepts

DeleteWrite(r) ==
    /\ request[r].pc = "delete"
    /\ dept' = [d \in DOMAIN dept \ request[r].depts |-> dept[d]]
    /\ Continue(r, Idle)
    /\ UNCHANGED usedDepts

\* The server stops; an open deletion is rolled back.
Restart ==
    /\ request' = [r \in Requests |-> Idle]
    /\ UNCHANGED deptVars
-----------------------------------------------------------------------------
Next ==
    \/ \E r \in Requests :
          \/ \E p \in Parents : AddRead(r, p)
          \/ \E d \in Depts : AddInsert(r, d) \/ DeleteRead(r, d)
          \/ \E d \in Depts, p \in Parents : UpdateRead(r, d, p)
          \/ UpdateWrite(r) \/ DeleteWrite(r)
    \/ Restart

Spec == Init /\ [][Next]_vars
-----------------------------------------------------------------------------
(* Properties *)

\* Rows and requests hold what their columns allow.
NewRow == [pid: Parents, pids: Seq(Parents) \ {<<>>}]
Request ==
    {Idle} \cup [pc: {"add"}, row: NewRow]
           \cup [pc: {"update"}, dept: Depts, row: NewRow]
           \cup [pc: {"delete"}, dept: Depts, depts: SUBSET Depts]
TypeOK ==
    /\ usedDepts \subseteq Depts
    /\ IsTable(dept, usedDepts, DeptRow)
    /\ request \in [Requests -> Request]

\* The path of a department is that of its parent, and the parent.
PathIsExact(d) ==
    LET row == dept[d] IN
    \/ row.pid = Top /\ row.pids = <<Top>>
    \/ /\ row.pid \in DOMAIN dept
       /\ row.pids = Append(dept[row.pid].pids, row.pid)
PathsExact == \A d \in DOMAIN dept : PathIsExact(d)

\* The departments above d: those in every set that holds the parents of d and
\* of its own members.
HoldsParents(above, d) ==
    \A e \in (above \cup {d}) \cap DOMAIN dept : dept[e].pid \in above \cup {Top}
Ancestors(d) ==
    {a \in Depts : \A above \in SUBSET Depts : HoldsParents(above, d) => a \in above}

\* As long as the paths are exact, what the search by path finds below a
\* department is what is below it in the tree: the scope of its users and what
\* its deletion takes with it (ConstantFactory.getSubDeptId).
ScopeIsSubtree ==
    PathsExact => \A d \in Depts :
        SubDepts(d) = {e \in DOMAIN dept : d \in Ancestors(e)}

\* Exact paths only become inexact when a department is moved that has
\* departments below it or that becomes its own parent, or when what a request
\* read has changed before it writes (DeptController.add and update,
\* DeptServiceImpl.deleteDept): served one after another, no addition and no
\* deletion does it.
HasSubDepts(d) == \E e \in DOMAIN dept : dept[e].pid = d
Outdated(q) ==
    \/ /\ q.pc \in {"add", "update"}
       /\ CanBeBelow(q.row.pid) => q.row # Below(q.row.pid)
    \/ /\ q.pc = "delete"
       /\ q.depts # SubDepts(q.dept) \cup {q.dept}
MovesBadly(q) ==
    /\ q.pc = "update"
    /\ HasSubDepts(q.dept) \/ q.row.pid = q.dept
BrokenOnlyByMovesOrOverlap ==
    [][(PathsExact /\ ~PathsExact') =>
          \E r \in Requests :
             /\ request'[r] # request[r]
             /\ MovesBadly(request[r]) \/ Outdated(request[r])]_vars

\* Whatever overlaps and whatever is moved, a path starts at the top, ends with
\* the parent in its row, and names only ids that were handed out
\* (DeptController.deptSetPids).
Rooted(row) ==
    /\ row.pids[1] = Top /\ row.pids[Len(row.pids)] = row.pid
    /\ \A i \in 2..Len(row.pids) : row.pids[i] \in usedDepts
PathsAreRooted == \A d \in DOMAIN dept : Rooted(dept[d])
=============================================================================
