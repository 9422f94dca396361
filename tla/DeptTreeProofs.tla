--------------------------- MODULE DeptTreeProofs ---------------------------
(* Theorems about DeptTree, for every value of its constants.               *)
EXTENDS DeptTree, TableTheorems

-----------------------------------------------------------------------------
\* A row on its way to the table is rooted as well; ids are never taken back,
\* so it stays so while the table changes.
PendingRooted ==
    \A r \in Requests :
        request[r].pc \in {"add", "update"} => Rooted(request[r].row)

InductiveInv == TypeOK /\ PathsAreRooted /\ PendingRooted

-----------------------------------------------------------------------------
LEMMA ParentIsUsed ==
    ASSUME TypeOK, NEW p \in Parents, CanBeBelow(p), p # Top
    PROVE  /\ p \in usedDepts
           /\ dept[p] \in DeptRow
           /\ p \in DOMAIN dept
  BY DEF TypeOK, IsTable, CanBeBelow

\* The columns deptSetPids makes: a nonempty path that is rooted.
LEMMA BelowIsRooted ==
    ASSUME InductiveInv, NEW p \in Parents, CanBeBelow(p)
    PROVE  Below(p) \in NewRow /\ Rooted(Below(p))
  <1>1. CASE p = Top
    <2>1. Below(p) = [pid |-> Top, pids |-> <<Top>>]
      BY <1>1 DEF Below
    <2>2. <<Top>> \in Seq(Parents) \ {<<>>}
      BY DEF Parents
    <2>3. Len(<<Top>>) = 1 /\ <<Top>>[1] = Top
      OBVIOUS
    <2>. QED
      BY <2>1, <2>2, <2>3 DEF Rooted, NewRow, Parents
  <1>2. CASE p # Top
    <2> DEFINE path == dept[p].pids
    <2>1. /\ p \in usedDepts /\ path \in Seq(Parents) /\ Len(path) \in Nat \ {0}
          /\ Rooted(dept[p])
      BY <1>2, ParentIsUsed, MaxPathOK
         DEF InductiveInv, DeptRow, Paths, PathsAreRooted
    <2>2. Below(p) = [pid |-> p, pids |-> Append(path, p)]
      BY <1>2 DEF Below
    <2>3. path[1] = Top /\ \A i \in 2..Len(path) : path[i] \in usedDepts
      BY <2>1 DEF Rooted
    <2> HIDE DEF path
    <2>4. /\ Append(path, p) \in Seq(Parents) \ {<<>>}
          /\ Len(Append(path, p)) = Len(path) + 1
          /\ Append(path, p)[Len(path) + 1] = p
          /\ \A i \in 1..Len(path) : Append(path, p)[i] = path[i]
      BY <2>1
    <2>5. \A i \in 2..(Len(path) + 1) : Append(path, p)[i] \in usedDepts
      BY <2>1, <2>3, <2>4
    <2>6. Append(path, p)[1] = Top
      BY <2>1, <2>3, <2>4
    <2>7. Below(p) \in NewRow
      BY <2>2, <2>4 DEF NewRow
    <2>. QED
      BY <2>2, <2>4, <2>5, <2>6, <2>7 DEF Rooted
  <1>. QED
    BY <1>1, <1>2

\* A rooted row stays rooted when more ids are handed out.
LEMMA RootedStays ==
    ASSUME NEW row, Rooted(row), usedDepts \subseteq usedDepts'
    PROVE  /\ row.pids[1] = Top /\ row.pids[Len(row.pids)] = row.pid
           /\ \A i \in 2..Len(row.pids) : row.pids[i] \in usedDepts'
  BY DEF Rooted

\* A step that lets a thread continue and leaves the table alone.
LEMMA ContinueRooted ==
    ASSUME InductiveInv, NEW r \in Requests, NEW q \in Request, Continue(r, q),
           q.pc \in {"add", "update"} => Rooted(q.row), UNCHANGED deptVars
    PROVE  InductiveInv'
  <1>1. request' = [s \in Requests |-> IF s = r THEN q ELSE request[s]]
    BY DEF InductiveInv, TypeOK, Continue
  <1>2. TypeOK'
    BY <1>1 DEF InductiveInv, TypeOK, deptVars
  <1>3. PathsAreRooted' /\ PendingRooted'
    BY <1>1 DEF InductiveInv, PathsAreRooted, PendingRooted, Rooted, deptVars
  <1>. QED
    BY <1>2, <1>3 DEF InductiveInv

\* A step that ends a request and writes the table: it may hand out ids and
\* leaves rows that are rooted.
LEMMA WriteRooted ==
    ASSUME InductiveInv, NEW r \in Requests, Continue(r, Idle),
           usedDepts \subseteq usedDepts', usedDepts' \subseteq Depts,
           IsTable(dept', usedDepts', DeptRow),
           \A d \in DOMAIN dept' : Rooted(dept'[d])
    PROVE  InductiveInv'
  <1>1. request' = [s \in Requests |-> IF s = r THEN Idle ELSE request[s]]
    BY DEF InductiveInv, TypeOK, Continue
  <1>2. TypeOK'
    BY <1>1 DEF InductiveInv, TypeOK, Request
  <1>3. PathsAreRooted'
    BY RootedStays DEF PathsAreRooted, Rooted
  <1>4. ASSUME NEW s \in Requests, request'[s].pc \in {"add", "update"}
        PROVE  request'[s] = request[s] /\ Rooted(request[s].row)
    BY <1>1, <1>4 DEF InductiveInv, PendingRooted, Idle
  <1>5. PendingRooted'
    BY <1>4, RootedStays DEF PendingRooted, Rooted
  <1>. QED
    BY <1>2, <1>3, <1>5 DEF InductiveInv

-----------------------------------------------------------------------------
LEMMA InitRooted == Init => InductiveInv
  BY EmptyIsTable DEF Init, EmptyTable, InductiveInv, TypeOK, PathsAreRooted,
                      PendingRooted, Request, Idle, IsTable

LEMMA AddRooted ==
    ASSUME InductiveInv, NEW r \in Requests
    PROVE  /\ \A p \in Parents : AddRead(r, p) => InductiveInv'
           /\ \A d \in Depts : AddInsert(r, d) => InductiveInv'
  <1>1. ASSUME NEW p \in Parents, AddRead(r, p)
        PROVE  InductiveInv'
    <2> DEFINE q == [pc |-> "add", row |-> Below(p)]
    <2>1. q \in Request /\ Rooted(q.row)
      BY <1>1, BelowIsRooted DEF AddRead, Request
    <2>. QED
      BY <1>1, <2>1, ContinueRooted DEF AddRead
  <1>2. ASSUME NEW d \in Depts, AddInsert(r, d)
        PROVE  InductiveInv'
    <2> DEFINE row == request[r].row
    <2>1. request[r] \in [pc: {"add"}, row: NewRow] /\ Rooted(row)
      BY <1>2 DEF AddInsert, InductiveInv, TypeOK, PendingRooted, Request, Idle
    <2>2. CASE Fits(row)
      <3>1. row \in DeptRow
        BY <2>1, <2>2, MaxPathOK DEF Fits, NewRow, DeptRow, Paths
      <3>2. /\ dept' = Insert(dept, d, row) /\ usedDepts' = usedDepts \cup {d}
            /\ Continue(r, Idle)
        BY <1>2, <2>2 DEF AddInsert
      <3>3. usedDepts' \subseteq Depts /\ usedDepts \subseteq usedDepts'
        BY <3>2 DEF InductiveInv, TypeOK
      <3> HIDE DEF row
      <3>4. IsTable(dept', usedDepts', DeptRow)
        BY <3>1, <3>2, InsertIsTable DEF InductiveInv, TypeOK
      <3>5. \A e \in DOMAIN dept' : Rooted(dept'[e])
        BY <2>1, <3>2 DEF InductiveInv, PathsAreRooted, Insert
      <3>. QED
        BY <3>2, <3>3, <3>4, <3>5, WriteRooted
    <2>3. CASE ~Fits(row)
      BY <1>2, <2>3, ContinueRooted DEF AddInsert, Request, Idle
    <2>. QED
      BY <2>2, <2>3
  <1>. QED
    BY <1>1, <1>2

LEMMA UpdateRooted ==
    ASSUME InductiveInv, NEW r \in Requests
    PROVE  /\ \A d \in Depts, p \in Parents : UpdateRead(r, d, p) => InductiveInv'
           /\ UpdateWrite(r) => InductiveInv'
  <1>1. ASSUME NEW d \in Depts, NEW p \in Parents, UpdateRead(r, d, p)
        PROVE  InductiveInv'
    <2> DEFINE q == [pc |-> "update", dept |-> d, row |-> Below(p)]
    <2>1. q \in Request /\ Rooted(q.row)
      BY <1>1, BelowIsRooted DEF UpdateRead, Request
    <2>. QED
      BY <1>1, <2>1, ContinueRooted DEF UpdateRead
  <1>2. ASSUME UpdateWrite(r)
        PROVE  InductiveInv'
    <2> DEFINE row == request[r].row
               d == request[r].dept
    <2>1. /\ request[r] \in [pc: {"update"}, dept: Depts, row: NewRow]
          /\ Rooted(row)
      BY <1>2 DEF UpdateWrite, InductiveInv, TypeOK, PendingRooted, Request, Idle
    <2>2. CASE Fits(row)
      <3>1. row \in DeptRow
        BY <2>1, <2>2, MaxPathOK DEF Fits, NewRow, DeptRow, Paths
      <3>2. /\ dept' = Update(dept, d, row) /\ usedDepts' = usedDepts
            /\ Continue(r, Idle)
        BY <1>2, <2>2 DEF UpdateWrite
      <3> HIDE DEF row, d
      <3>3. IsTable(dept', usedDepts', DeptRow)
        BY <3>1, <3>2, UpdateIsTable DEF InductiveInv, TypeOK
      <3>4. \A e \in DOMAIN dept' : Rooted(dept'[e])
        BY <2>1, <3>2 DEF InductiveInv, PathsAreRooted, Update
      <3>5. usedDepts' \subseteq Depts /\ usedDepts \subseteq usedDepts'
        BY <3>2 DEF InductiveInv, TypeOK
      <3>. QED
        BY <3>2, <3>3, <3>4, <3>5, WriteRooted
    <2>3. CASE ~Fits(row)
      BY <1>2, <2>3, ContinueRooted DEF UpdateWrite, Request, Idle, deptVars
    <2>. QED
      BY <2>2, <2>3
  <1>. QED
    BY <1>1, <1>2

LEMMA DeleteRooted ==
    ASSUME InductiveInv, NEW r \in Requests
    PROVE  /\ \A d \in Depts : DeleteRead(r, d) => InductiveInv'
           /\ DeleteWrite(r) => InductiveInv'
  <1>1. ASSUME NEW d \in Depts, DeleteRead(r, d)
        PROVE  InductiveInv'
    <2> DEFINE q == [pc |-> "delete", dept |-> d, depts |-> SubDepts(d) \cup {d}]
    <2>1. q \in Request
      BY DEF Request, SubDepts, InductiveInv, TypeOK, IsTable
    <2>. QED
      BY <1>1, <2>1, ContinueRooted DEF DeleteRead
  <1>2. ASSUME DeleteWrite(r)
        PROVE  InductiveInv'
    <2>1. /\ dept' = [d \in DOMAIN dept \ request[r].depts |-> dept[d]]
          /\ usedDepts' = usedDepts /\ Continue(r, Idle)
      BY <1>2 DEF DeleteWrite
    <2>2. IsTable(dept', usedDepts', DeptRow)
      BY <2>1 DEF InductiveInv, TypeOK, IsTable
    <2>3. \A e \in DOMAIN dept' : Rooted(dept'[e])
      BY <2>1 DEF InductiveInv, PathsAreRooted
    <2>4. usedDepts' \subseteq Depts /\ usedDepts \subseteq usedDepts'
      BY <2>1 DEF InductiveInv, TypeOK
    <2>. QED
      BY <2>1, <2>2, <2>3, <2>4, WriteRooted
  <1>. QED
    BY <1>1, <1>2

LEMMA NextRooted == InductiveInv /\ [Next]_vars => InductiveInv'
  <1> SUFFICES ASSUME InductiveInv, [Next]_vars PROVE InductiveInv'
    OBVIOUS
  <1>1. CASE UNCHANGED vars
    BY <1>1 DEF vars, InductiveInv, TypeOK, PathsAreRooted, PendingRooted, Rooted
  <1>2. CASE Restart
    BY <1>2 DEF Restart, deptVars, InductiveInv, TypeOK, PathsAreRooted,
                PendingRooted, Rooted, Request, Idle
  <1>. QED
    BY <1>1, <1>2, AddRooted, UpdateRooted, DeleteRooted DEF Next

-----------------------------------------------------------------------------
\* Whatever the departments, the length of the column and the number of
\* threads, every step keeps rows and requests within their types.
THEOREM DeptTypeCorrect == Spec => []TypeOK
  <1>1. Spec => []InductiveInv
    BY InitRooted, NextRooted, PTL DEF Spec
  <1>. QED
    BY <1>1, PTL DEF InductiveInv

\* Whatever overlaps, every path starts at the top, ends with the parent of its
\* row and names departments that existed (DeptController.deptSetPids).
THEOREM PathsAlwaysRooted == Spec => []PathsAreRooted
  <1>1. Spec => []InductiveInv
    BY InitRooted, NextRooted, PTL DEF Spec
  <1>. QED
    BY <1>1, PTL DEF InductiveInv

-----------------------------------------------------------------------------
(* What makes exact paths inexact *)

LEMMA AlwaysInductive == Spec => []InductiveInv
  BY InitRooted, NextRooted, PTL DEF Spec

\* A thread whose step may do it: it moves badly, or what it read has changed.
Excused == \E r \in Requests : /\ request'[r] # request[r]
                               /\ MovesBadly(request[r]) \/ Outdated(request[r])

\* The row of an addition or update that is not outdated is what
\* deptSetPids would make now.
LEMMA UpToDate ==
    ASSUME NEW q, q.pc \in {"add", "update"}, ~Outdated(q)
    PROVE  CanBeBelow(q.row.pid) /\ q.row = Below(q.row.pid)
  BY DEF Outdated

\* A row of deptSetPids is exact where its parent stays as it is.
LEMMA BelowIsExact ==
    ASSUME NEW d, NEW p, d # p, CanBeBelow(p),
           d \in DOMAIN dept', dept'[d] = Below(p),
           p \in DOMAIN dept => p \in DOMAIN dept' /\ dept'[p] = dept[p]
    PROVE  PathIsExact(d)'
  <1>1. CASE p = Top
    BY <1>1 DEF Below, PathIsExact
  <1>2. CASE p # Top
    BY <1>2 DEF Below, PathIsExact, CanBeBelow
  <1>. QED
    BY <1>1, <1>2

\* A department stays exact where neither it nor its parent changes.
LEMMA StaysExact ==
    ASSUME NEW d \in DOMAIN dept, PathIsExact(d),
           d \in DOMAIN dept', dept'[d] = dept[d],
           dept[d].pid \in DOMAIN dept =>
              /\ dept[d].pid \in DOMAIN dept'
              /\ dept'[dept[d].pid] = dept[dept[d].pid]
    PROVE  PathIsExact(d)'
  BY DEF PathIsExact

LEMMA AddStaysExact ==
    ASSUME TypeOK, NEW r \in Requests, NEW d \in Depts, AddInsert(r, d),
           PathsExact, ~Outdated(request[r])
    PROVE  PathsExact'
  <1> DEFINE row == request[r].row
  <1>1. CanBeBelow(row.pid) /\ row = Below(row.pid)
    BY UpToDate DEF AddInsert
  <1>2. d \notin DOMAIN dept /\ d # Top
    BY TopOK DEF AddInsert, TypeOK, IsTable
  <1>3. d # row.pid
    BY <1>1, <1>2 DEF CanBeBelow
  <1>4. CASE dept' = dept
    BY <1>4 DEF PathsExact, PathIsExact
  <1>5. CASE dept' = Insert(dept, d, row)
    <2>. HIDE DEF row
    <2>1. /\ DOMAIN dept' = DOMAIN dept \cup {d} /\ dept'[d] = row
          /\ \A e \in DOMAIN dept : dept'[e] = dept[e]
      BY <1>2, <1>5 DEF Insert
    <2>2. PathIsExact(d)'
      BY <1>1, <1>3, <2>1, BelowIsExact
    <2>3. \A e \in DOMAIN dept : PathIsExact(e)'
      BY <2>1, StaysExact DEF PathsExact
    <2>. QED
      BY <2>1, <2>2, <2>3 DEF PathsExact
  <1>. QED
    BY <1>4, <1>5 DEF AddInsert, deptVars

LEMMA UpdateStaysExact ==
    ASSUME TypeOK, NEW r \in Requests, UpdateWrite(r), PathsExact,
           ~Outdated(request[r]), ~MovesBadly(request[r])
    PROVE  PathsExact'
  <1>0. PICK d, row : d = request[r].dept /\ row = request[r].row
    OBVIOUS
  <1>1. CanBeBelow(row.pid) /\ row = Below(row.pid)
    BY <1>0, UpToDate DEF UpdateWrite
  <1>2. d # row.pid /\ \A e \in DOMAIN dept : dept[e].pid # d
    BY <1>0 DEF UpdateWrite, MovesBadly, HasSubDepts
  <1>3. CASE dept' = dept
    BY <1>3 DEF PathsExact, PathIsExact
  <1>4. CASE dept' = Update(dept, d, row)
    <2>1. /\ DOMAIN dept' = DOMAIN dept
          /\ d \in DOMAIN dept => dept'[d] = row
          /\ \A e \in DOMAIN dept \ {d} : dept'[e] = dept[e]
      BY <1>4 DEF Update
    <2>2. ASSUME d \in DOMAIN dept PROVE PathIsExact(d)'
      <3>1. d \in DOMAIN dept' /\ dept'[d] = Below(row.pid)
        BY <1>1, <2>1, <2>2
      <3>2. row.pid \in DOMAIN dept =>
               row.pid \in DOMAIN dept' /\ dept'[row.pid] = dept[row.pid]
        BY <1>2, <2>1
      <3>. QED
        BY <1>1, <1>2, <3>1, <3>2, BelowIsExact
    <2>3. \A e \in DOMAIN dept \ {d} : PathIsExact(e)'
      BY <1>2, <2>1, StaysExact DEF PathsExact
    <2>4. \A e \in DOMAIN dept' : PathIsExact(e)'
      BY <2>1, <2>2, <2>3
    <2>. QED
      BY <2>4 DEF PathsExact
  <1>. QED
    BY <1>0, <1>3, <1>4 DEF UpdateWrite

\* The ids in an exact path are those in the parent's path, and the parent.
LEMMA ParentInPath ==
    ASSUME TypeOK, PathsExact, NEW e \in DOMAIN dept, dept[e].pid \in DOMAIN dept,
           NEW d, d = dept[e].pid \/ InPath(d, dept[dept[e].pid].pids)
    PROVE  InPath(d, dept[e].pids)
  <1> DEFINE p == dept[e].pid
             path == dept[p].pids
  <1>1. /\ p # Top /\ dept[e].pids = Append(path, p)
        /\ path \in Seq(Parents) /\ p \in Parents
    BY TopOK DEF TypeOK, IsTable, DeptRow, Paths, Parents, PathsExact, PathIsExact
  <1>. HIDE DEF p, path
  <1>2. /\ Len(path) \in Nat /\ Len(Append(path, p)) = Len(path) + 1
        /\ Append(path, p)[Len(path) + 1] = p
        /\ \A i \in 1..Len(path) : Append(path, p)[i] = path[i]
    BY <1>1
  <1>3. d = p \/ \E i \in 1..Len(path) : path[i] = d
    BY DEF InPath, p, path
  <1>4. \E i \in 1..(Len(path) + 1) : Append(path, p)[i] = d
    <2>1. CASE d = p
      BY <1>2, <2>1
    <2>2. ASSUME NEW i \in 1..Len(path), path[i] = d
          PROVE  \E j \in 1..(Len(path) + 1) : Append(path, p)[j] = d
      <3>1. i \in 1..(Len(path) + 1) /\ Append(path, p)[i] = d
        BY <1>2, <2>2
      <3>. QED
        BY <3>1
    <2>. QED
      BY <1>3, <2>1, <2>2
  <1>. QED
    BY <1>1, <1>2, <1>4 DEF InPath

LEMMA DeleteStaysExact ==
    ASSUME TypeOK, NEW r \in Requests, DeleteWrite(r), PathsExact,
           ~Outdated(request[r])
    PROVE  PathsExact'
  <1> DEFINE d == request[r].dept
             gone == SubDepts(d) \cup {d}
  <1>1. dept' = [e \in DOMAIN dept \ gone |-> dept[e]]
    BY DEF DeleteWrite, Outdated
  <1>2. ASSUME NEW e \in DOMAIN dept \ gone, dept[e].pid \in DOMAIN dept
        PROVE  dept[e].pid \notin gone
    BY <1>2, ParentInPath DEF SubDepts
  <1>. HIDE DEF gone
  <1>3. \A e \in DOMAIN dept' : PathIsExact(e)'
    BY <1>1, <1>2, StaysExact DEF PathsExact
  <1>. QED
    BY <1>3 DEF PathsExact

LEMMA NextExcused ==
    ASSUME TypeOK, Next, PathsExact, ~Excused
    PROVE  PathsExact'
  <1>1. ASSUME UNCHANGED dept PROVE PathsExact'
    BY <1>1 DEF PathsExact, PathIsExact
  <1>2. ASSUME NEW r \in Requests, request[r].pc # "idle", Continue(r, Idle)
        PROVE  ~MovesBadly(request[r]) /\ ~Outdated(request[r])
    <2>1. request'[r] = Idle
      BY <1>2 DEF TypeOK, Continue
    <2>. QED
      BY <1>2, <2>1 DEF Excused, Idle
  <1>3. ASSUME NEW r \in Requests, NEW d \in Depts, AddInsert(r, d)
        PROVE  PathsExact'
    BY <1>2, <1>3, AddStaysExact DEF AddInsert
  <1>4. ASSUME NEW r \in Requests, UpdateWrite(r)
        PROVE  PathsExact'
    BY <1>2, <1>4, UpdateStaysExact DEF UpdateWrite
  <1>5. ASSUME NEW r \in Requests, DeleteWrite(r)
        PROVE  PathsExact'
    BY <1>2, <1>5, DeleteStaysExact DEF DeleteWrite
  <1>. QED
    BY <1>1, <1>3, <1>4, <1>5
    DEF Next, AddRead, DeleteRead, UpdateRead, Restart, deptVars

\* For any number of departments and threads and any length of the column:
\* requests served one after another keep the paths exact, unless they move a
\* department with others below it, or one below itself (DeptController.add,
\* update, DeptServiceImpl.deleteDept).
THEOREM BreaksAlwaysExplained == Spec => BrokenOnlyByMovesOrOverlap
  <1>1. TypeOK /\ [Next]_vars => [(PathsExact /\ ~PathsExact') => Excused]_vars
    BY NextExcused
  <1>. QED
    BY <1>1, AlwaysInductive, PTL
    DEF Spec, InductiveInv, BrokenOnlyByMovesOrOverlap, Excused

-----------------------------------------------------------------------------
(* What the search by path finds *)

\* An exact path is that of the parent and the parent, so it is longer.
LEMMA ExactPath ==
    ASSUME TypeOK, NEW e \in DOMAIN dept, PathIsExact(e), NEW d \in Depts
    PROVE  /\ Len(dept[e].pids) \in Nat
           /\ dept[e].pid = Top => ~InPath(d, dept[e].pids)
           /\ dept[e].pid # Top =>
                 /\ dept[e].pid \in DOMAIN dept /\ dept[e].pid \in Depts
                 /\ Len(dept[dept[e].pid].pids) < Len(dept[e].pids)
                 /\ InPath(d, dept[e].pids) <=>
                       d = dept[e].pid \/ InPath(d, dept[dept[e].pid].pids)
  <1>1. dept[e] \in DeptRow /\ DOMAIN dept \subseteq Depts
    BY DEF TypeOK, IsTable
  <1>2. dept[e].pids \in Seq(Parents) /\ Len(dept[e].pids) \in Nat
    BY <1>1 DEF DeptRow, Paths
  <1>3. CASE dept[e].pid = Top
    <2>1. dept[e].pids = <<Top>>
      BY <1>1, <1>3, TopOK DEF PathIsExact
    <2>. QED
      BY <1>2, <1>3, <2>1, TopOK DEF InPath
  <1>4. CASE dept[e].pid # Top
    <2> DEFINE p == dept[e].pid
               path == dept[p].pids
    <2>1. /\ p \in DOMAIN dept /\ dept[e].pids = Append(path, p)
      BY <1>4 DEF PathIsExact
    <2>2. path \in Seq(Parents) /\ Len(path) \in Nat /\ p \in Parents
      BY <1>1, <2>1 DEF TypeOK, IsTable, DeptRow, Paths, Parents
    <2>. HIDE DEF path, p
    <2>3. /\ Len(Append(path, p)) = Len(path) + 1
          /\ Append(path, p)[Len(path) + 1] = p
          /\ \A i \in 1..Len(path) : Append(path, p)[i] = path[i]
      BY <2>2
    <2>4. InPath(d, Append(path, p)) <=> d = p \/ InPath(d, path)
      BY <2>2, <2>3 DEF InPath
    <2>. QED
      BY <1>1, <1>2, <1>4, <2>1, <2>2, <2>3, <2>4 DEF p, path
  <1>. QED
    BY <1>3, <1>4

\* What a path names is in every set that holds the parents; shown for the
\* shortest path for which it might fail.
LEMMA NamedIsAbove ==
    ASSUME TypeOK, PathsExact, NEW e \in DOMAIN dept, NEW d \in Depts,
           InPath(d, dept[e].pids)
    PROVE  d \in Ancestors(e)
  <1> SUFFICES ASSUME NEW above \in SUBSET Depts, HoldsParents(above, e),
                      d \notin above
               PROVE  FALSE
    BY DEF Ancestors
  <1> DEFINE wrong == {c \in DOMAIN dept : /\ HoldsParents(above, c)
                                           /\ InPath(d, dept[c].pids)}
             lengths == {n \in Nat : \E c \in wrong : n = Len(dept[c].pids)}
  <1>1. lengths # {}
    BY ExactPath DEF PathsExact
  <1>2. PICK n \in lengths : \A m \in lengths : n <= m
    BY <1>1, LeastNumber
  <1>3. PICK c \in wrong : n = Len(dept[c].pids)
    BY <1>2
  <1>4. /\ dept[c].pid # Top /\ dept[c].pid \in DOMAIN dept
        /\ Len(dept[dept[c].pid].pids) < Len(dept[c].pids)
        /\ d = dept[c].pid \/ InPath(d, dept[dept[c].pid].pids)
    BY <1>3, ExactPath DEF PathsExact
  <1>5. dept[c].pid \in above
    BY <1>3, <1>4 DEF HoldsParents
  <1>6. HoldsParents(above, dept[c].pid)
    BY <1>3, <1>5 DEF HoldsParents
  <1>7. dept[c].pid \in wrong
    BY <1>4, <1>5, <1>6
  <1>8. Len(dept[dept[c].pid].pids) \in lengths
    BY <1>4, <1>7, ExactPath DEF PathsExact
  <1>. QED
    BY <1>2, <1>3, <1>4, <1>8, ExactPath DEF PathsExact

\* What a path names, it names with its parents; again for the shortest.
LEMMA PathHoldsParents ==
    ASSUME TypeOK, PathsExact, NEW e \in DOMAIN dept
    PROVE  HoldsParents({d \in Depts : InPath(d, dept[e].pids)}, e)
  <1> DEFINE named(c) == {d \in Depts : InPath(d, dept[c].pids)}
             wrong == {c \in DOMAIN dept : ~HoldsParents(named(c), c)}
             lengths == {n \in Nat : \E c \in wrong : n = Len(dept[c].pids)}
  <1> SUFFICES ASSUME e \in wrong PROVE FALSE
    OBVIOUS
  <1>1. lengths # {}
    BY ExactPath, TopOK DEF PathsExact, TypeOK, IsTable
  <1>2. PICK n \in lengths : \A m \in lengths : n <= m
    BY <1>1, LeastNumber
  <1>3. PICK c \in wrong : n = Len(dept[c].pids)
    BY <1>2
  <1>4. DOMAIN dept \subseteq Depts
    BY DEF TypeOK, IsTable
  <1>5. CASE dept[c].pid = Top
    <2>1. \A d \in Depts : ~InPath(d, dept[c].pids)
      BY <1>3, <1>5, ExactPath DEF PathsExact
    <2>2. HoldsParents(named(c), c)
      BY <1>5, <2>1 DEF HoldsParents
    <2>. QED
      BY <1>3, <2>2
  <1>6. CASE dept[c].pid # Top
    <2> DEFINE p == dept[c].pid
    <2>1. /\ p \in DOMAIN dept /\ p \in Depts
          /\ Len(dept[p].pids) < Len(dept[c].pids)
          /\ Len(dept[p].pids) \in Nat
      BY <1>3, <1>4, <1>6, ExactPath DEF PathsExact
    <2>2. named(c) = named(p) \cup {p}
      BY <1>3, <1>4, <1>6, <2>1, ExactPath DEF PathsExact
    <2>3. p \notin wrong
      <3> SUFFICES ASSUME p \in wrong PROVE FALSE
        OBVIOUS
      <3>1. Len(dept[p].pids) \in lengths
        BY <2>1
      <3>2. n <= Len(dept[p].pids) /\ n \in Nat
        BY <1>2, <3>1
      <3>. HIDE DEF p, lengths, wrong
      <3>. QED
        BY <1>3, <2>1, <3>2
    <2>4. HoldsParents(named(p), p)
      BY <2>1, <2>3
    <2>5. HoldsParents(named(c), c)
      <3>. HIDE DEF named
      <3>. QED
        BY <2>2, <2>4 DEF HoldsParents
    <2>. QED
      BY <1>3, <2>5
  <1>. QED
    BY <1>5, <1>6

\* While paths are exact, the departments whose path names d are those that d is
\* above, for any departments: a deletion takes the whole subtree along and
\* nothing else, and so reaches the data scope (ConstantFactory.getSubDeptId,
\* DeptServiceImpl.deleteDept).
THEOREM ScopeAlwaysSubtree == Spec => []ScopeIsSubtree
  <1>1. TypeOK => ScopeIsSubtree
    <2> SUFFICES ASSUME TypeOK, PathsExact, NEW d \in Depts, NEW e \in DOMAIN dept
                 PROVE  InPath(d, dept[e].pids) <=> d \in Ancestors(e)
      BY DEF ScopeIsSubtree, SubDepts
    <2>1. ASSUME d \in Ancestors(e) PROVE InPath(d, dept[e].pids)
      <3> DEFINE named == {a \in Depts : InPath(a, dept[e].pids)}
      <3>1. HoldsParents(named, e)
        BY PathHoldsParents
      <3>2. d \in named
        BY <2>1, <3>1 DEF Ancestors
      <3>. QED
        BY <3>2
    <2>. QED
      BY <2>1, NamedIsAbove
  <1>. QED
    BY <1>1, DeptTypeCorrect, PTL
=============================================================================
