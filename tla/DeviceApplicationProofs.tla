---------------------- MODULE DeviceApplicationProofs ----------------------
(* Theorems about DeviceApplication, for every value of its constants.      *)
EXTENDS DeviceApplication, TableTheorems

-----------------------------------------------------------------------------
(* Type correctness *)

LEMMA RequestTypes ==
    ASSUME NEW r \in Requests, TypeOK
    PROVE  /\ request[r].pc = "add" => request[r] \in AddRequest
           /\ request[r].pc = "edit" => request[r] \in EditRequest
           /\ request[r].pc = "audit" => request[r] \in AuditRequest
           /\ request[r].pc = "solve" => request[r] \in SolveRequest
  <1>1. request[r] \in Request
    BY DEF TypeOK
  <1>. QED
    BY <1>1 DEF Request, Idle, AddRequest, EditRequest, AuditRequest, SolveRequest

LEMMA ContinueType ==
    ASSUME NEW r \in Requests, NEW q \in Request, TypeOK, Continue(r, q)
    PROVE  request' \in [Requests -> Request]
  BY DEF TypeOK, Continue

LEMMA IdleType == Idle \in Request
  BY DEF Request

\* The types of a step that writes the device table alone.
LEMMA DeviceWriteType ==
    ASSUME TypeOK,
           usedDevices' \subseteq Devices, IsTable(device', usedDevices', DeviceRow),
           UNCHANGED <<approvedRepairs, applicationVars, request>>
    PROVE  TypeOK'
  BY DEF TypeOK, applicationVars

LEMMA DeviceStepType ==
    ASSUME TypeOK, NEW d \in Devices, DeviceStep(d)
    PROVE  TypeOK'
  <1>1. CASE AddDevice(d)
    <2>1. [dept |-> NoDept, status |-> "free", repairCount |-> 0] \in DeviceRow
      BY DEF DeviceRow, DeviceStatuses
    <2>2. IsTable(device', usedDevices', DeviceRow)
      BY <1>1, <2>1, InsertIsTable DEF AddDevice, TypeOK
    <2>. QED
      BY <1>1, <2>2, DeviceWriteType DEF AddDevice, TypeOK
  <1>2. CASE DeleteDevice(d)
    <2>1. IsTable(device', usedDevices', DeviceRow)
      BY <1>2, DeleteIsTable DEF DeleteDevice, TypeOK
    <2>. QED
      BY <1>2, <2>1, DeviceWriteType DEF DeleteDevice, TypeOK
  <1>3. CASE EditDevice(d)
    BY <1>3, DeviceWriteType DEF EditDevice, DeviceRow, IsTable, TypeOK
  <1>4. ASSUME NEW status \in DeviceStatuses, SetStatus(d, status)
        PROVE  TypeOK'
    BY <1>4, DeviceWriteType DEF SetStatus, DeviceRow, IsTable, TypeOK
  <1>5. ASSUME NEW dept \in Depts, SetDept(d, dept)
        PROVE  TypeOK'
    BY <1>5, DeviceWriteType DEF SetDept, DeviceRow, IsTable, TypeOK
  <1>. QED
    BY <1>1, <1>2, <1>3, <1>4, <1>5 DEF DeviceStep

\* The types of a step that writes no table.
LEMMA RequestOnlyType ==
    ASSUME TypeOK, UNCHANGED <<deviceVars, applicationVars>>,
           request' \in [Requests -> Request]
    PROVE  TypeOK'
  BY DEF TypeOK, deviceVars, applicationVars

LEMMA ArriveType ==
    ASSUME TypeOK, NEW r \in Requests, Arrive(r)
    PROVE  TypeOK'
  <1>1. ASSUME NEW u \in Users, NEW d \in Devices, NEW type \in Types,
               AddCheck(r, u, d, type)
        PROVE  TypeOK'
    <2>1. [pc |-> "add", user |-> u, device |-> d, type |-> type] \in Request
      BY DEF Request, AddRequest
    <2>. QED
      BY <1>1, <2>1, ContinueType, RequestOnlyType DEF AddCheck
  <1>2. ASSUME NEW u \in Users, NEW a \in Applications, NEW d \in Devices,
               NEW type \in Types, EditCheck(r, u, a, d, type)
        PROVE  TypeOK'
    <2>1. [pc |-> "edit", application |-> a, device |-> d, type |-> type]
            \in Request
      BY DEF Request, EditRequest
    <2>. QED
      BY <1>2, <2>1, ContinueType, RequestOnlyType DEF EditCheck
  <1>3. ASSUME NEW u \in Users, NEW a \in Applications, NEW verdict \in Verdicts,
               AuditCheck(r, u, a, verdict)
        PROVE  TypeOK'
    <2>1. [pc |-> "audit", auditor |-> u, application |-> a,
           verdict |-> verdict] \in Request
      BY DEF Request, AuditRequest
    <2>. QED
      BY <1>3, <2>1, ContinueType, RequestOnlyType DEF AuditCheck, MayAudit
  <1>. QED
    BY <1>1, <1>2, <1>3 DEF Arrive

\* What the transaction loads and what it leaves over the stored row.
LEMMA SolveReadLoads ==
    ASSUME TypeOK, NEW r \in Requests, SolveRead(r)
    PROVE  /\ request[r] \in AuditRequest
           /\ request[r].application \in DOMAIN application
           /\ application[request[r].application] \in ApplicationRow
           /\ application[request[r].application].device \in DOMAIN device
           /\ request'[r] \in SolveRequest
           /\ request'[r].application = request[r].application
           /\ request'[r].row = application[request[r].application]
           /\ request'[r].deviceRow = device[request'[r].row.device]
           /\ request' = [request EXCEPT ![r] = request'[r]]
  <1> DEFINE q == request[r]
             row == application[q.application]
             s == [pc |-> "solve", auditor |-> q.auditor,
                   application |-> q.application, verdict |-> q.verdict,
                   row |-> row, deviceRow |-> device[row.device]]
  <1>1. /\ q \in AuditRequest
        /\ q.application \in DOMAIN application
        /\ row.device \in DOMAIN device
        /\ Continue(r, s)
    BY RequestTypes DEF SolveRead, Solvable
  <1>2. row \in ApplicationRow /\ device[row.device] \in DeviceRow
    BY <1>1 DEF TypeOK, IsTable
  <1>3. s \in SolveRequest
    BY <1>1, <1>2 DEF SolveRequest, AuditRequest
  <1>4. request' = [request EXCEPT ![r] = s] /\ request'[r] = s
    BY <1>1 DEF Continue, TypeOK
  <1>5. /\ s.application = q.application
        /\ s.row = row
        /\ s.deviceRow = device[row.device]
    OBVIOUS
  <1> HIDE DEF row, s
  <1>6. request'[r].row.device = row.device
    BY <1>4, <1>5
  <1>. QED
    BY <1>1, <1>2, <1>3, <1>4, <1>5, <1>6 DEF row

LEMMA SolvedDeviceType ==
    ASSUME NEW q \in SolveRequest, NEW stored \in DeviceRow
    PROVE  SolvedDevice(q, stored) \in DeviceRow
  <1>1. /\ q.auditor \in Users /\ q.verdict \in Verdicts
        /\ q.row \in ApplicationRow /\ q.deviceRow \in DeviceRow
    BY DEF SolveRequest
  <1>2. DeptOf[q.auditor] \in Depts /\ q.row.type \in Types
    BY <1>1, ConstantsOK DEF ApplicationRow
  <1>3. \/ q.verdict = "refused"
        \/ q.verdict = "approved" /\ q.row.type = "apply"
        \/ q.verdict = "approved" /\ q.row.type = "repair"
        \/ q.verdict = "approved" /\ q.row.type = "return"
    BY <1>1, <1>2 DEF Verdicts, Types
  <1>4. CASE q.verdict = "refused"
    BY <1>4 DEF SolvedDevice
  <1>5. CASE q.verdict = "approved" /\ q.row.type = "apply"
    <2>1. SolvedDevice(q, stored) = [q.deviceRow EXCEPT !.dept = DeptOf[q.auditor]]
      BY <1>5 DEF SolvedDevice
    <2>. QED
      BY <1>1, <1>2, <2>1 DEF DeviceRow
  <1>6. CASE q.verdict = "approved" /\ q.row.type = "repair"
    <2>1. SolvedDevice(q, stored) =
            [q.deviceRow EXCEPT
                !.dept = IF @ = NoDept THEN stored.dept ELSE @,
                !.repairCount = @ + 1]
      BY <1>6 DEF SolvedDevice
    <2> DEFINE dept == IF q.deviceRow.dept = NoDept THEN stored.dept
                       ELSE q.deviceRow.dept
               count == q.deviceRow.repairCount + 1
    <2>2. dept \in Depts \cup {NoDept} /\ count \in Nat
      BY <1>1 DEF DeviceRow
    <2>3. SolvedDevice(q, stored) =
            [q.deviceRow EXCEPT !.dept = dept, !.repairCount = count]
      BY <1>1, <2>1 DEF DeviceRow
    <2> HIDE DEF dept, count
    <2>. QED
      BY <1>1, <2>2, <2>3 DEF DeviceRow
  <1>7. CASE q.verdict = "approved" /\ q.row.type = "return"
    <2>1. SolvedDevice(q, stored) =
            [q.deviceRow EXCEPT !.dept = NoDept, !.status = "free"]
      BY <1>7 DEF SolvedDevice
    <2>. QED
      BY <1>1, <2>1 DEF DeviceRow, DeviceStatuses
  <1>. QED
    BY <1>3, <1>4, <1>5, <1>6, <1>7

LEMMA StepType ==
    ASSUME TypeOK, NEW r \in Requests, Step(r)
    PROVE  TypeOK'
  <1> DEFINE q == request[r]
  <1>1. ASSUME NEW a \in Applications, AddInsert(r, a)
        PROVE  TypeOK'
    <2>1. q \in AddRequest
      BY <1>1, RequestTypes DEF AddInsert
    <2> DEFINE row == [device |-> q.device, type |-> q.type,
                       status |-> "pending", user |-> q.user,
                       auditUser |-> NoUser]
    <2>2. row \in ApplicationRow
      BY <2>1 DEF AddRequest, ApplicationRow, Statuses
    <2>3. application' = Insert(application, a, row)
      BY <1>1 DEF AddInsert
    <2> HIDE DEF row
    <2>4. IsTable(application', usedApplications', ApplicationRow)
      BY <1>1, <2>2, <2>3, InsertIsTable DEF AddInsert, TypeOK
    <2>5. request' \in [Requests -> Request]
      BY <1>1, IdleType, ContinueType DEF AddInsert
    <2>. QED
      BY <1>1, <2>4, <2>5 DEF AddInsert, TypeOK, deviceVars
  <1>2. CASE EditWrite(r)
    <2>1. q \in EditRequest
      BY <1>2, RequestTypes DEF EditWrite
    <2> DEFINE row == EditedRow(q, application[q.application])
    <2>2. q.application \in DOMAIN application => row \in ApplicationRow
      BY <2>1 DEF EditedRow, EditRequest, ApplicationRow, TypeOK, IsTable
    <2>3. application' = Update(application, q.application, row)
      BY <1>2 DEF EditWrite
    <2> HIDE DEF row
    <2>4. IsTable(application', usedApplications', ApplicationRow)
      BY <1>2, <2>2, <2>3, UpdateIsTable DEF EditWrite, TypeOK
    <2>5. request' \in [Requests -> Request]
      BY <1>2, IdleType, ContinueType DEF EditWrite
    <2>. QED
      BY <1>2, <2>4, <2>5 DEF EditWrite, TypeOK, deviceVars
  <1>3. CASE SolveRead(r)
    <2>1. request' \in [Requests -> Request]
      BY <1>3, SolveReadLoads DEF TypeOK, Request
    <2>. QED
      BY <1>3, <2>1, RequestOnlyType DEF SolveRead
  <1>4. CASE SolveFail(r)
    BY <1>4, IdleType, ContinueType, RequestOnlyType DEF SolveFail
  <1>5. CASE SolveWrite(r)
    <2>1. q \in SolveRequest
      BY <1>5, RequestTypes DEF SolveWrite
    <2> DEFINE d == q.row.device
               a == q.application
               row == DecidedRow(q)
               stored == SolvedDevice(q, device[d])
    <2>2. /\ row \in ApplicationRow
          /\ a \in Applications
          /\ d \in Devices
      BY <2>1 DEF DecidedRow, SolveRequest, ApplicationRow, Statuses
    <2>3. d \in DOMAIN device => stored \in DeviceRow
      BY <2>1, SolvedDeviceType DEF TypeOK, IsTable
    <2>4. /\ application' = Update(application, a, row)
          /\ device' = Update(device, d, stored)
          /\ approvedRepairs' = approvedRepairs
                \/ approvedRepairs' = [approvedRepairs EXCEPT ![d] = @ + 1]
          /\ decidedBy' = [decidedBy EXCEPT ![a] = @ \cup {r}]
          /\ UNCHANGED <<usedDevices, usedApplications>>
      BY <1>5 DEF SolveWrite
    <2>5. request' \in [Requests -> Request]
      BY <1>5, IdleType, ContinueType DEF SolveWrite
    <2> HIDE DEF row, stored, a, d, q
    <2>6. /\ IsTable(application', usedApplications', ApplicationRow)
          /\ IsTable(device', usedDevices', DeviceRow)
      BY <2>2, <2>3, <2>4, UpdateIsTable DEF TypeOK
    <2>7. /\ approvedRepairs' \in [Devices -> Nat]
          /\ decidedBy' \in [Applications -> SUBSET Requests]
      BY <2>2, <2>4 DEF TypeOK
    <2>. QED
      BY <2>4, <2>5, <2>6, <2>7 DEF TypeOK
  <1>. QED
    BY <1>1, <1>2, <1>3, <1>4, <1>5 DEF Step

LEMMA InitType == Init => TypeOK
  BY EmptyIsTable, IdleType DEF Init, TypeOK

LEMMA NextType == TypeOK /\ [Next]_vars => TypeOK'
  <1> SUFFICES ASSUME TypeOK, [Next]_vars PROVE TypeOK'
    OBVIOUS
  <1>1. ASSUME NEW u \in Users, NEW a \in Applications, DeleteApplication(u, a)
        PROVE  TypeOK'
    <2>1. IsTable(application', usedApplications', ApplicationRow)
      BY <1>1, DeleteIsTable DEF DeleteApplication, TypeOK
    <2>. QED
      BY <1>1, <2>1 DEF DeleteApplication, TypeOK, deviceVars
  <1>2. CASE Restart
    BY <1>2, IdleType, RequestOnlyType DEF Restart
  <1>3. CASE UNCHANGED vars
    BY <1>3, RequestOnlyType DEF vars, TypeOK
  <1>. QED
    BY <1>1, <1>2, <1>3, ArriveType, StepType, DeviceStepType DEF Next

\* Every reachable state has the types the tables and the handlers declare.
THEOREM TypeCorrect == Spec => []TypeOK
  BY InitType, NextType, PTL DEF Spec

-----------------------------------------------------------------------------
(* Audits: stamps, decisions and the threads that make them *)

AuditInv ==
    /\ AuditStamped /\ NoThreadDecidesTwice
    /\ UndecidedIsClean /\ AuditsAreOnUsed

LEMMA Continued ==
    ASSUME TypeOK, NEW r \in Requests, NEW q, Continue(r, q)
    PROVE  /\ request'[r] = q
           /\ \A s \in Requests \ {r} : request'[s] = request[s]
  BY DEF TypeOK, Continue

\* A step that touches neither the applications nor the decisions keeps the
\* invariant if every audit it leaves under way was under way before.
LEMMA SameAudits ==
    ASSUME AuditInv, UNCHANGED applicationVars,
           \A r \in Requests : request'[r].pc \in {"audit", "solve"} =>
                /\ request[r].pc \in {"audit", "solve"}
                /\ request'[r].application = request[r].application
    PROVE  AuditInv'
  BY DEF AuditInv, AuditStamped, NoThreadDecidesTwice, UndecidedIsClean,
         AuditsAreOnUsed, applicationVars

LEMMA ArriveAudit ==
    ASSUME TypeOK, AuditInv, NEW r \in Requests, Arrive(r)
    PROVE  AuditInv'
  <1>1. ASSUME NEW u \in Users, NEW d \in Devices, NEW type \in Types,
               AddCheck(r, u, d, type)
        PROVE  AuditInv'
    BY <1>1, Continued, SameAudits DEF AddCheck
  <1>2. ASSUME NEW u \in Users, NEW a \in Applications, NEW d \in Devices,
               NEW type \in Types, EditCheck(r, u, a, d, type)
        PROVE  AuditInv'
    BY <1>2, Continued, SameAudits DEF EditCheck
  <1>3. ASSUME NEW u \in Users, NEW a \in Applications, NEW verdict \in Verdicts,
               AuditCheck(r, u, a, verdict)
        PROVE  AuditInv'
    <2>1. /\ a \in DOMAIN application
          /\ application[a].status = "pending"
          /\ UNCHANGED applicationVars
          /\ request'[r].application = a
          /\ \A s \in Requests \ {r} : request'[s] = request[s]
      BY <1>3, Continued DEF AuditCheck, MayAudit
    <2>2. decidedBy[a] = {} /\ a \in usedApplications
      BY <2>1 DEF AuditInv, UndecidedIsClean, TypeOK, IsTable
    <2>3. NoThreadDecidesTwice' /\ AuditsAreOnUsed'
      BY <2>1, <2>2 DEF AuditInv, NoThreadDecidesTwice, AuditsAreOnUsed,
                        applicationVars
    <2>. QED
      BY <2>1, <2>3 DEF AuditInv, AuditStamped, UndecidedIsClean, applicationVars
  <1>. QED
    BY <1>1, <1>2, <1>3 DEF Arrive

LEMMA StepAudit ==
    ASSUME TypeOK, AuditInv, NEW r \in Requests, Step(r)
    PROVE  AuditInv'
  <1> DEFINE q == request[r]
  <1>1. ASSUME NEW a \in Applications, AddInsert(r, a)
        PROVE  AuditInv'
    <2>1. /\ a \notin usedApplications
          /\ DOMAIN application' = DOMAIN application \cup {a}
          /\ application'[a].status = "pending"
          /\ application'[a].auditUser = NoUser
          /\ \A b \in DOMAIN application \ {a} : application'[b] = application[b]
          /\ usedApplications' = usedApplications \cup {a}
          /\ decidedBy' = decidedBy
      <3> DEFINE row == [device |-> q.device, type |-> q.type,
                         status |-> "pending", user |-> q.user,
                         auditUser |-> NoUser]
      <3>1. application' = Insert(application, a, row)
        BY <1>1 DEF AddInsert
      <3>2. row.status = "pending" /\ row.auditUser = NoUser
        OBVIOUS
      <3>3. /\ a \notin usedApplications
            /\ usedApplications' = usedApplications \cup {a}
            /\ decidedBy' = decidedBy
        BY <1>1 DEF AddInsert
      <3> HIDE DEF row
      <3>. QED
        BY <3>1, <3>2, <3>3 DEF Insert
    <2>2. \A s \in Requests : request'[s].pc \in {"audit", "solve"} =>
              s # r /\ request'[s] = request[s]
      BY <1>1, Continued DEF AddInsert, Idle
    <2>3. AuditStamped'
      BY <2>1 DEF AuditInv, AuditStamped
    <2>4. NoThreadDecidesTwice' /\ AuditsAreOnUsed'
      BY <2>1, <2>2 DEF AuditInv, NoThreadDecidesTwice, AuditsAreOnUsed
    <2>5. UndecidedIsClean'
      BY <2>1 DEF AuditInv, UndecidedIsClean
    <2>. QED
      BY <2>3, <2>4, <2>5 DEF AuditInv
  <1>2. CASE EditWrite(r)
    <2>1. q \in EditRequest
      BY <1>2, RequestTypes DEF EditWrite
    <2>2. /\ DOMAIN application' = DOMAIN application
          /\ \A b \in DOMAIN application :
                /\ application'[b].status = application[b].status
                /\ application'[b].auditUser = application[b].auditUser
      <3> DEFINE row == EditedRow(q, application[q.application])
      <3>1. application' = Update(application, q.application, row)
        BY <1>2 DEF EditWrite
      <3>2. \A b \in DOMAIN application :
              application[b] \in ApplicationRow
        BY DEF TypeOK, IsTable
      <3>3. q.application \in DOMAIN application =>
                /\ row.status = application[q.application].status
                /\ row.auditUser = application[q.application].auditUser
        BY <3>2 DEF EditedRow, ApplicationRow
      <3> HIDE DEF row
      <3>. QED
        BY <3>1, <3>3, UpdateRows
    <2>3. UNCHANGED <<usedApplications, decidedBy>>
      BY <1>2 DEF EditWrite
    <2>4. \A s \in Requests : request'[s].pc \in {"audit", "solve"} =>
              s # r /\ request'[s] = request[s]
      BY <1>2, Continued DEF EditWrite, Idle
    <2>5. AuditStamped' /\ UndecidedIsClean'
      BY <2>2, <2>3 DEF AuditInv, AuditStamped, UndecidedIsClean
    <2>6. NoThreadDecidesTwice' /\ AuditsAreOnUsed'
      BY <2>3, <2>4 DEF AuditInv, NoThreadDecidesTwice, AuditsAreOnUsed
    <2>. QED
      BY <2>5, <2>6 DEF AuditInv
  <1>3. CASE SolveRead(r)
    <2>1. /\ request[r].pc = "audit"
          /\ request'[r].application = request[r].application
          /\ \A s \in Requests \ {r} : request'[s] = request[s]
          /\ UNCHANGED applicationVars
      BY <1>3, SolveReadLoads DEF SolveRead, TypeOK
    <2>. QED
      BY <2>1, SameAudits
  <1>4. CASE SolveFail(r)
    BY <1>4, Continued, SameAudits DEF SolveFail, Idle
  <1>5. CASE SolveWrite(r)
    <2> DEFINE a == q.application
               row == DecidedRow(q)
    <2>1. q \in SolveRequest
      BY <1>5, RequestTypes DEF SolveWrite
    <2>2. /\ row.status # "pending"
          /\ row.auditUser # NoUser
          /\ a \in Applications
          /\ a \in usedApplications
      BY <1>5, <2>1, ConstantsOK DEF DecidedRow, SolveRequest, ApplicationRow, Verdicts,
                     AuditInv, AuditsAreOnUsed, SolveWrite
    <2>3. /\ application' = Update(application, a, row)
          /\ decidedBy' = [decidedBy EXCEPT ![a] = @ \cup {r}]
          /\ UNCHANGED usedApplications
      BY <1>5 DEF SolveWrite
    <2>4. \A s \in Requests : request'[s].pc \in {"audit", "solve"} =>
              s # r /\ request'[s] = request[s]
      BY <1>5, Continued DEF SolveWrite, Idle
    <2> HIDE DEF a, row, q
    <2>5. /\ DOMAIN application' = DOMAIN application
          /\ a \in DOMAIN application => application'[a] = row
          /\ \A b \in DOMAIN application \ {a} : application'[b] = application[b]
      BY <2>3, UpdateRows
    <2>6. /\ decidedBy'[a] = decidedBy[a] \cup {r}
          /\ \A b \in Applications \ {a} : decidedBy'[b] = decidedBy[b]
      BY <2>2, <2>3 DEF TypeOK
    <2>7. AuditStamped'
      BY <2>2, <2>5 DEF AuditInv, AuditStamped
    <2>8. UndecidedIsClean'
      BY <2>2, <2>3, <2>5, <2>6 DEF AuditInv, UndecidedIsClean
    <2>9. NoThreadDecidesTwice' /\ AuditsAreOnUsed'
      <3> SUFFICES ASSUME NEW s \in Requests,
                          request'[s].pc \in {"audit", "solve"}
                   PROVE  /\ s \notin decidedBy'[request'[s].application]
                          /\ request'[s].application \in usedApplications'
        BY DEF NoThreadDecidesTwice, AuditsAreOnUsed
      <3>1. /\ s # r
            /\ request'[s].application = request[s].application
            /\ s \notin decidedBy[request[s].application]
            /\ request[s].application \in usedApplications
        BY <2>4 DEF AuditInv, NoThreadDecidesTwice, AuditsAreOnUsed
      <3>2. request[s].application \in Applications
        BY <3>1 DEF TypeOK
      <3>. QED
        BY <2>3, <2>6, <3>1, <3>2
    <2>. QED
      BY <2>7, <2>8, <2>9 DEF AuditInv
  <1>. QED
    BY <1>1, <1>2, <1>3, <1>4, <1>5 DEF Step

LEMMA InitAudit == Init => AuditInv
  BY DEF Init, AuditInv, AuditStamped, NoThreadDecidesTwice, UndecidedIsClean,
         AuditsAreOnUsed, EmptyTable, Idle

LEMMA NextAudit == TypeOK /\ AuditInv /\ [Next]_vars => AuditInv'
  <1> SUFFICES ASSUME TypeOK, AuditInv, [Next]_vars PROVE AuditInv'
    OBVIOUS
  <1>1. ASSUME NEW d \in Devices, DeviceStep(d)
        PROVE  AuditInv'
    <2>1. UNCHANGED <<applicationVars, request>>
      BY <1>1 DEF DeviceStep, AddDevice, DeleteDevice, EditDevice, SetStatus,
                  SetDept
    <2>. QED
      BY <2>1, SameAudits
  <1>2. ASSUME NEW u \in Users, NEW a \in Applications, DeleteApplication(u, a)
        PROVE  AuditInv'
    <2>1. /\ a \in DOMAIN application
          /\ DOMAIN application' = DOMAIN application \ {a}
          /\ \A b \in DOMAIN application' : application'[b] = application[b]
          /\ UNCHANGED <<usedApplications, decidedBy, request>>
      BY <1>2, DeleteRows DEF DeleteApplication, checkUserCorrect
    <2>2. a \in usedApplications
      BY <2>1 DEF TypeOK, IsTable
    <2>. QED
      BY <2>1, <2>2 DEF AuditInv, AuditStamped, NoThreadDecidesTwice,
                        UndecidedIsClean, AuditsAreOnUsed
  <1>3. CASE Restart
    BY <1>3, SameAudits DEF Restart, Idle
  <1>4. CASE UNCHANGED vars
    BY <1>4, SameAudits DEF vars
  <1>. QED
    BY <1>1, <1>2, <1>3, <1>4, ArriveAudit, StepAudit DEF Next

LEMMA AuditsCorrect == Spec => []AuditInv
  BY InitAudit, NextAudit, TypeCorrect, PTL DEF Spec

\* An application names its auditor exactly when it is decided
\* (ApplicationServiceImpl.solveOperation).
THEOREM Stamped == Spec => []AuditStamped
  <1>1. AuditInv => AuditStamped
    BY DEF AuditInv
  <1>. QED
    BY <1>1, AuditsCorrect, PTL

\* No thread decides an application twice: an audit that begins after a
\* decision never overturns it (ApplicationController.audit).
THEOREM DecidedOncePerThread == Spec => []NoThreadDecidesTwice
  <1>1. AuditInv => NoThreadDecidesTwice
    BY DEF AuditInv
  <1>. QED
    BY <1>1, AuditsCorrect, PTL

-----------------------------------------------------------------------------
(* Devices: the ids applications name, and the repairs counted *)

DeviceInv == NamedDevicesExisted /\ RepairsNeverOvercounted /\ LoadedRowsAreBounded

LEMMA DeviceStepDevices ==
    ASSUME TypeOK, DeviceInv, NEW d \in Devices, DeviceStep(d)
    PROVE  DeviceInv'
  <1>1. UNCHANGED <<application, request, approvedRepairs>>
    BY DEF DeviceStep, AddDevice, DeleteDevice, EditDevice, SetStatus, SetDept,
           applicationVars
  <1>2. CASE AddDevice(d)
    <2>1. d \in Devices /\ approvedRepairs[d] \in Nat
      BY DEF TypeOK
    <2> DEFINE row == [dept |-> NoDept, status |-> "free", repairCount |-> 0]
    <2>2. device' = Insert(device, d, row) /\ row.repairCount = 0
      BY <1>2 DEF AddDevice
    <2> HIDE DEF row
    <2>3. usedDevices \subseteq usedDevices'
      BY <1>2 DEF AddDevice
    <2>4. \A k \in DOMAIN device' :
            \/ k = d /\ device'[k].repairCount = 0
            \/ k \in DOMAIN device /\ device'[k] = device[k]
      BY <2>2 DEF Insert
    <2>5. \A k \in DOMAIN device' : device'[k].repairCount <= approvedRepairs[k]
      BY <2>1, <2>4 DEF DeviceInv, RepairsNeverOvercounted
    <2>. QED
      BY <1>1, <2>3, <2>5 DEF DeviceInv, RepairsNeverOvercounted,
                              NamedDevicesExisted, LoadedRowsAreBounded
  <1>3. CASE DeleteDevice(d)
    <2>1. /\ UNCHANGED usedDevices
          /\ \A k \in DOMAIN device' : k \in DOMAIN device /\ device'[k] = device[k]
      BY <1>3, DeleteRows DEF DeleteDevice
    <2>. QED
      BY <1>1, <2>1 DEF DeviceInv, RepairsNeverOvercounted,
                        NamedDevicesExisted, LoadedRowsAreBounded
  <1>4. ASSUME EditDevice(d) \/ (\E s \in DeviceStatuses : SetStatus(d, s))
                             \/ (\E s \in Depts : SetDept(d, s))
        PROVE  DeviceInv'
    <2>1. UNCHANGED usedDevices /\ DOMAIN device' = DOMAIN device
      BY <1>4 DEF EditDevice, SetStatus, SetDept
    <2>2. \A k \in DOMAIN device :
            \/ device'[k].repairCount = 0
            \/ device'[k].repairCount = device[k].repairCount
      BY <1>4 DEF EditDevice, SetStatus, SetDept, TypeOK, IsTable, DeviceRow
    <2>3. \A k \in DOMAIN device : approvedRepairs[k] \in Nat
      BY DEF TypeOK, IsTable
    <2>. QED
      BY <1>1, <2>1, <2>2, <2>3 DEF DeviceInv, RepairsNeverOvercounted,
                               NamedDevicesExisted, LoadedRowsAreBounded
  <1>. QED
    BY <1>2, <1>3, <1>4 DEF DeviceStep

\* A step that writes no table keeps the invariant if what each request names
\* exists and what it has loaded is bounded.
LEMMA RequestDevices ==
    ASSUME DeviceInv, UNCHANGED <<deviceVars, application>>, NamedDevicesExisted',
           LoadedRowsAreBounded'
    PROVE  DeviceInv'
  BY DEF DeviceInv, RepairsNeverOvercounted, deviceVars

LEMMA ArriveDevices ==
    ASSUME TypeOK, DeviceInv, NEW r \in Requests, Arrive(r)
    PROVE  DeviceInv'
  <1> DEFINE Admitted ==
        /\ UNCHANGED <<deviceVars, application>>
        /\ \A s \in Requests \ {r} : request'[s] = request[s]
        /\ request'[r].pc # "solve"
        /\ request'[r].pc \in {"add", "edit"} => request'[r].device \in usedDevices
  <1>1. Admitted
    <2>1. ASSUME NEW u \in Users, NEW d \in Devices, NEW type \in Types,
                 AddCheck(r, u, d, type)
          PROVE  Admitted
      BY <2>1, Continued DEF AddCheck, MayFile, TypeOK, IsTable, applicationVars
    <2>2. ASSUME NEW u \in Users, NEW a \in Applications, NEW d \in Devices,
                 NEW type \in Types, EditCheck(r, u, a, d, type)
          PROVE  Admitted
      BY <2>2, Continued DEF EditCheck, TypeOK, IsTable, applicationVars
    <2>3. ASSUME NEW u \in Users, NEW a \in Applications,
                 NEW verdict \in Verdicts, AuditCheck(r, u, a, verdict)
          PROVE  Admitted
      BY <2>3, Continued DEF AuditCheck, MayAudit, applicationVars
    <2>. QED
      BY <2>1, <2>2, <2>3 DEF Arrive
  <1>2. NamedDevicesExisted' /\ LoadedRowsAreBounded'
    BY <1>1 DEF DeviceInv, NamedDevicesExisted, LoadedRowsAreBounded, deviceVars
  <1>. QED
    BY <1>1, <1>2, RequestDevices

LEMMA StepDevices ==
    ASSUME TypeOK, DeviceInv, NEW r \in Requests, Step(r)
    PROVE  DeviceInv'
  <1> DEFINE q == request[r]
  <1>1. ASSUME NEW a \in Applications, AddInsert(r, a)
        PROVE  DeviceInv'
    <2> DEFINE row == [device |-> q.device, type |-> q.type,
                       status |-> "pending", user |-> q.user,
                       auditUser |-> NoUser]
    <2>1. /\ application' = Insert(application, a, row)
          /\ UNCHANGED deviceVars
          /\ q.pc = "add"
      BY <1>1 DEF AddInsert
    <2>2. /\ \A s \in Requests \ {r} : request'[s] = request[s]
          /\ request'[r].pc \notin {"add", "edit", "solve"}
      BY <1>1, Continued DEF AddInsert, Idle
    <2>3. row.device \in usedDevices
      BY <2>1 DEF DeviceInv, NamedDevicesExisted
    <2> HIDE DEF row, q
    <2>4. \A k \in DOMAIN application' :
              \/ k = a
              \/ k \in DOMAIN application /\ application'[k] = application[k]
      BY <2>1 DEF Insert
    <2>5. a \in DOMAIN application' => application'[a].device \in usedDevices
      BY <2>1, <2>3 DEF Insert
    <2>6. NamedDevicesExisted' /\ LoadedRowsAreBounded'
      BY <2>1, <2>2, <2>4, <2>5
         DEF DeviceInv, NamedDevicesExisted, LoadedRowsAreBounded, deviceVars
    <2>. QED
      BY <2>1, <2>6 DEF DeviceInv, RepairsNeverOvercounted, deviceVars
  <1>2. CASE EditWrite(r)
    <2> DEFINE row == EditedRow(q, application[q.application])
    <2>1. /\ application' = Update(application, q.application, row)
          /\ UNCHANGED deviceVars
          /\ q.pc = "edit"
      BY <1>2 DEF EditWrite
    <2>2. /\ \A s \in Requests \ {r} : request'[s] = request[s]
          /\ request'[r].pc \notin {"add", "edit", "solve"}
      BY <1>2, Continued DEF EditWrite, Idle
    <2>3. q.application \in DOMAIN application => row.device \in usedDevices
      BY <2>1 DEF EditedRow, DeviceInv, NamedDevicesExisted, TypeOK, IsTable,
                  ApplicationRow
    <2> HIDE DEF row
    <2>4. \A k \in DOMAIN application' : application'[k].device \in usedDevices
      BY <2>1, <2>3, UpdateRows DEF DeviceInv, NamedDevicesExisted
    <2>5. NamedDevicesExisted' /\ LoadedRowsAreBounded'
      BY <2>1, <2>2, <2>4
         DEF DeviceInv, NamedDevicesExisted, LoadedRowsAreBounded, deviceVars
    <2>. QED
      BY <2>1, <2>5 DEF DeviceInv, RepairsNeverOvercounted, deviceVars
  <1>3. CASE SolveRead(r)
    <2> DEFINE d == request'[r].row.device
    <2>1. /\ UNCHANGED <<deviceVars, applicationVars>>
          /\ \A s \in Requests \ {r} : request'[s] = request[s]
          /\ request'[r] \in SolveRequest
          /\ d \in DOMAIN device
          /\ request'[r].deviceRow = device[d]
      BY <1>3, SolveReadLoads DEF SolveRead, TypeOK
    <2>2. request'[r].pc = "solve" /\ d \in usedDevices
      BY <2>1 DEF SolveRequest, TypeOK, IsTable
    <2>3. request'[r].deviceRow.repairCount <= approvedRepairs[d]
      BY <2>1 DEF DeviceInv, RepairsNeverOvercounted
    <2>4. NamedDevicesExisted' /\ LoadedRowsAreBounded'
      BY <2>1, <2>2, <2>3 DEF DeviceInv, NamedDevicesExisted, LoadedRowsAreBounded,
                              deviceVars, applicationVars
    <2>. QED
      BY <2>1, <2>4, RequestDevices DEF applicationVars
  <1>4. CASE SolveFail(r)
    <2>1. /\ UNCHANGED <<deviceVars, applicationVars>>
          /\ \A s \in Requests \ {r} : request'[s] = request[s]
          /\ request'[r].pc \notin {"add", "edit", "solve"}
      BY <1>4, Continued DEF SolveFail, Idle
    <2>2. NamedDevicesExisted' /\ LoadedRowsAreBounded'
      BY <2>1 DEF DeviceInv, NamedDevicesExisted, LoadedRowsAreBounded,
                  deviceVars, applicationVars
    <2>. QED
      BY <2>1, <2>2, RequestDevices DEF applicationVars
  <1>5. CASE SolveWrite(r)
    <2> DEFINE d == q.row.device
               a == q.application
               row == DecidedRow(q)
               stored == SolvedDevice(q, device[d])
               repair == q.verdict = "approved" /\ q.row.type = "repair"
    <2>1. q \in SolveRequest /\ q.pc = "solve"
      BY <1>5, RequestTypes DEF SolveWrite
    <2>2. /\ application' = Update(application, a, row)
          /\ device' = Update(device, d, stored)
          /\ approvedRepairs' = IF repair
                                THEN [approvedRepairs EXCEPT ![d] = @ + 1]
                                ELSE approvedRepairs
          /\ UNCHANGED usedDevices
      BY <1>5 DEF SolveWrite
    <2>3. /\ \A s \in Requests \ {r} : request'[s] = request[s]
          /\ request'[r].pc \notin {"add", "edit", "solve"}
      BY <1>5, Continued DEF SolveWrite, Idle
    <2>4. /\ q.row \in ApplicationRow /\ q.deviceRow \in DeviceRow
          /\ row.device = d /\ d \in Devices
          /\ q.verdict \in Verdicts /\ q.row.type \in Types
      BY <2>1 DEF DecidedRow, SolveRequest, ApplicationRow
    <2>5. /\ d \in usedDevices
          /\ q.deviceRow.repairCount <= approvedRepairs[d]
      BY <2>1 DEF DeviceInv, LoadedRowsAreBounded
    <2>6. /\ \A k \in Devices : approvedRepairs[k] \in Nat /\ approvedRepairs'[k] \in Nat
          /\ \A k \in Devices : approvedRepairs[k] <= approvedRepairs'[k]
          /\ repair => approvedRepairs'[d] = approvedRepairs[d] + 1
      BY <2>2, <2>4 DEF TypeOK
    <2>7. d \in DOMAIN device => stored.repairCount <= approvedRepairs'[d]
      <3> SUFFICES ASSUME d \in DOMAIN device
                   PROVE  stored.repairCount <= approvedRepairs'[d]
        OBVIOUS
      <3>1. /\ q.deviceRow.repairCount \in Nat
            /\ device[d] \in DeviceRow /\ device[d].repairCount \in Nat
            /\ device[d].repairCount <= approvedRepairs[d]
        BY <2>4 DEF DeviceInv, RepairsNeverOvercounted, TypeOK, IsTable, DeviceRow
      <3>2. CASE q.verdict = "refused"
        <4>1. stored = device[d]
          BY <3>2 DEF SolvedDevice
        <4>. QED
          BY <2>4, <2>6, <3>1, <4>1
      <3>3. CASE q.verdict = "approved" /\ q.row.type = "apply"
        <4>1. stored = [q.deviceRow EXCEPT !.dept = DeptOf[q.auditor]]
          BY <3>3 DEF SolvedDevice
        <4>2. stored.repairCount = q.deviceRow.repairCount
          BY <2>4, <4>1 DEF DeviceRow
        <4>. QED
          BY <2>4, <2>5, <2>6, <3>1, <4>2
      <3>4. CASE repair
        <4>1. stored = [q.deviceRow EXCEPT
                          !.dept = IF @ = NoDept THEN device[d].dept ELSE @,
                          !.repairCount = @ + 1]
          BY <3>4 DEF SolvedDevice
        <4>2. stored.repairCount = q.deviceRow.repairCount + 1
          BY <2>4, <4>1 DEF DeviceRow
        <4> HIDE DEF stored, repair, d, q
        <4>. QED
          BY <2>4, <2>5, <2>6, <3>1, <3>4, <4>2
      <3>5. CASE q.verdict = "approved" /\ q.row.type = "return"
        <4>1. stored = [q.deviceRow EXCEPT !.dept = NoDept, !.status = "free"]
          BY <3>5 DEF SolvedDevice
        <4>2. stored.repairCount = q.deviceRow.repairCount
          BY <2>4, <4>1 DEF DeviceRow
        <4>. QED
          BY <2>4, <2>5, <2>6, <3>1, <4>2
      <3>. QED
        BY <2>4, <3>2, <3>3, <3>4, <3>5 DEF Verdicts, Types
    <2> HIDE DEF row, stored, repair, d, a, q
    <2>8. RepairsNeverOvercounted'
      <3> SUFFICES ASSUME NEW k \in DOMAIN device'
                   PROVE  device'[k].repairCount <= approvedRepairs'[k]
        BY DEF RepairsNeverOvercounted
      <3>1. k \in DOMAIN device /\ k \in Devices
        BY <2>2, UpdateRows DEF TypeOK, IsTable
      <3>2. CASE k = d
        BY <2>2, <2>7, <3>1, <3>2, UpdateRows
      <3>3. CASE k # d
        <4>1. device'[k] = device[k]
          BY <2>2, <3>1, <3>3, UpdateRows
        <4>2. device[k].repairCount \in Nat
          BY <3>1 DEF TypeOK, IsTable, DeviceRow
        <4>. QED
          BY <2>6, <3>1, <4>1, <4>2 DEF DeviceInv, RepairsNeverOvercounted
      <3>. QED
        BY <3>2, <3>3
    <2>9. \A k \in DOMAIN application' : application'[k].device \in usedDevices
      BY <2>2, <2>4, <2>5 DEF Update, DeviceInv, NamedDevicesExisted
    <2>10. NamedDevicesExisted'
      BY <2>2, <2>3, <2>9 DEF DeviceInv, NamedDevicesExisted
    <2>11. LoadedRowsAreBounded'
      <3> SUFFICES ASSUME NEW s \in Requests, request'[s].pc = "solve"
                   PROVE  /\ request'[s].row.device \in usedDevices'
                          /\ request'[s].deviceRow.repairCount
                                <= approvedRepairs'[request'[s].row.device]
        BY DEF LoadedRowsAreBounded
      <3>1. s # r /\ request'[s] = request[s] /\ request[s].pc = "solve"
        BY <2>3
      <3>2. request[s] \in SolveRequest
        BY <3>1, RequestTypes
      <3>3. /\ request[s].row.device \in Devices
            /\ request[s].deviceRow.repairCount \in Nat
        BY <3>2 DEF DecidedRow, SolveRequest, ApplicationRow, DeviceRow
      <3>4. /\ request[s].row.device \in usedDevices
            /\ request[s].deviceRow.repairCount
                  <= approvedRepairs[request[s].row.device]
        BY <3>1 DEF DeviceInv, LoadedRowsAreBounded
      <3>. QED
        BY <2>2, <2>6, <3>1, <3>3, <3>4
    <2>. QED
      BY <2>8, <2>10, <2>11 DEF DeviceInv
  <1>. QED
    BY <1>1, <1>2, <1>3, <1>4, <1>5 DEF Step

LEMMA InitDevices == Init => DeviceInv
  BY DEF Init, DeviceInv, NamedDevicesExisted, RepairsNeverOvercounted,
         LoadedRowsAreBounded, EmptyTable, Idle

LEMMA NextDevices == TypeOK /\ DeviceInv /\ [Next]_vars => DeviceInv'
  <1> SUFFICES ASSUME TypeOK, DeviceInv, [Next]_vars PROVE DeviceInv'
    OBVIOUS
  <1>1. ASSUME NEW u \in Users, NEW a \in Applications, DeleteApplication(u, a)
        PROVE  DeviceInv'
    BY <1>1 DEF DeleteApplication, Delete, deviceVars, DeviceInv,
                NamedDevicesExisted, RepairsNeverOvercounted, LoadedRowsAreBounded
  <1>2. CASE Restart
    BY <1>2 DEF Restart, Idle, deviceVars, applicationVars, DeviceInv,
                NamedDevicesExisted, RepairsNeverOvercounted, LoadedRowsAreBounded
  <1>3. CASE UNCHANGED vars
    BY <1>3 DEF vars, deviceVars, applicationVars, DeviceInv,
                NamedDevicesExisted, RepairsNeverOvercounted, LoadedRowsAreBounded
  <1>. QED
    BY <1>1, <1>2, <1>3, ArriveDevices, StepDevices, DeviceStepDevices DEF Next

LEMMA DevicesCorrect == Spec => []DeviceInv
  BY InitDevices, NextDevices, TypeCorrect, PTL DEF Spec

\* No device ever shows more repairs than were approved for it
\* (ApplicationServiceImpl.solveOperation).
THEOREM NoRepairInvented == Spec => []RepairsNeverOvercounted
  <1>1. DeviceInv => RepairsNeverOvercounted
    BY DEF DeviceInv
  <1>. QED
    BY <1>1, DevicesCorrect, PTL

\* Applications and requests name only devices that have existed
\* (checkDeviceIsExist in ApplicationController).
THEOREM DevicesWereReal == Spec => []NamedDevicesExisted
  <1>1. DeviceInv => NamedDevicesExisted
    BY DEF DeviceInv
  <1>. QED
    BY <1>1, DevicesCorrect, PTL

-----------------------------------------------------------------------------
(* With one thread a decision is final *)

\* If at most one request is served at a time, an application keeps the
\* decision it got: overlapping audits are the only way to lose one
\* (ApplicationController.audit).
THEOREM SerialDecisionIsFinal ==
    ASSUME \A r, s \in Requests : r = s
    PROVE  Spec => DecisionIsFinal
  <1> DEFINE Undecided ==
        \A r \in Requests :
            /\ request[r].pc \in {"audit", "solve"}
            /\ request[r].application \in DOMAIN application
            => application[request[r].application].status = "pending"
      Kept ==
        \A a \in DOMAIN application \cap DOMAIN application' :
          application[a].status # "pending"
              => application'[a].status = application[a].status
  <1>1. Init => Undecided
    BY DEF Init, Idle
  <1>2. TypeOK /\ AuditInv /\ Undecided /\ [Next]_vars => Undecided' /\ Kept
    <2> SUFFICES ASSUME TypeOK, AuditInv, Undecided, [Next]_vars
                 PROVE  Undecided' /\ Kept
      OBVIOUS
    <2>1. CASE UNCHANGED applicationVars /\
               \A r \in Requests : request'[r].pc \in {"audit", "solve"} =>
                  /\ request[r].pc \in {"audit", "solve"}
                  /\ request'[r].application = request[r].application
      BY <2>1 DEF applicationVars
    <2>2. ASSUME NEW r \in Requests, Arrive(r)
          PROVE  Undecided' /\ Kept
      <3>1. ASSUME NEW u \in Users, NEW d \in Devices, NEW type \in Types,
                   AddCheck(r, u, d, type)
            PROVE  Undecided' /\ Kept
        BY <2>1, <3>1, Continued DEF AddCheck
      <3>2. ASSUME NEW u \in Users, NEW a \in Applications, NEW d \in Devices,
                   NEW type \in Types, EditCheck(r, u, a, d, type)
            PROVE  Undecided' /\ Kept
        BY <2>1, <3>2, Continued DEF EditCheck
      <3>3. ASSUME NEW u \in Users, NEW a \in Applications,
                   NEW verdict \in Verdicts, AuditCheck(r, u, a, verdict)
            PROVE  Undecided' /\ Kept
        <4>1. /\ application[a].status = "pending"
              /\ UNCHANGED applicationVars
              /\ request'[r].application = a
              /\ \A s \in Requests \ {r} : request'[s] = request[s]
          BY <3>3, Continued DEF AuditCheck, MayAudit
        <4>. QED
          BY <4>1 DEF applicationVars
      <3>. QED
        BY <2>2, <3>1, <3>2, <3>3 DEF Arrive
    <2>3. ASSUME NEW r \in Requests, NEW a \in Applications, AddInsert(r, a)
          PROVE  Undecided' /\ Kept
      <3>1. \A s \in Requests : request'[s] = Idle
        BY <2>3, Continued DEF AddInsert
      <3>2. a \notin DOMAIN application
        BY <2>3 DEF AddInsert, TypeOK, IsTable
      <3>. QED
        BY <2>3, <3>1, <3>2 DEF AddInsert, Insert, Idle
    <2>4. ASSUME NEW r \in Requests, EditWrite(r)
          PROVE  Undecided' /\ Kept
      <3>1. \A s \in Requests : request'[s] = Idle
        BY <2>4, Continued DEF EditWrite
      <3>2. \A b \in DOMAIN application : application[b] \in ApplicationRow
        BY DEF TypeOK, IsTable
      <3>. QED
        BY <2>4, <3>1, <3>2 DEF EditWrite, EditedRow, Update, Idle, ApplicationRow
    <2>5. ASSUME NEW r \in Requests, SolveRead(r)
          PROVE  Undecided' /\ Kept
      <3>1. /\ request[r].pc = "audit"
            /\ request'[r].application = request[r].application
            /\ \A s \in Requests \ {r} : request'[s] = request[s]
            /\ UNCHANGED applicationVars
        BY <2>5, SolveReadLoads DEF SolveRead, TypeOK
      <3>. QED
        BY <2>1, <3>1
    <2>6. ASSUME NEW r \in Requests, SolveFail(r)
          PROVE  Undecided' /\ Kept
      BY <2>1, <2>6, Continued DEF SolveFail, Idle
    <2>7. ASSUME NEW r \in Requests, SolveWrite(r)
          PROVE  Undecided' /\ Kept
      <3>1. \A s \in Requests : request'[s] = Idle
        BY <2>7, Continued DEF SolveWrite
      <3>2. \A b \in DOMAIN application \ {request[r].application} :
                application'[b] = application[b]
        BY <2>7, UpdateRows DEF SolveWrite
      <3>3. request[r].application \in DOMAIN application =>
                application[request[r].application].status = "pending"
        BY <2>7 DEF SolveWrite
      <3>4. Undecided'
        BY <3>1 DEF Idle
      <3>. QED
        BY <3>2, <3>3, <3>4
    <2>8. ASSUME NEW u \in Users, NEW a \in Applications, DeleteApplication(u, a)
          PROVE  Undecided' /\ Kept
      <3>1. /\ request' = request
            /\ DOMAIN application' \subseteq DOMAIN application
            /\ \A b \in DOMAIN application' : application'[b] = application[b]
        BY <2>8, DeleteRows DEF DeleteApplication
      <3>. QED
        BY <3>1
    <2>9. ASSUME NEW d \in Devices, DeviceStep(d)
          PROVE  Undecided' /\ Kept
      BY <2>1, <2>9 DEF DeviceStep, AddDevice, DeleteDevice, EditDevice,
                        SetStatus, SetDept
    <2>10. CASE Restart
      BY <2>1, <2>10 DEF Restart, Idle
    <2>11. CASE UNCHANGED vars
      BY <2>1, <2>11 DEF vars
    <2>. QED
      BY <2>2, <2>3, <2>4, <2>5, <2>6, <2>7, <2>8, <2>9, <2>10, <2>11
         DEF Next, Step
  <1>3. [][Kept]_vars => DecisionIsFinal
    BY PTL DEF DecisionIsFinal
  <1> HIDE DEF Undecided, Kept
  <1>. QED
    BY <1>1, <1>2, <1>3, TypeCorrect, AuditsCorrect, PTL DEF Spec

-----------------------------------------------------------------------------
(* The handlers implement the audit office *)

LEMMA SamePhase ==
    ASSUME UNCHANGED usedApplications,
           DOMAIN application' = DOMAIN application,
           \A a \in DOMAIN application :
              application'[a].status = application[a].status
    PROVE  UNCHANGED phaseOf
  BY DEF phaseOf

LEMMA SameOpen ==
    ASSUME \A r \in Requests :
              /\ request'[r].pc \in {"audit", "solve"}
                    <=> request[r].pc \in {"audit", "solve"}
              /\ request[r].pc \in {"audit", "solve"}
                    => request'[r].application = request[r].application
    PROVE  UNCHANGED openOn
  BY DEF openOn

\* Audits only end: the office sees them abandoned.
LEMMA FewerOpen ==
    ASSUME \A r \in Requests :
              request'[r].pc \in {"audit", "solve"} => request'[r] = request[r],
           UNCHANGED phaseOf
    PROVE  Office!Abandon
  BY DEF Office!Abandon, openOn

LEMMA OfficeInit == Init => Office!AInit
  BY DEF Init, Office!AInit, phaseOf, openOn, EmptyTable, Idle

LEMMA OfficeStep ==
    ASSUME TypeOK, AuditInv, NEW r \in Requests, Step(r)
    PROVE  [Office!ANext]_(Office!avars)
  <1> DEFINE q == request[r]
  <1> USE DEF Office!avars
  <1>1. ASSUME NEW a \in Applications, AddInsert(r, a)
        PROVE  Office!File(a)
    <2>1. UNCHANGED openOn
      BY <1>1, Continued, SameOpen DEF AddInsert, Idle
    <2>2. /\ a \notin usedApplications /\ a \notin DOMAIN application
          /\ DOMAIN application' = DOMAIN application \cup {a}
          /\ usedApplications' = usedApplications \cup {a}
          /\ application'[a].status = "pending"
          /\ \A b \in DOMAIN application : application'[b].status = application[b].status
      BY <1>1 DEF AddInsert, Insert, TypeOK, IsTable
    <2>. QED
      BY <2>1, <2>2 DEF Office!File, phaseOf
  <1>2. CASE EditWrite(r)
    <2>1. \A b \in DOMAIN application : application[b] \in ApplicationRow
      BY DEF TypeOK, IsTable
    <2>2. UNCHANGED phaseOf
      BY <1>2, <2>1, SamePhase DEF EditWrite, EditedRow, Update, ApplicationRow
    <2>3. UNCHANGED openOn
      BY <1>2, Continued, SameOpen DEF EditWrite, Idle
    <2>. QED
      BY <2>2, <2>3
  <1>3. CASE SolveRead(r)
    <2>1. /\ q.pc = "audit" /\ request'[r].pc = "solve"
          /\ request'[r].application = q.application
          /\ \A s \in Requests \ {r} : request'[s] = request[s]
          /\ UNCHANGED applicationVars
      BY <1>3, SolveReadLoads DEF SolveRead, TypeOK, SolveRequest
    <2>. QED
      BY <2>1, SamePhase, SameOpen DEF applicationVars
  <1>4. CASE SolveFail(r)
    <2>1. UNCHANGED phaseOf
      BY <1>4, SamePhase DEF SolveFail, applicationVars
    <2>2. Office!Abandon
      BY <1>4, <2>1, Continued, FewerOpen DEF SolveFail, Idle
    <2>. QED
      BY <2>2 DEF Office!ANext
  <1>5. CASE SolveWrite(r)
    <2> DEFINE a == q.application
               row == DecidedRow(q)
    <2>1. q \in SolveRequest /\ q.pc = "solve"
      BY <1>5, RequestTypes DEF SolveWrite
    <2>2. /\ a \in Applications /\ a \in usedApplications
          /\ q.verdict \in {"approved", "refused"}
          /\ row.status = q.verdict
      BY <2>1 DEF DecidedRow, SolveRequest, ApplicationRow, Verdicts, AuditInv, AuditsAreOnUsed
    <2>3. /\ application' = Update(application, a, row)
          /\ UNCHANGED usedApplications
      BY <1>5 DEF SolveWrite
    <2>4. /\ request'[r].pc = "idle"
          /\ \A s \in Requests \ {r} : request'[s] = request[s]
      BY <1>5, Continued DEF SolveWrite, Idle
    <2> HIDE DEF row
    <2>5. CASE a \in DOMAIN application
      <3>1. /\ DOMAIN application' = DOMAIN application
            /\ application'[a].status = q.verdict
            /\ \A b \in DOMAIN application \ {a} : application'[b] = application[b]
        BY <2>2, <2>3, <2>5, UpdateRows
      <3>2. phaseOf' = [phaseOf EXCEPT ![a] = q.verdict]
        BY <2>2, <2>3, <2>5, <3>1 DEF phaseOf
      <3>3. openOn' = [openOn EXCEPT ![a] = @ \ {r}]
        BY <2>1, <2>2, <2>4 DEF openOn
      <3>4. r \in openOn[a]
        BY <2>1, <2>2 DEF openOn
      <3>5. phaseOf[a] \in {"pending", "approved", "refused"}
        BY <2>2, <2>5 DEF phaseOf, TypeOK, IsTable, ApplicationRow, Statuses, Verdicts
      <3>6. Office!Decide(a, r, q.verdict)
        BY <3>2, <3>3, <3>4, <3>5 DEF Office!Decide
      <3>. QED
        BY <2>2, <3>6 DEF Office!ANext
    <2>6. CASE a \notin DOMAIN application
      <3>1. /\ DOMAIN application' = DOMAIN application
            /\ \A b \in DOMAIN application : application'[b] = application[b]
        BY <2>3, <2>6, UpdateRows
      <3>2. UNCHANGED phaseOf
        BY <2>3, <3>1, SamePhase
      <3>3. Office!Abandon
        BY <2>4, <3>2, FewerOpen
      <3>. QED
        BY <3>3 DEF Office!ANext
    <2>. QED
      BY <2>5, <2>6
  <1>. QED
    BY <1>1, <1>2, <1>3, <1>4, <1>5 DEF Step, Office!ANext

LEMMA OfficeArrive ==
    ASSUME TypeOK, NEW r \in Requests, Arrive(r)
    PROVE  [Office!ANext]_(Office!avars)
  <1> USE DEF Office!avars
  <1>1. ASSUME NEW u \in Users, NEW d \in Devices, NEW type \in Types,
               AddCheck(r, u, d, type)
        PROVE  UNCHANGED <<phaseOf, openOn>>
    BY <1>1, Continued, SamePhase, SameOpen DEF AddCheck, Idle, applicationVars
  <1>2. ASSUME NEW u \in Users, NEW a \in Applications, NEW d \in Devices,
               NEW type \in Types, EditCheck(r, u, a, d, type)
        PROVE  UNCHANGED <<phaseOf, openOn>>
    BY <1>2, Continued, SamePhase, SameOpen DEF EditCheck, Idle, applicationVars
  <1>3. ASSUME NEW u \in Users, NEW a \in Applications, NEW verdict \in Verdicts,
               AuditCheck(r, u, a, verdict)
        PROVE  Office!OpenAudit(a, r)
    <2>1. /\ request[r].pc = "idle"
          /\ a \in DOMAIN application /\ application[a].status = "pending"
          /\ UNCHANGED applicationVars
          /\ request'[r].pc = "audit" /\ request'[r].application = a
          /\ \A s \in Requests \ {r} : request'[s] = request[s]
      BY <1>3, Continued DEF AuditCheck, MayAudit, Idle
    <2>2. UNCHANGED phaseOf
      BY <2>1, SamePhase DEF applicationVars
    <2>3. openOn' = [openOn EXCEPT ![a] = @ \cup {r}]
      <3>1. openOn'[a] = openOn[a] \cup {r}
        BY <2>1 DEF openOn
      <3>2. \A b \in Applications \ {a} : openOn'[b] = openOn[b]
        BY <2>1 DEF openOn
      <3>. QED
        BY <3>1, <3>2 DEF openOn
    <2>4. \A b \in Applications : r \notin openOn[b]
      BY <2>1 DEF openOn
    <2>5. phaseOf[a] = "pending"
      BY <2>1 DEF phaseOf
    <2>. QED
      BY <2>2, <2>3, <2>4, <2>5 DEF Office!OpenAudit
  <1>. QED
    BY <1>1, <1>2, <1>3 DEF Arrive, Office!ANext

LEMMA OfficeNext ==
    TypeOK /\ AuditInv /\ [Next]_vars => [Office!ANext]_(Office!avars)
  <1> SUFFICES ASSUME TypeOK, AuditInv, [Next]_vars
               PROVE  [Office!ANext]_(Office!avars)
    OBVIOUS
  <1> USE DEF Office!avars
  <1>1. ASSUME NEW d \in Devices, DeviceStep(d)
        PROVE  UNCHANGED <<phaseOf, openOn>>
    <2>1. UNCHANGED <<applicationVars, request>>
      BY <1>1 DEF DeviceStep, AddDevice, DeleteDevice, EditDevice, SetStatus,
                  SetDept
    <2>. QED
      BY <2>1, SamePhase, SameOpen DEF applicationVars
  <1>2. ASSUME NEW u \in Users, NEW a \in Applications, DeleteApplication(u, a)
        PROVE  Office!Remove(a)
    <2>1. /\ a \in DOMAIN application
          /\ DOMAIN application' = DOMAIN application \ {a}
          /\ \A b \in DOMAIN application' : application'[b] = application[b]
          /\ UNCHANGED <<usedApplications, request>>
      BY <1>2, DeleteRows DEF DeleteApplication, checkUserCorrect
    <2>2. a \in usedApplications
      BY <2>1 DEF TypeOK, IsTable
    <2>3. phaseOf' = [phaseOf EXCEPT ![a] = "removed"]
      BY <2>1, <2>2 DEF phaseOf
    <2>4. phaseOf[a] \in {"pending", "approved", "refused"}
      BY <2>1 DEF phaseOf, TypeOK, IsTable, ApplicationRow, Statuses, Verdicts
    <2>5. UNCHANGED openOn
      BY <2>1, SameOpen
    <2>. QED
      BY <2>3, <2>4, <2>5 DEF Office!Remove
  <1>3. CASE Restart
    <2>1. UNCHANGED phaseOf
      BY <1>3, SamePhase DEF Restart, applicationVars
    <2>2. Office!Abandon
      BY <1>3, <2>1, FewerOpen DEF Restart, Idle
    <2>. QED
      BY <2>2 DEF Office!ANext
  <1>4. CASE UNCHANGED vars
    BY <1>4, SamePhase, SameOpen DEF vars, applicationVars
  <1>. QED
    BY <1>1, <1>2, <1>3, <1>4, OfficeArrive, OfficeStep DEF Next, Office!ANext

\* The handlers, with their overlapping audits, edits, deletions and restarts,
\* implement the audit office: an application is filed once, decided only by
\* audits opened while it was pending, and never pending or back again
\* (ApplicationController, ApplicationServiceImpl).
THEOREM Implementation == Spec => ImplementsAuditOffice
  BY OfficeInit, OfficeNext, TypeCorrect, AuditsCorrect, PTL
     DEF Spec, ImplementsAuditOffice, Office!ASpec
=============================================================================
