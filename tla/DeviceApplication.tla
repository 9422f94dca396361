------------------------- MODULE DeviceApplication -------------------------
(***************************************************************************)
(* Devices and the applications users file for them (ApplicationController,*)
(* ApplicationServiceImpl, DeviceController).  A user applies for a device, *)
(* or, when the department holds it, for its repair or its return; an       *)
(* auditor approves or refuses, and an approval changes the device.         *)
(*                                                                          *)
(* Requests are the servlet threads.  A handler that reads the database and *)
(* acts on what it read in a later statement takes one step per read and    *)
(* per write, and keeps in its request what it carries from one to the      *)
(* next.  The transaction of solveOperation is two steps: its reads, which  *)
(* InnoDB serves from one snapshot, and its writes, which hold their row    *)
(* locks until the commit and so take effect together; a restart between    *)
(* the two leaves nothing.                                                  *)
(***************************************************************************)
EXTENDS Integers, Tables

CONSTANTS
    Devices,        \* ids of t_device; a deleted id is never handed out again
    Applications,   \* ids of t_application
    Users,          \* logged in users
    Admins,         \* those ShiroKit.isAdmin() accepts
    Depts,
    DeptOf,         \* the department in each user's session
    Requests,       \* threads that serve requests
    NoDept, NoUser  \* NULL in t_device.dept and in t_application.audit_user

ASSUME ConstantsOK ==
    /\ Admins \subseteq Users
    /\ DeptOf \in [Users -> Depts]
    /\ NoDept \notin Depts
    /\ NoUser \notin Users

VARIABLES
    device,         \* t_device: the rows stored
    usedDevices,    \* device ids handed out so far
    application,    \* t_application
    usedApplications,
    request,        \* what each thread is doing
    approvedRepairs,\* history: repairs approved and committed, per device id
    decidedBy       \* history: threads that have decided each application

deviceVars == <<device, usedDevices, approvedRepairs>>
applicationVars == <<application, usedApplications, decidedBy>>
vars == <<deviceVars, applicationVars, request>>

-----------------------------------------------------------------------------
Types == {"apply", "repair", "return"}             \* "0", "1", "2"
Verdicts == {"approved", "refused"}                \* "1", "2"
Statuses == {"pending"} \cup Verdicts              \* "0", "1", "2"
DeviceStatuses == {"free", "assigned"}             \* "0", "1"

DeviceRow == [dept: Depts \cup {NoDept}, status: DeviceStatuses,
              repairCount: Nat]
ApplicationRow == [device: Devices, type: Types, status: Statuses,
                   user: Users, auditUser: Users \cup {NoUser}]

Idle == [pc |-> "idle"]
AddRequest == [pc: {"add"}, user: Users, device: Devices, type: Types]
EditRequest == [pc: {"edit"}, application: Applications, device: Devices,
                type: Types]
AuditRequest == [pc: {"audit"}, auditor: Users, application: Applications,
                 verdict: Verdicts]
\* Inside the transaction: row and deviceRow are the entities it has loaded.
SolveRequest == [pc: {"solve"}, auditor: Users, application: Applications,
                 verdict: Verdicts, row: ApplicationRow, deviceRow: DeviceRow]
Request == {Idle} \cup AddRequest \cup EditRequest \cup AuditRequest
                  \cup SolveRequest

Init ==
    /\ device = EmptyTable
    /\ usedDevices = {}
    /\ application = EmptyTable
    /\ usedApplications = {}
    /\ request = [r \in Requests |-> Idle]
    /\ approvedRepairs = [d \in Devices |-> 0]
    /\ decidedBy = [a \in Applications |-> {}]

\* The thread goes on with what it holds in q, or answers when q is Idle.
Continue(r, q) == request' = [request EXCEPT ![r] = q]
-----------------------------------------------------------------------------
(* Devices *)

\* The form has a name only: no department, no repairs.
AddDevice(d) ==
    /\ d \notin usedDevices
    /\ device' = Insert(device, d, [dept |-> NoDept, status |-> "free",
                                    repairCount |-> 0])
    /\ usedDevices' = usedDevices \cup {d}
    /\ UNCHANGED <<approvedRepairs, applicationVars, request>>

\* Applications for the device are left as they are.
DeleteDevice(d) ==
    /\ d \in DOMAIN device
    /\ device' = Delete(device, d)
    /\ UNCHANGED <<usedDevices, approvedRepairs, applicationVars, request>>

\* The form has the id and the name, but repairCount is a primitive int: it
\* is 0 in the bound entity, never null, and the selective update writes it.
EditDevice(d) ==
    /\ d \in DOMAIN device
    /\ device' = [device EXCEPT ![d].repairCount = 0]
    /\ UNCHANGED <<usedDevices, approvedRepairs, applicationVars, request>>

SetStatus(d, status) ==
    /\ d \in DOMAIN device
    /\ device' = [device EXCEPT ![d].status = status]
    /\ UNCHANGED <<usedDevices, approvedRepairs, applicationVars, request>>

SetDept(d, dept) ==
    /\ d \in DOMAIN device
    /\ device' = [device EXCEPT ![d].dept = dept]
    /\ UNCHANGED <<usedDevices, approvedRepairs, applicationVars, request>>
-----------------------------------------------------------------------------
(* Filing, editing and deleting applications *)

\* Bug: the existence check is left to the check on the holder.
MayFileUnknown(u, d, type) ==
    type # "apply" => /\ d \in DOMAIN device
                      /\ device[d].status = "assigned"
                      /\ device[d].dept = DeptOf[u]

\* Anyone may apply for a device; its repair or return is for users of the
\* department that holds it.
MayFile(u, d, type) ==
    /\ d \in DOMAIN device
    /\ type # "apply" => /\ device[d].status = "assigned"
                         /\ device[d].dept = DeptOf[u]

AddCheck(r, u, d, type) ==
    /\ request[r] = Idle
    /\ MayFile(u, d, type)
    /\ Continue(r, [pc |-> "add", user |-> u, device |-> d, type |-> type])
    /\ UNCHANGED <<deviceVars, applicationVars>>

AddInsert(r, a) ==
    /\ request[r].pc = "add"
    /\ a \in Applications \ usedApplications
    /\ application' = Insert(application, a,
            [device |-> request[r].device, type |-> request[r].type,
             status |-> "pending", user |-> request[r].user,
             auditUser |-> NoUser])
    /\ usedApplications' = usedApplications \cup {a}
    /\ Continue(r, Idle)
    /\ UNCHANGED <<deviceVars, decidedBy>>

\* The applicant and the administrators, of an application that exists.
checkUserCorrect(u, a) ==
    /\ a \in DOMAIN application
    /\ application[a].user = u \/ u \in Admins

EditCheck(r, u, a, d, type) ==
    /\ request[r] = Idle
    /\ d \in DOMAIN device
    /\ checkUserCorrect(u, a)
    /\ Continue(r, [pc |-> "edit", application |-> a, device |-> d,
                    type |-> type])
    /\ UNCHANGED <<deviceVars, applicationVars>>

\* Bug: an edited application is put up for audit again.
EditedRowReopened(q, stored) ==
    [stored EXCEPT !.device = q.device, !.type = q.type, !.status = "pending",
                   !.auditUser = NoUser]

\* What a selective update with the form leaves over the row stored now.
EditedRow(q, stored) == [stored EXCEPT !.device = q.device, !.type = q.type]

\* The status, whatever it is by now, is neither asked about nor changed.
EditWrite(r) ==
    /\ request[r].pc = "edit"
    /\ LET q == request[r] IN
       application' = Update(application, q.application,
                             EditedRow(q, application[q.application]))
    /\ Continue(r, Idle)
    /\ UNCHANGED <<deviceVars, usedApplications, decidedBy>>

\* One step: the applicant, all that is asked about, never changes.
DeleteApplication(u, a) ==
    /\ checkUserCorrect(u, a)
    /\ application' = Delete(application, a)
    /\ UNCHANGED <<deviceVars, usedApplications, decidedBy, request>>
-----------------------------------------------------------------------------
(* Auditing *)

\* Bug: the status is not asked about.
MayAuditAgain(a) == a \in DOMAIN application

MayAudit(a) ==
    /\ a \in DOMAIN application
    /\ application[a].status = "pending"

\* audit() reads the status before the transaction begins.
AuditCheck(r, u, a, verdict) ==
    /\ request[r] = Idle
    /\ MayAudit(a)
    /\ Continue(r, [pc |-> "audit", auditor |-> u, application |-> a,
                    verdict |-> verdict])
    /\ UNCHANGED <<deviceVars, applicationVars>>

\* What solveOperation asks of the rows it has read; an exception otherwise.
Solvable(q) ==
    /\ q.application \in DOMAIN application
    /\ LET row == application[q.application] IN
       /\ row.device \in DOMAIN device
       /\ (q.verdict = "approved" /\ row.type = "apply")
             => device[row.device].status # "assigned"

SolveRead(r) ==
    /\ request[r].pc = "audit"
    /\ Solvable(request[r])
    /\ LET q == request[r]
           row == application[q.application]
       IN  Continue(r, [pc |-> "solve", auditor |-> q.auditor,
                        application |-> q.application, verdict |-> q.verdict,
                        row |-> row, deviceRow |-> device[row.device]])
    /\ UNCHANGED <<deviceVars, applicationVars>>

\* Bug: the request for an assigned device waits for its return.
SolveFailUnlessAssigned(r) ==
    /\ request[r].pc = "audit"
    /\ request[r].application \in DOMAIN application =>
          application[request[r].application].device \notin DOMAIN device
    /\ Continue(r, Idle)
    /\ UNCHANGED <<deviceVars, applicationVars>>

\* The exception rolls the transaction back.
SolveFail(r) ==
    /\ request[r].pc = "audit"
    /\ ~Solvable(request[r])
    /\ Continue(r, Idle)
    /\ UNCHANGED <<deviceVars, applicationVars>>

\* Bug: the auditor, not the department, becomes the holder.
SolvedDeviceHeldByUser(q, stored) ==
    IF q.verdict = "approved" /\ q.row.type = "apply"
    THEN [q.deviceRow EXCEPT !.dept = q.auditor] ELSE stored

\* Bug: a refused repair counts as well.
SolvedDeviceRefusedCounts(q, stored) ==
    IF q.row.type = "repair" THEN [q.deviceRow EXCEPT !.repairCount = @ + 1]
    ELSE stored

\* The row the device update of q leaves over the row stored now: the loaded
\* entity, changed, except that a selective update skips a null department.
SolvedDevice(q, stored) ==
    CASE q.verdict = "refused" -> stored
      [] q.verdict = "approved" /\ q.row.type = "apply" ->
            [q.deviceRow EXCEPT !.dept = DeptOf[q.auditor]]
      [] q.verdict = "approved" /\ q.row.type = "repair" ->
            [q.deviceRow EXCEPT
                !.dept = IF @ = NoDept THEN stored.dept ELSE @,
                !.repairCount = @ + 1]
      [] q.verdict = "approved" /\ q.row.type = "return" ->
            [q.deviceRow EXCEPT !.dept = NoDept, !.status = "free"]

\* Bug: the auditor is not stamped.
DecidedRowUnstamped(q) == [q.row EXCEPT !.status = q.verdict]

\* The loaded application, decided: all of it is written back.
DecidedRow(q) == [q.row EXCEPT !.status = q.verdict, !.auditUser = q.auditor]

\* The history variables count what was committed.
SolveWrite(r) ==
    /\ request[r].pc = "solve"
    /\ LET q == request[r]
           d == q.row.device
           a == q.application
       IN  /\ device' = Update(device, d, SolvedDevice(q, device[d]))
           /\ application' = Update(application, a, DecidedRow(q))
           /\ approvedRepairs' =
                IF q.verdict = "approved" /\ q.row.type = "repair"
                THEN [approvedRepairs EXCEPT ![d] = @ + 1]
                ELSE approvedRepairs
           /\ decidedBy' = [decidedBy EXCEPT ![a] = @ \cup {r}]
    /\ Continue(r, Idle)
    /\ UNCHANGED <<usedDevices, usedApplications>>
-----------------------------------------------------------------------------
\* The server stops: the requests it was serving are gone, and the database
\* rolls their open transactions back.
Restart ==
    /\ request' = [r \in Requests |-> Idle]
    /\ UNCHANGED <<deviceVars, applicationVars>>

Step(r) ==
    \/ \E a \in Applications : AddInsert(r, a)
    \/ EditWrite(r) \/ SolveRead(r) \/ SolveFail(r) \/ SolveWrite(r)

Arrive(r) ==
    \E u \in Users :
       \/ \E d \in Devices, type \in Types : AddCheck(r, u, d, type)
       \/ \E a \in Applications, d \in Devices, type \in Types :
              EditCheck(r, u, a, d, type)
       \/ \E a \in Applications, verdict \in Verdicts :
              AuditCheck(r, u, a, verdict)

DeviceStep(d) ==
    \/ AddDevice(d) \/ DeleteDevice(d) \/ EditDevice(d)
    \/ \E status \in DeviceStatuses : SetStatus(d, status)
    \/ \E dept \in Depts : SetDept(d, dept)

Next ==
    \/ \E r \in Requests : Arrive(r) \/ Step(r)
    \/ \E d \in Devices : DeviceStep(d)
    \/ \E u \in Users, a \in Applications : DeleteApplication(u, a)
    \/ Restart

Spec == Init /\ [][Next]_vars

\* A servlet thread runs until its handler returns, and every statement of
\* the handlers ends: no other thread keeps a row lock across its own wait.
FairSpec == Spec /\ \A r \in Requests : WF_vars(Step(r))
-----------------------------------------------------------------------------
(* Properties *)

\* Every table, request and history variable holds what its columns allow;
\* stored ids have been handed out.
TypeOK ==
    /\ usedDevices \subseteq Devices
    /\ IsTable(device, usedDevices, DeviceRow)
    /\ usedApplications \subseteq Applications
    /\ IsTable(application, usedApplications, ApplicationRow)
    /\ request \in [Requests -> Request]
    /\ approvedRepairs \in [Devices -> Nat]
    /\ decidedBy \in [Applications -> SUBSET Requests]

\* An application names its auditor exactly when it is decided, although the
\* edit, the audits under way and the deletion write the same row from copies
\* read at different times (ApplicationServiceImpl.solveOperation).
AuditStamped ==
    \A a \in DOMAIN application :
        application[a].status = "pending" <=> application[a].auditUser = NoUser

\* A device never shows more repairs than were approved for it: overlapping
\* approvals and stale entities written back may lose a repair, none of them
\* invents one (ApplicationServiceImpl.solveOperation, repair_count).
RepairsNeverOvercounted ==
    \A d \in DOMAIN device : device[d].repairCount <= approvedRepairs[d]

\* The audit under way in a thread is on an application that this thread has
\* not decided before: a decision can be overwritten by audits that overlap
\* it, at most one per thread, and never by a later one
\* (ApplicationController.audit).
NoThreadDecidesTwice ==
    \A r \in Requests :
        request[r].pc \in {"audit", "solve"}
            => r \notin decidedBy[request[r].application]

\* Every device an application names, stored or about to be, has existed: it
\* may have been deleted since, it was never made up (checkDeviceIsExist in
\* ApplicationController.add and edit).
NamedDevicesExisted ==
    /\ \A a \in DOMAIN application : application[a].device \in usedDevices
    /\ \A r \in Requests :
          request[r].pc \in {"add", "edit"} => request[r].device \in usedDevices

\* What these invariants need to be inductive: nobody has decided what is
\* pending or not filed yet; audits are on ids handed out; and the device a
\* transaction has loaded shows no more repairs than are approved by now.
UndecidedIsClean ==
    \A a \in Applications :
        (a \notin usedApplications
            \/ (a \in DOMAIN application /\ application[a].status = "pending"))
        => decidedBy[a] = {}
AuditsAreOnUsed ==
    \A r \in Requests :
        request[r].pc \in {"audit", "solve"}
            => request[r].application \in usedApplications
LoadedRowsAreBounded ==
    \A r \in Requests : request[r].pc = "solve" =>
        /\ request[r].row.device \in usedDevices
        /\ request[r].deviceRow.repairCount
                <= approvedRepairs[request[r].row.device]

InductiveInv ==
    /\ TypeOK /\ AuditStamped /\ NamedDevicesExisted
    /\ RepairsNeverOvercounted /\ LoadedRowsAreBounded
    /\ NoThreadDecidesTwice /\ UndecidedIsClean /\ AuditsAreOnUsed

\* A decided application keeps its decision (APPLICATION_ALREADY_AUDIT).
DecisionIsFinal ==
    [][\A a \in DOMAIN application \cap DOMAIN application' :
          application[a].status # "pending"
              => application'[a].status = application[a].status]_vars

\* An edit or an audit that a thread has begun comes to an end.
RequestsEnd ==
    \A r \in Requests :
        request[r].pc \in {"edit", "audit", "solve"} ~> request[r] = Idle

\* The audit office sees the applications and the audits under way.
phaseOf == [a \in Applications |->
    IF a \in DOMAIN application THEN application[a].status
    ELSE IF a \in usedApplications THEN "removed" ELSE "absent"]
openOn == [a \in Applications |->
    {r \in Requests : /\ request[r].pc \in {"audit", "solve"}
                      /\ request[r].application = a}]
Office == INSTANCE AuditOffice WITH phase <- phaseOf, open <- openOn

\* Handlers, transactions, edits and restarts implement the audit office.
ImplementsAuditOffice == Office!ASpec
=============================================================================
