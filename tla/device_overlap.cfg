SPECIFICATION Spec
CONSTANTS
    u1 = u1
    u2 = u2
    dept1 = dept1
    dept2 = dept2
    Devices = {d1}
    Applications = {a1}
    Requests = {r1, r2}
    Users = {u1, u2}
    Admins = {u2}
    Depts = {dept1, dept2}
    DeptOf <- MCDeptOf
    NoDept = NoDept
    NoUser = NoUser
INVARIANTS TypeOK AuditStamped RepairsNeverOvercounted NoThreadDecidesTwice NamedDevicesExisted
SYMMETRY Symmetric
PROPERTIES ImplementsAuditOffice
