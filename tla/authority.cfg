SPECIFICATION Spec
CONSTANTS
    Roles = {admin, o1}
    AdminRole = admin
    Menus = {m1, m2}
    Sessions = {s1}
    TTL = 2
    Requests = {r1, r2}
INVARIANTS TypeOK GrantsAreWhole ChangesSeenInTime
SYMMETRY Symmetric
PROPERTIES ImplementsAuthority GoneRolesGrantOnlyByLateRequests
