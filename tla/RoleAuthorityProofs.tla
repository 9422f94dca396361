------------------------ MODULE RoleAuthorityProofs ------------------------
(* Theorems about RoleAuthority, for every value of its constants.          *)
EXTENDS RoleAuthority, TLAPS

-----------------------------------------------------------------------------
\* What is out of date in a session is no older than the cached entry, and
\* nothing is when there is no entry or one is on its way: no tick passes
\* between the load of the permissions and their put into the cache.
Loading(s) == \E r \in Requests : request[r].pc = "load" /\ request[r].session = s
OutdatedWithEntry ==
    \A s \in Sessions :
        /\ outdated[s] <= permissions[s].age
        /\ ~IsCached(permissions[s]) \/ Loading(s) => outdated[s] = 0

\* A request under way is about a role there was when it began, and not about
\* the deletion of the administrators' role.
PendingRolesKnown ==
    \A r \in Requests :
        /\ request[r].pc = "grant" => request[r].role \in usedRoles
        /\ request[r].pc = "drop" => request[r].role # AdminRole

InductiveInv ==
    /\ TypeOK
    /\ GrantsAreWhole
    /\ OutdatedWithEntry
    /\ PendingRolesKnown

-----------------------------------------------------------------------------
(* What kinds of steps preserve *)

\* The type of all that a step leaves alone but the requests.
TablesOK ==
    /\ role \subseteq usedRoles /\ AdminRole \in role /\ usedRoles \subseteq Roles
    /\ menu \subseteq Menus
    /\ relation \subseteq usedRoles \X Menus
    /\ granted \in [Roles -> SUBSET Menus]
SessionsOK ==
    /\ session \in [Sessions -> {{}} \cup {{roles} : roles \in SUBSET usedRoles}]
    /\ permissions \in [Sessions -> [age: 0..TTL, urls: SUBSET Menus]]
    /\ outdated \in [Sessions -> 0..TTL]
RequestsOK == request \in [Requests -> Request]

LEMMA TypeParts == TypeOK <=> TablesOK /\ SessionsOK /\ RequestsOK
  BY DEF TypeOK, TablesOK, SessionsOK, RequestsOK

\* What each kind of request holds.
LEMMA RequestKinds ==
    ASSUME RequestsOK, NEW r \in Requests
    PROVE  /\ request[r].pc = "grant" =>
                 /\ request[r].role \in Roles
                 /\ request[r].todo \subseteq Menus /\ request[r].done \subseteq Menus
           /\ request[r].pc = "drop" => request[r].role \in Roles
           /\ request[r].pc = "load" =>
                 request[r].session \in Sessions /\ request[r].urls \subseteq Menus
  BY DEF RequestsOK, Request, Idle

\* A thread goes on with a request of its type.
LEMMA ContinueRequests ==
    ASSUME RequestsOK, NEW r \in Requests, NEW q \in Request, Continue(r, q)
    PROVE  /\ RequestsOK'
           /\ request' = [s \in Requests |-> IF s = r THEN q ELSE request[s]]
  BY DEF RequestsOK, Continue

\* A step that changes nothing but a request which loads nothing.
LEMMA RequestOnly ==
    ASSUME InductiveInv, NEW r \in Requests, NEW q \in Request, Continue(r, q),
           q.pc # "load", UNCHANGED <<tables, sessions>>,
           q.pc = "grant" => q.role \in usedRoles,
           q.pc = "drop" => q.role # AdminRole
    PROVE  InductiveInv'
  <1>1. RequestsOK' /\ request' = [s \in Requests |-> IF s = r THEN q ELSE request[s]]
    BY ContinueRequests, TypeParts DEF InductiveInv
  <1>2. TypeOK'
    BY <1>1 DEF InductiveInv, TypeOK, RequestsOK, tables, sessions
  <1>3. GrantsAreWhole'
    BY DEF InductiveInv, GrantsAreWhole, RelationsOf, tables
  <1>4. OutdatedWithEntry'
    BY <1>1 DEF InductiveInv, OutdatedWithEntry, Loading, IsCached, sessions
  <1>5. PendingRolesKnown'
    BY <1>1 DEF InductiveInv, PendingRolesKnown, tables
  <1>. QED
    BY <1>2, <1>3, <1>4, <1>5 DEF InductiveInv

\* A step on the tables that ends a request or leaves the requests alone.
LEMMA TablesOnly ==
    ASSUME InductiveInv, TablesOK', GrantsAreWhole', usedRoles \subseteq usedRoles',
           UNCHANGED sessions,
           \/ UNCHANGED request
           \/ \E r \in Requests : Continue(r, Idle)
    PROVE  InductiveInv'
  <1> DEFINE Fewer == /\ RequestsOK'
                      /\ \A s \in Sessions : Loading(s)' => Loading(s)
                      /\ PendingRolesKnown'
  <1>1. Fewer
    <2>1. CASE UNCHANGED request
      BY <2>1, TypeParts DEF InductiveInv, RequestsOK, Loading, PendingRolesKnown
    <2>2. ASSUME NEW r \in Requests, Continue(r, Idle)
          PROVE  Fewer
      <3>1. Idle \in Request /\ Idle.pc \notin {"load", "grant", "drop"}
        BY DEF Request, Idle
      <3>2. /\ RequestsOK'
            /\ request' = [s \in Requests |-> IF s = r THEN Idle ELSE request[s]]
        BY <2>2, <3>1, ContinueRequests, TypeParts DEF InductiveInv
      <3>. QED
        BY <3>1, <3>2 DEF Loading, InductiveInv, PendingRolesKnown
    <2>. QED
      BY <2>1, <2>2
  <1>2. SessionsOK'
    BY TypeParts DEF InductiveInv, SessionsOK, sessions
  <1>3. OutdatedWithEntry'
    BY <1>1 DEF InductiveInv, OutdatedWithEntry, IsCached, sessions
  <1>4. TypeOK'
    BY <1>1, <1>2 DEF TypeOK, TablesOK, SessionsOK, RequestsOK
  <1>. QED
    BY <1>1, <1>3, <1>4 DEF InductiveInv
-----------------------------------------------------------------------------
LEMMA InitInductive == Init => InductiveInv
  <1> SUFFICES ASSUME Init PROVE InductiveInv
    OBVIOUS
  <1>1. TablesOK
    BY AdminRoleOK DEF Init, TablesOK
  <1>2. SessionsOK
    BY TTLOK DEF Init, SessionsOK, NoPermissions
  <1>3. RequestsOK
    BY DEF Init, RequestsOK, Request
  <1>4. GrantsAreWhole /\ PendingRolesKnown
    BY DEF Init, GrantsAreWhole, RelationsOf, PendingRolesKnown, Idle
  <1>5. OutdatedWithEntry
    BY TTLOK DEF Init, OutdatedWithEntry, Loading, NoPermissions, IsCached, Idle
  <1>. QED
    BY <1>1, <1>2, <1>3, <1>4, <1>5, TypeParts DEF InductiveInv

(* Steps of the roles and the menus *)

LEMMA AddRoleInductive ==
    ASSUME InductiveInv, NEW o \in Roles, AddRole(o)
    PROVE  InductiveInv'
  <1>1. TablesOK'
    BY TypeParts DEF InductiveInv, TablesOK, AddRole
  <1>2. GrantsAreWhole'
    BY DEF InductiveInv, GrantsAreWhole, RelationsOf, AddRole
  <1>. QED
    BY <1>1, <1>2, TablesOnly DEF AddRole

LEMMA GrantInductive ==
    ASSUME InductiveInv, NEW r \in Requests
    PROVE  /\ \A o \in Roles, menus \in SUBSET Menus :
                 GrantDelete(r, o, menus) => InductiveInv'
           /\ \A m \in Menus : GrantInsert(r, m) => InductiveInv'
           /\ GrantCommit(r) => InductiveInv'
  <1>0. RequestsOK
    BY TypeParts DEF InductiveInv
  <1>1. ASSUME NEW o \in Roles, NEW menus \in SUBSET Menus, GrantDelete(r, o, menus)
        PROVE  InductiveInv'
    <2> DEFINE q == [pc |-> "grant", role |-> o, todo |-> menus, done |-> {}]
    <2>1. q \in Request /\ q.pc # "load" /\ q.pc # "drop"
      BY DEF Request
    <2>. QED
      BY <1>1, <2>1, RequestOnly DEF GrantDelete
  <1>2. ASSUME NEW m \in Menus, GrantInsert(r, m)
        PROVE  InductiveInv'
    <2> DEFINE q == [request[r] EXCEPT !.todo = @ \ {m}, !.done = @ \cup {m}]
               Grants == [pc: {"grant"}, role: Roles, todo: SUBSET Menus,
                          done: SUBSET Menus]
    <2>1. request[r] \in Grants /\ request[r].role \in usedRoles
      BY <1>0, <1>2 DEF GrantInsert, RequestsOK, Request, Idle, InductiveInv,
                        PendingRolesKnown
    <2>2. q \in Grants /\ q.role = request[r].role
      BY <2>1
    <2>3. Continue(r, q)
      BY <1>0, <1>2 DEF GrantInsert, Continue, RequestsOK
    <2>4. q \in Request /\ q.pc = "grant"
      BY <2>2 DEF Request
    <2> HIDE DEF q
    <2>. QED
      BY <1>2, <2>1, <2>2, <2>3, <2>4, RequestOnly DEF GrantInsert
  <1>3. ASSUME GrantCommit(r)
        PROVE  InductiveInv'
    <2> DEFINE o == request[r].role
               done == request[r].done
    <2>1. o \in Roles /\ o \in usedRoles /\ done \subseteq Menus
      BY <1>0, <1>3, RequestKinds DEF GrantCommit, InductiveInv, PendingRolesKnown
    <2>2. /\ relation' = (relation \ RelationsOf(o)) \cup ({o} \X done)
          /\ granted' = [p \in Roles |-> IF p = o THEN done ELSE granted[p]]
      BY <1>3, TypeParts DEF GrantCommit, InductiveInv, TablesOK
    <2>3. UNCHANGED <<role, usedRoles, menu, sessions>> /\ Continue(r, Idle)
      BY <1>3 DEF GrantCommit
    <2>4. relation \subseteq usedRoles \X Menus /\ granted \in [Roles -> SUBSET Menus]
      BY TypeParts DEF InductiveInv, TablesOK
    <2>5. \A p \in Roles, m \in Menus :
             <<p, m>> \in relation' <=> IF p = o THEN m \in done ELSE <<p, m>> \in relation
      BY <2>2 DEF RelationsOf
    <2>6. relation' \subseteq usedRoles \X Menus
      BY <2>1, <2>2, <2>4
    <2>7. granted' \in [Roles -> SUBSET Menus]
      BY <2>1, <2>2, <2>4
    <2> HIDE DEF o, done
    <2>8. TablesOK'
      BY <2>3, <2>6, <2>7, TypeParts DEF InductiveInv, TablesOK
    <2>9. GrantsAreWhole'
      <3> SUFFICES ASSUME NEW p \in Roles
                   PROVE  /\ \A m \in menu' : (<<p, m>> \in relation') <=> (m \in granted'[p])
                          /\ \A g \in RelationsOf(p)' : g[2] \in granted'[p]
        BY DEF GrantsAreWhole
      <3>1. menu \subseteq Menus /\ usedRoles \subseteq Roles
        BY TypeParts DEF InductiveInv, TablesOK
      <3>2. \A m \in Menus : (<<p, m>> \in relation') => (m \in granted'[p])
        BY <2>2, <2>5, <2>4 DEF InductiveInv, GrantsAreWhole, RelationsOf
      <3>3. \A m \in menu' : (m \in granted'[p]) => (<<p, m>> \in relation')
        BY <2>2, <2>3, <2>5, <3>1 DEF InductiveInv, GrantsAreWhole
      <3>4. \A g \in RelationsOf(p)' : g[2] \in Menus /\ g = <<p, g[2]>> /\ g \in relation'
        BY <2>6 DEF RelationsOf
      <3>. QED
        BY <2>3, <3>1, <3>2, <3>3, <3>4
    <2>. QED
      BY <2>3, <2>8, <2>9, TablesOnly
  <1>. QED
    BY <1>1, <1>2, <1>3

LEMMA DropInductive ==
    ASSUME InductiveInv, NEW r \in Requests
    PROVE  /\ \A o \in Roles : DropRole(r, o) => InductiveInv'
           /\ DropCommit(r) => InductiveInv'
           /\ Rollback(r) => InductiveInv'
  <1>0. RequestsOK
    BY TypeParts DEF InductiveInv
  <1>1. ASSUME NEW o \in Roles, DropRole(r, o)
        PROVE  InductiveInv'
    <2> DEFINE q == [pc |-> "drop", role |-> o]
    <2>1. q \in Request /\ q.pc # "load" /\ q.pc # "grant" /\ q.role # AdminRole
      BY <1>1 DEF Request, DropRole, MayDrop
    <2>. QED
      BY <1>1, <2>1, RequestOnly DEF DropRole
  <1>2. ASSUME DropCommit(r)
        PROVE  InductiveInv'
    <2>1. request[r].role \in Roles /\ request[r].role # AdminRole
      BY <1>0, <1>2, RequestKinds DEF DropCommit, InductiveInv, PendingRolesKnown
    <2>2. /\ role' = role \ {request[r].role}
          /\ relation' = relation \ RelationsOf(request[r].role)
          /\ granted' = [granted EXCEPT ![request[r].role] = {}]
          /\ UNCHANGED <<usedRoles, menu, sessions>> /\ Continue(r, Idle)
      BY <1>2 DEF DropCommit
    <2>3. TablesOK'
      BY <2>1, <2>2, TypeParts DEF InductiveInv, TablesOK
    <2>4. GrantsAreWhole'
      BY <2>1, <2>2, TypeParts DEF InductiveInv, TablesOK, GrantsAreWhole, RelationsOf
    <2>. QED
      BY <2>2, <2>3, <2>4, TablesOnly
  <1>3. ASSUME Rollback(r)
        PROVE  InductiveInv'
    <2>1. Idle \in Request /\ Idle.pc \notin {"load", "grant", "drop"}
      BY DEF Request, Idle
    <2>. QED
      BY <1>3, <2>1, RequestOnly DEF Rollback
  <1>. QED
    BY <1>1, <1>2, <1>3

LEMMA DeleteMenuInductive ==
    ASSUME InductiveInv, NEW m \in Menus, DeleteMenu(m)
    PROVE  InductiveInv'
  <1>1. TablesOK'
    BY TypeParts DEF InductiveInv, TablesOK, DeleteMenu
  <1>2. GrantsAreWhole'
    BY DEF InductiveInv, GrantsAreWhole, RelationsOf, DeleteMenu
  <1>. QED
    BY <1>1, <1>2, TablesOnly DEF DeleteMenu

-----------------------------------------------------------------------------
(* Steps of the sessions *)

\* A step that leaves the tables alone.
LEMMA SessionsOnly ==
    ASSUME InductiveInv, UNCHANGED tables, SessionsOK', RequestsOK',
           OutdatedWithEntry', PendingRolesKnown'
    PROVE  InductiveInv'
  <1>1. TypeOK'
    BY DEF InductiveInv, TypeOK, SessionsOK, RequestsOK, tables
  <1>2. GrantsAreWhole'
    BY DEF InductiveInv, GrantsAreWhole, RelationsOf, tables
  <1>. QED
    BY <1>1, <1>2 DEF InductiveInv

LEMMA BeginEndInductive ==
    ASSUME InductiveInv, NEW s \in Sessions
    PROVE  /\ \A roles \in SUBSET Roles : Begin(s, roles) => InductiveInv'
           /\ End(s) => InductiveInv'
  <1>0. SessionsOK /\ RequestsOK
    BY TypeParts DEF InductiveInv
  <1>1. ASSUME NEW roles \in SUBSET Roles, Begin(s, roles)
        PROVE  InductiveInv'
    <2>1. SessionsOK'
      BY <1>0, <1>1 DEF Begin, SessionsOK, tables
    <2>2. RequestsOK' /\ OutdatedWithEntry' /\ PendingRolesKnown'
      BY <1>0, <1>1 DEF Begin, RequestsOK, InductiveInv, OutdatedWithEntry, Loading,
                        IsCached, PendingRolesKnown, tables
    <2>. QED
      BY <1>1, <2>1, <2>2, SessionsOnly DEF Begin
  <1>2. ASSUME End(s)
        PROVE  InductiveInv'
    <2>0. NoPermissions \in [age: 0..TTL, urls: SUBSET Menus] /\ 0 \in 0..TTL
      BY TTLOK DEF NoPermissions
    <2>1. SessionsOK'
      <3>1. permissions' \in [Sessions -> [age: 0..TTL, urls: SUBSET Menus]]
        BY <1>0, <1>2, <2>0 DEF End, SessionsOK
      <3>2. outdated' \in [Sessions -> 0..TTL]
        BY <1>0, <1>2, <2>0 DEF End, SessionsOK
      <3>. QED
        BY <1>0, <1>2, <3>1, <3>2 DEF End, SessionsOK, tables
    <2>2. RequestsOK'
      BY <1>0, <1>2 DEF End, RequestsOK, Request
    <2>3. \A r \in Requests : request'[r] \in {request[r], Idle}
      BY <1>2 DEF End
    <2>4. PendingRolesKnown'
      BY <1>2, <2>3 DEF End, InductiveInv, PendingRolesKnown, Idle, tables
    <2>5. \A t \in Sessions : Loading(t)' => Loading(t)
      BY <2>3 DEF Loading, Idle
    <2>6. \A t \in Sessions :
             /\ permissions'[t] = IF t = s THEN NoPermissions ELSE permissions[t]
             /\ outdated'[t] = IF t = s THEN 0 ELSE outdated[t]
      BY <1>0, <1>2 DEF End, SessionsOK
    <2>7. OutdatedWithEntry'
      BY <2>5, <2>6, TTLOK DEF InductiveInv, OutdatedWithEntry, IsCached, NoPermissions
    <2>. QED
      BY <1>2, <2>1, <2>2, <2>4, <2>7, SessionsOnly DEF End
  <1>. QED
    BY <1>1, <1>2

LEMMA LoadPutInductive ==
    ASSUME InductiveInv, NEW r \in Requests
    PROVE  /\ \A s \in Sessions : Load(r, s) => InductiveInv'
           /\ Put(r) => InductiveInv'
  <1>0. SessionsOK /\ RequestsOK
    BY TypeParts DEF InductiveInv
  <1>1. ASSUME NEW s \in Sessions, Load(r, s)
        PROVE  InductiveInv'
    <2> DEFINE q == [pc |-> "load", session |-> s, urls |-> PermissionsOf(s)]
    <2>1. PermissionsOf(s) \subseteq Menus
      BY TypeParts DEF InductiveInv, TablesOK, PermissionsOf
    <2>2. q \in Request /\ q.pc \notin {"grant", "drop"}
      BY <2>1 DEF Request
    <2>3. /\ RequestsOK'
          /\ request' = [t \in Requests |-> IF t = r THEN q ELSE request[t]]
      BY <1>0, <1>1, <2>2, ContinueRequests DEF Load
    <2>4. SessionsOK'
      BY <1>0, <1>1 DEF Load, SessionsOK, sessions, tables
    <2>5. PendingRolesKnown'
      BY <1>1, <2>2, <2>3 DEF Load, InductiveInv, PendingRolesKnown, tables
    <2>6. \A t \in Sessions : Loading(t)' => Loading(t) \/ t = s
      BY <2>3 DEF Loading
    <2>7. OutdatedWithEntry'
      BY <1>1, <2>6 DEF Load, InductiveInv, OutdatedWithEntry, IsCached, sessions
    <2>. QED
      BY <1>1, <2>3, <2>4, <2>5, <2>7, SessionsOnly DEF Load
  <1>2. ASSUME Put(r)
        PROVE  InductiveInv'
    <2> DEFINE s == request[r].session
               entry == [age |-> 0, urls |-> request[r].urls]
    <2>1. s \in Sessions /\ entry \in [age: 0..TTL, urls: SUBSET Menus] /\ Loading(s)
      BY <1>0, <1>2, TTLOK, RequestKinds DEF Put, Loading
    <2>2. permissions' = [t \in Sessions |-> IF t = s THEN entry ELSE permissions[t]]
      BY <1>0, <1>2 DEF Put, SessionsOK
    <2>3. outdated[s] = 0
      BY <2>1 DEF InductiveInv, OutdatedWithEntry
    <2>4. Idle \in Request /\ Idle.pc \notin {"load", "grant", "drop"}
      BY DEF Request, Idle
    <2>5. /\ RequestsOK'
          /\ request' = [t \in Requests |-> IF t = r THEN Idle ELSE request[t]]
      BY <1>0, <1>2, <2>4, ContinueRequests DEF Put
    <2>6. entry.age = 0
      OBVIOUS
    <2> HIDE DEF s, entry
    <2>7. SessionsOK'
      <3>1. permissions' \in [Sessions -> [age: 0..TTL, urls: SUBSET Menus]]
        BY <1>0, <2>1, <2>2 DEF SessionsOK
      <3>. QED
        BY <1>0, <1>2, <3>1 DEF Put, SessionsOK, tables
    <2>8. PendingRolesKnown'
      BY <1>2, <2>4, <2>5 DEF Put, InductiveInv, PendingRolesKnown, tables
    <2>9. \A t \in Sessions : Loading(t)' => Loading(t)
      BY <2>4, <2>5 DEF Loading
    <2>10. OutdatedWithEntry'
      BY <1>2, <2>2, <2>3, <2>6, <2>9
         DEF Put, InductiveInv, OutdatedWithEntry, IsCached
    <2>. QED
      BY <1>2, <2>5, <2>7, <2>8, <2>10, SessionsOnly DEF Put
  <1>. QED
    BY <1>1, <1>2

LEMMA TickInductive ==
    ASSUME InductiveInv, Tick
    PROVE  InductiveInv'
  <1>0. SessionsOK /\ RequestsOK
    BY TypeParts DEF InductiveInv
  <1>1. ASSUME NEW s \in Sessions
        PROVE  /\ permissions[s] \in [age: 0..TTL, urls: SUBSET Menus]
               /\ permissions'[s] \in [age: 0..TTL, urls: SUBSET Menus]
               /\ permissions'[s].age = IF permissions[s].age < TTL
                                        THEN permissions[s].age + 1 ELSE permissions[s].age
    <2>1. permissions[s] \in [age: 0..TTL, urls: SUBSET Menus]
      BY <1>0 DEF SessionsOK
    <2>2. permissions'[s] = [permissions[s] EXCEPT !.age =
                                IF @ < TTL THEN @ + 1 ELSE @]
      BY DEF Tick
    <2>. QED
      BY <2>1, <2>2, TTLOK
  <1>2. ASSUME NEW s \in Sessions
        PROVE  /\ outdated'[s] \in 0..TTL
               /\ outdated'[s] <= permissions'[s].age
               /\ permissions'[s].age >= TTL => outdated'[s] = 0
    <2>1. /\ outdated[s] \in 0..TTL
          /\ outdated[s] <= permissions[s].age
      BY <1>0 DEF SessionsOK, InductiveInv, OutdatedWithEntry
    <2>2. \/ outdated'[s] = 0
          \/ /\ permissions'[s].age < TTL
             /\ outdated'[s] = IF outdated[s] < TTL THEN outdated[s] + 1 ELSE TTL
      BY DEF Tick, IsCached
    <2>. QED
      BY <1>1, <2>1, <2>2, TTLOK
  <1>3. SessionsOK'
    <2>1. permissions' = [s \in Sessions |-> permissions'[s]]
          /\ outdated' = [s \in Sessions |-> outdated'[s]]
      BY DEF Tick
    <2>2. UNCHANGED <<usedRoles, session>>
      BY DEF Tick, tables
    <2>. QED
      BY <1>0, <1>1, <1>2, <2>1, <2>2 DEF SessionsOK
  <1>4. RequestsOK' /\ PendingRolesKnown'
    BY <1>0 DEF Tick, RequestsOK, InductiveInv, PendingRolesKnown, tables
  <1>5. \A s \in Sessions : ~Loading(s)'
    BY DEF Tick, Loading
  <1>6. OutdatedWithEntry'
    BY <1>1, <1>2, <1>5, TTLOK DEF OutdatedWithEntry, IsCached
  <1>. QED
    BY <1>3, <1>4, <1>6, SessionsOnly DEF Tick

-----------------------------------------------------------------------------
LEMMA StepInductive == InductiveInv /\ [Next]_vars => InductiveInv'
  <1> SUFFICES ASSUME InductiveInv, [Next]_vars PROVE InductiveInv'
    OBVIOUS
  <1>1. CASE UNCHANGED vars
    BY <1>1 DEF vars, InductiveInv, TypeOK, GrantsAreWhole, RelationsOf,
                OutdatedWithEntry, Loading, IsCached, PendingRolesKnown
  <1>2. ASSUME NEW o \in Roles, AddRole(o) PROVE InductiveInv'
    BY <1>2, AddRoleInductive
  <1>3. ASSUME NEW r \in Requests, NEW o \in Roles,
               (\E menus \in SUBSET Menus : GrantDelete(r, o, menus)) \/ DropRole(r, o)
        PROVE  InductiveInv'
    BY <1>3, GrantInductive, DropInductive
  <1>4. ASSUME NEW r \in Requests, NEW m \in Menus, GrantInsert(r, m)
        PROVE  InductiveInv'
    BY <1>4, GrantInductive
  <1>5. ASSUME NEW r \in Requests,
               GrantCommit(r) \/ DropCommit(r) \/ Rollback(r)
        PROVE  InductiveInv'
    BY <1>5, GrantInductive, DropInductive
  <1>6. ASSUME NEW r \in Requests, (\E s \in Sessions : Load(r, s)) \/ Put(r)
        PROVE  InductiveInv'
    BY <1>6, LoadPutInductive
  <1>7. ASSUME NEW m \in Menus, DeleteMenu(m) PROVE InductiveInv'
    BY <1>7, DeleteMenuInductive
  <1>8. ASSUME NEW s \in Sessions,
               (\E roles \in SUBSET Roles : Begin(s, roles)) \/ End(s)
        PROVE  InductiveInv'
    BY <1>8, BeginEndInductive
  <1>9. CASE Tick
    BY <1>9, TickInductive
  <1>. QED
    BY <1>1, <1>2, <1>3, <1>4, <1>5, <1>6, <1>7, <1>8, <1>9 DEF Next

LEMMA AlwaysInductive == Spec => []InductiveInv
  BY InitInductive, StepInductive, PTL DEF Spec

\* Every reachable state has the declared types (RoleController, ShiroDbRealm).
THEOREM AuthorityTypeCorrect == Spec => []TypeOK
  <1>1. InductiveInv => TypeOK
    BY DEF InductiveInv
  <1>. QED
    BY <1>1, AlwaysInductive, PTL

\* What a role is granted is what one request granted it, whole
\* (RoleServiceImpl.setAuthority).
THEOREM GrantsAlwaysWhole == Spec => []GrantsAreWhole
  <1>1. InductiveInv => GrantsAreWhole
    BY DEF InductiveInv
  <1>. QED
    BY <1>1, AlwaysInductive, PTL

\* No session's permissions are out of date for the lifetime of a cached entry
\* (ehcache.xml, ShiroDbRealm).
THEOREM ChangesAlwaysSeen == Spec => []ChangesSeenInTime
  <1>1. InductiveInv => ChangesSeenInTime
    <2> SUFFICES ASSUME InductiveInv, NEW s \in Sessions PROVE outdated[s] < TTL
      BY DEF ChangesSeenInTime
    <2>1. outdated[s] \in 0..TTL /\ permissions[s].age \in 0..TTL
      BY DEF InductiveInv, TypeOK
    <2>2. /\ outdated[s] <= permissions[s].age
          /\ ~(permissions[s].age < TTL) => outdated[s] = 0
      BY DEF InductiveInv, OutdatedWithEntry, IsCached
    <2>. QED
      BY <2>1, <2>2, TTLOK
  <1>. QED
    BY <1>1, AlwaysInductive, PTL

\* A role that is deleted grants nothing, unless a request was late
\* (RoleServiceImpl.delRoleById).
THEOREM LateRequestsOnly == Spec => GoneRolesGrantOnlyByLateRequests
  <1> DEFINE Late(o) == \E r \in Requests :
                           /\ request[r].pc = "grant" /\ request[r].role = o
                           /\ request'[r] = Idle /\ o \notin role
             Grants(o) == /\ o \in usedRoles \ role'
                          /\ \E g \in relation' : g[1] = o
                          /\ o \in role \/ RelationsOf(o) = {}
             Step == \A o \in Roles : Grants(o) => Late(o)
  <1>1. InductiveInv /\ [Next]_vars => [Step]_vars
    <2> SUFFICES ASSUME InductiveInv, Next, NEW o \in Roles, Grants(o) PROVE Late(o)
      BY DEF Next
    <2>0. RequestsOK
      BY TypeParts DEF InductiveInv
    <2>1. ~(relation' \subseteq relation /\ role \subseteq role')
      BY DEF RelationsOf
    <2>2. ~(\E p \in Roles : AddRole(p))
      BY <2>1 DEF AddRole
    <2>3. ~(\E m \in Menus : DeleteMenu(m)) /\ ~Tick
      BY <2>1 DEF DeleteMenu, Tick, tables
    <2>4. ~(\E s \in Sessions : (\E roles \in SUBSET Roles : Begin(s, roles)) \/ End(s))
      BY <2>1 DEF Begin, End, tables
    <2>5. PICK r \in Requests :
             \/ \E p \in Roles : \/ \E menus \in SUBSET Menus : GrantDelete(r, p, menus)
                                 \/ DropRole(r, p)
             \/ \E m \in Menus : GrantInsert(r, m)
             \/ GrantCommit(r) \/ DropCommit(r) \/ Rollback(r)
             \/ \E s \in Sessions : Load(r, s)
             \/ Put(r)
      BY <2>2, <2>3, <2>4 DEF Next
    <2>6. GrantCommit(r) \/ DropCommit(r)
      BY <2>1, <2>5 DEF GrantDelete, DropRole, GrantInsert, Rollback, Load, Put, tables
    <2>7. CASE DropCommit(r)
      BY <2>7 DEF DropCommit, RelationsOf
    <2>8. CASE GrantCommit(r)
      <3>1. role' = role /\ o \notin role /\ RelationsOf(o) = {}
        BY <2>8 DEF GrantCommit
      <3>2. request[r].role = o /\ request[r].pc = "grant"
        BY <2>8, <3>1 DEF GrantCommit, RelationsOf
      <3>3. request'[r] = Idle
        BY <2>0, <2>8 DEF GrantCommit, Continue, RequestsOK
      <3>. QED
        BY <3>1, <3>2, <3>3
    <2>. QED
      BY <2>6, <2>7, <2>8
  <1>. QED
    BY <1>1, AlwaysInductive, PTL DEF Spec, GoneRolesGrantOnlyByLateRequests
-----------------------------------------------------------------------------
(* The abstract authority *)

LEMMA ErrandKinds ==
    ASSUME NEW q
    PROVE  /\ q.pc = "grant" => ErrandOf(q) = Book!Ordered(q.role, q.todo \cup q.done)
           /\ q.pc = "drop" => ErrandOf(q) = Book!Ordered(q.role, {})
           /\ q.pc = "load" => ErrandOf(q) = Book!Seen(q.session, q.urls)
           /\ q.pc \notin {"grant", "drop", "load"} => ErrandOf(q) = Book!Nothing
  BY DEF ErrandOf, Book!Ordered, Book!Seen, Book!Nothing

LEMMA IdleErrand == ErrandOf(Idle) = Book!Nothing
  BY ErrandKinds DEF Idle

LEMMA ErrandFields ==
    ASSUME NEW q, NEW e, e = ErrandOf(q)
    PROVE  /\ q.pc = "grant" => /\ e.kind = "order" /\ e.role = q.role
                               /\ e.menus = q.todo \cup q.done
           /\ q.pc = "drop" => e.kind = "order" /\ e.role = q.role /\ e.menus = {}
           /\ q.pc = "load" => /\ e.kind = "look" /\ e.session = q.session
                              /\ e.menus = q.urls
           /\ q.pc \notin {"grant", "drop", "load"} => e.kind = "nothing"
  <1>1. CASE q.pc = "grant"
    BY <1>1 DEF ErrandOf
  <1>2. CASE q.pc = "drop"
    BY <1>2 DEF ErrandOf
  <1>3. CASE q.pc = "load"
    BY <1>3 DEF ErrandOf
  <1>4. CASE q.pc \notin {"grant", "drop", "load"}
    BY <1>4 DEF ErrandOf
  <1>. QED
    BY <1>1, <1>2, <1>3, <1>4

\* A thread that goes on changes its own errand.
LEMMA ErrandAfter ==
    ASSUME RequestsOK, NEW r \in Requests, NEW q \in Request, Continue(r, q)
    PROVE  /\ errandOf[r] = ErrandOf(request[r])
           /\ errandOf' = [errandOf EXCEPT ![r] = ErrandOf(q)]
  <1>1. request' = [s \in Requests |-> IF s = r THEN q ELSE request[s]]
    BY ContinueRequests
  <1>. QED
    BY <1>1 DEF errandOf

LEMMA ErrandEnds ==
    ASSUME RequestsOK, NEW r \in Requests, Continue(r, Idle)
    PROVE  errandOf[r] = ErrandOf(request[r]) /\ Book!Ended(r)
  BY ErrandAfter, IdleErrand DEF Book!Ended, Request

LEMMA ErrandBegins ==
    ASSUME RequestsOK, NEW r \in Requests, NEW q \in Request,
           request[r] = Idle, Continue(r, q)
    PROVE  Book!Begun(r, ErrandOf(q))
  BY ErrandAfter, IdleErrand DEF Book!Begun

\* What a step leaves alone in the book when it leaves its tables alone.
LEMMA SameStanding ==
    ASSUME UNCHANGED tables PROVE UNCHANGED <<menu, standingOf>>
  BY DEF tables, standingOf

LEMMA SamePermits ==
    ASSUME UNCHANGED sessions PROVE UNCHANGED <<session, permitsOf>>
  BY DEF sessions, permitsOf, IsCached

LEMMA BookOpens == Init => Book!AInit
  <1> SUFFICES ASSUME Init PROVE Book!AInit
    OBVIOUS
  <1>1. standingOf = [o \in Roles |-> IF o = AdminRole THEN Menus ELSE {}]
    BY DEF Init, standingOf
  <1>2. permitsOf = [s \in Sessions |-> {}]
    BY TTLOK DEF Init, permitsOf, NoPermissions, IsCached
  <1>3. errandOf = [r \in Requests |-> Book!Nothing]
    BY IdleErrand DEF Init, errandOf
  <1>. QED
    BY <1>1, <1>2, <1>3 DEF Init, Book!AInit

(* Steps that change roles *)

LEMMA GrantIsOrder ==
    ASSUME TypeOK, NEW r \in Requests, NEW o \in Roles, NEW menus \in SUBSET Menus,
           GrantDelete(r, o, menus)
    PROVE  Book!Order(r, o, menus)
  <1> DEFINE q == [pc |-> "grant", role |-> o, todo |-> menus, done |-> {}]
  <1>1. q \in Request /\ ErrandOf(q) = Book!Ordered(o, menus)
    <2>1. menus \cup {} = menus
      OBVIOUS
    <2>2. q.pc = "grant" /\ q.role = o /\ q.todo \cup q.done = menus
      BY <2>1
    <2>3. q \in Request
      BY DEF Request
    <2>. HIDE DEF q
    <2>. QED
      BY <2>2, <2>3, ErrandKinds
  <1>2. Book!Begun(r, Book!Ordered(o, menus))
    BY <1>1, ErrandBegins, TypeParts DEF GrantDelete
  <1>. QED
    BY <1>2, SameStanding, SamePermits DEF GrantDelete, Book!Order

LEMMA DropIsOrder ==
    ASSUME TypeOK, NEW r \in Requests, NEW o \in Roles, DropRole(r, o)
    PROVE  Book!Order(r, o, {})
  <1> DEFINE q == [pc |-> "drop", role |-> o]
  <1>1. q \in Request /\ ErrandOf(q) = Book!Ordered(o, {})
    <2>1. q.pc = "drop" /\ q.role = o
      OBVIOUS
    <2>2. q \in Request
      BY DEF Request
    <2>. HIDE DEF q
    <2>. QED
      BY <2>1, <2>2, ErrandKinds
  <1>2. Book!Begun(r, Book!Ordered(o, {}))
    BY <1>1, ErrandBegins, TypeParts DEF DropRole
  <1>. QED
    BY <1>2, SameStanding, SamePermits DEF DropRole, Book!Order

\* The rows of a grant go from those to come to those inserted.
LEMMA InsertIsStutter ==
    ASSUME TypeOK, NEW r \in Requests, NEW m \in Menus, GrantInsert(r, m)
    PROVE  UNCHANGED Book!avars
  <1>1. RequestsOK
    BY TypeParts
  <1>2. /\ request[r].pc = "grant" /\ m \in request[r].todo
        /\ request[r] \in [pc: {"grant"}, role: Roles, todo: SUBSET Menus,
                           done: SUBSET Menus]
    BY <1>1 DEF GrantInsert, RequestsOK, Request, Idle
  <1> DEFINE q == [request[r] EXCEPT !.todo = @ \ {m}, !.done = @ \cup {m}]
  <1>3. /\ q \in [pc: {"grant"}, role: Roles, todo: SUBSET Menus, done: SUBSET Menus]
        /\ q.role = request[r].role
        /\ q.todo \cup q.done = request[r].todo \cup request[r].done
    BY <1>2
  <1>4. Continue(r, q)
    BY <1>1 DEF GrantInsert, Continue, RequestsOK
  <1>5. q \in Request /\ q.pc = "grant"
    BY <1>3 DEF Request
  <1>. HIDE DEF q
  <1>6. ErrandOf(q) = ErrandOf(request[r])
    BY <1>2, <1>3, <1>5, ErrandKinds
  <1>7. UNCHANGED errandOf
    BY <1>1, <1>4, <1>5, <1>6, ErrandAfter DEF errandOf
  <1>. QED
    BY <1>7, SameStanding, SamePermits DEF GrantInsert, Book!avars

LEMMA CommitIsServe ==
    ASSUME TypeOK, NEW r \in Requests, GrantCommit(r)
    PROVE  Book!Serve(r)
  <1>1. /\ request[r].pc = "grant" /\ request[r].role \in Roles
        /\ request[r].todo = {}
    BY RequestKinds, TypeParts DEF GrantCommit
  <1>2. errandOf[r] = ErrandOf(request[r]) /\ Book!Ended(r)
    BY ErrandEnds, TypeParts DEF GrantCommit
  <1>3. /\ errandOf[r].kind = "order" /\ errandOf[r].role = request[r].role
        /\ errandOf[r].menus = request[r].done
    <2>1. request[r].todo \cup request[r].done = request[r].done
      BY <1>1
    <2>. QED
      BY <1>1, <1>2, <2>1, ErrandFields
  <1>4. standingOf' = [standingOf EXCEPT ![request[r].role] = request[r].done \cap menu]
    BY <1>1 DEF GrantCommit, standingOf, RelationsOf
  <1>. QED
    BY <1>2, <1>3, <1>4, SamePermits DEF GrantCommit, Book!Serve

LEMMA DropIsServe ==
    ASSUME TypeOK, NEW r \in Requests, DropCommit(r)
    PROVE  Book!Serve(r)
  <1>1. request[r].pc = "drop" /\ request[r].role \in Roles
    BY RequestKinds, TypeParts DEF DropCommit
  <1>2. errandOf[r] = ErrandOf(request[r]) /\ Book!Ended(r)
    BY ErrandEnds, TypeParts DEF DropCommit
  <1>3. /\ errandOf[r].kind = "order" /\ errandOf[r].role = request[r].role
        /\ errandOf[r].menus = {}
    BY <1>1, <1>2, ErrandFields
  <1>4. standingOf' = [standingOf EXCEPT ![request[r].role] = {} \cap menu]
    BY <1>1 DEF DropCommit, standingOf, RelationsOf
  <1>. QED
    BY <1>2, <1>3, <1>4, SamePermits DEF DropCommit, Book!Serve

LEMMA RollbackIsWithdraw ==
    ASSUME TypeOK, NEW r \in Requests, Rollback(r)
    PROVE  Book!Withdraw(r)
  <1>1. errandOf[r] = ErrandOf(request[r]) /\ Book!Ended(r)
    BY ErrandEnds, TypeParts DEF Rollback
  <1>2. errandOf[r].kind = "order"
    BY <1>1, ErrandFields DEF Rollback
  <1>. QED
    BY <1>1, <1>2, SameStanding, SamePermits DEF Rollback, Book!Withdraw

LEMMA DeleteIsRetire ==
    ASSUME TypeOK, NEW m \in Menus, DeleteMenu(m)
    PROVE  Book!Retire(m)
  <1>1. standingOf' = [o \in Roles |-> standingOf[o] \ {m}]
    BY DEF DeleteMenu, standingOf
  <1>2. UNCHANGED errandOf
    BY DEF DeleteMenu, errandOf
  <1>. QED
    BY <1>1, <1>2, SamePermits DEF DeleteMenu, Book!Retire

(* Steps of the sessions *)

LEMMA BeginIsEnter ==
    ASSUME TypeOK, NEW s \in Sessions, NEW roles \in SUBSET Roles, Begin(s, roles)
    PROVE  Book!Enter(s, roles)
  <1>1. UNCHANGED <<errandOf, permitsOf>>
    BY DEF Begin, errandOf, permitsOf, IsCached
  <1>. QED
    BY <1>1, SameStanding DEF Begin, Book!Enter

LEMMA EndIsLeave ==
    ASSUME TypeOK, NEW s \in Sessions, End(s)
    PROVE  Book!Leave(s)
  <1>1. permitsOf' = [permitsOf EXCEPT ![s] = {}]
    BY TTLOK DEF End, permitsOf, IsCached, NoPermissions, TypeOK
  <1>2. errandOf' = [r \in Requests |->
           IF errandOf[r].kind = "look" /\ errandOf[r].session = s
           THEN Book!Nothing ELSE errandOf[r]]
    <2>1. ASSUME NEW r \in Requests
          PROVE  errandOf'[r] =
                    IF errandOf[r].kind = "look" /\ errandOf[r].session = s
                    THEN Book!Nothing ELSE errandOf[r]
      <3>1. errandOf'[r] = ErrandOf(request'[r]) /\ errandOf[r] = ErrandOf(request[r])
        BY DEF errandOf
      <3>2. CASE request[r].pc = "load"
        <4>1. /\ errandOf[r].kind = "look"
              /\ errandOf[r].session = request[r].session
          BY <3>1, <3>2, ErrandFields
        <4>2. request'[r] = IF request[r].session = s THEN Idle ELSE request[r]
          BY <3>2 DEF End
        <4>. QED
          BY <3>1, <4>1, <4>2, IdleErrand
      <3>3. CASE request[r].pc # "load"
        <4>1. errandOf[r].kind # "look"
          BY <3>1, <3>3, ErrandFields
        <4>2. request'[r] = request[r]
          BY <3>3 DEF End
        <4>. QED
          BY <3>1, <4>1, <4>2
      <3>. QED
        BY <3>2, <3>3
    <2>. QED
      BY <2>1 DEF errandOf
  <1>. QED
    BY <1>1, <1>2, SameStanding DEF End, Book!Leave

LEMMA LoadIsLook ==
    ASSUME TypeOK, NEW r \in Requests, NEW s \in Sessions, Load(r, s)
    PROVE  Book!Look(r, s)
  <1> DEFINE q == [pc |-> "load", session |-> s, urls |-> PermissionsOf(s)]
  <1>1. q \in Request
    BY DEF Request, PermissionsOf, TypeOK
  <1>2. PermissionsOf(s) = UNION {standingOf[o] : o \in UNION session[s]}
    <2>1. UNION session[s] \subseteq Roles
      BY DEF TypeOK
    <2>2. ASSUME NEW o \in UNION session[s]
          PROVE  standingOf[o] = {m \in menu : <<o, m>> \in relation}
      BY <2>1 DEF standingOf
    <2>. HIDE DEF standingOf
    <2>3. ASSUME NEW m \in PermissionsOf(s)
          PROVE  \E o \in UNION session[s] : m \in standingOf[o]
      BY <2>2 DEF PermissionsOf
    <2>4. ASSUME NEW o \in UNION session[s], NEW m \in standingOf[o]
          PROVE  m \in PermissionsOf(s)
      BY <2>2 DEF PermissionsOf
    <2>. QED
      BY <2>3, <2>4
  <1>3. Book!Begun(r, Book!Seen(s, PermissionsOf(s)))
    <2>1. q.pc = "load" /\ q.session = s /\ q.urls = PermissionsOf(s)
      OBVIOUS
    <2>2. request[r] = Idle /\ Continue(r, q)
      BY DEF Load
    <2>. HIDE DEF q
    <2>. QED
      BY <1>1, <2>1, <2>2, ErrandBegins, ErrandKinds, TypeParts
  <1>. QED
    BY <1>2, <1>3, SameStanding, SamePermits DEF Load, Book!Look

LEMMA PutIsTell ==
    ASSUME TypeOK, NEW r \in Requests, Put(r)
    PROVE  Book!Tell(r)
  <1>1. request[r].pc = "load" /\ request[r].session \in Sessions
    BY RequestKinds, TypeParts DEF Put
  <1>2. errandOf[r] = ErrandOf(request[r]) /\ Book!Ended(r)
    BY ErrandEnds, TypeParts DEF Put
  <1>3. /\ errandOf[r].kind = "look" /\ errandOf[r].session = request[r].session
        /\ errandOf[r].menus = request[r].urls
    BY <1>1, <1>2, ErrandFields
  <1>4. permitsOf' = [permitsOf EXCEPT ![request[r].session] = request[r].urls]
    <2> DEFINE entry == [age |-> 0, urls |-> request[r].urls]
    <2>1. permissions' = [s \in Sessions |->
             IF s = request[r].session THEN entry ELSE permissions[s]]
      BY DEF Put, TypeOK
    <2>2. entry.age < TTL /\ entry.urls = request[r].urls
      BY TTLOK
    <2>. HIDE DEF entry
    <2>. QED
      BY <1>1, <2>1, <2>2 DEF permitsOf, IsCached
  <1>. QED
    BY <1>2, <1>3, <1>4, SameStanding DEF Put, Book!Tell

LEMMA TickIsForget ==
    ASSUME TypeOK, Tick
    PROVE  Book!Forget({s \in Sessions : ~IsCached(permissions'[s])})
  <1> DEFINE sessions0 == {s \in Sessions : ~IsCached(permissions'[s])}
  <1>1. permitsOf' = [s \in Sessions |-> IF s \in sessions0 THEN {} ELSE permitsOf[s]]
    <2>1. ASSUME NEW s \in Sessions
          PROVE  /\ permissions'[s].urls = permissions[s].urls
                 /\ IsCached(permissions'[s]) => IsCached(permissions[s])
      <3>1. permissions[s] \in [age: 0..TTL, urls: SUBSET Menus]
        BY DEF TypeOK
      <3>2. permissions'[s] = [permissions[s] EXCEPT !.age = IF @ < TTL THEN @ + 1 ELSE @]
        BY DEF Tick
      <3>. QED
        BY <3>1, <3>2, TTLOK DEF IsCached
    <2>. QED
      BY <2>1 DEF permitsOf, IsCached
  <1>2. UNCHANGED errandOf
    BY DEF Tick, errandOf
  <1>. QED
    BY <1>1, <1>2, SameStanding DEF Tick, Book!Forget

LEMMA BookKept ==
    ASSUME TypeOK, [Next]_vars
    PROVE  [Book!ANext]_(Book!avars)
  <1>1. CASE UNCHANGED vars
    BY <1>1 DEF vars, Book!avars, standingOf, permitsOf, errandOf, IsCached
  <1>2. ASSUME NEW o \in Roles, AddRole(o) PROVE UNCHANGED Book!avars
    BY <1>2, SamePermits DEF AddRole, Book!avars, standingOf, errandOf
  <1>3. ASSUME NEW r \in Requests, NEW o \in Roles, NEW menus \in SUBSET Menus,
               GrantDelete(r, o, menus)
        PROVE  Book!ANext
    BY <1>3, GrantIsOrder DEF Book!ANext
  <1>4. ASSUME NEW r \in Requests, NEW o \in Roles, DropRole(r, o)
        PROVE  Book!ANext
    <2>1. Book!Order(r, o, {}) /\ {} \in SUBSET Menus
      BY <1>4, DropIsOrder
    <2>. QED
      BY <2>1 DEF Book!ANext
  <1>5. ASSUME NEW r \in Requests, NEW m \in Menus, GrantInsert(r, m)
        PROVE  UNCHANGED Book!avars
    BY <1>5, InsertIsStutter
  <1>6. ASSUME NEW r \in Requests, GrantCommit(r) \/ DropCommit(r) \/ Rollback(r)
        PROVE  Book!ANext
    BY <1>6, CommitIsServe, DropIsServe, RollbackIsWithdraw DEF Book!ANext
  <1>7. ASSUME NEW r \in Requests, NEW s \in Sessions, Load(r, s) PROVE Book!ANext
    BY <1>7, LoadIsLook DEF Book!ANext
  <1>8. ASSUME NEW r \in Requests, Put(r) PROVE Book!ANext
    BY <1>8, PutIsTell DEF Book!ANext
  <1>9. ASSUME NEW m \in Menus, DeleteMenu(m) PROVE Book!ANext
    BY <1>9, DeleteIsRetire DEF Book!ANext
  <1>10. ASSUME NEW s \in Sessions, NEW roles \in SUBSET Roles, Begin(s, roles)
         PROVE  Book!ANext
    BY <1>10, BeginIsEnter DEF Book!ANext
  <1>11. ASSUME NEW s \in Sessions, End(s) PROVE Book!ANext
    BY <1>11, EndIsLeave DEF Book!ANext
  <1>12. CASE Tick
    <2>1. {s \in Sessions : ~IsCached(permissions'[s])} \in SUBSET Sessions
      OBVIOUS
    <2>. QED
      BY <1>12, <2>1, TickIsForget DEF Book!ANext
  <1>. QED
    BY <1>1, <1>2, <1>3, <1>4, <1>5, <1>6, <1>7, <1>8, <1>9, <1>10, <1>11, <1>12 DEF Next

\* The roles change as a whole, and a session is permitted what its roles
\* permitted at one moment since it began: the transactions, the sessions and
\* the cache implement the abstract authority (RoleServiceImpl, ShiroDbRealm).
THEOREM AuthorityImplemented == Spec => ImplementsAuthority
  <1>1. TypeOK /\ [Next]_vars => [Book!ANext]_(Book!avars)
    BY BookKept
  <1>. QED
    BY <1>1, BookOpens, AuthorityTypeCorrect, PTL
    DEF Spec, ImplementsAuthority, Book!ASpec
=============================================================================
