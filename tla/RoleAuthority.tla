--------------------------- MODULE RoleAuthority ---------------------------
(***************************************************************************)
(* Roles, the menus they are granted, and the permissions of those who are  *)
(* logged in (RoleController, RoleServiceImpl, RoleMapper.xml, ShiroDbRealm,*)
(* ShiroFactroy, PermissionCheckFactory).  A session keeps the ids of its   *)
(* user's roles as they were when it began.  What these roles permit is     *)
(* read from sys_relation and sys_menu and kept, per session, in Ehcache,   *)
(* for an hour at most; nothing that changes the tables touches it.         *)
(*                                                                          *)
(* Granting and deleting a role are transactions over sys_relation.  The    *)
(* table has no index but its key, so a delete by role or by menu waits     *)
(* while another transaction has deleted or inserted rows there.            *)
(***************************************************************************)
EXTENDS Naturals, FiniteSets

CONSTANTS
    Roles,          \* ids of sys_role; deleted ids are not handed out again
    AdminRole,      \* ADMIN_ROLE_ID, which cannot be deleted
    Menus,          \* ids of sys_menu; each is the url it permits
    Sessions,       \* browsers, each in one session at most
    TTL,            \* timeToLiveSeconds of Ehcache, in ticks
    Requests        \* threads that serve requests

ASSUME AdminRoleOK == AdminRole \in Roles
ASSUME TTLOK == TTL \in Nat \ {0}

VARIABLES
    role,           \* ids in sys_role
    usedRoles,      \* ids handed out so far
    menu,           \* ids in sys_menu
    relation,       \* sys_relation: pairs of a role and a menu
    session,        \* the roles in each session's principal, as a set of sets
    permissions,    \* the cached permissions of each session
    request,        \* what each thread is doing
    granted,        \* the menus each role was last granted, for the properties
    outdated        \* ticks since a session's permissions went out of date

tables == <<role, usedRoles, menu, relation, granted>>
sessions == <<session, permissions, outdated>>
vars == <<role, usedRoles, menu, relation, session, permissions, request,
          granted, outdated>>

-----------------------------------------------------------------------------
Idle == [pc |-> "idle"]
NoPermissions == [age |-> TTL, urls |-> {}]

Init ==
    /\ role = {AdminRole} /\ usedRoles = {AdminRole}
    /\ menu = Menus
    /\ relation = {AdminRole} \X Menus
    /\ granted = [o \in Roles |-> IF o = AdminRole THEN Menus ELSE {}]
    /\ session = [s \in Sessions |-> {}]
    /\ permissions = [s \in Sessions |-> NoPermissions]
    /\ request = [r \in Requests |-> Idle]
    /\ outdated = [s \in Sessions |-> 0]

Continue(r, q) == request' = [request EXCEPT ![r] = q]

\* A handler that is one statement runs in a thread as well.
ThreadIsFree == \E r \in Requests : request[r] = Idle

\* Whether no transaction but r's has rows of sys_relation locked.
RelationIsFree(r) == \A q \in Requests \ {r} : request[q].pc # "grant"

RelationsOf(o) == {g \in relation : g[1] = o}
-----------------------------------------------------------------------------
(* Roles and what they are granted *)

AddRole(o) ==
    /\ ThreadIsFree
    /\ o \notin usedRoles
    /\ role' = role \cup {o} /\ usedRoles' = usedRoles \cup {o}
    /\ UNCHANGED <<menu, relation, granted, request, sessions>>

\* setAuthority, its first statement.  The role and the menus are whatever the
\* page showed when it was loaded; nobody looks whether they are still there.
GrantDelete(r, o, menus) ==
    /\ request[r] = Idle
    /\ o \in usedRoles
    /\ RelationIsFree(r)
    /\ Continue(r, [pc |-> "grant", role |-> o, todo |-> menus, done |-> {}])
    /\ UNCHANGED <<tables, sessions>>

GrantInsert(r, m) ==
    /\ request[r].pc = "grant"
    /\ m \in request[r].todo
    /\ request' = [request EXCEPT ![r].todo = @ \ {m}, ![r].done = @ \cup {m}]
    /\ UNCHANGED <<tables, sessions>>

GrantCommit(r) ==
    /\ request[r].pc = "grant" /\ request[r].todo = {}
    /\ relation' = (relation \ RelationsOf(request[r].role))
                       \cup ({request[r].role} \X request[r].done)
    /\ granted' = [granted EXCEPT ![request[r].role] = request[r].done]
    /\ Continue(r, Idle)
    /\ UNCHANGED <<role, usedRoles, menu, sessions>>

\* Bug: the admin's role may be deleted.
MayDropAny(o) == o \in usedRoles

MayDrop(o) == o \in usedRoles /\ o # AdminRole

\* delRoleById, its first statement.
DropRole(r, o) ==
    /\ request[r] = Idle
    /\ MayDrop(o)
    /\ Continue(r, [pc |-> "drop", role |-> o])
    /\ UNCHANGED <<tables, sessions>>

\* Bug: the relations of the role are left.
DropCommitAlone(r) ==
    /\ request[r].pc = "drop"
    /\ RelationIsFree(r)
    /\ role' = role \ {request[r].role}
    /\ Continue(r, Idle)
    /\ UNCHANGED <<usedRoles, menu, relation, granted, sessions>>

\* Its second, and the commit.  Users keep the id of the role.
DropCommit(r) ==
    /\ request[r].pc = "drop"
    /\ RelationIsFree(r)
    /\ role' = role \ {request[r].role}
    /\ relation' = relation \ RelationsOf(request[r].role)
    /\ granted' = [granted EXCEPT ![request[r].role] = {}]
    /\ Continue(r, Idle)
    /\ UNCHANGED <<usedRoles, menu, sessions>>

\* Bug: the rows inserted before the failure stay, those deleted are gone.
RollbackPartly(r) ==
    /\ request[r].pc \in {"grant", "drop"}
    /\ relation' = IF request[r].pc = "drop" THEN relation
                   ELSE (relation \ RelationsOf(request[r].role))
                            \cup ({request[r].role} \X request[r].done)
    /\ Continue(r, Idle)
    /\ UNCHANGED <<role, usedRoles, menu, granted, sessions>>

\* A statement fails or the server stops before the commit.
Rollback(r) ==
    /\ request[r].pc \in {"grant", "drop"}
    /\ Continue(r, Idle)
    /\ UNCHANGED <<tables, sessions>>

\* delMenu; the module MenuTree has its steps.
DeleteMenu(m) ==
    /\ ThreadIsFree
    /\ \A r \in Requests : request[r].pc # "grant"
    /\ m \in menu
    /\ menu' = menu \ {m}
    /\ relation' = {g \in relation : g[2] # m}
    /\ UNCHANGED <<role, usedRoles, granted, request, sessions>>
-----------------------------------------------------------------------------
(* Sessions *)

\* A user logs in, or is remembered from a login before, with the roles the
\* user had then; some may be gone since.
Begin(s, roles) ==
    /\ ThreadIsFree
    /\ session[s] = {}
    /\ roles \subseteq usedRoles
    /\ session' = [session EXCEPT ![s] = {roles}]
    /\ UNCHANGED <<tables, permissions, outdated, request>>

\* Logging out, the end of a session that was idle too long, and the index page
\* for a user without roles.  Permissions loaded for a session that is over
\* are kept for a principal that nobody is any more.
End(s) ==
    /\ session[s] # {}
    /\ session' = [session EXCEPT ![s] = {}]
    /\ permissions' = [permissions EXCEPT ![s] = NoPermissions]
    /\ outdated' = [outdated EXCEPT ![s] = 0]
    /\ request' = [r \in Requests |->
          IF request[r].pc = "load" /\ request[r].session = s
          THEN Idle ELSE request[r]]
    /\ UNCHANGED tables

\* Bug: menus that are gone are not left out.
PermissionsWithGone(s) ==
    {m \in Menus : \E roles \in session[s] : \E o \in roles : <<o, m>> \in relation}

\* getResUrlsByRoleId for every role of the session, in one snapshot: the
\* check runs in a transaction.
PermissionsOf(s) ==
    {m \in menu : \E roles \in session[s] : \E o \in roles : <<o, m>> \in relation}

\* Bug: an entry stays for ever, as those of the cache CONSTANT do.
IsCachedForEver(entry) == entry # NoPermissions

IsCached(entry) == entry.age < TTL

\* hasPermission without an entry: doGetAuthorizationInfo.
Load(r, s) ==
    /\ request[r] = Idle
    /\ session[s] # {}
    /\ ~IsCached(permissions[s])
    /\ Continue(r, [pc |-> "load", session |-> s, urls |-> PermissionsOf(s)])
    /\ UNCHANGED <<tables, sessions>>

Put(r) ==
    /\ request[r].pc = "load"
    /\ permissions' = [permissions EXCEPT ![request[r].session] =
                          [age |-> 0, urls |-> request[r].urls]]
    /\ Continue(r, Idle)
    /\ UNCHANGED <<tables, session, outdated>>

\* Time passes; no check takes a tick.
Tick ==
    /\ \A r \in Requests : request[r].pc # "load"
    /\ permissions' = [s \in Sessions |->
          [permissions[s] EXCEPT !.age = IF @ < TTL THEN @ + 1 ELSE @]]
    /\ outdated' = [s \in Sessions |->
          IF /\ IsCached(permissions'[s])
             /\ permissions[s].urls # PermissionsOf(s)
          THEN IF outdated[s] < TTL THEN outdated[s] + 1 ELSE TTL
          ELSE 0]
    /\ UNCHANGED <<tables, session, request>>
-----------------------------------------------------------------------------
Next ==
    \/ \E o \in Roles : AddRole(o)
    \/ \E r \in Requests :
          \/ \E o \in Roles :
                \/ \E menus \in SUBSET Menus : GrantDelete(r, o, menus)
                \/ DropRole(r, o)
          \/ \E m \in Menus : GrantInsert(r, m)
          \/ GrantCommit(r) \/ DropCommit(r) \/ Rollback(r)
          \/ \E s \in Sessions : Load(r, s)
          \/ Put(r)
    \/ \E m \in Menus : DeleteMenu(m)
    \/ \E s \in Sessions :
          \/ \E roles \in SUBSET Roles : Begin(s, roles)
          \/ End(s)
    \/ Tick

Spec == Init /\ [][Next]_vars
-----------------------------------------------------------------------------
(* Properties *)

\* Every table, the sessions, the cache and the requests hold what their types
\* allow; a cached permission is a menu some role was granted.
Request ==
    {Idle} \cup [pc: {"grant"}, role: Roles, todo: SUBSET Menus, done: SUBSET Menus]
           \cup [pc: {"drop"}, role: Roles]
           \cup [pc: {"load"}, session: Sessions, urls: SUBSET Menus]
TypeOK ==
    /\ role \subseteq usedRoles /\ AdminRole \in role /\ usedRoles \subseteq Roles
    /\ menu \subseteq Menus
    /\ relation \subseteq usedRoles \X Menus
    /\ granted \in [Roles -> SUBSET Menus]
    /\ session \in [Sessions -> {{}} \cup {{roles} : roles \in SUBSET usedRoles}]
    /\ permissions \in [Sessions -> [age: 0..TTL, urls: SUBSET Menus]]
    /\ outdated \in [Sessions -> 0..TTL]
    /\ request \in [Requests -> Request]

\* What a role is granted is what one request granted it, whole, or what that
\* left when menus were deleted since: never a part of it, never a mixture of
\* two that overlap (RoleServiceImpl.setAuthority).
GrantsAreWhole ==
    \A o \in Roles :
        /\ \A m \in menu : (<<o, m>> \in relation) <=> (m \in granted[o])
        /\ \A g \in RelationsOf(o) : g[2] \in granted[o]

\* A role that is deleted grants nothing, unless a request grants it menus that
\* ends after the deletion (RoleServiceImpl.delRoleById).
GoneRolesGrantOnlyByLateRequests ==
    [][\A o \in Roles :
          (/\ o \in usedRoles \ role'
           /\ \E g \in relation' : g[1] = o
           /\ o \in role \/ RelationsOf(o) = {}) =>
              \E r \in Requests :
                 /\ request[r].pc = "grant" /\ request[r].role = o
                 /\ request'[r] = Idle /\ o \notin role]_vars

\* No session goes on with permissions its roles no longer give, or without
\* those they now give, for the lifetime of a cached entry: a change is seen by
\* everybody within the hour (ehcache.xml, ShiroDbRealm).
ChangesSeenInTime == \A s \in Sessions : outdated[s] < TTL
-----------------------------------------------------------------------------
(* The abstract authority *)

\* What a role permits is read off the tables; an order is a transaction on
\* sys_relation, with the rows inserted and those still to come; a session is
\* told nothing when it has no cached entry.
standingOf == [o \in Roles |-> {m \in menu : <<o, m>> \in relation}]
permitsOf == [s \in Sessions |->
    IF IsCached(permissions[s]) THEN permissions[s].urls ELSE {}]
ErrandOf(q) ==
    CASE q.pc = "grant" ->
           [kind |-> "order", role |-> q.role, menus |-> q.todo \cup q.done]
      [] q.pc = "drop" -> [kind |-> "order", role |-> q.role, menus |-> {}]
      [] q.pc = "load" -> [kind |-> "look", session |-> q.session, menus |-> q.urls]
      [] OTHER -> [kind |-> "nothing"]
errandOf == [r \in Requests |-> ErrandOf(request[r])]
Book == INSTANCE Authority
            WITH existing <- menu, standing <- standingOf, member <- session,
                 permits <- permitsOf, errand <- errandOf

\* The transactions, the sessions and the cache implement the abstract
\* authority: roles change as a whole, and what a session is permitted is what
\* its roles permitted at one moment since it began (RoleServiceImpl,
\* ShiroDbRealm).
ImplementsAuthority == Book!ASpec
=============================================================================
