------------------------------ MODULE MenuTree ------------------------------
(***************************************************************************)
(* The menus (MenuController, MenuServiceImpl, MenuMapper.xml).  A menu     *)
(* names its parent by code, pcode, and keeps in pcodes the codes of all    *)
(* the menus above it: the text "[0],[system],[mgr]," in the table, a       *)
(* sequence here.  Neither column follows when a menu above changes its     *)
(* code or its place.  levels is always the length of pcodes: menuSetPcode  *)
(* writes both from the same row, so it is left out.                        *)
(*                                                                          *)
(* No handler runs in a transaction: each statement commits by itself, and  *)
(* a request that fails half-way leaves what it has done.  Roles are        *)
(* granted menus by rows of sys_relation; the index page builds the menus   *)
(* of a role into a tree.                                                   *)
(***************************************************************************)
EXTENDS Integers, Sequences, FiniteSets, Tables

CONSTANTS
    Menus,          \* ids of sys_menu; deleted ids are not handed out again
    Codes,          \* codes that menus are given
    Top,            \* the code "0", the parent of the top menus
    MaxEdits,       \* edits in one behaviour
    MaxPath,        \* codes that fit into the column pcodes, a varchar(255)
    Roles,          \* ids of sys_role
    Requests        \* threads that serve requests

ASSUME CodesOK == Top \notin Codes
ASSUME BoundsOK == MaxPath \in Nat \ {0} /\ MaxEdits \in Nat

VARIABLES
    menu,           \* sys_menu
    usedMenus,      \* ids handed out so far
    relation,       \* sys_relation: pairs of a role and a menu
    edits,          \* edits begun so far
    request         \* what each thread is doing

tables == <<menu, usedMenus, relation, edits>>
vars == <<menu, usedMenus, relation, edits, request>>

-----------------------------------------------------------------------------
Paths == {path \in Seq(Codes \cup {Top}) : Len(path) \in 1..MaxPath}
MenuRow == [code: Codes, pcode: Codes \cup {Top}, pcodes: Paths]

Idle == [pc |-> "idle"]

Init ==
    /\ menu = EmptyTable
    /\ usedMenus = {}
    /\ relation = {}
    /\ edits = 0
    /\ request = [r \in Requests |-> Idle]

Continue(r, q) == request' = [request EXCEPT ![r] = q]

\* A handler that is one transaction runs in a thread as well.
ThreadIsFree == \E r \in Requests : request[r] = Idle

OfCode(c) == {m \in DOMAIN menu : menu[m].code = c}
-----------------------------------------------------------------------------
(* Adding and editing *)

\* menuSetPcode without a parent.
AtTop(c) == [code |-> c, pcode |-> Top, pcodes |-> <<Top>>]

\* Bug: the path ends with the grandparent, not the parent.
BelowOwnPath(c, p) ==
    [code |-> c, pcode |-> menu[p].code, pcodes |-> menu[p].pcodes]

\* menuSetPcode: the columns of a menu put below the menu p.
Below(c, p) ==
    [code |-> c, pcode |-> menu[p].code,
     pcodes |-> Append(menu[p].pcodes, menu[p].code)]

\* The row of a form that names the parent p by id, none when that is an
\* exception: a parent that is gone, or one of the same code.
Places(c, p) ==
    IF p = Top THEN {AtTop(c)}
    ELSE IF p \in DOMAIN menu /\ menu[p].code # c THEN {Below(c, p)} ELSE {}

\* Bug: the check whether the code is taken is left out.
CodeIsFreeUnchecked(c) == TRUE

\* getMenuNameByCode: with one row of the code the addition is refused, with
\* two selectOne is an exception.
CodeIsFree(c) == OfCode(c) = {}

AddCheck(r, c) ==
    /\ request[r] = Idle
    /\ CodeIsFree(c)
    /\ Continue(r, [pc |-> "place", code |-> c])
    /\ UNCHANGED tables

AddPlace(r, p) ==
    /\ request[r].pc = "place"
    /\ \E row \in Places(request[r].code, p) :
          Continue(r, [pc |-> "add", row |-> row])
    /\ UNCHANGED tables

\* Bug: the column takes one code more than it holds.
FitsAlmost(row) == Len(row.pcodes) <= MaxPath + 1

\* A path that is too long for its column is an exception.
Fits(row) == Len(row.pcodes) <= MaxPath

AddInsert(r, m) ==
    /\ request[r].pc = "add"
    /\ m \notin usedMenus
    /\ IF Fits(request[r].row)
       THEN /\ menu' = Insert(menu, m, request[r].row)
            /\ usedMenus' = usedMenus \cup {m}
       ELSE UNCHANGED <<menu, usedMenus>>
    /\ Continue(r, Idle)
    /\ UNCHANGED <<relation, edits>>

\* The code of the form is not looked up; the parent may be any menu.
EditPlace(r, m, c, p) ==
    /\ request[r] = Idle
    /\ m \in usedMenus
    /\ \E row \in Places(c, p) :
          Continue(r, [pc |-> "edit", menu |-> m, row |-> row])
    /\ edits < MaxEdits /\ edits' = edits + 1
    /\ UNCHANGED <<menu, usedMenus, relation>>

\* The menus below keep the old code in pcode and in pcodes.
EditWrite(r) ==
    /\ request[r].pc = "edit"
    /\ menu' = IF Fits(request[r].row)
               THEN Update(menu, request[r].menu, request[r].row) ELSE menu
    /\ Continue(r, Idle)
    /\ UNCHANGED <<usedMenus, relation, edits>>
-----------------------------------------------------------------------------
(* Deleting: delMenuContainSubMenus, one statement after the other.         *)
(* todo: the menus still to be deleted; current: the one whose row has just *)
(* been; code: that of the menu asked for, until the search for the menus   *)
(* below it, {} after it, and {} when there was no such menu.               *)

Remove(r, code, todo, current) ==
    Continue(r, [pc |-> "remove", code |-> code, todo |-> todo,
                 current |-> current])

RemoveLoad(r, m) ==
    /\ request[r] = Idle
    /\ m \in usedMenus
    /\ Remove(r, IF m \in DOMAIN menu THEN {menu[m].code} ELSE {}, {m}, {})
    /\ UNCHANGED tables

\* delMenu, its first statement.
DeleteRow(r, m) ==
    /\ request[r].pc = "remove" /\ request[r].current = {}
    /\ m \in request[r].todo
    /\ menu' = Delete(menu, m)
    /\ Remove(r, request[r].code, request[r].todo \ {m}, {m})
    /\ UNCHANGED <<usedMenus, relation, edits>>

\* Bug: the relations of the menus below are left.
DeleteRelationsOfFirst(r) ==
    /\ request[r].pc = "remove" /\ request[r].current # {}
    /\ relation' = IF request[r].code = {} THEN relation
                   ELSE {g \in relation : g[2] \notin request[r].current}
    /\ IF request[r].todo = {} /\ request[r].code = {}
       THEN Continue(r, Idle)
       ELSE Remove(r, request[r].code, request[r].todo, {})
    /\ UNCHANGED <<menu, usedMenus, edits>>

\* Its second.  The request ends after its last menu; one that had no menu to
\* begin with ends by an exception.
DeleteRelations(r) ==
    /\ request[r].pc = "remove" /\ request[r].current # {}
    /\ relation' = {g \in relation : g[2] \notin request[r].current}
    /\ IF request[r].todo = {} /\ request[r].code = {}
       THEN Continue(r, Idle)
       ELSE Remove(r, request[r].code, request[r].todo, {})
    /\ UNCHANGED <<menu, usedMenus, edits>>

InPath(c, path) == \E i \in 1..Len(path) : path[i] = c

\* Bug: only the menus directly below.
SubMenusDirect(c) == {m \in DOMAIN menu : menu[m].pcode = c}

\* where pcodes like '%[c]%'
SubMenus(c) == {m \in DOMAIN menu : InPath(c, menu[m].pcodes)}

\* Bug: the search goes by the parent's code instead of the path.
RemoveSearchByParent(r) ==
    /\ request[r].pc = "remove" /\ request[r].current = {}
    /\ \E c \in request[r].code :
          /\ request[r].todo = {}
          /\ IF SubMenusDirect(c) = {} THEN Continue(r, Idle)
             ELSE Remove(r, {}, SubMenusDirect(c), {})
    /\ UNCHANGED tables

RemoveSearch(r) ==
    /\ request[r].pc = "remove" /\ request[r].current = {}
    /\ \E c \in request[r].code :
          /\ request[r].todo = {}
          /\ IF SubMenus(c) = {} THEN Continue(r, Idle)
             ELSE Remove(r, {}, SubMenus(c), {})
    /\ UNCHANGED tables

\* A statement fails or the server stops: what is done stays.
Break(r) ==
    /\ request[r] # Idle
    /\ Continue(r, Idle)
    /\ UNCHANGED tables
-----------------------------------------------------------------------------
\* setAuthority replaces the menus of a role, in one transaction; the page
\* may have shown menus that are gone since.
SetAuthority(role, menus) ==
    /\ ThreadIsFree
    /\ menus \subseteq usedMenus
    /\ relation' = {g \in relation : g[1] # role} \cup ({role} \X menus)
    /\ UNCHANGED <<menu, usedMenus, edits, request>>
-----------------------------------------------------------------------------
Next ==
    \/ \E r \in Requests :
          \/ \E c \in Codes : AddCheck(r, c)
          \/ \E p \in Menus \cup {Top} : AddPlace(r, p)
          \/ \E m \in Menus : AddInsert(r, m) \/ RemoveLoad(r, m) \/ DeleteRow(r, m)
          \/ \E m \in Menus, c \in Codes, p \in Menus \cup {Top} : EditPlace(r, m, c, p)
          \/ EditWrite(r) \/ DeleteRelations(r) \/ RemoveSearch(r) \/ Break(r)
    \/ \E role \in Roles, menus \in SUBSET Menus : SetAuthority(role, menus)

Spec == Init /\ [][Next]_vars
-----------------------------------------------------------------------------
(* The index page: MenuNode.buildTitle over the menus of a role             *)

Granted(role) == {m \in DOMAIN menu : <<role, m>> \in relation}

\* getChildList, over the rows of getMenusByRoleIds: the parent is whatever
\* menu has the code in pcode.
ChildList(role, m) == {n \in Granted(role) : menu[n].pcode = menu[m].code}

\* Sets of menus each of which has a child in the set: recursionFn, once among
\* them, always finds one to call itself for.
Loops(role) ==
    {loop \in SUBSET Granted(role) :
        \A m \in loop : ChildList(role, m) \cap loop # {}}

\* recursionFn ends for every role: what the check of a menu's code against its
\* parent's is there for (MenuController.menuSetPcode).
IndexPageEnds == \A role \in Roles : Loops(role) = {{}}
-----------------------------------------------------------------------------
(* Properties *)

\* Rows and requests hold what their columns allow.
NewRow == [code: Codes, pcode: Codes \cup {Top},
           pcodes: Seq(Codes \cup {Top}) \ {<<>>}]
Request ==
    {Idle} \cup [pc: {"place"}, code: Codes]
           \cup [pc: {"add"}, row: NewRow]
           \cup [pc: {"edit"}, menu: Menus, row: NewRow]
           \cup [pc: {"remove"}, code: SUBSET Codes, todo: SUBSET Menus,
                 current: SUBSET Menus]
TypeOK ==
    /\ usedMenus \subseteq Menus /\ edits \in 0..MaxEdits
    /\ IsTable(menu, usedMenus, MenuRow)
    /\ relation \subseteq Roles \X usedMenus
    /\ request \in [Requests -> Request]

\* The menus a removal is going to delete, if nothing stops it.
DoomedBy(q) ==
    IF q.pc = "remove" THEN q.todo \cup UNION {SubMenus(c) : c \in q.code} ELSE {}
Doomed == UNION {DoomedBy(request[r]) : r \in Requests}
Lasting == DOMAIN menu \ Doomed

\* Codes name one menu each, and the path of a menu is that of its parent, and
\* the parent; of the menus that are not on their way out.
Placed(row, menus) ==
    \/ row.pcode = Top /\ row.pcodes = <<Top>>
    \/ \E p \in menus : /\ row.pcode = menu[p].code
                        /\ row.pcodes = Append(menu[p].pcodes, menu[p].code)
Sound ==
    /\ \A m, n \in DOMAIN menu : menu[m].code = menu[n].code => m = n
    /\ \A m \in Lasting : Placed(menu[m], Lasting)

\* The menus below m: those in every set that holds the menus whose parent is m
\* or in the set.
HoldsChildren(below, m) ==
    \A c, p \in DOMAIN menu :
        (menu[c].pcode = menu[p].code /\ p \in below \cup {m}) => c \in below
Under(m) ==
    {n \in DOMAIN menu :
        \A below \in SUBSET DOMAIN menu : HoldsChildren(below, m) => n \in below}

\* In a sound tree the search for a code in the paths, by which a removal finds
\* what it takes along, finds what is below the menu and nothing else
\* (MenuServiceImpl.delMenuContainSubMenus).
SearchFindsSubtree ==
    (Sound /\ Doomed = {}) =>
        \A m \in DOMAIN menu : SubMenus(menu[m].code) = Under(m)

\* A sound tree becomes unsound only when an edit is of a menu that has menus
\* below it, takes a code in use or puts the menu below itself, when a removal is
\* cut short, or when what a request read has changed before it writes
\* (MenuController.add and edit, MenuServiceImpl): served one after another and
\* to their end, no addition and no removal does it.
EditsBadly(q) ==
    /\ q.pc = "edit" /\ q.menu \in DOMAIN menu
    /\ \/ \E m \in DOMAIN menu : menu[m].pcode = menu[q.menu].code
       \/ OfCode(q.row.code) \ {q.menu} # {}
       \/ q.row.pcode = menu[q.menu].code
Outdated(q) ==
    /\ q.pc \in {"add", "edit"}
    /\ \/ ~\E p \in Lasting \cup {Top} : q.row \in Places(q.row.code, p)
       \/ q.pc = "add" /\ OfCode(q.row.code) # {}
BrokenOnlyByEditsStopsOrOverlap ==
    [][/\ (Sound /\ ~Sound') =>
            \E r \in Requests :
               /\ request'[r] # request[r]
               /\ \/ EditsBadly(request[r]) \/ Outdated(request[r])
                  \/ DoomedBy(request[r]) # {} /\ request'[r] = Idle
       /\ \A r \in Requests :
            (request'[r].pc = "place" /\ request'[r] # request[r]) =>
               OfCode(request'[r].code) = {}]_vars

\* A role is granted a menu that is gone only from a page that showed it before,
\* or when a removal stops between the row and its relations
\* (MenuServiceImpl.delMenu).
Dangling ==
    {g \in relation : g[2] \notin DOMAIN menu /\ ~\E r \in Requests :
        request[r].pc = "remove" /\ g[2] \in request[r].current}
GrantsDangleOnlyByOldPagesOrStops ==
    [][\A g \in Dangling' \ Dangling :
          \/ g \notin relation
          \/ \E r \in Requests : /\ request[r].pc = "remove"
                                 /\ g[2] \in request[r].current
                                 /\ request'[r] = Idle]_vars
=============================================================================
