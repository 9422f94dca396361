---------------------------- MODULE AdminWindow ----------------------------
(***************************************************************************)
(* An administrator's window on the dictionaries and the roles: tabs with a *)
(* list each, the form or the question opened over it, the requests they    *)
(* send, and what the server does with them (dict.js, dict_info.js, role.js,*)
(* role_info.js, Feng.js; DictController, DictServiceImpl, RoleController,  *)
(* LogObjectHolder, LogAop, LogManager).  Others work on the dictionaries   *)
(* at the same time.                                                        *)
(*                                                                          *)
(* A request that submits a form is synchronous and freezes the whole       *)
(* window; a form and a list are loaded while it goes on.  The entries of a *)
(* dictionary and the columns of a role are left out: a submitted form is   *)
(* acceptable or not.  The transactions of two requests do not overlap, so  *)
(* that two cannot both find a name free.                                   *)
(***************************************************************************)
EXTENDS Tabs

CONSTANTS
    Roles,          \* ids of sys_role
    Names,          \* names of dictionaries
    MaxDict,        \* bound: ids of sys_dict, which are handed out in order
    MaxLoads,       \* bound: forms being loaded at once
    MaxTasks        \* bound: log tasks waiting at once

Pages == {"dict", "role"}
ASSUME PagesOK == Page = Pages \cup {Home} /\ Home \notin Pages
ASSUME BoundsOK == MaxDict \in Nat \ {0} /\ MaxLoads \in Nat /\ MaxTasks \in Nat

Dicts == 1..MaxDict
Absent == "absent"
ASSUME NamesOK == Absent \notin Names
Rows == ({"dict"} \X Dicts) \cup ({"role"} \X Roles)
NoRow == <<"none">>

VARIABLES
    tabs,           \* the tabs, see Tabs
    list,           \* the names the list of dictionaries shows
    stale,          \* whether the list is being loaded
    dialog,         \* the form open over each page
    asking,         \* the deletion the window asks to confirm, as a set
    deleting,       \* the deletion the server is at, as a set
    loads,          \* the forms being loaded
    dict, last,     \* names in sys_dict by id, and the last id handed out
    holder,         \* the session's LogObjectHolder
    tasks           \* the log tasks that wait in LogManager

page == <<list, stale, dialog>>
server == <<loads, dict, last, holder, tasks>>
vars == <<tabs, list, stale, dialog, asking, deleting, loads, dict, last,
          holder, tasks>>

-----------------------------------------------------------------------------
NoDialog == [kind |-> "none"]
NoList == [d \in Dicts |-> Absent]

Init ==
    /\ tabs = InitialTabs
    /\ list = NoList /\ stale = FALSE
    /\ dialog = [p \in Pages |-> NoDialog]
    /\ asking = {} /\ deleting = {} /\ loads = {}
    /\ \E n \in Names : dict = [NoList EXCEPT ![1] = n]
    /\ last = 1 /\ holder = NoRow /\ tasks = {}

\* The user can click anywhere but under the question and while no synchronous
\* request is on its way.
CanClick == asking = {} /\ deleting = {}

\* The list of p is in sight and no form covers it.
ListInReach(p) == CanClick /\ p \in tabs.shown /\ dialog[p] = NoDialog

FormInReach(p, kinds) == CanClick /\ p \in tabs.shown /\ dialog[p].kind \in kinds

-----------------------------------------------------------------------------
(* Tabs *)

\* Frames that are gone take their list and form along, new ones load their
\* list.  A form stays "alone" while no other page of the window is used.
ChangeTabs(t) ==
    /\ CanClick
    /\ tabs' = t
    /\ dialog' = [p \in Pages |->
          IF p \notin t.frames THEN NoDialog
          ELSE IF dialog[p].kind \in {"loading", "edit"}
          THEN [dialog[p] EXCEPT !.alone = @ /\ t.shown \subseteq {p, Home}]
          ELSE dialog[p]]
    /\ list' = IF "dict" \in t.frames THEN list ELSE NoList
    /\ stale' = ("dict" \in t.frames /\ (stale \/ "dict" \notin tabs.frames))
    /\ UNCHANGED <<asking, deleting, server>>

OpenPage(p) == ChangeTabs(Opened(tabs, p))
ActivateTab(p) == IsOpen(tabs, p) /\ ChangeTabs(Activated(tabs, p))

\* The first tab has nothing to close it with.
CloseTab(p) == p # Home /\ IsOpen(tabs, p) /\ ChangeTabs(Closed(tabs, p))
CloseOtherTabs == ChangeTabs(OthersClosed(tabs))
CloseAllTabs == ChangeTabs(AllClosed(tabs))

\* The user loads the whole window anew.
Reload == ChangeTabs(InitialTabs)
-----------------------------------------------------------------------------
(* Lists, and the forms opened from them *)

ListArrives ==
    /\ stale
    /\ stale' = FALSE /\ list' = dict
    /\ UNCHANGED <<tabs, dialog, asking, deleting, server>>

\* Dict.search
Search ==
    /\ ListInReach("dict")
    /\ stale' = TRUE
    /\ UNCHANGED <<tabs, list, dialog, asking, deleting, server>>

\* The rows of a page's list, or of the tables; no role is ever deleted here.
RowsOf(names) ==
    ({"dict"} \X {d \in Dicts : names[d] # Absent}) \cup ({"role"} \X Roles)

\* Dict.openDictDetail, Role.openChangeRole
OpenEdit(row) ==
    /\ ListInReach(row[1]) /\ row \in RowsOf(list)
    /\ Cardinality(loads) < MaxLoads
    /\ dialog' = [dialog EXCEPT ![row[1]] =
                     [kind |-> "loading", row |-> row, alone |-> loads = {}]]
    /\ loads' = loads \cup {row}
    /\ UNCHANGED <<tabs, list, stale, asking, deleting, dict, last, holder, tasks>>

\* Dict.openAddDict
OpenAdd ==
    /\ ListInReach("dict")
    /\ dialog' = [dialog EXCEPT !["dict"] = [kind |-> "add"]]
    /\ UNCHANGED <<tabs, list, stale, asking, deleting, server>>

CloseForm(p) ==
    /\ FormInReach(p, {"loading", "edit", "failed", "add"})
    /\ dialog' = [dialog EXCEPT ![p] = NoDialog]
    /\ UNCHANGED <<tabs, list, stale, asking, deleting, server>>

Exists(row) == row \in RowsOf(dict)
NameOf(row) == IF row[1] = "role" THEN Absent ELSE dict[row[2]]

\* Bug: the form is answered without a word to the holder.
HolderUntouched(row) == holder

HolderAfterForm(row) == row

NewForm(row, alone) ==
    [kind |-> "edit", row |-> row, alone |-> alone, name |-> NameOf(row)]

\* Bug: an answer opens its form whatever became of the dialog.
AnsweredAnyway(open, row) ==
    IF Exists(row) THEN NewForm(row, TRUE) ELSE [kind |-> "failed"]

\* The dialog that was open when the answer for row arrives.
Answered(open, row) ==
    IF open.kind # "loading" \/ open.row # row THEN open
    ELSE IF Exists(row) THEN NewForm(row, open.alone) ELSE [kind |-> "failed"]

\* dict_edit and role_edit.  Of a row that is gone there is no form, and the
\* exception is logged.  The answer may come too late for the dialog.
FormArrives(row) ==
    /\ row \in loads
    /\ Exists(row) \/ Cardinality(tasks) < MaxTasks
    /\ loads' = loads \ {row}
    /\ holder' = IF Exists(row) THEN HolderAfterForm(row) ELSE holder
    /\ tasks' = IF Exists(row) THEN tasks ELSE tasks \cup {[what |-> "exception"]}
    /\ dialog' = [dialog EXCEPT ![row[1]] = Answered(@, row)]
    /\ UNCHANGED <<tabs, list, stale, asking, deleting, dict, last>>
-----------------------------------------------------------------------------
(* Dictionaries *)

Deleted(t, d) == [t EXCEPT ![d] = Absent]
IsFree(t, n) == \A d \in Dicts : t[d] # n

\* addDict: nothing, or the table with the new dictionary, as a set.
Added(t, n, ok) ==
    IF ok /\ IsFree(t, n) THEN {[t EXCEPT ![last + 1] = n]} ELSE {}

\* Bug: the dictionary keeps its id.
EditedInPlace(t, d, n, ok) ==
    IF ok /\ IsFree(Deleted(t, d), n) THEN {[t EXCEPT ![d] = n]} ELSE {}

\* editDict, in a transaction
Edited(t, d, n, ok) == Added(Deleted(t, d), n, ok)

\* Another administrator's request, from forms and lists of any age.
OtherChanges ==
    /\ last < MaxDict
    /\ \E d \in Dicts, n \in Names :
       \/ d <= last /\ \E t \in Edited(dict, d, n, TRUE) :
             dict' = t /\ last' = last + 1
       \/ \E t \in Added(dict, n, TRUE) : dict' = t /\ last' = last + 1
       \/ dict[d] # Absent /\ dict' = Deleted(dict, d) /\ UNCHANGED last
    /\ UNCHANGED <<tabs, page, asking, deleting, loads, holder, tasks>>
-----------------------------------------------------------------------------
(* Requests of the window *)

\* What LogAop hands to LogManager after an operation succeeded.
Log(what, row, about, alone) ==
    tasks' = tasks \cup {[what |-> what, row |-> row, about |-> about,
                          alone |-> alone]}

\* The page's answer to a success: the dialog goes, the list is loaded again.
FormDone(p) ==
    /\ dialog' = [dialog EXCEPT ![p] = NoDialog]
    /\ stale' = (stale \/ p = "dict")

\* The page's answer to a refusal, which GlobalExceptionHandler has logged: the
\* form stays open.
Refused ==
    /\ tasks' = tasks \cup {[what |-> "exception"]}
    /\ UNCHANGED <<dialog, stale, last>>

CanSubmit(p, kind) ==
    /\ FormInReach(p, {kind})
    /\ Cardinality(tasks) < MaxTasks

\* Bug: an edit that is refused has deleted the dictionary.
RolledBackPartly(t) ==
    IF dialog["dict"].kind = "edit" THEN Deleted(t, dialog["dict"].row[2]) ELSE t

\* The table after the exception of a @Transactional method.
RolledBack(t) == t

\* add and update of DictController, in answer to the form.  Their log names
\* what was submitted; no column is called as the fields of the holder are.
SubmitDict(result) ==
    /\ \/ \E t \in result :
             /\ dict' = t /\ last' = last + 1
             /\ FormDone("dict")
             /\ Log("saved", NoRow, NoRow, FALSE)
       \/ result = {} /\ dict' = RolledBack(dict) /\ Refused
    /\ UNCHANGED <<tabs, list, asking, deleting, loads, holder>>

\* collectData drops entries that are incomplete; all of the others have a
\* number, as addDict wants it, or not.
CollectedData == [name: Names, ok: BOOLEAN]

SubmitAdd(data) ==
    /\ CanSubmit("dict", "add") /\ last < MaxDict
    /\ SubmitDict(Added(dict, data.name, data.ok))

SubmitEdit(data) ==
    /\ CanSubmit("dict", "edit") /\ last < MaxDict
    /\ SubmitDict(Edited(dict, dialog["dict"].row[2], data.name, data.ok))

\* edit of RoleController: its log compares the form with the holder.
SubmitRole(ok) ==
    /\ CanSubmit("role", "edit")
    /\ \/ /\ ok /\ FormDone("role")
          /\ Log("edited", dialog["role"].row, holder, dialog["role"].alone)
          /\ UNCHANGED last
       \/ ~ok /\ Refused
    /\ UNCHANGED dict
    /\ UNCHANGED <<tabs, list, asking, deleting, loads, holder>>

\* Dict.delete: the question names the row of the list.
AskDelete(d) ==
    /\ ListInReach("dict") /\ list[d] # Absent
    /\ asking' = {[id |-> d, name |-> list[d]]}
    /\ UNCHANGED <<tabs, page, deleting, server>>

Cancel ==
    /\ asking # {} /\ deleting = {} /\ asking' = {}
    /\ UNCHANGED <<tabs, page, deleting, server>>

\* delete of DictController, as far as the holder is set.
ConfirmDelete ==
    /\ deleting = {} /\ Cardinality(tasks) < MaxTasks
    /\ \E a \in asking :
          /\ holder' = <<"name", a.id>>
          /\ deleting' = {[id |-> a.id, alone |-> loads = {}]}
    /\ UNCHANGED <<tabs, page, asking, loads, dict, last, tasks>>

\* Its end: the log takes the name from the holder.
DeleteDict ==
    /\ \E q \in deleting :
          /\ Cardinality(tasks) < MaxTasks
          /\ dict' = Deleted(dict, q.id)
          /\ Log("deleted", <<"name", q.id>>, holder, q.alone)
    /\ deleting' = {} /\ asking' = {} /\ stale' = TRUE
    /\ UNCHANGED <<tabs, list, dialog, loads, last, holder>>
-----------------------------------------------------------------------------
(* The server *)

\* A thread of LogManager inserts the row of a task.
RunTask(t) ==
    /\ t \in tasks /\ tasks' = tasks \ {t}
    /\ UNCHANGED <<tabs, page, asking, deleting, loads, dict, last, holder>>

ForgetAlone ==
    dialog' = [p \in Pages |-> IF dialog[p].kind \in {"loading", "edit"}
                               THEN [dialog[p] EXCEPT !.alone = FALSE] ELSE dialog[p]]

\* The session was idle too long, and the user is remembered in a new one.
SessionEnds ==
    /\ deleting = {} /\ loads = {}
    /\ holder' = NoRow /\ ForgetAlone
    /\ UNCHANGED <<tabs, list, stale, asking, deleting, loads, dict, last, tasks>>

\* The server stops and starts: requests fail, waiting tasks are lost.  A
\* deletion is answered with an error; the form that was asked for is none.
Restart ==
    /\ holder' = NoRow /\ tasks' = {} /\ loads' = {}
    /\ deleting' = {} /\ asking' = IF deleting = {} THEN asking ELSE {}
    /\ dialog' = [p \in Pages |->
          CASE dialog[p].kind = "loading" -> [kind |-> "failed"]
            [] dialog[p].kind = "edit" -> [dialog[p] EXCEPT !.alone = FALSE]
            [] OTHER -> dialog[p]]
    /\ UNCHANGED <<tabs, list, stale, dict, last>>
-----------------------------------------------------------------------------
Next ==
    \/ \E p \in Page : OpenPage(p) \/ ActivateTab(p) \/ CloseTab(p)
    \/ CloseOtherTabs \/ CloseAllTabs \/ Reload
    \/ ListArrives \/ Search \/ OpenAdd
    \/ \E row \in Rows : OpenEdit(row) \/ FormArrives(row)
    \/ \E p \in Pages : CloseForm(p)
    \/ \E data \in CollectedData : SubmitAdd(data) \/ SubmitEdit(data)
    \/ \E ok \in BOOLEAN : SubmitRole(ok)
    \/ \E d \in Dicts : AskDelete(d)
    \/ Cancel \/ ConfirmDelete \/ DeleteDict
    \/ OtherChanges
    \/ \E t \in tasks : RunTask(t)
    \/ SessionEnds \/ Restart

Spec == Init /\ [][Next]_vars
-----------------------------------------------------------------------------
(* Properties *)

\* The window, its forms, the tables and the tasks hold what their types allow;
\* forms and lists are only those of pages that have a frame.
Task ==
    [what: {"exception"}]
        \cup [what: {"saved", "edited", "deleted"}, alone: BOOLEAN,
              row: Rows \cup {NoRow} \cup ({"name"} \X Dicts),
              about: Rows \cup {NoRow} \cup ({"name"} \X Dicts)]
Dialog ==
    {NoDialog, [kind |-> "failed"], [kind |-> "add"]}
        \cup [kind: {"loading"}, row: Rows, alone: BOOLEAN]
        \cup [kind: {"edit"}, row: Rows, alone: BOOLEAN, name: Names \cup {Absent}]
TypeOK ==
    /\ tabs \in TabState
    /\ dict \in [Dicts -> Names \cup {Absent}] /\ list \in [Dicts -> Names \cup {Absent}]
    /\ last \in Dicts /\ \A d \in Dicts : d > last => dict[d] = Absent
    /\ dialog \in [Pages -> Dialog] /\ stale \in BOOLEAN
    /\ \A p \in Pages : p \notin tabs.frames => dialog[p] = NoDialog
    /\ loads \subseteq Rows /\ tasks \subseteq Task
    /\ holder \in Rows \cup {NoRow} \cup ({"name"} \X Dicts)
    /\ asking \subseteq [id: Dicts, name: Names] /\ Cardinality(asking) <= 1
    /\ deleting \subseteq [id: Dicts, alone: BOOLEAN] /\ Cardinality(deleting) <= 1

\* However tabs are opened, closed and changed, the bar and the frames agree:
\* the user sees the page of the one active tab (contabs.js).
TabsAgree == InStep(tabs)

\* The log of a deletion names what was deleted, and the log of a change
\* compares the row that was changed with what it was, whenever no other page of
\* the window was used since its form was opened, no other form was on its way
\* and the session lasted (LogObjectHolder, LogAop.handle).
LogsAreAboutTheirRow ==
    \A t \in tasks : t.what \in {"edited", "deleted"} /\ t.alone => t.about = t.row

\* What the window takes out of sys_dict, by deleting or by editing it, is what
\* the user was shown, whatever others changed since the list or the form was
\* loaded (dict.js, DictServiceImpl.editDict).
RemovesOnlyWhatWasShown ==
    [][\A d \in Dicts :
          (dict[d] # Absent /\ dict'[d] # dict[d] /\ tasks' # tasks) =>
                \/ \E a \in asking : a.id = d /\ a.name = dict[d]
                \/ /\ dialog["dict"].kind = "edit" /\ dialog["dict"].row[2] = d
                   /\ dialog["dict"].name = dict[d]]_vars

\* A request of the window that is refused leaves the table as it was: an edit,
\* which deletes first and adds then, loses nothing when its name is taken by
\* now or an entry is no number (DictServiceImpl, @Transactional).
RefusedChangesNothing ==
    [][[what |-> "exception"] \in tasks' \ tasks => dict' = dict]_vars
=============================================================================
