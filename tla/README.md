# ebsystem in TLA+

ebsystem is a Spring Boot web application over MySQL in which the authorities of a
region keep their water sources under watch: readings of pollution are filed (or
generated), a scheduled job warns of the sources with too many readings over the
standard, and the departments apply for the devices that remedy it. Around this are the
parts every administration system has: users, departments, roles, menus, dictionaries,
notices, logs.

This directory holds TLA+ modules of its parts, configurations under which TLC checks
them, and proofs that TLAPS checks. Everything is translated from the source; paths below
are relative to `src/main/java/com/raving/ebsystem` of the repository unless they begin
with `sql/` or `webapp/`. `PROJECT.json` maps every definition to the lines it stands for.

Contents: 1 the system's parts. 2 the modules and how they correspond to the code.
3 the runs. 4 the proofs. 5 where code and comments disagree. 6 the plan. 7 what is not
modelled.

## 1. The system's parts

What runs: a pool of servlet threads, one per request, which share the database, two
caches (Caffeine under `@Cacheable`, Ehcache under `CacheKit` and Shiro) and the sessions;
one Spring scheduler thread for both jobs; ten threads that write logs. There is one
server. Handlers read the database in one statement and write in another, nearly always
without a transaction: the transactions that span several statements are those of
`ApplicationServiceImpl`, `DeptServiceImpl`, `DictServiceImpl`, and `setAuthority` and
`delRoleById` of `RoleServiceImpl`. There is no row version and hardly a unique index. That is what is hard
about this code: almost every handler decides on a row it loaded and writes on a row that
may have become another one, and whole rows are written back.

| part | state | operations | talks to | hard behaviour | what makes it correct |
|---|---|---|---|---|---|
| Device applications (`ApplicationController`, `ApplicationServiceImpl`) | `t_application` | add, edit, delete, audit | devices, session of the user | status read outside the transaction, whole rows written back, restart inside it | decided once; stamped by its auditor; a device named is real; an approval reaches the device |
| Devices (`DeviceController`) | `t_device` | add, delete, edit, setStatus, setDept | applications | the same rows as the audits write | status, holder and repair count say what was approved |
| Scheduled jobs (`AutoMaticJob`, `AutoMakePollution`) | where the scheduler thread is | check all sources every 20 min; generate 10 readings every 30 min | readings, types, sources, notices, warnings, verdict cache | servlet threads change everything between two statements; exceptions end a run; the window is the period | warned on enough readings of the window; no reading missed; a notice per counted warning; the check ends |
| Readings, types, sources (`PollutionController`, `PollutionTypeController`, `WaterSourceController`) | `t_pollution`, `t_pollution_type`, `t_water_source` | add, update, delete of each | the jobs | checked, then inserted; deleted under a running check | see above |
| Verdicts (`ConstantFactory.isOverStandard`) | Caffeine entries, 60 s after last use, at most 1000 | ask | types | computed in one step and cached in another; key is a sum | judged by the limit of its own type |
| Departments (`DeptController`, `DeptServiceImpl`, `DataScopeInterceptor`) | `sys_dept`, each row with its path | add, update, delete | data scope of queries, users | the parent's path is read, then the row written; sub-departments keep old paths | the path names the ancestors; the scope is the subtree |
| User accounts (`UserMgrController`, `UserMapper.xml`) | `sys_user` | add, edit, delete, freeze, unfreeze, setRole, reset, changePwd | login, roles | row loaded, changed, written back | one user per account; the salt fits the password; who is disabled comes back only when meant to |
| Roles (`RoleController`, `RoleServiceImpl`) | `sys_role`, `sys_relation` | add, edit, remove, setAuthority | menus, users, caches | delete-all and insert-all in a transaction; users keep deleted roles | relations of a role are those of one setAuthority |
| Login and permissions (`LoginController`, `ShiroDbRealm`, `ShiroFactroy`, `ShiroKit`) | sessions with a snapshot of user and roles; cached permissions, an hour | login, logout, check | users, roles, menus | snapshots and caches outlive what they were taken from | who lost a right loses it by the next login |
| Menus (`MenuController`, `MenuServiceImpl`) | `sys_menu`, paths of codes | add, edit, remove with sub-menus | roles | one statement after another without a transaction; codes as keys, which an edit changes under its sub-menus | the path names the ancestors; the search finds the subtree; no relation to a missing menu |
| Menu tree of the page (`MenuNode`) | none | build a tree from a flat list | menus | recursion | every menu once, below its parent |
| Dictionaries (`DictController`, `DictServiceImpl`, `MutiStrFactory`) | `sys_dict` | add, edit (delete and add), delete | names, pages | an edit is a deletion and an addition under a new id; old lists and forms | an edit that fails changes nothing; what goes is what the user was shown |
| Tabs of the window (`webapp/static/js/contabs.js`) | the bar of tabs and the frames below it, joined by an address | open, choose, close one, all others, all | pages | two lists of elements changed one by one | one tab is active and its page is in sight |
| Pages (`dict.js`, `dict_info.js`, `role.js`, `Feng.js`, `ajax-object.js` and their like) | a list, a form or a question over it | load, search, open, submit, ask and confirm | tabs, handlers | forms and lists load while the user goes on; submitting freezes the window; what is shown grows old | see dictionaries and logs |
| Names of ids (`ConstantFactory`, `CacheKit`) | Caffeine entries | look up, remove | roles, departments, menus, dictionaries | filled in one cache manager, cleared in the other | a name shown is the one stored |
| Notices (`NoticeController`, `BlackboardController`) | `sys_notice` | add, update, delete | the jobs | load and write back | |
| Logs (`LogManager`, `LogTaskFactory`, `LogAop`, `LogObjectHolder`) | `sys_operation_log`, `sys_login_log`, one object per session, a queue | bussiness, login, exit, exception | every annotated handler | delayed tasks on ten threads; one slot for many open forms | one row per operation, with the object it changed |
| Per-request context (`HttpSessionHolder`, `DataSourceContextHolder`, `SessionHolderInterceptor`, `MultiSourceExAop`) | thread locals of pooled threads | set, clear | all handlers | a thread local that outlives its request | a request sees its own |
| Helpers (`StrKit`, `CollectionKit`, `Convert`, `DateTimeKit`, `DateUtil`, `ToolUtil`, `Contrast`, `HexKit`) | none | pure functions | all handlers | boundaries | agree with their definitions |
| Errors and tips (`GlobalExceptionHandler`) | none | exception to answer | all handlers | | |
| Wrappers (`*Wrapper`) | none | add names to rows | names | | |
| Request filters (`WafKit`, `XssFilter`) | none | rewrite text | all handlers | | |
| Generator of code, QR codes, pinyin, reflection, configuration, pages, libraries | | | | | |

## 2. The modules

    Tables                  a table and the statements on it (external: the mappers)
      TableTheorems         facts about them
      DeviceApplication     t_device, t_application and the requests on them
        AuditOffice         what auditing promises: abstract, implemented by it
        DeviceApplicationProofs
      WaterWarning          readings, types, sources, verdicts and the two jobs
        WaterWarningProofs
      DeptTree              departments and their paths
        DeptTreeProofs
      UserAccount           users and passwords
        UserAccountProofs
      MenuTree              menus, their paths, grants and the tree of the page
        MenuTreeProofs
    RoleAuthority           roles, grants, sessions and cached permissions
      Authority             what roles promise: abstract, implemented by it
      RoleAuthorityProofs
    Tabs                    the bar of tabs and the frames
      AdminWindow           lists, forms and questions in them, and their handlers
        AdminWindowProofs
    MC<module>              its values and symmetry for TLC

Conventions that all of them share.

- **Tables.** A table is a function from the ids stored to their rows. `Insert`, `Update`
  and `Delete` are single statements, atomic as InnoDB makes them; an update or a deletion
  of a row that is gone is no error and does nothing. Ids are auto-increment: an id once
  used is never used again (`used...`).
- **Requests.** `request[r]` is what servlet thread `r` carries from one statement to its
  next: the form, the entity it loaded. A handler that reads and later writes is one action
  per statement that matters, named for the handler (`AddCheck`, `AddInsert`). A handler
  whose check and write cannot come apart observably is a single action. Reads whose
  outcome can no longer change (the applicant of an application) are read with the next
  statement.
- **Transactions.** A transaction is a step that reads (InnoDB reads from one snapshot) and
  a step that writes and commits (its row locks are held until then). A stop between the
  two leaves nothing, which is what a rollback is.
- **Exceptions** end the handler: the action that would go on is not enabled, or leads to
  `Idle` when something has been held until then.
- **Restart** empties `request` and what else is in memory, and leaves the tables.
- Names, texts, times not compared, units, pictures and phone numbers are left out. A
  digest is an injective function of password and salt.

### DeviceApplication, AuditOffice

`device`, `application` are the tables, `approvedRepairs` and `decidedBy` are history: what
was committed, and by which threads. `audit` is `AuditCheck` (which sees the application
pending) and then the transaction of `solveOperation`: `SolveRead`, or `SolveFail` when it
throws, and `SolveWrite`, which writes back the whole application and the whole device as
they were loaded. `SolvedDevice` says what the update of the device leaves: approving a
request for a device gives it the department of the **auditor** (`ShiroKit.getUser()` in
line 44 of `ApplicationServiceImpl`), a repair counts one more, a return frees it.
`EditDevice` sets the repair count to 0: `repairCount` is a primitive `int`, which the form
does not send and a selective update then writes.

`AuditOffice` knows only the phase of each application and the audits open on it. It
promises: filed once; decided by an audit opened while it was pending; never pending again;
removed for good. It allows two open audits to decide one after the other, because the code
does. `ImplementsAuditOffice` is the refinement, with the phase read off the table and the
open audits off the requests.

### WaterWarning

Both jobs run on the one thread of the default scheduler, so `check` and `making` are never
both busy. The check loads the sources (`StartCheck`), and for each one scans the newest
readings of the last interval (`Scan`), judges them one by one with the cached verdicts
(`Judge`), counts per type (`Count`), looks up the names of the types to warn of
(`LookUpName`, whose null pointer for a deleted type ends the check), and at last writes a
notice and then a `t_warn_water` row per source (`WriteNotice`, `WriteWarnWater`).
Between any two steps the pages add, change and delete readings, types and sources.
`verdict` holds the `overStandard` entries; `Key` is the sum `#value + #pollutionTypeId`, as
SpEL adds two numbers before it appends the text. `Expire` may drop an entry at any time.
Time is counted in ticks, `Interval` of them being 20 minutes, and goes on during a check,
which ends at most `MaxDelay` ticks after it was due. An update looks up neither type nor
source and the generator takes them from fixed arrays, so both may name any id, one not yet
handed out included. `filed` and `owed` are history: `owed` holds the readings that were
filed for a source there is or was, while no check that was due could still be under way
(`Quiet`), and that no scan has had since; a check that fails and a stop of the server clear
it. Bounds: `MaxTime`, `MaxDelay`, `MaxRestarts`.

### DeptTree

`pids` is a sequence of ids, for the text `[0],[28],[30],`. `Below` is `deptSetPids`; a
parent that is gone makes it throw (`CanBeBelow`). The form may name any parent, the
department itself and those below it included. `MaxPath` is what `varchar(255)` holds, and
a path that does not fit makes the statement fail (MySQL's strict mode). `SubDepts` is the
search `pids like '%[id]%'` that both `deleteDept` and the data scope (`getSubDeptId`) use.
What it is compared with, `Ancestors`, goes by the parents alone: the least set that holds the
parent of the department and the parents of its members. Stated without recursion it can be
reasoned about, and a cycle of parents is no obstacle.

### UserAccount

A deletion is the status 3; rows stay. `add` checks the account and inserts later. `reset`
and `changePwd` load the row and write all of it back. `edit` binds a `UserDto` and writes
whatever columns were sent, as they were sent: an account without the check of `add`, a
status, a salt, a password that is not digested, roles. Its page sends the account and an
empty password: `user_info.js` collects a field the edit page does not have, jQuery sends an
undefined value as an empty text, and the mapper's "not empty" option is off. Which forms are
sent is a constant, `Forms`: any set of `EditForm`s in the proofs, and in the run the page's and
those that send one other column alone. `add` overwrites password, salt and status of its form
and stores its roles. `NoDigest` stands for every password that is no digest, the empty one
and any typed one. Who may call a handler is left open, so what is shown holds for any caller;
the permission annotations are in RoleAuthority, and `assertAuth` refuses nobody (section 5).

### MenuTree

A menu names its parent by code, `pcode`, and keeps the codes above it in `pcodes`, a
sequence here. `add` is `AddCheck`, `AddPlace` (which reads the parent) and `AddInsert`;
`edit` is `EditPlace` and `EditWrite`, with any parent but one of the menu's own code; `delMenuContainSubMenus` deletes
what the search `pcodes like '%[code]%'` finds, menu by menu, each in two statements (the
row, its grants). Nothing here is in a transaction, so a request may stop (`Break`) after
any of them. `Under` is the subtree of a menu by the parents alone, the least set that holds
the children. `IndexPageEnds` asks whether `MenuNode.recursionFn` comes to an end on the
menus a role is granted: it does not exactly when there are `Loops`, sets of menus of which
each has a child in the set. The code "0" stands for the top and is not given to a menu; codes have no
wildcards of `like`; `levels` is the length of `pcodes`; all rows are menus (`ismenu` 1) and
enabled. Bounds: `MaxEdits`, `MaxPath` (the column holds 255 characters).

### RoleAuthority

`setAuthority` is a transaction of a deletion (`GrantDelete`), an insertion for each menu
(`GrantInsert`) and the commit; a failure or a stop undoes it. `sys_relation` has no index
but its key, so a deletion by role or by menu waits while another transaction has rows
locked there: `RelationIsFree`. `delRoleById` is a transaction too (`DropRole`,
`DropCommit`). A login takes a snapshot of the user's roles; the permissions of a session
are read from the tables when they are first asked for and stay in Ehcache for `TTL` ticks
of the clock (an hour), whatever changes. Names and tips of roles and the lists in which
users hold roles are left out: a session begins with any set of roles that were handed out.
A browser has one session at a time. `granted` and `outdated` are history.

`Authority` has no tables, locks or cache: a role stands for menus. An errand orders menus
for a role and is served as a whole or withdrawn; a look takes what the roles of a session
permit at one moment and is told to it later; a menu is retired from all roles; a session may
be told nothing at any time. `ImplementsAuthority` is the refinement: what a role permits is
read off `sys_relation` and `sys_menu`, an errand off the request (the rows a grant has
inserted and those still to come are its order; a deletion of a role orders nothing for it).

### Tabs, AdminWindow

`Tabs` is the state of the bar and of the frames as `contabs.js` keeps them, apart, with an
operator for each thing a user can do. A tab is taken from the bar with `RemoveAt`, and the
tabs that `closeOtherTabs` keeps are those of two pages in their order (`Kept`). `AdminWindow` puts the lists and forms of the
dictionaries and the form of a role into these tabs. A list and a form are loaded while the
user goes on (`ListArrives`, `FormArrives`), and an answer may find its dialog closed or
opened for another row. A submission is synchronous and freezes the window, so it is one
action with its answer; a deletion sets the log's object in one step and deletes in another,
as a form that is on its way may be answered between the two. Other administrators change
the dictionaries at any time (`OtherChanges`). The session may end, and goes on as a new one
because the user is remembered; the server may restart. `alone` is history: whether nothing
else of the window was used since a form was opened. Entries of dictionaries and columns of
roles are left out but for whether the server accepts them; transactions do not overlap
here, there is one window per session. Bounds: `MaxDict`, `MaxLoads`, `MaxTasks`.

## 3. The runs

| run | instance | shows | states |
|---|---|---|---|
| `device_overlap` | 1 device, 1 application, 2 threads, 2 users of 2 departments | types; stamps; no repair is invented; no thread decides twice; devices are real; `ImplementsAuditOffice` | 641k |
| `device_serial` | the same with 2 applications, 1 thread, fairness | `DecisionIsFinal` and `RequestsEnd` | 462k |
| `device_two_decisions` | 2 threads | **violated** `DecisionIsFinal` | |
| `warn_evidence` | 2 readings, 1 source, limit count 1, 2 ticks, 1 restart, the type added from the page | types; `WarnedOnEvidence`, `ReadingsScannedInTime`, `NoticesAndWarningsAgree` | 1.4M |
| `warn_timely` | 1 reading, 1 source, limit count 0, an interval of 2 ticks, checks late by up to 1, 1 thread, fairness | `ReadingsScannedInTime`, `ChecksEnd` | 626k |
| `warn_wrong_type` | 2 readings, 2 types | **violated** `JudgedOverSomeLimit` | |
| `dept_overlap` | 3 departments, 2 threads, paths up to 3 | types; rooted paths; scope is the subtree; `BrokenOnlyByMovesOrOverlap` | 1.4M |
| `user_overlap` | 3 users, 2 accounts, 2 salts, 2 threads | types; `SaltsPartOnlyByEdit`, `OnlyStatusSentOrOverlapEnables`, `TwiceOnlyByEditReturnOrOverlap` | 1.9M |
| `menu_tree` | 3 menus, 3 codes, 1 role, 2 threads, 1 edit, paths up to 3 | types; `SearchFindsSubtree`, `BrokenOnlyByEditsStopsOrOverlap`, `GrantsDangleOnlyByOldPagesOrStops` | 237k |
| `menu_endless` | 2 menus, 2 codes, 1 thread | **violated** `IndexPageEnds` | |
| `authority` | 2 roles, 2 menus, 1 session, 2 threads, an hour of 2 ticks | types; `GrantsAreWhole`, `ChangesSeenInTime`, `GoneRolesGrantOnlyByLateRequests`, `ImplementsAuthority` | 690k |
| `admin_window` | 3 tabs, 2 roles, 2 dictionaries, 2 names, 2 forms on their way, 1 log task | types; `TabsAgree`, `LogsAreAboutTheirRow`, `RemovesOnlyWhatWasShown`, `RefusedChangesNothing` | 825k |

**What the properties say.** `AuditStamped`: an application names an auditor exactly when it
is decided, although edits, audits and deletions write the row from copies of different
ages. `RepairsNeverOvercounted`: stale device rows lose repairs and never invent one.
`NoThreadDecidesTwice`: an audit under way is on an application that its thread has not
decided, so n threads decide at most n times. `NamedDevicesExisted`: a device may have been
deleted since, it was never made up. `WarnedOnEvidence`: a source about to be warned of had
more than `LIMIT_COUNT` readings of one type filed for it within the window of that check,
whatever is edited, deleted or cached meanwhile. `ReadingsScannedInTime`: the period is also
the window, counted from each scan, and still no reading that is owed a scan falls between two
checks, although checks are late and the clock runs while they do. What is not owed one is
named by `owed`: a reading filed while a check that was due may still be under way (this one
may have scanned its source already, and the next may be later than this one was), a reading
filed under the id of a source that is added only afterwards, and what a check that fails or a
stop leaves behind. `NoticesAndWarningsAgree`: a warning is counted after its notice,
and only a stop between the two keeps a notice uncounted. `ScopeIsSubtree`: while paths are
exact, the search by path is the subtree of the tree of parents, computed independently
(`Ancestors`). `BrokenOnlyByMovesOrOverlap`: exact paths become inexact only when a
department with others below it is moved, or one below itself, or when a request writes what
another has changed since it read. `SaltsPartOnlyByEdit`: rows written back over one another
never mix one row's password with another's salt; only an edit that sends a salt or a digest
makes them differ. `OnlyStatusSentOrOverlapEnables`: a disabled user comes back only by
unfreeze, by an edit that sends the status, or by a row that a reset or a change of password
loaded as it was before. `TwiceOnlyByEditReturnOrOverlap`: the only ways in which an account
comes to belong to two users. The causes are named because they do happen.
`SearchFindsSubtree`: while paths are exact, removing a menu removes what is below it and
nothing else. `BrokenOnlyByEditsStopsOrOverlap`: the only ways for paths to become wrong are
an edit of a menu that has others below it, that takes a code in use or that puts the menu
below itself, a removal that stopped half-way and an overlap.
`GrantsDangleOnlyByOldPagesOrStops`: a role is granted a menu that is gone only by a page
loaded before, or by a removal that stopped between its two statements. `GrantsAreWhole`:
what a role has is what one request granted it, never half of one request or parts of two,
as long as its menus are there. `ChangesSeenInTime`: what a session is permitted differs
from what the tables say for less than the lifetime of a cached entry.
`GoneRolesGrantOnlyByLateRequests`: a role that is deleted comes to permit something again
only by a request that began earlier or from a page loaded before. `ImplementsAuthority`: a
session is permitted what all its roles together permitted at one moment since it began,
never a part of a grant under way, and menus that are gone are not in it although grants may
name them. `TabsAgree`: exactly one
tab is active and the frame in sight is its. `LogsAreAboutTheirRow`: the slot per session
holds the right object when the user works in one page, without a form on its way;
otherwise it may not, see section 5. `RemovesOnlyWhatWasShown`: ids are not handed out again
and an edit gives a new one, so an old list, form or question takes away what its user saw
or nothing. `RefusedChangesNothing`: an edit deletes first, and a refusal brings it back.

**Bounds.** Two threads are enough for a read of one thread to be outdated by a write of
another, which is all the interference there is: threads share nothing but the tables. What
a third thread could add is a second outdated write, and the invariants about that are
proved for any number of threads. One device and one application already give every
interleaving of the handlers that meet on a row; `device_serial` has a second application so
that one device serves two. Two readings are the fewest that exceed a count of one; with
`PageLimit` equal to them a page holds a whole window. `warn_timely` has room for a late check
(an interval of two ticks, one of delay), with the clock running during it; `warn_evidence`
has the restart and two readings in one window, with checks on time and no thread beside the
pages' single statements. Late checks together with stops are in the proof. Two values put a reading below and
above a limit. Three departments or menus make a chain, a fork and a cycle of two or three;
three users let two additions race. One edit is enough to break paths, and everything else
may follow it. A session is enough for `authority`, as sessions do not meet; two menus let a
grant be half done; an hour of two ticks has an instant in its middle. Three tabs are the
first with a tab that is neither first nor last nor active; two dictionaries and two forms
on their way let one overtake the other. `Roles` is empty in `user_overlap`: no property there reads roles, and they
would only multiply the states. The forms there are those of the page and forms that send the
status of enabled users, a salt or a digest alone (`MCForms`); an edit that sends another
status does to any user but the administrator what `Freeze` and `DeleteUser` do. The theorems
are for every set of forms. Ids and threads that the module treats alike are symmetric;
users, departments of users, types, values and the administrators' role are not declared so.
`warn_timely` and `device_serial`, which check liveness, use no symmetry.

**Deadlock** is checked except in the `warn_` runs, where the bounded clock stops: when
`MaxTime` is reached and nothing is left to do the model ends, the program does not.

**Fairness.** `FairSpec` of `DeviceApplication` is weak fairness of each thread's own steps,
not of arrivals: a servlet thread runs its handler to the end, and no statement here waits
for a lock that another thread holds while it waits itself. `FairSpec` of `WaterWarning` is
weak fairness of the scheduler thread's two jobs: it runs what it has begun, and what is
due. Nothing assumes that users, the clock or the cache do anything.

**Mutants.** Definitions with a comment "Bug:" are plausible bugs of the definition they
stand before; `PROJECT.json` pairs each property with one that breaks it.

## 4. The proofs

TLAPS proves, for every value of the constants that satisfies the assumptions:

| theorem | statement |
|---|---|
| `TypeCorrect`, `Stamped`, `DecidedOncePerThread`, `NoRepairInvented`, `DevicesWereReal` (`DeviceApplicationProofs`) | `Spec => []` of the five invariants of `device_overlap` |
| `SerialDecisionIsFinal` | with at most one thread, `Spec => DecisionIsFinal`: overlapping audits are the only cause of overturned decisions |
| `Implementation` | `Spec => ImplementsAuditOffice` |
| `WarningTypeCorrect`, `ReportsAlwaysAgree`, `WarnedOnlyOnEvidence` (`WaterWarningProofs`) | `Spec => []` of `TypeOK`, `NoticesAndWarningsAgree`, `WarnedOnEvidence` |
| `NoReadingMissed` | `Spec /\ []WindowsFitAPage => []ReadingsScannedInTime`, for any `MaxDelay` |
| `DeptTypeCorrect`, `PathsAlwaysRooted`, `ScopeAlwaysSubtree`, `BreaksAlwaysExplained` (`DeptTreeProofs`) | `Spec => []` of `TypeOK`, `PathsAreRooted` and `ScopeIsSubtree`, `Spec => BrokenOnlyByMovesOrOverlap` |
| `UserTypeCorrect`, `SaltsAlwaysExplained`, `ReturnsAlwaysExplained`, `TwiceAlwaysExplained` (`UserAccountProofs`) | `Spec => []TypeOK` and the three action properties of `user_overlap`, for any forms that edit is sent |
| `MenuTypeCorrect`, `SearchAlwaysFindsSubtree`, `BreaksAlwaysExplained`, `DanglingGrantsExplained` (`MenuTreeProofs`) | `Spec => []TypeOK`, `Spec => []SearchFindsSubtree` and the two action properties of `menu_tree` |
| `IndexPageEndsWhileSound` | `Spec => []((Sound /\ Doomed = {}) => IndexPageEnds)`: what `menu_endless` refutes in general holds as long as the tree is sound |
| `AuthorityTypeCorrect`, `GrantsAlwaysWhole`, `ChangesAlwaysSeen`, `LateRequestsOnly` (`RoleAuthorityProofs`) | `Spec => []` of the three invariants of `authority`, `Spec => GoneRolesGrantOnlyByLateRequests` |
| `AuthorityImplemented` | `Spec => ImplementsAuthority` |
| `WindowTypeCorrect`, `TabsAlwaysAgree`, `LogsAlwaysAboutTheirRow` (`AdminWindowProofs`) | `Spec => []` of the three invariants of `admin_window` |
| `RemovesAlwaysShown`, `RefusedAlwaysHarmless` | `Spec => RemovesOnlyWhatWasShown`, `Spec => RefusedChangesNothing` |

Assumptions on the constants: `ConstantsOK` (administrators are users, users have
departments, the nulls are no values), `TopOK`, `MaxPathOK`, `UserConstants`, `TextsOK`,
`FormsOK` (forms hold columns),
`NumbersOK`, `SeedOK`, `CodesOK`, `AdminRoleOK`, `TTLOK`, `PagesOK`, `HomeOK`, `NamesOK` and
`BoundsOK` of two modules: all of them say that names for nothing are no values and that
numbers are natural. `SerialDecisionIsFinal` also assumes that any two threads are the same.
`NoReadingMissed` has one more, which the code does not see to: the readings of any window fit
the 1000 that the query returns.

**Devices.** None of the five invariants is inductive alone. That no repair is invented
rests on the entity a transaction has loaded: its count was at most the approvals *then*, and
approvals only grow (`LoadedRowsAreBounded`). That no thread decides twice rests on nobody
having decided what is pending or not yet filed (`UndecidedIsClean`) and on audits being of
ids handed out (`AuditsAreOnUsed`), or a decided id could be filed anew. `InductiveInv` is
their conjunction. There is one lemma per action, a step for each conjunct it can disturb.
The refinement maps `AddInsert` to `File`, `AuditCheck` to `OpenAudit`, `SolveWrite` to `Decide`
or, when the application was deleted meanwhile, to `Abandon`, `SolveFail` and `Restart` to
`Abandon`, `DeleteApplication` to `Remove`, and all else to stutters.

**Departments.** Paths in the table are rooted because rows on their way to it are
(`PendingRooted`), and those stay so while the table changes since ids are never taken
back: the parent may be gone by the time the row is written, its id is still one handed out.

**Users.** `PendingSaltsFit`: a row in flight has the salt of its digest, whatever row it was
loaded from, because a new password brings its salt along or is digested with the one loaded.
So a write back leaves a row that fits as a whole, and of the other statements only an edit
touches salt or password (`NextSalts`). An edit leaves a row of the type for any form
(`EditedRowIsRow`).

The other two action properties follow for a single step from types and the form of each
handler; `TwiceAlwaysExplained` counts users of an account and so also needs that rows are
finitely many (`FewUsers`).

**Departments, the action property.** While nobody writes on an outdated parent, a row
written has the path of its parent with the parent added; for the rows below it nothing
changes unless the department moves (`NextExcused`).

**Warnings.** `ReportsAgree` carries through a check which source has a notice that no row
counts yet. For `NoReadingMissed`, `TimelyInv` says that the
clock does not pass the check that is due by more than `MaxDelay` (`OnTime`), that readings
owed a scan are of sources handed out (`OwedKnown`), so that none of their sources appears only
after the list of sources was loaded, and that the check that will scan such a reading's source,
the present one or the next (`DueFor`), is within the reading's window even if it is as late
as it may be (`NothingMissed`). For
`WarnedOnlyOnEvidence`, `EvidenceInv` follows the readings a check holds back to what was
filed: loaded rows are of readings filed within the window (`RowsFiled`), no two of one
reading (`RowsDiffer`), so the rows judged over the standard inject into the readings filed,
and a count above the limit is a count of those. What the cache answers is left free.

**Trees of any depth.** What a search by path finds is the subtree for paths of any length,
and one would prove it by induction over the length. In place of induction the proofs take a
row with the shortest path among those for which the claim fails (`LeastNumber` in
`TableTheorems`, which follows from facts about finite sets: a set of naturals without a
least member would leave room for an injection of a finite set into a smaller one). Its
parent has a shorter path, so the claim holds for the parent, and with `ExactPath` or
`SoundPath`, which say how a path is made of that of the parent, for the row. The other
inclusion needs no induction: `Ancestors` and `Under` are least sets, so it is enough that what
the search finds is closed under parents or children (`PathHoldsParents`,
`FoundHoldsChildren`).

**Menus.** Types, and one step for each handler that writes grants or deletes menus.
`IndexPageEndsWhileSound`: in a sound tree a child's path is longer than its parent's and no
path is longer than its column, so of menus each with a child among them none leaves least of
the column. `BreaksAlwaysExplained` carries a sound tree through every step that is not excused
(`NextSound`): a menu written below one that stays, with no menus below it and a code of its
own, leaves the tree sound (`WrittenSound`); a step that changes a request and not what it is
going to delete does too (`SameDoomSound`). `Sound` asks for the parents of the menus that are
not on their way out; when a deletion begins, a menu below one that is to go is to go as well,
as its path contains the parent's path and code (`RemoveLoadSound`), and the rows deleted then
were out of account already (`DeleteRowSound`). That needs one more invariant, that a deletion
has at most one code in hand (`OneCodeInHand`).

**Roles.** `TypeOK` and `GrantsAreWhole` with `PendingRolesKnown` (requests are on roles that
were handed out) and `OutdatedWithEntry`: a session is outdated no longer than its entry is
old. The tick that would outdate it for the whole lifetime is the one that drops the entry.

**The window.** `WindowInv`: a list, a question and a form show a dictionary under the name
it has, unless it is gone, and the server deletes what was asked (`ListWasSeen`,
`QuestionWasSeen`, `FormWasSeen`, `DeletesWhatWasAsked`). It is inductive because every
step, `OtherChanges` included, only takes dictionaries away or adds one under the next id
(`DictsGo`), which leaves what was seen (`SeenStays`).

The bar is proved about for any number of tabs (`TabsFit`): each operation takes
a bar and frames that are in step to ones that are. `BarWithout` says what `RemoveAt` leaves of
a sequence without repetition, `TwoKept` what is kept of two of its members, in their order.
`TypeOK` needs `TabsFit`, since forms and lists live in frames (`HandsTyped`). For the logs,
`AloneIsAlone` says that while a form is alone nothing is asked or being deleted, no other page
is in sight, and either the form is the one load under way or none is and the session's slot
holds its row; and that while a deletion is alone, none is and the slot holds what is being
deleted. `RowsMatch`: a form is over the page of its row.

**The abstract authority.** Each action of `RoleAuthority` is one of `Authority` or a stutter:
`GrantDelete` and `DropRole` order, `GrantInsert` stutters (a row moves from those to come to
those inserted), `GrantCommit` and `DropCommit` serve, `Rollback` withdraws, `DeleteMenu`
retires, `Load` looks, `Put` tells, `Tick` forgets the sessions whose entries expire, `End` leaves
and takes the looks of the session with it. Types are all it rests on. A transaction takes
effect at its commit in the model, which the locks on `sys_relation` make true to the database.

`TableTheorems` has the facts about the statements that all of them cite.

Only model-checked: the liveness properties `RequestsEnd` and `ChecksEnd`, which are out of this
prover's reach, as is everything that speaks of `ENABLED`. All invariants and action properties
of the passing runs are proved. `DecisionIsFinal` is proved for one thread and fails for two;
`IndexPageEnds` is proved for sound trees and fails otherwise; `JudgedOverSomeLimit` fails.

## 5. Where the code and its comments disagree

Each has a run whose counterexample shows it.

- **Two decisions** (`device_two_decisions`): `audit` asks for the status outside the
  transaction, which does not ask again. Two auditors who both see the application pending
  both decide, although `APPLICATION_ALREADY_AUDIT` is there to refuse the second.
- **Wrong limit** (`warn_wrong_type`): the key of a cached verdict is value plus type, so
  readings of different types answer for one another.
- **An index page without end** (`menu_endless`): `MenuController` 233 is there, its comment
  says, because a menu below itself means endless recursion; it refuses only a parent with the
  menu's own code. A menu can still be put below one that is below it, and
  `MenuNode.recursionFn` then calls itself for ever.

Observed while modelling; the models have them, and no run is spent on them:

- An approval sets the department of a device and not its status, whose comment says 0 is
  not assigned and 1 assigned. `isDeviceOccupied` thus finds no device occupied unless someone
  set its status by hand.
- Moving a department, or giving a menu another code or parent, leaves the paths of those
  below naming what was above them before.
- `edit` of users lacks the check for a duplicate account that `add` makes; an account of two
  users cannot log in.
- Renaming a device sets its repair count to 0; editing a user by the page blanks the
  password. Both are columns that the page does not show and the bound object still writes.
- `edit` of users asks for no permission and writes any column that is sent: a frozen user
  whose session goes on, or an administrator, can set the status back without `unfreeze`, and
  a salt, a password that is not digested, or roles can be written in the same way.
- An approved device goes to the department of the auditor, while the right to ask for its
  repair or return is that of the applicant's department (`ApplicationController` 111).
- `setDept` or `setStatus` that commits inside an approval is lost; a decided application can
  be edited; deleting a device makes every audit of its applications fail.
- A reading filed while a late check is under way may be in no window: this check has scanned
  its source, and the next may be later still. A reading can be updated, or generated, under
  the id of a source that is not there; when the source is added later, no check has had it.
- A reset or a change of password brings back a status the row had when loaded.
- Departments can be put below themselves, or be left below one that is deleted.
- `assertAuth` compares the departments of the user who is logged in with those of the same
  user, and so always passes.
- Roles of a session are those of its beginning; permissions follow the tables within the
  hour. Names of roles are removed from Ehcache and cached in Caffeine.
- `delRoleById` and the removal of a menu do not stop a page loaded before from granting them
  again: relations of roles and menus that are gone.
- The form of a dictionary lists all rows of `sys_dict` as its entries: `DictController` 64
  sets the parent on the entity it loaded and not on the one it queries by. Submitted as it
  is, it copies them all below the dictionary.
- The form of a dictionary or a role that is gone is a null pointer. An edit from an old form
  whose dictionary is gone adds one, if its name is free.
- With two forms open, or one answered late, the log of a change compares with the other
  form's object; the log of a deletion can name it. The log of a dictionary's change never
  shows one, as its parameters are not called as the fields are.
- Log tasks that wait when the server stops are lost, and ten threads do not keep their order.
- `AutoMakePollution` makes ten readings every 30 minutes; its comment says one a minute.
  `POLLUTION_TYPE_NOT_EXIST` says that the type already exists.
  `ApplicationMapper.getApplicationsByDept` has no statement in its XML.

## 6. The plan

Done: what the system decides on (devices, warnings, departments, users), who may do it
(menus, roles, sessions), and the window it is done in. What is left, in this order:

1. Dictionaries: overlapping transactions, in which two requests both find a name free, and
   the parser of entries as a function; together with **ConstantCache**, the names under
   `@Cacheable`, whose fills race with these writes. Property: how stale a name can be.
2. **MenuTree** and **RoleAuthority** over one `sys_relation`.
3. **RequestContext**: the thread locals of pooled threads.
4. **MenuNodes**, **TextKit**, **DateKit**: the pure algorithms as operators against reference
   definitions over bounded inputs.
5. Proofs: an abstract watch, which owes a warning for evidence filed in its window, that
   **WaterWarning** implements; what the new modules promise.

## 7. What is not modelled

- Most lines of the repository are the libraries of the pages (tables, trees, editors,
  uploads, layers and their variants for older browsers) under `webapp/static/js/plugins`:
  third-party code, used as it is. The map covers little of the repository for that reason.
- Names of ids and their caches decide nothing and are for display; the verdicts, which do
  decide, are in WaterWarning. Notices are one row loaded, or written; the job's part is in
  WaterWarning. The texts of logs, and their pages, show what AdminWindow has in its tasks.
- Per-request context and the pure helpers: see section 6.
- Translation of exceptions into answers, wrappers, filters of request text: they keep no
  state and change none; the models take an exception as the end of its handler.
- Generator of code (a developers' tool), QR codes, pinyin, files, captcha: input and
  output over libraries. Reflection helpers have no counterpart in a model.
- Configuration: what it decides (one scheduler thread, cache expiry, options of the mapper,
  transactions) is in the models it concerns. The data source switch and the session timeout
  are off in `application.yml`.
- The other pages: what a form sends is in the inputs of the handlers; layout is not.
  `edit` of devices and of applications binds a whole entity and would also write columns that
  its page does not send (a status, an auditor, a repair count): such requests are outside
  DeviceApplication. For users they are in the model (`Forms`).
- MySQL, tk.mybatis, Shiro, Caffeine, Ehcache, Spring: modelled as this code uses them and
  marked external. Failures of the database itself are not modelled.
