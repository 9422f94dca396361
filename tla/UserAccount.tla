---------------------------- MODULE UserAccount ----------------------------
(***************************************************************************)
(* The accounts of the users (UserMgrController, UserMapper.xml): adding,   *)
(* editing, freezing and deleting them, and their passwords.  A deletion    *)
(* is a status; rows stay.  Resetting and changing a password load the row  *)
(* and write all of it back, each statement a commit of its own.  Who may   *)
(* call which handler is left open here.                                    *)
(***************************************************************************)
EXTENDS Naturals, FiniteSets, Tables

CONSTANTS
    Users,          \* ids of sys_user
    Admin,          \* ADMIN_ID, the user every installation has
    Accounts,       \* login names
    AdminAccount,   \* the one the admin starts with
    Passwords,      \* what users type
    DefaultPassword,\* DEFAULT_PWD
    Salts,          \* random strings
    AdminSalt,      \* the one the admin starts with
    NoDigest,       \* a text that is no digest: empty, or as it was typed
    Roles,          \* ids of sys_role
    NotSent,        \* what a form holds for a column it does not send
    Forms,          \* the forms that edit is sent
    Requests        \* threads that serve requests

ASSUME UserConstants ==
    /\ Admin \in Users
    /\ AdminAccount \in Accounts
    /\ DefaultPassword \in Passwords
    /\ AdminSalt \in Salts

\* md5(password, salt)
Digest(password, salt) == [password |-> password, salt |-> salt]
Digests == [password: Passwords, salt: Salts]

Statuses == {"ok", "frozen", "deleted"}

\* UserDto: any of the columns, or none.
EditForm == [account: Accounts \cup {NotSent},
             password: Digests \cup {NoDigest, NotSent},
             salt: Salts \cup {NotSent}, status: Statuses \cup {NotSent},
             roles: {NotSent} \cup SUBSET Roles]

ASSUME TextsOK ==
    /\ NoDigest \notin Digests
    /\ NotSent \notin Accounts \cup Digests \cup {NoDigest} \cup Salts
                     \cup Statuses
    /\ \A roles \in SUBSET Roles : NotSent # roles
ASSUME FormsOK == Forms \subseteq EditForm

VARIABLES
    user,           \* sys_user
    request         \* what each thread is doing

vars == <<user, request>>

-----------------------------------------------------------------------------
UserRow == [account: Accounts, password: Digests \cup {NoDigest},
            salt: Salts, status: Statuses, roles: SUBSET Roles]

Idle == [pc |-> "idle"]
AddRequest == [pc: {"add"}, row: UserRow]
\* A loaded row, changed, on its way back to the table.
WriteRequest == [pc: {"write"}, user: Users, row: UserRow]

Init ==
    /\ user = [u \in {Admin} |->
          [account |-> AdminAccount, salt |-> AdminSalt,
           password |-> Digest(DefaultPassword, AdminSalt),
           status |-> "ok", roles |-> Roles]]
    /\ request = [r \in Requests |-> Idle]

Continue(r, q) == request' = [request EXCEPT ![r] = q]

\* A handler that is one statement runs in a thread as well.
ThreadIsFree == \E r \in Requests : request[r] = Idle
-----------------------------------------------------------------------------
(* Adding and editing *)

\* getByAccount
OfAccount(a) ==
    {u \in DOMAIN user : user[u].account = a /\ user[u].status # "deleted"}

\* Bug: the password is stored as it was typed.
NewRowPlain(a, password, salt, roles) ==
    [account |-> a, salt |-> salt, password |-> password,
     status |-> "ok", roles |-> roles]

\* Of the form, add overwrites the password, the salt and the status.
NewRow(a, password, salt, roles) ==
    [account |-> a, salt |-> salt, password |-> Digest(password, salt),
     status |-> "ok", roles |-> roles]

\* Bug: the check looks at enabled users only.
IsFreeOfEnabled(a) == ~\E u \in OfAccount(a) : user[u].status = "ok"

\* An account that is taken is an exception, and nothing happens.
IsFree(a) == OfAccount(a) = {}

AddRead(r, a, password, salt, roles) ==
    /\ request[r] = Idle
    /\ IsFree(a)
    /\ Continue(r, [pc |-> "add", row |-> NewRow(a, password, salt, roles)])
    /\ UNCHANGED user

AddInsert(r, u) ==
    /\ request[r].pc = "add"
    /\ u \notin DOMAIN user
    /\ user' = Insert(user, u, request[r].row)
    /\ Continue(r, Idle)

\* updateByPrimaryKeySelective
Written(kept, sent) == IF sent = NotSent THEN kept ELSE sent

\* Whatever column the form sends is written, the account without the check of
\* add and the password as it is.  The page has no field for the password and
\* sends an empty text for it; others may send more than the page.
Edit(u, form) ==
    /\ ThreadIsFree
    /\ u \in DOMAIN user
    /\ user' = Update(user, u,
            [account |-> Written(user[u].account, form.account),
             password |-> Written(user[u].password, form.password),
             salt |-> Written(user[u].salt, form.salt),
             status |-> Written(user[u].status, form.status),
             roles |-> Written(user[u].roles, form.roles)])
    /\ UNCHANGED request

SetStatus(u, status) ==
    /\ ThreadIsFree
    /\ u \in DOMAIN user
    /\ user' = [user EXCEPT ![u].status = status]
    /\ UNCHANGED request

DeleteUser(u) == u # Admin /\ SetStatus(u, "deleted")
Freeze(u) == u # Admin /\ SetStatus(u, "frozen")
Unfreeze(u) == SetStatus(u, "ok")

SetRole(u, roles) ==
    /\ ThreadIsFree
    /\ u # Admin
    /\ u \in DOMAIN user
    /\ user' = [user EXCEPT ![u].roles = roles]
    /\ UNCHANGED request
-----------------------------------------------------------------------------
(* Passwords *)

\* Bug: a new password lets the user in again.
WithPasswordEnabled(row, password, salt) ==
    [row EXCEPT !.password = Digest(password, salt), !.salt = salt,
                !.status = "ok"]

WithPassword(row, password, salt) ==
    [row EXCEPT !.password = Digest(password, salt), !.salt = salt]

ResetRead(r, u, salt) ==
    /\ request[r] = Idle
    /\ u \in DOMAIN user
    /\ Continue(r, [pc |-> "write", user |-> u,
                    row |-> WithPassword(user[u], DefaultPassword, salt)])
    /\ UNCHANGED user

\* The user is the one who is logged in; a wrong old password is an exception.
ChangePwdRead(r, u, old, new) ==
    /\ request[r] = Idle
    /\ u \in DOMAIN user
    /\ user[u].password = Digest(old, user[u].salt)
    /\ Continue(r, [pc |-> "write", user |-> u,
                    row |-> WithPassword(user[u], new, user[u].salt)])
    /\ UNCHANGED user

\* Bug: only the password is written, and what the row has become stays.
WriteBackPassword(r) ==
    /\ request[r].pc = "write"
    /\ user' = [user EXCEPT ![request[r].user].password = request[r].row.password]
    /\ Continue(r, Idle)

\* The end of reset and changePwd.
WriteBack(r) ==
    /\ request[r].pc = "write"
    /\ user' = Update(user, request[r].user, request[r].row)
    /\ Continue(r, Idle)

\* The server stops and comes back.
Restart ==
    /\ request' = [r \in Requests |-> Idle]
    /\ UNCHANGED user
-----------------------------------------------------------------------------
Next ==
    \/ \E r \in Requests :
          \/ \E a \in Accounts, p \in Passwords, s \in Salts,
                roles \in SUBSET Roles : AddRead(r, a, p, s, roles)
          \/ \E u \in Users : AddInsert(r, u)
          \/ \E u \in Users, s \in Salts : ResetRead(r, u, s)
          \/ \E u \in Users, p, q \in Passwords : ChangePwdRead(r, u, p, q)
          \/ WriteBack(r)
    \/ \E u \in Users :
          \/ \E form \in Forms : Edit(u, form)
          \/ DeleteUser(u) \/ Freeze(u) \/ Unfreeze(u)
          \/ \E roles \in SUBSET Roles : SetRole(u, roles)
    \/ Restart

Spec == Init /\ [][Next]_vars
-----------------------------------------------------------------------------
(* Properties *)

\* Rows and requests hold what their columns allow.
TypeOK ==
    /\ IsTable(user, Users, UserRow)
    /\ request \in [Requests -> {Idle} \cup AddRequest \cup WriteRequest]

\* However resets and changes of a password overlap with each other and with
\* edits, they leave a row with the salt its password was digested with, so
\* that whoever knows the password can log in (ShiroFactroy.info): salt and
\* digest of a row come apart only by an edit whose form sends one of them.
SaltFits(row) == row.password = NoDigest \/ row.password.salt = row.salt
SaltsPartOnlyByEdit ==
    [][\A u \in DOMAIN user' :
          ~SaltFits(user'[u]) =>
             \/ u \in DOMAIN user /\ ~SaltFits(user[u])
             \/ \E form \in Forms :
                   /\ form.salt # NotSent \/ form.password \in Digests
                   /\ Edit(u, form)]_vars

\* A user who is frozen or deleted comes back by unfreeze, by an edit whose form
\* sends the status (nobody asks for a permission there), or when a reset or a
\* change of password that loaded the row before writes it after; no other
\* handler lets one back in (UserMgrController.edit, reset and changePwd).
OnlyStatusSentOrOverlapEnables ==
    [][/\ \A u \in DOMAIN user :
            (user[u].status # "ok" /\ user'[u].status = "ok") =>
               \/ Unfreeze(u)
               \/ \E form \in Forms : form.status = "ok" /\ Edit(u, form)
               \/ \E r \in Requests :
                     /\ request[r].pc = "write" /\ request'[r] = Idle
                     /\ request[r].user = u /\ request[r].row.status = "ok"
       /\ \A r \in Requests :
            (request'[r].pc = "write" /\ request'[r] # request[r]) =>
               request'[r].row.status = user[request'[r].user].status]_vars

AccountsUnique == \A a \in Accounts : Cardinality(OfAccount(a)) <= 1

\* An account comes to belong to two users only by an edit, when a deleted user
\* is brought back, or when an addition found it free and another request took
\* it before the row was inserted (UserMgrController.add).
TwiceOnlyByEditReturnOrOverlap ==
    [][/\ (AccountsUnique /\ ~AccountsUnique') =>
            \/ \E u \in DOMAIN user :
                  \/ user'[u].account # user[u].account
                  \/ user[u].status = "deleted" /\ user'[u].status # "deleted"
            \/ \E r \in Requests :
                  /\ request[r].pc = "add" /\ request'[r] = Idle
                  /\ OfAccount(request[r].row.account) # {}
       /\ \A r \in Requests :
            (request'[r].pc = "add" /\ request'[r] # request[r]) =>
               OfAccount(request'[r].row.account) = {}]_vars

=============================================================================
