------------------------- MODULE UserAccountProofs -------------------------
(* Theorems about UserAccount, for every value of its constants.            *)
EXTENDS UserAccount, TableTheorems, FiniteSetTheorems

-----------------------------------------------------------------------------
\* A request on its way to the table carries a row that fits, whatever row it
\* loaded: a new password brings its salt along.
PendingSaltsFit ==
    \A r \in Requests : request[r].pc # "idle" => SaltFits(request[r].row)

InductiveInv == TypeOK /\ PendingSaltsFit

-----------------------------------------------------------------------------
(* Rows *)

LEMMA NewRowFits ==
    ASSUME NEW a \in Accounts, NEW p \in Passwords, NEW s \in Salts,
           NEW roles \in SUBSET Roles
    PROVE  /\ NewRow(a, p, s, roles) \in UserRow
           /\ SaltFits(NewRow(a, p, s, roles))
  BY DEF NewRow, UserRow, Statuses, SaltFits, Digest, Digests

LEMMA WithPasswordFits ==
    ASSUME NEW row \in UserRow, NEW p \in Passwords, NEW s \in Salts
    PROVE  /\ WithPassword(row, p, s) \in UserRow
           /\ SaltFits(WithPassword(row, p, s))
  <1>1. Digest(p, s) \in Digests
    BY DEF Digest, Digests
  <1>2. WithPassword(row, p, s) \in UserRow
    BY <1>1 DEF WithPassword, UserRow
  <1>3. /\ WithPassword(row, p, s).password = Digest(p, s)
        /\ WithPassword(row, p, s).salt = s
    BY DEF WithPassword, UserRow
  <1>. QED
    BY <1>2, <1>3 DEF SaltFits, Digest

\* Whatever an edit sends, the row it leaves is one.
EditedRow(row, form) ==
    [account |-> Written(row.account, form.account),
     password |-> Written(row.password, form.password),
     salt |-> Written(row.salt, form.salt),
     status |-> Written(row.status, form.status),
     roles |-> Written(row.roles, form.roles)]

LEMMA EditedRowIsRow ==
    ASSUME NEW row \in UserRow, NEW form \in Forms
    PROVE  EditedRow(row, form) \in UserRow
  <1>1. form \in EditForm
    BY FormsOK
  <1>2. /\ Written(row.account, form.account) \in Accounts
        /\ Written(row.password, form.password) \in Digests \cup {NoDigest}
        /\ Written(row.salt, form.salt) \in Salts
        /\ Written(row.status, form.status) \in Statuses
        /\ Written(row.roles, form.roles) \in SUBSET Roles
    BY <1>1 DEF EditForm, UserRow, Written
  <1>. QED
    BY <1>2 DEF EditedRow, UserRow

LEMMA RowsAreRecords ==
    ASSUME TypeOK, NEW u \in DOMAIN user
    PROVE  user[u] \in UserRow
  BY DEF TypeOK, IsTable

\* What a thread holds while it is not idle.
LEMMA PendingRow ==
    ASSUME InductiveInv, NEW r \in Requests, request[r].pc # "idle"
    PROVE  /\ request[r].row \in UserRow
           /\ SaltFits(request[r].row)
  BY DEF InductiveInv, TypeOK, PendingSaltsFit, Idle, AddRequest, WriteRequest

-----------------------------------------------------------------------------
(* What the two kinds of steps preserve *)

\* A step that lets one thread continue with a row that fits, or idle.
LEMMA ContinueFits ==
    ASSUME InductiveInv, NEW r \in Requests, UNCHANGED user, NEW q,
           Continue(r, q),
           q \in {Idle} \cup AddRequest \cup WriteRequest,
           q.pc # "idle" => SaltFits(q.row)
    PROVE  InductiveInv'
  <1>1. TypeOK'
    BY DEF InductiveInv, TypeOK, Continue
  <1>2. request' = [s \in Requests |-> IF s = r THEN q ELSE request[s]]
    BY DEF InductiveInv, TypeOK, Continue
  <1>3. PendingSaltsFit'
    BY <1>2 DEF InductiveInv, PendingSaltsFit, SaltFits
  <1>. QED
    BY <1>1, <1>3 DEF InductiveInv

\* A step that ends the request of a thread and writes rows.
LEMMA WriteFits ==
    ASSUME InductiveInv, NEW r \in Requests, Continue(r, Idle),
           IsTable(user', Users, UserRow)
    PROVE  InductiveInv'
  <1>1. TypeOK'
    BY DEF InductiveInv, TypeOK, Continue
  <1>2. request' = [s \in Requests |-> IF s = r THEN Idle ELSE request[s]]
    BY DEF InductiveInv, TypeOK, Continue
  <1>3. PendingSaltsFit'
    BY <1>2 DEF InductiveInv, PendingSaltsFit, SaltFits, Idle
  <1>. QED
    BY <1>1, <1>3 DEF InductiveInv

\* A statement that writes columns of one row.
LEMMA ColumnsFit ==
    ASSUME InductiveInv, IsTable(user', Users, UserRow), UNCHANGED request
    PROVE  InductiveInv'
  BY DEF InductiveInv, TypeOK, PendingSaltsFit, SaltFits

-----------------------------------------------------------------------------
LEMMA InitInductive == Init => InductiveInv
  <1> SUFFICES ASSUME Init PROVE InductiveInv
    OBVIOUS
  <1> DEFINE row == [account |-> AdminAccount, salt |-> AdminSalt,
                     password |-> Digest(DefaultPassword, AdminSalt),
                     status |-> "ok", roles |-> Roles]
  <1>1. row \in UserRow
    BY UserConstants DEF UserRow, Statuses, Digest, Digests
  <1>2. user = [u \in {Admin} |-> row] /\ request = [r \in Requests |-> Idle]
    BY DEF Init
  <1> HIDE DEF row
  <1>3. TypeOK
    BY <1>1, <1>2, UserConstants DEF TypeOK, IsTable
  <1>4. PendingSaltsFit
    BY <1>2 DEF PendingSaltsFit, Idle
  <1>. QED
    BY <1>3, <1>4 DEF InductiveInv

LEMMA RequestStepInductive ==
    ASSUME InductiveInv, NEW r \in Requests
    PROVE
      /\ \A a \in Accounts, p \in Passwords, s \in Salts, roles \in SUBSET Roles :
            AddRead(r, a, p, s, roles) => InductiveInv'
      /\ \A u \in Users : AddInsert(r, u) => InductiveInv'
      /\ \A u \in Users, s \in Salts : ResetRead(r, u, s) => InductiveInv'
      /\ \A u \in Users, p, q \in Passwords :
            ChangePwdRead(r, u, p, q) => InductiveInv'
      /\ WriteBack(r) => InductiveInv'
  <1>0. \A u \in DOMAIN user : user[u] \in UserRow /\ user[u].salt \in Salts
    BY DEF InductiveInv, TypeOK, IsTable, UserRow
  <1>1. ASSUME NEW a \in Accounts, NEW p \in Passwords, NEW s \in Salts,
               NEW roles \in SUBSET Roles, AddRead(r, a, p, s, roles)
        PROVE  InductiveInv'
    <2> DEFINE q == [pc |-> "add", row |-> NewRow(a, p, s, roles)]
    <2>1. q \in AddRequest /\ SaltFits(q.row)
      BY NewRowFits DEF AddRequest
    <2>. QED
      BY <1>1, <2>1, ContinueFits DEF AddRead
  <1>2. ASSUME NEW u \in Users, AddInsert(r, u)
        PROVE  InductiveInv'
    <2> DEFINE row == request[r].row
    <2>1. row \in UserRow
      BY <1>2, PendingRow DEF AddInsert
    <2>2. user' = Insert(user, u, row) /\ Continue(r, Idle)
      BY <1>2 DEF AddInsert
    <2> HIDE DEF row
    <2>3. IsTable(user', Users, UserRow)
      BY <2>1, <2>2, InsertIsTable DEF InductiveInv, TypeOK
    <2>. QED
      BY <2>2, <2>3, WriteFits
  <1>3. ASSUME NEW u \in Users, NEW s \in Salts, ResetRead(r, u, s)
        PROVE  InductiveInv'
    <2> DEFINE q == [pc |-> "write", user |-> u,
                     row |-> WithPassword(user[u], DefaultPassword, s)]
    <2>1. q \in WriteRequest /\ SaltFits(q.row)
      BY <1>0, <1>3, UserConstants, WithPasswordFits DEF WriteRequest, ResetRead
    <2>. QED
      BY <1>3, <2>1, ContinueFits DEF ResetRead
  <1>4. ASSUME NEW u \in Users, NEW old \in Passwords, NEW new \in Passwords,
               ChangePwdRead(r, u, old, new)
        PROVE  InductiveInv'
    <2> DEFINE q == [pc |-> "write", user |-> u,
                     row |-> WithPassword(user[u], new, user[u].salt)]
    <2>1. q \in WriteRequest /\ SaltFits(q.row)
      BY <1>0, <1>4, WithPasswordFits DEF WriteRequest, ChangePwdRead
    <2>. QED
      BY <1>4, <2>1, ContinueFits DEF ChangePwdRead
  <1>5. ASSUME WriteBack(r)
        PROVE  InductiveInv'
    <2> DEFINE row == request[r].row
               u == request[r].user
    <2>1. row \in UserRow
      BY <1>5, PendingRow DEF WriteBack
    <2>2. user' = Update(user, u, row) /\ Continue(r, Idle)
      BY <1>5 DEF WriteBack
    <2> HIDE DEF row, u
    <2>3. IsTable(user', Users, UserRow)
      BY <2>1, <2>2, UpdateIsTable DEF InductiveInv, TypeOK
    <2>. QED
      BY <2>2, <2>3, WriteFits
  <1>. QED
    BY <1>1, <1>2, <1>3, <1>4, <1>5

LEMMA ColumnStepInductive ==
    ASSUME InductiveInv, NEW u \in Users
    PROVE
      /\ \A form \in Forms : Edit(u, form) => InductiveInv'
      /\ \A status \in Statuses : SetStatus(u, status) => InductiveInv'
      /\ \A roles \in SUBSET Roles : SetRole(u, roles) => InductiveInv'
  <1>0. u \in DOMAIN user => user[u] \in UserRow
    BY RowsAreRecords DEF InductiveInv
  <1>1. ASSUME NEW form \in Forms, Edit(u, form)
        PROVE  InductiveInv'
    <2>1. EditedRow(user[u], form) \in UserRow
      BY <1>0, <1>1, EditedRowIsRow DEF Edit
    <2>2. user' = Update(user, u, EditedRow(user[u], form)) /\ UNCHANGED request
      BY <1>1 DEF Edit, EditedRow
    <2>3. IsTable(user', Users, UserRow)
      BY <2>1, <2>2, UpdateIsTable DEF InductiveInv, TypeOK
    <2>. QED
      BY <2>2, <2>3, ColumnsFit
  <1>2. ASSUME NEW status \in Statuses, SetStatus(u, status)
        PROVE  InductiveInv'
    <2>1. [user[u] EXCEPT !.status = status] \in UserRow
      BY <1>0, <1>2 DEF SetStatus, UserRow
    <2>2. IsTable(user', Users, UserRow)
      BY <1>2, <2>1 DEF SetStatus, InductiveInv, TypeOK, IsTable
    <2>. QED
      BY <1>2, <2>2, ColumnsFit DEF SetStatus
  <1>3. ASSUME NEW roles \in SUBSET Roles, SetRole(u, roles)
        PROVE  InductiveInv'
    <2>1. [user[u] EXCEPT !.roles = roles] \in UserRow
      BY <1>0, <1>3 DEF SetRole, UserRow
    <2>2. IsTable(user', Users, UserRow)
      BY <1>3, <2>1 DEF SetRole, InductiveInv, TypeOK, IsTable
    <2>. QED
      BY <1>3, <2>2, ColumnsFit DEF SetRole
  <1>. QED
    BY <1>1, <1>2, <1>3

LEMMA NextInductive == InductiveInv /\ [Next]_vars => InductiveInv'
  <1> SUFFICES ASSUME InductiveInv, [Next]_vars PROVE InductiveInv'
    OBVIOUS
  <1>1. CASE UNCHANGED vars
    BY <1>1 DEF vars, InductiveInv, TypeOK, PendingSaltsFit, SaltFits
  <1>2. CASE Restart
    BY <1>2 DEF Restart, InductiveInv, TypeOK, PendingSaltsFit,
                SaltFits, Idle
  <1>3. ASSUME NEW u \in Users, DeleteUser(u) \/ Freeze(u) \/ Unfreeze(u)
        PROVE  InductiveInv'
    BY <1>3, ColumnStepInductive DEF DeleteUser, Freeze, Unfreeze, Statuses
  <1>. QED
    BY <1>1, <1>2, <1>3, RequestStepInductive, ColumnStepInductive DEF Next

-----------------------------------------------------------------------------
\* Whatever the number of users and threads, every step keeps the columns and
\* the requests within their types.
THEOREM UserTypeCorrect == Spec => []TypeOK
  <1>1. Spec => []InductiveInv
    BY InitInductive, NextInductive, PTL DEF Spec
  <1>. QED
    BY <1>1, PTL DEF InductiveInv

LEMMA AlwaysInductive == Spec => []InductiveInv
  BY InitInductive, NextInductive, PTL DEF Spec

LEMMA RequestsAfter ==
    ASSUME TypeOK, NEW r \in Requests, NEW q, Continue(r, q)
    PROVE  /\ request'[r] = q
           /\ \A s \in Requests \ {r} : request'[s] = request[s]
  BY DEF TypeOK, Continue

-----------------------------------------------------------------------------
(* Where salt and digest of a row come apart *)

\* The rows whose salt and digest come apart in one step.
SaltsExplained ==
    \A u \in DOMAIN user' :
       ~SaltFits(user'[u]) =>
          \/ u \in DOMAIN user /\ ~SaltFits(user[u])
          \/ \E form \in Forms :
                /\ form.salt # NotSent \/ form.password \in Digests
                /\ Edit(u, form)

LEMMA NextSalts ==
    ASSUME InductiveInv, Next
    PROVE  SaltsExplained
  <1>1. ASSUME UNCHANGED user PROVE SaltsExplained
    BY <1>1 DEF SaltsExplained
  <1>2. ASSUME NEW u, NEW row, SaltFits(row),
               user' = Insert(user, u, row) \/ user' = Update(user, u, row)
        PROVE  SaltsExplained
    <2>1. \A v \in DOMAIN user' :
             \/ user'[v] = row
             \/ v \in DOMAIN user /\ user'[v] = user[v]
      <3>1. CASE user' = Insert(user, u, row)
        BY <3>1 DEF Insert
      <3>2. CASE user' = Update(user, u, row)
        BY <3>2 DEF Update
      <3>. QED
        BY <1>2, <3>1, <3>2
    <2>. QED
      BY <1>2, <2>1 DEF SaltsExplained
  <1>3. ASSUME NEW r \in Requests,
               (\E u \in Users : AddInsert(r, u)) \/ WriteBack(r)
        PROVE  SaltsExplained
    <2>1. SaltFits(request[r].row)
      BY <1>3, PendingRow DEF AddInsert, WriteBack
    <2>. QED
      BY <1>2, <1>3, <2>1 DEF AddInsert, WriteBack
  \* An edit that sends neither salt nor digest leaves both or takes the digest.
  <1>4. ASSUME NEW u \in Users, NEW form \in Forms, Edit(u, form)
        PROVE  SaltsExplained
    <2> DEFINE row == EditedRow(user[u], form)
    <2>1. user' = Update(user, u, row) /\ u \in DOMAIN user
      BY <1>4 DEF Edit, EditedRow
    <2>2. \/ form.salt # NotSent \/ form.password \in Digests
          \/ /\ row.salt = user[u].salt
             /\ row.password \in {user[u].password, NoDigest}
      <3>1. form.password \in Digests \cup {NoDigest, NotSent}
        BY FormsOK DEF EditForm
      <3>2. /\ row.salt = Written(user[u].salt, form.salt)
            /\ row.password = Written(user[u].password, form.password)
        BY DEF EditedRow
      <3>. HIDE DEF row
      <3>. QED
        BY <3>1, <3>2 DEF Written
    <2>. HIDE DEF row
    <2>3. \A v \in DOMAIN user' :
             /\ v \in DOMAIN user
             /\ user'[v] = IF v = u THEN row ELSE user[v]
      BY <2>1 DEF Update
    <2>4. CASE form.salt # NotSent \/ form.password \in Digests
      BY <1>4, <2>3, <2>4 DEF SaltsExplained
    <2>5. CASE /\ row.salt = user[u].salt
               /\ row.password \in {user[u].password, NoDigest}
      BY <2>1, <2>3, <2>5 DEF SaltsExplained, SaltFits
    <2>. QED
      BY <2>2, <2>4, <2>5
  <1>5. ASSUME NEW u \in Users,
               \/ \E status \in Statuses : SetStatus(u, status)
               \/ \E roles \in SUBSET Roles : SetRole(u, roles)
        PROVE  SaltsExplained
    <2>1. DOMAIN user' = DOMAIN user
      BY <1>5 DEF SetStatus, SetRole
    <2>2. \A v \in DOMAIN user :
             user'[v].salt = user[v].salt /\ user'[v].password = user[v].password
      BY <1>5, RowsAreRecords DEF SetStatus, SetRole, UserRow, InductiveInv
    <2>. QED
      BY <2>1, <2>2 DEF SaltsExplained, SaltFits
  <1>6. ASSUME NEW u \in Users, DeleteUser(u) \/ Freeze(u) \/ Unfreeze(u)
        PROVE  SaltsExplained
    BY <1>5, <1>6 DEF DeleteUser, Freeze, Unfreeze, Statuses
  <1>. QED
    BY <1>1, <1>3, <1>4, <1>5, <1>6
    DEF Next, AddRead, ResetRead, ChangePwdRead, Restart

\* For any number of users and threads, and whatever edits send: resets and
\* changes of password that overlap never leave a row with the salt of another
\* password; only an edit that sends a salt or a digest does
\* (UserMgrController.reset, changePwd, edit).
THEOREM SaltsAlwaysExplained == Spec => SaltsPartOnlyByEdit
  <1>1. InductiveInv /\ [Next]_vars => [SaltsExplained]_vars
    BY NextSalts
  <1>. QED
    BY <1>1, AlwaysInductive, PTL
    DEF Spec, SaltsPartOnlyByEdit, SaltsExplained

-----------------------------------------------------------------------------
(* What lets a disabled user back in, and what makes an account belong to two *)

\* The users that come back, and the rows that are loaded, in one step.
ReturnsExplained ==
    /\ \A u \in DOMAIN user :
         (user[u].status # "ok" /\ user'[u].status = "ok") =>
            \/ Unfreeze(u)
            \/ \E form \in Forms : form.status = "ok" /\ Edit(u, form)
            \/ \E r \in Requests :
                  /\ request[r].pc = "write" /\ request'[r] = Idle
                  /\ request[r].user = u /\ request[r].row.status = "ok"
    /\ \A r \in Requests :
         (request'[r].pc = "write" /\ request'[r] # request[r]) =>
            request'[r].row.status = user[request'[r].user].status

LEMMA RequestReturns ==
    ASSUME TypeOK, NEW r \in Requests
    PROVE
      /\ \A a \in Accounts, p \in Passwords, s \in Salts, roles \in SUBSET Roles :
            AddRead(r, a, p, s, roles) => ReturnsExplained
      /\ \A u \in Users : AddInsert(r, u) => ReturnsExplained
      /\ \A u \in Users, s \in Salts : ResetRead(r, u, s) => ReturnsExplained
      /\ \A u \in Users, p, q \in Passwords :
            ChangePwdRead(r, u, p, q) => ReturnsExplained
      /\ WriteBack(r) => ReturnsExplained
  <1>1. ASSUME NEW a \in Accounts, NEW p \in Passwords, NEW s \in Salts,
               NEW roles \in SUBSET Roles, AddRead(r, a, p, s, roles)
        PROVE  ReturnsExplained
    BY <1>1, RequestsAfter DEF AddRead, ReturnsExplained
  <1>2. ASSUME NEW u \in Users, AddInsert(r, u)
        PROVE  ReturnsExplained
    <2>1. \A v \in DOMAIN user : user'[v] = user[v]
      BY <1>2 DEF AddInsert, Insert
    <2>2. \A s \in Requests : request'[s] # request[s] => request'[s] = Idle
      BY <1>2, RequestsAfter DEF AddInsert
    <2>. QED
      BY <2>1, <2>2 DEF ReturnsExplained, Idle
  <1>3. ASSUME NEW u \in Users, NEW row \in UserRow, UNCHANGED user,
               row.status = user[u].status,
               Continue(r, [pc |-> "write", user |-> u, row |-> row])
        PROVE  ReturnsExplained
    BY <1>3, RequestsAfter DEF ReturnsExplained
  <1>4. \A row \in UserRow, p \in Passwords, s \in Salts :
          /\ WithPassword(row, p, s).status = row.status
          /\ WithPassword(row, p, s) \in UserRow
    BY WithPasswordFits DEF WithPassword, UserRow
  <1>5. ASSUME NEW u \in Users, NEW s \in Salts, ResetRead(r, u, s)
        PROVE  ReturnsExplained
    BY <1>3, <1>4, <1>5, RowsAreRecords, UserConstants DEF ResetRead
  <1>6. ASSUME NEW u \in Users, NEW p \in Passwords, NEW q \in Passwords,
               ChangePwdRead(r, u, p, q)
        PROVE  ReturnsExplained
    <2>1. user[u] \in UserRow /\ user[u].salt \in Salts
      BY <1>6, RowsAreRecords DEF ChangePwdRead, UserRow
    <2>. QED
      BY <1>3, <1>4, <1>6, <2>1 DEF ChangePwdRead
  <1>7. ASSUME WriteBack(r)
        PROVE  ReturnsExplained
    <2>1. /\ request[r].pc = "write" /\ request'[r] = Idle
          /\ \A s \in Requests \ {r} : request'[s] = request[s]
      BY <1>7, RequestsAfter DEF WriteBack
    <2>2. \A v \in DOMAIN user :
             user'[v] = IF v = request[r].user THEN request[r].row ELSE user[v]
      BY <1>7 DEF WriteBack, Update
    <2>. QED
      BY <2>1, <2>2 DEF ReturnsExplained, Idle
  <1>. QED
    BY <1>1, <1>2, <1>5, <1>6, <1>7

LEMMA NextReturns ==
    ASSUME TypeOK, Next
    PROVE  ReturnsExplained
  <1>1. ASSUME NEW u \in Users, NEW row, UNCHANGED request, u \in DOMAIN user,
               user' = [user EXCEPT ![u] = row],
               row.status = "ok" => user[u].status = "ok" \/ Unfreeze(u)
        PROVE  ReturnsExplained
    <2>1. \A v \in DOMAIN user : user'[v] = IF v = u THEN row ELSE user[v]
      BY <1>1
    <2>. QED
      BY <1>1, <2>1 DEF ReturnsExplained
  <1>2. ASSUME NEW u \in Users, NEW form \in Forms, Edit(u, form)
        PROVE  ReturnsExplained
    <2> DEFINE row == EditedRow(user[u], form)
    <2>1. row.status = "ok" => user[u].status = "ok" \/ form.status = "ok"
      BY DEF EditedRow, Written
    <2>2. /\ user' = Update(user, u, row) /\ u \in DOMAIN user
          /\ UNCHANGED request
      BY <1>2 DEF Edit, EditedRow
    <2>. HIDE DEF row
    <2>3. \A v \in DOMAIN user : user'[v] = IF v = u THEN row ELSE user[v]
      BY <2>2 DEF Update
    <2>. QED
      BY <1>2, <2>1, <2>2, <2>3 DEF ReturnsExplained
  <1>3. ASSUME NEW u \in Users, NEW status \in Statuses, SetStatus(u, status),
               status = "ok" => Unfreeze(u)
        PROVE  ReturnsExplained
    <2> DEFINE row == [user[u] EXCEPT !.status = status]
    <2>1. row.status = status
      BY <1>3, RowsAreRecords DEF SetStatus, UserRow
    <2>2. user' = [user EXCEPT ![u] = row]
      BY <1>3 DEF SetStatus
    <2>. HIDE DEF row
    <2>. QED
      BY <1>1, <1>3, <2>1, <2>2 DEF SetStatus
  <1>4. ASSUME NEW u \in Users, DeleteUser(u) \/ Freeze(u) \/ Unfreeze(u)
        PROVE  ReturnsExplained
    BY <1>3, <1>4 DEF DeleteUser, Freeze, Unfreeze, Statuses
  <1>5. ASSUME NEW u \in Users, NEW roles \in SUBSET Roles, SetRole(u, roles)
        PROVE  ReturnsExplained
    <2> DEFINE row == [user[u] EXCEPT !.roles = roles]
    <2>1. row.status = user[u].status
      BY <1>5, RowsAreRecords DEF SetRole, UserRow
    <2>2. user' = [user EXCEPT ![u] = row]
      BY <1>5 DEF SetRole
    <2>. HIDE DEF row
    <2>. QED
      BY <1>1, <1>5, <2>1, <2>2 DEF SetRole
  <1>6. ASSUME Restart PROVE ReturnsExplained
    BY <1>6 DEF Restart, ReturnsExplained, Idle
  <1>. QED
    BY <1>2, <1>4, <1>5, <1>6, RequestReturns DEF Next

\* For any number of users and threads, and whatever edits send: a disabled user
\* comes back only by unfreeze, by an edit that sends the status of an enabled
\* user or when a row loaded before is written back, and rows are loaded as they
\* are (UserMgrController.reset, changePwd, unfreeze, edit).
THEOREM ReturnsAlwaysExplained == Spec => OnlyStatusSentOrOverlapEnables
  <1>1. TypeOK /\ [Next]_vars => [ReturnsExplained]_vars
    BY NextReturns
  <1>. QED
    BY <1>1, AlwaysInductive, PTL
    DEF Spec, InductiveInv, OnlyStatusSentOrOverlapEnables, ReturnsExplained

-----------------------------------------------------------------------------
\* There are as many rows as have been inserted, so they can be counted.
FewUsers == IsFiniteSet(DOMAIN user)

LEMMA AlwaysFew == Spec => []FewUsers
  <1>1. Init => FewUsers
    BY FS_Singleton DEF Init, FewUsers
  <1>2. FewUsers /\ [Next]_vars => FewUsers'
    <2> SUFFICES ASSUME FewUsers, [Next]_vars PROVE FewUsers'
      OBVIOUS
    <2>1. \/ DOMAIN user' = DOMAIN user
          \/ \E u \in Users : DOMAIN user' = DOMAIN user \cup {u}
      BY DEF Next, vars, AddRead, AddInsert, Insert, ResetRead, ChangePwdRead,
             WriteBack, Update, Edit, DeleteUser, Freeze, Unfreeze, SetStatus,
             SetRole, Restart
    <2>. QED
      BY <2>1, FS_AddElement DEF FewUsers
  <1>. QED
    BY <1>1, <1>2, PTL DEF Spec

\* What makes an account belong to two, and what additions saw, in one step.
TwiceExplained ==
    /\ (AccountsUnique /\ ~AccountsUnique') =>
         \/ \E u \in DOMAIN user :
               \/ user'[u].account # user[u].account
               \/ user[u].status = "deleted" /\ user'[u].status # "deleted"
         \/ \E r \in Requests :
               /\ request[r].pc = "add" /\ request'[r] = Idle
               /\ OfAccount(request[r].row.account) # {}
    /\ \A r \in Requests :
         (request'[r].pc = "add" /\ request'[r] # request[r]) =>
            OfAccount(request'[r].row.account) = {}

\* No more users of an account without a row added, an account changed or a
\* user brought back.
LEMMA NoMoreUsers ==
    ASSUME FewUsers, AccountsUnique,
           DOMAIN user' = DOMAIN user,
           \A u \in DOMAIN user :
              /\ user'[u].account = user[u].account
              /\ user[u].status = "deleted" => user'[u].status = "deleted"
    PROVE  AccountsUnique'
  <1> SUFFICES ASSUME NEW a \in Accounts
               PROVE  Cardinality(OfAccount(a)') <= 1
    BY DEF AccountsUnique
  <1>1. OfAccount(a)' \subseteq OfAccount(a) /\ OfAccount(a) \subseteq DOMAIN user
    BY DEF OfAccount
  <1>2. IsFiniteSet(OfAccount(a)) /\ Cardinality(OfAccount(a)) <= 1
    BY <1>1, FS_Subset DEF FewUsers, AccountsUnique
  <1>. HIDE DEF OfAccount
  <1>3. /\ Cardinality(OfAccount(a)) \in Nat /\ IsFiniteSet(OfAccount(a)')
        /\ Cardinality(OfAccount(a)') <= Cardinality(OfAccount(a))
    BY <1>1, <1>2, FS_Subset, FS_CardinalityType
  <1>4. Cardinality(OfAccount(a)') \in Nat
    BY <1>3, FS_CardinalityType
  <1>. QED
    BY <1>2, <1>3, <1>4

\* A row inserted under an account that is free is the only one of it.
LEMMA InsertedAlone ==
    ASSUME FewUsers, AccountsUnique, NEW u, u \notin DOMAIN user, NEW row,
           user' = Insert(user, u, row), OfAccount(row.account) = {}
    PROVE  AccountsUnique'
  <1> SUFFICES ASSUME NEW a \in Accounts
               PROVE  Cardinality(OfAccount(a)') <= 1
    BY DEF AccountsUnique
  <1>1. CASE a = row.account
    <2>1. OfAccount(a)' \subseteq {u}
      BY <1>1 DEF OfAccount, Insert
    <2>2. OfAccount(a)' = {} \/ OfAccount(a)' = {u}
      BY <2>1
    <2>. QED
      BY <2>2, FS_EmptySet, FS_Singleton
  <1>2. CASE a # row.account
    <2>1. OfAccount(a)' = OfAccount(a)
      BY <1>2 DEF OfAccount, Insert
    <2>. QED
      BY <2>1 DEF AccountsUnique
  <1>. QED
    BY <1>1, <1>2

LEMMA NextTwice ==
    ASSUME TypeOK, FewUsers, Next
    PROVE  TwiceExplained
  <1>1. ASSUME \A r \in Requests : request'[r] # request[r] => request'[r].pc # "add",
               DOMAIN user' = DOMAIN user
        PROVE  TwiceExplained
    BY <1>1, NoMoreUsers DEF TwiceExplained
  <1>2. ASSUME NEW r \in Requests, NEW a \in Accounts, NEW p \in Passwords,
               NEW s \in Salts, NEW roles \in SUBSET Roles,
               AddRead(r, a, p, s, roles)
        PROVE  TwiceExplained
    <2>1. /\ request'[r].row.account = a /\ OfAccount(a) = {}
          /\ \A q \in Requests \ {r} : request'[q] = request[q]
          /\ user' = user
      BY <1>2, RequestsAfter DEF AddRead, IsFree, NewRow
    <2>2. AccountsUnique => AccountsUnique'
      BY <2>1 DEF AccountsUnique, OfAccount
    <2>. QED
      BY <2>1, <2>2 DEF TwiceExplained
  <1>3. ASSUME NEW r \in Requests, NEW u \in Users, AddInsert(r, u)
        PROVE  TwiceExplained
    <2>1. /\ request[r].pc = "add" /\ request'[r] = Idle
          /\ \A q \in Requests \ {r} : request'[q] = request[q]
      BY <1>3, RequestsAfter DEF AddInsert
    <2>2. CASE OfAccount(request[r].row.account) = {}
      BY <1>3, <2>1, <2>2, InsertedAlone DEF AddInsert, TwiceExplained, Idle
    <2>3. CASE OfAccount(request[r].row.account) # {}
      BY <2>1, <2>3 DEF TwiceExplained, Idle
    <2>. QED
      BY <2>2, <2>3
  <1>4. ASSUME NEW r \in Requests,
               \/ \E u \in Users, s \in Salts : ResetRead(r, u, s)
               \/ \E u \in Users, p, q \in Passwords : ChangePwdRead(r, u, p, q)
        PROVE  TwiceExplained
    <2>1. \A s \in Requests : request'[s] # request[s] => request'[s].pc = "write"
      <3>1. ASSUME NEW u \in Users, NEW s \in Salts, ResetRead(r, u, s)
            PROVE  request'[r].pc = "write"
        BY <3>1, RequestsAfter DEF ResetRead
      <3>2. ASSUME NEW u \in Users, NEW p \in Passwords, NEW q \in Passwords,
                   ChangePwdRead(r, u, p, q)
            PROVE  request'[r].pc = "write"
        BY <3>2, RequestsAfter DEF ChangePwdRead
      <3>3. \A s \in Requests \ {r} : request'[s] = request[s]
        BY <1>4, RequestsAfter DEF ResetRead, ChangePwdRead
      <3>. QED
        BY <1>4, <3>1, <3>2, <3>3
    <2>. QED
      BY <1>1, <1>4, <2>1 DEF ResetRead, ChangePwdRead
  <1>5. ASSUME NEW r \in Requests, WriteBack(r)
        PROVE  TwiceExplained
    <2>1. \A s \in Requests : request'[s] # request[s] => request'[s] = Idle
      BY <1>5, RequestsAfter DEF WriteBack
    <2>. QED
      BY <1>1, <1>5, <2>1 DEF WriteBack, Update, Idle
  <1>6. ASSUME NEW u \in Users,
               \/ \E form \in Forms : Edit(u, form)
               \/ DeleteUser(u) \/ Freeze(u) \/ Unfreeze(u)
               \/ \E roles \in SUBSET Roles : SetRole(u, roles)
        PROVE  TwiceExplained
    <2>1. UNCHANGED request /\ DOMAIN user' = DOMAIN user
      BY <1>6 DEF Edit, Update, DeleteUser, Freeze, Unfreeze, SetStatus, SetRole
    <2>. QED
      BY <1>1, <2>1
  <1>7. ASSUME Restart PROVE TwiceExplained
    BY <1>1, <1>7 DEF Restart, Idle
  <1>. QED
    BY <1>2, <1>3, <1>4, <1>5, <1>6, <1>7 DEF Next

\* For any number of users, accounts and threads: the only ways to two users of
\* one account are an edit, a user brought back, and an addition that another
\* request overtook (UserMgrController.add, edit, getByAccount).
THEOREM TwiceAlwaysExplained == Spec => TwiceOnlyByEditReturnOrOverlap
  <1>1. TypeOK /\ FewUsers /\ [Next]_vars => [TwiceExplained]_vars
    BY NextTwice
  <1>. QED
    BY <1>1, AlwaysInductive, AlwaysFew, PTL
    DEF Spec, InductiveInv, TwiceOnlyByEditReturnOrOverlap, TwiceExplained
=============================================================================
