------------------------------ MODULE Accounts ------------------------------
(***************************************************************************)
(* Accounts, sessions and lockout: AuthService, the table behind           *)
(* UserAccountDao, and KioskAccessController, which shows a tab only to a  *)
(* session that may see it.                                                *)
(*                                                                         *)
(* Anything that hashes a password runs on the thread pool: it reads the   *)
(* account, hashes, writes, and its result is queued to the main thread    *)
(* (finishTask), while the main thread goes on locking, signing out and    *)
(* editing accounts. One busy flag keeps two such tasks apart.             *)
(*                                                                         *)
(* Passwords are abstracted to whether the one given is right. An account  *)
(* is known by its name, which is unique and never changes.                *)
(***************************************************************************)
EXTENDS Integers, FiniteSets

CONSTANTS
  Users,        \* the names accounts may have
  Nobody,       \* the user of an empty session, not in Users
  Pool,         \* the threads of the pool
  MaxAttempts,  \* wrong passwords before the first lockout (5 in the code)
  FailureBound  \* bound: wrong passwords in a row that are explored

ASSUME AccountsAssumption ==
  /\ Nobody \notin Users
  /\ MaxAttempts \in Nat \ {0}
  /\ FailureBound \in Nat

VARIABLES
  users,      \* the table: an account for some of Users
  userCount,  \* m_userCount; m_firstRun is userCount = 0
  session,    \* m_currentUser, m_authenticated, m_locked
  idleTimer,  \* m_idleTimer is running
  busy,       \* m_busy
  pool,       \* the task each thread has
  tab,        \* m_currentTab
  pending,    \* m_pendingTarget
  audit       \* the change entry the last step appended to the audit log, if any

sessionVars == <<session, idleTimer, tab, pending>>
vars == <<users, userCount, session, idleTimer, busy, pool, tab, pending, audit>>

UserRole == {"admin", "operator", "viewer"}
Permission == {"RunTester", "Calibrate", "ConfigureSensors", "ManageUsers"}
Target == {"Monitor", "Settings", "Tester", "Calibration"}

NewAccount(role, must) ==
  [role |-> role, active |-> TRUE, mustChange |-> must, fails |-> 0, wait |-> 0]

Session(u, row, auth, lck) ==
  [user |-> u, role |-> row.role, mustChange |-> row.mustChange, auth |-> auth, locked |-> lck]
NoSession == [user |-> Nobody, role |-> "viewer", mustChange |-> FALSE, auth |-> FALSE, locked |-> FALSE]

NoTask == [phase |-> "none"]
NoEntry == [action |-> "none", entity |-> Nobody, actor |-> Nobody]
Entry(action, entity, actor) == [action |-> action, entity |-> entity, actor |-> actor]

\* The step appends no change entry.
silent == audit' = NoEntry

firstRun == userCount = 0

Init ==
  /\ users = <<>> /\ userCount = 0
  /\ session = NoSession /\ idleTimer = FALSE
  /\ busy = FALSE /\ pool = [p \in Pool |-> NoTask]
  /\ tab = "Monitor" /\ pending = "none"
  /\ audit = NoEntry

----------------------------------------------------------------------------
(* Lockout and permissions. *)

\* Mutant: the lockout is counted in milliseconds.
lockMilliseconds(attempts) == IF attempts < MaxAttempts THEN 0 ELSE 60000

\* Seconds of lockout after so many wrong passwords: 60, doubled at every
\* further MaxAttempts of them, never more than 900.
lockSecondsFor(attempts) ==
  LET step == attempts \div MaxAttempts
  IN  IF step < 5 THEN <<0, 60, 120, 240, 480>>[step + 1] ELSE 900

can(s, permission) ==
  /\ s.auth /\ ~s.locked /\ ~s.mustChange
  /\ \/ s.role = "admin"
     \/ s.role = "operator" /\ permission \in {"RunTester", "Calibrate"}

isAllowed(s, target) ==
  CASE target = "Settings"    -> can(s, "ConfigureSensors")
    [] target = "Tester"      -> can(s, "RunTester")
    [] target = "Calibration" -> can(s, "Calibrate")
    [] OTHER                  -> TRUE

----------------------------------------------------------------------------
(* The session, and the tabs that follow it. *)

\* A request that is allowed: nothing is pending, and a tab (calibration is a
\* dialog) is shown.
completeRequest(target, shown) ==
  /\ pending' = "none"
  /\ tab' = IF target = "Calibration" THEN shown ELSE target

\* The slot on AuthService::sessionChanged, for the session s.
onSessionChanged(s) ==
  LET shown == IF isAllowed(s, tab) THEN tab ELSE "Monitor"
  IN  IF pending # "none" /\ isAllowed(s, pending)
      THEN completeRequest(pending, shown)
      ELSE tab' = shown /\ pending' = pending

\* The session becomes s and is announced.
become(s) == session' = s /\ onSessionChanged(s)

startSession(u, row) == become(Session(u, row, TRUE, FALSE)) /\ idleTimer' = TRUE
\* Mutant: nobody is told that the session has ended.
endSessionQuietly == session' = NoSession /\ idleTimer' = FALSE /\ UNCHANGED <<tab, pending>>

endSession == become(NoSession) /\ idleTimer' = FALSE
lockSession == become([session EXCEPT !.locked = TRUE]) /\ idleTimer' = FALSE

lock ==
  /\ session.auth /\ ~session.locked
  /\ lockSession
  /\ UNCHANGED <<users, userCount, busy, pool>> /\ silent

\* The idle timer fires once; nothing is left to lock after a lock.
onIdleTimeout == idleTimer /\ lock

logout ==
  /\ session.auth
  /\ endSession
  /\ UNCHANGED <<users, userCount, busy, pool>> /\ silent

request(target) ==
  /\ IF isAllowed(session, target) THEN completeRequest(target, tab)
     ELSE pending' = target /\ tab' = tab
  /\ UNCHANGED <<users, userCount, session, idleTimer, busy, pool>> /\ silent

cancelAuthentication ==
  /\ pending' = "none"
  /\ UNCHANGED <<users, userCount, session, idleTimer, busy, pool, tab>> /\ silent

----------------------------------------------------------------------------
(* Requests that hash a password. *)

Task(kind, u, row) ==
  [phase |-> "started", kind |-> kind, user |-> u, row |-> row, actor |-> session.user, ok |-> FALSE]

\* Mutant: a second task is accepted.
runTaskAlways(task) ==
  /\ busy' = TRUE
  /\ \E p \in Pool : pool[p] = NoTask /\ pool' = [pool EXCEPT ![p] = task]
  /\ UNCHANGED <<users, userCount, sessionVars>> /\ silent

\* Refused while another task is in progress.
runTask(task) ==
  /\ ~busy
  /\ busy' = TRUE
  /\ LET free == {p \in Pool : pool[p] = NoTask} IN
     free # {} /\ pool' = [pool EXCEPT ![CHOOSE p \in free : TRUE] = task]
  /\ UNCHANGED <<users, userCount, sessionVars>> /\ silent

blank == NewAccount("viewer", FALSE)

login(u) == ~session.auth /\ runTask(Task("Login", u, blank))
unlock == session.auth /\ session.locked /\ runTask(Task("Unlock", session.user, blank))
createFirstAdmin(u) ==
  firstRun /\ runTask([Task("CreateFirstAdmin", u, NewAccount("admin", FALSE)) EXCEPT !.actor = u])
changePassword ==
  session.auth /\ ~session.locked /\ runTask(Task("ChangePassword", session.user, blank))
createUser(u, role) ==
  can(session, "ManageUsers") /\ runTask(Task("CreateUser", u, NewAccount(role, TRUE)))
resetPassword(u) ==
  can(session, "ManageUsers") /\ u # session.user /\ runTask(Task("ResetPassword", u, blank))

(* The task on its thread: what it reads ... *)
creates(t) == t.kind \in {"CreateFirstAdmin", "CreateUser"}

\* The reads that end a task at once.
rejected(t) ==
  \/ t.kind = "CreateFirstAdmin" /\ DOMAIN users # {}
  \/ t.kind = "CreateUser" /\ t.user \in DOMAIN users
  \/ ~creates(t) /\ t.user \notin DOMAIN users
  \/ /\ t.kind \in {"Login", "Unlock"} /\ t.user \in DOMAIN users
     /\ ~users[t.user].active \/ users[t.user].wait # 0

afterReads(t) ==
  IF rejected(t) THEN [t EXCEPT !.phase = "done"]
  ELSE [t EXCEPT !.phase = "hashed", !.row = IF creates(t) THEN t.row ELSE users[t.user]]

taskReads(p) ==
  /\ pool[p].phase = "started"
  /\ pool' = [pool EXCEPT ![p] = afterReads(@)]
  /\ UNCHANGED <<users, userCount, sessionVars, busy>> /\ silent

(* ... and what it writes when the hash is there. *)
updateRow(u, row) == [users EXCEPT ![u] = row]
finishes(p, ok, row) == pool' = [pool EXCEPT ![p] = [@ EXCEPT !.phase = "done", !.ok = ok, !.row = row]]

cleared(row) == [row EXCEPT !.fails = 0, !.wait = 0]
failed(row) == [row EXCEPT !.fails = @ + 1, !.wait = lockSecondsFor(row.fails + 1)]

\* recordLoginSuccess and updateLoginState write the columns of the row that
\* concern the lockout; a write that fails is ignored.
loginState(u, row) ==
  users' \in {users, updateRow(u, [users[u] EXCEPT !.fails = row.fails, !.wait = row.wait])}

\* updatePasswordHash: the lockout ends with the old password.
newPassword(u, must) == updateRow(u, [cleared(users[u]) EXCEPT !.mustChange = must])

\* Mutant: the change is committed although its entry is not.
commitsAnyway(table, entry) == users' = table /\ audit' \in {entry, NoEntry}

\* runWithAudit: the change and its entry are committed together or not at all.
commits(table, entry) == users' = table /\ audit' = entry

verifies(p) ==
  LET t == pool[p] IN
  /\ t.kind \in {"Login", "Unlock"}
  /\ \/ loginState(t.user, cleared(t.row)) /\ finishes(p, TRUE, cleared(t.row))
     \/ /\ t.row.fails < FailureBound
        /\ loginState(t.user, failed(t.row)) /\ finishes(p, FALSE, blank)
  /\ silent

inserts(p) ==
  LET t == pool[p] IN
  /\ creates(t)
  /\ \/ /\ t.user \notin DOMAIN users
        /\ commits([u \in DOMAIN users \cup {t.user} |-> IF u = t.user THEN t.row ELSE users[u]],
                   Entry("create", t.user, t.actor))
        /\ finishes(p, TRUE, t.row)
     \/ finishes(p, FALSE, blank) /\ UNCHANGED users /\ silent

setsPassword(p) ==
  LET t == pool[p]
      byUser == t.kind = "ChangePassword"
  IN
  /\ t.kind \in {"ChangePassword", "ResetPassword"}
  /\ \/ /\ commits(newPassword(t.user, ~byUser),
                   Entry(IF byUser THEN "change" ELSE "reset", t.user, t.actor))
        /\ finishes(p, TRUE, t.row)
     \/ finishes(p, FALSE, blank) /\ UNCHANGED users /\ silent

taskWrites(p) ==
  /\ pool[p].phase = "hashed"
  /\ verifies(p) \/ inserts(p) \/ setsPassword(p)
  /\ UNCHANGED <<userCount, sessionVars, busy>>

(* The result on the main thread. *)
updateUserCount(table) == userCount' = Cardinality(DOMAIN table)

unlockSession(u, row) ==
  /\ become(Session(u, row, session.auth, FALSE))
  /\ idleTimer' = (session.auth \/ idleTimer)

passwordChanged == become([session EXCEPT !.mustChange = FALSE]) /\ UNCHANGED idleTimer

\* What a result that arrives changes.
applies(t) ==
  \/ t.ok /\ t.kind = "Login" /\ startSession(t.user, t.row) /\ UNCHANGED userCount
  \/ t.ok /\ t.kind = "CreateFirstAdmin" /\ updateUserCount(users) /\ startSession(t.user, t.row)
  \/ t.ok /\ t.kind = "Unlock" /\ unlockSession(t.user, t.row) /\ UNCHANGED userCount
  \/ t.ok /\ t.kind = "ChangePassword" /\ passwordChanged /\ UNCHANGED userCount
  \/ t.ok /\ t.kind = "CreateUser" /\ updateUserCount(users) /\ UNCHANGED sessionVars
  \/ (~t.ok \/ t.kind = "ResetPassword") /\ UNCHANGED <<userCount, sessionVars>>

\* Mutant: a task that fails leaves the service busy.
finishTaskBusy(p) ==
  /\ pool[p].phase = "done"
  /\ busy' = ~pool[p].ok
  /\ pool' = [pool EXCEPT ![p] = NoTask]
  /\ applies(pool[p])
  /\ UNCHANGED users /\ silent

finishTask(p) ==
  /\ pool[p].phase = "done"
  /\ busy' = FALSE
  /\ pool' = [pool EXCEPT ![p] = NoTask]
  /\ applies(pool[p])
  /\ UNCHANGED users /\ silent

----------------------------------------------------------------------------
(* Edits of accounts, on the main thread. *)

activeAdmins(table) == {u \in DOMAIN table : table[u].role = "admin" /\ table[u].active}
lastAdmin(u) == u \in activeAdmins(users) /\ Cardinality(activeAdmins(users)) <= 1

\* The edit of u by the session, whose row becomes row.
edits(action, u, row) ==
  /\ commits(updateRow(u, row), Entry(action, u, session.user))
  /\ UNCHANGED <<userCount, sessionVars, busy, pool>>

setUserActive(u, active) ==
  /\ can(session, "ManageUsers")
  /\ u # session.user \/ active
  /\ u \in DOMAIN users
  /\ active \/ ~lastAdmin(u)
  /\ edits(IF active THEN "enable" ELSE "disable", u, [users[u] EXCEPT !.active = active])

setUserRole(u, role) ==
  /\ can(session, "ManageUsers")
  /\ u # session.user
  /\ u \in DOMAIN users
  /\ role = "admin" \/ ~lastAdmin(u)
  /\ edits("role", u, [users[u] EXCEPT !.role = role])

\* Mutant: the form is saved without the checks of the other edits.
updateUnchecked(u, role, active) ==
  /\ can(session, "ManageUsers") /\ ~busy /\ u \in DOMAIN users
  /\ edits("update", u, [users[u] EXCEPT !.role = role, !.active = active])

updateUser(u, role, active) ==
  /\ can(session, "ManageUsers")
  /\ ~busy
  /\ u \in DOMAIN users
  /\ u = session.user => active /\ role = users[u].role
  /\ (active /\ role = "admin") \/ ~lastAdmin(u)
  /\ edits("update", u, [users[u] EXCEPT !.role = role, !.active = active])

deleteUser(u) ==
  /\ can(session, "ManageUsers")
  /\ u # session.user
  /\ ~busy
  /\ u \in DOMAIN users
  /\ ~lastAdmin(u)
  /\ LET rest == [v \in DOMAIN users \ {u} |-> users[v]]
     IN  commits(rest, Entry("delete", u, session.user)) /\ updateUserCount(rest)
  /\ UNCHANGED <<sessionVars, busy, pool>>

----------------------------------------------------------------------------
(* Time and restarts. *)

\* now has passed locked_until.
lockoutExpires(u) ==
  /\ u \in DOMAIN users /\ users[u].wait > 0
  /\ users' = [users EXCEPT ![u].wait = 0]
  /\ UNCHANGED <<userCount, sessionVars, busy, pool>> /\ silent

\* The process ends at any moment and starts again on the same database.
restart ==
  /\ updateUserCount(users)
  /\ session' = NoSession /\ idleTimer' = FALSE
  /\ busy' = FALSE /\ pool' = [p \in Pool |-> NoTask]
  /\ tab' = "Monitor" /\ pending' = "none"
  /\ UNCHANGED users /\ silent

TaskStep == \E p \in Pool : taskReads(p) \/ taskWrites(p) \/ finishTask(p)

Next ==
  \/ lock \/ onIdleTimeout \/ logout \/ unlock \/ changePassword
  \/ cancelAuthentication \/ restart
  \/ \E target \in Target : request(target)
  \/ \E u \in Users : login(u) \/ createFirstAdmin(u) \/ resetPassword(u) \/ deleteUser(u) \/ lockoutExpires(u)
  \/ \E u \in Users, role \in UserRole : createUser(u, role) \/ setUserRole(u, role)
  \/ \E u \in Users, active \in BOOLEAN : setUserActive(u, active)
  \/ \E u \in Users, role \in UserRole, active \in BOOLEAN : updateUser(u, role, active)
  \/ TaskStep

Spec == Init /\ [][Next]_vars

\* A thread that has a task goes on with it, and the main thread takes its
\* events; nothing else, neither the user nor the clock, is fair.
FairSpec == Spec /\ WF_vars(TaskStep)

----------------------------------------------------------------------------
(* Properties. *)

\* An account, a session, a task and an entry have the fields the code gives
\* them, and the counter of wrong passwords stays within the explored range.
TypeOK ==
  /\ DOMAIN users \subseteq Users
  /\ \A u \in DOMAIN users :
       /\ users[u].role \in UserRole /\ users[u].active \in BOOLEAN /\ users[u].mustChange \in BOOLEAN
       /\ users[u].fails \in 0..FailureBound /\ users[u].wait \in 0..900
  /\ userCount \in 0..Cardinality(Users)
  /\ session.user \in Users \cup {Nobody} /\ session.role \in UserRole
  /\ session.mustChange \in BOOLEAN /\ session.auth \in BOOLEAN /\ session.locked \in BOOLEAN
  /\ idleTimer \in BOOLEAN /\ busy \in BOOLEAN
  /\ tab \in Target \ {"Calibration"} /\ pending \in Target \cup {"none"}
  /\ \A p \in Pool : pool[p].phase \in {"none", "started", "hashed", "done"}

\* Once there are accounts one of them is an administrator that is not
\* disabled: no sequence of edits, by any administrators, locks them all out.
AdminRemains == users # <<>> => activeAdmins(users) # {}

\* The copy of the account that a session works with never gives more than the
\* table does: while somebody is signed in the account exists, is active and
\* has that role; its password needs no change unless the session knows; and
\* an unlocked session is not one of an account under lockout. Results queued
\* from the pool, sign-outs and edits arrive in any order.
SessionFresh ==
  session.auth =>
    /\ session.user \in DOMAIN users
    /\ LET row == users[session.user] IN
       /\ row.active /\ row.role = session.role
       /\ row.mustChange => session.mustChange
       /\ session.locked \/ row.wait = 0

\* An open session is always under the idle timer, whatever path opened it; the
\* tab shown is one the session may see, also after a lock, a sign-out or an
\* expiry; and a request waits only for as long as the session does not allow
\* it.
TabsFollowSession ==
  /\ session.auth /\ ~session.locked => idleTimer
  /\ isAllowed(session, tab)
  /\ pending # "none" => ~isAllowed(session, pending)

Rights(table, u) ==
  IF u \in DOMAIN table THEN <<table[u].role, table[u].active, table[u].mustChange>> ELSE <<>>

\* Who may make the change the entry names: an administrator in good standing
\* at the moment of the commit, the owner of a password, or the first account.
Rightful(entry) ==
  \/ entry.actor \in activeAdmins(users) /\ ~users[entry.actor].mustChange
  \/ entry.action = "change" /\ entry.actor = entry.entity
  \/ users = <<>> /\ entry.action = "create" /\ entry.actor = entry.entity

\* Every committed change of what an account may do has an entry that names
\* the account and somebody who had the right to change it when the change was
\* committed, not only when it was asked for.
ChangesAudited ==
  [][\A u \in Users : Rights(users', u) # Rights(users, u) =>
       /\ audit'.entity = u /\ Rightful(audit')
       /\ (u \in DOMAIN users') # (u \in DOMAIN users) => audit'.action \in {"create", "delete"}]_vars

\* A request that was accepted is answered: the service does not stay busy.
Answered == busy ~> ~busy
=============================================================================
