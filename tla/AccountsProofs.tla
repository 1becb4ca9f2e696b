---------------------------- MODULE AccountsProofs ----------------------------
(***************************************************************************)
(* Proofs about Accounts, for any names, any pool, any number of attempts. *)
(*                                                                         *)
(* What a session may do is decided on its own copy of the account, and    *)
(* what a task writes was decided when it was asked for. That both are     *)
(* still right when it matters rests on what can happen during a task:     *)
(* TaskInv says, for every kind of task, what stays true until its result  *)
(* has been taken.                                                         *)
(***************************************************************************)
EXTENDS Accounts, FiniteSetTheorems, TLAPS

Wait == 0..900
Row == [role : UserRole, active : BOOLEAN, mustChange : BOOLEAN, fails : 0..FailureBound, wait : Wait]
Kind == {"Login", "Unlock", "CreateFirstAdmin", "ChangePassword", "CreateUser", "ResetPassword"}
TaskType ==
  [phase : {"started", "hashed", "done"}, kind : Kind, user : Users, row : Row,
   actor : Users \cup {Nobody}, ok : BOOLEAN]

SessionType ==
  [user : Users \cup {Nobody}, role : UserRole, mustChange : BOOLEAN, auth : BOOLEAN, locked : BOOLEAN]

TableInv ==
  /\ users \in [DOMAIN users -> Row] /\ DOMAIN users \subseteq Users
  /\ DOMAIN users # {} => activeAdmins(users) # {}

SessionInv == session \in SessionType /\ SessionFresh

\* The account of the task is as the task read it, and not under lockout.
Matches(t) ==
  /\ t.user \in DOMAIN users
  /\ users[t.user].active /\ users[t.user].wait = 0
  /\ users[t.user].role = t.row.role /\ users[t.user].mustChange = t.row.mustChange

\* The task has not been refused, nor has it failed.
Live(t) == t.phase = "hashed" \/ t.ok

\* A sign-in: nobody else can sign in or edit accounts meanwhile.
LoginInv(t) == t.kind = "Login" => ~session.auth /\ (Live(t) => Matches(t))

\* An unlock: the session stays locked, unless it is signed out.
UnlockInv(t) ==
  t.kind = "Unlock" =>
    /\ session.auth => session.locked /\ session.user = t.user
    /\ Live(t) => Matches(t)

\* The first account: the table is empty until it is there.
FirstInv(t) ==
  t.kind = "CreateFirstAdmin" =>
    /\ t.actor = t.user
    /\ t.phase # "done" => t.row = NewAccount("admin", FALSE)
    /\ t.phase = "hashed" => DOMAIN users = {}
    /\ t.ok => ~session.auth /\ Matches(t)

\* A new password: the session is its owner's, or nobody's.
ChangeInv(t) ==
  t.kind = "ChangePassword" =>
    /\ t.actor = t.user
    /\ session.auth => session.user = t.user
    /\ Live(t) => t.user \in DOMAIN users
    /\ t.ok => ~users[t.user].mustChange

\* What an administrator asked for: its account stays as good as it was.
AdminTaskInv(t) ==
  t.kind \in {"CreateUser", "ResetPassword"} =>
    /\ t.actor \in activeAdmins(users) /\ ~users[t.actor].mustChange
    /\ session.auth => session.user = t.actor
    /\ t.kind = "ResetPassword" => t.user # t.actor
    /\ t.kind = "ResetPassword" /\ Live(t) => t.user \in DOMAIN users

TaskInv(t) == LoginInv(t) /\ UnlockInv(t) /\ FirstInv(t) /\ ChangeInv(t) /\ AdminTaskInv(t)

\* One task at a time, and the busy flag is set for as long as there is one.
PoolType ==
  /\ pool \in [Pool -> TaskType \cup {NoTask}]
  /\ busy \in BOOLEAN
  /\ \A p \in Pool : pool[p] # NoTask => busy
  /\ \A p, q \in Pool : pool[p] # NoTask /\ pool[q] # NoTask => p = q
  /\ \A p \in Pool : pool[p] # NoTask /\ pool[p].phase # "done" => ~pool[p].ok

Tasks == {t \in TaskType : \E p \in Pool : pool[p] = t}

PoolInv == PoolType /\ \A t \in Tasks : TaskInv(t)

IInv == TableInv /\ SessionInv /\ PoolInv

Tabs == Target \ {"Calibration"}
TabsInv == tab \in Tabs /\ pending \in Target \cup {"none"} /\ idleTimer \in BOOLEAN /\ TabsFollowSession
-----------------------------------------------------------------------------
(* Accounts. *)

LEMMA NewAccountRow ==
  ASSUME NEW role \in UserRole, NEW must \in BOOLEAN
  PROVE  NewAccount(role, must) \in Row
BY AccountsAssumption DEF NewAccount, Row, Wait, AccountsAssumption

LEMMA BlankRow == blank \in Row
BY NewAccountRow DEF blank, UserRole

LEMMA ClearedRow ==
  ASSUME NEW row \in Row
  PROVE  /\ cleared(row) \in Row /\ cleared(row).wait = 0
         /\ cleared(row).role = row.role /\ cleared(row).active = row.active
         /\ cleared(row).mustChange = row.mustChange
<1>1. 0 \in 0..FailureBound /\ 0 \in Wait
  BY AccountsAssumption DEF AccountsAssumption, Wait
<1> QED
  BY <1>1 DEF cleared, Row

\* A lockout lasts 15 minutes at most, however many passwords were wrong.
LEMMA LockoutBounded ==
  ASSUME NEW attempts \in Nat
  PROVE  lockSecondsFor(attempts) \in Wait
<1> DEFINE step == attempts \div MaxAttempts
<1>1. step \in Nat
  BY AccountsAssumption DEF AccountsAssumption
<1>2. lockSecondsFor(attempts) = IF step < 5 THEN <<0, 60, 120, 240, 480>>[step + 1] ELSE 900
  BY DEF lockSecondsFor
<1> HIDE DEF step
<1>3. step < 5 => step \in {0, 1, 2, 3, 4}
  BY <1>1
<1> QED
  BY <1>2, <1>3 DEF Wait

LEMMA FailedRow ==
  ASSUME NEW row \in Row, row.fails < FailureBound
  PROVE  failed(row) \in Row
<1>1. row.fails + 1 \in 0..FailureBound /\ lockSecondsFor(row.fails + 1) \in Wait
  BY LockoutBounded, AccountsAssumption DEF Row, AccountsAssumption
<1> QED
  BY <1>1 DEF failed, Row

\* A change that keeps role and activity of every account keeps the admins.
LEMMA SameAdmins ==
  ASSUME NEW t, NEW u, DOMAIN t = DOMAIN u,
         \A v \in DOMAIN t : t[v].role = u[v].role /\ t[v].active = u[v].active
  PROVE  activeAdmins(t) = activeAdmins(u)
BY DEF activeAdmins

\* An account that is not the last administrator can be edited.
LEMMA AnotherAdmin ==
  ASSUME NEW u, ~lastAdmin(u), activeAdmins(users) # {}
  PROVE  \E v \in activeAdmins(users) : v # u
<1>1. CASE u \notin activeAdmins(users)
  BY <1>1
<1>2. CASE u \in activeAdmins(users)
  <2>1. activeAdmins(users) # {u}
    <3>1. Cardinality({u}) = 1
      BY FS_Singleton
    <3> QED
      BY <1>2, <3>1 DEF lastAdmin
  <2> QED
    BY <1>2, <2>1
<1> QED
  BY <1>1, <1>2

LEMMA InitInv == Init => IInv /\ TabsInv
<1> SUFFICES ASSUME Init PROVE IInv /\ TabsInv
  OBVIOUS
<1>1. TableInv
  BY DEF Init, TableInv
<1>2. SessionInv
  BY DEF Init, SessionInv, NoSession, SessionType, UserRole, SessionFresh
<1>3. PoolInv
  <2>1. \A p \in Pool : pool[p] = NoTask
    BY DEF Init
  <2>2. PoolType
    BY <2>1 DEF Init, PoolType
  <2>3. NoTask \notin TaskType
    BY DEF NoTask, TaskType
  <2> QED
    BY <2>1, <2>2, <2>3 DEF PoolInv, Tasks
<1>4. TabsInv
  BY DEF Init, TabsInv, Tabs, Target, TabsFollowSession, isAllowed, NoSession
<1> QED
  BY <1>1, <1>2, <1>3, <1>4 DEF IInv

-----------------------------------------------------------------------------
(* Steps that only change the session. *)

\* A task does not mind that the session is locked, or that it ends.
LEMMA TaskKept ==
  ASSUME NEW t, TaskInv(t), users' = users,
         session'.auth => /\ session.auth /\ session'.user = session.user
                          /\ session.locked => session'.locked
  PROVE  TaskInv(t)'
<1>1. Matches(t)' <=> Matches(t)
  BY DEF Matches
<1>2. LoginInv(t)'
  BY <1>1 DEF TaskInv, LoginInv, Live
<1>3. UnlockInv(t)'
  BY <1>1 DEF TaskInv, UnlockInv, Live
<1>4. FirstInv(t)'
  BY <1>1 DEF TaskInv, FirstInv, NewAccount
<1>5. ChangeInv(t)'
  BY DEF TaskInv, ChangeInv, Live
<1>6. AdminTaskInv(t)'
  BY DEF TaskInv, AdminTaskInv, activeAdmins, Live
<1> QED
  BY <1>2, <1>3, <1>4, <1>5, <1>6 DEF TaskInv

LEMMA PoolKept ==
  ASSUME PoolInv, UNCHANGED <<users, busy, pool>>,
         session'.auth => /\ session.auth /\ session'.user = session.user
                          /\ session.locked => session'.locked
  PROVE  PoolInv'
<1>1. PoolType'
  BY DEF PoolInv, PoolType, TaskType, NoTask
<1>2. ASSUME NEW t \in Tasks' PROVE TaskInv(t)'
  BY <1>2, TaskKept DEF PoolInv, Tasks
<1> QED
  BY <1>1, <1>2 DEF PoolInv

LEMMA LockInv ==
  ASSUME IInv, lock
  PROVE  IInv'
<1>1. session' = [session EXCEPT !.locked = TRUE] /\ UNCHANGED <<users, busy, pool>>
  BY DEF lock, lockSession, become
<1>2. /\ session' \in SessionType
      /\ session'.auth = session.auth /\ session'.user = session.user
      /\ session'.role = session.role /\ session'.mustChange = session.mustChange /\ session'.locked
  BY <1>1 DEF IInv, SessionInv, SessionType
<1>3. SessionInv'
  BY <1>1, <1>2 DEF IInv, SessionInv, SessionFresh
<1> QED
  BY <1>1, <1>2, <1>3, PoolKept DEF IInv, TableInv

LEMMA LogoutInv ==
  ASSUME IInv, session' = NoSession, UNCHANGED <<users, busy, pool>>
  PROVE  IInv'
<1>1. session' \in SessionType /\ ~session'.auth
  BY DEF NoSession, SessionType, UserRole
<1>2. SessionInv'
  BY <1>1 DEF SessionInv, SessionFresh
<1> QED
  BY <1>1, <1>2, PoolKept DEF IInv, TableInv

LEMMA SameInv ==
  ASSUME IInv, UNCHANGED <<users, session, busy, pool>>
  PROVE  IInv'
<1>1. SessionInv'
  BY DEF IInv, SessionInv, SessionFresh
<1> QED
  BY <1>1, PoolKept DEF IInv, TableInv

-----------------------------------------------------------------------------
(* Tasks. *)

LEMMA NoTaskType == NoTask \notin TaskType
BY DEF NoTask, TaskType

\* Of a busy service only one thread has a task.
LEMMA OnlyTask ==
  ASSUME PoolType, NEW p \in Pool, pool[p] # NoTask
  PROVE  /\ busy /\ pool[p] \in TaskType /\ pool[p] \in Tasks
         /\ \A q \in Pool : q # p => pool[q] = NoTask
BY DEF PoolType, Tasks

\* A thread's task becomes t, which is then the only one.
LEMMA NewTask ==
  ASSUME PoolType, NEW p \in Pool, NEW t \in TaskType, \A q \in Pool : q # p => pool[q] = NoTask,
         pool' = [pool EXCEPT ![p] = t], busy', busy' \in BOOLEAN,
         t.phase # "done" => ~t.ok, TaskInv(t)'
  PROVE  PoolInv'
<1>1. pool' \in [Pool -> TaskType \cup {NoTask}] /\ pool'[p] = t
  BY DEF PoolType
<1>2. \A q \in Pool : q # p => pool'[q] = NoTask
  BY DEF PoolType
<1>3. PoolType'
  BY <1>1, <1>2 DEF PoolType
<1>4. Tasks' = {t}
  BY <1>1, <1>2, NoTaskType DEF Tasks
<1> QED
  BY <1>3, <1>4 DEF PoolInv

\* Requests are refused while there is a task.
LEMMA RunInv ==
  ASSUME IInv, NEW t \in TaskType, TaskInv(t), ~t.ok, runTask(t)
  PROVE  IInv'
<1>1. \A q \in Pool : pool[q] = NoTask
  BY DEF IInv, PoolInv, PoolType, runTask
<1>2. PICK p \in Pool : pool' = [pool EXCEPT ![p] = t]
  <2> DEFINE free == {q \in Pool : pool[q] = NoTask}
  <2>1. free # {} /\ pool' = [pool EXCEPT ![CHOOSE q \in free : TRUE] = t]
    BY DEF runTask
  <2>2. (CHOOSE q \in free : TRUE) \in free
    BY <2>1
  <2> QED
    BY <2>1, <2>2
<1>3. busy' = TRUE /\ users' = users /\ session' = session
  BY DEF runTask, sessionVars
<1>4. TaskInv(t)'
  BY <1>3, TaskKept
<1>5. PoolInv'
  BY <1>1, <1>2, <1>3, <1>4, NewTask DEF IInv, PoolInv
<1>6. SessionInv'
  BY <1>3 DEF IInv, SessionInv, SessionFresh
<1> QED
  BY <1>3, <1>5, <1>6 DEF IInv, TableInv

\* The copy of the account in the session is good enough to decide on.
LEMMA CanManage ==
  ASSUME SessionInv, can(session, "ManageUsers")
  PROVE  /\ session.auth /\ ~session.locked /\ session.user \in DOMAIN users
         /\ session.user \in activeAdmins(users) /\ ~users[session.user].mustChange
BY DEF SessionInv, SessionFresh, can, activeAdmins

LEMMA TaskFields ==
  ASSUME NEW kind \in Kind, NEW u \in Users, NEW row \in Row, SessionInv
  PROVE  /\ Task(kind, u, row) \in TaskType /\ Task(kind, u, row).phase = "started"
         /\ Task(kind, u, row).kind = kind /\ Task(kind, u, row).user = u
         /\ Task(kind, u, row).row = row /\ Task(kind, u, row).actor = session.user
         /\ ~Task(kind, u, row).ok
BY DEF Task, TaskType, SessionInv, SessionType

LEMMA LoginStarts ==
  ASSUME IInv, NEW u \in Users, login(u)
  PROVE  IInv'
<1>1. PICK t : t = Task("Login", u, blank)
  OBVIOUS
<1>2. t \in TaskType /\ t.phase = "started" /\ t.kind = "Login" /\ ~t.ok
  BY <1>1, TaskFields, BlankRow DEF IInv, Kind
<1>3. TaskInv(t)
  BY <1>2 DEF login, TaskInv, LoginInv, UnlockInv, FirstInv, ChangeInv, AdminTaskInv, Live
<1> QED
  BY <1>1, <1>2, <1>3, RunInv DEF login

LEMMA UnlockStarts ==
  ASSUME IInv, unlock
  PROVE  IInv'
<1>1. PICK t : t = Task("Unlock", session.user, blank)
  OBVIOUS
<1>2. session.user \in Users
  BY DEF unlock, IInv, SessionInv, SessionFresh, TableInv
<1>3. t \in TaskType /\ t.phase = "started" /\ t.kind = "Unlock" /\ ~t.ok /\ t.user = session.user
  BY <1>1, <1>2, TaskFields, BlankRow DEF IInv, Kind
<1>4. TaskInv(t)
  BY <1>3 DEF unlock, TaskInv, LoginInv, UnlockInv, FirstInv, ChangeInv, AdminTaskInv, Live
<1> QED
  BY <1>1, <1>3, <1>4, RunInv DEF unlock

LEMMA FirstStarts ==
  ASSUME IInv, NEW u \in Users, createFirstAdmin(u)
  PROVE  IInv'
<1> DEFINE admin == NewAccount("admin", FALSE)
<1>1. PICK s : s = Task("CreateFirstAdmin", u, admin)
  OBVIOUS
<1>2. PICK t : t = [s EXCEPT !.actor = u]
  OBVIOUS
<1>3. /\ s \in TaskType /\ s.phase = "started" /\ s.kind = "CreateFirstAdmin" /\ ~s.ok
      /\ s.user = u /\ s.row = admin
  <2>1. admin \in Row /\ "CreateFirstAdmin" \in Kind /\ SessionInv
    BY NewAccountRow DEF IInv, Kind, UserRole
  <2> HIDE DEF admin
  <2> QED
    BY <1>1, <2>1, TaskFields
<1>4. /\ t \in TaskType /\ t.phase = "started" /\ t.kind = "CreateFirstAdmin" /\ ~t.ok
      /\ t.user = u /\ t.row = admin /\ t.actor = u
  BY <1>2, <1>3 DEF TaskType
<1>5. TaskInv(t)
  BY <1>4 DEF TaskInv, LoginInv, UnlockInv, FirstInv, ChangeInv, AdminTaskInv, Live
<1> QED
  BY <1>1, <1>2, <1>4, <1>5, RunInv DEF createFirstAdmin

LEMMA ChangeStarts ==
  ASSUME IInv, changePassword
  PROVE  IInv'
<1>1. PICK t : t = Task("ChangePassword", session.user, blank)
  OBVIOUS
<1>2. session.user \in Users
  BY DEF changePassword, IInv, SessionInv, SessionFresh, TableInv
<1>3. /\ t \in TaskType /\ t.phase = "started" /\ t.kind = "ChangePassword" /\ ~t.ok
      /\ t.user = session.user /\ t.actor = session.user
  BY <1>1, <1>2, TaskFields, BlankRow DEF IInv, Kind
<1>4. TaskInv(t)
  BY <1>3 DEF TaskInv, LoginInv, UnlockInv, FirstInv, ChangeInv, AdminTaskInv, Live
<1> QED
  BY <1>1, <1>3, <1>4, RunInv DEF changePassword

LEMMA CreateStarts ==
  ASSUME IInv, NEW u \in Users, NEW role \in UserRole, createUser(u, role)
  PROVE  IInv'
<1> DEFINE row == NewAccount(role, TRUE)
<1>1. PICK t : t = Task("CreateUser", u, row)
  OBVIOUS
<1>2. /\ t \in TaskType /\ t.phase = "started" /\ t.kind = "CreateUser" /\ ~t.ok
      /\ t.user = u /\ t.actor = session.user
  <2>1. row \in Row /\ "CreateUser" \in Kind /\ SessionInv
    BY NewAccountRow DEF IInv, Kind
  <2> HIDE DEF row
  <2> QED
    BY <1>1, <2>1, TaskFields
<1>3. TaskInv(t)
  BY <1>2, CanManage DEF createUser, IInv, TaskInv, LoginInv, UnlockInv, FirstInv, ChangeInv, AdminTaskInv, Live
<1> QED
  BY <1>1, <1>2, <1>3, RunInv DEF createUser

LEMMA ResetStarts ==
  ASSUME IInv, NEW u \in Users, resetPassword(u)
  PROVE  IInv'
<1>1. PICK t : t = Task("ResetPassword", u, blank)
  OBVIOUS
<1>2. /\ t \in TaskType /\ t.phase = "started" /\ t.kind = "ResetPassword" /\ ~t.ok
      /\ t.user = u /\ t.actor = session.user
  BY <1>1, TaskFields, BlankRow DEF IInv, Kind
<1>3. TaskInv(t)
  BY <1>2, CanManage DEF resetPassword, IInv, TaskInv, LoginInv, UnlockInv, FirstInv, ChangeInv, AdminTaskInv, Live
<1> QED
  BY <1>1, <1>2, <1>3, RunInv DEF resetPassword

-----------------------------------------------------------------------------
(* The steps of a task. *)

\* A refused task stays harmless; the other one knows the account it has read.
LEMMA ReadsInv ==
  ASSUME IInv, NEW p \in Pool, taskReads(p)
  PROVE  IInv'
<1>1. PICK t : t = pool[p]
  OBVIOUS
<1>2. t # NoTask /\ t.phase = "started"
  BY <1>1 DEF taskReads, NoTask
<1>3. t \in TaskType /\ TaskInv(t) /\ busy /\ (\A q \in Pool : q # p => pool[q] = NoTask) /\ ~t.ok
  BY <1>1, <1>2, OnlyTask DEF IInv, PoolInv, PoolType
<1>4. PICK s : s = afterReads(t)
  OBVIOUS
<1>5. pool' = [pool EXCEPT ![p] = s] /\ busy' = busy /\ users' = users /\ session' = session
  BY <1>1, <1>4 DEF taskReads, sessionVars, IInv, PoolInv, PoolType
<1>6. s \in TaskType /\ (s.phase # "done" => ~s.ok) /\ TaskInv(s)
  <2>1. CASE rejected(t)
    <3>1. /\ s \in TaskType /\ s.phase = "done" /\ s.kind = t.kind /\ s.user = t.user
          /\ s.actor = t.actor /\ ~s.ok
      BY <1>3, <1>4, <2>1 DEF afterReads, TaskType
    <3>2. TaskInv(s)
      BY <1>3, <3>1 DEF TaskInv, LoginInv, UnlockInv, FirstInv, ChangeInv, AdminTaskInv, Live
    <3> QED
      BY <3>1, <3>2
  <2>2. CASE ~rejected(t)
    <3> DEFINE row == IF creates(t) THEN t.row ELSE users[t.user]
    <3>1. t.kind \notin {"CreateFirstAdmin", "CreateUser"} => t.user \in DOMAIN users
      BY <1>3, <2>2 DEF rejected, creates, TaskType
    <3>2. row \in Row
      BY <1>3, <3>1 DEF creates, TaskType, IInv, TableInv
    <3>3. s = [t EXCEPT !.phase = "hashed", !.row = row]
      BY <1>4, <2>2 DEF afterReads
    <3> HIDE DEF row
    <3>4. /\ s \in TaskType /\ s.phase = "hashed" /\ s.kind = t.kind /\ s.user = t.user
          /\ s.actor = t.actor /\ ~s.ok /\ s.row = row
      BY <1>3, <3>2, <3>3 DEF TaskType
    <3>5. t.kind \in {"Login", "Unlock"} => Matches(s)
      BY <2>2, <3>1, <3>4 DEF rejected, Matches, row, creates, IInv, TableInv, Row
    <3>6. t.kind = "CreateFirstAdmin" => DOMAIN users = {}
      BY <2>2 DEF rejected
    <3>7. t.kind = "CreateFirstAdmin" => s.row = t.row
      BY <3>4 DEF row, creates
    <3>8. LoginInv(s) /\ UnlockInv(s)
      BY <1>3, <3>4, <3>5 DEF TaskInv, LoginInv, UnlockInv, Live
    <3>9. FirstInv(s)
      BY <1>2, <1>3, <3>4, <3>6, <3>7 DEF TaskInv, FirstInv
    <3>10. ChangeInv(s) /\ AdminTaskInv(s)
      BY <1>3, <3>1, <3>4 DEF TaskInv, ChangeInv, AdminTaskInv, Live
    <3> QED
      BY <3>4, <3>8, <3>9, <3>10 DEF TaskInv
  <2> QED
    BY <2>1, <2>2
<1>7. TaskInv(s)'
  BY <1>5, <1>6, TaskKept
<1>8. PoolInv'
  BY <1>3, <1>5, <1>6, <1>7, NewTask DEF IInv, PoolInv, PoolType
<1>9. SessionInv'
  BY <1>5 DEF IInv, SessionInv, SessionFresh
<1> QED
  BY <1>5, <1>8, <1>9 DEF IInv, TableInv

\* A task that has failed, in whatever state, asks for nothing but its session.
LEMMA FailedTask ==
  ASSUME NEW t, TaskInv(t), NEW s, s.phase = "done", s.kind = t.kind, s.user = t.user,
         s.actor = t.actor, ~s.ok
  PROVE  TaskInv(s)
BY DEF TaskInv, LoginInv, UnlockInv, FirstInv, ChangeInv, AdminTaskInv, Live

\* The task that a thread is about to write for.
Hashed(p, t) ==
  /\ pool[p] = t /\ t \in TaskType /\ t.phase = "hashed" /\ ~t.ok /\ TaskInv(t)
  /\ busy = TRUE /\ \A q \in Pool : q # p => pool[q] = NoTask

LEMMA HashedTask ==
  ASSUME IInv, NEW p \in Pool, NEW t, pool[p] = t, t.phase = "hashed"
  PROVE  Hashed(p, t)
<1>1. t # NoTask
  BY DEF NoTask
<1>2. t \in TaskType /\ busy /\ TaskInv(t) /\ (\A q \in Pool : q # p => pool[q] = NoTask)
  BY <1>1, OnlyTask DEF IInv, PoolInv
<1>3. ~t.ok /\ busy = TRUE
  BY <1>1, <1>2 DEF IInv, PoolInv, PoolType
<1> QED
  BY <1>2, <1>3 DEF Hashed

\* A write that fails changes nothing.
LEMMA FailsInv ==
  ASSUME IInv, NEW p \in Pool, NEW t, Hashed(p, t), finishes(p, FALSE, blank),
         UNCHANGED <<users, session, busy>>
  PROVE  IInv'
<1>1. PICK s : s = [t EXCEPT !.phase = "done", !.ok = FALSE, !.row = blank]
  OBVIOUS
<1>2. /\ s \in TaskType /\ s.phase = "done" /\ s.kind = t.kind /\ s.user = t.user
      /\ s.actor = t.actor /\ ~s.ok
  BY <1>1, BlankRow DEF Hashed, TaskType
<1>3. pool' = [pool EXCEPT ![p] = s]
  BY <1>1 DEF finishes, Hashed, IInv, PoolInv, PoolType
<1>4. TaskInv(s)'
  BY <1>2, FailedTask, TaskKept DEF Hashed
<1>5. PoolInv'
  BY <1>2, <1>3, <1>4, NewTask DEF Hashed, IInv, PoolInv
<1>6. SessionInv'
  BY DEF IInv, SessionInv, SessionFresh
<1> QED
  BY <1>5, <1>6 DEF IInv, TableInv

\* What loginState may leave of the account u.
LEMMA LoginStateKeeps ==
  ASSUME TableInv, NEW u \in DOMAIN users, NEW row \in Row, loginState(u, row)
  PROVE  /\ TableInv' /\ DOMAIN users' = DOMAIN users
         /\ \A v \in DOMAIN users :
              /\ users'[v].role = users[v].role /\ users'[v].active = users[v].active
              /\ users'[v].mustChange = users[v].mustChange
              /\ v # u => users'[v] = users[v]
         /\ users'[u].wait \in {users[u].wait, row.wait}
<1> DEFINE written == [users[u] EXCEPT !.fails = row.fails, !.wait = row.wait]
<1>1. /\ written \in Row /\ written.role = users[u].role /\ written.active = users[u].active
      /\ written.mustChange = users[u].mustChange /\ written.wait = row.wait
  BY DEF TableInv, Row
<1>2. users' = users \/ users' = [users EXCEPT ![u] = written]
  BY DEF loginState, updateRow
<1> HIDE DEF written
<1>3. DOMAIN users' = DOMAIN users /\ users' \in [DOMAIN users -> Row]
  BY <1>1, <1>2 DEF TableInv
<1>4. \A v \in DOMAIN users :
        /\ users'[v].role = users[v].role /\ users'[v].active = users[v].active
        /\ users'[v].mustChange = users[v].mustChange
        /\ v # u => users'[v] = users[v]
  BY <1>1, <1>2 DEF TableInv
<1>5. users'[u].wait \in {users[u].wait, row.wait}
  BY <1>1, <1>2 DEF TableInv
<1>6. activeAdmins(users') = activeAdmins(users)
  BY <1>3, <1>4, SameAdmins
<1> QED
  BY <1>3, <1>4, <1>5, <1>6 DEF TableInv

\* The end of a sign-in or an unlock: a right password leaves no lockout, a
\* wrong one concerns nobody who is in.
LEMMA VerifiesInv ==
  ASSUME IInv, NEW p \in Pool, NEW t, Hashed(p, t), verifies(p), UNCHANGED <<session, busy>>
  PROVE  IInv'
<1>1. /\ t.kind \in {"Login", "Unlock"} /\ t \in TaskType /\ t.row \in Row /\ Matches(t)
      /\ session.auth => t.kind = "Unlock" /\ session.locked /\ session.user = t.user
  BY DEF Hashed, verifies, TaskInv, LoginInv, UnlockInv, Live, TaskType
<1>2. PICK ok \in BOOLEAN, row \in Row, left \in Row :
        /\ loginState(t.user, left) /\ finishes(p, ok, row)
        /\ ok => /\ left.wait = 0 /\ row.role = t.row.role /\ row.mustChange = t.row.mustChange
  BY <1>1, ClearedRow, FailedRow, BlankRow DEF verifies, Hashed
<1>3. t.user \in DOMAIN users /\ TableInv
  BY <1>1 DEF Matches, IInv
<1>4. /\ TableInv' /\ DOMAIN users' = DOMAIN users
      /\ \A v \in DOMAIN users :
           /\ users'[v].role = users[v].role /\ users'[v].active = users[v].active
           /\ users'[v].mustChange = users[v].mustChange
           /\ v # t.user => users'[v] = users[v]
      /\ users'[t.user].wait \in {users[t.user].wait, left.wait}
  BY <1>2, <1>3, LoginStateKeeps
<1>5. SessionInv'
  BY <1>1, <1>4 DEF IInv, SessionInv, SessionFresh
<1>6. PICK s : s = [t EXCEPT !.phase = "done", !.ok = ok, !.row = row]
  OBVIOUS
<1>7. /\ s \in TaskType /\ s.phase = "done" /\ s.kind = t.kind /\ s.user = t.user
      /\ s.actor = t.actor /\ s.ok = ok /\ s.row = row
  BY <1>1, <1>2, <1>6 DEF TaskType
<1>8. pool' = [pool EXCEPT ![p] = s]
  BY <1>2, <1>6 DEF finishes, Hashed, IInv, PoolInv, PoolType
<1>9. s.ok => Matches(s)'
  BY <1>1, <1>2, <1>3, <1>4, <1>7 DEF Matches
<1>10. TaskInv(s)'
  BY <1>1, <1>7, <1>9 DEF Hashed, TaskInv, LoginInv, UnlockInv, FirstInv, ChangeInv, AdminTaskInv, Live
<1>11. PoolInv'
  BY <1>7, <1>8, <1>10, NewTask DEF Hashed, IInv, PoolInv
<1> QED
  BY <1>4, <1>5, <1>11 DEF IInv

\* A new account joins the others; the first one is an administrator.
LEMMA InsertsInv ==
  ASSUME IInv, NEW p \in Pool, NEW t, Hashed(p, t), inserts(p), UNCHANGED <<session, busy>>
  PROVE  IInv'
<1>1. CASE finishes(p, FALSE, blank) /\ UNCHANGED users
  BY <1>1, FailsInv
<1>2. CASE /\ t.user \notin DOMAIN users
           /\ users' = [u \in DOMAIN users \cup {t.user} |-> IF u = t.user THEN t.row ELSE users[u]]
           /\ finishes(p, TRUE, t.row)
  <2>1. /\ t \in TaskType /\ t.row \in Row /\ t.user \in Users
        /\ t.kind \in {"CreateFirstAdmin", "CreateUser"}
    BY DEF Hashed, inserts, creates, TaskType
  <2>2. DOMAIN users' = DOMAIN users \cup {t.user} /\ users' \in [DOMAIN users' -> Row]
    BY <1>2, <2>1 DEF IInv, TableInv
  <2>3. users'[t.user] = t.row /\ \A v \in DOMAIN users : users'[v] = users[v]
    BY <1>2
  <2>4. /\ t.kind = "CreateFirstAdmin" => DOMAIN users = {} /\ t.row = NewAccount("admin", FALSE)
        /\ t.kind = "CreateUser" => t.actor \in activeAdmins(users)
    BY DEF Hashed, TaskInv, FirstInv, AdminTaskInv
  <2>5. \A v \in activeAdmins(users) : v \in activeAdmins(users')
    BY <2>2, <2>3 DEF activeAdmins
  <2>6. activeAdmins(users') # {}
    BY <2>1, <2>2, <2>3, <2>4, <2>5 DEF activeAdmins, NewAccount
  <2>7. TableInv'
    BY <2>1, <2>2, <2>6 DEF IInv, TableInv
  <2>8. SessionInv'
    BY <1>2, <2>2, <2>3 DEF IInv, SessionInv, SessionFresh
  <2>9. PICK s : s = [t EXCEPT !.phase = "done", !.ok = TRUE, !.row = t.row]
    OBVIOUS
  <2>10. /\ s \in TaskType /\ s.phase = "done" /\ s.kind = t.kind /\ s.user = t.user
         /\ s.actor = t.actor /\ s.ok /\ s.row = t.row
    BY <2>1, <2>9 DEF TaskType
  <2>11. pool' = [pool EXCEPT ![p] = s]
    BY <1>2, <2>9 DEF finishes, Hashed, IInv, PoolInv, PoolType
  <2>12. ASSUME t.kind = "CreateFirstAdmin" PROVE TaskInv(s)'
    <3>1. ~session.auth
      BY <2>4, <2>12 DEF IInv, SessionInv, SessionFresh
    <3>2. Matches(s)'
      BY <2>2, <2>3, <2>4, <2>10, <2>12 DEF Matches, NewAccount
    <3> QED
      BY <2>10, <2>12, <3>1, <3>2
      DEF Hashed, TaskInv, LoginInv, UnlockInv, FirstInv, ChangeInv, AdminTaskInv, Live
  <2>13. ASSUME t.kind = "CreateUser" PROVE TaskInv(s)'
    <3>1. t.actor \in DOMAIN users
      BY <2>4, <2>13 DEF activeAdmins
    <3> QED
      BY <2>3, <2>4, <2>5, <2>10, <2>13, <3>1
      DEF Hashed, TaskInv, LoginInv, UnlockInv, FirstInv, ChangeInv, AdminTaskInv, Live
  <2>14. PoolInv'
    BY <2>1, <2>10, <2>11, <2>12, <2>13, NewTask DEF Hashed, IInv, PoolInv
  <2> QED
    BY <2>7, <2>8, <2>14 DEF IInv
<1> QED
  BY <1>1, <1>2 DEF inserts, commits, Hashed

\* A new password: the session's own or that of an account it does not have.
LEMMA PasswordInv ==
  ASSUME IInv, NEW p \in Pool, NEW t, Hashed(p, t), setsPassword(p), UNCHANGED <<session, busy>>
  PROVE  IInv'
<1> DEFINE byUser == t.kind = "ChangePassword"
           changed == [cleared(users[t.user]) EXCEPT !.mustChange = ~byUser]
<1>1. CASE finishes(p, FALSE, blank) /\ UNCHANGED users
  BY <1>1, FailsInv
<1>2. CASE users' = [users EXCEPT ![t.user] = changed] /\ finishes(p, TRUE, t.row)
  <2>1. /\ t \in TaskType /\ t.row \in Row /\ t.kind \in {"ChangePassword", "ResetPassword"}
        /\ t.user \in DOMAIN users /\ TableInv
    BY DEF Hashed, setsPassword, TaskType, TaskInv, ChangeInv, AdminTaskInv, Live, IInv
  <2>2. users[t.user] \in Row
    BY <2>1 DEF TableInv
  <2>3. /\ changed \in Row /\ changed.wait = 0 /\ changed.mustChange = ~byUser
        /\ changed.role = users[t.user].role /\ changed.active = users[t.user].active
    BY <2>2, ClearedRow DEF Row
  <2> HIDE DEF changed
  <2>4. DOMAIN users' = DOMAIN users /\ users' \in [DOMAIN users -> Row]
    BY <1>2, <2>1, <2>3 DEF TableInv
  <2>5. users'[t.user] = changed /\ \A v \in DOMAIN users : v # t.user => users'[v] = users[v]
    BY <1>2, <2>1 DEF TableInv
  <2>6. activeAdmins(users') = activeAdmins(users)
    BY <2>3, <2>4, <2>5, SameAdmins
  <2>7. TableInv'
    BY <2>1, <2>4, <2>6 DEF TableInv
  <2>8. /\ t.kind = "ChangePassword" => t.actor = t.user /\ (session.auth => session.user = t.user)
        /\ t.kind = "ResetPassword" =>
             /\ t.actor \in activeAdmins(users) /\ ~users[t.actor].mustChange /\ t.user # t.actor
             /\ session.auth => session.user = t.actor
    BY DEF Hashed, TaskInv, ChangeInv, AdminTaskInv
  <2>9. SessionInv'
    BY <2>1, <2>3, <2>4, <2>5, <2>8 DEF IInv, SessionInv, SessionFresh
  <2>10. PICK s : s = [t EXCEPT !.phase = "done", !.ok = TRUE, !.row = t.row]
    OBVIOUS
  <2>11. /\ s \in TaskType /\ s.phase = "done" /\ s.kind = t.kind /\ s.user = t.user
         /\ s.actor = t.actor /\ s.ok /\ s.row = t.row
    BY <2>1, <2>10 DEF TaskType
  <2>12. pool' = [pool EXCEPT ![p] = s]
    BY <1>2, <2>10 DEF finishes, Hashed, IInv, PoolInv, PoolType
  <2>13. ASSUME t.kind = "ChangePassword" PROVE TaskInv(s)'
    BY <2>1, <2>3, <2>4, <2>5, <2>8, <2>11, <2>13
    DEF TaskInv, LoginInv, UnlockInv, FirstInv, ChangeInv, AdminTaskInv, Live
  <2>14. ASSUME t.kind = "ResetPassword" PROVE TaskInv(s)'
    <3>1. t.actor \in DOMAIN users
      BY <2>8, <2>14 DEF activeAdmins
    <3>2. ~users'[t.actor].mustChange /\ t.actor \in activeAdmins(users')
      BY <2>5, <2>6, <2>8, <2>14, <3>1
    <3> QED
      BY <2>1, <2>4, <2>8, <2>11, <2>14, <3>2
      DEF TaskInv, LoginInv, UnlockInv, FirstInv, ChangeInv, AdminTaskInv, Live
  <2>15. PoolInv'
    BY <2>1, <2>11, <2>12, <2>13, <2>14, NewTask DEF Hashed, IInv, PoolInv
  <2> QED
    BY <2>7, <2>9, <2>15 DEF IInv
<1>3. /\ pool[p] = t
      /\ \/ users' = [users EXCEPT ![t.user] = changed] /\ finishes(p, TRUE, t.row)
         \/ finishes(p, FALSE, blank) /\ UNCHANGED users
  BY DEF Hashed, setsPassword, commits, newPassword, updateRow
<1> QED
  BY <1>1, <1>2, <1>3

LEMMA WritesInv ==
  ASSUME IInv, NEW p \in Pool, taskWrites(p)
  PROVE  IInv'
<1>1. PICK t : t = pool[p]
  OBVIOUS
<1>2. Hashed(p, t)
  BY <1>1, HashedTask DEF taskWrites
<1>3. UNCHANGED <<session, busy>>
  BY DEF taskWrites, sessionVars
<1> QED
  BY <1>2, <1>3, VerifiesInv, InsertsInv, PasswordInv DEF taskWrites

\* The result is taken: what the task promised is what the session needs.
LEMMA FinishInv ==
  ASSUME IInv, NEW p \in Pool, finishTask(p)
  PROVE  IInv'
<1>1. PICK t : t = pool[p]
  OBVIOUS
<1>2. t # NoTask
  BY <1>1 DEF finishTask, NoTask
<1>3. t \in TaskType /\ TaskInv(t) /\ \A q \in Pool : q # p => pool[q] = NoTask
  BY <1>1, <1>2, OnlyTask DEF IInv, PoolInv
<1>4. users' = users /\ busy' = FALSE /\ pool' = [pool EXCEPT ![p] = NoTask] /\ applies(t)
  BY <1>1 DEF finishTask
<1>5. \A q \in Pool : pool'[q] = NoTask
  BY <1>3, <1>4 DEF IInv, PoolInv, PoolType
<1>6. PoolInv'
  <2>1. PoolType'
    BY <1>4, <1>5 DEF IInv, PoolInv, PoolType
  <2>2. Tasks' = {}
    BY <1>5, NoTaskType DEF Tasks
  <2> QED
    BY <2>1, <2>2 DEF PoolInv
<1>7. t.user \in Users /\ t.row.role \in UserRole /\ t.row.mustChange \in BOOLEAN
  BY <1>3 DEF TaskType, Row
<1>8. SessionInv'
  <2>1. CASE t.ok /\ t.kind \in {"Login", "CreateFirstAdmin"}
    <3>1. session' = Session(t.user, t.row, TRUE, FALSE)
      BY <1>4, <2>1 DEF applies, startSession, become
    <3>2. Matches(t)
      BY <1>3, <2>1 DEF TaskInv, LoginInv, FirstInv, Live
    <3> QED
      BY <1>4, <1>7, <3>1, <3>2 DEF Session, Matches, SessionInv, SessionType, SessionFresh
  <2>2. CASE t.ok /\ t.kind = "Unlock"
    <3>1. session' = Session(t.user, t.row, session.auth, FALSE)
      BY <1>4, <2>2 DEF applies, unlockSession, become
    <3>2. Matches(t)
      BY <1>3, <2>2 DEF TaskInv, UnlockInv, Live
    <3> QED
      BY <1>4, <1>7, <3>1, <3>2 DEF Session, Matches, IInv, SessionInv, SessionType, SessionFresh
  <2>3. CASE t.ok /\ t.kind = "ChangePassword"
    <3>1. session' = [session EXCEPT !.mustChange = FALSE]
      BY <1>4, <2>3 DEF applies, passwordChanged, become
    <3>2. session.auth => ~users[session.user].mustChange
      BY <1>3, <2>3 DEF TaskInv, ChangeInv
    <3> QED
      BY <1>4, <3>1, <3>2 DEF IInv, SessionInv, SessionType, SessionFresh
  <2>4. CASE ~t.ok \/ t.kind \in {"CreateUser", "ResetPassword"}
    <3>1. session' = session
      BY <1>4, <2>4 DEF applies, sessionVars
    <3> QED
      BY <1>4, <3>1 DEF IInv, SessionInv, SessionFresh
  <2>5. t.kind \in Kind
    BY <1>3 DEF TaskType
  <2> QED
    BY <2>1, <2>2, <2>3, <2>4, <2>5 DEF Kind
<1> QED
  BY <1>4, <1>6, <1>8 DEF IInv, TableInv

-----------------------------------------------------------------------------
(* Edits, time and restarts. *)

\* An edit of role and activity by an administrator, who does not demote or
\* disable itself, nor the last administrator.
LEMMA EditInv ==
  ASSUME IInv, can(session, "ManageUsers"), NEW u \in DOMAIN users,
         NEW role \in UserRole, NEW active \in BOOLEAN, NEW row \in Row,
         row.role = role, row.active = active, row.wait = users[u].wait,
         row.mustChange = users[u].mustChange,
         u = session.user => active /\ role = users[u].role,
         (active /\ role = "admin") \/ ~lastAdmin(u),
         users' = updateRow(u, row), UNCHANGED <<session, busy, pool>>
  PROVE  IInv'
<1>1. /\ session.auth /\ ~session.locked /\ session.user \in DOMAIN users
      /\ session.user \in activeAdmins(users)
  BY CanManage DEF IInv
<1>2. DOMAIN users' = DOMAIN users /\ users' \in [DOMAIN users -> Row]
  BY DEF updateRow, IInv, TableInv
<1>3. users'[u] = row /\ \A v \in DOMAIN users : v # u => users'[v] = users[v]
  BY DEF updateRow, IInv, TableInv
<1>4. activeAdmins(users') # {}
  <2>1. CASE active /\ role = "admin"
    BY <1>2, <1>3, <2>1 DEF activeAdmins
  <2>2. CASE ~lastAdmin(u)
    <3>1. PICK v \in activeAdmins(users) : v # u
      BY <1>1, <2>2, AnotherAdmin
    <3> QED
      BY <1>2, <1>3, <3>1 DEF activeAdmins
  <2> QED
    BY <2>1, <2>2
<1>5. TableInv'
  BY <1>2, <1>4 DEF IInv, TableInv
<1>6. SessionInv'
  BY <1>1, <1>2, <1>3 DEF IInv, SessionInv, SessionFresh
<1>7. ASSUME NEW t \in Tasks PROVE TaskInv(t)'
  <2>1. TaskInv(t)
    BY <1>7 DEF IInv, PoolInv
  <2>2. LoginInv(t)' /\ UnlockInv(t)'
    BY <1>1, <2>1 DEF TaskInv, LoginInv, UnlockInv
  <2>3. FirstInv(t)'
    BY <1>1, <2>1 DEF TaskInv, FirstInv
  <2>4. ChangeInv(t)'
    BY <1>2, <1>3, <2>1 DEF TaskInv, ChangeInv, Live
  <2>5. AdminTaskInv(t)'
    <3> SUFFICES ASSUME t.kind \in {"CreateUser", "ResetPassword"} PROVE AdminTaskInv(t)'
      BY DEF AdminTaskInv
    <3>1. t.actor \in activeAdmins(users) /\ ~users[t.actor].mustChange /\ t.actor = session.user
      BY <1>1, <2>1 DEF TaskInv, AdminTaskInv
    <3>2. t.actor \in activeAdmins(users') /\ ~users'[t.actor].mustChange
      BY <1>2, <1>3, <3>1 DEF activeAdmins
    <3> QED
      BY <1>2, <2>1, <3>2 DEF TaskInv, AdminTaskInv, Live
  <2> QED
    BY <2>2, <2>3, <2>4, <2>5 DEF TaskInv
<1>8. PoolInv'
  BY <1>7 DEF IInv, PoolInv, PoolType, Tasks
<1> QED
  BY <1>5, <1>6, <1>8 DEF IInv

LEMMA SetActiveInv ==
  ASSUME IInv, NEW u \in Users, NEW active \in BOOLEAN, setUserActive(u, active)
  PROVE  IInv'
<1> DEFINE row == [users[u] EXCEPT !.active = active]
<1>1. u \in DOMAIN users /\ can(session, "ManageUsers") /\ users[u] \in Row
  BY DEF setUserActive, IInv, TableInv
<1>2. /\ row \in Row /\ row.role = users[u].role /\ row.active = active
      /\ row.wait = users[u].wait /\ row.mustChange = users[u].mustChange
      /\ users[u].role \in UserRole
  BY <1>1 DEF Row
<1>3. users' = updateRow(u, row) /\ UNCHANGED <<session, busy, pool>>
  BY DEF setUserActive, edits, commits, sessionVars
<1>4. (active /\ users[u].role = "admin") \/ ~lastAdmin(u)
  BY DEF setUserActive, lastAdmin, activeAdmins
<1>5. u = session.user => active
  BY DEF setUserActive
<1> HIDE DEF row
<1> QED
  BY <1>1, <1>2, <1>3, <1>4, <1>5, EditInv

LEMMA SetRoleInv ==
  ASSUME IInv, NEW u \in Users, NEW role \in UserRole, setUserRole(u, role)
  PROVE  IInv'
<1> DEFINE row == [users[u] EXCEPT !.role = role]
<1>1. u \in DOMAIN users /\ can(session, "ManageUsers") /\ users[u] \in Row
  BY DEF setUserRole, IInv, TableInv
<1>2. /\ row \in Row /\ row.role = role /\ row.active = users[u].active
      /\ row.wait = users[u].wait /\ row.mustChange = users[u].mustChange
      /\ users[u].active \in BOOLEAN
  BY <1>1 DEF Row
<1>3. users' = updateRow(u, row) /\ UNCHANGED <<session, busy, pool>>
  BY DEF setUserRole, edits, commits, sessionVars
<1>4. (users[u].active /\ role = "admin") \/ ~lastAdmin(u)
  BY DEF setUserRole, lastAdmin, activeAdmins
<1>5. u # session.user
  BY DEF setUserRole
<1> HIDE DEF row
<1> QED
  BY <1>1, <1>2, <1>3, <1>4, <1>5, EditInv

LEMMA UpdateUserInv ==
  ASSUME IInv, NEW u \in Users, NEW role \in UserRole, NEW active \in BOOLEAN,
         updateUser(u, role, active)
  PROVE  IInv'
<1> DEFINE row == [users[u] EXCEPT !.role = role, !.active = active]
<1>1. u \in DOMAIN users /\ can(session, "ManageUsers") /\ users[u] \in Row
  BY DEF updateUser, IInv, TableInv
<1>2. /\ row \in Row /\ row.role = role /\ row.active = active
      /\ row.wait = users[u].wait /\ row.mustChange = users[u].mustChange
  BY <1>1 DEF Row
<1>3. users' = updateRow(u, row) /\ UNCHANGED <<session, busy, pool>>
  BY DEF updateUser, edits, commits, sessionVars
<1>4. /\ (active /\ role = "admin") \/ ~lastAdmin(u)
      /\ u = session.user => active /\ role = users[u].role
  BY DEF updateUser
<1> HIDE DEF row
<1> QED
  BY <1>1, <1>2, <1>3, <1>4, EditInv

\* Accounts are removed only between tasks.
LEMMA DeleteInv ==
  ASSUME IInv, NEW u \in Users, deleteUser(u)
  PROVE  IInv'
<1>1. /\ users' = [v \in DOMAIN users \ {u} |-> users[v]] /\ UNCHANGED <<session, busy, pool>>
      /\ can(session, "ManageUsers") /\ ~busy /\ u # session.user /\ ~lastAdmin(u)
  BY DEF deleteUser, commits, sessionVars
<1>2. session.user \in activeAdmins(users)
  BY <1>1, CanManage DEF IInv
<1>3. DOMAIN users' = DOMAIN users \ {u} /\ \A v \in DOMAIN users' : users'[v] = users[v]
  BY <1>1
<1>4. session.user \in activeAdmins(users')
  BY <1>1, <1>2, <1>3 DEF activeAdmins
<1>5. TableInv'
  BY <1>1, <1>4 DEF IInv, TableInv
<1>6. SessionInv'
  BY <1>1, <1>3 DEF IInv, SessionInv, SessionFresh
<1>7. \A p \in Pool : pool'[p] = NoTask
  BY <1>1 DEF IInv, PoolInv, PoolType
<1>8. Tasks' = {}
  BY <1>7, NoTaskType DEF Tasks
<1>9. PoolInv'
  BY <1>1, <1>7, <1>8 DEF IInv, PoolInv, PoolType
<1> QED
  BY <1>5, <1>6, <1>9 DEF IInv

LEMMA ExpiresInv ==
  ASSUME IInv, NEW u \in Users, lockoutExpires(u)
  PROVE  IInv'
<1> DEFINE row == [users[u] EXCEPT !.wait = 0]
<1>1. u \in DOMAIN users /\ users[u] \in Row /\ UNCHANGED <<session, busy, pool>>
  BY DEF lockoutExpires, sessionVars, IInv, TableInv
<1>2. /\ row \in Row /\ row.role = users[u].role /\ row.active = users[u].active
      /\ row.wait = 0 /\ row.mustChange = users[u].mustChange
  BY <1>1 DEF Row, Wait
<1>3. users' = [users EXCEPT ![u] = row]
  BY <1>1 DEF lockoutExpires, IInv, TableInv
<1> HIDE DEF row
<1>4. /\ DOMAIN users' = DOMAIN users /\ users' \in [DOMAIN users -> Row]
      /\ \A v \in DOMAIN users :
           /\ users'[v].role = users[v].role /\ users'[v].active = users[v].active
           /\ users'[v].mustChange = users[v].mustChange
           /\ users[v].wait = 0 => users'[v].wait = 0
  BY <1>1, <1>2, <1>3 DEF IInv, TableInv
<1>5. activeAdmins(users') = activeAdmins(users)
  BY <1>4, SameAdmins
<1>6. TableInv'
  BY <1>4, <1>5 DEF IInv, TableInv
<1>7. SessionInv'
  BY <1>1, <1>4 DEF IInv, SessionInv, SessionFresh
<1>8. ASSUME NEW t \in Tasks PROVE TaskInv(t)'
  <2>1. TaskInv(t)
    BY <1>8 DEF IInv, PoolInv
  <2>2. Matches(t) => Matches(t)'
    BY <1>4 DEF Matches
  <2>3. LoginInv(t)' /\ UnlockInv(t)' /\ FirstInv(t)'
    BY <1>1, <1>4, <2>1, <2>2 DEF TaskInv, LoginInv, UnlockInv, FirstInv, Live
  <2>4. ChangeInv(t)'
    BY <1>1, <1>4, <2>1 DEF TaskInv, ChangeInv, Live
  <2>5. t.actor \in activeAdmins(users) => t.actor \in DOMAIN users
    BY DEF activeAdmins
  <2>6. AdminTaskInv(t)'
    BY <1>1, <1>4, <1>5, <2>1, <2>5 DEF TaskInv, AdminTaskInv, Live
  <2> QED
    BY <2>3, <2>4, <2>6 DEF TaskInv
<1>9. PoolInv'
  BY <1>1, <1>8 DEF IInv, PoolInv, PoolType, Tasks
<1> QED
  BY <1>6, <1>7, <1>9 DEF IInv

LEMMA RestartInv ==
  ASSUME IInv, restart
  PROVE  IInv'
<1>1. users' = users /\ session' = NoSession /\ busy' = FALSE /\ pool' = [p \in Pool |-> NoTask]
  BY DEF restart
<1>2. SessionInv'
  BY <1>1 DEF NoSession, SessionInv, SessionType, SessionFresh, UserRole
<1>3. Tasks' = {}
  BY <1>1, NoTaskType DEF Tasks
<1>4. PoolInv'
  BY <1>1, <1>3 DEF PoolInv, PoolType
<1> QED
  BY <1>1, <1>2, <1>4 DEF IInv, TableInv

-----------------------------------------------------------------------------
(* Every step keeps the invariant. *)

LEMMA TaskStepInv ==
  ASSUME IInv, TaskStep
  PROVE  IInv'
BY ReadsInv, WritesInv, FinishInv DEF TaskStep

SessionStep == lock \/ onIdleTimeout \/ logout \/ cancelAuthentication \/ \E target \in Target : request(target)

StartStep ==
  \/ unlock \/ changePassword
  \/ \E u \in Users : login(u) \/ createFirstAdmin(u) \/ resetPassword(u)
  \/ \E u \in Users, role \in UserRole : createUser(u, role)

EditStep ==
  \/ \E u \in Users : deleteUser(u)
  \/ \E u \in Users, role \in UserRole : setUserRole(u, role)
  \/ \E u \in Users, active \in BOOLEAN : setUserActive(u, active)
  \/ \E u \in Users, role \in UserRole, active \in BOOLEAN : updateUser(u, role, active)

LEMMA NextCases ==
  Next => SessionStep \/ StartStep \/ EditStep \/ TaskStep \/ restart \/ \E u \in Users : lockoutExpires(u)
BY DEF Next, SessionStep, StartStep, EditStep

LEMMA SessionStepInv ==
  ASSUME IInv, SessionStep
  PROVE  IInv'
<1>1. CASE lock \/ onIdleTimeout
  BY <1>1, LockInv DEF onIdleTimeout
<1>2. CASE logout
  BY <1>2, LogoutInv DEF logout, endSession, become
<1>3. CASE cancelAuthentication \/ \E target \in Target : request(target)
  BY <1>3, SameInv DEF cancelAuthentication, request
<1> QED
  BY <1>1, <1>2, <1>3 DEF SessionStep

LEMMA StepInv == IInv /\ [Next]_vars => IInv'
<1> SUFFICES ASSUME IInv, [Next]_vars PROVE IInv'
  OBVIOUS
<1>1. CASE StartStep
  BY <1>1, LoginStarts, UnlockStarts, FirstStarts, ChangeStarts, CreateStarts, ResetStarts DEF StartStep
<1>2. CASE EditStep
  BY <1>2, SetActiveInv, SetRoleInv, UpdateUserInv, DeleteInv DEF EditStep
<1>3. CASE UNCHANGED vars
  BY <1>3, SameInv DEF vars, sessionVars
<1> QED
  BY <1>1, <1>2, <1>3, NextCases, SessionStepInv, TaskStepInv, RestartInv, ExpiresInv

-----------------------------------------------------------------------------
(* The tabs. *)

LEMMA MonitorAllowed == \A s : isAllowed(s, "Monitor")
BY DEF isAllowed

\* Announcing a session settles the tab and the request that waits for it.
LEMMA BecomeTabs ==
  ASSUME NEW s, become(s), tab \in Tabs, pending \in Target \cup {"none"}
  PROVE  /\ session' = s /\ tab' \in Tabs /\ pending' \in Target \cup {"none"}
         /\ isAllowed(session', tab')
         /\ pending' # "none" => ~isAllowed(session', pending')
<1> DEFINE shown == IF isAllowed(s, tab) THEN tab ELSE "Monitor"
<1>1. session' = s
  BY DEF become
<1>2. shown \in Tabs /\ isAllowed(s, shown)
  BY MonitorAllowed DEF Tabs, Target
<1>3. CASE pending # "none" /\ isAllowed(s, pending)
  <2>1. pending' = "none" /\ tab' = IF pending = "Calibration" THEN shown ELSE pending
    BY <1>3 DEF become, onSessionChanged, completeRequest
  <2> HIDE DEF shown
  <2> QED
    BY <1>1, <1>2, <1>3, <2>1 DEF Tabs
<1>4. CASE ~(pending # "none" /\ isAllowed(s, pending))
  <2>1. tab' = shown /\ pending' = pending
    BY <1>4 DEF become, onSessionChanged
  <2> HIDE DEF shown
  <2> QED
    BY <1>1, <1>2, <1>4, <2>1
<1> QED
  BY <1>3, <1>4

\* Who becomes whom, and what the idle timer does.
BecomeStep ==
  \E s : become(s) /\ idleTimer' \in BOOLEAN /\ (s.auth /\ ~s.locked => idleTimer')

LEMMA BecomeInv ==
  ASSUME TabsInv, BecomeStep
  PROVE  TabsInv'
<1>1. PICK s : become(s) /\ idleTimer' \in BOOLEAN /\ (s.auth /\ ~s.locked => idleTimer')
  BY DEF BecomeStep
<1>2. tab \in Tabs /\ pending \in Target \cup {"none"}
  BY DEF TabsInv
<1> QED
  BY <1>1, <1>2, BecomeTabs DEF TabsInv, TabsFollowSession

LEMMA SameTabs ==
  ASSUME TabsInv, UNCHANGED sessionVars
  PROVE  TabsInv'
BY DEF TabsInv, TabsFollowSession, sessionVars, isAllowed, can

LEMMA RequestTabs ==
  ASSUME TabsInv, NEW target \in Target, request(target)
  PROVE  TabsInv'
<1>1. UNCHANGED <<session, idleTimer>>
  BY DEF request
<1>2. CASE isAllowed(session, target)
  <2>1. pending' = "none" /\ tab' = IF target = "Calibration" THEN tab ELSE target
    BY <1>2 DEF request, completeRequest
  <2> QED
    BY <1>1, <1>2, <2>1 DEF TabsInv, TabsFollowSession, Tabs
<1>3. CASE ~isAllowed(session, target)
  <2>1. pending' = target /\ tab' = tab
    BY <1>3 DEF request
  <2> QED
    BY <1>1, <1>3, <2>1 DEF TabsInv, TabsFollowSession
<1> QED
  BY <1>2, <1>3

LEMMA BecomeFields == \A s : become(s) => session' = s
BY DEF become

\* A session ends up under the idle timer, or needs none.
LEMMA FinishTabs ==
  ASSUME IInv, TabsInv, NEW t \in TaskType, applies(t)
  PROVE  TabsInv'
<1>1. CASE t.ok /\ t.kind \in {"Login", "CreateFirstAdmin"}
  <2>1. startSession(t.user, t.row)
    BY <1>1 DEF applies
  <2> QED
    BY <2>1, BecomeInv DEF startSession, BecomeStep
<1>2. CASE t.ok /\ t.kind = "Unlock"
  <2>1. PICK s : s = Session(t.user, t.row, session.auth, FALSE)
    OBVIOUS
  <2>2. s.auth = session.auth /\ session.auth \in BOOLEAN /\ idleTimer \in BOOLEAN
    BY <2>1 DEF Session, IInv, SessionInv, SessionType, TabsInv
  <2>3. become(s) /\ idleTimer' = (session.auth \/ idleTimer)
    BY <1>2, <2>1 DEF applies, unlockSession
  <2>4. idleTimer' \in BOOLEAN /\ (s.auth /\ ~s.locked => idleTimer')
    BY <2>2, <2>3
  <2>5. BecomeStep
    BY <2>3, <2>4 DEF BecomeStep
  <2> QED
    BY <2>5, BecomeInv
<1>3. CASE t.ok /\ t.kind = "ChangePassword"
  <2>1. PICK s : s = [session EXCEPT !.mustChange = FALSE]
    OBVIOUS
  <2>2. s.auth = session.auth /\ s.locked = session.locked
    BY <2>1 DEF IInv, SessionInv, SessionType
  <2>3. become(s) /\ idleTimer' = idleTimer
    BY <1>3, <2>1 DEF applies, passwordChanged
  <2>4. idleTimer' \in BOOLEAN /\ (s.auth /\ ~s.locked => idleTimer')
    BY <2>2, <2>3 DEF TabsInv, TabsFollowSession
  <2>5. BecomeStep
    BY <2>3, <2>4 DEF BecomeStep
  <2> QED
    BY <2>5, BecomeInv
<1>4. CASE ~t.ok \/ t.kind \in {"CreateUser", "ResetPassword"}
  BY <1>4, SameTabs DEF applies
<1>5. t.kind \in Kind
  BY DEF TaskType
<1> QED
  BY <1>1, <1>2, <1>3, <1>4, <1>5 DEF Kind

LEMMA TaskTabs ==
  ASSUME IInv, TabsInv, TaskStep
  PROVE  TabsInv'
<1>1. ASSUME NEW p \in Pool, finishTask(p) PROVE TabsInv'
  <2>1. PICK t : t = pool[p]
    OBVIOUS
  <2>2. t # NoTask
    BY <1>1, <2>1 DEF finishTask, NoTask
  <2>3. t \in TaskType /\ applies(t)
    BY <1>1, <2>1, <2>2, OnlyTask DEF finishTask, IInv, PoolInv
  <2> QED
    BY <2>3, FinishTabs
<1>2. ASSUME NEW p \in Pool, taskReads(p) \/ taskWrites(p) PROVE TabsInv'
  BY <1>2, SameTabs DEF taskReads, taskWrites
<1> QED
  BY <1>1, <1>2 DEF TaskStep

LEMMA SessionStepTabs ==
  ASSUME IInv, TabsInv, SessionStep
  PROVE  TabsInv'
<1>1. ASSUME lock PROVE TabsInv'
  <2>1. PICK s : s = [session EXCEPT !.locked = TRUE]
    OBVIOUS
  <2>2. s.locked
    BY <2>1 DEF IInv, SessionInv, SessionType
  <2>3. become(s) /\ idleTimer' = FALSE
    BY <1>1, <2>1 DEF lock, lockSession
  <2> QED
    BY <2>2, <2>3, BecomeInv DEF BecomeStep
<1>2. ASSUME logout PROVE TabsInv'
  <2>1. ~NoSession.auth /\ become(NoSession) /\ idleTimer' = FALSE
    BY <1>2 DEF logout, endSession, NoSession
  <2> QED
    BY <2>1, BecomeInv DEF BecomeStep
<1>3. ASSUME cancelAuthentication PROVE TabsInv'
  <2>1. pending' = "none" /\ UNCHANGED <<session, idleTimer, tab>>
    BY <1>3 DEF cancelAuthentication
  <2> QED
    BY <2>1 DEF TabsInv, TabsFollowSession
<1> QED
  BY <1>1, <1>2, <1>3, RequestTabs DEF SessionStep, onIdleTimeout

LEMMA StepTabs == IInv /\ TabsInv /\ [Next]_vars => TabsInv'
<1> SUFFICES ASSUME IInv, TabsInv, [Next]_vars PROVE TabsInv'
  OBVIOUS
<1>1. ASSUME StartStep PROVE TabsInv'
  <2>1. UNCHANGED sessionVars
    BY <1>1 DEF StartStep, unlock, changePassword, login, createFirstAdmin, resetPassword, createUser, runTask
  <2> QED
    BY <2>1, SameTabs
<1>2. ASSUME EditStep PROVE TabsInv'
  <2>1. UNCHANGED sessionVars
    BY <1>2 DEF EditStep, deleteUser, setUserRole, setUserActive, updateUser, edits
  <2> QED
    BY <2>1, SameTabs
<1>3. ASSUME NEW u \in Users, lockoutExpires(u) PROVE TabsInv'
  BY <1>3, SameTabs DEF lockoutExpires
<1>4. ASSUME restart PROVE TabsInv'
  <2>1. session' = NoSession /\ ~NoSession.auth /\ tab' = "Monitor" /\ pending' = "none" /\ idleTimer' = FALSE
    BY <1>4 DEF restart, NoSession
  <2> QED
    BY <2>1, MonitorAllowed DEF TabsInv, TabsFollowSession, Tabs, Target
<1>5. ASSUME UNCHANGED vars PROVE TabsInv'
  BY <1>5, SameTabs DEF vars, sessionVars
<1> QED
  <2>1. ASSUME Next PROVE TabsInv'
    BY <1>1, <1>2, <1>3, <1>4, <2>1, NextCases, TaskTabs, SessionStepTabs
  <2> QED
    BY <1>5, <2>1

-----------------------------------------------------------------------------
(* Changes and their entries. *)

\* Whoever may manage accounts has the right to every change.
LEMMA ManagerRightful ==
  ASSUME SessionInv, can(session, "ManageUsers"), NEW e, e.actor = session.user
  PROVE  Rightful(e)
BY CanManage DEF Rightful

\* The table changes only where an entry says so.
AuditedStep ==
  \A u \in Users : Rights(users', u) # Rights(users, u) =>
    /\ audit'.entity = u /\ Rightful(audit')
    /\ (u \in DOMAIN users') # (u \in DOMAIN users) => audit'.action \in {"create", "delete"}

\* A change of one account that exists and goes on to exist.
LEMMA OneAudited ==
  ASSUME NEW u, NEW row, users' = updateRow(u, row), TableInv,
         audit'.entity = u, Rightful(audit')
  PROVE  AuditedStep
<1>1. DOMAIN users' = DOMAIN users
  BY DEF updateRow, TableInv
<1>2. \A v \in DOMAIN users : v # u => users'[v] = users[v]
  BY DEF updateRow, TableInv
<1> QED
  BY <1>1, <1>2 DEF AuditedStep, Rights

LEMMA SameAudited ==
  ASSUME DOMAIN users' = DOMAIN users,
         \A v \in DOMAIN users :
           /\ users'[v].role = users[v].role /\ users'[v].active = users[v].active
           /\ users'[v].mustChange = users[v].mustChange
  PROVE  AuditedStep
BY DEF AuditedStep, Rights

LEMMA EditAudited ==
  ASSUME IInv, NEW action, NEW u, NEW row, can(session, "ManageUsers"), edits(action, u, row)
  PROVE  AuditedStep
<1>1. PICK e : e = Entry(action, u, session.user)
  OBVIOUS
<1>2. users' = updateRow(u, row) /\ audit' = e /\ e.entity = u /\ e.actor = session.user
  BY <1>1 DEF edits, commits, Entry
<1>3. Rightful(e)
  BY <1>2, ManagerRightful DEF IInv
<1> QED
  BY <1>2, <1>3, OneAudited DEF IInv

LEMMA EditStepAudited ==
  ASSUME IInv, EditStep
  PROVE  AuditedStep
<1>1. ASSUME NEW u \in Users, deleteUser(u) PROVE AuditedStep
  <2>1. PICK e : e = Entry("delete", u, session.user)
    OBVIOUS
  <2>2. /\ users' = [v \in DOMAIN users \ {u} |-> users[v]] /\ audit' = e
        /\ e.entity = u /\ e.actor = session.user /\ e.action = "delete"
        /\ can(session, "ManageUsers")
    BY <1>1, <2>1 DEF deleteUser, commits, Entry
  <2>3. Rightful(e)
    BY <2>2, ManagerRightful DEF IInv
  <2> QED
    BY <2>2, <2>3 DEF AuditedStep, Rights
<1>2. ASSUME NEW u \in Users, NEW role \in UserRole, setUserRole(u, role) PROVE AuditedStep
  BY <1>2, EditAudited DEF setUserRole
<1>3. ASSUME NEW u \in Users, NEW active \in BOOLEAN, setUserActive(u, active) PROVE AuditedStep
  BY <1>3, EditAudited DEF setUserActive
<1>4. ASSUME NEW u \in Users, NEW role \in UserRole, NEW active \in BOOLEAN, updateUser(u, role, active)
      PROVE  AuditedStep
  BY <1>4, EditAudited DEF updateUser
<1> QED
  BY <1>1, <1>2, <1>3, <1>4 DEF EditStep

\* What was right when it was asked for is right when it is written.
LEMMA WritesAudited ==
  ASSUME IInv, NEW p \in Pool, taskWrites(p)
  PROVE  AuditedStep
<1>1. PICK t : t = pool[p]
  OBVIOUS
<1>2. Hashed(p, t)
  BY <1>1, HashedTask DEF taskWrites
<1>3. TableInv /\ t \in TaskType /\ TaskInv(t) /\ t.phase = "hashed"
  BY <1>2 DEF Hashed, IInv
<1>4. ASSUME verifies(p) PROVE AuditedStep
  <2>1. t.kind \in {"Login", "Unlock"} /\ t.row \in Row /\ t.user \in DOMAIN users
    BY <1>1, <1>3, <1>4 DEF verifies, TaskInv, LoginInv, UnlockInv, Live, Matches, TaskType
  <2>2. PICK left \in Row : loginState(t.user, left)
    BY <1>1, <1>4, <2>1, ClearedRow, FailedRow DEF verifies
  <2> QED
    BY <1>3, <2>1, <2>2, LoginStateKeeps, SameAudited
<1>5. ASSUME inserts(p) PROVE AuditedStep
  <2>1. CASE UNCHANGED users
    BY <2>1, SameAudited
  <2>2. CASE ~UNCHANGED users
    <3>1. PICK e : e = Entry("create", t.user, t.actor)
      OBVIOUS
    <3>2. /\ users' = [u \in DOMAIN users \cup {t.user} |-> IF u = t.user THEN t.row ELSE users[u]]
          /\ audit' = e /\ creates(t)
          /\ e.entity = t.user /\ e.actor = t.actor /\ e.action = "create"
      BY <1>1, <1>5, <2>2, <3>1 DEF inserts, commits, Entry
    <3>3. Rightful(e)
      <4>1. CASE t.kind = "CreateUser"
        BY <1>3, <3>2, <4>1 DEF Rightful, TaskInv, AdminTaskInv
      <4>2. CASE t.kind = "CreateFirstAdmin"
        <5>1. DOMAIN users = {} /\ t.actor = t.user
          BY <1>3, <4>2 DEF TaskInv, FirstInv
        <5>2. users = <<>>
          BY <1>3, <5>1, SMTT(10) DEF TableInv
        <5> QED
          BY <3>2, <5>1, <5>2 DEF Rightful
      <4> QED
        BY <3>2, <4>1, <4>2 DEF creates
    <3> QED
      BY <3>2, <3>3 DEF AuditedStep, Rights
  <2> QED
    BY <2>1, <2>2
<1>6. ASSUME setsPassword(p) PROVE AuditedStep
  <2>1. CASE UNCHANGED users
    BY <2>1, SameAudited
  <2>2. CASE ~UNCHANGED users
    <3> DEFINE byUser == t.kind = "ChangePassword"
               row == [cleared(users[t.user]) EXCEPT !.mustChange = ~byUser]
    <3>1. PICK e : e = Entry(IF byUser THEN "change" ELSE "reset", t.user, t.actor)
      OBVIOUS
    <3>2. /\ users' = updateRow(t.user, row) /\ audit' = e
          /\ t.kind \in {"ChangePassword", "ResetPassword"}
          /\ e.entity = t.user /\ e.actor = t.actor /\ (byUser => e.action = "change")
      BY <1>1, <1>6, <2>2, <3>1 DEF setsPassword, newPassword, commits, Entry
    <3>3. Rightful(e)
      BY <1>3, <3>2 DEF Rightful, TaskInv, ChangeInv, AdminTaskInv
    <3> HIDE DEF row
    <3> QED
      BY <1>3, <3>2, <3>3, OneAudited
  <2> QED
    BY <2>1, <2>2
<1> QED
  BY <1>4, <1>5, <1>6 DEF taskWrites

LEMMA StepAudited == IInv /\ [Next]_vars => AuditedStep
<1> SUFFICES ASSUME IInv, [Next]_vars PROVE AuditedStep
  OBVIOUS
<1>1. ASSUME users' = users PROVE AuditedStep
  BY <1>1, SameAudited
<1>2. ASSUME SessionStep PROVE users' = users
  BY <1>2 DEF SessionStep, lock, onIdleTimeout, logout, cancelAuthentication, request
<1>3. ASSUME StartStep PROVE users' = users
  BY <1>3 DEF StartStep, unlock, changePassword, login, createFirstAdmin, resetPassword, createUser, runTask
<1>4. ASSUME restart \/ UNCHANGED vars PROVE users' = users
  BY <1>4 DEF restart, vars
<1>5. ASSUME TaskStep PROVE AuditedStep
  <2>1. ASSUME NEW p \in Pool, taskReads(p) \/ finishTask(p) PROVE users' = users
    BY <2>1 DEF taskReads, finishTask
  <2> QED
    BY <1>1, <1>5, <2>1, WritesAudited DEF TaskStep
<1>6. ASSUME NEW u \in Users, lockoutExpires(u) PROVE AuditedStep
  <2>1. /\ DOMAIN users' = DOMAIN users
        /\ \A v \in DOMAIN users :
             /\ users'[v].role = users[v].role /\ users'[v].active = users[v].active
             /\ users'[v].mustChange = users[v].mustChange
    BY <1>6 DEF lockoutExpires, IInv, TableInv, Row
  <2> QED
    BY <2>1, SameAudited
<1>7. ASSUME Next PROVE AuditedStep
  BY <1>1, <1>2, <1>3, <1>4, <1>5, <1>6, <1>7, NextCases, EditStepAudited
<1> QED
  BY <1>1, <1>4, <1>7
-----------------------------------------------------------------------------
(* The number of accounts. *)

FiniteNames == IsFiniteSet(Users)
CountInv == userCount \in 0..Cardinality(Users)

LEMMA CountInRange ==
  ASSUME FiniteNames, NEW table, DOMAIN table \subseteq Users
  PROVE  Cardinality(DOMAIN table) \in 0..Cardinality(Users)
<1>1. IsFiniteSet(DOMAIN table) /\ Cardinality(DOMAIN table) <= Cardinality(Users)
  BY FS_Subset DEF FiniteNames
<1>2. Cardinality(DOMAIN table) \in Nat /\ Cardinality(Users) \in Nat
  BY <1>1, FS_CardinalityType DEF FiniteNames
<1> QED
  BY <1>1, <1>2

LEMMA StepCount == FiniteNames /\ IInv /\ CountInv /\ [Next]_vars => CountInv'
<1> SUFFICES ASSUME FiniteNames, IInv, CountInv, [Next]_vars PROVE CountInv'
  OBVIOUS
<1>1. ASSUME UNCHANGED userCount PROVE CountInv'
  BY <1>1 DEF CountInv
<1>2. ASSUME SessionStep \/ StartStep PROVE UNCHANGED userCount
  BY <1>2 DEF SessionStep, lock, onIdleTimeout, logout, cancelAuthentication, request,
     StartStep, unlock, changePassword, login, createFirstAdmin, resetPassword, createUser, runTask
<1>3. ASSUME NEW u \in Users, lockoutExpires(u) PROVE UNCHANGED userCount
  BY <1>3 DEF lockoutExpires
<1>4. DOMAIN users \subseteq Users
  BY DEF IInv, TableInv
<1>5. ASSUME updateUserCount(users) PROVE CountInv'
  BY <1>4, <1>5, CountInRange DEF CountInv, updateUserCount
<1>6. ASSUME TaskStep PROVE CountInv'
  <2>1. ASSUME NEW p \in Pool, finishTask(p) PROVE CountInv'
    BY <1>1, <1>5, <2>1 DEF finishTask, applies
  <2>2. ASSUME NEW p \in Pool, taskReads(p) \/ taskWrites(p) PROVE UNCHANGED userCount
    BY <2>2 DEF taskReads, taskWrites
  <2> QED
    BY <1>1, <1>6, <2>1, <2>2 DEF TaskStep
<1>7. ASSUME EditStep PROVE CountInv'
  <2>1. ASSUME NEW u \in Users, deleteUser(u) PROVE CountInv'
    <3>1. PICK rest : rest = [v \in DOMAIN users \ {u} |-> users[v]]
      OBVIOUS
    <3>2. updateUserCount(rest)
      BY <2>1, <3>1 DEF deleteUser
    <3>3. DOMAIN rest \subseteq Users
      BY <1>4, <3>1
    <3> QED
      BY <3>2, <3>3, CountInRange DEF CountInv, updateUserCount
  <2>2. ASSUME NEW u \in Users, NEW role \in UserRole, setUserRole(u, role) PROVE UNCHANGED userCount
    BY <2>2 DEF setUserRole, edits
  <2>3. ASSUME NEW u \in Users, NEW active \in BOOLEAN, setUserActive(u, active) PROVE UNCHANGED userCount
    BY <2>3 DEF setUserActive, edits
  <2>4. ASSUME NEW u \in Users, NEW role \in UserRole, NEW active \in BOOLEAN, updateUser(u, role, active)
        PROVE  UNCHANGED userCount
    BY <2>4 DEF updateUser, edits
  <2> QED
    BY <1>1, <1>7, <2>1, <2>2, <2>3, <2>4 DEF EditStep
<1>8. ASSUME Next PROVE CountInv'
  <2>1. CASE restart
    BY <1>5, <2>1 DEF restart
  <2> QED
    BY <1>1, <1>2, <1>3, <1>6, <1>7, <1>8, <2>1, NextCases
<1>9. ASSUME UNCHANGED vars PROVE UNCHANGED userCount
  BY <1>9 DEF vars
<1> QED
  BY <1>1, <1>8, <1>9

-----------------------------------------------------------------------------
(* The theorems. *)

\* The table, the session's copy of the account and the task in progress fit
\* together in every state: the invariant that the others follow from.
THEOREM AccountsInvariant == Spec => []IInv
BY InitInv, StepInv, PTL DEF Spec

\* Type correctness: with any finite set of names the rows, the session and the
\* tasks have their fields, a lockout is never longer than 15 minutes
\* (lockSecondsFor), and the number of accounts fits the names.
THEOREM AccountsTypeCorrect == FiniteNames /\ Spec => []TypeOK
<1> DEFINE All == FiniteNames /\ IInv /\ TabsInv /\ CountInv
<1>1. FiniteNames /\ Init => All
  <2> SUFFICES ASSUME FiniteNames, Init PROVE CountInv
    BY InitInv
  <2>1. Cardinality(Users) \in Nat
    BY FS_CardinalityType DEF FiniteNames
  <2> QED
    BY <2>1 DEF Init, CountInv
<1>2. All /\ [Next]_vars => All'
  BY StepInv, StepTabs, StepCount DEF FiniteNames
<1>3. All => TypeOK
  <2> SUFFICES ASSUME All PROVE TypeOK
    OBVIOUS
  <2>1. \A u \in DOMAIN users :
          /\ users[u].role \in UserRole /\ users[u].active \in BOOLEAN /\ users[u].mustChange \in BOOLEAN
          /\ users[u].fails \in 0..FailureBound /\ users[u].wait \in 0..900
    BY DEF IInv, TableInv, Row, Wait
  <2>2. \A p \in Pool : pool[p].phase \in {"none", "started", "hashed", "done"}
    BY DEF IInv, PoolInv, PoolType, TaskType, NoTask
  <2>3. /\ session.user \in Users \cup {Nobody} /\ session.role \in UserRole
        /\ session.mustChange \in BOOLEAN /\ session.auth \in BOOLEAN /\ session.locked \in BOOLEAN
    BY DEF IInv, SessionInv, SessionType
  <2> QED
    BY <2>1, <2>2, <2>3 DEF TypeOK, IInv, TableInv, PoolInv, PoolType, TabsInv, Tabs, CountInv
<1> HIDE DEF All
<1> QED
  BY <1>1, <1>2, <1>3, PTL DEF Spec

\* However many accounts there are and whoever edits them, in whatever order, an
\* active administrator is left (lastAdmin in AuthService and UserAccountDao).
THEOREM AdminAlwaysRemains == Spec => []AdminRemains
<1>1. IInv => AdminRemains
  <2> SUFFICES ASSUME IInv, DOMAIN users = {} PROVE users = <<>>
    BY DEF IInv, TableInv, AdminRemains
  <2> QED
    BY DEF IInv, TableInv
<1> QED
  BY <1>1, AccountsInvariant, PTL

\* A session never has more than its account: results of the pool, sign-outs,
\* locks and edits may come in any order (AuthService::m_currentUser).
THEOREM SessionAlwaysFresh == Spec => []SessionFresh
<1>1. IInv => SessionFresh
  BY DEF IInv, SessionInv
<1> QED
  BY <1>1, AccountsInvariant, PTL

\* The kiosk shows nothing that the session may not see, and an open session is
\* under the idle timer (KioskAccessController::onSessionChanged).
THEOREM TabsAlwaysFollow == Spec => []TabsFollowSession
<1>1. TabsInv => TabsFollowSession
  BY DEF TabsInv
<1> QED
  BY <1>1, InitInv, StepInv, StepTabs, PTL DEF Spec

\* Nobody's rights change but by an entry of somebody who had the right to
\* change them at that moment (UserAccountDao::runWithAudit).
THEOREM ChangesAlwaysAudited == Spec => ChangesAudited
<1>1. IInv /\ [Next]_vars =>
        [\A u \in Users : Rights(users', u) # Rights(users, u) =>
           /\ audit'.entity = u /\ Rightful(audit')
           /\ (u \in DOMAIN users') # (u \in DOMAIN users) => audit'.action \in {"create", "delete"}]_vars
  BY StepAudited DEF AuditedStep
<1> QED
  BY <1>1, AccountsInvariant, PTL DEF Spec, ChangesAudited
=============================================================================
