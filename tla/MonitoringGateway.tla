------------------------- MODULE MonitoringGateway -------------------------
(***************************************************************************)
(* The gateway of the monitoring PC (MonitoringGatewayThread and           *)
(* WorkerEndpointRegistry): worker threads of a pool authenticate workers, *)
(* record the states their Jetsons report and log them out, while another  *)
(* login may displace a session and the administrator may revoke an        *)
(* account.                                                                *)
(*                                                                         *)
(* One action is one critical section of the code.  A request handled by   *)
(* thread th walks through                                                 *)
(*   auth:    verified -> locked -> bound -> answered                      *)
(*   state:   checked  -> locked -> recording -> answered                  *)
(*   logout:  checked  -> locked -> answered                               *)
(* where "locked" and later hold the lock of the employee.  What is done   *)
(* inside the sessions lock is one action.  Requests that change nothing   *)
(* (products, step_guide, a wrong password, an unknown token) have no      *)
(* action, and the notifications to the administrator window are left out. *)
(***************************************************************************)
EXTENDS Naturals, FiniteSets, Dicts

CONSTANTS
  Employees,   \* accounts of role worker
  Addresses,   \* IP addresses of the Jetsons
  Threads,     \* threads of the executor, WORKER_GATEWAY_MAX_CLIENTS in the code
  MaxTokens,   \* bound: logins in a behaviour
  MaxRecords,  \* bound: states recorded per employee
  MaxRestarts  \* bound: restarts of the monitoring PC

ASSUME GatewayAssumption ==
  /\ MaxTokens \in Nat /\ MaxRecords \in Nat /\ MaxRestarts \in Nat

VARIABLES
  running,      \* the accept loop runs
  sessions,     \* _sessions: token -> [employee, ip]
  byEmployee,   \* registry _by_employee: employee -> [ip, token]
  employeeByIp, \* registry _employee_by_ip: ip -> employee
  holder,       \* _employee_locks that are held: employee -> thread
  req,          \* the request each busy thread works on
  nextToken,    \* tokens drawn so far, plus one: secrets.token_urlsafe never repeats
  openRows,     \* rows of work_sessions with logout_at IS NULL, per employee
  role,         \* employees.role
  records,      \* states recorded in the database so far, per employee
  handed,       \* token -> records of its employee when the login read the work state
  reported,     \* token -> states recorded under this token
  restarts      \* restarts so far

registry == <<byEmployee, employeeByIp>>
database == <<openRows, role, records>>
history  == <<handed, reported, restarts>>
vars == <<running, sessions, registry, holder, req, nextToken, database, history>>

Tokens == Nat \ {0}

Session  == [employee : Employees, ip : Addresses]
Endpoint == [ip : Addresses, token : Tokens]
Request  == [kind : {"auth", "state", "logout"},
             pc : {"verified", "checked", "locked", "bound", "recording"},
             employee : Employees, ip : Addresses, token : Nat]

-----------------------------------------------------------------------------
(* Helpers                                                                 *)

LoggedIn(e) == \E t \in DOMAIN sessions : sessions[t].employee = e

\* _session_matches: the token is still bound to the same employee and address.
SessionMatches(r) ==
  /\ r.token \in DOMAIN sessions
  /\ sessions[r.token] = [employee |-> r.employee, ip |-> r.ip]

At(th, kind, pc) ==
  /\ th \in DOMAIN req
  /\ req[th].kind = kind
  /\ req[th].pc = pc

Goto(th, pc) == req' = [req EXCEPT ![th].pc = pc]

\* The thread releases the employee lock and answers: it is idle again.
Answer(th) ==
  /\ holder' = Without(holder, {req[th].employee})
  /\ req' = Without(req, {th})

-----------------------------------------------------------------------------
(* WorkerEndpointRegistry                                                  *)

\* Mutant: the old address of the employee stays in the registry.
KeepAddress(e) == employeeByIp

\* The address the employee was bound to is forgotten.
ForgetAddress(e) ==
  IF e \in DOMAIN byEmployee
  THEN Without(employeeByIp,
               {a \in {byEmployee[e].ip} : a \in DOMAIN employeeByIp /\ employeeByIp[a] = e})
  ELSE employeeByIp

\* Another employee bound to this address, if any.
OtherAt(e, ip) ==
  {o \in Employees \ {e} : ip \in DOMAIN employeeByIp /\ employeeByIp[ip] = o}

\* The tokens a login of e from ip displaces: e's own and that of the address.
Displaced(e, ip) ==
  {byEmployee[o].token : o \in ({e} \cup OtherAt(e, ip)) \cap DOMAIN byEmployee}

\* Mutant: key and value of _employee_by_ip are swapped.
BindSwapped(e, ip, token) ==
  /\ byEmployee' = Put(Without(byEmployee, OtherAt(e, ip)), e, [ip |-> ip, token |-> token])
  /\ employeeByIp' = Put(ForgetAddress(e), e, ip)

\* bind: the newest login owns both the employee and the address.
Bind(e, ip, token) ==
  /\ byEmployee' = Put(Without(byEmployee, OtherAt(e, ip)), e, [ip |-> ip, token |-> token])
  /\ employeeByIp' = Put(ForgetAddress(e), ip, e)

\* unbind: only the owner of the current token removes the connection.
Unbind(e, token) ==
  IF e \in DOMAIN byEmployee /\ byEmployee[e].token = token
  THEN /\ byEmployee' = Without(byEmployee, {e})
       /\ employeeByIp' = ForgetAddress(e)
  ELSE UNCHANGED registry

-----------------------------------------------------------------------------
(* Attendance rows                                                         *)

\* Mutant: the attendance of displaced colleagues is left open.
AttendanceKept(ended, e) ==
  [x \in Employees |-> IF x = e /\ openRows[x] = 0 THEN 1 ELSE openRows[x]]

\* end_work_session for everybody in ended, then start_work_session for e.
\* start_work_session reuses an open row.
Attendance(ended, e) ==
  [x \in Employees |->
     LET left == IF x \in ended THEN 0 ELSE openRows[x]
     IN  IF x = e /\ left = 0 THEN 1 ELSE left]

-----------------------------------------------------------------------------
(* Login                                                                   *)

\* verify_worker_login accepts the password; no lock is held yet.
VerifyLogin(th, e, ip) ==
  /\ running
  /\ th \notin DOMAIN req
  /\ role[e] = "worker"
  /\ nextToken
       + Cardinality({u \in DOMAIN req : req[u].kind = "auth" /\ req[u].token = 0})
       <= MaxTokens                               \* bound
  /\ req' = Put(req, th, [kind |-> "auth", pc |-> "verified",
                          employee |-> e, ip |-> ip, token |-> 0])
  /\ UNCHANGED <<running, sessions, registry, holder, nextToken, database, history>>

\* Mutant: two requests of one employee run at the same time.
AcquireUnguarded(th) ==
  /\ th \in DOMAIN req
  /\ req[th].pc \in {"verified", "checked"}
  /\ holder' = Put(holder, req[th].employee, th)
  /\ Goto(th, "locked")
  /\ UNCHANGED <<running, sessions, registry, nextToken, database, history>>

\* with self._employee_lock(employee_id)
AcquireLock(th) ==
  /\ th \in DOMAIN req
  /\ req[th].pc \in {"verified", "checked"}
  /\ req[th].employee \notin DOMAIN holder
  /\ holder' = Put(holder, req[th].employee, th)
  /\ Goto(th, "locked")
  /\ UNCHANGED <<running, sessions, registry, nextToken, database, history>>

\* The critical section of a login: bind the endpoint, drop the displaced
\* sessions, close the attendance of displaced colleagues, open one's own.
BindSession(th) ==
  /\ At(th, "auth", "locked")
  /\ LET e         == req[th].employee
         ip        == req[th].ip
         displaced == Displaced(e, ip) \cap DOMAIN sessions
         ended     == {sessions[t].employee : t \in displaced} \ {e}
     IN  /\ Bind(e, ip, nextToken)
         /\ sessions' = Put(Without(sessions, displaced), nextToken,
                            [employee |-> e, ip |-> ip])
         /\ openRows' = Attendance(ended, e)
  /\ req' = [req EXCEPT ![th].pc = "bound", ![th].token = nextToken]
  /\ nextToken' = nextToken + 1
  /\ UNCHANGED <<running, holder, role, records, history>>

\* get_incomplete_work_state, then the lock is released and the Jetson gets
\* its token and the work to resume.
AnswerLogin(th) ==
  /\ At(th, "auth", "bound")
  /\ handed' = Put(handed, req[th].token, records[req[th].employee])
  /\ reported' = Put(reported, req[th].token, 0)
  /\ Answer(th)
  /\ UNCHANGED <<running, sessions, registry, nextToken, database, restarts>>

-----------------------------------------------------------------------------
(* State reports and logout                                                *)

\* _process_request: the session of the token is looked up, no employee lock held.
ReceiveRequest(th, kind, token, ip) ==
  /\ running
  /\ th \notin DOMAIN req
  /\ token \in DOMAIN handed                      \* a Jetson knows it
  /\ token \in DOMAIN sessions
  /\ sessions[token].ip = ip
  /\ LET e == sessions[token].employee
     IN  /\ kind = "state" =>                     \* bound
              records[e] + Cardinality({u \in DOMAIN req :
                             req[u].kind = "state" /\ req[u].employee = e}) < MaxRecords
         /\ req' = Put(req, th, [kind |-> kind, pc |-> "checked",
                                 employee |-> e, ip |-> ip, token |-> token])
  /\ UNCHANGED <<running, sessions, registry, holder, nextToken, database, history>>

\* Mutant: the session is not checked again once the employee lock is held.
RecheckSkipped(th) ==
  /\ At(th, "state", "locked")
  /\ Goto(th, "recording")
  /\ UNCHANGED <<running, sessions, registry, holder, nextToken, database, history>>

\* Mutant: a refused report leaves the employee lock held.
RecheckStuck(th) ==
  /\ At(th, "state", "locked")
  /\ IF SessionMatches(req[th])
     THEN Goto(th, "recording") /\ UNCHANGED holder
     ELSE req' = Without(req, {th}) /\ UNCHANGED holder
  /\ UNCHANGED <<running, sessions, registry, nextToken, database, history>>

\* The session is checked again under both locks; then the sessions lock is
\* released before the state is recorded.
RecheckState(th) ==
  /\ At(th, "state", "locked")
  /\ IF SessionMatches(req[th])
     THEN Goto(th, "recording") /\ UNCHANGED holder
     ELSE Answer(th)
  /\ UNCHANGED <<running, sessions, registry, nextToken, database, history>>

\* record_worker_state, one transaction; a revoked account raises ValueError.
RecordState(th) ==
  /\ At(th, "state", "recording")
  /\ LET e == req[th].employee
         t == req[th].token
     IN  IF role[e] = "worker"
         THEN /\ records' = [records EXCEPT ![e] = @ + 1]
              /\ reported' = [reported EXCEPT ![t] = @ + 1]
         ELSE UNCHANGED <<records, reported>>
  /\ Answer(th)
  /\ UNCHANGED <<running, sessions, registry, nextToken, openRows, role, handed, restarts>>

\* Mutant: a late logout of an older login is not recognised.
LogoutUnchecked(th) ==
  /\ At(th, "logout", "locked")
  /\ openRows' = [openRows EXCEPT ![req[th].employee] = 0]
  /\ Unbind(req[th].employee, req[th].token)
  /\ sessions' = Without(sessions, {req[th].token})
  /\ Answer(th)
  /\ UNCHANGED <<running, nextToken, role, records, history>>

\* _handle_logout_request: recheck, close attendance, unbind, drop the session.
Logout(th) ==
  /\ At(th, "logout", "locked")
  /\ IF SessionMatches(req[th])
     THEN /\ openRows' = [openRows EXCEPT ![req[th].employee] = 0]
          /\ Unbind(req[th].employee, req[th].token)
          /\ sessions' = Without(sessions, {req[th].token})
     ELSE UNCHANGED <<openRows, registry, sessions>>
  /\ Answer(th)
  /\ UNCHANGED <<running, nextToken, role, records, history>>

-----------------------------------------------------------------------------
(* The administrator, and the life of the gateway                          *)

\* revoke_worker: attendance closed and role changed in one transaction; the
\* sessions of the gateway are not touched.
Revoke(e) ==
  /\ role[e] = "worker"
  /\ openRows' = [openRows EXCEPT ![e] = 0]
  /\ role' = [role EXCEPT ![e] = "revoked"]
  /\ UNCHANGED <<running, sessions, registry, holder, req, nextToken, records, history>>

\* stop: no new requests, sessions and registry cleared; handlers in flight go on.
Stop ==
  /\ running
  /\ running' = FALSE
  /\ sessions' = EmptyDict
  /\ byEmployee' = EmptyDict
  /\ employeeByIp' = EmptyDict
  /\ UNCHANGED <<holder, req, nextToken, database, history>>

\* The program starts again, after stop or after a crash: memory is empty,
\* the database is what it was.
Restart ==
  /\ restarts < MaxRestarts                       \* bound
  /\ running' = TRUE
  /\ sessions' = EmptyDict
  /\ byEmployee' = EmptyDict
  /\ employeeByIp' = EmptyDict
  /\ holder' = EmptyDict
  /\ req' = EmptyDict
  /\ restarts' = restarts + 1
  /\ UNCHANGED <<nextToken, database, handed, reported>>

-----------------------------------------------------------------------------
Init ==
  /\ running = TRUE
  /\ sessions = EmptyDict
  /\ byEmployee = EmptyDict
  /\ employeeByIp = EmptyDict
  /\ holder = EmptyDict
  /\ req = EmptyDict
  /\ nextToken = 1
  /\ openRows = [e \in Employees |-> 0]
  /\ role = [e \in Employees |-> "worker"]
  /\ records = [e \in Employees |-> 0]
  /\ handed = EmptyDict
  /\ reported = EmptyDict
  /\ restarts = 0

\* The steps a thread takes by itself once it has received a request.
Work(th) ==
  \/ BindSession(th)
  \/ AnswerLogin(th)
  \/ RecheckState(th)
  \/ RecordState(th)
  \/ Logout(th)

Next ==
  \/ \E th \in Threads, e \in Employees, ip \in Addresses : VerifyLogin(th, e, ip)
  \/ \E th \in Threads, kind \in {"state", "logout"}, ip \in Addresses,
        token \in DOMAIN handed : ReceiveRequest(th, kind, token, ip)
  \/ \E th \in Threads : AcquireLock(th)
  \/ \E th \in Threads : Work(th)
  \/ \E e \in Employees : Revoke(e)
  \/ Stop
  \/ Restart

Spec == Init /\ [][Next]_vars

\* A thread of the pool that holds a lock is scheduled again: no step after
\* the lock waits for anything but the database.
FairSpec == Spec /\ \A th \in Threads : WF_vars(Work(th))

-----------------------------------------------------------------------------
(* Properties                                                              *)

\* The shape of the gateway's tables, locks, requests and rows.
TypeOK ==
  /\ running \in BOOLEAN
  /\ sessions \in [DOMAIN sessions -> Session] /\ DOMAIN sessions \subseteq Tokens
  /\ byEmployee \in [DOMAIN byEmployee -> Endpoint] /\ DOMAIN byEmployee \subseteq Employees
  /\ employeeByIp \in [DOMAIN employeeByIp -> Employees]
  /\ DOMAIN employeeByIp \subseteq Addresses
  /\ holder \in [DOMAIN holder -> Threads] /\ DOMAIN holder \subseteq Employees
  /\ req \in [DOMAIN req -> Request] /\ DOMAIN req \subseteq Threads
  /\ nextToken \in Tokens
  /\ openRows \in [Employees -> Nat]
  /\ role \in [Employees -> {"worker", "revoked"}]
  /\ records \in [Employees -> Nat]
  /\ handed \in [DOMAIN handed -> Nat] /\ DOMAIN handed \subseteq Tokens
  /\ reported \in [DOMAIN reported -> Nat] /\ DOMAIN reported = DOMAIN handed
  /\ restarts \in Nat

\* Every live session is the one the registry routes administrator messages to,
\* every endpoint of the registry belongs to a live session, and the two maps of
\* the registry are inverse to each other: at no time are there two sessions of
\* one employee or of one Jetson, whatever logins, displacements, logouts and
\* shutdowns interleave.
RegistryMatchesSessions ==
  /\ \A t \in DOMAIN sessions :
       /\ sessions[t].employee \in DOMAIN byEmployee
       /\ byEmployee[sessions[t].employee] = [ip |-> sessions[t].ip, token |-> t]
  /\ \A e \in DOMAIN byEmployee :
       /\ byEmployee[e].token \in DOMAIN sessions
       /\ sessions[byEmployee[e].token].employee = e
       /\ byEmployee[e].ip \in DOMAIN employeeByIp
       /\ employeeByIp[byEmployee[e].ip] = e
  /\ \A a \in DOMAIN employeeByIp :
       /\ employeeByIp[a] \in DOMAIN byEmployee
       /\ byEmployee[employeeByIp[a]].ip = a

\* A worker who is logged in has exactly one open attendance row, unless the
\* account was revoked: a late logout of an older login, or a colleague's login
\* on another Jetson, never closes it.
LoggedInIsPresent ==
  \A e \in Employees : LoggedIn(e) /\ role[e] = "worker" => openRows[e] = 1

\* Whenever an employee ceases to be logged in, other than by a shutdown of the
\* gateway, the attendance is closed in the same critical section.
AttendanceEndsWithSession ==
  [][\A e \in Employees : LoggedIn(e) /\ ~LoggedIn(e)' =>
        openRows'[e] = 0 \/ Stop \/ Restart]_vars

\* The work a login hands to the Jetson stays up to date: since then only that
\* login has written to the employee's history.  No report of an earlier login
\* slips in between the read of the unfinished work and the new session.
HandedWorkIsCurrent ==
  \A t \in DOMAIN handed \cap DOMAIN sessions :
    records[sessions[t].employee] = handed[t] + reported[t]

\* revoke_worker ends the open attendance of the account (its docstring), so
\* a revoked account has none.
RevokedIsAbsent ==
  \A e \in Employees : role[e] = "revoked" => openRows[e] = 0

\* Every employee lock that is taken is released again, on the refusals too.
LocksAreReleased ==
  \A e \in Employees : e \in DOMAIN holder ~> e \notin DOMAIN holder

=============================================================================
