---------------------- MODULE MonitoringGatewayProofs ----------------------
(***************************************************************************)
(* Safety of the gateway for any number of employees, Jetsons, threads and *)
(* logins.  The invariants are not inductive by themselves: they rest on   *)
(* who holds which employee lock (LockDiscipline), on tokens never being   *)
(* reused (TokenDiscipline), and on nobody else being logged in as an      *)
(* employee whose state is being recorded (RecordingIsExclusive).          *)
(***************************************************************************)
EXTENDS MonitoringGateway, TLAPS

Holding == {"locked", "bound", "recording"}

\* A lock is held exactly by the thread that works on a request of that employee
\* beyond the lock, and the program counter fits the kind of the request.
LockDiscipline ==
  /\ \A e \in DOMAIN holder :
       /\ holder[e] \in DOMAIN req
       /\ req[holder[e]].employee = e
       /\ req[holder[e]].pc \in Holding
  /\ \A th \in DOMAIN req : req[th].pc \in Holding =>
       /\ req[th].employee \in DOMAIN holder
       /\ holder[req[th].employee] = th
  /\ \A th \in DOMAIN req :
       /\ req[th].pc = "bound" => req[th].kind = "auth"
       /\ req[th].pc = "recording" => req[th].kind = "state"
       /\ req[th].pc \in {"verified", "bound"} => req[th].kind = "auth"

\* Tokens in use were drawn before; a token belongs to one employee for good;
\* a login that is not answered yet is the only one that knows its token.
TokenDiscipline ==
  /\ \A t \in DOMAIN sessions : t < nextToken
  /\ \A t \in DOMAIN handed : t < nextToken
  /\ \A th \in DOMAIN req : req[th].kind # "auth" => req[th].token \in DOMAIN handed
  /\ \A th \in DOMAIN req : req[th].pc = "bound" =>
       /\ req[th].token \in Tokens
       /\ req[th].token < nextToken
       /\ req[th].token \notin DOMAIN handed
  /\ \A th \in DOMAIN req : req[th].kind # "auth" \/ req[th].pc = "bound" =>
       (req[th].token \in DOMAIN sessions =>
          sessions[req[th].token].employee = req[th].employee)
  /\ \A u, v \in DOMAIN req : req[u].pc = "bound" /\ req[v].pc = "bound"
       /\ req[u].token = req[v].token => u = v

\* While a state of an employee is recorded, no other token of the employee is live.
RecordingIsExclusive ==
  \A th \in DOMAIN req : req[th].pc = "recording" =>
    \A t \in DOMAIN sessions :
      sessions[t].employee = req[th].employee => t = req[th].token

\* An employee has at most one open attendance row, and one while logged in.
AttendanceInv ==
  /\ \A e \in Employees : openRows[e] \in {0, 1}
  /\ LoggedInIsPresent

\* The inductive invariant of the gateway: what the locks and the tokens
\* guarantee between the critical sections of logins, reports and logouts.
GatewayInv ==
  /\ TypeOK
  /\ RegistryMatchesSessions
  /\ LockDiscipline
  /\ TokenDiscipline
  /\ RecordingIsExclusive
  /\ HandedWorkIsCurrent
  /\ AttendanceInv

-----------------------------------------------------------------------------
(* Typing of dictionaries                                                  *)

\* Setting an entry keeps a dictionary well typed.
LEMMA PutType ==
  ASSUME NEW K, NEW V, NEW d, d \in [DOMAIN d -> V], DOMAIN d \subseteq K,
         NEW k \in K, NEW v \in V
  PROVE  /\ Put(d, k, v) \in [DOMAIN Put(d, k, v) -> V]
         /\ DOMAIN Put(d, k, v) \subseteq K
BY DEF Put

\* Removing entries keeps a dictionary well typed.
LEMMA WithoutType ==
  ASSUME NEW K, NEW V, NEW d, d \in [DOMAIN d -> V], DOMAIN d \subseteq K, NEW S
  PROVE  /\ Without(d, S) \in [DOMAIN Without(d, S) -> V]
         /\ DOMAIN Without(d, S) \subseteq K
BY DEF Without

-----------------------------------------------------------------------------
(* What happens to the requests                                            *)

\* A thread that moves on changes nothing of its request but the program counter,
\* and no other request.
LEMMA GotoFacts ==
  ASSUME TypeOK, NEW th \in DOMAIN req,
         NEW pc \in {"verified", "checked", "locked", "bound", "recording"}, Goto(th, pc)
  PROVE  /\ DOMAIN req' = DOMAIN req
         /\ req' \in [DOMAIN req' -> Request]
         /\ req'[th].pc = pc
         /\ req'[th].kind = req[th].kind
         /\ req'[th].employee = req[th].employee
         /\ req'[th].ip = req[th].ip
         /\ req'[th].token = req[th].token
         /\ \A u \in DOMAIN req \ {th} : req'[u] = req[u]
BY DEF TypeOK, Goto, Request

\* An answer frees the thread and the employee lock, and only those.
LEMMA AnswerFacts ==
  ASSUME TypeOK, LockDiscipline, NEW th \in DOMAIN req, req[th].pc \in Holding, Answer(th)
  PROVE  /\ DOMAIN req' = DOMAIN req \ {th}
         /\ \A u \in DOMAIN req' : req'[u] = req[u]
         /\ req' \in [DOMAIN req' -> Request] /\ DOMAIN req' \subseteq Threads
         /\ holder' \in [DOMAIN holder' -> Threads] /\ DOMAIN holder' \subseteq Employees
         /\ LockDiscipline'
<1>1. req' = Without(req, {th}) /\ holder' = Without(holder, {req[th].employee})
  BY DEF Answer
<1>2. /\ DOMAIN req' = DOMAIN req \ {th}
      /\ \A u \in DOMAIN req' : req'[u] = req[u]
      /\ DOMAIN holder' = DOMAIN holder \ {req[th].employee}
      /\ \A e \in DOMAIN holder' : holder'[e] = holder[e]
  BY <1>1 DEF Without
<1>3. /\ req' \in [DOMAIN req' -> Request] /\ DOMAIN req' \subseteq Threads
      /\ holder' \in [DOMAIN holder' -> Threads] /\ DOMAIN holder' \subseteq Employees
  BY <1>1, WithoutType DEF TypeOK
<1>4. LockDiscipline'
  BY <1>2 DEF LockDiscipline
<1> QED BY <1>2, <1>3, <1>4

-----------------------------------------------------------------------------
(* The registry makes a login exclusive                                    *)

\* With a consistent registry no employee has two live sessions.
LEMMA OneSessionPerEmployee ==
  ASSUME RegistryMatchesSessions, NEW t \in DOMAIN sessions, NEW u \in DOMAIN sessions,
         sessions[t].employee = sessions[u].employee
  PROVE  t = u
<1>1. byEmployee[sessions[t].employee] = [ip |-> sessions[t].ip, token |-> t]
  BY DEF RegistryMatchesSessions
<1>2. byEmployee[sessions[u].employee] = [ip |-> sessions[u].ip, token |-> u]
  BY DEF RegistryMatchesSessions
<1>3. byEmployee[sessions[t].employee].token = t
  BY <1>1
<1>4. byEmployee[sessions[u].employee].token = u
  BY <1>2
<1> QED BY <1>3, <1>4

-----------------------------------------------------------------------------
(* One lemma per action: it preserves the invariant                        *)

\* Accepting a password (verify_worker_login) preserves the invariant.
LEMMA VerifyLoginStep ==
  ASSUME GatewayInv, NEW th \in Threads, NEW e \in Employees, NEW ip \in Addresses,
         VerifyLogin(th, e, ip)
  PROVE  GatewayInv'
<1> DEFINE r == [kind |-> "auth", pc |-> "verified", employee |-> e, ip |-> ip, token |-> 0]
<1>1. /\ th \notin DOMAIN req
      /\ req' = Put(req, th, r)
      /\ r \in Request
  BY DEF VerifyLogin, Request
<1>2. /\ DOMAIN req' = DOMAIN req \cup {th}
      /\ req'[th] = r
      /\ \A u \in DOMAIN req : req'[u] = req[u]
  BY <1>1 DEF Put
<1>3. UNCHANGED <<running, sessions, registry, holder, nextToken, database, history>>
  BY DEF VerifyLogin
<1>4. TypeOK'
  <2>1. req \in [DOMAIN req -> Request] /\ DOMAIN req \subseteq Threads
    BY DEF GatewayInv, TypeOK
  <2>2. req' \in [DOMAIN req' -> Request] /\ DOMAIN req' \subseteq Threads
    BY <1>1, <2>1, PutType
  <2> QED BY <1>3, <2>2 DEF GatewayInv, TypeOK, registry, database, history
<1>5. RegistryMatchesSessions'
  BY <1>3 DEF GatewayInv, RegistryMatchesSessions, registry
<1>6. LockDiscipline'
  BY <1>1, <1>2, <1>3 DEF GatewayInv, LockDiscipline, Holding
<1>7. TokenDiscipline'
  BY <1>1, <1>2, <1>3 DEF GatewayInv, TokenDiscipline, history
<1>8. RecordingIsExclusive'
  BY <1>2, <1>3 DEF GatewayInv, RecordingIsExclusive
<1>9. HandedWorkIsCurrent'
  BY <1>3 DEF GatewayInv, HandedWorkIsCurrent, database, history
<1>10. AttendanceInv'
  BY <1>3 DEF GatewayInv, AttendanceInv, LoggedInIsPresent, LoggedIn, database
<1> QED BY <1>4, <1>5, <1>6, <1>7, <1>8, <1>9, <1>10 DEF GatewayInv

\* Taking the employee lock preserves the invariant.
LEMMA AcquireLockStep ==
  ASSUME GatewayInv, NEW th \in Threads, AcquireLock(th)
  PROVE  GatewayInv'
<1>1. /\ th \in DOMAIN req
      /\ req[th].pc \notin Holding
      /\ req[th].employee \notin DOMAIN holder
      /\ holder' = Put(holder, req[th].employee, th)
      /\ Goto(th, "locked")
      /\ UNCHANGED <<running, sessions, registry, nextToken, database, history>>
  BY DEF AcquireLock, Holding
<1>2. /\ DOMAIN req' = DOMAIN req
      /\ req' \in [DOMAIN req' -> Request]
      /\ req'[th].pc = "locked"
      /\ req'[th].kind = req[th].kind
      /\ req'[th].employee = req[th].employee
      /\ req'[th].token = req[th].token
      /\ \A u \in DOMAIN req \ {th} : req'[u] = req[u]
  BY <1>1, GotoFacts DEF GatewayInv
<1>3. /\ DOMAIN holder' = DOMAIN holder \cup {req[th].employee}
      /\ holder'[req[th].employee] = th
      /\ \A e \in DOMAIN holder : holder'[e] = holder[e]
  BY <1>1 DEF Put
<1>4. TypeOK'
  <2>1. req[th].employee \in Employees
    BY <1>1 DEF GatewayInv, TypeOK, Request
  <2>2. holder' \in [DOMAIN holder' -> Threads] /\ DOMAIN holder' \subseteq Employees
    BY <1>1, <2>1, PutType DEF GatewayInv, TypeOK
  <2> QED BY <1>1, <1>2, <2>2 DEF GatewayInv, TypeOK, registry, database, history
<1>5. RegistryMatchesSessions'
  BY <1>1 DEF GatewayInv, RegistryMatchesSessions, registry
<1>6. LockDiscipline'
  BY <1>1, <1>2, <1>3 DEF GatewayInv, LockDiscipline, Holding
<1>7. TokenDiscipline'
  BY <1>1, <1>2 DEF GatewayInv, TokenDiscipline, LockDiscipline, history, Holding
<1>8. RecordingIsExclusive'
  BY <1>1, <1>2 DEF GatewayInv, RecordingIsExclusive
<1>9. HandedWorkIsCurrent'
  BY <1>1 DEF GatewayInv, HandedWorkIsCurrent, database, history
<1>10. AttendanceInv'
  BY <1>1 DEF GatewayInv, AttendanceInv, LoggedInIsPresent, LoggedIn, database
<1> QED BY <1>4, <1>5, <1>6, <1>7, <1>8, <1>9, <1>10 DEF GatewayInv

\* Reading the unfinished work and answering the login preserves the invariant.
LEMMA AnswerLoginStep ==
  ASSUME GatewayInv, NEW th \in Threads, AnswerLogin(th)
  PROVE  GatewayInv'
<1> DEFINE t == req[th].token
<1>1. /\ th \in DOMAIN req
      /\ req[th].kind = "auth" /\ req[th].pc = "bound"
      /\ handed' = Put(handed, t, records[req[th].employee])
      /\ reported' = Put(reported, t, 0)
      /\ Answer(th)
      /\ UNCHANGED <<running, sessions, registry, nextToken, database, restarts>>
  BY DEF AnswerLogin, At
<1>2. /\ DOMAIN req' = DOMAIN req \ {th}
      /\ \A u \in DOMAIN req' : req'[u] = req[u]
      /\ req' \in [DOMAIN req' -> Request] /\ DOMAIN req' \subseteq Threads
      /\ holder' \in [DOMAIN holder' -> Threads] /\ DOMAIN holder' \subseteq Employees
      /\ LockDiscipline'
  BY <1>1, AnswerFacts DEF GatewayInv, Holding
<1>3. /\ t \in Tokens /\ t < nextToken /\ t \notin DOMAIN handed
      /\ t \in DOMAIN sessions => sessions[t].employee = req[th].employee
      /\ req[th].employee \in Employees
      /\ records[req[th].employee] \in Nat
  BY <1>1 DEF GatewayInv, TokenDiscipline, TypeOK, Request
<1>4. /\ DOMAIN handed' = DOMAIN handed \cup {t}
      /\ handed'[t] = records[req[th].employee]
      /\ \A x \in DOMAIN handed : handed'[x] = handed[x]
      /\ DOMAIN reported' = DOMAIN reported \cup {t}
      /\ reported'[t] = 0
      /\ \A x \in DOMAIN reported : x # t => reported'[x] = reported[x]
  BY <1>1, <1>3 DEF Put
<1>5. TypeOK'
  <2>1. handed' \in [DOMAIN handed' -> Nat] /\ DOMAIN handed' \subseteq Tokens
    <3>1. handed \in [DOMAIN handed -> Nat] /\ DOMAIN handed \subseteq Tokens
      BY DEF GatewayInv, TypeOK
    <3> DEFINE work == records[req[th].employee]
    <3>2. handed' = Put(handed, t, work) /\ t \in Tokens /\ work \in Nat
      BY <1>1, <1>3
    <3> HIDE DEF t, work
    <3> QED BY <3>1, <3>2, PutType
  <2>3. reported' \in [DOMAIN reported' -> Nat]
    <3>1. reported \in [DOMAIN reported -> Nat] /\ DOMAIN reported \subseteq Tokens
      BY DEF GatewayInv, TypeOK
    <3> QED BY <1>1, <1>3, <3>1, PutType
  <2>2. DOMAIN reported' = DOMAIN handed'
    BY <1>4 DEF GatewayInv, TypeOK
  <2> QED BY <1>1, <1>2, <2>1, <2>2, <2>3 DEF GatewayInv, TypeOK, registry, database
<1>6. RegistryMatchesSessions'
  BY <1>1 DEF GatewayInv, RegistryMatchesSessions, registry
<1>7. TokenDiscipline'
  BY <1>1, <1>2, <1>3, <1>4 DEF GatewayInv, TokenDiscipline
<1>8. RecordingIsExclusive'
  BY <1>1, <1>2 DEF GatewayInv, RecordingIsExclusive
<1>9. HandedWorkIsCurrent'
  BY <1>1, <1>3, <1>4 DEF GatewayInv, HandedWorkIsCurrent, database, TypeOK
<1>10. AttendanceInv'
  BY <1>1 DEF GatewayInv, AttendanceInv, LoggedInIsPresent, LoggedIn, database
<1> QED BY <1>2, <1>5, <1>6, <1>7, <1>8, <1>9, <1>10 DEF GatewayInv

\* Looking up the session of a request preserves the invariant.
LEMMA ReceiveRequestStep ==
  ASSUME GatewayInv, NEW th \in Threads, NEW kind \in {"state", "logout"},
         NEW token \in DOMAIN handed, NEW ip \in Addresses,
         ReceiveRequest(th, kind, token, ip)
  PROVE  GatewayInv'
<1> DEFINE e == sessions[token].employee
           r == [kind |-> kind, pc |-> "checked", employee |-> e, ip |-> ip, token |-> token]
<1>1. /\ th \notin DOMAIN req
      /\ token \in DOMAIN sessions
      /\ req' = Put(req, th, r)
      /\ UNCHANGED <<running, sessions, registry, holder, nextToken, database, history>>
  BY DEF ReceiveRequest
<1>2. r \in Request
  BY <1>1 DEF GatewayInv, TypeOK, Request, Session, Tokens
<1>3. /\ DOMAIN req' = DOMAIN req \cup {th}
      /\ req'[th] = r
      /\ \A u \in DOMAIN req : req'[u] = req[u]
  BY <1>1 DEF Put
<1>4. TypeOK'
  <2>1. req \in [DOMAIN req -> Request] /\ DOMAIN req \subseteq Threads
    BY DEF GatewayInv, TypeOK
  <2>2. req' \in [DOMAIN req' -> Request] /\ DOMAIN req' \subseteq Threads
    <3> HIDE DEF r
    <3> QED BY <1>1, <1>2, <2>1, PutType
  <2> QED BY <1>1, <2>2 DEF GatewayInv, TypeOK, registry, database, history
<1>5. RegistryMatchesSessions'
  BY <1>1 DEF GatewayInv, RegistryMatchesSessions, registry
<1>6. LockDiscipline'
  BY <1>1, <1>3 DEF GatewayInv, LockDiscipline, Holding
<1>7. TokenDiscipline'
  BY <1>1, <1>3 DEF GatewayInv, TokenDiscipline, history
<1>8. RecordingIsExclusive'
  BY <1>1, <1>3 DEF GatewayInv, RecordingIsExclusive
<1>9. HandedWorkIsCurrent'
  BY <1>1 DEF GatewayInv, HandedWorkIsCurrent, database, history
<1>10. AttendanceInv'
  BY <1>1 DEF GatewayInv, AttendanceInv, LoggedInIsPresent, LoggedIn, database
<1> QED BY <1>4, <1>5, <1>6, <1>7, <1>8, <1>9, <1>10 DEF GatewayInv

\* The second check of a report's session preserves the invariant: it is what makes
\* the recording exclusive.
LEMMA RecheckStateStep ==
  ASSUME GatewayInv, NEW th \in Threads, RecheckState(th)
  PROVE  GatewayInv'
<1>1. /\ th \in DOMAIN req
      /\ req[th].kind = "state" /\ req[th].pc = "locked"
      /\ UNCHANGED <<running, sessions, registry, nextToken, database, history>>
  BY DEF RecheckState, At
<1>2. CASE ~SessionMatches(req[th])
  <2>1. Answer(th)
    BY <1>2 DEF RecheckState
  <2>2. /\ DOMAIN req' = DOMAIN req \ {th}
        /\ \A u \in DOMAIN req' : req'[u] = req[u]
        /\ req' \in [DOMAIN req' -> Request] /\ DOMAIN req' \subseteq Threads
        /\ holder' \in [DOMAIN holder' -> Threads] /\ DOMAIN holder' \subseteq Employees
        /\ LockDiscipline'
    BY <1>1, <2>1, AnswerFacts DEF GatewayInv, Holding
  <2>3. TypeOK'
    BY <1>1, <2>2 DEF GatewayInv, TypeOK, registry, database, history
  <2>4. TokenDiscipline' /\ RecordingIsExclusive'
    BY <1>1, <2>2 DEF GatewayInv, TokenDiscipline, RecordingIsExclusive, history
  <2>5. RegistryMatchesSessions' /\ HandedWorkIsCurrent' /\ AttendanceInv'
    BY <1>1 DEF GatewayInv, RegistryMatchesSessions, HandedWorkIsCurrent, AttendanceInv,
                LoggedInIsPresent, LoggedIn, registry, database, history
  <2> QED BY <2>2, <2>3, <2>4, <2>5 DEF GatewayInv
<1>3. CASE SessionMatches(req[th])
  <2>1. Goto(th, "recording") /\ UNCHANGED holder
    BY <1>3 DEF RecheckState
  <2>2. /\ DOMAIN req' = DOMAIN req
        /\ req' \in [DOMAIN req' -> Request]
        /\ req'[th].pc = "recording"
        /\ req'[th].kind = req[th].kind
        /\ req'[th].employee = req[th].employee
        /\ req'[th].token = req[th].token
        /\ \A u \in DOMAIN req \ {th} : req'[u] = req[u]
    BY <1>1, <2>1, GotoFacts DEF GatewayInv
  <2>3. TypeOK'
    BY <1>1, <2>1, <2>2 DEF GatewayInv, TypeOK, registry, database, history
  <2>4. LockDiscipline'
    BY <1>1, <2>1, <2>2 DEF GatewayInv, LockDiscipline, Holding
  <2>5. TokenDiscipline'
    BY <1>1, <2>2 DEF GatewayInv, TokenDiscipline, history
  <2>6. \A t \in DOMAIN sessions : sessions[t].employee = req[th].employee => t = req[th].token
    <3>1. /\ req[th].token \in DOMAIN sessions
          /\ sessions[req[th].token].employee = req[th].employee
      BY <1>3 DEF SessionMatches
    <3> QED BY <3>1, OneSessionPerEmployee DEF GatewayInv
  <2>7. RecordingIsExclusive'
    BY <1>1, <2>2, <2>6 DEF GatewayInv, RecordingIsExclusive
  <2>8. RegistryMatchesSessions' /\ HandedWorkIsCurrent' /\ AttendanceInv'
    BY <1>1 DEF GatewayInv, RegistryMatchesSessions, HandedWorkIsCurrent, AttendanceInv,
                LoggedInIsPresent, LoggedIn, registry, database, history
  <2> QED BY <2>3, <2>4, <2>5, <2>7, <2>8 DEF GatewayInv
<1> QED BY <1>2, <1>3

\* Recording a state preserves the invariant: it is written for the live token only.
LEMMA RecordStateStep ==
  ASSUME GatewayInv, NEW th \in Threads, RecordState(th)
  PROVE  GatewayInv'
<1> DEFINE e == req[th].employee
           t == req[th].token
<1>1. /\ th \in DOMAIN req
      /\ req[th].kind = "state" /\ req[th].pc = "recording"
      /\ \/ /\ records' = [records EXCEPT ![e] = @ + 1]
            /\ reported' = [reported EXCEPT ![t] = @ + 1]
         \/ UNCHANGED <<records, reported>>
      /\ Answer(th)
      /\ UNCHANGED <<running, sessions, registry, nextToken, openRows, role, handed, restarts>>
  BY DEF RecordState, At
<1>2. /\ DOMAIN req' = DOMAIN req \ {th}
      /\ \A u \in DOMAIN req' : req'[u] = req[u]
      /\ req' \in [DOMAIN req' -> Request] /\ DOMAIN req' \subseteq Threads
      /\ holder' \in [DOMAIN holder' -> Threads] /\ DOMAIN holder' \subseteq Employees
      /\ LockDiscipline'
  BY <1>1, AnswerFacts DEF GatewayInv, Holding
<1>3. /\ e \in Employees /\ t \in DOMAIN reported
      /\ records \in [Employees -> Nat]
      /\ reported \in [DOMAIN reported -> Nat]
  BY <1>1 DEF GatewayInv, TokenDiscipline, TypeOK, Request
<1>4. TypeOK'
  <2>1. /\ records' \in [Employees -> Nat]
        /\ reported' \in [DOMAIN reported' -> Nat]
        /\ DOMAIN reported' = DOMAIN reported
    BY <1>1, <1>3
  <2> QED BY <1>1, <1>2, <2>1 DEF GatewayInv, TypeOK, registry
<1>5. TokenDiscipline' /\ RecordingIsExclusive'
  BY <1>1, <1>2 DEF GatewayInv, TokenDiscipline, RecordingIsExclusive
<1>6. HandedWorkIsCurrent'
  <2>1. \A x \in DOMAIN sessions : sessions[x].employee = e => x = t
    BY <1>1 DEF GatewayInv, RecordingIsExclusive
  <2>2. \A x \in DOMAIN handed \cap DOMAIN sessions :
          /\ sessions[x].employee \in Employees
          /\ x \in DOMAIN reported /\ handed[x] \in Nat
          /\ x = t => sessions[x].employee = e
    BY <1>1 DEF GatewayInv, TypeOK, Session, TokenDiscipline
  <2> QED BY <1>1, <1>3, <2>1, <2>2 DEF GatewayInv, HandedWorkIsCurrent
<1>7. RegistryMatchesSessions' /\ AttendanceInv'
  BY <1>1 DEF GatewayInv, RegistryMatchesSessions, AttendanceInv, LoggedInIsPresent,
              LoggedIn, registry
<1> QED BY <1>2, <1>4, <1>5, <1>6, <1>7 DEF GatewayInv

\* A logout, valid or stale, preserves the invariant.
LEMMA LogoutStep ==
  ASSUME GatewayInv, NEW th \in Threads, Logout(th)
  PROVE  GatewayInv'
<1> DEFINE e == req[th].employee
           t == req[th].token
<1>1. /\ th \in DOMAIN req
      /\ req[th].kind = "logout" /\ req[th].pc = "locked"
      /\ Answer(th)
      /\ UNCHANGED <<running, nextToken, role, records, history>>
  BY DEF Logout, At
<1>2. /\ DOMAIN req' = DOMAIN req \ {th}
      /\ \A u \in DOMAIN req' : req'[u] = req[u]
      /\ req' \in [DOMAIN req' -> Request] /\ DOMAIN req' \subseteq Threads
      /\ holder' \in [DOMAIN holder' -> Threads] /\ DOMAIN holder' \subseteq Employees
      /\ LockDiscipline'
  BY <1>1, AnswerFacts DEF GatewayInv, Holding
<1>3. CASE ~SessionMatches(req[th])
  <2>1. UNCHANGED <<openRows, registry, sessions>>
    BY <1>3 DEF Logout
  <2>2. TypeOK'
    BY <1>1, <1>2, <2>1 DEF GatewayInv, TypeOK, registry, history
  <2>3. TokenDiscipline' /\ RecordingIsExclusive'
    BY <1>1, <1>2, <2>1 DEF GatewayInv, TokenDiscipline, RecordingIsExclusive, history
  <2>4. RegistryMatchesSessions' /\ HandedWorkIsCurrent' /\ AttendanceInv'
    BY <1>1, <2>1 DEF GatewayInv, RegistryMatchesSessions, HandedWorkIsCurrent,
                      AttendanceInv, LoggedInIsPresent, LoggedIn, registry, history
  <2> QED BY <1>2, <2>2, <2>3, <2>4 DEF GatewayInv
<1>4. CASE SessionMatches(req[th])
  <2>1. /\ openRows' = [openRows EXCEPT ![e] = 0]
        /\ Unbind(e, t)
        /\ sessions' = Without(sessions, {t})
    BY <1>4 DEF Logout
  <2>2. /\ t \in DOMAIN sessions
        /\ sessions[t].employee = e
        /\ e \in DOMAIN byEmployee
        /\ byEmployee[e] = [ip |-> sessions[t].ip, token |-> t]
        /\ byEmployee[e].ip \in DOMAIN employeeByIp
        /\ employeeByIp[byEmployee[e].ip] = e
        /\ e \in Employees
    BY <1>1, <1>4 DEF SessionMatches, GatewayInv, RegistryMatchesSessions, TypeOK, Request
  <2>3. /\ byEmployee' = Without(byEmployee, {e})
        /\ employeeByIp' = Without(employeeByIp, {byEmployee[e].ip})
    <3>1. byEmployee' = Without(byEmployee, {e}) /\ employeeByIp' = ForgetAddress(e)
      BY <2>1, <2>2 DEF Unbind
    <3>2. {a \in {byEmployee[e].ip} : a \in DOMAIN employeeByIp /\ employeeByIp[a] = e}
            = {byEmployee[e].ip}
      BY <2>2
    <3> QED BY <3>1, <3>2, <2>2 DEF ForgetAddress
  <2>4. /\ DOMAIN sessions' = DOMAIN sessions \ {t}
        /\ \A x \in DOMAIN sessions' : sessions'[x] = sessions[x]
        /\ DOMAIN byEmployee' = DOMAIN byEmployee \ {e}
        /\ \A x \in DOMAIN byEmployee' : byEmployee'[x] = byEmployee[x]
        /\ DOMAIN employeeByIp' = DOMAIN employeeByIp \ {byEmployee[e].ip}
        /\ \A a \in DOMAIN employeeByIp' : employeeByIp'[a] = employeeByIp[a]
    BY <2>1, <2>3 DEF Without
  <2>5. RegistryMatchesSessions'
    BY <2>2, <2>4 DEF GatewayInv, RegistryMatchesSessions
  <2>6. TypeOK'
    <3>1. /\ sessions' \in [DOMAIN sessions' -> Session] /\ DOMAIN sessions' \subseteq Tokens
          /\ byEmployee' \in [DOMAIN byEmployee' -> Endpoint]
          /\ DOMAIN byEmployee' \subseteq Employees
          /\ employeeByIp' \in [DOMAIN employeeByIp' -> Employees]
          /\ DOMAIN employeeByIp' \subseteq Addresses
      BY <2>1, <2>3 DEF GatewayInv, TypeOK, Without
    <3>2. openRows' \in [Employees -> Nat]
      BY <2>1 DEF GatewayInv, TypeOK
    <3> QED BY <1>1, <1>2, <3>1, <3>2 DEF GatewayInv, TypeOK, history
  <2>7. TokenDiscipline' /\ RecordingIsExclusive'
    BY <1>1, <1>2, <2>4 DEF GatewayInv, TokenDiscipline, RecordingIsExclusive, history
  <2>8. HandedWorkIsCurrent'
    BY <1>1, <2>4 DEF GatewayInv, HandedWorkIsCurrent, history
  <2>9. AttendanceInv'
    <3>1. \A x \in DOMAIN sessions' : sessions'[x].employee # e
      BY <2>2, <2>4, OneSessionPerEmployee DEF GatewayInv
    <3>2. /\ openRows \in [Employees -> Nat]
          /\ \A x \in Employees : openRows[x] \in {0, 1}
          /\ \A y \in DOMAIN sessions :
               role[sessions[y].employee] = "worker" /\ sessions[y].employee \in Employees
                 => openRows[sessions[y].employee] = 1
      BY DEF GatewayInv, TypeOK, AttendanceInv, LoggedInIsPresent, LoggedIn
    <3>3. /\ openRows'[e] = 0
          /\ \A x \in Employees \ {e} : openRows'[x] = openRows[x]
      BY <2>1, <2>2, <3>2
    <3>4. \A x \in Employees : openRows'[x] \in {0, 1}
      BY <3>2, <3>3
    <3>5. LoggedInIsPresent'
      BY <1>1, <2>4, <3>1, <3>2, <3>3 DEF LoggedInIsPresent, LoggedIn
    <3> QED BY <3>4, <3>5 DEF AttendanceInv
  <2> QED BY <1>2, <2>5, <2>6, <2>7, <2>8, <2>9 DEF GatewayInv
<1> QED BY <1>3, <1>4

\* Revoking an account preserves the invariant.
LEMMA RevokeStep ==
  ASSUME GatewayInv, NEW e \in Employees, Revoke(e)
  PROVE  GatewayInv'
<1>1. /\ openRows' = [openRows EXCEPT ![e] = 0]
      /\ role' = [role EXCEPT ![e] = "revoked"]
      /\ UNCHANGED <<running, sessions, registry, holder, req, nextToken, records, history>>
  BY DEF Revoke
<1>2. TypeOK'
  BY <1>1 DEF GatewayInv, TypeOK, registry, history
<1>3. RegistryMatchesSessions' /\ HandedWorkIsCurrent'
  BY <1>1 DEF GatewayInv, RegistryMatchesSessions, HandedWorkIsCurrent, registry, history
<1>4. LockDiscipline' /\ TokenDiscipline' /\ RecordingIsExclusive'
  BY <1>1 DEF GatewayInv, LockDiscipline, TokenDiscipline, RecordingIsExclusive, history
<1>5. AttendanceInv'
  BY <1>1 DEF GatewayInv, TypeOK, AttendanceInv, LoggedInIsPresent, LoggedIn
<1> QED BY <1>2, <1>3, <1>4, <1>5 DEF GatewayInv

\* A shutdown with requests in flight preserves the invariant.
LEMMA StopStep ==
  ASSUME GatewayInv, Stop
  PROVE  GatewayInv'
<1>1. /\ DOMAIN sessions' = {} /\ DOMAIN byEmployee' = {} /\ DOMAIN employeeByIp' = {}
      /\ sessions' \in [DOMAIN sessions' -> Session]
      /\ byEmployee' \in [DOMAIN byEmployee' -> Endpoint]
      /\ employeeByIp' \in [DOMAIN employeeByIp' -> Employees]
      /\ running' = FALSE
      /\ UNCHANGED <<holder, req, nextToken, database, history>>
  BY DEF Stop, EmptyDict
<1>2. TypeOK'
  BY <1>1 DEF GatewayInv, TypeOK, database, history
<1>3. RegistryMatchesSessions' /\ HandedWorkIsCurrent'
  BY <1>1 DEF RegistryMatchesSessions, HandedWorkIsCurrent
<1>4. LockDiscipline' /\ TokenDiscipline' /\ RecordingIsExclusive'
  BY <1>1 DEF GatewayInv, LockDiscipline, TokenDiscipline, RecordingIsExclusive, history
<1>5. AttendanceInv'
  BY <1>1 DEF GatewayInv, AttendanceInv, LoggedInIsPresent, LoggedIn, database
<1> QED BY <1>2, <1>3, <1>4, <1>5 DEF GatewayInv

\* A restart over the old database preserves the invariant.
LEMMA RestartStep ==
  ASSUME GatewayInv, Restart
  PROVE  GatewayInv'
<1>1. /\ DOMAIN sessions' = {} /\ DOMAIN byEmployee' = {} /\ DOMAIN employeeByIp' = {}
      /\ DOMAIN holder' = {} /\ DOMAIN req' = {}
      /\ sessions' \in [DOMAIN sessions' -> Session]
      /\ byEmployee' \in [DOMAIN byEmployee' -> Endpoint]
      /\ employeeByIp' \in [DOMAIN employeeByIp' -> Employees]
      /\ holder' \in [DOMAIN holder' -> Threads]
      /\ req' \in [DOMAIN req' -> Request]
      /\ running' = TRUE /\ restarts' = restarts + 1
      /\ UNCHANGED <<nextToken, database, handed, reported>>
  BY DEF Restart, EmptyDict
<1>2. TypeOK'
  BY <1>1 DEF GatewayInv, TypeOK, database
<1>3. RegistryMatchesSessions' /\ HandedWorkIsCurrent'
  BY <1>1 DEF RegistryMatchesSessions, HandedWorkIsCurrent
<1>4. LockDiscipline' /\ TokenDiscipline' /\ RecordingIsExclusive'
  BY <1>1 DEF GatewayInv, LockDiscipline, TokenDiscipline, RecordingIsExclusive
<1>5. AttendanceInv'
  BY <1>1 DEF GatewayInv, AttendanceInv, LoggedInIsPresent, LoggedIn, database
<1> QED BY <1>2, <1>3, <1>4, <1>5 DEF GatewayInv

\* The employees whose sessions a login of e from ip takes over.
TakenOver(e, ip) == {e} \cup OtherAt(e, ip)

\* A login displaces exactly the sessions of the employees it takes over.
LEMMA DisplacedSessions ==
  ASSUME TypeOK, RegistryMatchesSessions, NEW e \in Employees, NEW ip \in Addresses,
         NEW t \in DOMAIN sessions
  PROVE  t \in Displaced(e, ip) <=> sessions[t].employee \in TakenOver(e, ip)
<1>1. /\ sessions[t].employee \in DOMAIN byEmployee
      /\ byEmployee[sessions[t].employee] = [ip |-> sessions[t].ip, token |-> t]
  BY DEF RegistryMatchesSessions
<1>4. byEmployee[sessions[t].employee].token = t
  BY <1>1
<1>2. CASE t \in Displaced(e, ip)
  <2>1. PICK o \in TakenOver(e, ip) \cap DOMAIN byEmployee : t = byEmployee[o].token
    BY <1>2 DEF Displaced, TakenOver
  <2>2. o \in DOMAIN byEmployee
    BY <2>1
  <2>3. sessions[byEmployee[o].token].employee = o
    BY <2>2 DEF RegistryMatchesSessions
  <2>4. sessions[t].employee = o
    BY <2>1, <2>3
  <2> QED BY <1>2, <2>1, <2>4
<1>3. CASE sessions[t].employee \in TakenOver(e, ip)
  BY <1>1, <1>4, <1>3 DEF Displaced, TakenOver
<1> QED BY <1>2, <1>3

\* What bind does to the registry.
LEMMA BindFacts ==
  ASSUME TypeOK, RegistryMatchesSessions, NEW e \in Employees, NEW ip \in Addresses,
         NEW token \in Tokens, Bind(e, ip, token)
  PROVE  /\ DOMAIN byEmployee' = (DOMAIN byEmployee \ OtherAt(e, ip)) \cup {e}
         /\ byEmployee'[e] = [ip |-> ip, token |-> token]
         /\ \A o \in DOMAIN byEmployee \ TakenOver(e, ip) : byEmployee'[o] = byEmployee[o]
         /\ ip \in DOMAIN employeeByIp' /\ employeeByIp'[ip] = e
         /\ \A a \in DOMAIN employeeByIp' \ {ip} :
              /\ a \in DOMAIN employeeByIp
              /\ employeeByIp'[a] = employeeByIp[a]
              /\ employeeByIp[a] # e
         /\ \A a \in DOMAIN employeeByIp : employeeByIp[a] # e => a \in DOMAIN employeeByIp'
         /\ byEmployee' \in [DOMAIN byEmployee' -> Endpoint]
         /\ DOMAIN byEmployee' \subseteq Employees
         /\ employeeByIp' \in [DOMAIN employeeByIp' -> Employees]
         /\ DOMAIN employeeByIp' \subseteq Addresses
<1> DEFINE endpoint == [ip |-> ip, token |-> token]
           kept == Without(byEmployee, OtherAt(e, ip))
           freed == ForgetAddress(e)
<1>1. byEmployee' = Put(kept, e, endpoint) /\ employeeByIp' = Put(freed, ip, e)
  BY DEF Bind
<1>2. /\ DOMAIN kept = DOMAIN byEmployee \ OtherAt(e, ip)
      /\ \A o \in DOMAIN kept : kept[o] = byEmployee[o]
      /\ kept \in [DOMAIN kept -> Endpoint] /\ DOMAIN kept \subseteq Employees
  BY DEF Without, TypeOK
<1>3. /\ \A a \in DOMAIN freed :
           a \in DOMAIN employeeByIp /\ freed[a] = employeeByIp[a] /\ employeeByIp[a] # e
      /\ \A a \in DOMAIN employeeByIp : employeeByIp[a] # e => a \in DOMAIN freed
      /\ freed \in [DOMAIN freed -> Employees] /\ DOMAIN freed \subseteq Addresses
  <2>1. CASE e \notin DOMAIN byEmployee
    <3>1. freed = employeeByIp
      BY <2>1 DEF ForgetAddress
    <3>2. \A a \in DOMAIN employeeByIp : employeeByIp[a] # e
      BY <2>1 DEF RegistryMatchesSessions
    <3> QED BY <3>1, <3>2 DEF TypeOK
  <2>2. CASE e \in DOMAIN byEmployee
    <3> DEFINE old == byEmployee[e].ip
    <3>1. old \in DOMAIN employeeByIp /\ employeeByIp[old] = e
      BY <2>2 DEF RegistryMatchesSessions
    <3>2. {a \in {old} : a \in DOMAIN employeeByIp /\ employeeByIp[a] = e} = {old}
      BY <3>1
    <3>3. freed = Without(employeeByIp, {old})
      BY <2>2, <3>2 DEF ForgetAddress
    <3>4. \A a \in DOMAIN employeeByIp : employeeByIp[a] = e => a = old
      BY DEF RegistryMatchesSessions
    <3> QED BY <3>1, <3>3, <3>4 DEF Without, TypeOK
  <2> QED BY <2>1, <2>2
<1>4. endpoint \in Endpoint
  BY DEF Endpoint
<1>5. /\ DOMAIN byEmployee' = DOMAIN kept \cup {e}
      /\ byEmployee'[e] = endpoint
      /\ \A o \in DOMAIN kept \ {e} : byEmployee'[o] = kept[o]
      /\ byEmployee' \in [DOMAIN byEmployee' -> Endpoint]
  <2> HIDE DEF kept, endpoint
  <2> QED BY <1>1, <1>2, <1>4 DEF Put
<1>6. /\ DOMAIN employeeByIp' = DOMAIN freed \cup {ip}
      /\ employeeByIp'[ip] = e
      /\ \A a \in DOMAIN freed \ {ip} : employeeByIp'[a] = freed[a]
      /\ employeeByIp' \in [DOMAIN employeeByIp' -> Employees]
  <2> HIDE DEF freed
  <2> QED BY <1>1, <1>3 DEF Put
<1> HIDE DEF kept, freed
<1>7. \A o \in DOMAIN byEmployee \ TakenOver(e, ip) : byEmployee'[o] = byEmployee[o]
  BY <1>2, <1>5 DEF TakenOver
<1>8. \A a \in DOMAIN employeeByIp' \ {ip} :
              /\ a \in DOMAIN employeeByIp
              /\ employeeByIp'[a] = employeeByIp[a]
              /\ employeeByIp[a] # e
  BY <1>3, <1>6
<1> QED BY <1>2, <1>3, <1>5, <1>6, <1>7, <1>8

\* A login keeps the registry and the sessions in step.
LEMMA BindKeepsRegistry ==
  ASSUME TypeOK, RegistryMatchesSessions, NEW e \in Employees, NEW ip \in Addresses,
         NEW token \in Tokens, token \notin DOMAIN sessions, Bind(e, ip, token),
         sessions' = Put(Without(sessions, Displaced(e, ip) \cap DOMAIN sessions), token,
                         [employee |-> e, ip |-> ip])
  PROVE  /\ RegistryMatchesSessions'
         /\ DOMAIN sessions' =
              {t \in DOMAIN sessions : sessions[t].employee \notin TakenOver(e, ip)} \cup {token}
         /\ sessions'[token] = [employee |-> e, ip |-> ip]
         /\ \A t \in DOMAIN sessions' \ {token} : sessions'[t] = sessions[t]
<1>1. /\ DOMAIN sessions' = (DOMAIN sessions \ Displaced(e, ip)) \cup {token}
      /\ sessions'[token] = [employee |-> e, ip |-> ip]
      /\ \A t \in DOMAIN sessions' \ {token} : sessions'[t] = sessions[t]
  BY DEF Put, Without
<1>2. DOMAIN sessions' =
        {t \in DOMAIN sessions : sessions[t].employee \notin TakenOver(e, ip)} \cup {token}
  BY <1>1, DisplacedSessions
<1>3. /\ DOMAIN byEmployee' = (DOMAIN byEmployee \ OtherAt(e, ip)) \cup {e}
      /\ byEmployee'[e] = [ip |-> ip, token |-> token]
      /\ \A o \in DOMAIN byEmployee \ TakenOver(e, ip) : byEmployee'[o] = byEmployee[o]
      /\ ip \in DOMAIN employeeByIp' /\ employeeByIp'[ip] = e
      /\ \A a \in DOMAIN employeeByIp' \ {ip} :
           /\ a \in DOMAIN employeeByIp
           /\ employeeByIp'[a] = employeeByIp[a]
           /\ employeeByIp[a] # e
      /\ \A a \in DOMAIN employeeByIp : employeeByIp[a] # e => a \in DOMAIN employeeByIp'
  BY BindFacts
<1>4. \A t \in DOMAIN sessions' :
        /\ sessions'[t].employee \in DOMAIN byEmployee'
        /\ byEmployee'[sessions'[t].employee] = [ip |-> sessions'[t].ip, token |-> t]
  <2> TAKE t \in DOMAIN sessions'
  <2>1. CASE t = token
    BY <1>1, <1>3, <2>1
  <2>2. CASE t # token
    <3>1. /\ t \in DOMAIN sessions /\ sessions'[t] = sessions[t]
          /\ sessions[t].employee \notin TakenOver(e, ip)
      BY <1>1, <1>2, <2>2
    <3> DEFINE o == sessions[t].employee
    <3>2. o \in DOMAIN byEmployee /\ byEmployee[o] = [ip |-> sessions[t].ip, token |-> t]
      BY <3>1 DEF RegistryMatchesSessions
    <3>3. o \notin OtherAt(e, ip) /\ o \in DOMAIN byEmployee \ TakenOver(e, ip)
      BY <3>1, <3>2 DEF TakenOver
    <3> HIDE DEF o
    <3>4. o \in DOMAIN byEmployee' /\ byEmployee'[o] = byEmployee[o]
      BY <1>3, <3>3
    <3>5. sessions'[t].employee = o /\ sessions'[t].ip = sessions[t].ip
      BY <3>1 DEF o
    <3> QED BY <3>2, <3>4, <3>5
  <2> QED BY <2>1, <2>2
<1>5. \A o \in DOMAIN byEmployee' :
        /\ byEmployee'[o].token \in DOMAIN sessions'
        /\ sessions'[byEmployee'[o].token].employee = o
        /\ byEmployee'[o].ip \in DOMAIN employeeByIp'
        /\ employeeByIp'[byEmployee'[o].ip] = o
  <2> TAKE o \in DOMAIN byEmployee'
  <2>1. CASE o = e
    BY <1>1, <1>3, <2>1
  <2>2. CASE o # e
    <3>1. /\ o \in DOMAIN byEmployee \ TakenOver(e, ip)
          /\ byEmployee'[o] = byEmployee[o]
      BY <1>3, <2>2 DEF TakenOver
    <3>2. /\ byEmployee[o].token \in DOMAIN sessions
          /\ sessions[byEmployee[o].token].employee = o
          /\ byEmployee[o].ip \in DOMAIN employeeByIp
          /\ employeeByIp[byEmployee[o].ip] = o
      BY <3>1 DEF RegistryMatchesSessions
    <3>3. byEmployee[o].ip # ip
      BY <3>1, <3>2, <2>2 DEF TakenOver, OtherAt, TypeOK
    <3>4. byEmployee[o].token \in DOMAIN sessions' /\ byEmployee[o].token # token
      BY <1>2, <3>1, <3>2
    <3>5. sessions'[byEmployee[o].token] = sessions[byEmployee[o].token]
      BY <1>1, <3>4
    <3>6. byEmployee[o].ip \in DOMAIN employeeByIp'
      BY <1>3, <2>2, <3>2
    <3>7. employeeByIp'[byEmployee[o].ip] = employeeByIp[byEmployee[o].ip]
      BY <1>3, <3>3, <3>6
    <3> QED BY <3>1, <3>2, <3>4, <3>5, <3>6, <3>7
  <2> QED BY <2>1, <2>2
<1>6. \A a \in DOMAIN employeeByIp' :
        /\ employeeByIp'[a] \in DOMAIN byEmployee'
        /\ byEmployee'[employeeByIp'[a]].ip = a
  <2> TAKE a \in DOMAIN employeeByIp'
  <2>1. CASE a = ip
    BY <1>3, <2>1
  <2>2. CASE a # ip
    <3> DEFINE o == employeeByIp[a]
    <3>1. a \in DOMAIN employeeByIp /\ employeeByIp'[a] = o /\ o # e
      BY <1>3, <2>2
    <3>2. o \in DOMAIN byEmployee /\ byEmployee[o].ip = a
      BY <3>1 DEF RegistryMatchesSessions
    <3>3. o \notin OtherAt(e, ip)
      BY <2>2, <3>2 DEF OtherAt, RegistryMatchesSessions
    <3> HIDE DEF o
    <3> QED BY <1>3, <3>1, <3>2, <3>3 DEF TakenOver
  <2> QED BY <2>1, <2>2
<1>7. RegistryMatchesSessions'
  BY <1>4, <1>5, <1>6 DEF RegistryMatchesSessions
<1> QED BY <1>1, <1>2, <1>7

\* The critical section of a login preserves the invariant.
LEMMA BindSessionStep ==
  ASSUME GatewayInv, NEW th \in Threads, BindSession(th)
  PROVE  GatewayInv'
<1> DEFINE e         == req[th].employee
           ip        == req[th].ip
           n         == nextToken
           displaced == Displaced(e, ip) \cap DOMAIN sessions
           ended     == {sessions[t].employee : t \in displaced} \ {e}
<1>1. /\ th \in DOMAIN req
      /\ req[th].kind = "auth" /\ req[th].pc = "locked"
      /\ Bind(e, ip, n)
      /\ sessions' = Put(Without(sessions, displaced), n, [employee |-> e, ip |-> ip])
      /\ openRows' = Attendance(ended, e)
      /\ req' = [req EXCEPT ![th].pc = "bound", ![th].token = n]
      /\ nextToken' = n + 1
      /\ UNCHANGED <<running, holder, role, records, history>>
  BY DEF BindSession, At
<1>2. /\ TypeOK /\ RegistryMatchesSessions
      /\ e \in Employees /\ ip \in Addresses /\ n \in Tokens
      /\ n \notin DOMAIN sessions /\ n \notin DOMAIN handed
  BY <1>1 DEF GatewayInv, TypeOK, Request, TokenDiscipline, Tokens
<1>3. /\ DOMAIN req' = DOMAIN req
      /\ req' \in [DOMAIN req' -> Request]
      /\ req'[th].pc = "bound" /\ req'[th].token = n
      /\ req'[th].kind = "auth" /\ req'[th].employee = e
      /\ \A u \in DOMAIN req \ {th} : req'[u] = req[u]
  BY <1>1, <1>2 DEF TypeOK, Request, Tokens
<1> HIDE DEF e, ip, n
<1>4. /\ RegistryMatchesSessions'
      /\ DOMAIN sessions' =
           {t \in DOMAIN sessions : sessions[t].employee \notin TakenOver(e, ip)} \cup {n}
      /\ sessions'[n] = [employee |-> e, ip |-> ip]
      /\ \A t \in DOMAIN sessions' \ {n} : sessions'[t] = sessions[t]
  BY <1>1, <1>2, BindKeepsRegistry
<1>5. sessions'[n].employee = e
  BY <1>4
<1>6. \A t \in DOMAIN sessions' \ {n} :
        t \in DOMAIN sessions /\ sessions'[t].employee = sessions[t].employee
  BY <1>4
<1>7. TypeOK'
  <2>1. /\ byEmployee' \in [DOMAIN byEmployee' -> Endpoint]
        /\ DOMAIN byEmployee' \subseteq Employees
        /\ employeeByIp' \in [DOMAIN employeeByIp' -> Employees]
        /\ DOMAIN employeeByIp' \subseteq Addresses
    BY <1>1, <1>2, BindFacts
  <2>2. sessions' \in [DOMAIN sessions' -> Session] /\ DOMAIN sessions' \subseteq Tokens
    <3> DEFINE kept == Without(sessions, displaced)
               new == [employee |-> e, ip |-> ip]
    <3>1. kept \in [DOMAIN kept -> Session] /\ DOMAIN kept \subseteq Tokens
      BY <1>2, WithoutType DEF TypeOK
    <3>2. new \in Session
      BY <1>2 DEF Session
    <3>3. sessions' = Put(kept, n, new)
      BY <1>1
    <3> HIDE DEF kept, new
    <3> QED BY <1>2, <3>1, <3>2, <3>3, PutType
  <2>3. openRows' \in [Employees -> Nat]
    BY <1>1, <1>2 DEF Attendance, TypeOK
  <2>4. nextToken' \in Tokens
    BY <1>1, <1>2 DEF Tokens
  <2> QED BY <1>1, <1>2, <1>3, <2>1, <2>2, <2>3, <2>4 DEF TypeOK, history
<1>8. LockDiscipline'
  BY <1>1, <1>3 DEF GatewayInv, LockDiscipline, Holding, e
<1>9. TokenDiscipline'
  <2>1. /\ \A t \in DOMAIN sessions : t < n
        /\ \A t \in DOMAIN handed : t < n
        /\ DOMAIN handed \subseteq Nat /\ DOMAIN sessions \subseteq Nat /\ n \in Nat
    BY DEF GatewayInv, TypeOK, TokenDiscipline, Tokens, n
  <2>2. /\ \A t \in DOMAIN sessions' : t < nextToken'
        /\ \A t \in DOMAIN handed' : t < nextToken'
    <3>1. nextToken' = n + 1 /\ handed' = handed
      BY <1>1 DEF history
    <3>2. \A t \in DOMAIN sessions' : t = n \/ t \in DOMAIN sessions
      BY <1>6
    <3>3. \A t \in Nat : t < n \/ t = n => t < n + 1
      BY <2>1
    <3> QED BY <2>1, <3>1, <3>2, <3>3
  <2>3. \A u \in DOMAIN req \ {th} : req[u].kind # "auth" \/ req[u].pc = "bound" =>
          /\ req[u].token \in Nat /\ req[u].token < n
          /\ req[u].token \in DOMAIN sessions =>
               sessions[req[u].token].employee = req[u].employee
    BY <2>1 DEF GatewayInv, TokenDiscipline, Tokens, n
  <2>4. \A u \in DOMAIN req' : req'[u].kind # "auth" \/ req'[u].pc = "bound" =>
          (req'[u].token \in DOMAIN sessions' =>
             sessions'[req'[u].token].employee = req'[u].employee)
    BY <1>3, <1>5, <1>6, <2>1, <2>3
  <2>5. \A u \in DOMAIN req' : req'[u].kind # "auth" => req'[u].token \in DOMAIN handed'
    BY <1>1, <1>3 DEF GatewayInv, TokenDiscipline, history
  <2>6. \A u \in DOMAIN req' : req'[u].pc = "bound" =>
          /\ req'[u].token \in Tokens
          /\ req'[u].token < nextToken'
          /\ req'[u].token \notin DOMAIN handed'
    BY <1>1, <1>2, <1>3, <2>1, <2>3 DEF GatewayInv, TokenDiscipline, history
  <2>7. \A u, v \in DOMAIN req' : req'[u].pc = "bound" /\ req'[v].pc = "bound"
          /\ req'[u].token = req'[v].token => u = v
    BY <1>3, <2>1, <2>3 DEF GatewayInv, TokenDiscipline
  <2> QED BY <2>2, <2>4, <2>5, <2>6, <2>7 DEF TokenDiscipline
<1>10. RecordingIsExclusive'
  <2> SUFFICES ASSUME NEW u \in DOMAIN req', req'[u].pc = "recording",
                      NEW t \in DOMAIN sessions',
                      sessions'[t].employee = req'[u].employee
               PROVE  t = req'[u].token
    BY DEF RecordingIsExclusive
  <2>1. u \in DOMAIN req \ {th} /\ req'[u] = req[u] /\ req[u].pc = "recording"
    BY <1>3
  <2>2. req[u].employee # e
    BY <1>1, <2>1 DEF GatewayInv, LockDiscipline, Holding, e
  <2>3. t # n
    BY <1>5, <2>1, <2>2
  <2> QED BY <1>6, <2>1, <2>3 DEF GatewayInv, RecordingIsExclusive
<1>11. HandedWorkIsCurrent'
  BY <1>1, <1>2, <1>6 DEF GatewayInv, HandedWorkIsCurrent, history
<1>12. AttendanceInv'
  <2>1. \A x \in Employees : openRows[x] \in {0, 1}
    BY DEF GatewayInv, AttendanceInv
  <2>2. \A x \in Employees :
          openRows'[x] = LET left == IF x \in ended THEN 0 ELSE openRows[x]
                         IN  IF x = e /\ left = 0 THEN 1 ELSE left
    BY <1>1 DEF Attendance
  <2>3. \A x \in Employees : openRows'[x] \in {0, 1}
    BY <2>1, <2>2
  <2>4. openRows'[e] = 1
    BY <1>2, <2>1, <2>2
  <2>5. ASSUME NEW x \in Employees \ {e}, role[x] = "worker",
               NEW t \in DOMAIN sessions', sessions'[t].employee = x
        PROVE  openRows'[x] = 1
    <3>1. t \in DOMAIN sessions /\ sessions[t].employee = x /\ x \notin TakenOver(e, ip)
      BY <1>4, <1>5, <1>6, <2>5
    <3>2. x \notin ended
      BY <1>2, <3>1, DisplacedSessions
    <3>3. openRows[x] = 1
      BY <2>5, <3>1 DEF GatewayInv, AttendanceInv, LoggedInIsPresent, LoggedIn
    <3> QED BY <2>2, <3>2, <3>3
  <2>6. LoggedInIsPresent'
    BY <1>1, <2>4, <2>5 DEF LoggedInIsPresent, LoggedIn
  <2> QED BY <2>3, <2>6 DEF AttendanceInv
<1> QED BY <1>4, <1>7, <1>8, <1>9, <1>10, <1>11, <1>12 DEF GatewayInv

-----------------------------------------------------------------------------
(* The invariant                                                           *)

\* The invariant holds when the gateway starts on an empty history.
LEMMA GatewayInit ==
  Init => GatewayInv
<1> SUFFICES ASSUME Init PROVE GatewayInv
  OBVIOUS
<1>1. /\ DOMAIN sessions = {} /\ DOMAIN byEmployee = {} /\ DOMAIN employeeByIp = {}
      /\ DOMAIN holder = {} /\ DOMAIN req = {} /\ DOMAIN handed = {} /\ DOMAIN reported = {}
  BY DEF Init, EmptyDict
<1>2. TypeOK
  BY <1>1 DEF Init, TypeOK, EmptyDict, Tokens
<1>3. RegistryMatchesSessions /\ HandedWorkIsCurrent
  BY <1>1 DEF RegistryMatchesSessions, HandedWorkIsCurrent
<1>4. LockDiscipline /\ TokenDiscipline /\ RecordingIsExclusive
  BY <1>1 DEF LockDiscipline, TokenDiscipline, RecordingIsExclusive
<1>5. AttendanceInv
  BY <1>1 DEF AttendanceInv, LoggedInIsPresent, LoggedIn, Init
<1> QED BY <1>2, <1>3, <1>4, <1>5 DEF GatewayInv

\* The invariant survives a step that changes nothing.
LEMMA GatewayStutter ==
  ASSUME GatewayInv, UNCHANGED vars
  PROVE  GatewayInv'
<1>1. TypeOK'
  BY DEF GatewayInv, vars, registry, database, history, TypeOK
<1>2. RegistryMatchesSessions' /\ HandedWorkIsCurrent' /\ AttendanceInv'
  BY DEF GatewayInv, vars, registry, database, history, RegistryMatchesSessions,
         HandedWorkIsCurrent, AttendanceInv, LoggedInIsPresent, LoggedIn
<1>3. LockDiscipline' /\ TokenDiscipline' /\ RecordingIsExclusive'
  BY DEF GatewayInv, vars, registry, database, history, LockDiscipline, TokenDiscipline,
         RecordingIsExclusive
<1> QED BY <1>1, <1>2, <1>3 DEF GatewayInv

\* Every step of the gateway preserves the invariant.
LEMMA GatewayStep ==
  ASSUME GatewayInv, [Next]_vars
  PROVE  GatewayInv'
<1>1. CASE \E th \in Threads, e \in Employees, ip \in Addresses : VerifyLogin(th, e, ip)
  BY <1>1, VerifyLoginStep
<1>2. CASE \E th \in Threads, kind \in {"state", "logout"}, ip \in Addresses,
             token \in DOMAIN handed : ReceiveRequest(th, kind, token, ip)
  BY <1>2, ReceiveRequestStep
<1>3. CASE \E th \in Threads : AcquireLock(th)
  BY <1>3, AcquireLockStep
<1>4. ASSUME NEW th \in Threads, Work(th)
      PROVE  GatewayInv'
  BY <1>4, BindSessionStep, AnswerLoginStep, RecheckStateStep, RecordStateStep, LogoutStep
     DEF Work
<1>5. CASE \E e \in Employees : Revoke(e)
  BY <1>5, RevokeStep
<1>6. CASE Stop
  BY <1>6, StopStep
<1>7. CASE Restart
  BY <1>7, RestartStep
<1>8. CASE UNCHANGED vars
  BY <1>8, GatewayStutter
<1> QED BY <1>1, <1>2, <1>3, <1>4, <1>5, <1>6, <1>7, <1>8 DEF Next

\* The inductive invariant of the gateway holds in every behaviour.
THEOREM GatewayInvariant ==
  Spec => []GatewayInv
<1>1. GatewayInv /\ [Next]_vars => GatewayInv'
  BY GatewayStep
<1> QED BY GatewayInit, <1>1, PTL DEF Spec

\* Every variable keeps its type, for any number of employees, Jetsons, threads
\* and logins.
THEOREM TypeCorrectness ==
  Spec => []TypeOK
<1>1. GatewayInv => TypeOK
  BY DEF GatewayInv
<1> QED BY GatewayInvariant, <1>1, PTL

\* bind, unbind and clear under the sessions lock keep registry and sessions in
\* step: administrator messages go to the one Jetson the employee works at.
THEOREM RegistryIsConsistent ==
  Spec => []RegistryMatchesSessions
<1>1. GatewayInv => RegistryMatchesSessions
  BY DEF GatewayInv
<1> QED BY GatewayInvariant, <1>1, PTL

\* The attendance row of a worker stays open while the worker is logged in.
THEOREM PresenceIsRecorded ==
  Spec => []LoggedInIsPresent
<1>1. GatewayInv => LoggedInIsPresent
  BY DEF GatewayInv, AttendanceInv
<1> QED BY GatewayInvariant, <1>1, PTL

\* The employee lock makes reading the unfinished work atomic with the login:
\* no report of an earlier login is recorded after it was read.
THEOREM HandedWorkStaysCurrent ==
  Spec => []HandedWorkIsCurrent
<1>1. GatewayInv => HandedWorkIsCurrent
  BY DEF GatewayInv
<1> QED BY GatewayInvariant, <1>1, PTL

-----------------------------------------------------------------------------
(* Attendance ends with the session                                        *)

\* A login closes the attendance of the colleague it displaces.
LEMMA BindClosesAttendance ==
  ASSUME GatewayInv, NEW th \in Threads, BindSession(th),
         NEW x \in Employees, LoggedIn(x), ~LoggedIn(x)'
  PROVE  openRows'[x] = 0
<1> DEFINE e         == req[th].employee
           ip        == req[th].ip
           displaced == Displaced(e, ip) \cap DOMAIN sessions
           ended     == {sessions[t].employee : t \in displaced} \ {e}
<1>1. /\ sessions' = Put(Without(sessions, displaced), nextToken,
                         [employee |-> e, ip |-> ip])
      /\ openRows' = Attendance(ended, e)
  BY DEF BindSession
<1>2. PICK t \in DOMAIN sessions : sessions[t].employee = x
  BY DEF LoggedIn
<1>3. nextToken \in DOMAIN sessions' /\ sessions'[nextToken] = [employee |-> e, ip |-> ip]
  BY <1>1 DEF Put
<1>4. sessions'[nextToken].employee = e
  BY <1>3
<1>5. x # e
  BY <1>3, <1>4 DEF LoggedIn
<1>6. t \in displaced
  <2>1. t # nextToken
    BY DEF GatewayInv, TypeOK, TokenDiscipline, Tokens
  <2>2. CASE t \notin displaced
    <3>1. t \in DOMAIN sessions' /\ sessions'[t] = sessions[t]
      BY <1>1, <2>1, <2>2 DEF Put, Without
    <3> QED BY <1>2, <3>1 DEF LoggedIn
  <2> QED BY <2>2
<1>7. x \in ended
  BY <1>2, <1>5, <1>6
<1> QED BY <1>1, <1>5, <1>7 DEF Attendance

\* A logout closes the attendance of its own employee and no other session.
LEMMA LogoutClosesAttendance ==
  ASSUME GatewayInv, NEW th \in Threads, Logout(th),
         NEW x \in Employees, LoggedIn(x), ~LoggedIn(x)'
  PROVE  openRows'[x] = 0
<1>1. CASE SessionMatches(req[th])
  <2>1. /\ openRows' = [openRows EXCEPT ![req[th].employee] = 0]
        /\ sessions' = Without(sessions, {req[th].token})
        /\ sessions[req[th].token] = [employee |-> req[th].employee, ip |-> req[th].ip]
    BY <1>1 DEF Logout, SessionMatches
  <2>2. PICK t \in DOMAIN sessions : sessions[t].employee = x
    BY DEF LoggedIn
  <2>3. t = req[th].token
    <3>1. CASE t # req[th].token
      <4>1. t \in DOMAIN sessions' /\ sessions'[t] = sessions[t]
        BY <2>1, <3>1 DEF Without
      <4> QED BY <2>2, <4>1 DEF LoggedIn
    <3> QED BY <3>1
  <2>4. req[th].employee = x
    BY <2>1, <2>2, <2>3
  <2> QED BY <2>1, <2>4 DEF GatewayInv, TypeOK
<1>2. CASE ~SessionMatches(req[th])
  <2>1. sessions' = sessions
    BY <1>2 DEF Logout
  <2> QED BY <2>1 DEF LoggedIn
<1> QED BY <1>1, <1>2

\* In every step, a session that ends takes the attendance row with it.
LEMMA AttendanceStep ==
  ASSUME GatewayInv, Next, NEW x \in Employees, LoggedIn(x), ~LoggedIn(x)'
  PROVE  openRows'[x] = 0 \/ Stop \/ Restart
<1>1. sessions' # sessions
  BY DEF LoggedIn
<1>2. CASE \E th \in Threads, e \in Employees, ip \in Addresses : VerifyLogin(th, e, ip)
  BY <1>1, <1>2 DEF VerifyLogin
<1>3. CASE \E th \in Threads, kind \in {"state", "logout"}, ip \in Addresses,
             token \in DOMAIN handed : ReceiveRequest(th, kind, token, ip)
  BY <1>1, <1>3 DEF ReceiveRequest
<1>4. CASE \E th \in Threads : AcquireLock(th)
  BY <1>1, <1>4 DEF AcquireLock
<1>5. ASSUME NEW th \in Threads, Work(th)
      PROVE  openRows'[x] = 0
  <2>1. BindSession(th) \/ Logout(th)
    BY <1>1, <1>5 DEF Work, AnswerLogin, RecheckState, RecordState
  <2> QED BY <2>1, BindClosesAttendance, LogoutClosesAttendance
<1>6. CASE \E e \in Employees : Revoke(e)
  BY <1>1, <1>6 DEF Revoke
<1> QED BY <1>2, <1>3, <1>4, <1>5, <1>6 DEF Next

\* No session is dropped without closing the attendance of its owner in the same
\* critical section, a shutdown of the gateway excepted.
THEOREM AttendanceFollowsSessions ==
  Spec => AttendanceEndsWithSession
<1>1. GatewayInv /\ [Next]_vars =>
        [\A e \in Employees : LoggedIn(e) /\ ~LoggedIn(e)' =>
           openRows'[e] = 0 \/ Stop \/ Restart]_vars
  BY AttendanceStep
<1>2. Spec => [][Next]_vars
  BY DEF Spec
<1> QED BY GatewayInvariant, <1>1, <1>2, PTL DEF AttendanceEndsWithSession

=============================================================================
