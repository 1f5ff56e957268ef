--------------------------- MODULE WorkReporting ---------------------------
(***************************************************************************)
(* The work of one worker, from the operation on the Jetson to the tables  *)
(* of the monitoring PC and back at the next login.                        *)
(*                                                                         *)
(* Jetson: WorkerWindow drives WorkStateController (module WorkState) from *)
(* its buttons, the STM32 board and the AI thread; every published         *)
(* snapshot is a report in the queue of MonitoringEventThread, which sends *)
(* one at a time and never again.  Monitoring PC: the gateway records a    *)
(* report whose token is live (module WorkTables).                         *)
(*                                                                         *)
(* What MonitoringGateway shows is taken for granted here: a login and a   *)
(* report of the same employee do not overlap (HandedWorkIsCurrent), and   *)
(* an employee has at most one live token (RegistryMatchesSessions).       *)
(***************************************************************************)
EXTENDS WorkState, WorkTables

CONSTANTS
  Totals,      \* total_steps of each product
  MaxTotal,    \* no product has more steps (the dialog of a product allows 999)
  MaxReports,  \* bound: reports published
  MaxLogins,   \* bound: logins
  MaxFaults    \* bound: crashes, lost answers, gateway restarts, board resets

ASSUME ReportingAssumption ==
  /\ MaxTotal \in Nat /\ Totals \in [Products -> 1..MaxTotal]
  /\ \A s \in Snapshots(Products, MaxTotal) : s.event \in Events
  /\ MaxReports \in Nat /\ MaxLogins \in Nat /\ MaxFaults \in Nat

VARIABLES
  snapshot,    \* WorkStateController.snapshot; after the program ended, its last value
  queue,       \* MonitoringEventThread._queue
  sending,     \* the request the thread waits for: at most one report
  phase,       \* out (no window), in, terminating (the disconnect dialog is up)
  token,       \* token of the current or last window: the number of logins so far
  asked,       \* the AI request that makes _ai_busy true, if any
  refreshing,  \* a product list is being fetched on the refresh button
  live,        \* the employee's token in the gateway, 0 for none
  late,        \* requests the Jetson has given up on, still on their way
  runs,        \* the work history in the database
  job,         \* history: how many jobs were begun or taken up
  intact,      \* history: nothing disturbed the reports since the login
  published,   \* reports published so far
  faults       \* faults so far

jetson  == <<snapshot, queue, sending, phase, token, asked, refreshing>>
gateway == <<live, late, runs>>
history == <<job, intact, published, faults>>
vars == <<jetson, gateway, history>>

NotAsked == [job |-> 0, step |-> 0, pending |-> FALSE]

\* An operation of the controller: the reports it publishes are queued.
Apply(operation) ==
  /\ published + Len(operation.published) <= MaxReports      \* bound
  /\ snapshot' = operation.next
  /\ queue' = queue \o operation.published
  /\ published' = published + Len(operation.published)

Fault == faults < MaxFaults /\ faults' = faults + 1          \* bound

Windowed == phase # "out"

\* The report is refused: the window learns it and puts up the dialog.
Fail == phase' = "terminating" /\ intact' = FALSE

-----------------------------------------------------------------------------
(* Login: the gateway binds a new token and returns the unfinished work;   *)
(* the window fetches the products and restores the work, or selects a     *)
(* product.  Until then the controller has no product and refuses all.     *)

Login(product) ==
  /\ phase = "out"
  /\ token < MaxLogins                                       \* bound
  /\ published < MaxReports                                  \* bound
  /\ LET unfinished == IncompleteWork(runs, Totals)
         first == IF unfinished = NoWork THEN Configure(product, Totals[product])
                  ELSE RestoreState(unfinished)
     IN  /\ snapshot' = first.next
         /\ queue' = first.published
  /\ published' = published + 1
  /\ sending' = <<>>
  /\ phase' = "in"
  /\ token' = token + 1
  /\ live' = token + 1
  /\ asked' = NotAsked
  /\ refreshing' = FALSE
  /\ job' = job + 1
  /\ intact' = TRUE
  /\ UNCHANGED <<late, runs, faults>>

-----------------------------------------------------------------------------
(* Operations of the window: buttons, UART messages, product list          *)

ChooseProduct(product) ==
  /\ phase = "in"
  /\ snapshot.state = "idle"
  /\ Apply(Configure(product, Totals[product]))
  /\ UNCHANGED <<sending, phase, token, asked, refreshing, gateway, job, intact, faults>>

RefreshProducts ==
  /\ phase = "in"
  /\ snapshot.state = "idle"
  /\ ~refreshing
  /\ refreshing' = TRUE
  /\ UNCHANGED <<snapshot, queue, sending, phase, token, asked, gateway, history>>

\* _on_products_fetched: the first product of the list is configured, whatever
\* has been started in the meantime.
ProductsFetched(product) ==
  /\ Windowed
  /\ refreshing
  /\ refreshing' = FALSE
  /\ Apply(Configure(product, Totals[product]))
  /\ intact' = (intact /\ snapshot.state = "idle")
  /\ UNCHANGED <<sending, phase, token, asked, gateway, job, faults>>

StartWork ==
  /\ Windowed
  /\ snapshot.state = "idle"
  /\ Apply(Start(snapshot))
  /\ job' = job + 1
  /\ UNCHANGED <<sending, phase, token, asked, refreshing, gateway, intact, faults>>

\* "Start" from a board that was reset and stands at step 0 during the work.
StrayStart ==
  /\ Windowed
  /\ snapshot.state \in {"running", "paused"}
  /\ Fault
  /\ Apply(Start(snapshot))
  /\ IF snapshot.state = "running"
     THEN job' = job + 1 /\ intact' = FALSE
     ELSE UNCHANGED <<job, intact>>
  /\ UNCHANGED <<sending, phase, token, asked, refreshing, gateway>>

\* Pause, resume and defect, on the screen or on the board.
Operate ==
  /\ Windowed
  /\ \/ snapshot.state = "running" /\ Apply(Pause(snapshot))
     \/ snapshot.state = "paused"  /\ Apply(Resume(snapshot))
     \/ snapshot.state = "running" /\ Apply(RegisterDefect(snapshot))
  /\ UNCHANGED <<sending, phase, token, asked, refreshing, gateway, job, intact, faults>>

\* request_ai_judgement: refused while _ai_busy.
RequestJudgement ==
  /\ Windowed
  /\ asked = NotAsked
  /\ snapshot.state = "running"
  /\ asked' = [job |-> job, step |-> snapshot.step, pending |-> TRUE]
  /\ UNCHANGED <<snapshot, queue, sending, phase, token, refreshing, gateway, history>>

\* handle_ai_result: the verdict goes to whatever the controller works on now.
HandleResult(verdict) ==
  /\ Windowed
  /\ asked.pending
  /\ asked' = NotAsked
  /\ Apply(ApplyJudgement(snapshot, verdict))
  /\ UNCHANGED <<sending, phase, token, refreshing, gateway, job, intact, faults>>

\* AiInferenceThread.run: an exception yields no result, _ai_busy stays true.
InferenceFails ==
  /\ Windowed
  /\ asked.pending
  /\ asked' = [asked EXCEPT !.pending = FALSE]
  /\ UNCHANGED <<snapshot, queue, sending, phase, token, refreshing, gateway, history>>

-----------------------------------------------------------------------------
(* MonitoringEventThread and the gateway                                   *)

\* Mutant: the sender gives up once the disconnect dialog is up.
SendWhileIn ==
  /\ phase = "in"
  /\ sending = <<>>
  /\ queue # <<>>
  /\ sending' = <<Head(queue)>>
  /\ queue' = Tail(queue)
  /\ UNCHANGED <<snapshot, phase, token, asked, refreshing, gateway, history>>

Send ==
  /\ Windowed
  /\ sending = <<>>
  /\ queue # <<>>
  /\ sending' = <<Head(queue)>>
  /\ queue' = Tail(queue)
  /\ UNCHANGED <<snapshot, phase, token, asked, refreshing, gateway, history>>

\* The gateway records a report with a live token, or refuses it.
Recordable(report, t) == live = t /\ Acceptable(runs, Totals, report)

Answered ==
  /\ Windowed
  /\ sending # <<>>
  /\ sending' = <<>>
  /\ IF Recordable(sending[1], token)
     THEN runs' = Recorded(runs, sending[1]) /\ UNCHANGED <<phase, intact>>
     ELSE Fail /\ UNCHANGED runs
  /\ UNCHANGED <<snapshot, queue, token, asked, refreshing, live, late, job, published, faults>>

\* The request was lost, or only its answer: then it still is, or will be, handled.
TimedOut ==
  /\ Windowed
  /\ sending # <<>>
  /\ Fault
  /\ sending' = <<>>
  /\ late' \in {late, Append(late, [report |-> sending[1], token |-> token])}
  /\ Fail
  /\ UNCHANGED <<snapshot, queue, token, asked, refreshing, live, runs, job, published>>

LateRequest(i) ==
  /\ late' = RemoveAt(late, i)
  /\ runs' = IF Recordable(late[i].report, late[i].token)
             THEN Recorded(runs, late[i].report) ELSE runs
  /\ UNCHANGED <<jetson, live, history>>

-----------------------------------------------------------------------------
(* How a window ends                                                       *)

\* The queue dies with the thread; a request on the wire does not.
Quit ==
  /\ phase' = "out"
  /\ queue' = <<>>
  /\ sending' = <<>>
  /\ late' = late \o [i \in DOMAIN sending |-> [report |-> sending[i], token |-> token]]
  /\ UNCHANGED <<snapshot, token, asked, refreshing, runs, job, intact, published>>

\* closeEvent -> logout_and_stop: the logout request comes first, then the
\* thread is stopped; a lost logout request is ignored.
Close ==
  /\ Windowed
  /\ Quit
  /\ \/ live' = (IF live = token THEN 0 ELSE live) /\ UNCHANGED faults
     \/ Fault /\ UNCHANGED live

\* Power cut or killed process.
Crash ==
  /\ Windowed
  /\ Fault
  /\ Quit
  /\ UNCHANGED live

\* ServerMonitor finds the monitoring PC unreachable.
Disconnected ==
  /\ phase = "in"
  /\ Fault
  /\ phase' = "terminating"
  /\ UNCHANGED <<snapshot, queue, sending, token, asked, refreshing, gateway, job, intact, published>>

\* Sessions live in the memory of the gateway only.
GatewayRestart ==
  /\ live # 0
  /\ Fault
  /\ live' = 0
  /\ late' = <<>>
  /\ intact' = (intact /\ ~Windowed)
  /\ UNCHANGED <<jetson, runs, job, published>>

-----------------------------------------------------------------------------
Init ==
  /\ snapshot \in {Configure(product, Totals[product]).next : product \in Products}
  /\ queue = <<>>
  /\ sending = <<>>
  /\ phase = "out"
  /\ token = 0
  /\ asked = NotAsked
  /\ refreshing = FALSE
  /\ live = 0
  /\ late = <<>>
  /\ runs = EmptyDict
  /\ job = 0
  /\ intact = TRUE
  /\ published = 0
  /\ faults = 0

Next ==
  \/ \E product \in Products :
       Login(product) \/ ChooseProduct(product) \/ ProductsFetched(product)
  \/ RefreshProducts
  \/ StartWork \/ StrayStart \/ Operate
  \/ RequestJudgement \/ InferenceFails
  \/ \E verdict \in {"PASS", "FAIL"} : HandleResult(verdict)
  \/ Send \/ Answered \/ TimedOut
  \/ \E i \in DOMAIN late : LateRequest(i)
  \/ Close \/ Crash \/ Disconnected \/ GatewayRestart

Spec == Init /\ [][Next]_vars

\* The sending thread is scheduled, and a request is answered or times out
\* (MONITORING_REQUEST_TIMEOUT_SECONDS).
FairSpec == Spec /\ WF_vars(Send) /\ WF_vars(Answered \/ TimedOut)

-----------------------------------------------------------------------------
(* What the worker can take up: the mapping to ResumableWork               *)

NoPoint == [product |-> "none"]

Point(s) ==
  IF s.state \in {"running", "paused"} /\ s.result # "defect"
  THEN [product |-> s.product, step |-> s.step, paused |-> s.state = "paused"]
  ELSE NoPoint

\* NoWork is neither running nor paused.
SavedPoint == Point(IncompleteWork(runs, Totals))

\* The request of an ended window that is still on its way: there is at most one.
OnWire ==
  LET wire == {i \in DOMAIN late : late[i].token = live}
  IN  IF wire = {} THEN <<>> ELSE <<late[CHOOSE i \in wire : TRUE].report>>

\* The points on their way, oldest first; an idle report has none.
PointsUnderway ==
  LET reports == OnWire \o sending \o queue
  IN  [i \in DOMAIN reports |-> Point(reports[i])]

\* While reports are lost or refused, none counts.
Backlog == IF intact THEN PointsUnderway ELSE <<>>

\* Work is under way in a window only.
WindowPoint == IF Windowed THEN Point(snapshot) ELSE NoPoint

Resumable == INSTANCE ResumableWork WITH
  work     <- WindowPoint,
  backlog  <- Backlog,
  saved    <- SavedPoint,
  present  <- Windowed

-----------------------------------------------------------------------------
(* Properties                                                              *)

\* The shape of the snapshot, of the reports underway and of the session.
TypeOK ==
  /\ snapshot \in Snapshots(Products, MaxTotal)
  /\ \A i \in DOMAIN queue : queue[i] \in Snapshots(Products, MaxTotal)
  /\ Len(sending) <= 1 /\ \A i \in DOMAIN sending : sending[i] \in Snapshots(Products, MaxTotal)
  /\ phase \in {"out", "in", "terminating"}
  /\ token \in 0..MaxLogins /\ live \in 0..token
  /\ asked \in [job : 0..job, step : 0..MaxTotal, pending : BOOLEAN]
  /\ refreshing \in BOOLEAN /\ intact \in BOOLEAN
  /\ \A i \in DOMAIN late : late[i].token \in 1..token
  /\ published \in 0..MaxReports /\ faults \in 0..MaxFaults

\* The detailed system keeps the promise of ResumableWork: while nothing disturbs
\* the reports, the tables follow the worker in order and without gaps, through
\* logouts, crashes and late requests, and a login takes up a point the worker
\* really was at.
TakesUpWork == Resumable!Spec

\* The monitoring PC refuses no report of an undisturbed window: the window is
\* not shut down over a product mix-up or a step out of range.
NoRefusalWhileIntact ==
  [][intact /\ Answered => intact']_vars

\* A product that counts as passed was recorded step by step, a pass row for
\* each of its steps: no report is missing in the middle of a history, however
\* often the work is interrupted by a logout and taken up again.
PassedRunIsComplete ==
  \A i \in DOMAIN runs : runs[i].result = "pass" =>
    \A n \in 1..Totals[runs[i].product] :
      /\ n \in DOMAIN runs[i].steps
      /\ \E j \in DOMAIN runs[i].judgements :
           runs[i].judgements[j].step = n /\ runs[i].judgements[j].result = "pass"

\* Each verdict row is an inspection of its own: it was carried by the report of
\* a judgement, not by a pause, a resume or a login.
VerdictRowsAreJudgements ==
  \A i \in DOMAIN runs : \A j \in DOMAIN runs[i].judgements :
    runs[i].judgements[j].source \in {"ai_fail", "step_pass", "complete"}

\* A verdict of the AI is applied to the step whose image was judged.
VerdictIsForItsStep ==
  [][\A verdict \in {"PASS", "FAIL"} :
       HandleResult(verdict) /\ snapshot' # snapshot =>
         asked.job = job /\ asked.step = snapshot.step]_vars

\* A login takes up exactly the work the worker left.
LeftWorkIsTakenUp ==
  [][(\E product \in Products : Login(product)) /\ token > 0
       => Point(snapshot') = Point(snapshot)]_vars

\* The sender drains: whatever answers, refusals and lost requests there are, no
\* report waits in the queue for ever.
QueueDrains == queue # <<>> ~> queue = <<>>

=============================================================================
