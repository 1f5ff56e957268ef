# TLA+ models of the AI Standard Process System

The system leads workers through the steps of an assembly and keeps the history of
it. Three programs take part:

- the **monitoring PC** (`project_admin`, Python/PySide6, SQLite): administration, a
  gateway for the Jetsons, and the database;
- one **Jetson per workbench** (`project_worker`, Python/PySide6): worker window, camera,
  AI judgement of each step;
- one **STM32 board per workbench** (`project_stm`, C, no operating system): four buttons,
  LEDs that show the step, a buzzer, a UART to the Jetson.

This directory holds models of the parts whose correctness depends on order,
concurrency and failure, the TLC configurations that check them on small instances,
and proofs of their safety, and of both refinements, for every size of the system: gateway,
history tables, the way of the reports, firmware, window and board together, and reference
image panel.

## 1. Inventory

### Components, their state and their operations

| component | state | operations | modelled in |
|---|---|---|---|
| Monitoring gateway (`network/monitoring_gateway.py`) | `_sessions`, `_employee_locks`, a request per pool thread | login, state report, logout, read-only requests, start, stop | `MonitoringGateway` |
| Worker endpoint registry (`network/tcp_client.py`) | `_by_employee`, `_employee_by_ip` | bind, unbind, clear, resolve | `MonitoringGateway` |
| Attendance and accounts (`db/employee_repository.py`, `db/work_history_repository.py`) | `employees.role`, open rows of `work_sessions` | verify login, start and end of a work session, revoke | `MonitoringGateway` (partly) |
| Worker state recorder (`services/worker_state_recorder.py`) | `product_runs`, `step_runs`, `pause_logs`, `defect_logs`, `judgement_logs`, `worker_state_events` | record, get_incomplete_work_state | `WorkTables`, `StateRecorder` |
| Product administration (`db/product_repository.py`) | `products` | edit, delete with history | `StateRecorder` (partly) |
| Work state controller (`services/work_state.py`) | the work snapshot | configure, restore, start, pause, resume, defect, judgement | `WorkState` |
| Worker window and state reporter (`ui/worker_window.py`, `services/state_reporter.py`) | `_ai_busy`, dialog, report queue, token | buttons, board messages, AI requests and results, login, close | `WorkReporting`, `Station` |
| Reference images and product list in the window (`ui/worker_window.py`, `services/product_service.py`) | `_requested_guide_key`, `_displayed_guide_key`, cache, two fetch threads | request, fetched, finished, refresh, change of product | `StepGuides` |
| AI inference thread (`devices/ai_judge.py`) | one pending frame | request, result, exception | `Station`, `WorkReporting` (verdicts only) |
| Server monitor (`network/server_monitor.py`) | failure count | reports an unreachable PC | `WorkReporting` (its outcome) |
| STM32 firmware (`main.c`, `key.c`, `buzzer.c`, `timer.c`, `uart.c`, `led.c`) | step, pause, LEDs, melody, button, mailbox, timer, interrupt masks | commands, 4 buttons, note timer, interrupts | `StmFirmware`, abstractly `Board` |
| UART thread and STM32 controller of the Jetson (`devices/uart_manager.py`, `devices/stm_controller.py`) | open port, bytes and lines underway | send, receive, restore, standby, exit, reconnect | `Station` |

`PROJECT.json` lists the remaining parts (windows, camera, detector, schema creation,
image files, scripts, vendor code) with the reason why each is left out.

### Interactions

1. The window drives the controller; each snapshot it publishes is queued as a report.
   A thread sends the reports one at a time with a token and an event id, and never sends
   one again.
2. The gateway checks the token against its sessions, takes the lock of the employee,
   checks again, and lets the recorder write one transaction.
3. A login displaces the employee's older session and any session at the same Jetson,
   then returns the unfinished work, which the window restores.
4. The window sends one-byte commands to the board; the board sends lines for its buttons.
   Neither is answered or repeated, and both sides keep the step and the pause themselves.
   Some presses move the board at once (PAUSE, RESET), START and CHECK only ask.
5. The window fetches the product list and the reference image of each step from the gateway
   with threads whose signals are queued for its event loop.
6. The administrator edits products and revokes accounts in the same database, without
   taking any lock of the gateway.

### What is hard, and what makes each part correct

- *Gateway*: requests check a session before they hold the lock; a newer login may come in
  between. Sessions live in memory and attendance in the database. Correct means: one
  session per employee and per Jetson; registry and sessions agree; attendance follows
  the sessions; the work handed to a Jetson is not outdated by an older token.
- *Recorder*: it must keep the tables consistent for any acceptable reports in any order,
  repeated ones included, while products change. Correct means: one unfinished run, a
  finished run is closed in every table and never changes, one verdict row per report.
- *Reporting*: lost answers, late requests, crashes with a queue in memory, AI results that
  arrive after the work has moved on. Correct means: the next login resumes a point the
  worker really was at; nothing is refused without a cause; a passed product has its steps.
- *Firmware*: the main loop shares button, mailbox and masks with interrupts without
  masking them. Correct means: a melody never hangs, the panel is never closed for good, no
  LED stays behind, a board left alone comes to rest, and what it does for the Jetson does not
  depend on where an interrupt cuts in.
- *Window and board*: buttons on both sides, verdicts and product lists that come late,
  commands that are lost. Correct means: unless something of the kind has happened, both show the same step
  and pause whenever the line is quiet; presses count; a check is answered.
- *Reference images*: a fetch is answered when the work has moved on, ended, or changed its
  product. Correct means: never the image of another product or under a wrong title, and a
  step the work stays at gets its image.

The list "hazards" of `PROJECT.json` gives each hazard with its line and its properties.

## 2. Modules and how they correspond to the code

| module | role |
|---|---|
| `Dicts` | dictionaries: `Put`, `Without`, `EmptyDict` |
| `MonitoringGateway` | the gateway with registry and attendance; one action per critical section |
| `MonitoringGatewayProofs` | its inductive invariant and theorems |
| `WorkTables` | the recorder as operators on the history of one employee |
| `StateRecorder` | the recorder facing arbitrary reports and product edits |
| `WorkTablesProofs` | what one report does to any history: the lemmas of the next modules |
| `StateRecorderProofs` | the recorder's inductive invariant and theorems |
| `WorkState` | the work state controller as operators: snapshot -> next snapshot and published snapshots |
| `WorkReporting` | composition: window, controller, report queue, network, gateway session, tables |
| `WorkReportingProofs` | its inductive invariants, theorems, and the refinement |
| `ResumableWork` | abstract specification of what a login gives back |
| `UartProtocol` | commands and lines on the serial line |
| `Board` | abstract specification of the board: step, pause, LEDs, mailbox, lines |
| `StmFirmware` | main loop, handlers and interrupts of the board; implements `Board` |
| `StmFirmwareProofs` | its inductive invariant, theorems, and the refinement |
| `StmPanelProofs` | which buttons stay enabled: `PanelStaysOpen` |
| `Station` | composition: window, AI thread, product list, serial line and `Board` |
| `StationProofs` | its inductive invariant and theorems |
| `StepGuides` | panel of the reference image, fetch threads, product list |
| `StepGuidesProofs` | its inductive invariant and theorems |
| `MC...` | instances for TLC |

**MonitoringGateway.** A thread of the executor walks a request through program counters:
`auth: verified, locked, bound`; `state: checked, locked, recording`;
`logout: checked, locked`. What the code does under `_sessions_lock` is one action, so
`BindSession` holds the bind in the registry, the removal of displaced sessions, the
attendance of displaced colleagues and one's own. `RecordState` is a separate action: the
sessions lock is released before `record_worker_state` runs. A Jetson knows a token only
once the login was answered (`handed`). `Restart` models both a new start after `stop` and a
crash. `records`, `handed` and `reported` are counters that stand for the history in the
database and what a login read of it.

**WorkTables / StateRecorder.** All statements of the recorder are restricted to one
employee, so one employee's history is enough. `runs` maps ids to runs; a run holds its rows; a step row is open
or closed and has open pauses and a defect row. `Recorded` is the body of `record` in its
order: ensure the run, close earlier steps, ensure the current step, judgement, pause,
defect or completion. `record` is one transaction, so a refused report changes nothing and
needs no action. `Reports` holds every combination of state, result and event the
controller publishes, in any order, since the gateway accepts any of them from a Jetson with
a valid token. The branch of the recorder for reports without an event id is left out: the
worker program always sends one.

**WorkState / WorkReporting.** Each operation of the controller maps a snapshot to the next
one and the snapshots it publishes. `WorkReporting` applies them from the window's handlers,
queues the reports, sends (`Send`), and gets an answer (`Answered`) or not (`TimedOut`, after
which the request may still be handled later: `LateRequest`). After a refusal or a lost
answer the window shows its dialog (`terminating`) while handlers and sender go on, as in
the code. `Close` logs out before it stops the sender. `StrayStart` is a "Start" line from a
board that was reset. What `MonitoringGateway` establishes (one live token, no report of an
older token after a login) is used as one step per request here.

**StmFirmware.** One turn of the main loop serves the mailbox, the note timer and the
button. A handler is a dispatch, which changes what only the main loop touches, and a list
`todo` of the writes it shares with interrupts, performed one at a time, so that an
interrupt may come between any two. Buttons are `enabled` when both the EXTI mask and the
NVIC bit are set. A button interrupt disables the panel (PAUSE only itself). The buttons'
read-modify-write of the mask registers is one write per button. `leds` and `fail` are the
output register of the LEDs; `says` is the line a dispatch has sent. `asked` remembers that
"Check" waits for the answer of the Jetson. The transmission of a line happens while the
handler waits, before its shared writes, so it is part of the dispatch.

**Board.** What the Jetson and the worker can see of the board: a command is taken
(`Serve`), then acknowledged (`Acknowledge`, `Uart_Data_In = 0`); a byte that comes in
between is lost. Interrupts, melodies and disabled buttons are gone: a button may be
pressed at any time. `StmFirmware!Wire` maps the globals of the firmware to it: the mailbox
is `byte` while `dataIn`, a command is being served while the acknowledgement is still to be
written, a line exists for the step after it was said.

**Station.** The window is one thread, so each handler is one action on `snapshot`
(operations of `WorkState`), `judging` (`_ai_busy`), `bytes` (sent, not yet received) and
`lines` (said, not yet received). `refreshing` is the thread that fetches a product list: asked
for while the window is idle (`RefreshProducts`), its list may come during the work and then sets
the window idle without a word to the board (`ProductsFetched`). The exception to one handler,
one action is the restoring of a pause at login, which
sleeps for 100 ms between digit and "U" (`window = "restoring"`). Reports to the monitoring PC
are left to `WorkReporting`. `level` is a history variable: it becomes FALSE with each
disturbance the code has no remedy for (a command lost in the mailbox, a command and a
press that cross, a verdict that is refused, a product list that comes during the work, a lost
port, a crash, a board reset, an inference error, a camera without a frame, a step beyond the
LEDs) and TRUE with a login, a
close, a defect or a completion on a quiet line. A model of the board's buttons and of the
screen at their worst is obtained with `Haste`; `Faults` adds the faults, and `Repeats` lets
a fault, or the fetch of another list, come while an earlier disturbance is not yet made good.

**StepGuides.** `RequestGuide`, `ClearGuide`, `Fetched` and `Finished` are the handlers of the
panel in the order of their early returns; `Operate` is an operation of the controller
followed by `update_work_state` for what it publishes. Each thread sends "fetched" and
then "finished" into the queue of the window; between its end and the handling of
"finished" `isRunning` is false and the window may start another thread beside it. A
download that fails and one that holds no image differ in the wording only. `over` is a
history variable: the work was started over while it ran (see `start` in section 6).

**ResumableWork.** The worker moves from point to point (product, step, paused or not), by the
moves the window offers (`Moves`); the points reached since wait in `backlog`, and the
database follows them one at a time and in order (`Save`). The end of the program loses the
backlog, except that its oldest point may still be on its way (`Leave`), and a login takes up
what is saved and reports it (`TakeUp`). `Break` ends the promise after a failed report, a
refusal, a restart of running work by a reset board, or a product list that arrives after
the start; the next login renews it. `WorkReporting` maps to these variables the snapshot of
an open window (`WindowPoint`), the reports underway - the request an ended window has left on
the wire, the one being sent, the queue (`Backlog`) - and `IncompleteWork`. Reports of an idle
window count as `NoPoint`.

## 3. Runs

All runs finish within five minutes on two workers.

| run | module | checks | states |
|---|---|---|---|
| gateway | MCMonitoringGateway | `TypeOK`, `RegistryMatchesSessions`, `LoggedInIsPresent`, `HandedWorkIsCurrent`, `GatewayInv`, `AttendanceEndsWithSession`, `LocksAreReleased` (liveness) | 832,778 |
| recorder | MCStateRecorder | `TypeOK`, `OneUnfinishedRun`, `FinishedRunIsClosed`, `ResumedStepIsOpen`, `OneVerdictPerReport`, `FinishedRunIsFrozen` | 115,424 |
| reporting | MCWorkReporting | `TypeOK`, `TakesUpWork` (refinement), `NoRefusalWhileIntact`, `QueueDrains` (liveness) | 278,828 |
| calm | MCWorkReporting | `PassedRunIsComplete` without faults | 699,760 |
| firmware | MCStmFirmware | `TypeOK`, `NoteHasTimer`, `PanelStaysOpen`, `NoLedLeftBehind`, `FirmwareInv`, `QuietBoardRests` (liveness), `ImplementsBoard` (refinement) | 219,314 |
| station | MCStation | `TypeOK`, `InStep`, `LedsShowWork`, `PressesCount`, `CheckIsAnswered` (liveness) | 779,843 |
| guides | MCStepGuides | `TypeOK`, `NoForeignGuide`, `StaleGuideIsReplaced`, `GuideInv`, `GuideArrives` (liveness) | 381,362 |
| revoked, rows, left, verdict, start | | one property each that the documents state and the code does not keep (section 6) | |

What the compositions show. *station*: as long as `level` holds, that is without one of
the disturbances section 2 lists, every interleaving of buttons on both sides, verdicts,
product lists for an idle window, restored work and products longer than the LEDs leaves board and
window in step whenever the line is quiet, with the right LEDs. The disturbances themselves are
in the model and do part the two, a product list that comes during the work like the others:
`level` says so, and nothing is claimed until the next defect, completion, login or logout on a
quiet line. That from there on they agree again, whatever the disturbance has left on either
side, is claimed and checked. *firmware*: `ImplementsBoard` justifies that `Station` uses
`Board` in place of the firmware. `PanelStaysOpen` says which buttons a board at rest offers:
PAUSE during work, START at step 0, with one exception it names (section 6). *guides*: a late answer is never shown for another product,
nor after the work; an outdated image of the same product stands only while a thread whose
end replaces it is remembered.

### Bounds and why they are enough

- *gateway*: two employees, two Jetsons and two threads give every conflict the code
  distinguishes (same employee elsewhere, another employee at the same Jetson, two requests
  of one employee). Three tokens let a displaced login displace again; a record and a restart
  let a stale report and a restart meet a login.
- *recorder*: two products, up to two steps, three event ids: a run can be begun, advanced
  and ended, or be ended and a second one begun, with a repetition; one edit.
- *reporting* and its relatives: a product of two steps and one of one step (`MaxTotal = 2`), two logins, five
  to seven published snapshots (`MaxReports`), and one fault. Five snapshots let a work be
  started, advanced, paused and taken up. Seven let a product of two steps be completed
  over a logout. `MaxFaults = 1` puts the fault at every point of each behaviour.
- *station*: LEDs for two steps, a product of one step and one of three: verdicts in the
  middle, on a last step with a LED, and beyond the LEDs. One command and one line on their way at once
  (`MaxBytes`, `MaxLines`), beside the one in the mailbox: a second byte meets an occupied
  mailbox, a line and a command cross. More would only add bytes that wait. `Repeats = FALSE`: a
  fault comes while window and board are level; each is met at every such point and
  all that follows it is explored, until and after both are level again. A fault upon one not
  yet made good is left to the proofs of the safety properties, which hold for either value of
  `Repeats`; for `CheckIsAnswered` it adds nothing, its promise has ended with the first. `start` is the same
  model at its calmest, without faults and haste, and with a LED for each of the three steps: the
  divergence needs neither.
- *guides*: two products of two steps, two threads: one beside the one the window remembers.
  The queue of signals needs no bound, a thread sends two.
- *firmware*: steps up to 2 make the wrap-around of the LEDs happen; no bound on inputs. The
  melodies "pass" and "resume" have two notes (locked and not locked), the others one.

Deadlock is checked for the firmware, which always runs. In the other runs the bounds stop the
models in the end, and an unattended gateway or window really rests.

### Fairness

- `MonitoringGateway!FairSpec`: weak fairness of a thread's steps after it holds the lock.
  They wait for nothing but the sessions lock, which is held for short sections, and
  SQLite. No fairness is assumed of requests or of getting the lock.
- `WorkReporting!FairSpec`: weak fairness of `Send` (a running thread) and of
  `Answered \/ TimedOut`: the client socket has a timeout
  (`MONITORING_REQUEST_TIMEOUT_SECONDS`). Nothing is assumed of workers, board or AI.
- `Station!FairSpec`: weak fairness of the serial line (`Arrive`), of the board's main loop, of
  verdicts, of received lines and of the end of the 100 ms sleep. `Results` and `Lines` are
  events of one event loop, which serves them in order. An inference that fails ends the
  promise by `level`. Nothing is assumed of the worker.
- `StepGuides!FairSpec`: weak fairness of each fetch thread, whose request has a timeout, and of
  the handling of queued signals. Nothing is assumed of the worker or the product list.
- `StmFirmware!FairSpec`: weak fairness of the main loop, whose waits are bounded by
  counters, and of TIM2, which is hardware. Nothing is assumed of buttons or the Jetson.

### Mutants

Each property of a passing run has a mutant in `PROJECT.json`: a plausible bug, placed next
to the definition it replaces and marked "Mutant", under which TLC finds the property
violated. They show what each property is sensitive to, for example a skipped second
session check (`HandedWorkIsCurrent`), a lock left held on a refusal (`LocksAreReleased`), or a
PASS filed under the step just entered (`PassedRunIsComplete`).

## 4. What is proved

Eight modules of proofs. None of them assumes more than the ASSUMEs of its specification. Every
invariant, every action property and both refinements that the runs check are theorems.

### The gateway

`MonitoringGatewayProofs` proves for every value of the constants, that is any number of
employees, Jetsons, threads, logins, records and restarts:

| theorem | statement |
|---|---|
| `GatewayInvariant` | `Spec => []GatewayInv` |
| `TypeCorrectness` | `Spec => []TypeOK` |
| `RegistryIsConsistent` | `Spec => []RegistryMatchesSessions` |
| `PresenceIsRecorded` | `Spec => []LoggedInIsPresent` |
| `HandedWorkStaysCurrent` | `Spec => []HandedWorkIsCurrent` |
| `AttendanceFollowsSessions` | `Spec => AttendanceEndsWithSession` |

The only assumption is `GatewayAssumption`: the three bounds are natural numbers.

**The inductive invariant.** `HandedWorkIsCurrent` is the goal and is not inductive. A report
that is being recorded would break it if another token of its employee were live, so
`RecordingIsExclusive` is needed: it holds when the second check passes, and stays true
because only a login of the same employee could make another token live, and that login
waits for the lock. Hence `LockDiscipline`: a lock is held exactly by the thread whose request
is past it. A displaced colleague's session only disappears, which does no harm. A fresh
token must not be one that is already live or handed out, hence `TokenDiscipline`.
`RegistryMatchesSessions` is needed by `BindSession`: the sessions it drops are exactly those of
the employee and of the address only because the registry knows them all.
`LoggedInIsPresent` needs in addition that no employee has two open rows (`AttendanceInv`).

There is one lemma per action; for `BindSession` lemmas on the displaced sessions
(`DisplacedSessions`, `BindFacts`, `BindKeepsRegistry`) come first. `AttendanceFollowsSessions`
uses that only `BindSession` and `Logout` (besides shutdown and restart) remove sessions.
TLC checks `GatewayInv` in the run `gateway`.

### The recorder

`StateRecorderProofs`, for any products, number of steps, event ids, event names and reports
(`RecorderAssumption`: the bounds are numbers, reports have the fields of a report):

| theorem | statement |
|---|---|
| `RecorderInvariant` | `Spec => []RecorderInv` |
| `RecorderTypeCorrect` | `Spec => []TypeOK` |
| `UnfinishedRunIsUnique` | `Spec => []OneUnfinishedRun` |
| `FinishedRunsAreClosed` | `Spec => []FinishedRunIsClosed` |
| `ResumedStepStaysOpen` | `Spec => []ResumedStepIsOpen` |
| `VerdictsHaveTheirReports` | `Spec => []OneVerdictPerReport` |
| `FinishedRunsAreFrozen` | `Spec => FinishedRunIsFrozen` |

*The inductive invariant.* The three properties need each other: the run a report is written
to is found by `Max`, which is the unfinished one only because it is unique, and the other runs
are left alone only because they are finished. `Healthy` adds that ids have a bound, since
otherwise there would be no next one. The proof follows one report through the recorder
with one lemma per step (`PreviousStepsAreClosed`, `CurrentStepIsThere`, `JudgedRun`,
`PausedRun`, `DefectRun`, `CompleteRun`): a run that is worked on has no defect row yet
(`Worked`), and once the row of the reported step is there its highest row is open
(`TopIsOpen`): it is either the row just inserted or lies above the rows that were
closed. `RecordedHistory` puts them together. That a greatest element exists is proved from the
well-foundedness of `<` on the natural numbers (`BoundedHasGreatest`). These lemmas are in
`WorkTablesProofs`, since the way of the reports rests on them too.

*One verdict per report.* The property is stated with a bijection between the verdict rows and
the reports that carry a verdict, not with two numbers: rows and reports of the same count
could still belong to each other wrongly. It is inductive beside `RecorderInv`. A report adds at
most one row, and its id is new, so the pair joins the bijection (`BijectionGrows`); an
unfinished run is of the product that is reported, which is what `_ensure_product_run` refuses
otherwise; and a deleted product takes rows and reports away together (`BijectionShrinks`).

### The way of the reports

`WorkReportingProofs`, for any products with any number of steps, any bounds on reports, logins
and faults (`ReportingAssumption`):

| theorem | statement |
|---|---|
| `ReportingInvariant` | `Spec => []ReportingInv` |
| `TypeInvariant` | `Spec => []TypeOK` |
| `NothingIsRefused` | `Spec => NoRefusalWhileIntact` |
| `WorkIsTakenUp` | `Spec => TakesUpWork`, that is `Spec => Resumable!Spec` |
| `CalmInvariant` | `Spec => [](Shape /\ Calm)` |
| `PassedUntilFault` | `Spec => [](faults = 0 => PassedRunIsComplete)` |
| `PassedRunsAreComplete` | without faults, `Spec => []PassedRunIsComplete` |

*The inductive invariant.* `Shape` holds whatever happens to the reports: each of them is well
formed for its product, and the history is `Healthy`. `Link` is about an intact link. What the
window shows and what the tables hold differ as long as a report is underway, and what has to be
said is that the reports in between form a chain (`Chained`): the first continues the work in
the tables, each other one continues the one before (`Follows`), and the last one is at the point
of the window. An operation adds a link at the end, an answer takes one away at the start, and a
login begins a new chain at the saved point. After the window has ended at most one request of
the live token is left, and it still continues the tables: it may be recorded late, and a login
that comes first makes its token dead. That the head of the chain follows the tables
is exactly what the recorder wants to see, so it is accepted (`NothingIsRefused`).

*The refinement* has one lemma per group of actions. An operation of the controller is a
`Progress` of one point, or of two when work ends and the window goes idle (`OperationStep`); an
answer and a late request are a `Save` (`SenderStep`, `LateStep`), a login is a `TakeUp`
(`LoginStep`), and logout or crash is a `Leave` (`EndingStep`), where the request in flight
becomes the one on the wire. Whatever costs `intact` is a `Break` (`BrokenStep`). The link is
needed in each: without the chain, `Moves` and the order of `Save` would not follow.

*Passed products.* That a passed product has every step is not implied by the chain, which allows
a completion after a step whose verdict never got there. `Calm` says more, for as long as there
was no fault: a run has a row for each step up to the one it is at and a PASS for each step it
has left (`StepByStep`), and each report underway is at most one step ahead of the one before,
with the PASS of that step (`Succeeds`, `Prepared`). It does not need `intact`: a product list
that arrives after the start abandons work without a gap, and a report the tables refuse is
about another product (`Reached`). A first fault ends it for good: the sender goes on after a lost
report, and the one after it is recorded with the step in between missing (section 5). TLC
checked `ReportingInv` and `Calm` as invariants of the instances of `reporting` and `calm` with
the sets of histories and sequences made finite.

### The firmware

`StmFirmwareProofs` and `StmPanelProofs`, for any number of LEDs and melodies of any length
(`ProtocolAssumption`, `FirmwareAssumption`):

| theorem | statement |
|---|---|
| `FirmwareInvariant` | `Spec => []FirmwareInv` |
| `FirmwareTypeCorrect` | `Spec => []TypeOK` |
| `MelodiesAreTimed` | `Spec => []NoteHasTimer` |
| `LedsFollowTheStep` | `Spec => []NoLedLeftBehind` |
| `FirmwareImplementsBoard` | `Spec => ImplementsBoard`, that is `Spec => Wire!Spec` |
| `PanelAlwaysReopens` | `Spec => []PanelReopens` |
| `PanelNeverGoesDead` | `Spec => []PanelStaysOpen` |

*The inductive invariant.* `NoteHasTimer` is not inductive: a handler first stops the timer
(`timerOff`) and starts it later, and in between only the list of writes to come tells that
the melody goes on. `MelodyRuns` says so: while a melody plays, each `timerOff` in `todo` is
followed by a `timerOn`. For the refinement two facts on `todo` are needed. `AckComesLast`: the
acknowledgement is the last write, so that a command stays "being served" from its dispatch to
the end of the handler, and a byte that arrives meanwhile is lost in both. `SaidIsHeard`: a
handler that has said something has writes to come, none of them an acknowledgement, so that
the step in which the line disappears is a `Deliver` and nothing else.

*The refinement* has one lemma per group of handlers: a dispatch of a command is `Serve`, the
write "ack" is `Acknowledge`, a button that says something is the press of that name, its next
write is `Deliver`, USART2 is `Receive`, and all else - the other writes, notes, the timer, the
buttons' interrupts - is a stutter.

*The buttons.* `PanelStaysOpen` speaks of a board at rest only: PAUSE is enabled, or the board
waits at step 0 and START is. It does not say that START is enabled whenever the board waits,
which is false (section 6). What leads there is `PanelReopens`. Without a check underway one of
four things holds: a melody that has locked the panel is playing; a press waits and no write to
come takes it back; a handler will enable one of these buttons (`Offered`) and then neither
disable it nor take a press back (`Opens`); or one of them is enabled and stays so (`Spared`). The third cannot be disturbed by an
interrupt, because a press that closes the panel afterwards is kept. The fourth turns into
the second when a button is pressed. This is why each handler has to reset `btn_state` before
it enables the panel, and why the reset after the wait for the release of PAUSE, which
may wipe a press, is followed by enabling PAUSE once more. At step 0 the handler of PAUSE does the
same, and there this is the exception: the wiped press may be START, and PAUSE is no way on.

### Window and board

`StationProofs`, for any number of LEDs, any products (at least one: `StationAssumption`), and
lines and commands underway without bound, with all faults and all haste:

| theorem | statement |
|---|---|
| `StationInvariant` | `Spec => []StationInv` |
| `StationTypeOK` | `Spec => []TypeOK` |
| `StationInStep` | `Spec => []InStep` |
| `StationLedsShowWork` | `Spec => []LedsShowWork` |
| `StationPressesCount` | `Spec => PressesCount` |

*The inductive invariant.* `InStep` speaks of a quiet line. On a busy one window and board differ,
and what has to be said is that they are about to agree: `Meet` says that there is a view of the
work to which the lines underway lead the window (`WindowReaches`), each of them fitting the
work when its turn comes (`Apt`), and that the commands underway lead the board to a face that
`Matches` it (`BoardReaches`). The commands include the one in the mailbox until it has taken
effect (`Facing`) and the "U" that a login has not sent yet (`Coming`). Three facts make this
inductive: a line that moves the work meets no command (`LinesAlone`), no line comes from a
closed port, and a "Start" underway comes from a board that is still at step 0
(`StartFromRest`). `level` is what grants them. A product list keeps all of this while the window
is idle, since an idle window has the same view whatever its product; during the work it makes
`level` FALSE (`ListConcord`).

`Matches` is more than `InStep` and `LedsShowWork`: beyond the last LED it leaves the step of the
board open but not its pause, since "P" goes unheard there at step 0 and is heard at another
step. A handler of the window needs one fact only: that its command takes each face that matches
the work before to one that matches the work after (`StartMatched`, `PauseMatched`,
`PassMatched`, ...); "E", "R", "C" and a digit do so for EVERY face, which is why a login, a
logout, a defect or a completion brings both level again. `BoardReaches` is said for all
sequences of faces the commands can produce, `WindowReaches` for one sequence of views, so
that the proofs need no induction over the lines.

### The reference images

`StepGuidesProofs`, for any products, number of steps and number of threads
(`GuideAssumption`):

| theorem | statement |
|---|---|
| `GuideInvariant` | `Spec => []GuideInv` |
| `GuideTypeCorrect` | `Spec => []TypeOK` |
| `NoForeignGuideIsShown` | `Spec => []NoForeignGuide` |
| `StaleGuidesAreReplaced` | `Spec => []StaleGuideIsReplaced` |

*The inductive invariant* ties three things together. `KeptWork`: what the snapshot can be
between two operations. `PanelFits`: what is requested and displayed fits the work and the
product, and what is shown fits what is displayed - or a thread is remembered whose end
replaces it. `Signalled`: a thread's signals are queued in the order "fetched", "finished",
at most one of each, and a thread is freed by its own "finished" only, so that the key of a
queued answer is still the one its thread was started for. Operations of the controller
enter by one lemma (an operation is refused, or publishes its result, or publishes an end and
then an idle snapshot), then each handler has its own.

### Only model-checked

Liveness under fairness (`LocksAreReleased`, `QueueDrains`, `QuietBoardRests`,
`CheckIsAnswered`, `GuideArrives`) and anything about ENABLED are out of the prover's reach, and
so is induction over data; no safety property of the runs needs it any more. The five
properties of section 6 are not theorems but refuted. What the proofs of `WorkReporting` take for
granted about the gateway, `Station` about the board, is proved in the modules of these, but the
composition itself is by argument, except for the board, where `ImplementsBoard` is a theorem.

## 5. Observations that are not runs

*Board and serial line*

- An exception in the inference leaves `_ai_busy` set (`InferenceFails`): no judgement can be
  asked for until the program is started again. Nothing in the code or documents promises
  otherwise, so no property states it.
- A CHECK pressed while the firmware waits for the release of PAUSE has disabled the panel in
  its interrupt and is then wiped by `btn_state = BTN_RELEASED` (main.c:312-316): CHECK and
  RESET stay disabled until the next command or pause. PAUSE stays enabled (`PanelStaysOpen`),
  and pressed twice it opens both again.
- A product list that arrives after START parts window and board: the window is idle, the board
  keeps its step, its LED and its buttons. A CHECK pressed there is refused and leaves the
  board waiting, a PAUSE is ignored by the window (`Station!ProductsFetched`, H23).
- A START pressed before the board has taken the digit of restored work starts work over at
  step 1 on both sides, or lights two LEDs: "S" puts no step LED out. `LedsShowWork` holds again
  after the next login, defect or completion.
- A work beyond step 9 is not restored on the board at all (`stm_controller.py:104`), and
  after the ninth LED a PASS leads the board to step 0, where it offers START.

*Reports*

- When one report is lost while the dialog of the disconnection is up, sender and judgements
  go on, and a product can be recorded as passed without a row for one of its steps.
- After `update_product` has changed the number of steps of a running job, every report of
  it is refused until the next login.
- A product list that arrives after START configures the controller anew: the running work is
  gone from the window and stays unfinished in the tables. The refresh button is disabled
  during the work, the thread that was started before is not.

*Reference images*

- Work that is started over from step 2 while the panel last displayed step 1 keeps "loading":
  `_displayed_guide_key` still is the key of step 1, so that the request returns early
  (worker_window.py:637) although the panel shows the text for step 2. `GuideArrives` exempts
  work that was started over (`over`).
- After a step change the image of the former step stays on the panel, under its own title,
  until the fetch that was going on has ended (line 649); `StaleGuideIsReplaced` bounds this.
- The "finished" of an ended thread makes the window forget the one it started meanwhile
  (line 686). A duplicate fetch may follow, and if that one fails, its text replaces a good
  image and is not retried. `closeEvent` does not wait for a forgotten thread, and only for
  one second for the product list, whose request may take longer.

## 6. Findings

| run | the document says | the code does |
|---|---|---|
| revoked | revocation ends the account and its open attendance | a login that verified the password before the revocation opens a new row |
| left | a new login restores product, step and pause as they were | a logout drops the reports still queued, so an older point is restored |
| rows | each FAIL is a judgement of its own | pausing after a FAIL adds another FAIL row |
| verdict | a result is reflected in the current step exactly | a late result is applied to the next product |
| start | START of the board starts the process while it waits at step 0 | a verdict refused after a pause still sends the board to step 0; its START starts the running work over at step 1 |

The quotations with their lines are in `PROJECT.json`.

Two more disagreements on the buttons of the board have no run of their own; `PanelStaysOpen` is
stated such that it claims neither.

- *START may be dead while the board waits.* `project_stm/README.md:159` says of "Start":
  "공정 시작 요청 (0단계 대기 중일 때 동작)" (works while waiting at step 0). A PAUSE pressed
  while a handler resets the board is kept, since `Reset_System_State` clears `btn_state` before it
  disables PAUSE (main.c:384-386). `Handle_Btn_Pause` at step 0 then clears `btn_state` and enables
  PAUSE only (main.c:283-290): a START pressed between the dispatch and that line has disabled
  every button in its interrupt, is taken back, and PAUSE alone stays enabled, which does nothing
  at step 0. The next command of the Jetson that plays a melody or resets the board opens the
  panel again. TLC refutes `AtRest /\ ~asked /\ step = 0 => "start" \in enabled` on the instance of the run
  `firmware`.
- *"E" and `Reset_System_State` do not disable the buttons.* The comment on
  `Reset_System_State` (main.c:372), `README.md:488` and `project_stm/README.md:69, 84, 152` say
  "버튼 인터럽트 비활성화" (button interrupts disabled). The code ends with
  `Btn_ISR_Enable(1, 0, 0, 0)` (main.c:386) and leaves START enabled, which
  `project_stm/README.md:159` presupposes. `ResetPanel` follows the code, and `PanelStaysOpen` holds
  with START enabled after "E". A START pressed after the end of the program is said to
  nobody and has no effect on the board itself.

## 7. What is left out

- *Image processing* (detector, inspector, normaliser, recipes, camera): a verdict is PASS or
  FAIL. Its correctness is numerical.
- *User interface and text*: windows, labels, log, dialogs, admin messages (one way, without
  state on either side).
- *Gateway*: read-only requests with their image cache, which change no session or history;
  an exception of SQLite inside a login, whose possibility depends on disk and lock timeouts of
  the database and after which the code promises nothing; creating and editing accounts.
- *Monitoring PC*: schema creation and migration, step guide files, quality summaries, windows,
  development scripts.
- *Worker*: search for a serial port and repair of its permissions, test mode, the closing of
  the window while fetches run (`StepGuides`), a product list without products (it leaves the work
  as it is and takes the choice of products away until the next list), the polling
  timer of the server monitor. While the pop-up of a verdict is open the handlers of `Station`
  may run as at any other time, since its loop serves all events.
- *Board*: tones, clock, system tick, start-up code, and the CMSIS headers. These headers and
  the vendor's `system_stm32f4xx.c` are some fifteen of the sixteen thousand lines of C in the
  repository; they define registers and have no behaviour of their own to model. The lines of
  `main.c`, `key.c`, `buzzer.c`, `timer.c`, `uart.c` and `led.c` that hold behaviour are
  modelled, so a figure of coverage over all C lines stays small whatever is modelled. The
  rest of the models is about Python code.

What would come next: an abstract gateway that `MonitoringGateway` implements and `WorkReporting`
uses in place of its one step per request, as `Station` uses `Board`; and the closing of the
window while fetches run.
