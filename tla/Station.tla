------------------------------- MODULE Station -------------------------------
(***************************************************************************)
(* A workbench: the worker's window on the Jetson with its work state      *)
(* controller (module WorkState) and the AI thread, the serial line, and   *)
(* the STM32 board (module Board).                                         *)
(*                                                                         *)
(* Window and board each keep the step and the pause.  Nothing compares    *)
(* them: a command has no answer and is never sent again, a line of the    *)
(* board may reach a window that has moved on, and a product list that was *)
(* asked for before the start ends the work at the window only.  "level"   *)
(* says that nothing of the kind has happened since both were last brought *)
(* level.                                                                  *)
(*                                                                         *)
(* The window is a single thread: a handler is one action, but for the     *)
(* restoring of a pause at login, which sleeps between two commands.       *)
(* Reports to the monitoring PC are the subject of WorkReporting.          *)
(***************************************************************************)
EXTENDS WorkState, UartProtocol

CONSTANTS
  Products,
  Totals,     \* total_steps of each product
  MaxBytes,   \* bound: commands on the line at once
  MaxLines,   \* bound: lines on their way at once
  Faults,     \* whether links break, programs and boards are cut off, inference fails
  Repeats,    \* bound: whether one disturbance may follow another before the work is level
  Haste       \* whether buttons are used, and verdicts come, before the line is quiet

ASSUME StationAssumption ==
  /\ Products # {}
  /\ Totals \in [Products -> Nat \ {0}]
  /\ MaxBytes \in Nat \ {0} /\ MaxLines \in Nat \ {0}
  /\ Faults \in BOOLEAN /\ Repeats \in BOOLEAN /\ Haste \in BOOLEAN

VARIABLES
  face, asked, byte, serving, lines,   \* the board
  snapshot,  \* WorkStateController.snapshot, without the name of the event
  judging,   \* no, asked, failed: _ai_busy, and whether a result is to come
  window,    \* out, in, or restoring: "U" is still to be sent
  refreshing,  \* a product list is being fetched on the refresh button
  linked,    \* the serial port is open
  bytes,     \* commands sent and not yet received
  level      \* history: nothing has come between window and board

board == <<face, asked, byte, serving, lines>>
jetson == <<snapshot, judging, window, refreshing>>
vars == <<board, jetson, linked, bytes, level>>

Stm == INSTANCE Board

\* Nothing is on its way between window and board.
Quiet == bytes = <<>> /\ byte = "none" /\ lines = <<>> /\ window # "restoring"

MayDisturb == Repeats \/ level                               \* bound

MayFail == Faults /\ MayDisturb

-----------------------------------------------------------------------------
(* The serial line                                                         *)

\* Lines that move the work of the window, and commands that move the board.
Underway(line) == line \in {"Start", "Pause", "Resume", "Reset"}

\* UartReceiverThread.send_message: without a port the command is lost.
Send(c) ==
  /\ Len(bytes) < MaxBytes                                   \* bound
  /\ bytes' = IF linked THEN Append(bytes, c) ELSE bytes
  /\ UNCHANGED linked

SendNothing == UNCHANGED <<bytes, linked>>

\* The command left, and no line that moves the work came from the board before.
InOrder == linked /\ \A i \in DOMAIN lines : ~Underway(lines[i])

\* A byte that finds the mailbox taken overwrites it, or is dropped with it at
\* the acknowledgement.
Arrive ==
  /\ bytes # <<>>
  /\ Stm!Receive(Head(bytes))
  /\ bytes' = Tail(bytes)
  /\ level' = (level /\ byte = "none")
  /\ UNCHANGED <<jetson, linked>>

-----------------------------------------------------------------------------
(* The board                                                               *)

BoardServes ==
  /\ Stm!Serve \/ Stm!Acknowledge
  /\ UNCHANGED <<jetson, linked, bytes, level>>

\* Without haste a button is pressed on a quiet line, and not while the board
\* keeps its buttons disabled for the answer to "Check".
MayPress == Len(lines) < MaxLines /\ (Haste \/ (Quiet /\ ~asked))

\* A press that moves the work meets no command on the way, and is heard.
Heard == linked /\ window # "out"

Press ==
  /\ MayPress
  /\ \/ /\ Stm!PressCheck
        /\ level' = (level /\ Heard)
     \/ /\ Stm!PressStart \/ Stm!PressPause \/ Stm!PressReset
        /\ level' = (level /\ Heard /\ bytes = <<>> /\ byte = "none" /\ window = "in")
  /\ UNCHANGED <<jetson, linked, bytes>>

-----------------------------------------------------------------------------
(* Handlers of the window                                                  *)

Apply(operation) == snapshot' = [operation.next EXCEPT !.event = "init"]

\* Buttons of the screen are enabled by the state (update_work_state).
MayClick == window = "in" /\ (Haste \/ Quiet)

\* on_start_work_clicked
ClickStart ==
  /\ MayClick
  /\ snapshot.state = "idle"
  /\ Apply(Start(snapshot))
  /\ Send("S")
  /\ level' = (level /\ InOrder)
  /\ UNCHANGED <<board, judging, window, refreshing>>

\* on_pause_clicked, on_resume_clicked
ClickPause ==
  /\ MayClick
  /\ \/ snapshot.state = "running" /\ Apply(Pause(snapshot)) /\ Send("U")
     \/ snapshot.state = "paused" /\ Apply(Resume(snapshot)) /\ Send("M")
  /\ level' = (level /\ InOrder)
  /\ UNCHANGED <<board, judging, window, refreshing>>

\* The window goes idle and the board to step 0: on a quiet line they are level
\* again.  An AI thread that failed gives no answer for the rest of the window.
Levels == linked /\ Quiet /\ judging # "failed"

\* on_defect_clicked
ClickDefect ==
  /\ MayClick
  /\ snapshot.state = "running"
  /\ Apply(RegisterDefect(snapshot))
  /\ Send("R")
  /\ level' = ((level /\ InOrder) \/ Levels)
  /\ UNCHANGED <<board, judging, window, refreshing>>

ChooseProduct(product) ==
  /\ MayClick
  /\ snapshot.state = "idle"
  /\ Apply(Configure(product, Totals[product]))
  /\ SendNothing
  /\ UNCHANGED <<board, judging, window, refreshing, level>>

\* fetch_products, once at a time; the button is disabled during work, the thread
\* goes on.
RefreshProducts ==
  /\ MayClick
  /\ snapshot.state = "idle" /\ ~refreshing /\ MayDisturb
  /\ refreshing' = TRUE
  /\ SendNothing
  /\ UNCHANGED <<board, snapshot, judging, window, level>>

\* _on_products_fetched: the first product of the list is configured, in any state
\* of the work, and the board is told nothing.  (The first list of a login is part
\* of LogIn and LogInToWork, a list without products leaves the work alone.)
ProductsFetched(product) ==
  /\ window = "in" /\ refreshing
  /\ refreshing' = FALSE
  /\ Apply(Configure(product, Totals[product]))
  /\ SendNothing
  /\ level' = (level /\ snapshot.state = "idle")
  /\ UNCHANGED <<board, judging, window>>

\* request_ai_judgement; refused, it only writes a log line.
Judge ==
  judging' = IF judging = "no" /\ snapshot.state = "running" THEN "asked" ELSE judging

ClickJudge ==
  /\ MayClick
  /\ judging = "no" /\ snapshot.state = "running"
  /\ Judge
  /\ SendNothing
  /\ UNCHANGED <<board, snapshot, window, refreshing, level>>

\* Mutant: the last step is looked for after the verdict was applied.
AnswerTooLate(verdict) ==
  LET next == ApplyJudgement(snapshot, verdict).next
  IN  IF verdict = "FAIL" THEN "F" ELSE IF next.step >= next.total THEN "C" ELSE "P"

\* What the board is told of a verdict.
Answer(verdict) ==
  IF verdict = "FAIL" THEN "F"
  ELSE IF snapshot.step >= snapshot.total THEN "C" ELSE "P"

\* Mutant: a FAIL changes no step, so the board is not told.
TellMoves(verdict) ==
  IF verdict = "FAIL" THEN SendNothing ELSE Send(Answer(verdict))

Tell(verdict) == Send(Answer(verdict))

\* handle_ai_result: the board is told even if the controller refused.
HandleResult(verdict) ==
  /\ window = "in" /\ (Haste \/ Quiet)
  /\ judging = "asked"
  /\ judging' = "no"
  /\ Apply(ApplyJudgement(snapshot, verdict))
  /\ Tell(verdict)
  /\ level' = \/ level /\ InOrder /\ snapshot.state = "running"
              \/ Levels /\ snapshot.state = "running" /\ Answer(verdict) = "C"
  /\ UNCHANGED <<board, window, refreshing>>

\* A line moves the work unless it does not fit the state of the work.
Line(message) ==
  /\ window = "in" /\ linked
  /\ lines # <<>> /\ Head(lines) = message
  /\ Stm!Deliver
  /\ UNCHANGED <<window, refreshing>>

\* _on_uart_check
LineCheck ==
  /\ Line("Check")
  /\ Judge
  /\ SendNothing
  /\ UNCHANGED <<snapshot, level>>

\* The camera has no frame: "Check" is refused.
LineCheckUnseen ==
  /\ MayFail
  /\ Line("Check")
  /\ level' = FALSE
  /\ SendNothing
  /\ UNCHANGED <<snapshot, judging>>

\* _on_uart_start: on_start_work_clicked in any state; the controller then runs.
LineStart ==
  /\ Line("Start")
  /\ Apply(Start(snapshot))
  /\ Send("S")
  /\ level' = (level /\ linked /\ \A i \in DOMAIN Tail(lines) : ~Underway(Tail(lines)[i]))
  /\ UNCHANGED judging

\* _on_uart_pause, _on_uart_resume, _on_uart_reset
LineMoves ==
  /\ \/ Line("Pause") /\ Apply(Pause(snapshot))
     \/ Line("Resume") /\ Apply(Resume(snapshot))
     \/ Line("Reset")
        /\ IF snapshot.state = "running" THEN Apply(RegisterDefect(snapshot)) ELSE UNCHANGED snapshot
  /\ SendNothing
  /\ UNCHANGED <<judging, level>>

-----------------------------------------------------------------------------
(* Login and logout                                                        *)

\* What a login finds: no unfinished work, or work at some step.
Saved(product) ==
  [product : {product}, total : {Totals[product]}, step : 1..Totals[product],
   state : {"running", "paused"}, result : {"waiting", "fail"}]

\* In place of a snapshot while there is no window.
NoWindow == LET product == CHOOSE product \in Products : TRUE
            IN  Configure(product, Totals[product]).next

\* Opening the port drops what the board has said before.
OpenPort(commands) ==
  /\ Len(bytes) < MaxBytes                                   \* bound
  /\ bytes' = bytes \o commands
  /\ lines' = <<>>
  /\ linked' = TRUE
  /\ UNCHANGED <<face, asked, byte, serving>>

\* send_standby
LogIn(product) ==
  /\ window = "out" /\ (Haste \/ Quiet)
  /\ window' = "in"
  /\ judging' = "no"
  /\ refreshing' = FALSE
  /\ Apply(Configure(product, Totals[product]))
  /\ OpenPort(<<"E">>)
  /\ level' = TRUE

\* send_step_restore: a step without a LED is not sent at all.
LogInToWork(product) ==
  /\ window = "out" /\ (Haste \/ Quiet)
  /\ judging' = "no"
  /\ refreshing' = FALSE
  /\ \E work \in Saved(product) :
       /\ Apply(RestoreState(work))
       /\ OpenPort(IF work.step <= LastStep THEN <<Digits[work.step]>> ELSE <<>>)
       /\ window' = IF work.step <= LastStep /\ work.state = "paused"
                    THEN "restoring" ELSE "in"
       /\ level' = (work.step <= LastStep)

\* The window has slept for 100 ms: time for the board to take the digit.
RestorePause ==
  /\ window = "restoring"
  /\ window' = "in"
  /\ Haste \/ (bytes = <<>> /\ byte = "none")
  /\ Send("U")
  /\ level' = (level /\ InOrder)
  /\ UNCHANGED <<board, snapshot, judging, refreshing>>

\* The program has ended, and the port is closed.
Gone ==
  /\ window' = "out"
  /\ snapshot' = NoWindow
  /\ judging' = "no"
  /\ refreshing' = FALSE
  /\ lines' = <<>>
  /\ UNCHANGED <<face, asked, byte, serving>>

\* closeEvent
Close ==
  /\ window = "in"
  /\ Haste \/ Quiet
  /\ Gone
  /\ Send("E")
  /\ level' = ((level /\ InOrder) \/ (linked /\ Quiet))

-----------------------------------------------------------------------------
(* Faults                                                                  *)

\* AiInferenceThread.run: an exception yields no result, _ai_busy stays true.
InferenceFails ==
  /\ MayFail
  /\ window = "in" /\ judging = "asked"
  /\ judging' = "failed"
  /\ level' = FALSE
  /\ UNCHANGED <<board, snapshot, window, refreshing, linked, bytes>>

\* The cable is pulled, with what is on it.
Unplug ==
  /\ MayFail
  /\ window = "in" /\ linked
  /\ linked' = FALSE
  /\ bytes' = <<>>
  /\ lines' = <<>>
  /\ level' = (level /\ bytes = <<>> /\ lines = <<>>)
  /\ UNCHANGED <<face, asked, byte, serving, jetson>>

\* refresh_device_connections
Refresh ==
  /\ window = "in" /\ ~linked
  /\ OpenPort(<<>>)
  /\ UNCHANGED <<jetson, level>>

\* The program is killed.
Crash ==
  /\ MayFail
  /\ window # "out"
  /\ Gone
  /\ level' = FALSE
  /\ UNCHANGED <<linked, bytes>>

BoardReset ==
  /\ MayFail
  /\ face' = Stm!Blank /\ asked' = FALSE /\ byte' = "none" /\ serving' = FALSE
  /\ level' = FALSE
  /\ UNCHANGED <<lines, jetson, linked, bytes>>

-----------------------------------------------------------------------------
Init ==
  /\ Stm!Init
  /\ snapshot = NoWindow
  /\ judging = "no"
  /\ window = "out"
  /\ refreshing = FALSE
  /\ linked = TRUE
  /\ bytes = <<>>
  /\ level = TRUE

Results == \E verdict \in {"PASS", "FAIL"} : HandleResult(verdict)

Lists == \E product \in Products : ProductsFetched(product)

Lines == LineCheck \/ LineCheckUnseen \/ LineStart \/ LineMoves

Worker ==
  \/ Press
  \/ ClickStart \/ ClickPause \/ ClickDefect \/ ClickJudge
  \/ \E product \in Products :
       ChooseProduct(product) \/ LogIn(product) \/ LogInToWork(product)
  \/ RefreshProducts
  \/ Close \/ Refresh

Next ==
  \/ Arrive \/ BoardServes \/ Results \/ Lines \/ Lists \/ RestorePause \/ Worker
  \/ InferenceFails \/ Unplug \/ Crash \/ BoardReset

Spec == Init /\ [][Next]_vars

\* The line, the main loop of the board and the AI thread run, and the event loop
\* of the window is first come, first served; the worker need not do anything.
FairSpec ==
  /\ Spec
  /\ WF_vars(Arrive) /\ WF_vars(BoardServes)
  /\ WF_vars(Results) /\ WF_vars(Lines) /\ WF_vars(RestorePause)

-----------------------------------------------------------------------------
(* Properties                                                              *)

TypeOK ==
  /\ face \in Stm!Faces /\ asked \in BOOLEAN
  /\ byte \in Commands \cup {"none"} /\ serving \in BOOLEAN
  /\ \A i \in DOMAIN lines : lines[i] \in Messages
  /\ \E product \in Products : snapshot \in Snapshots({product}, Totals[product])
  /\ judging \in {"no", "asked", "failed"} /\ window \in {"out", "in", "restoring"}
  /\ refreshing \in BOOLEAN
  /\ linked \in BOOLEAN /\ level \in BOOLEAN
  /\ \A i \in DOMAIN bytes : bytes[i] \in Commands

\* The step and the pause the worker is at; a window that is closed shows none.
AtWork == window # "out" /\ snapshot.state \in {"running", "paused"}

Step == IF AtWork THEN snapshot.step ELSE 0

Pausing == AtWork /\ snapshot.state = "paused"

Shown == Quiet /\ level /\ Step <= LastStep

\* Board and window agree on step and pause whenever nothing is underway, in every
\* product the LEDs can show, through verdicts, restored work, and buttons on
\* either side; after a disturbance, from the next defect, login or logout on.
InStep == Shown => face.step = Step /\ face.paused = Pausing

\* The worker sees it: the LED of the step alone is lit, none in a pause, and the
\* fail LED only if the last verdict on the step was FAIL.
LedsShowWork ==
  Shown =>
    /\ face.leds = (IF Pausing THEN {} ELSE {Step} \ {0})
    /\ face.fail => AtWork /\ snapshot.result = "fail"

\* No press is lost: while nothing comes between them, the window takes every line
\* of the board as the move it was on the board.
PressesCount ==
  [][LineMoves /\ level => snapshot' # snapshot]_vars

\* The board does not wait in vain: a "Check" is answered by a command that opens
\* the buttons again, also if it meets a judgement or a pause of the screen.
CheckIsAnswered == (asked /\ level) ~> (~asked \/ ~level)

\* "Start" begins work from the waiting board (project_stm/README.md): it does not
\* start over the work that is going on.
StartKeepsWork ==
  [][LineStart => snapshot'.step >= snapshot.step]_vars

=============================================================================
