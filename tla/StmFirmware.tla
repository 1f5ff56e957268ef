----------------------------- MODULE StmFirmware -----------------------------
(***************************************************************************)
(* The firmware of the STM32 board at the workbench: four push buttons,    *)
(* the step shown by the LEDs, melodies on the buzzer, and one-byte        *)
(* commands from the Jetson.                                               *)
(*                                                                         *)
(* The main loop serves in turn the command mailbox, the note timer and    *)
(* the pressed button.  A handler is one dispatch, which updates what only *)
(* the main loop reads and writes, followed by the writes it shares with   *)
(* the interrupts, one by one in "todo"; interrupts (the buttons, USART2,  *)
(* TIM2; of equal priority, so none interrupts another) come between any   *)
(* two of them.  Wait_Button_Release is such a pause of the main loop.     *)
(*                                                                         *)
(* A line to the Jetson is written out while the handler waits, before the *)
(* shared writes: the dispatch says it.  A button is enabled when both its *)
(* EXTI mask and its NVIC enable are set: Btn_ISR_Enable drops an edge     *)
(* that came while it was not.                                             *)
(***************************************************************************)
EXTENDS UartProtocol, Sequences

CONSTANT Notes   \* notes of each melody, rests included

Melodies == {"start", "pass", "fail", "complete", "pause", "resume", "defect"}

ASSUME FirmwareAssumption == Notes \in [Melodies -> Nat \ {0}]

Buttons == {"start", "check", "pause", "reset"}
Working == {"check", "pause", "reset"}

VARIABLES
  step,     \* led_step
  paused,   \* is_pause
  asked,    \* history: "Check" was sent and no command has taken effect since
  leds,     \* GPIOC->ODR, bits 0 to 8: the step LEDs that are lit
  fail,     \* GPIOC->ODR, bit LED_FAIL
  says,     \* the line the last dispatch has sent, "none" if it sent none
  notes,    \* notes left of the melody, 0 if none: Is_Playing, Current_Seq, Seq_Idx
  lock,     \* Lock_Buttons
  pc,       \* what the main loop serves next
  todo,     \* shared writes of the current handler still to come
  btn,      \* btn_state
  enabled,  \* the buttons that interrupt
  byte,     \* Uart_data[0]
  dataIn,   \* Uart_Data_In
  timer,    \* TIM2 runs
  expired   \* TIM2_Expired

work    == <<step, paused, asked>>
lights  == <<leds, fail>>
melody  == <<notes, lock>>
panel   == <<btn, enabled>>
mailbox == <<byte, dataIn>>
clock   == <<timer, expired>>
vars == <<work, lights, says, melody, pc, todo, panel, mailbox, clock>>

-----------------------------------------------------------------------------
(* Shared writes                                                           *)

Order == <<"start", "check", "pause", "reset">>

\* Btn_ISR_Enable: the buttons in "on" are enabled and the others disabled, in
\* the order of the code.
Panel(on) == [i \in DOMAIN Order |-> <<IF Order[i] \in on THEN "enable" ELSE "disable", Order[i]>>]

Enable(b) == <<<<"enable", b>>>>
Released  == <<<<"released">>>>
Ack       == <<<<"ack">>>>
TimerOn   == <<<<"timerOn">>>>
TimerOff  == <<<<"timerOff">>>>

\* The buttons that fit the state of the work.
Fitting(s, p) == IF s = 0 THEN {"start"} ELSE IF p THEN {"pause"} ELSE Working

\* Reset_System_State, the writes.
ResetPanel == Released \o Panel({"start"})

\* Mutant: the timer is stopped after it was set up for the first note.
SoundStopped(locks) == TimerOn \o (IF locks THEN Panel({}) ELSE <<>>) \o TimerOff

\* Buzzer_Play, the writes; a melody that locks disables every button.
Sound(locks) == TimerOff \o (IF locks THEN Panel({}) ELSE <<>>) \o TimerOn

Play(m, locks) == notes' = Notes[m] /\ lock' = locks
Silence == notes' = 0 /\ UNCHANGED lock

Work(s, p, a) == step' = s /\ paused' = p /\ asked' = a

\* Step_LED_On: for step 0 the mask is shifted by -1, which the processor
\* takes modulo 256: no bit is set.
Led(s) == {s} \ {0}

Lights(l, f) == leds' = l /\ fail' = f

-----------------------------------------------------------------------------
(* Process_Uart_Command                                                    *)

Command(c) ==
  /\ pc = "command" /\ todo = <<>>
  /\ dataIn /\ byte = c
  /\ pc' = "note"
  /\ says' = "none"
  /\ UNCHANGED <<panel, mailbox, clock>>

UartStart ==
  /\ Command("S")
  /\ Work(1, FALSE, FALSE)
  /\ Lights(leds \cup Led(1), FALSE)
  /\ Play("start", TRUE)
  /\ todo' = Panel(Working) \o Sound(TRUE) \o Ack

\* Mutant: the step is not taken modulo the number of LEDs.
UartPassOn ==
  /\ Command("P")
  /\ step # 0
  /\ Work(step + 1, FALSE, FALSE)
  /\ Lights((leds \ {step}) \cup Led(step + 1), FALSE)
  /\ Play("pass", TRUE)
  /\ todo' = Sound(TRUE) \o Ack

UartPass ==
  /\ Command("P")
  /\ step # 0
  /\ Work((step + 1) % (LastStep + 1), FALSE, FALSE)
  /\ Lights((leds \ {step}) \cup Led(step'), FALSE)
  /\ Play("pass", TRUE)
  /\ todo' = Sound(TRUE) \o Ack

UartFail ==
  /\ Command("F")
  /\ Work(step, FALSE, FALSE)
  /\ Lights(leds, TRUE)
  /\ Play("fail", TRUE)
  /\ todo' = Sound(TRUE) \o Ack

\* Mutant: only the LED of the last step is put out.
UartCompleteStep ==
  /\ Command("C")
  /\ Work(0, FALSE, FALSE)
  /\ Lights(leds \ {step}, FALSE)
  /\ Play("complete", TRUE)
  /\ todo' = ResetPanel \o Sound(TRUE) \o Ack

UartComplete ==
  /\ Command("C")
  /\ Work(0, FALSE, FALSE)
  /\ Lights({}, FALSE)
  /\ Play("complete", TRUE)
  /\ todo' = ResetPanel \o Sound(TRUE) \o Ack

UartDefect ==
  /\ Command("R")
  /\ Work(0, FALSE, FALSE)
  /\ Lights({}, FALSE)
  /\ Play("defect", TRUE)
  /\ todo' = ResetPanel \o Sound(TRUE) \o Ack

UartPause ==
  /\ Command("U")
  /\ step # 0 /\ ~paused
  /\ Work(step, TRUE, FALSE)
  /\ Lights(leds \ {step}, fail)
  /\ Play("pause", FALSE)
  /\ todo' = Panel({"pause"}) \o Sound(FALSE) \o Ack

UartResume ==
  /\ Command("M")
  /\ step # 0 /\ paused
  /\ Work(step, FALSE, FALSE)
  /\ Lights(leds \cup Led(step), fail)
  /\ Play("resume", FALSE)
  /\ todo' = Panel(Working) \o Sound(FALSE) \o Ack

UartExit ==
  /\ Command("E")
  /\ Work(0, FALSE, FALSE)
  /\ Lights({}, FALSE)
  /\ Silence
  /\ todo' = ResetPanel \o TimerOff \o Ack

\* Mutant: the mailbox is given free before the writes of the handler.
UartRestoreAckFirst ==
  /\ \E target \in 1..LastStep :
       /\ Command(Digits[target])
       /\ Work(target, FALSE, FALSE)
       /\ Lights(Led(target), FALSE)
  /\ Silence
  /\ todo' = Ack \o TimerOff \o Released \o Panel(Working)

UartRestore ==
  /\ \E target \in 1..LastStep :
       /\ Command(Digits[target])
       /\ Work(target, FALSE, FALSE)
       /\ Lights(Led(target), FALSE)
  /\ Silence
  /\ todo' = TimerOff \o Released \o Panel(Working) \o Ack

\* A command that does not fit the state of the work.
UartIgnored ==
  /\ \/ Command("P") /\ step = 0
     \/ Command("U") /\ (step = 0 \/ paused)
     \/ Command("M") /\ (step = 0 \/ ~paused)
  /\ todo' = Ack
  /\ UNCHANGED <<work, lights, melody>>

-----------------------------------------------------------------------------
(* Process_Buzzer_Timer                                                    *)

NoteEnds ==
  /\ pc = "note" /\ todo = <<>>
  /\ expired
  /\ expired' = FALSE
  /\ pc' = "button"
  /\ says' = "none"
  /\ UNCHANGED <<work, lights, panel, mailbox, timer>>

NextNote ==
  /\ NoteEnds
  /\ notes > 1
  /\ notes' = notes - 1
  /\ todo' = TimerOn
  /\ UNCHANGED lock

\* Mutant: a melody that locked the buttons leaves them locked.
StayLocked ==
  /\ NoteEnds
  /\ notes = 1
  /\ Silence
  /\ todo' = TimerOff

\* The last note: the buttons are opened if this melody has locked them.
LastNote ==
  /\ NoteEnds
  /\ notes = 1
  /\ Silence
  /\ todo' = TimerOff \o (IF lock THEN Panel(Fitting(step, paused)) ELSE <<>>)

StaleNote ==
  /\ NoteEnds
  /\ notes = 0
  /\ todo' = <<>>
  /\ UNCHANGED melody

-----------------------------------------------------------------------------
(* Process_Button_Event                                                    *)

Pressed(b) ==
  /\ pc = "button" /\ todo = <<>>
  /\ btn = b
  /\ pc' = "command"
  /\ UNCHANGED <<panel, mailbox, clock>>

\* Only a board at step 0 asks for the start.
BtnStart ==
  /\ Pressed("start")
  /\ says' = IF step = 0 THEN "Start" ELSE "none"
  /\ todo' = Released \o Panel(Fitting(step, paused))
  /\ UNCHANGED <<work, lights, melody>>

\* Mutant: the press is not taken back once it was served.
CheckAgain ==
  /\ Pressed("check")
  /\ IF paused \/ step = 0
     THEN /\ todo' = Released \o Panel(Fitting(step, paused))
          /\ says' = "none"
          /\ UNCHANGED work
     ELSE todo' = <<>> /\ says' = "Check" /\ Work(step, paused, TRUE)
  /\ UNCHANGED <<lights, melody>>

\* The buttons stay disabled until the answer of the Jetson plays its melody.
BtnCheck ==
  /\ Pressed("check")
  /\ IF paused \/ step = 0
     THEN /\ todo' = Released \o Panel(Fitting(step, paused))
          /\ says' = "none"
          /\ UNCHANGED work
     ELSE todo' = Released /\ says' = "Check" /\ Work(step, paused, TRUE)
  /\ UNCHANGED <<lights, melody>>

\* Handle_Btn_Pause waits for the release after the buttons were enabled.
BtnPause ==
  /\ Pressed("pause")
  /\ \/ /\ step = 0
        /\ todo' = Released \o Enable("pause")
        /\ says' = "none"
        /\ UNCHANGED <<work, lights, melody>>
     \/ /\ step # 0 /\ ~paused
        /\ Work(step, TRUE, asked)
        /\ Lights(leds \ {step}, fail)
        /\ says' = "Pause"
        /\ Play("pause", FALSE)
        /\ todo' = Panel({"pause"}) \o Sound(FALSE) \o Released \o Enable("pause")
     \/ /\ step # 0 /\ paused
        /\ Work(step, FALSE, asked)
        /\ Lights(leds \cup Led(step), fail)
        /\ says' = "Resume"
        /\ Play("resume", FALSE)
        /\ todo' = Panel(Working) \o Sound(FALSE) \o Released \o Enable("pause")

\* Mutant: a pause does not keep the work from being given up.
BtnResetPaused ==
  /\ Pressed("reset")
  /\ IF step = 0
     THEN /\ todo' = Released \o Panel({"start"})
          /\ says' = "none"
          /\ UNCHANGED <<work, lights, melody>>
     ELSE /\ Work(0, FALSE, FALSE)
          /\ Lights({}, FALSE)
          /\ says' = "Reset"
          /\ Play("defect", TRUE)
          /\ todo' = Panel({}) \o ResetPanel \o Sound(TRUE)

BtnReset ==
  /\ Pressed("reset")
  /\ IF paused \/ step = 0
     THEN /\ todo' = Released \o Panel(IF paused THEN {"pause"} ELSE {"start"})
          /\ says' = "none"
          /\ UNCHANGED <<work, lights, melody>>
     ELSE /\ Work(0, FALSE, FALSE)
          /\ Lights({}, FALSE)
          /\ says' = "Reset"
          /\ Play("defect", TRUE)
          /\ todo' = Panel({}) \o ResetPanel \o Sound(TRUE)

-----------------------------------------------------------------------------
(* The main loop between two handlers, and its shared writes               *)

\* Nothing to serve: the loop goes on.
Idle ==
  /\ todo = <<>>
  /\ \/ pc = "command" /\ ~dataIn        /\ pc' = "note"
     \/ pc = "note"    /\ ~expired       /\ pc' = "button"
     \/ pc = "button"  /\ btn = "released" /\ pc' = "command"
  /\ says' = "none"
  /\ UNCHANGED <<work, lights, melody, todo, panel, mailbox, clock>>

Write ==
  /\ todo # <<>>
  /\ todo' = Tail(todo)
  /\ LET w == Head(todo) IN
       /\ enabled' = CASE w[1] = "enable"  -> enabled \cup {w[2]}
                       [] w[1] = "disable" -> enabled \ {w[2]}
                       [] OTHER -> enabled
       /\ btn' = IF w[1] = "released" THEN "released" ELSE btn
       /\ dataIn' = (dataIn /\ w[1] # "ack")
       /\ timer' = (w[1] = "timerOn" \/ (timer /\ w[1] # "timerOff"))
       /\ expired' = (expired /\ w[1] # "timerOn")
  /\ says' = "none"
  /\ UNCHANGED <<work, lights, melody, pc, byte>>

Main ==
  \/ UartStart \/ UartPass \/ UartFail \/ UartComplete \/ UartDefect
  \/ UartPause \/ UartResume \/ UartExit \/ UartRestore \/ UartIgnored
  \/ NextNote \/ LastNote \/ StaleNote
  \/ BtnStart \/ BtnCheck \/ BtnPause \/ BtnReset
  \/ Idle \/ Write

-----------------------------------------------------------------------------
(* Interrupts                                                              *)

\* EXTI2, EXTI3, EXTI4, EXTI9_5: only PAUSE leaves the other buttons enabled.
Press(b) ==
  /\ b \in enabled
  /\ btn' = b
  /\ enabled' = IF b = "pause" THEN enabled \ {b} ELSE {}
  /\ UNCHANGED <<work, lights, says, melody, pc, todo, mailbox, clock>>

\* USART2: a byte overwrites the one before.
Receive(c) ==
  /\ byte' = c
  /\ dataIn' = TRUE
  /\ UNCHANGED <<work, lights, says, melody, pc, todo, panel, clock>>

\* TIM2 fires once.
Expire ==
  /\ timer
  /\ timer' = FALSE
  /\ expired' = TRUE
  /\ UNCHANGED <<work, lights, says, melody, pc, todo, panel, mailbox>>

Input == (\E b \in Buttons : Press(b)) \/ (\E c \in Commands : Receive(c))

\* After Sys_Init.
Init ==
  /\ step = 0 /\ paused = FALSE /\ asked = FALSE
  /\ leds = {} /\ fail = FALSE /\ says = "none"
  /\ notes = 0 /\ lock = FALSE
  /\ pc = "command" /\ todo = <<>>
  /\ btn = "released" /\ enabled = {"start"}
  /\ byte = "none" /\ dataIn = FALSE
  /\ timer = FALSE /\ expired = FALSE

Next == Main \/ Expire \/ Input

Spec == Init /\ [][Next]_vars

\* The main loop runs for ever, its waits are bounded; the timer is hardware.
FairSpec == Spec /\ WF_vars(Main) /\ WF_vars(Expire)

-----------------------------------------------------------------------------
(* What the Jetson and the worker see of it: the mapping to Board          *)

Wire == INSTANCE Board WITH
  face    <- [step |-> step, paused |-> paused, leds |-> leds, fail |-> fail],
  byte    <- IF dataIn THEN byte ELSE "none",
  serving <- <<"ack">> \in {todo[i] : i \in DOMAIN todo},
  lines   <- IF says = "none" THEN <<>> ELSE <<says>>

-----------------------------------------------------------------------------
(* Properties                                                              *)

\* The shape of the firmware's globals.
TypeOK ==
  /\ step \in 0..LastStep /\ paused \in BOOLEAN /\ asked \in BOOLEAN
  /\ leds \subseteq 1..LastStep /\ fail \in BOOLEAN /\ says \in Messages \cup {"none"}
  /\ notes \in {0} \cup UNION {1..Notes[m] : m \in Melodies} /\ lock \in BOOLEAN
  /\ pc \in {"command", "note", "button"}
  /\ btn \in Buttons \cup {"released"} /\ enabled \subseteq Buttons
  /\ byte \in Commands \cup {"none"} /\ dataIn \in BOOLEAN
  /\ timer \in BOOLEAN /\ expired \in BOOLEAN

\* A melody never hangs: while one is played, its note is timed, or has ended and
\* waits to be served, or is about to be timed, whatever command or button
\* replaces the melody in between.
NoteHasTimer ==
  notes > 0 => timer \/ expired \/ <<"timerOn">> \in {todo[i] : i \in DOMAIN todo}

\* Nothing to serve and no melody.
AtRest == todo = <<>> /\ ~dataIn /\ btn = "released" /\ notes = 0

\* The panel is never closed but for the wait on a verdict.  During work PAUSE is
\* enabled, and pressed twice it opens CHECK and RESET as well; a waiting board
\* offers START, also after "E".  The exception is a waiting board that PAUSE was
\* pressed at: its handler may take back a press of START that is not yet served,
\* and PAUSE alone stays enabled, which does nothing at step 0.
PanelStaysOpen ==
  AtRest /\ ~asked => "pause" \in enabled \/ (step = 0 /\ "start" \in enabled)

\* When the buttons and the Jetson fall silent, the board comes to rest: every
\* melody ends and every press is served.
QuietBoardRests == <>[][~Input]_vars => <>[]AtRest

\* Whatever stray commands have lit, passing through the steps puts every LED
\* out again: no step below the current one is lit, and none at step 0.
NoLedLeftBehind ==
  \A led \in leds : step # 0 /\ step <= led

\* The firmware implements Board: what commands and buttons do, and what it says,
\* does not depend on where interrupts cut into the handlers.
ImplementsBoard == Wire!Spec

=============================================================================
