-------------------------------- MODULE Board --------------------------------
(***************************************************************************)
(* The STM32 board as Jetson and worker see it: the LEDs and the step      *)
(* behind them, commands in, lines out.  Interrupts, melodies and the      *)
(* buttons that are disabled for a while are left out: a button may be     *)
(* pressed at any time.  StmFirmware implements this specification.        *)
(*                                                                         *)
(* The mailbox for commands holds one byte.  It is given free at the end   *)
(* of a command (Acknowledge), so that a byte that comes before is lost.   *)
(***************************************************************************)
EXTENDS UartProtocol, Sequences

VARIABLES
  face,     \* what the board shows, and the step and pause it remembers
  asked,    \* "Check" was sent, and no command has taken effect since
  byte,     \* the command in the mailbox, "none" if it is free
  serving,  \* that command has taken effect and is about to be acknowledged
  lines     \* lines sent to the Jetson and not yet received

vars == <<face, asked, byte, serving, lines>>

Faces == [step : 0..LastStep, paused : BOOLEAN, leds : SUBSET (1..LastStep), fail : BOOLEAN]

Blank == [step |-> 0, paused |-> FALSE, leds |-> {}, fail |-> FALSE]

\* A command that does not fit the step and the pause is ignored.
Fits(c) ==
  /\ c \in {"P", "U", "M"} => face.step # 0
  /\ c = "U" => ~face.paused
  /\ c = "M" => face.paused

Paused(f) ==
  [step |-> f.step, paused |-> TRUE, leds |-> f.leds \ {f.step}, fail |-> f.fail]

Resumed(f) ==
  [step |-> f.step, paused |-> FALSE, leds |-> f.leds \cup {f.step}, fail |-> f.fail]

\* Mutant: the LED of the step that was passed stays lit.
PassedLit(f) ==
  LET next == (f.step + 1) % (LastStep + 1)
  IN  [step |-> next, paused |-> FALSE, fail |-> FALSE, leds |-> f.leds \cup ({next} \ {0})]

\* After the highest step, "P" leads back to step 0, which has no LED.
Passed(f) ==
  LET next == (f.step + 1) % (LastStep + 1)
  IN  [step |-> next, paused |-> FALSE, fail |-> FALSE,
       leds |-> (f.leds \ {f.step}) \cup ({next} \ {0})]

\* The step a digit restores.
StepOf(c) == CHOOSE n \in 1..LastStep : Digits[n] = c

\* "S" and "F" turn no step LED off.
After(c, f) ==
  CASE c = "S" -> [step |-> 1, paused |-> FALSE, leds |-> f.leds \cup {1}, fail |-> FALSE]
    [] c = "P" -> Passed(f)
    [] c = "F" -> [f EXCEPT !.paused = FALSE, !.fail = TRUE]
    [] c \in {"C", "R", "E"} -> Blank
    [] c = "U" -> Paused(f)
    [] c = "M" -> Resumed(f)
    [] OTHER -> [step |-> StepOf(c), paused |-> FALSE, leds |-> {StepOf(c)}, fail |-> FALSE]

-----------------------------------------------------------------------------
Serve ==
  /\ ~serving
  /\ byte # "none"
  /\ serving' = TRUE
  /\ IF Fits(byte)
     THEN face' = After(byte, face) /\ asked' = FALSE
     ELSE UNCHANGED <<face, asked>>
  /\ UNCHANGED <<byte, lines>>

Acknowledge ==
  /\ serving
  /\ serving' = FALSE
  /\ byte' = "none"
  /\ UNCHANGED <<face, asked, lines>>

\* A button is served between two commands; what the board says of it.
Says(message) ==
  /\ ~serving
  /\ lines' = Append(lines, message)
  /\ UNCHANGED <<byte, serving>>

PressStart ==
  /\ face.step = 0
  /\ Says("Start")
  /\ UNCHANGED <<face, asked>>

PressCheck ==
  /\ face.step # 0 /\ ~face.paused
  /\ Says("Check")
  /\ asked' = TRUE
  /\ UNCHANGED face

PressPause ==
  /\ face.step # 0
  /\ IF face.paused THEN Says("Resume") /\ face' = Resumed(face)
                    ELSE Says("Pause")  /\ face' = Paused(face)
  /\ UNCHANGED asked

\* Mutant: a pause does not keep the work from being given up.
PressResetPaused ==
  /\ face.step # 0
  /\ Says("Reset")
  /\ face' = Blank
  /\ asked' = FALSE

PressReset ==
  /\ face.step # 0 /\ ~face.paused
  /\ Says("Reset")
  /\ face' = Blank
  /\ asked' = FALSE

\* A byte arrives; what the mailbox held is overwritten.
Receive(c) ==
  /\ byte' = c
  /\ UNCHANGED <<face, asked, serving, lines>>

\* The Jetson receives a line.
Deliver ==
  /\ lines # <<>>
  /\ lines' = Tail(lines)
  /\ UNCHANGED <<face, asked, byte, serving>>

Init ==
  /\ face = Blank
  /\ asked = FALSE
  /\ byte = "none"
  /\ serving = FALSE
  /\ lines = <<>>

Next ==
  \/ Serve \/ Acknowledge
  \/ PressStart \/ PressCheck \/ PressPause \/ PressReset
  \/ Deliver
  \/ \E c \in Commands : Receive(c)

Spec == Init /\ [][Next]_vars

=============================================================================
