---------------------------- MODULE UartProtocol ----------------------------
(***************************************************************************)
(* What Jetson and STM32 board say to each other over the serial line:     *)
(* one-byte commands to the board, lines of text from it.                  *)
(***************************************************************************)
EXTENDS Naturals

CONSTANT LastStep   \* LED_STEP9, 9 in the code: the highest step the LEDs show

ASSUME ProtocolAssumption == LastStep \in 1..9

Digits == <<"1", "2", "3", "4", "5", "6", "7", "8", "9">>

\* Start, pass, fail, complete, defect, pause, resume, exit; a digit restores
\* that step.
Commands == {"S", "P", "F", "C", "R", "U", "M", "E"} \cup {Digits[n] : n \in 1..LastStep}

\* Uart_Tx_Dataset
Messages == {"Check", "Pause", "Resume", "Reset", "Start"}

=============================================================================
