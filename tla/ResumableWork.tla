--------------------------- MODULE ResumableWork ---------------------------
(***************************************************************************)
(* What the system promises a worker about unfinished work, without        *)
(* reports, tokens or tables.                                              *)
(*                                                                         *)
(* The work moves from point to point (product, step, paused or not); the  *)
(* monitoring PC follows one point at a time, in order and without gaps,   *)
(* and a login takes the work up at the point the monitoring PC has        *)
(* reached.  The points it has not reached when the program ends are lost, *)
(* except that the oldest may still be on its way.  This holds while the   *)
(* link is intact; once a report failed, was refused, or the work was      *)
(* restarted behind the back of the tables, nothing is promised until the  *)
(* next login.                                                             *)
(***************************************************************************)
EXTENDS Integers, Sequences

CONSTANTS Products, MaxTotal

VARIABLES
  work,     \* the point the worker is at, NoPoint if no work is unfinished
  backlog,  \* points reached since, oldest first, that are not saved yet
  saved,    \* the point a login would return
  present,  \* the worker is logged in
  intact    \* the promise holds

vars == <<work, backlog, saved, present, intact>>

NoPoint == [product |-> "none"]
Points == [product : Products, step : 1..MaxTotal, paused : BOOLEAN]

\* How work may move: end or not begin, begin, enter the next step, repeat the
\* step (a FAIL), pause or resume.
Moves(p, q) ==
  \/ q = NoPoint
  \/ p = NoPoint /\ q \in Points /\ q.step = 1 /\ ~q.paused
  \/ /\ p # NoPoint /\ q # NoPoint /\ p.product = q.product
     /\ \/ q.step = p.step
        \/ q.step = p.step + 1 /\ ~p.paused /\ ~q.paused

\* The end of work is reported, and then that there is none.
Progress ==
  /\ intact
  /\ present
  /\ work' \in Points \cup {NoPoint}
  /\ Moves(work, work')
  /\ \/ backlog' = Append(backlog, work')
     \/ work' = NoPoint /\ backlog' = backlog \o <<NoPoint, NoPoint>>
  /\ UNCHANGED <<saved, present, intact>>

Save ==
  /\ intact
  /\ backlog # <<>>
  /\ saved' = Head(backlog)
  /\ backlog' = Tail(backlog)
  /\ UNCHANGED <<work, present, intact>>

\* The program ends, in whatever way.
Leave ==
  /\ intact
  /\ work' = NoPoint
  /\ present' = FALSE
  /\ \/ backlog' = <<>>
     \/ backlog # <<>> /\ backlog' = <<Head(backlog)>>
  /\ UNCHANGED <<saved, intact>>

\* The login returns what is saved, and the worker's window reports it.
TakeUp ==
  /\ work' = saved
  /\ backlog' = <<saved>>
  /\ present' = TRUE
  /\ intact' = TRUE
  /\ UNCHANGED saved

Break ==
  /\ intact' = FALSE
  /\ work' \in Points \cup {NoPoint}
  /\ backlog' = <<>>
  /\ present' \in BOOLEAN
  /\ saved' \in Points \cup {NoPoint}

Init ==
  /\ work = NoPoint
  /\ backlog = <<>>
  /\ saved = NoPoint
  /\ present = FALSE
  /\ intact = TRUE

Next == Progress \/ Save \/ Leave \/ TakeUp \/ Break

Spec == Init /\ [][Next]_vars

=============================================================================
