----------------------------- MODULE WorkState -----------------------------
(***************************************************************************)
(* WorkStateController of the Jetson: what each operation makes of the     *)
(* snapshot of the work, and the snapshots it publishes on the way (every  *)
(* published snapshot becomes a report to the monitoring PC).              *)
(*                                                                         *)
(* An operation maps a snapshot to [next, published].  Log lines, names    *)
(* and the free text of a snapshot are left out; its defect_type is        *)
(* determined by its event ("manual" for manual_defect, "ai" for ai_fail). *)
(***************************************************************************)
EXTENDS Integers, Sequences, FiniteSetsExt

\* WorkSnapshot: also the part of a report the monitoring PC reads.
Snapshots(products, maxTotal) ==
  [product : products, total : 1..maxTotal, step : 0..maxTotal,
   state : {"idle", "running", "paused", "complete"},
   result : {"waiting", "pass", "fail", "defect"},
   event : {"init", "restore", "start", "pause", "resume",
            "manual_defect", "ai_fail", "step_pass", "complete"}]

\* A refused operation only writes a log line.
Refused(s) == [next |-> s, published |-> <<>>]

Published(s) == [next |-> s, published |-> <<s>>]

\* _reset_to_idle
IdleAgain(s) ==
  [s EXCEPT !.step = 0, !.state = "idle", !.result = "waiting", !.event = "init"]

\* An operation that publishes how the work ended and then returns to idle.
Ended(s) == [next |-> IdleAgain(s), published |-> <<s, IdleAgain(s)>>]

\* configure: a product is chosen, the work waits at step 0.
Configure(product, total) ==
  Published([product |-> product, total |-> total, step |-> 0, state |-> "idle",
             result |-> "waiting", event |-> "init"])

\* Mutant: a pause is forgotten over a login.
RestoreRunning(saved) ==
  Published([product |-> saved.product, total |-> saved.total,
             step |-> Max({1, Min({saved.total, saved.step})}),
             state |-> "running", result |-> saved.result, event |-> "restore"])

\* restore_state: the unfinished work the login returned; the step is clamped.
RestoreState(saved) ==
  Published([product |-> saved.product, total |-> saved.total,
             step |-> Max({1, Min({saved.total, saved.step})}),
             state |-> saved.state, result |-> saved.result, event |-> "restore"])

Resume(s) ==
  IF s.state = "paused"
  THEN Published([s EXCEPT !.state = "running", !.event = "resume"])
  ELSE Refused(s)

\* start: a paused work is resumed; any other state, running included, begins
\* again at step 1.
Start(s) ==
  IF s.state = "paused"
  THEN Resume(s)
  ELSE Published([s EXCEPT !.step = 1, !.state = "running",
                           !.result = "waiting", !.event = "start"])

\* Mutant: the event name is written into the state.
PauseMisnamed(s) ==
  IF s.state = "running"
  THEN Published([s EXCEPT !.state = "pause", !.event = "pause"])
  ELSE Refused(s)

\* pause and resume keep last_result.
Pause(s) ==
  IF s.state = "running"
  THEN Published([s EXCEPT !.state = "paused", !.event = "pause"])
  ELSE Refused(s)

RegisterDefect(s) ==
  IF s.state \in {"running", "paused"} /\ s.step > 0
  THEN Ended([s EXCEPT !.result = "defect", !.event = "manual_defect"])
  ELSE Refused(s)

\* apply_judgement: a FAIL keeps the step; a PASS enters the next step, and the
\* PASS of the last step completes the work.
ApplyJudgement(s, verdict) ==
  CASE s.state # "running" -> Refused(s)
    [] s.state = "running" /\ verdict = "FAIL" ->
         Published([s EXCEPT !.result = "fail", !.event = "ai_fail"])
    [] s.state = "running" /\ verdict = "PASS" /\ s.step >= s.total ->
         Ended([s EXCEPT !.state = "complete", !.result = "pass", !.event = "complete"])
    [] s.state = "running" /\ verdict = "PASS" /\ s.step < s.total ->
         Published([s EXCEPT !.step = @ + 1, !.result = "waiting", !.event = "step_pass"])

=============================================================================
