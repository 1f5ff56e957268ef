----------------------------- MODULE WorkTables -----------------------------
(***************************************************************************)
(* The work history of ONE employee in the database of the monitoring PC,  *)
(* and what WorkerStateRecorder makes of it: every statement of the        *)
(* recorder is restricted to the employee of the report, so histories of   *)
(* different employees never touch.                                        *)
(*                                                                         *)
(* product_runs maps product_run_id to the run; the rows of a run in       *)
(* step_runs, pause_logs, defect_logs and judgement_logs are kept inside   *)
(* the run.  Only the order of the ids matters.  The recorder looks a step *)
(* row up by its number before it inserts one, so the step rows of a run   *)
(* are a function of the number.  Times are left out: a row is open (no    *)
(* completed_at, no resumed_at) or closed.                                 *)
(***************************************************************************)
EXTENDS Integers, Sequences, FiniteSetsExt, SequencesExt, Dicts

CONSTANTS
  Products,  \* the products that may be registered
  Events     \* the event names a report may carry: free text to the recorder

\* step_runs with its pause_logs still open and its defect_logs (UNIQUE) row.
StepRow == [open : BOOLEAN, openPauses : Nat, defect : BOOLEAN]

\* judgement_logs: source is the name of the event that carried the verdict.
Judgement == [step : Nat, result : {"pass", "fail"}, source : Events]

NewRun(product) ==
  [product |-> product, result |-> "open", steps |-> EmptyDict, judgements |-> <<>>]

NewStep == [open |-> TRUE, openPauses |-> 0, defect |-> FALSE]

\* Mutant: a run with a closed step row is taken for finished.
OpenRunUntouched(runs) ==
  Max({0} \cup {i \in DOMAIN runs :
                   runs[i].result = "open" /\ \A n \in DOMAIN runs[i].steps : runs[i].steps[n].open})

\* Mutant: completed_at is not looked at.
NewestRun(runs) == Max({0} \cup DOMAIN runs)

\* The newest run without completed_at, 0 if there is none.
OpenRun(runs) == Max({0} \cup {i \in DOMAIN runs : runs[i].result = "open"})

\* The id of a row that is inserted, above all others.  AUTOINCREMENT would skip the
\* ids of deleted rows too; no row remembers one.
NextId(runs) == 1 + Max({0} \cup DOMAIN runs)

\* The highest step number of a run, 0 if it has no step row.
LatestStep(run) == Max({0} \cup DOMAIN run.steps)

-----------------------------------------------------------------------------
(* What the recorder refuses (it raises ValueError: nothing is written)    *)

\* _validate_and_normalize and _verify_db_entities: the product is registered
\* with that many steps, the step is in range.
WellFormed(totals, p) ==
  /\ p.product \in DOMAIN totals
  /\ p.total = totals[p.product]
  /\ p.step \in (IF p.state = "idle" THEN 0 ELSE 1)..p.total
  /\ p.state = "complete" => p.step = p.total
  /\ p.result = "defect" => p.event = "manual_defect"

\* _ensure_product_run: no unfinished run of another product.
FitsOpenRun(runs, p) ==
  p.state # "idle" =>
    \A i \in {OpenRun(runs)} \cap DOMAIN runs : runs[i].product = p.product

Acceptable(runs, totals, p) == WellFormed(totals, p) /\ FitsOpenRun(runs, p)

-----------------------------------------------------------------------------
(* What the recorder writes, in its order                                  *)

Closed(row) == [row EXCEPT !.open = FALSE]
Unpaused(row) == [row EXCEPT !.openPauses = 0]

\* here: this is the step the defect was found in.
Spoiled(row, here) == [Closed(Unpaused(row)) EXCEPT !.defect = @ \/ here]

\* Mutant: the step that is entered is closed too.
CloseStepsUpTo(run, step) ==
  [run EXCEPT !.steps = [n \in DOMAIN @ |-> IF n <= step THEN Closed(Unpaused(@[n])) ELSE @[n]]]

\* _close_previous_steps
ClosePreviousSteps(run, step) ==
  [run EXCEPT !.steps = [n \in DOMAIN @ |-> IF n < step THEN Closed(Unpaused(@[n])) ELSE @[n]]]

\* Mutant: the row is inserted for the step after the one reported.
EnsureNextStep(run, step) ==
  IF step + 1 \in DOMAIN run.steps THEN run
  ELSE [run EXCEPT !.steps = Put(Put(@, step, NewStep), step + 1, NewStep)]

\* _ensure_current_step: an existing row is reused, even a closed one.
EnsureCurrentStep(run, step) ==
  IF step \in DOMAIN run.steps THEN run
  ELSE [run EXCEPT !.steps = Put(@, step, NewStep)]

\* The verdict a report carries: a step_pass is a PASS whatever its last_result.
ReportedResult(p) == IF p.event = "step_pass" THEN "pass" ELSE p.result

\* Mutant: a PASS is filed under the step that was just entered.
RecordJudgementHere(run, previous, p) ==
  LET result == ReportedResult(p)
  IN  IF result \in {"pass", "fail"}
      THEN [run EXCEPT !.judgements =
              Append(@, [step |-> p.step, result |-> result, source |-> p.event])]
      ELSE run

\* _record_judgement: a PASS belongs to the step before the one just entered.
\* Every report with a pass or fail in last_result adds a row, whatever its event.
RecordJudgement(run, previous, p) ==
  LET result == ReportedResult(p)
      step   == IF result = "pass" /\ previous > 0 /\ previous < p.step
                THEN previous ELSE p.step
  IN  IF result \in {"pass", "fail"}
      THEN [run EXCEPT !.judgements =
              Append(@, [step |-> step, result |-> result, source |-> p.event])]
      ELSE run

\* _handle_pause
HandlePause(run, p) ==
  [run EXCEPT !.steps[p.step].openPauses =
     IF p.state # "paused" THEN 0 ELSE IF @ = 0 THEN 1 ELSE @]

\* Mutant: only the step of the defect is closed.
HandleDefectHere(run, step) ==
  [run EXCEPT !.result = "defect",
              !.steps[step] = Spoiled(@, TRUE)]

\* _handle_defect: everything open in the run is closed, the step gets its defect row.
HandleDefect(run, step) ==
  [run EXCEPT !.result = "defect",
              !.steps = [n \in DOMAIN @ |-> Spoiled(@[n], n = step)]]

\* _handle_complete: step rows and run are closed; pause rows are not looked at.
HandleComplete(run) ==
  [run EXCEPT !.result = "pass", !.steps = [n \in DOMAIN @ |-> Closed(@[n])]]

\* record, for a report it accepts: an idle report leaves the history alone.
Recorded(runs, p) ==
  LET opened == IF OpenRun(runs) = 0 THEN Put(runs, NextId(runs), NewRun(p.product)) ELSE runs
      i      == OpenRun(opened)
      staged == EnsureCurrentStep(ClosePreviousSteps(opened[i], p.step), p.step)
      judged == RecordJudgement(staged, LatestStep(opened[i]), p)
      paused == HandlePause(judged, p)
      done   == CASE p.result = "defect" -> HandleDefect(paused, p.step)
                  [] p.result # "defect" /\ p.state = "complete" -> HandleComplete(paused)
                  [] OTHER -> paused
  IN  IF p.state = "idle" THEN runs ELSE [opened EXCEPT ![i] = done]

-----------------------------------------------------------------------------
(* get_incomplete_work_state: the work a login returns                     *)

NoWork == [state |-> "none"]

\* Mutant: work without a judgement yet is not found (an inner join).
JudgedWork(runs, totals) ==
  LET run    == runs[OpenRun(runs)]
      latest == LatestStep(run)
      paused == latest > 0 /\ run.steps[latest].openPauses > 0
  IN  IF OpenRun(runs) = 0 \/ run.judgements = <<>> THEN NoWork
      ELSE [product |-> run.product,
            total   |-> totals[run.product],
            step    |-> Max({1, latest}),
            state   |-> IF paused THEN "paused" ELSE "running",
            result  |-> Last(run.judgements).result]

IncompleteWork(runs, totals) ==
  LET run    == runs[OpenRun(runs)]
      latest == LatestStep(run)
      paused == latest > 0 /\ run.steps[latest].openPauses > 0
  IN  IF OpenRun(runs) = 0 THEN NoWork
      ELSE [product |-> run.product,
            total   |-> totals[run.product],
            step    |-> Max({1, latest}),
            state   |-> IF paused THEN "paused" ELSE "running",
            result  |-> IF run.judgements = <<>> THEN "waiting"
                        ELSE Last(run.judgements).result]

=============================================================================
