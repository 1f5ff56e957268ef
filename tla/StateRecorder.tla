--------------------------- MODULE StateRecorder ---------------------------
(***************************************************************************)
(* The database side of the work history of one employee: reports arrive   *)
(* with an event id, possibly again after a lost answer, possibly with an  *)
(* id that was used for something else; meanwhile the administrator edits  *)
(* and deletes products.  One report is one transaction (BEGIN IMMEDIATE): *)
(* it is recorded as a whole or refused as a whole.                        *)
(*                                                                         *)
(* The gateway accepts any well-formed report of an authenticated Jetson,  *)
(* so the reports here are not restricted to the order in which            *)
(* WorkStateController publishes them.                                     *)
(***************************************************************************)
EXTENDS WorkTables

CONSTANTS
  EventIds,    \* client_event_id, a UUID drawn by the Jetson per report
  Reports,     \* the reports a Jetson may send
  MaxTotal,    \* bound: steps of a product
  MaxEdits     \* bound: product edits

ASSUME RecorderAssumption ==
  /\ MaxTotal \in Nat \ {0}
  /\ MaxEdits \in Nat
  /\ Reports \subseteq
       [product : Products, total : 1..MaxTotal, step : 0..MaxTotal,
        state : {"idle", "running", "paused", "complete"},
        result : {"waiting", "pass", "fail", "defect"}, event : Events]

VARIABLES
  runs,    \* product_runs and their rows
  events,  \* worker_state_events: event id -> report
  totals,  \* products: product -> total_steps
  edits    \* product edits so far

vars == <<runs, events, totals, edits>>

\* Mutant: a report that arrives again is recorded again.
RecordAgain(id, p) ==
  /\ Acceptable(runs, totals, p)
  /\ events' = Put(events, id, p)
  /\ runs' = Recorded(runs, p)
  /\ UNCHANGED <<totals, edits>>

\* record: an acceptable report whose id is new.  Any other report raises
\* ValueError and is rolled back, or is ignored as a repetition: no action.
Record(id, p) ==
  /\ Acceptable(runs, totals, p)
  /\ id \notin DOMAIN events
  /\ events' = Put(events, id, p)
  /\ runs' = Recorded(runs, p)
  /\ UNCHANGED <<totals, edits>>

\* update_product: unfinished runs of the product are not looked at.
UpdateProduct(product, total) ==
  /\ product \in DOMAIN totals
  /\ edits < MaxEdits                             \* bound
  /\ totals' = [totals EXCEPT ![product] = total]
  /\ edits' = edits + 1
  /\ UNCHANGED <<runs, events>>

\* delete_product with cascade_history: its runs and its reports go with it.
DeleteProduct(product) ==
  /\ product \in DOMAIN totals
  /\ edits < MaxEdits                             \* bound
  /\ totals' = Without(totals, {product})
  /\ runs' = Without(runs, {i \in DOMAIN runs : runs[i].product = product})
  /\ events' = Without(events, {id \in DOMAIN events : events[id].product = product})
  /\ edits' = edits + 1

Init ==
  /\ runs = EmptyDict
  /\ events = EmptyDict
  /\ totals \in [Products -> 1..MaxTotal]
  /\ edits = 0

Next ==
  \/ \E id \in EventIds, p \in Reports : Record(id, p)
  \/ \E product \in Products, total \in 1..MaxTotal : UpdateProduct(product, total)
  \/ \E product \in Products : DeleteProduct(product)

Spec == Init /\ [][Next]_vars

-----------------------------------------------------------------------------
(* Properties                                                              *)

\* The shape of the history rows: a report never leaves a row for a step or with a
\* result the schema has no place for.
TypeOK ==
  /\ \A i \in DOMAIN runs : LET run == runs[i] IN
       /\ i \in Nat \ {0}
       /\ run.product \in Products
       /\ run.result \in {"open", "pass", "defect"}
       /\ DOMAIN run.steps \subseteq 1..MaxTotal
       /\ \A n \in DOMAIN run.steps : run.steps[n] \in StepRow
       /\ run.judgements \in Seq(Judgement)
  /\ DOMAIN events \subseteq EventIds
  /\ \A id \in DOMAIN events : events[id] \in Reports
  /\ totals \in [DOMAIN totals -> 1..MaxTotal] /\ DOMAIN totals \subseteq Products
  /\ edits \in 0..MaxEdits

\* An employee works on one product unit at a time: whatever reports arrive in
\* whatever order, at most one product_runs row lacks completed_at, and it is the
\* newest one.
OneUnfinishedRun ==
  \A i \in DOMAIN runs : runs[i].result = "open" => \A j \in DOMAIN runs : j <= i

\* A finished run is finished in every table: no step row is left open, and the
\* run ended in "defect" exactly if one of its steps has the defect row; a run
\* that ended in a defect leaves no pause open either.
FinishedRunIsClosed ==
  \A i \in DOMAIN runs : LET run == runs[i] IN
    /\ run.result # "open" => \A n \in DOMAIN run.steps : ~run.steps[n].open
    /\ run.result = "defect" <=> \E n \in DOMAIN run.steps : run.steps[n].defect
    /\ run.result = "defect" => \A n \in DOMAIN run.steps : run.steps[n].openPauses = 0
    /\ \A m, n \in DOMAIN run.steps :
         run.steps[m].defect /\ run.steps[n].defect => m = n

\* The step a login would return is never one that is already over: the highest
\* step of an unfinished run is open.
ResumedStepIsOpen ==
  \A i \in DOMAIN runs : runs[i].result = "open" =>
    /\ runs[i].steps # EmptyDict
    /\ runs[i].steps[LatestStep(runs[i])].open

\* The verdicts in the tables, <<run, row of its judgements>>, and the ids of the
\* reports that carried a verdict.
VerdictRows(rs) == UNION {{i} \X DOMAIN rs[i].judgements : i \in DOMAIN rs}

VerdictReports(reports) ==
  {id \in DOMAIN reports :
     reports[id].state # "idle" /\ ReportedResult(reports[id]) \in {"pass", "fail"}}

\* Every verdict in the tables was carried by a report of its own, and every report
\* of a verdict has its row: a report that arrives again, with the same or another
\* content, adds no second row, and no row is left behind by a deleted product.
OneVerdictPerReport ==
  \E carrier \in Bijection(VerdictRows(runs), VerdictReports(events)) :
    \A row \in VerdictRows(runs) :
    LET run     == runs[row[1]]
        verdict == run.judgements[row[2]]
        report  == events[carrier[row]]
    IN  /\ report.product = run.product /\ report.event = verdict.source
        /\ ReportedResult(report) = verdict.result
        /\ verdict.step <= report.step

\* History is append-only for the recorder: a run that is finished never changes
\* again, unless the administrator deletes its product.
FinishedRunIsFrozen ==
  [][\A i \in DOMAIN runs : runs[i].result # "open" =>
       \/ i \in DOMAIN runs' /\ runs'[i] = runs[i]
       \/ \E product \in Products : DeleteProduct(product)]_vars

=============================================================================
