--------------------------- MODULE WorkTablesProofs ---------------------------
(***************************************************************************)
(* What the recorder makes of the history of one employee, for every       *)
(* history and every report: the lemmas on the operators of WorkTables.    *)
(*                                                                         *)
(* One report is followed through the recorder.  A run that is being       *)
(* worked on (Worked) has no defect row; once the row of the reported step *)
(* is there, its highest step row is open (TopIsOpen).  The highest row is *)
(* named by \E, since what Max returns is known only where there is one.   *)
(***************************************************************************)
EXTENDS WorkTables, WellFoundedInduction, TLAPS

\* The rows of a run: finitely many, numbered from 1.
StepTables ==
  UNION {[D -> StepRow] : D \in UNION {SUBSET (1..b) : b \in Nat}}

Runs == [product : Products, result : {"open", "pass", "defect"},
         steps : StepTables, judgements : Seq(Judgement)]

Worked(run) ==
  /\ run \in Runs
  /\ run.result = "open"
  /\ \A n \in DOMAIN run.steps : ~run.steps[n].defect

TopIsOpen(run) ==
  \E top \in DOMAIN run.steps :
    /\ run.steps[top].open
    /\ \A n \in DOMAIN run.steps : n <= top

\* A finished run is finished in every table.
RunIsClosed(run) ==
  /\ run.result # "open" => \A n \in DOMAIN run.steps : ~run.steps[n].open
  /\ run.result = "defect" <=> \E n \in DOMAIN run.steps : run.steps[n].defect
  /\ run.result = "defect" => \A n \in DOMAIN run.steps : run.steps[n].openPauses = 0
  /\ \A m, n \in DOMAIN run.steps :
       run.steps[m].defect /\ run.steps[n].defect => m = n

\* A run between two reports.
Kept(run) ==
  /\ run \in Runs
  /\ RunIsClosed(run)
  /\ run.result = "open" => TopIsOpen(run)

\* A history between two reports: the ids have a bound, so that there is a next
\* one, every run is kept, and only the newest can be unfinished.
Healthy(rs) ==
  /\ \E n \in Nat : DOMAIN rs \subseteq 1..n
  /\ \A i \in DOMAIN rs : Kept(rs[i])
  /\ \A i \in DOMAIN rs : rs[i].result = "open" => \A j \in DOMAIN rs : j <= i

\* A report the recorder can write.
Reportable(p) ==
  /\ p.product \in Products
  /\ p.step \in Nat \ {0}
  /\ p.event \in Events
  /\ p.state # "idle"

\* What a step of the recorder that is not about verdicts leaves alone.
SameUnit(next, run) == next.product = run.product /\ next.judgements = run.judgements

\* The rows of judgement_logs are only added to.
KeepsVerdicts(next, run) ==
  \A j \in DOMAIN run.judgements :
    j \in DOMAIN next.judgements /\ next.judgements[j] = run.judgements[j]

\* A report of a PASS, and the step it is filed under.
Passing(p) == p.event = "step_pass" \/ p.result = "pass"

PassedStep(previous, p) == IF previous > 0 /\ previous < p.step THEN previous ELSE p.step

HasPassed(run, step) ==
  \E j \in DOMAIN run.judgements :
    run.judgements[j].step = step /\ run.judgements[j].result = "pass"

\* The verdict of a report is one more row of the run.
Files(run, p, next) ==
  IF ReportedResult(p) \in {"pass", "fail"}
  THEN \E row \in Judgement :
         /\ row.result = ReportedResult(p) /\ row.source = p.event
         /\ row.step <= p.step
         /\ next.judgements = Append(run.judgements, row)
  ELSE next.judgements = run.judgements

\* What the report p makes of a run.
Advanced(run, p, next) ==
  /\ next.product = run.product
  /\ DOMAIN next.steps = DOMAIN run.steps \cup {p.step}
  /\ next.result = IF p.result = "defect" THEN "defect"
                   ELSE IF p.state = "complete" THEN "pass" ELSE "open"
  /\ next.result = "open" =>
       (next.steps[p.step].openPauses > 0 <=> p.state = "paused")
  /\ KeepsVerdicts(next, run)
  /\ Files(run, p, next)
  /\ Passing(p) => HasPassed(next, PassedStep(LatestStep(run), p))

\* The report is about run, with the id i: the unfinished run or a new one.
RunToWorkOn(rs, p, i, run) ==
  \/ i \in DOMAIN rs /\ OpenRun(rs) = i /\ run = rs[i]
  \/ i \notin DOMAIN rs /\ OpenRun(rs) = 0 /\ run = NewRun(p.product)

\* One run goes on, no other is touched.
Continued(rs, p, next) ==
  \E i \in DOMAIN next : \E run :
    /\ DOMAIN next = DOMAIN rs \cup {i}
    /\ RunToWorkOn(rs, p, i, run)
    /\ Advanced(run, p, next[i])
    /\ \A j \in DOMAIN rs : j # i => next[j] = rs[j] /\ rs[j].result # "open"

-----------------------------------------------------------------------------
(* Greatest elements                                                       *)

\* What Max returns of a set that has a greatest element.
LEMMA MaxIsGreatest ==
  ASSUME NEW S \in SUBSET Nat, NEW m \in S, \A x \in S : x <= m
  PROVE  Max(S) = m
<1>1. \A x \in S : (\A y \in S : x >= y) => x = m
  OBVIOUS
<1>2. \A y \in S : m >= y
  OBVIOUS
<1> QED BY <1>1, <1>2 DEF Max

\* A set of natural numbers with a bound has a greatest element.
LEMMA BoundedHasGreatest ==
  ASSUME NEW S \in SUBSET Nat, S # {}, NEW n \in Nat, \A x \in S : x <= n
  PROVE  \E m \in S : \A x \in S : x <= m
<1> DEFINE Bounds == {b \in Nat : \A x \in S : x <= b}
           Less == {ss \in Nat \X Nat : ss[1] < ss[2]}
<1>1. IsWellFoundedOn(Less, Nat)
  BY NatLessThanWellFounded DEF OpToRel
<1>2. Bounds \subseteq Nat /\ Bounds # {}
  OBVIOUS
<1>3. PICK b \in Bounds : \A c \in Bounds : ~(<<c, b>> \in Less)
  <2> HIDE DEF Bounds, Less
  <2> QED BY <1>1, <1>2, WFMin
<1>4. b \in S
  <2> SUFFICES ASSUME b \notin S PROVE FALSE
    OBVIOUS
  <2>1. b \in Nat /\ \A x \in S : x <= b /\ x # b
    BY <1>3
  <2>2. \A x \in S : x \in Nat /\ x <= b - 1
    BY <2>1
  <2>3. b - 1 \in Nat
    <3>1. PICK x \in S : TRUE
      OBVIOUS
    <3>2. x \in Nat /\ x <= b - 1
      BY <3>1, <2>2
    <3> QED BY <3>2, <2>1
  <2>4. b - 1 \in Bounds
    BY <2>2, <2>3
  <2>5. <<b - 1, b>> \in Less
    BY <2>1, <2>3
  <2> QED BY <2>4, <2>5, <1>3
<1> QED BY <1>3, <1>4

-----------------------------------------------------------------------------
(* The rows of a run                                                       *)

LEMMA StepTableFacts ==
  ASSUME NEW steps \in StepTables
  PROVE  /\ DOMAIN steps \subseteq Nat \ {0}
         /\ steps \in [DOMAIN steps -> StepRow]
         /\ \E b \in Nat : DOMAIN steps \subseteq 1..b
<1>1. PICK b \in Nat : \E D \in SUBSET (1..b) : steps \in [D -> StepRow]
  BY DEF StepTables
<1>2. PICK D \in SUBSET (1..b) : steps \in [D -> StepRow]
  BY <1>1
<1>3. D \subseteq Nat \ {0} /\ D = DOMAIN steps
  BY <1>2
<1> QED BY <1>2, <1>3

LEMMA StepTableMade ==
  ASSUME NEW steps, steps \in [DOMAIN steps -> StepRow],
         NEW b \in Nat, DOMAIN steps \subseteq 1..b
  PROVE  steps \in StepTables
  BY DEF StepTables

\* A table with rows for the same steps.
LEMMA StepTableLike ==
  ASSUME NEW old \in StepTables, NEW steps \in [DOMAIN old -> StepRow]
  PROVE  steps \in StepTables /\ DOMAIN steps = DOMAIN old
<1>1. DOMAIN steps = DOMAIN old
  OBVIOUS
<1>2. PICK b \in Nat : DOMAIN old \subseteq 1..b
  BY StepTableFacts
<1> QED BY <1>1, <1>2, StepTableMade

\* The step rows of a run have a highest number, 0 if there are none.
LEMMA LatestStepIsTop ==
  ASSUME NEW run \in Runs
  PROVE  /\ LatestStep(run) \in Nat
         /\ LatestStep(run) \in {0} \cup DOMAIN run.steps
         /\ \A n \in DOMAIN run.steps : n <= LatestStep(run)
<1> DEFINE S == {0} \cup DOMAIN run.steps
<1>1. PICK b \in Nat : DOMAIN run.steps \subseteq 1..b
  BY StepTableFacts DEF Runs
<1>2. S \in SUBSET Nat /\ S # {} /\ \A x \in S : x <= b
  BY <1>1
<1>3. PICK m \in S : \A x \in S : x <= m
  <2> HIDE DEF S
  <2> QED BY <1>2, BoundedHasGreatest
<1>4. Max(S) = m
  <2> HIDE DEF S
  <2> QED BY <1>2, <1>3, MaxIsGreatest
<1> QED BY <1>2, <1>3, <1>4 DEF LatestStep

\* A run with other step rows.
LEMMA RunWithSteps ==
  ASSUME NEW run \in Runs, NEW steps \in StepTables, NEW next,
         next = [run EXCEPT !.steps = steps]
  PROVE  /\ next \in Runs
         /\ next.steps = steps
         /\ next.result = run.result /\ next.product = run.product
         /\ next.judgements = run.judgements
  BY DEF Runs

-----------------------------------------------------------------------------
(* What each step of the recorder makes of the run                         *)

\* Earlier steps are closed, the others are left alone.
LEMMA PreviousStepsAreClosed ==
  ASSUME NEW run, Worked(run), NEW s \in Nat \ {0},
         NEW next, next = ClosePreviousSteps(run, s)
  PROVE  /\ Worked(next)
         /\ DOMAIN next.steps = DOMAIN run.steps
         /\ \A n \in DOMAIN run.steps : n >= s => next.steps[n] = run.steps[n]
         /\ SameUnit(next, run)
<1> DEFINE row(n) == IF n < s THEN Closed(Unpaused(run.steps[n])) ELSE run.steps[n]
           steps == [n \in DOMAIN run.steps |-> row(n)]
<1>1. /\ run \in Runs
      /\ DOMAIN run.steps \subseteq Nat \ {0}
      /\ run.steps \in [DOMAIN run.steps -> StepRow]
  BY StepTableFacts DEF Worked, Runs
<1>2. \A n \in DOMAIN run.steps : row(n) \in StepRow /\ row(n).defect = run.steps[n].defect
  BY <1>1 DEF StepRow, Closed, Unpaused
<1>3. steps \in StepTables
  <2>1. steps \in [DOMAIN run.steps -> StepRow]
    <3> HIDE DEF row
    <3> QED BY <1>2
  <2> HIDE DEF steps
  <2> QED BY <1>1, <2>1, StepTableLike DEF Runs
<1>4. next = [run EXCEPT !.steps = steps]
  BY DEF ClosePreviousSteps
<1>5. /\ next \in Runs /\ next.steps = steps /\ next.result = run.result
      /\ SameUnit(next, run)
  <2> HIDE DEF steps
  <2> QED BY <1>1, <1>3, <1>4, RunWithSteps DEF SameUnit
<1>6. \A n \in DOMAIN run.steps : ~steps[n].defect
  <2>1. \A n \in DOMAIN run.steps : steps[n] = row(n)
    BY DEF steps
  <2> HIDE DEF steps, row
  <2> QED BY <1>2, <2>1 DEF Worked
<1>7. DOMAIN steps = DOMAIN run.steps
  BY DEF steps
<1>8. \A n \in DOMAIN run.steps : n >= s => steps[n] = run.steps[n]
  <2> SUFFICES ASSUME NEW n \in DOMAIN run.steps, n >= s PROVE steps[n] = run.steps[n]
    OBVIOUS
  <2>1. n \in Int /\ s \in Int
    BY <1>1
  <2> QED BY <2>1
<1> QED
  <2> HIDE DEF steps
  <2> QED BY <1>5, <1>6, <1>7, <1>8 DEF Worked

\* The reported step has a row, an open one if it is new.
LEMMA CurrentStepIsThere ==
  ASSUME NEW run, Worked(run), NEW s \in Nat \ {0},
         NEW next, next = EnsureCurrentStep(run, s)
  PROVE  /\ Worked(next)
         /\ DOMAIN next.steps = DOMAIN run.steps \cup {s}
         /\ \A n \in DOMAIN run.steps : next.steps[n] = run.steps[n]
         /\ s \notin DOMAIN run.steps => next.steps[s].open
         /\ SameUnit(next, run)
<1>1. /\ run \in Runs
      /\ DOMAIN run.steps \subseteq Nat \ {0}
      /\ run.steps \in [DOMAIN run.steps -> StepRow]
  BY StepTableFacts DEF Worked, Runs
<1>2. CASE s \in DOMAIN run.steps
  BY <1>2 DEF EnsureCurrentStep, SameUnit
<1>3. CASE s \notin DOMAIN run.steps
  <2> DEFINE steps == Put(run.steps, s, NewStep)
  <2>1. NewStep \in StepRow /\ ~NewStep.defect /\ NewStep.open
    BY DEF NewStep, StepRow
  <2>2. /\ steps \in [DOMAIN run.steps \cup {s} -> StepRow]
        /\ DOMAIN steps = DOMAIN run.steps \cup {s}
        /\ steps[s] = NewStep
        /\ \A n \in DOMAIN run.steps : steps[n] = run.steps[n]
    <3> HIDE DEF NewStep
    <3> QED BY <1>1, <1>3, <2>1 DEF Put
  <2>3. steps \in StepTables
    <3> HIDE DEF steps
    <3>1. PICK b \in Nat : DOMAIN run.steps \subseteq 1..b
      BY <1>1, StepTableFacts DEF Runs
    <3>2. PICK c \in Nat : b <= c /\ s <= c
      <4>1. b <= b + s /\ s <= b + s /\ b + s \in Nat
        BY <3>1
      <4> QED BY <4>1
    <3>3. DOMAIN steps \subseteq 1..c
      BY <2>2, <3>1, <3>2
    <3> QED BY <2>2, <3>3, StepTableMade
  <2>4. next = [run EXCEPT !.steps = steps]
    BY <1>3 DEF EnsureCurrentStep
  <2>5. next \in Runs /\ next.steps = steps /\ next.result = run.result /\ SameUnit(next, run)
    <3> HIDE DEF steps
    <3> QED BY <1>1, <2>3, <2>4, RunWithSteps DEF SameUnit
  <2> HIDE DEF steps
  <2> QED BY <1>3, <2>1, <2>2, <2>5 DEF Worked
<1> QED BY <1>2, <1>3

\* The highest step row is open once the reported step has its row, whether work
\* goes on, steps back or begins.
LEMMA StagedRun ==
  ASSUME NEW run, Worked(run), NEW s \in Nat \ {0},
         TopIsOpen(run) \/ DOMAIN run.steps = {},
         NEW next, next = EnsureCurrentStep(ClosePreviousSteps(run, s), s)
  PROVE  /\ Worked(next) /\ TopIsOpen(next)
         /\ DOMAIN next.steps = DOMAIN run.steps \cup {s}
         /\ SameUnit(next, run)
<1> DEFINE closed == ClosePreviousSteps(run, s)
<1>1. /\ Worked(closed)
      /\ DOMAIN closed.steps = DOMAIN run.steps
      /\ \A n \in DOMAIN run.steps : n >= s => closed.steps[n] = run.steps[n]
      /\ SameUnit(closed, run)
  <2> HIDE DEF closed
  <2> QED BY PreviousStepsAreClosed DEF closed
<1>2. /\ Worked(next)
      /\ DOMAIN next.steps = DOMAIN closed.steps \cup {s}
      /\ \A n \in DOMAIN closed.steps : next.steps[n] = closed.steps[n]
      /\ s \notin DOMAIN closed.steps => next.steps[s].open
      /\ SameUnit(next, closed)
  <2> HIDE DEF closed
  <2> QED BY <1>1, CurrentStepIsThere DEF closed
<1>3. TopIsOpen(next)
  <2> HIDE DEF closed
  <2>1. DOMAIN run.steps \subseteq Nat \ {0} /\ s \in Nat
    BY StepTableFacts DEF Worked, Runs
  <2>2. CASE DOMAIN run.steps = {}
    BY <1>1, <1>2, <2>1, <2>2 DEF TopIsOpen
  <2>3. CASE TopIsOpen(run)
    <3>1. PICK top \in DOMAIN run.steps :
            run.steps[top].open /\ \A n \in DOMAIN run.steps : n <= top
      BY <2>3 DEF TopIsOpen
    <3>2. top \in Nat
      BY <2>1, <3>1
    <3>3. CASE s <= top
      <4>1. next.steps[top].open /\ top \in DOMAIN next.steps
        BY <1>1, <1>2, <3>1, <3>2, <3>3, <2>1
      <4>2. \A n \in DOMAIN next.steps : n <= top
        BY <1>1, <1>2, <3>1, <3>3
      <4> QED BY <4>1, <4>2 DEF TopIsOpen
    <3>4. CASE s > top
      <4>1. s \notin DOMAIN run.steps
        BY <3>1, <3>2, <3>4, <2>1
      <4>2. next.steps[s].open /\ s \in DOMAIN next.steps
        BY <1>1, <1>2, <4>1
      <4>3. \A n \in DOMAIN next.steps : n <= s
        BY <1>1, <1>2, <3>1, <3>2, <3>4, <2>1
      <4> QED BY <4>2, <4>3 DEF TopIsOpen
    <3> QED BY <3>2, <3>3, <3>4, <2>1
  <2> QED BY <2>2, <2>3
<1> QED
  <2> HIDE DEF closed
  <2> QED BY <1>1, <1>2, <1>3 DEF SameUnit

\* A verdict adds to the judgements only.
LEMMA JudgedRun ==
  ASSUME NEW run, Worked(run), NEW previous \in Nat, NEW p,
         p.step \in Nat \ {0}, p.event \in Events,
         NEW next, next = RecordJudgement(run, previous, p)
  PROVE  /\ Worked(next) /\ next.steps = run.steps /\ next.product = run.product
         /\ KeepsVerdicts(next, run) /\ Files(run, p, next)
         /\ Passing(p) => HasPassed(next, PassedStep(previous, p))
<1> DEFINE result == ReportedResult(p)
           step == IF result = "pass" /\ previous > 0 /\ previous < p.step
                   THEN previous ELSE p.step
           row == [step |-> step, result |-> result, source |-> p.event]
<1>1. run \in Runs
  BY DEF Worked
<1>2. CASE result \in {"pass", "fail"}
  <2>1. step \in Nat \ {0}
    OBVIOUS
  <2>2. row \in Judgement
    <3> HIDE DEF step, result
    <3> QED BY <1>2, <2>1 DEF Judgement
  <2>3. next = [run EXCEPT !.judgements = Append(run.judgements, row)]
    BY <1>2 DEF RecordJudgement
  <2>4. Append(run.judgements, row) \in Seq(Judgement)
    <3> HIDE DEF row
    <3> QED BY <1>1, <2>2 DEF Runs
  <2>5. /\ Worked(next) /\ next.steps = run.steps /\ next.product = run.product
        /\ next.judgements = Append(run.judgements, row)
    <3> HIDE DEF row
    <3> QED BY <1>1, <2>3, <2>4 DEF Runs, Worked
  <2>6. KeepsVerdicts(next, run)
    <3> HIDE DEF row
    <3> QED BY <1>1, <2>5 DEF Runs, KeepsVerdicts
  <2>7. ASSUME Passing(p) PROVE HasPassed(next, PassedStep(previous, p))
    <3>1. row.result = "pass" /\ row.step = PassedStep(previous, p)
      BY <2>7 DEF Passing, PassedStep, ReportedResult
    <3> DEFINE n == Len(run.judgements) + 1
    <3>2. n \in DOMAIN next.judgements /\ next.judgements[n] = row
      <4> HIDE DEF row
      <4> QED BY <1>1, <2>5 DEF Runs
    <3> QED BY <3>1, <3>2 DEF HasPassed
  <2>8. Files(run, p, next)
    <3>1. row.result = result /\ row.source = p.event /\ row.step <= p.step
      OBVIOUS
    <3> HIDE DEF row
    <3> QED BY <1>2, <2>2, <2>5, <3>1 DEF Files
  <2> QED BY <2>5, <2>6, <2>7, <2>8
<1>3. CASE result \notin {"pass", "fail"}
  <2>1. next = run
    BY <1>3 DEF RecordJudgement
  <2>2. ~Passing(p)
    BY <1>3 DEF Passing, ReportedResult
  <2>3. Files(run, p, next)
    BY <1>3, <2>1 DEF Files
  <2> QED BY <2>1, <2>2, <2>3 DEF KeepsVerdicts
<1> QED BY <1>2, <1>3

\* The pauses of the reported step change, nothing else.
LEMMA PausedRun ==
  ASSUME NEW run, Worked(run), TopIsOpen(run), NEW p, p.step \in DOMAIN run.steps,
         NEW next, next = HandlePause(run, p)
  PROVE  /\ Worked(next) /\ TopIsOpen(next) /\ DOMAIN next.steps = DOMAIN run.steps
         /\ next.steps[p.step].openPauses > 0 <=> p.state = "paused"
         /\ SameUnit(next, run)
<1> DEFINE old == run.steps[p.step]
           pauses == IF p.state # "paused" THEN 0
                     ELSE IF old.openPauses = 0 THEN 1 ELSE old.openPauses
           new == [old EXCEPT !.openPauses = pauses]
           steps == [run.steps EXCEPT ![p.step] = new]
<1>1. /\ run \in Runs
      /\ DOMAIN run.steps \subseteq Nat \ {0}
      /\ run.steps \in [DOMAIN run.steps -> StepRow]
  BY StepTableFacts DEF Worked, Runs
<1>2. old \in StepRow
  BY <1>1
<1>3. /\ new \in StepRow /\ new.open = old.open /\ new.defect = old.defect
      /\ new.openPauses > 0 <=> p.state = "paused"
  <2>1. pauses \in Nat /\ (pauses > 0 <=> p.state = "paused")
    BY <1>2 DEF StepRow
  <2> HIDE DEF pauses, old
  <2> QED BY <1>2, <2>1 DEF StepRow
<1>4. /\ steps \in [DOMAIN run.steps -> StepRow]
      /\ \A n \in DOMAIN run.steps :
           steps[n].open = run.steps[n].open /\ steps[n].defect = run.steps[n].defect
      /\ steps[p.step] = new
  <2> HIDE DEF new
  <2> QED BY <1>1, <1>3
<1>5. steps \in StepTables /\ DOMAIN steps = DOMAIN run.steps
  <2> HIDE DEF steps
  <2> QED BY <1>1, <1>4, StepTableLike DEF Runs
<1>6. next = [run EXCEPT !.steps = steps]
  <2>1. next = [run EXCEPT !.steps = [run.steps EXCEPT ![p.step] = [run.steps[p.step] EXCEPT
                  !.openPauses = IF p.state # "paused" THEN 0
                                 ELSE IF run.steps[p.step].openPauses = 0 THEN 1
                                 ELSE run.steps[p.step].openPauses]]]
    BY <1>1 DEF HandlePause, Runs
  <2> QED BY <2>1
<1>7. /\ next \in Runs /\ next.steps = steps /\ next.result = run.result
      /\ SameUnit(next, run)
  <2> HIDE DEF steps
  <2> QED BY <1>1, <1>5, <1>6, RunWithSteps DEF SameUnit
<1> QED
  <2> HIDE DEF steps, new
  <2> QED BY <1>3, <1>4, <1>5, <1>7 DEF Worked, TopIsOpen

\* A defect ends the run and closes it everywhere.
LEMMA DefectRun ==
  ASSUME NEW run, Worked(run), NEW s \in DOMAIN run.steps,
         NEW next, next = HandleDefect(run, s)
  PROVE  /\ Kept(next) /\ next.result = "defect"
         /\ DOMAIN next.steps = DOMAIN run.steps /\ SameUnit(next, run)
<1> DEFINE row(n) == Spoiled(run.steps[n], n = s)
           steps == [n \in DOMAIN run.steps |-> row(n)]
<1>1. /\ run \in Runs
      /\ DOMAIN run.steps \subseteq Nat \ {0}
      /\ run.steps \in [DOMAIN run.steps -> StepRow]
  BY StepTableFacts DEF Worked, Runs
<1>2. \A n \in DOMAIN run.steps :
        /\ row(n) \in StepRow
        /\ ~row(n).open /\ row(n).openPauses = 0
        /\ row(n).defect <=> n = s
  <2> SUFFICES ASSUME NEW n \in DOMAIN run.steps
               PROVE  /\ row(n) \in StepRow
                      /\ ~row(n).open /\ row(n).openPauses = 0
                      /\ row(n).defect <=> n = s
    OBVIOUS
  <2> DEFINE over == Closed(Unpaused(run.steps[n]))
             mark == over.defect \/ n = s
  <2>1. run.steps[n] \in StepRow /\ ~run.steps[n].defect
    BY <1>1 DEF Worked
  <2>2. over \in StepRow /\ ~over.open /\ over.openPauses = 0 /\ ~over.defect
    BY <2>1 DEF StepRow, Closed, Unpaused
  <2>3. mark \in BOOLEAN /\ (mark <=> n = s)
    <3> HIDE DEF over
    <3> QED BY <2>2, Zenon
  <2>4. row(n) = [over EXCEPT !.defect = mark]
    BY DEF Spoiled
  <2> HIDE DEF row, over, mark
  <2>5. row(n) \in StepRow /\ ~row(n).open /\ row(n).openPauses = 0 /\ row(n).defect = mark
    BY <2>2, <2>3, <2>4 DEF StepRow
  <2> QED BY <2>3, <2>5
<1>3. /\ steps \in StepTables
      /\ DOMAIN steps = DOMAIN run.steps
      /\ \A n \in DOMAIN steps :
           ~steps[n].open /\ steps[n].openPauses = 0 /\ (steps[n].defect <=> n = s)
  <2> HIDE DEF row
  <2>1. steps \in [DOMAIN run.steps -> StepRow]
    BY <1>2
  <2>2. DOMAIN steps = DOMAIN run.steps /\ \A n \in DOMAIN steps : steps[n] = row(n)
    OBVIOUS
  <2> HIDE DEF steps
  <2> QED BY <1>1, <1>2, <2>1, <2>2, StepTableLike DEF Runs
<1>4. next = [run EXCEPT !.result = "defect", !.steps = steps]
  BY DEF HandleDefect
<1>5. next \in Runs /\ next.steps = steps /\ next.result = "defect" /\ SameUnit(next, run)
  <2> HIDE DEF steps
  <2> QED BY <1>1, <1>3, <1>4 DEF Runs, SameUnit
<1> QED
  <2> HIDE DEF steps
  <2> QED BY <1>3, <1>5 DEF Kept, RunIsClosed

\* A completion ends the run and closes its steps.
LEMMA CompleteRun ==
  ASSUME NEW run, Worked(run), NEW next, next = HandleComplete(run)
  PROVE  /\ Kept(next) /\ next.result = "pass"
         /\ DOMAIN next.steps = DOMAIN run.steps /\ SameUnit(next, run)
<1> DEFINE steps == [n \in DOMAIN run.steps |-> Closed(run.steps[n])]
<1>1. /\ run \in Runs
      /\ DOMAIN run.steps \subseteq Nat \ {0}
      /\ run.steps \in [DOMAIN run.steps -> StepRow]
  BY StepTableFacts DEF Worked, Runs
<1>2. \A n \in DOMAIN run.steps :
        /\ Closed(run.steps[n]) \in StepRow
        /\ ~Closed(run.steps[n]).open /\ ~Closed(run.steps[n]).defect
  BY <1>1 DEF StepRow, Closed, Worked
<1>3. /\ steps \in StepTables
      /\ DOMAIN steps = DOMAIN run.steps
      /\ \A n \in DOMAIN steps : ~steps[n].open /\ ~steps[n].defect
  <2>1. steps \in [DOMAIN run.steps -> StepRow]
    BY <1>2
  <2>2. DOMAIN steps = DOMAIN run.steps
        /\ \A n \in DOMAIN steps : steps[n] = Closed(run.steps[n])
    OBVIOUS
  <2> HIDE DEF steps
  <2> QED BY <1>1, <1>2, <2>1, <2>2, StepTableLike DEF Runs
<1>4. next = [run EXCEPT !.result = "pass", !.steps = steps]
  BY DEF HandleComplete
<1>5. next \in Runs /\ next.steps = steps /\ next.result = "pass" /\ SameUnit(next, run)
  <2> HIDE DEF steps
  <2> QED BY <1>1, <1>3, <1>4 DEF Runs, SameUnit
<1> QED
  <2> HIDE DEF steps
  <2> QED BY <1>3, <1>5 DEF Kept, RunIsClosed

\* A report on an unfinished run, or on a new one, leaves a run that is kept.
LEMMA ReportedRun ==
  ASSUME NEW run, Worked(run), TopIsOpen(run) \/ DOMAIN run.steps = {},
         NEW p, Reportable(p)
  PROVE  LET staged == EnsureCurrentStep(ClosePreviousSteps(run, p.step), p.step)
             judged == RecordJudgement(staged, LatestStep(run), p)
             paused == HandlePause(judged, p)
             done   == CASE p.result = "defect" -> HandleDefect(paused, p.step)
                         [] p.result # "defect" /\ p.state = "complete" -> HandleComplete(paused)
                         [] OTHER -> paused
         IN  Kept(done) /\ Advanced(run, p, done)
<1> DEFINE staged == EnsureCurrentStep(ClosePreviousSteps(run, p.step), p.step)
           judged == RecordJudgement(staged, LatestStep(run), p)
           paused == HandlePause(judged, p)
           done   == CASE p.result = "defect" -> HandleDefect(paused, p.step)
                       [] p.result # "defect" /\ p.state = "complete" -> HandleComplete(paused)
                       [] OTHER -> paused
<1>1. /\ Worked(staged) /\ TopIsOpen(staged)
      /\ DOMAIN staged.steps = DOMAIN run.steps \cup {p.step}
      /\ SameUnit(staged, run)
  <2> HIDE DEF staged
  <2> QED BY StagedRun DEF staged, Reportable
<1>2. /\ Worked(judged) /\ TopIsOpen(judged)
      /\ judged.steps = staged.steps /\ judged.product = run.product
      /\ KeepsVerdicts(judged, run) /\ Files(run, p, judged)
      /\ Passing(p) => HasPassed(judged, PassedStep(LatestStep(run), p))
  <2>1. LatestStep(run) \in Nat /\ p.step \in Nat \ {0} /\ p.event \in Events
    BY LatestStepIsTop DEF Worked, Reportable
  <2> HIDE DEF staged, judged
  <2>2. /\ Worked(judged) /\ judged.steps = staged.steps /\ judged.product = staged.product
        /\ KeepsVerdicts(judged, staged) /\ Files(staged, p, judged)
        /\ Passing(p) => HasPassed(judged, PassedStep(LatestStep(run), p))
    BY <1>1, <2>1, JudgedRun DEF judged
  <2>3. Files(run, p, judged)
    BY <1>1, <2>2 DEF SameUnit, Files
  <2> QED BY <1>1, <2>2, <2>3 DEF TopIsOpen, SameUnit, KeepsVerdicts
<1>3. /\ Worked(paused) /\ TopIsOpen(paused)
      /\ DOMAIN paused.steps = DOMAIN run.steps \cup {p.step}
      /\ paused.steps[p.step].openPauses > 0 <=> p.state = "paused"
      /\ SameUnit(paused, judged)
  <2> HIDE DEF judged, paused
  <2> QED BY <1>1, <1>2, PausedRun DEF paused
<1> DEFINE Told(r) == /\ r.product = run.product
                      /\ DOMAIN r.steps = DOMAIN run.steps \cup {p.step}
                      /\ KeepsVerdicts(r, run) /\ Files(run, p, r)
                      /\ Passing(p) => HasPassed(r, PassedStep(LatestStep(run), p))
<1>4. Told(paused)
  <2> HIDE DEF judged, paused
  <2> QED BY <1>2, <1>3 DEF SameUnit, KeepsVerdicts, Files, HasPassed
<1>5. ASSUME NEW r, SameUnit(r, paused), DOMAIN r.steps = DOMAIN paused.steps
      PROVE  Told(r)
  <2> HIDE DEF paused
  <2> QED BY <1>4, <1>5 DEF SameUnit, KeepsVerdicts, Files, HasPassed
<1> HIDE DEF Told
<1>6. Kept(done) /\ Advanced(run, p, done)
  <2> HIDE DEF paused
  <2>1. CASE p.result = "defect"
    <3>1. /\ Kept(done) /\ done.result = "defect"
          /\ DOMAIN done.steps = DOMAIN paused.steps /\ SameUnit(done, paused)
      BY <1>3, <2>1, DefectRun
    <3>2. Told(done)
      <4> HIDE DEF done
      <4> QED BY <3>1, <1>5
    <3> HIDE DEF done
    <3> QED BY <2>1, <3>1, <3>2 DEF Told, Advanced
  <2>2. CASE p.result # "defect" /\ p.state = "complete"
    <3>1. /\ Kept(done) /\ done.result = "pass"
          /\ DOMAIN done.steps = DOMAIN paused.steps /\ SameUnit(done, paused)
      BY <1>3, <2>2, CompleteRun
    <3>2. Told(done)
      <4> HIDE DEF done
      <4> QED BY <3>1, <1>5
    <3> HIDE DEF done
    <3> QED BY <2>2, <3>1, <3>2 DEF Told, Advanced
  <2>3. CASE p.result # "defect" /\ p.state # "complete"
    <3>1. done = paused
      BY <2>3
    <3>2. Kept(paused)
      BY <1>3 DEF Kept, Worked, RunIsClosed
    <3>3. Advanced(run, p, paused)
      BY <1>3, <1>4, <2>3 DEF Told, Advanced, Worked
    <3> QED BY <3>1, <3>2, <3>3
  <2> QED BY <2>1, <2>2, <2>3
<1> QED BY <1>6

-----------------------------------------------------------------------------
(* The history of an employee                                              *)

\* The run the recorder works on is the unfinished one, and the only one.
LEMMA OpenRunFound ==
  ASSUME NEW rs, Healthy(rs)
  PROVE  \/ /\ OpenRun(rs) = 0
            /\ \A i \in DOMAIN rs : rs[i].result # "open"
         \/ /\ OpenRun(rs) \in DOMAIN rs
            /\ rs[OpenRun(rs)].result = "open"
            /\ \A j \in DOMAIN rs : j <= OpenRun(rs)
            /\ \A j \in DOMAIN rs : j # OpenRun(rs) => rs[j].result # "open"
<1> DEFINE Open == {i \in DOMAIN rs : rs[i].result = "open"}
           S == {0} \cup Open
<1>1. DOMAIN rs \subseteq Nat \ {0}
  BY DEF Healthy
<1>2. S \in SUBSET Nat /\ OpenRun(rs) = Max(S)
  BY <1>1 DEF OpenRun
<1>3. CASE Open = {}
  <2>1. 0 \in S /\ \A x \in S : x <= 0
    BY <1>3
  <2>2. Max(S) = 0
    <3> HIDE DEF S
    <3> QED BY <1>2, <2>1, MaxIsGreatest
  <2> QED BY <1>2, <1>3, <2>2
<1>4. CASE Open # {}
  <2>1. PICK i \in DOMAIN rs : rs[i].result = "open"
    BY <1>4
  <2>2. \A j \in DOMAIN rs : j <= i
    BY <2>1 DEF Healthy
  <2>3. i \in S /\ \A x \in S : x <= i
    BY <1>1, <2>1, <2>2
  <2>4. Max(S) = i
    <3> HIDE DEF S
    <3> QED BY <1>2, <2>3, MaxIsGreatest
  <2>5. \A j \in DOMAIN rs : rs[j].result = "open" => i <= j /\ j <= i
    BY <2>1, <2>2 DEF Healthy
  <2>6. \A j \in DOMAIN rs : j # i => rs[j].result # "open"
    BY <1>1, <2>1, <2>5
  <2> HIDE DEF S, Open
  <2> QED BY <1>2, <2>1, <2>2, <2>4, <2>6
<1> QED BY <1>3, <1>4

\* The id of a new run is above all others.
LEMMA NextIdIsNew ==
  ASSUME NEW rs, Healthy(rs)
  PROVE  NextId(rs) \in Nat \ {0} /\ \A j \in DOMAIN rs : j < NextId(rs)
<1> DEFINE S == {0} \cup DOMAIN rs
<1>1. PICK b \in Nat : DOMAIN rs \subseteq 1..b
  BY DEF Healthy
<1>2. S \in SUBSET Nat /\ S # {} /\ \A x \in S : x <= b
  BY <1>1
<1>3. PICK m \in S : \A x \in S : x <= m
  <2> HIDE DEF S
  <2> QED BY <1>1, <1>2, BoundedHasGreatest
<1>4. Max(S) = m
  <2> HIDE DEF S
  <2> QED BY <1>2, <1>3, MaxIsGreatest
<1>5. NextId(rs) = 1 + m /\ m \in Nat
  BY <1>2, <1>4 DEF NextId
<1> QED BY <1>1, <1>3, <1>5

\* A run that is unfinished between two reports can be worked on.
LEMMA OpenRunIsWorked ==
  ASSUME NEW run, Kept(run), run.result = "open"
  PROVE  Worked(run) /\ TopIsOpen(run)
  BY DEF Kept, Worked, RunIsClosed

\* So can a new one.
LEMMA NewRunIsWorked ==
  ASSUME NEW product \in Products
  PROVE  Worked(NewRun(product)) /\ DOMAIN NewRun(product).steps = {}
<1>1. EmptyDict \in StepTables /\ DOMAIN EmptyDict = {}
  <2>1. DOMAIN EmptyDict = {}
    BY DEF EmptyDict
  <2>2. EmptyDict \in [{} -> StepRow]
    BY DEF EmptyDict
  <2>3. 0 \in Nat /\ {} \subseteq 1..0
    OBVIOUS
  <2> HIDE DEF EmptyDict
  <2> QED BY <2>1, <2>2, <2>3, StepTableMade
<1> HIDE DEF EmptyDict
<1>2. NewRun(product) \in Runs
  BY <1>1 DEF NewRun, Runs
<1> QED BY <1>1, <1>2 DEF NewRun, Worked

\* A report leaves a healthy history, and finished runs as they were.
LEMMA RecordedHistory ==
  ASSUME NEW rs, Healthy(rs), NEW p, Reportable(p)
  PROVE  /\ Healthy(Recorded(rs, p))
         /\ \A j \in DOMAIN rs : rs[j].result # "open" =>
              j \in DOMAIN Recorded(rs, p) /\ Recorded(rs, p)[j] = rs[j]
         /\ Continued(rs, p, Recorded(rs, p))
<1> DEFINE opened == IF OpenRun(rs) = 0 THEN Put(rs, NextId(rs), NewRun(p.product)) ELSE rs
           i == OpenRun(opened)
           staged == EnsureCurrentStep(ClosePreviousSteps(opened[i], p.step), p.step)
           judged == RecordJudgement(staged, LatestStep(opened[i]), p)
           paused == HandlePause(judged, p)
           done   == CASE p.result = "defect" -> HandleDefect(paused, p.step)
                       [] p.result # "defect" /\ p.state = "complete" -> HandleComplete(paused)
                       [] OTHER -> paused
           recorded == [opened EXCEPT ![i] = done]
<1>1. /\ \E n \in Nat : DOMAIN opened \subseteq 1..n
      /\ i \in DOMAIN opened /\ \A j \in DOMAIN opened : j <= i
      /\ Worked(opened[i]) /\ (TopIsOpen(opened[i]) \/ DOMAIN opened[i].steps = {})
      /\ \A j \in DOMAIN opened : j # i => Kept(opened[j]) /\ opened[j].result # "open"
      /\ \A j \in DOMAIN rs : j \in DOMAIN opened /\ opened[j] = rs[j]
      /\ i \in DOMAIN rs => rs[i].result = "open"
      /\ DOMAIN opened = DOMAIN rs \cup {i}
      /\ RunToWorkOn(rs, p, i, opened[i])
  <2>1. CASE OpenRun(rs) = 0
    <3>1. \A j \in DOMAIN rs : rs[j].result # "open"
      BY <2>1, OpenRunFound DEF Healthy
    <3> DEFINE new == NextId(rs)
               run == NewRun(p.product)
    <3>2. new \in Nat \ {0} /\ \A j \in DOMAIN rs : j < new
      BY NextIdIsNew
    <3>3. Worked(run) /\ DOMAIN run.steps = {}
      BY NewRunIsWorked DEF Reportable
    <3>4. PICK b \in Nat : DOMAIN rs \subseteq 1..b
      BY DEF Healthy
    <3> HIDE DEF new, run
    <3>5. /\ opened = Put(rs, new, run)
          /\ DOMAIN opened = DOMAIN rs \cup {new}
          /\ opened[new] = run
          /\ \A j \in DOMAIN rs : j # new /\ opened[j] = rs[j]
      BY <2>1, <3>2, <3>4 DEF Put, new, run
    <3> HIDE DEF opened, i
    <3>6. {j \in DOMAIN opened : opened[j].result = "open"} = {new}
      BY <3>1, <3>3, <3>5 DEF Worked
    <3>7. i = new
      <4>1. 0 <= new /\ {0} \cup {new} \in SUBSET Nat /\ \A x \in {0} \cup {new} : x <= new
        BY <3>2
      <4>2. Max({0} \cup {new}) = new
        BY <4>1, MaxIsGreatest
      <4> QED BY <3>6, <4>2 DEF OpenRun, i
    <3>8. DOMAIN opened \subseteq 1..new
      BY <3>2, <3>4, <3>5
    <3>9. \A j \in DOMAIN opened : j <= new
      BY <3>2, <3>8
    <3>10. new \notin DOMAIN rs
      BY <3>5
    <3>11. RunToWorkOn(rs, p, new, run)
      BY <2>1, <3>10 DEF RunToWorkOn, run
    <3> QED BY <3>1, <3>2, <3>3, <3>5, <3>7, <3>8, <3>9, <3>10, <3>11 DEF Healthy
  <2>2. CASE OpenRun(rs) # 0
    <3>1. opened = rs /\ i = OpenRun(rs)
      BY <2>2
    <3>2. /\ i \in DOMAIN rs /\ rs[i].result = "open"
          /\ \A j \in DOMAIN rs : j <= i
          /\ \A j \in DOMAIN rs : j # i => rs[j].result # "open"
      <4> HIDE DEF i, opened
      <4> QED BY <2>2, <3>1, OpenRunFound
    <3>3. Worked(rs[i]) /\ TopIsOpen(rs[i])
      <4> HIDE DEF i, opened
      <4> QED BY <3>2, OpenRunIsWorked DEF Healthy
    <3> HIDE DEF i, opened
    <3>4. RunToWorkOn(rs, p, i, rs[i])
      BY <3>1, <3>2 DEF RunToWorkOn
    <3> QED BY <3>1, <3>2, <3>3, <3>4 DEF Healthy
  <2> QED BY <2>1, <2>2
<1>2. Kept(done) /\ Advanced(opened[i], p, done)
  <2> HIDE DEF opened, i
  <2> QED BY <1>1, ReportedRun
<1>3. recorded = Recorded(rs, p)
  BY DEF Recorded, Reportable
<1>4. /\ DOMAIN recorded = DOMAIN opened /\ recorded[i] = done
      /\ \A j \in DOMAIN opened : j # i => recorded[j] = opened[j]
  <2> HIDE DEF opened, i, done
  <2> QED BY <1>1
<1> HIDE DEF recorded, done, opened, i
<1>5. \A j \in DOMAIN recorded : Kept(recorded[j])
  BY <1>1, <1>2, <1>4
<1>6. \A j \in DOMAIN recorded : recorded[j].result = "open" =>
        \A k \in DOMAIN recorded : k <= j
  BY <1>1, <1>4
<1>7. \A j \in DOMAIN rs : rs[j].result # "open" =>
        j \in DOMAIN recorded /\ recorded[j] = rs[j]
  BY <1>1, <1>4
<1>8. Continued(rs, p, recorded)
  BY <1>1, <1>2, <1>4 DEF Continued
<1> QED BY <1>1, <1>3, <1>4, <1>5, <1>6, <1>7, <1>8 DEF Healthy

=============================================================================
