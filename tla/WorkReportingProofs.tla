-------------------------- MODULE WorkReportingProofs --------------------------
(***************************************************************************)
(* The way of a worker's reports from the window to the tables and back,   *)
(* for any products, number of steps, reports, logins and faults: nothing  *)
(* is refused while the link is intact, and the system implements          *)
(* ResumableWork.                                                          *)
(*                                                                         *)
(* Every report underway is well formed, whatever happened (SoundReports). *)
(* While the link is intact the reports underway form a chain (Chained):   *)
(* the first one continues the work the tables hold, each other one the    *)
(* one before it, and the last one is what the window shows.               *)
(***************************************************************************)
EXTENDS WorkReporting, WorkTablesProofs, SequenceTheorems

\* The reports the window publishes: well formed for the registered products.
SoundReports == {s \in Snapshots(Products, MaxTotal) : WellFormed(Totals, s)}

\* A snapshot between two operations: the work is not over, and idle after it.
Standing(s) ==
  /\ s \in SoundReports
  /\ s.state \in {"idle", "running", "paused"}
  /\ s.state # "idle" => s.result # "defect"

\* The report r continues the work at point p.
Follows(p, r) ==
  IF p = NoPoint
  THEN r.state = "idle" \/ (Point(r) # NoPoint /\ r.step = 1 /\ r.state = "running")
  ELSE /\ r.state # "idle"
       /\ r.product = p.product
       /\ Point(r) = NoPoint \/ r.step = p.step
            \/ (r.step = p.step + 1 /\ ~p.paused /\ r.state = "running")

\* The reports lead from the point first to the point last.
Chained(first, reports, last) ==
  /\ reports = <<>> => first = last
  /\ reports # <<>> => Follows(first, reports[1]) /\ Point(reports[Len(reports)]) = last
  /\ \A i \in 1..Len(reports) - 1 : Follows(Point(reports[i]), reports[i + 1])

\* A history whose runs have rows for steps of their products only.
SoundHistory(rs) ==
  /\ Healthy(rs)
  /\ \A i \in DOMAIN rs : DOMAIN rs[i].steps \subseteq 1..Totals[rs[i].product]

SavedIn(rs) == Point(IncompleteWork(rs, Totals))

\* Requests the Jetson has given up on.
LateRequests == [report : SoundReports, token : Nat \ {0}]

\* The shape of the state, whatever has happened to the reports.
Shape ==
  /\ Standing(snapshot)
  /\ queue \in Seq(SoundReports)
  /\ sending \in Seq(SoundReports) /\ Len(sending) <= 1
  /\ late \in Seq(LateRequests) /\ \A i \in DOMAIN late : late[i].token <= token
  /\ SoundHistory(runs)
  /\ phase \in {"out", "in", "terminating"}
  /\ Windowed => token >= 1
  /\ ~Windowed => queue = <<>> /\ sending = <<>>
  /\ token \in 0..MaxLogins /\ live \in 0..token
  /\ job \in Nat /\ asked \in [job : 0..job, step : 0..MaxTotal, pending : BOOLEAN]
  /\ refreshing \in BOOLEAN /\ intact \in BOOLEAN
  /\ published \in 0..MaxReports /\ faults \in 0..MaxFaults

\* While the link is intact: in a window, the reports underway lead from the tables
\* to the snapshot; after it, at most one request is left, and it continues the work
\* the tables hold.
Link ==
  intact =>
    /\ Windowed =>
         /\ live = token
         /\ \A i \in DOMAIN late : late[i].token # live
         /\ Chained(SavedIn(runs), sending \o queue, Point(snapshot))
    /\ ~Windowed =>
         \A i \in DOMAIN late : late[i].token = live =>
           /\ Follows(SavedIn(runs), late[i].report)
           /\ \A j \in DOMAIN late : late[j].token = live => j = i

\* The inductive invariant.
ReportingInv == Shape /\ Link

\* Report b is published after a: idle, a first step, the step of a, or, with the PASS
\* of that step, the next one.
Succeeds(a, b) ==
  \/ b.state = "idle"
  \/ b.step = 1 /\ b.state # "complete"
  \/ /\ Point(a) # NoPoint /\ a.product = b.product
     /\ \/ b.step = a.step /\ (b.state = "complete" => b.result = "pass")
        \/ b.step = a.step + 1 /\ b.event = "step_pass" /\ b.state # "complete"

\* The tables have the unfinished work on product as far as step, or unfinished work on
\* another product, for which they refuse the report.
Reached(rs, product, step) ==
  /\ OpenRun(rs) # 0
  /\ rs[OpenRun(rs)].product = product => step <= LatestStep(rs[OpenRun(rs)])

\* Recording or refusing s left the tables where its successor finds them.
Settled(rs, s) == Point(s) # NoPoint => Reached(rs, s.product, s.step)

\* No step is missing between the tables and report r.
Prepared(rs, r) ==
  \/ r.state = "idle"
  \/ r.step = 1 /\ r.state # "complete"
  \/ Reached(rs, r.product, r.step) /\ (r.state = "complete" => r.result = "pass")
  \/ Reached(rs, r.product, r.step - 1) /\ r.event = "step_pass" /\ r.state # "complete"

\* The reports lead from the tables to the snapshot s, step by step.
InOrder(rs, reports, s) ==
  /\ reports = <<>> => Settled(rs, s)
  /\ reports # <<>> => Prepared(rs, reports[1]) /\ reports[Len(reports)] = s
  /\ \A i \in 1..Len(reports) - 1 : Succeeds(reports[i], reports[i + 1])

\* A run has a row for every step up to the one it is at, and a pass row for every
\* step it has left.
Passed(run, steps) == \A n \in 1..steps : n \in DOMAIN run.steps /\ HasPassed(run, n)

StepByStep(rs) ==
  \A i \in DOMAIN rs :
    /\ rs[i].result = "pass" => Passed(rs[i], Totals[rs[i].product])
    /\ rs[i].result = "open" => Passed(rs[i], LatestStep(rs[i]) - 1)

\* Without faults nothing is lost in the middle: a late request comes too late to be
\* recorded, and the reports of a window are handled in the order of the work.
Calm ==
  faults = 0 =>
    /\ live = IF Windowed THEN token ELSE 0
    /\ \A i \in DOMAIN late : late[i].token # live
    /\ StepByStep(runs)
    /\ Windowed => InOrder(runs, sending \o queue, snapshot)

-----------------------------------------------------------------------------
(* Points                                                                  *)

\* A point of work under way is not NoPoint, and tells product, step and pause.
LEMMA PointOfWork ==
  ASSUME NEW s, s.state \in {"running", "paused"}, s.result # "defect"
  PROVE  /\ Point(s) # NoPoint
         /\ Point(s) = [product |-> s.product, step |-> s.step, paused |-> s.state = "paused"]
         /\ Point(s).product = s.product /\ Point(s).step = s.step
         /\ Point(s).paused = (s.state = "paused")
<1>1. Point(s) = [product |-> s.product, step |-> s.step, paused |-> s.state = "paused"]
  BY DEF Point
<1>2. DOMAIN Point(s) = {"product", "step", "paused"} /\ DOMAIN NoPoint = {"product"}
  BY <1>1 DEF NoPoint
<1>3. Point(s) # NoPoint
  BY <1>2
<1>4. /\ Point(s).product = s.product /\ Point(s).step = s.step
      /\ Point(s).paused = (s.state = "paused")
  BY <1>1
<1> QED BY <1>1, <1>3, <1>4

LEMMA NoPointOtherwise ==
  ASSUME NEW s, ~(s.state \in {"running", "paused"} /\ s.result # "defect")
  PROVE  Point(s) = NoPoint
  BY DEF Point

LEMMA BoundsAreNumbers ==
  MaxTotal \in Nat /\ MaxReports \in Nat /\ MaxLogins \in Nat /\ MaxFaults \in Nat
  BY ReportingAssumption

\* What a sound report is made of.
LEMMA SoundReport ==
  ASSUME NEW s
  PROVE  s \in SoundReports <=>
           /\ s \in Snapshots(Products, MaxTotal)
           /\ s.product \in Products
           /\ s.total = Totals[s.product] /\ s.total \in 1..MaxTotal
           /\ s.step \in (IF s.state = "idle" THEN 0 ELSE 1)..s.total
           /\ s.state = "complete" => s.step = s.total
           /\ s.result = "defect" => s.event = "manual_defect"
<1>1. Totals \in [Products -> 1..MaxTotal]
  BY ReportingAssumption
<1>2. s \in Snapshots(Products, MaxTotal) => s.product \in Products /\ s.total \in 1..MaxTotal
  BY DEF Snapshots
<1> QED BY <1>1, <1>2 DEF SoundReports, WellFormed

-----------------------------------------------------------------------------
(* The operations of WorkStateController                                   *)

\* What every operation keeps.
Sane(operation) ==
  /\ Standing(operation.next)
  /\ operation.published \in Seq(SoundReports)

\* One that continues the work of the snapshot s.
Continuing(s, operation) ==
  \/ operation.published = <<>> /\ operation.next = s
  \/ operation.published = <<operation.next>> /\ Follows(Point(s), operation.next)
  \/ \E e \in SoundReports :
       /\ operation.published = <<e, operation.next>>
       /\ Follows(Point(s), e) /\ Point(e) = NoPoint
       /\ operation.next.state = "idle"

\* One that may be reported next after s.
Orderly(s, operation) ==
  \/ operation.published = <<>> /\ operation.next = s
  \/ operation.published = <<operation.next>> /\ Succeeds(s, operation.next)
  \/ \E e \in SoundReports :
       /\ operation.published = <<e, operation.next>>
       /\ Succeeds(s, e) /\ operation.next.state = "idle"

\* A product is chosen.
LEMMA ConfigureIsSane ==
  ASSUME NEW product \in Products
  PROVE  LET operation == Configure(product, Totals[product]) IN
         /\ Sane(operation)
         /\ operation.published = <<operation.next>> /\ operation.next.state = "idle"
<1> DEFINE s == [product |-> product, total |-> Totals[product], step |-> 0,
                 state |-> "idle", result |-> "waiting", event |-> "init"]
<1>1. Totals[product] \in 1..MaxTotal
  BY ReportingAssumption
<1>2. s \in Snapshots(Products, MaxTotal)
  BY <1>1, BoundsAreNumbers DEF Snapshots
<1>3. s \in SoundReports
  BY <1>1, <1>2, SoundReport
<1>4. /\ Configure(product, Totals[product]).next = s
      /\ Configure(product, Totals[product]).published = <<s>>
  BY DEF Configure, Published
<1> HIDE DEF s
<1>5. s.state = "idle"
  BY DEF s
<1> QED BY <1>3, <1>4, <1>5 DEF Sane, Standing

\* Operations that only change step, state, result and event.
LEMMA ChangedSnapshot ==
  ASSUME NEW s \in SoundReports, NEW step \in 0..s.total,
         NEW state \in {"idle", "running", "paused", "complete"},
         NEW result \in {"waiting", "pass", "fail", "defect"},
         NEW event \in {"init", "restore", "start", "pause", "resume",
                        "manual_defect", "ai_fail", "step_pass", "complete"},
         state # "idle" => step >= 1, state = "complete" => step = s.total,
         result = "defect" => event = "manual_defect",
         NEW x, x = [product |-> s.product, total |-> s.total, step |-> step,
                     state |-> state, result |-> result, event |-> event]
  PROVE  x \in SoundReports
<1>1. s \in Snapshots(Products, MaxTotal) /\ s.product \in Products /\ s.total = Totals[s.product]
      /\ s.total \in 1..MaxTotal
  BY SoundReport
<1>2. x \in Snapshots(Products, MaxTotal)
  BY <1>1, BoundsAreNumbers DEF Snapshots
<1> QED BY <1>1, <1>2, SoundReport

LEMMA SnapshotRecord ==
  ASSUME NEW s \in SoundReports
  PROVE  s = [product |-> s.product, total |-> s.total, step |-> s.step, state |-> s.state,
              result |-> s.result, event |-> s.event]
  BY DEF SoundReports, Snapshots

\* Work goes on from a standing snapshot.
LEMMA GoesOn ==
  ASSUME NEW s, Standing(s), NEW step \in 1..s.total, NEW state \in {"running", "paused"},
         NEW result \in {"waiting", "pass", "fail"},
         NEW event \in {"start", "pause", "resume", "ai_fail", "step_pass"},
         NEW x, x = [product |-> s.product, total |-> s.total, step |-> step,
                     state |-> state, result |-> result, event |-> event],
         NEW operation, operation.next = x, operation.published = <<x>>
  PROVE  /\ Sane(operation)
         /\ s.state = "idle" /\ step = 1 /\ state = "running" => Continuing(s, operation)
         /\ s.state # "idle" /\ step = s.step => Continuing(s, operation)
         /\ s.state = "running" /\ step = s.step + 1 /\ state = "running" =>
              Continuing(s, operation)
         /\ step = 1 \/ (s.state # "idle" /\ step = s.step)
              \/ (s.state = "running" /\ step = s.step + 1 /\ event = "step_pass") =>
              Orderly(s, operation)
<1>1. s \in SoundReports /\ step \in 0..s.total /\ step >= 1
  BY SoundReport DEF Standing
<1>2. x \in SoundReports
  BY <1>1, ChangedSnapshot
<1>3. /\ x.product = s.product /\ x.step = step /\ x.state = state /\ x.result = result
      /\ Point(x) # NoPoint
  BY PointOfWork
<1>4. Sane(operation)
  BY <1>2, <1>3 DEF Sane, Standing
<1>5. Follows(Point(s), x) => Continuing(s, operation)
  BY DEF Continuing
<1>6. s.state = "idle" /\ step = 1 /\ state = "running" => Follows(Point(s), x)
  BY <1>3, NoPointOtherwise DEF Follows
<1>7. s.state # "idle" => /\ Point(s) # NoPoint /\ Point(s).product = s.product
                          /\ Point(s).step = s.step /\ Point(s).paused = (s.state = "paused")
  BY PointOfWork DEF Standing
<1>8. s.state # "idle" /\ step = s.step => Follows(Point(s), x)
  BY <1>3, <1>7 DEF Follows
<1>9. s.state = "running" /\ step = s.step + 1 /\ state = "running" => Follows(Point(s), x)
  BY <1>3, <1>7 DEF Follows
<1>10. /\ s.state # "idle" => Point(s) # NoPoint
       /\ x.event = event /\ x.state # "complete" /\ operation.published = <<operation.next>>
       /\ operation.next = x
  BY <1>3, <1>7
<1>11. step = 1 => Succeeds(s, x)
  BY <1>3, <1>10 DEF Succeeds
<1>12. s.state # "idle" /\ step = s.step => Succeeds(s, x)
  BY <1>3, <1>10 DEF Succeeds
<1>13. s.state = "running" /\ step = s.step + 1 /\ event = "step_pass" => Succeeds(s, x)
  BY <1>3, <1>10 DEF Succeeds
<1>14. Succeeds(s, x) => Orderly(s, operation)
  BY <1>10 DEF Orderly
<1> QED BY <1>4, <1>5, <1>6, <1>8, <1>9, <1>11, <1>12, <1>13, <1>14

\* Work ends, and the window is idle again.
LEMMA Ends ==
  ASSUME NEW s, Standing(s), s.state # "idle",
         NEW state \in {"running", "paused", "complete"},
         NEW result \in {"pass", "defect"}, NEW event \in {"manual_defect", "complete"},
         NEW e, e = [product |-> s.product, total |-> s.total, step |-> s.step,
                     state |-> state, result |-> result, event |-> event],
         state = "complete" => s.step = s.total,
         result = "defect" <=> event = "manual_defect",
         result = "defect" \/ state = "complete", state = "complete" => result = "pass"
  PROVE  Sane(Ended(e)) /\ Continuing(s, Ended(e)) /\ Orderly(s, Ended(e))
<1>1. s \in SoundReports /\ s.step \in 0..s.total /\ s.step >= 1 /\ 0 \in 0..s.total
  BY SoundReport DEF Standing
<1>2. e \in SoundReports
  BY <1>1, ChangedSnapshot
<1> DEFINE x == [product |-> s.product, total |-> s.total, step |-> 0,
                 state |-> "idle", result |-> "waiting", event |-> "init"]
<1>3. IdleAgain(e) = x
  <2>1. IdleAgain(e) = [e EXCEPT !.step = 0, !.state = "idle", !.result = "waiting", !.event = "init"]
    BY DEF IdleAgain
  <2> QED BY <2>1
<1>4. x \in SoundReports
  <2> HIDE DEF x
  <2> QED BY <1>1, ChangedSnapshot DEF x
<1>5. x.state = "idle"
  OBVIOUS
<1>6. e.product = s.product /\ e.state = state /\ e.result = result
  OBVIOUS
<1> HIDE DEF x
<1>7. Ended(e).next = x /\ Ended(e).published = <<e, x>>
  BY <1>3 DEF Ended
<1>8. Sane(Ended(e))
  <2>1. <<e, x>> \in Seq(SoundReports)
    BY <1>2, <1>4
  <2>2. Standing(x)
    BY <1>4, <1>5 DEF Standing
  <2> QED BY <1>7, <2>1, <2>2 DEF Sane
<1>9. Point(e) = NoPoint
  BY <1>6, NoPointOtherwise
<1>10. Follows(Point(s), e)
  <2>1. Point(s) # NoPoint /\ Point(s).product = s.product
    BY PointOfWork DEF Standing
  <2> QED BY <2>1, <1>6, <1>9 DEF Follows
<1>11. Continuing(s, Ended(e))
  BY <1>2, <1>5, <1>7, <1>9, <1>10 DEF Continuing
<1>12. Succeeds(s, e)
  <2>1. Point(s) # NoPoint /\ e.step = s.step
    BY PointOfWork DEF Standing
  <2> QED BY <2>1, <1>6 DEF Succeeds
<1>13. Orderly(s, Ended(e))
  BY <1>2, <1>5, <1>7, <1>12 DEF Orderly
<1> QED BY <1>8, <1>11, <1>13

\* An operation that is refused changes nothing.
LEMMA RefusedIsSane ==
  ASSUME NEW s, Standing(s)
  PROVE  Sane(Refused(s)) /\ Continuing(s, Refused(s)) /\ Orderly(s, Refused(s))
  BY DEF Refused, Sane, Continuing, Orderly

LEMMA ResumeIsSane ==
  ASSUME NEW s, Standing(s)
  PROVE  /\ Sane(Resume(s)) /\ Continuing(s, Resume(s))
         /\ Orderly(s, Resume(s))
<1>1. CASE s.state = "paused"
  <2> DEFINE x == [product |-> s.product, total |-> s.total, step |-> s.step,
                   state |-> "running", result |-> s.result, event |-> "resume"]
  <2>1. s \in SoundReports
    BY DEF Standing
  <2>2. Resume(s).next = [s EXCEPT !.state = "running", !.event = "resume"]
        /\ Resume(s).published = <<Resume(s).next>>
    BY <1>1 DEF Resume, Published
  <2>3. s = [product |-> s.product, total |-> s.total, step |-> s.step, state |-> s.state,
             result |-> s.result, event |-> s.event]
    BY <2>1, SnapshotRecord
  <2>4. Resume(s).next = x
    BY <2>2, <2>3
  <2>5. s.step \in 1..s.total /\ s.result \in {"waiting", "pass", "fail"}
    BY <1>1, <2>1, SoundReport DEF Standing, Snapshots
  <2> HIDE DEF x
  <2> QED BY <1>1, <2>2, <2>4, <2>5, GoesOn DEF x
<1>2. CASE s.state # "paused"
  BY <1>2, RefusedIsSane DEF Resume
<1> QED BY <1>1, <1>2

LEMMA StartIsSane ==
  ASSUME NEW s, Standing(s)
  PROVE  /\ Sane(Start(s)) /\ Orderly(s, Start(s))
         /\ s.state # "running" => Continuing(s, Start(s))
<1>1. CASE s.state = "paused"
  BY <1>1, ResumeIsSane DEF Start
<1>2. CASE s.state # "paused"
  <2> DEFINE x == [product |-> s.product, total |-> s.total, step |-> 1,
                   state |-> "running", result |-> "waiting", event |-> "start"]
  <2>1. s \in SoundReports
    BY DEF Standing
  <2>2. Start(s).next = [s EXCEPT !.step = 1, !.state = "running",
                                  !.result = "waiting", !.event = "start"]
        /\ Start(s).published = <<Start(s).next>>
    BY <1>2 DEF Start, Published
  <2>3. s = [product |-> s.product, total |-> s.total, step |-> s.step, state |-> s.state,
             result |-> s.result, event |-> s.event]
    BY <2>1, SnapshotRecord
  <2>4. Start(s).next = x
    BY <2>2, <2>3
  <2>5. 1 \in 1..s.total /\ s.state \in {"idle", "running"}
    BY <1>2, <2>1, SoundReport DEF Standing
  <2> HIDE DEF x
  <2> QED BY <2>2, <2>4, <2>5, GoesOn DEF x
<1> QED BY <1>1, <1>2

LEMMA PauseIsSane ==
  ASSUME NEW s, Standing(s)
  PROVE  /\ Sane(Pause(s)) /\ Continuing(s, Pause(s))
         /\ Orderly(s, Pause(s))
<1>1. CASE s.state = "running"
  <2> DEFINE x == [product |-> s.product, total |-> s.total, step |-> s.step,
                   state |-> "paused", result |-> s.result, event |-> "pause"]
  <2>1. s \in SoundReports
    BY DEF Standing
  <2>2. Pause(s).next = [s EXCEPT !.state = "paused", !.event = "pause"]
        /\ Pause(s).published = <<Pause(s).next>>
    BY <1>1 DEF Pause, Published
  <2>3. s = [product |-> s.product, total |-> s.total, step |-> s.step, state |-> s.state,
             result |-> s.result, event |-> s.event]
    BY <2>1, SnapshotRecord
  <2>4. Pause(s).next = x
    BY <2>2, <2>3
  <2>5. s.step \in 1..s.total /\ s.result \in {"waiting", "pass", "fail"}
    BY <1>1, <2>1, SoundReport DEF Standing, Snapshots
  <2> HIDE DEF x
  <2> QED BY <1>1, <2>2, <2>4, <2>5, GoesOn DEF x
<1>2. CASE s.state # "running"
  BY <1>2, RefusedIsSane DEF Pause
<1> QED BY <1>1, <1>2

LEMMA RegisterDefectIsSane ==
  ASSUME NEW s, Standing(s)
  PROVE  /\ Sane(RegisterDefect(s)) /\ Continuing(s, RegisterDefect(s))
         /\ Orderly(s, RegisterDefect(s))
<1>1. CASE s.state \in {"running", "paused"} /\ s.step > 0
  <2> DEFINE e == [s EXCEPT !.result = "defect", !.event = "manual_defect"]
             x == [product |-> s.product, total |-> s.total, step |-> s.step,
                   state |-> s.state, result |-> "defect", event |-> "manual_defect"]
  <2>1. s \in SoundReports
    BY DEF Standing
  <2>2. RegisterDefect(s) = Ended(e)
    BY <1>1 DEF RegisterDefect
  <2>3. s = [product |-> s.product, total |-> s.total, step |-> s.step, state |-> s.state,
             result |-> s.result, event |-> s.event]
    BY <2>1, SnapshotRecord
  <2>0. e = [s EXCEPT !.result = "defect", !.event = "manual_defect"]
    OBVIOUS
  <2> HIDE DEF e
  <2>4. e = x
    BY <2>0, <2>3
  <2> HIDE DEF x
  <2>5. Sane(Ended(x)) /\ Continuing(s, Ended(x)) /\ Orderly(s, Ended(x))
    BY <1>1, Ends DEF x
  <2> QED BY <2>2, <2>4, <2>5
<1>2. CASE ~(s.state \in {"running", "paused"} /\ s.step > 0)
  BY <1>2, RefusedIsSane DEF RegisterDefect
<1> QED BY <1>1, <1>2

LEMMA JudgementIsSane ==
  ASSUME NEW s, Standing(s), NEW verdict \in {"PASS", "FAIL"}
  PROVE  /\ Sane(ApplyJudgement(s, verdict)) /\ Continuing(s, ApplyJudgement(s, verdict))
         /\ Orderly(s, ApplyJudgement(s, verdict))
<1>1. s \in SoundReports
  BY DEF Standing
<1>2. s = [product |-> s.product, total |-> s.total, step |-> s.step, state |-> s.state,
           result |-> s.result, event |-> s.event]
  BY <1>1, SnapshotRecord
<1>3. CASE s.state # "running"
  BY <1>3, RefusedIsSane DEF ApplyJudgement
<1>4. CASE s.state = "running" /\ verdict = "FAIL"
  <2> DEFINE op == ApplyJudgement(s, verdict)
             x == [product |-> s.product, total |-> s.total, step |-> s.step,
                   state |-> "running", result |-> "fail", event |-> "ai_fail"]
  <2>1. op = Published([s EXCEPT !.result = "fail", !.event = "ai_fail"])
    BY <1>4 DEF ApplyJudgement
  <2>2. op.next = [s EXCEPT !.result = "fail", !.event = "ai_fail"] /\ op.published = <<op.next>>
    BY <2>1 DEF Published
  <2>3. op.next = x
    BY <1>2, <1>4, <2>2
  <2>4. s.step \in 1..s.total
    BY <1>1, <1>4, SoundReport
  <2> HIDE DEF x, op
  <2>5. Sane(op) /\ Continuing(s, op) /\ Orderly(s, op)
    BY <1>4, <2>2, <2>3, <2>4, GoesOn DEF x
  <2> QED BY <2>5 DEF op
<1>5. CASE s.state = "running" /\ verdict = "PASS" /\ s.step >= s.total
  <2> DEFINE e == [s EXCEPT !.state = "complete", !.result = "pass", !.event = "complete"]
             x == [product |-> s.product, total |-> s.total, step |-> s.step,
                   state |-> "complete", result |-> "pass", event |-> "complete"]
  <2>3. s.step = s.total /\ ~(s.step < s.total)
    BY <1>1, <1>5, SoundReport
  <2>1. ApplyJudgement(s, verdict) = Ended(e)
    <3> HIDE DEF e
    <3>1. ApplyJudgement(s, verdict) =
            Ended([s EXCEPT !.state = "complete", !.result = "pass", !.event = "complete"])
      BY <1>5, <2>3 DEF ApplyJudgement
    <3> QED BY <3>1 DEF e
  <2>0. e = [s EXCEPT !.state = "complete", !.result = "pass", !.event = "complete"]
    OBVIOUS
  <2> HIDE DEF e
  <2>2. e = x
    BY <1>2, <2>0
  <2> HIDE DEF x
  <2>4. Sane(Ended(x)) /\ Continuing(s, Ended(x)) /\ Orderly(s, Ended(x))
    BY <1>5, <2>3, Ends DEF x
  <2> QED BY <2>1, <2>2, <2>4
<1>6. CASE s.state = "running" /\ verdict = "PASS" /\ s.step < s.total
  <2> DEFINE op == ApplyJudgement(s, verdict)
             x == [product |-> s.product, total |-> s.total, step |-> s.step + 1,
                   state |-> "running", result |-> "waiting", event |-> "step_pass"]
  <2>1. op = Published([s EXCEPT !.step = s.step + 1, !.result = "waiting", !.event = "step_pass"])
    BY <1>6 DEF ApplyJudgement
  <2>2. /\ op.next = [s EXCEPT !.step = s.step + 1, !.result = "waiting", !.event = "step_pass"]
        /\ op.published = <<op.next>>
    BY <2>1 DEF Published
  <2>3. op.next = x
    BY <1>2, <1>6, <2>2
  <2>4. s.step + 1 \in 1..s.total
    BY <1>1, <1>6, SoundReport
  <2> HIDE DEF x, op
  <2>5. Sane(op) /\ Continuing(s, op) /\ Orderly(s, op)
    BY <1>6, <2>2, <2>3, <2>4, GoesOn DEF x
  <2> QED BY <2>5 DEF op
<1>7. s.step >= s.total \/ s.step < s.total
  BY <1>1, SoundReport
<1> QED BY <1>3, <1>4, <1>5, <1>6, <1>7

-----------------------------------------------------------------------------
(* Chains of reports                                                       *)

LEMMA ChainGrows ==
  ASSUME NEW S, NEW R \in Seq(S), NEW r \in S, NEW first, NEW last,
         Chained(first, R, last), Follows(last, r)
  PROVE  Chained(first, Append(R, r), Point(r))
<1> DEFINE A == Append(R, r)
<1>1. /\ A # <<>> /\ Len(A) = Len(R) + 1 /\ A[Len(A)] = r
      /\ \A i \in 1..Len(R) : A[i] = R[i]
      /\ Len(R) \in Nat /\ (R = <<>> <=> Len(R) = 0)
  OBVIOUS
<1> HIDE DEF A
<1>2. Follows(first, A[1])
  BY <1>1 DEF Chained
<1>3. ASSUME NEW i \in 1..Len(A) - 1 PROVE Follows(Point(A[i]), A[i + 1])
  <2>1. CASE i < Len(R)
    BY <1>1, <1>3, <2>1 DEF Chained
  <2>2. CASE i = Len(R)
    <3>1. R # <<>> /\ Point(R[Len(R)]) = last
      BY <1>1, <1>3, <2>2 DEF Chained
    <3> QED BY <1>1, <1>3, <2>2, <3>1
  <2> QED BY <1>1, <1>3, <2>1, <2>2
<1> QED BY <1>1, <1>2, <1>3 DEF Chained, A

\* The first report is handled: the others continue from where it led.
LEMMA ChainShrinks ==
  ASSUME NEW S, NEW R \in Seq(S), NEW r \in S, NEW first, NEW last,
         Chained(first, <<r>> \o R, last)
  PROVE  Follows(first, r) /\ Chained(Point(r), R, last)
<1> DEFINE A == <<r>> \o R
<1>1. /\ A # <<>> /\ Len(A) = Len(R) + 1 /\ A[1] = r
      /\ \A i \in 1..Len(R) : A[i + 1] = R[i]
      /\ Len(R) \in Nat /\ (R = <<>> <=> Len(R) = 0)
  OBVIOUS
<1>2. Chained(first, A, last)
  OBVIOUS
<1> HIDE DEF A
<1>3. Follows(first, r) /\ Point(A[Len(A)]) = last
  BY <1>1, <1>2 DEF Chained
<1>4. R = <<>> => Point(r) = last
  BY <1>1, <1>3
<1>5. R # <<>> => Follows(Point(r), R[1]) /\ Point(R[Len(R)]) = last
  <2> SUFFICES ASSUME R # <<>> PROVE Follows(Point(r), R[1]) /\ Point(R[Len(R)]) = last
    OBVIOUS
  <2>1. 1 \in 1..Len(A) - 1 /\ 1 \in 1..Len(R) /\ Len(R) \in 1..Len(R)
    BY <1>1
  <2>2. Follows(Point(A[1]), A[1 + 1])
    BY <1>2, <2>1 DEF Chained
  <2> QED BY <1>1, <1>3, <2>1, <2>2
<1>6. ASSUME NEW i \in 1..Len(R) - 1 PROVE Follows(Point(R[i]), R[i + 1])
  <2>1. i + 1 \in 1..Len(A) - 1 /\ i \in 1..Len(R) /\ i + 1 \in 1..Len(R)
    BY <1>1, <1>6
  <2>2. Follows(Point(A[i + 1]), A[(i + 1) + 1])
    BY <1>2, <2>1 DEF Chained
  <2> QED BY <1>1, <2>1, <2>2
<1> QED BY <1>3, <1>4, <1>5, <1>6 DEF Chained

\* An operation that continues the work extends the chain.
LEMMA ChainExtended ==
  ASSUME NEW s, Standing(s), NEW operation, Sane(operation), Continuing(s, operation),
         NEW R \in Seq(SoundReports), NEW first, Chained(first, R, Point(s))
  PROVE  Chained(first, R \o operation.published, Point(operation.next))
<1> DEFINE x == operation.next
<1>1. x \in SoundReports
  BY DEF Sane, Standing
<1>2. CASE operation.published = <<>> /\ x = s
  BY <1>2
<1>3. CASE operation.published = <<x>> /\ Follows(Point(s), x)
  <2> HIDE DEF x
  <2>1. R \o <<x>> = Append(R, x)
    BY <1>1
  <2>2. Chained(first, Append(R, x), Point(x))
    BY <1>1, <1>3, ChainGrows
  <2> QED BY <1>3, <2>1, <2>2 DEF x
<1>4. ASSUME NEW e \in SoundReports, operation.published = <<e, x>>,
             Follows(Point(s), e), Point(e) = NoPoint, x.state = "idle"
      PROVE  Chained(first, R \o operation.published, Point(x))
  <2> HIDE DEF x
  <2>1. R \o <<e, x>> = Append(Append(R, e), x) /\ Append(R, e) \in Seq(SoundReports)
    BY <1>1
  <2>2. Chained(first, Append(R, e), Point(e))
    BY <1>4, ChainGrows
  <2>3. Follows(Point(e), x)
    BY <1>4 DEF Follows
  <2>4. Chained(first, Append(Append(R, e), x), Point(x))
    BY <1>1, <2>1, <2>2, <2>3, ChainGrows
  <2> QED BY <1>4, <2>1, <2>4
<1> QED BY <1>2, <1>3, <1>4 DEF Continuing

-----------------------------------------------------------------------------
(* The work the tables hold                                                *)

\* The unfinished run, if there is one, and the point it stands at.
LEMMA UnfinishedRun ==
  ASSUME NEW rs, SoundHistory(rs), OpenRun(rs) # 0
  PROVE  LET run == rs[OpenRun(rs)] IN
         /\ OpenRun(rs) \in DOMAIN rs /\ run \in Runs /\ run.result = "open"
         /\ run.product \in Products
         /\ LatestStep(run) \in DOMAIN run.steps
         /\ LatestStep(run) \in 1..Totals[run.product]
<1> DEFINE run == rs[OpenRun(rs)]
<1>1. /\ OpenRun(rs) \in DOMAIN rs /\ run.result = "open"
  BY OpenRunFound DEF SoundHistory
<1>2. /\ run \in Runs /\ TopIsOpen(run) /\ DOMAIN run.steps \subseteq 1..Totals[run.product]
  BY <1>1 DEF SoundHistory, Healthy, Kept
<1> HIDE DEF run
<1>3. run.product \in Products
  BY <1>2 DEF Runs
<1>4. Totals[run.product] \in 1..MaxTotal
  BY <1>3, ReportingAssumption
<1>5. PICK top \in DOMAIN run.steps : TRUE
  BY <1>2 DEF TopIsOpen
<1>6. top >= 1 /\ top \in Nat
  BY <1>2, <1>4, <1>5
<1>7. /\ LatestStep(run) \in Nat
      /\ LatestStep(run) \in {0} \cup DOMAIN run.steps
      /\ top <= LatestStep(run)
  BY <1>2, <1>5, LatestStepIsTop
<1>8. LatestStep(run) \in DOMAIN run.steps
  BY <1>6, <1>7
<1> QED BY <1>1, <1>2, <1>3, <1>8 DEF run

\* What get_incomplete_work_state returns.
LEMMA LeftWork ==
  ASSUME NEW rs, SoundHistory(rs)
  PROVE  LET left == IncompleteWork(rs, Totals)
             run  == rs[OpenRun(rs)]
         IN  \/ /\ OpenRun(rs) = 0 /\ left = NoWork /\ SavedIn(rs) = NoPoint
             \/ /\ OpenRun(rs) # 0 /\ left # NoWork
                /\ left.product = run.product /\ left.product \in Products
                /\ left.total = Totals[run.product]
                /\ left.step = LatestStep(run) /\ left.step \in 1..left.total
                /\ left.state = IF run.steps[LatestStep(run)].openPauses > 0
                                THEN "paused" ELSE "running"
                /\ left.result \in {"waiting", "pass", "fail"}
<1> DEFINE left == IncompleteWork(rs, Totals)
           run  == rs[OpenRun(rs)]
<1>1. CASE OpenRun(rs) = 0
  <2>1. left = NoWork
    BY <1>1 DEF IncompleteWork
  <2>2. SavedIn(rs) = NoPoint
    BY <2>1, NoPointOtherwise DEF NoWork, SavedIn
  <2> QED BY <1>1, <2>1, <2>2
<1>2. CASE OpenRun(rs) # 0
  <2> DEFINE latest == LatestStep(run)
             state == IF latest > 0 /\ run.steps[latest].openPauses > 0
                      THEN "paused" ELSE "running"
             result == IF run.judgements = <<>> THEN "waiting"
                       ELSE run.judgements[Len(run.judgements)].result
             work == [product |-> run.product, total |-> Totals[run.product],
                      step |-> Max({1, latest}), state |-> state, result |-> result]
  <2>1. /\ run \in Runs /\ run.product \in Products
        /\ latest \in 1..Totals[run.product]
    BY <1>2, UnfinishedRun
  <2>2. left = work
    BY <1>2 DEF IncompleteWork, Last
  <2> HIDE DEF left
  <2>3. Totals[run.product] \in 1..MaxTotal
    BY <2>1, ReportingAssumption
  <2> HIDE DEF run
  <2>4. Max({1, latest}) = latest
    <3>1. {1, latest} \in SUBSET Nat /\ latest \in {1, latest} /\ \A x \in {1, latest} : x <= latest
      BY <2>1, <2>3
    <3> HIDE DEF latest
    <3> QED BY <3>1, MaxIsGreatest
  <2>5. result \in {"waiting", "pass", "fail"}
    <3>1. CASE run.judgements = <<>>
      BY <3>1
    <3>2. CASE run.judgements # <<>>
      <4>1. run.judgements \in Seq(Judgement)
        BY <2>1 DEF Runs
      <4>2. run.judgements[Len(run.judgements)] \in Judgement
        BY <3>2, <4>1
      <4> QED BY <3>2, <4>2 DEF Judgement
    <3> QED BY <3>1, <3>2
  <2>6. latest > 0
    BY <2>1, <2>3
  <2>7. /\ work.product = run.product /\ work.total = Totals[run.product]
        /\ work.step = Max({1, latest}) /\ work.state = state /\ work.result = result
    OBVIOUS
  <2>8. work # NoWork
    <3>1. DOMAIN work = {"product", "total", "step", "state", "result"} /\ DOMAIN NoWork = {"state"}
      BY DEF NoWork
    <3> HIDE DEF work
    <3>2. "step" \in DOMAIN work /\ "step" \notin DOMAIN NoWork
      BY <3>1
    <3> QED BY <3>2
  <2> HIDE DEF work, result
  <2> QED BY <1>2, <2>1, <2>2, <2>4, <2>5, <2>6, <2>7, <2>8 DEF run, left
<1> QED BY <1>1, <1>2

\* The point a login would return.
LEMMA SavedPointOf ==
  ASSUME NEW rs, SoundHistory(rs), OpenRun(rs) # 0
  PROVE  LET run == rs[OpenRun(rs)] IN
         /\ SavedIn(rs) # NoPoint
         /\ SavedIn(rs) = [product |-> run.product, step |-> LatestStep(run),
                           paused |-> run.steps[LatestStep(run)].openPauses > 0]
<1> DEFINE left == IncompleteWork(rs, Totals)
           run == rs[OpenRun(rs)]
<1>1. /\ left.product = run.product /\ left.step = LatestStep(run)
      /\ left.state = IF run.steps[LatestStep(run)].openPauses > 0 THEN "paused" ELSE "running"
      /\ left.result \in {"waiting", "pass", "fail"}
  BY LeftWork
<1> HIDE DEF left, run
<1>2. left.state \in {"running", "paused"} /\ left.result # "defect"
  BY <1>1
<1>3. /\ Point(left) # NoPoint
      /\ Point(left) = [product |-> left.product, step |-> left.step, paused |-> left.state = "paused"]
  BY <1>2, PointOfWork
<1>4. (left.state = "paused") = (run.steps[LatestStep(run)].openPauses > 0)
  BY <1>1
<1> QED BY <1>1, <1>3, <1>4 DEF SavedIn, left, run

\* A login takes the work up at that point.
LEMMA RestoreIsSane ==
  ASSUME NEW rs, SoundHistory(rs), OpenRun(rs) # 0
  PROVE  LET operation == RestoreState(IncompleteWork(rs, Totals)) IN
         /\ Sane(operation) /\ operation.published = <<operation.next>>
         /\ Point(operation.next) = SavedIn(rs)
         /\ Follows(SavedIn(rs), operation.next)
<1> DEFINE left == IncompleteWork(rs, Totals)
           operation == RestoreState(left)
           step == Max({1, Min({left.total, left.step})})
           x == [product |-> left.product, total |-> left.total, step |-> step,
                 state |-> left.state, result |-> left.result, event |-> "restore"]
<1>1. /\ left.product \in Products /\ left.total = Totals[left.product]
      /\ left.step \in 1..left.total
      /\ left.state \in {"running", "paused"}
      /\ left.result \in {"waiting", "pass", "fail"}
  BY LeftWork
<1>2. operation.next = x /\ operation.published = <<x>>
  BY DEF RestoreState, Published
<1> HIDE DEF left, operation
<1>3. left.total \in 1..MaxTotal
  BY <1>1, ReportingAssumption
<1>4. Min({left.total, left.step}) = left.step
  <2> DEFINE S == {left.total, left.step}
  <2>1. \A x1 \in S : (\A y \in S : x1 =< y) => x1 = left.step
    BY <1>1, <1>3
  <2>2. left.step \in S /\ \A y \in S : left.step =< y
    BY <1>1, <1>3
  <2> HIDE DEF S
  <2>3. Min(S) = left.step
    BY <2>1, <2>2 DEF Min
  <2> QED BY <2>3 DEF S
<1>5. step = left.step
  <2>1. {1, left.step} \in SUBSET Nat /\ left.step \in {1, left.step}
        /\ \A y \in {1, left.step} : y <= left.step
    BY <1>1, <1>3
  <2>2. Max({1, left.step}) = left.step
    BY <2>1, MaxIsGreatest
  <2> QED BY <1>4, <2>2
<1> HIDE DEF step
<1>6. x \in Snapshots(Products, MaxTotal)
  BY <1>1, <1>3, <1>5, BoundsAreNumbers DEF Snapshots
<1>7. /\ x.product = left.product /\ x.total = left.total /\ x.step = left.step
      /\ x.state = left.state /\ x.result = left.result
  BY <1>5
<1> HIDE DEF x
<1>8. x \in SoundReports
  BY <1>1, <1>3, <1>6, <1>7, SoundReport
<1>9. Sane(operation)
  BY <1>1, <1>2, <1>7, <1>8 DEF Sane, Standing
<1>10. Point(left) = Point(x) /\ Point(x) # NoPoint
       /\ Point(x).product = x.product /\ Point(x).step = x.step
  BY <1>1, <1>7, PointOfWork
<1>11. Follows(Point(x), x)
  BY <1>1, <1>7, <1>10 DEF Follows
<1> QED BY <1>2, <1>9, <1>10, <1>11 DEF SavedIn, left, operation

\* A sound report on work can be written.
LEMMA SoundIsReportable ==
  ASSUME NEW r \in SoundReports, r.state # "idle"
  PROVE  Reportable(r)
<1>1. r \in Snapshots(Products, MaxTotal)
  BY SoundReport
<1>2. r.step \in 1..r.total /\ r.total \in 1..MaxTotal
  BY SoundReport
<1>3. r.product \in Products
  BY SoundReport
<1>4. r.event \in Events
  BY <1>1, ReportingAssumption
<1> QED BY <1>2, <1>3, <1>4 DEF Reportable

\* Whatever accepted report arrives, the history stays sound.
LEMMA RecordedIsSound ==
  ASSUME NEW rs, SoundHistory(rs), NEW r \in SoundReports, FitsOpenRun(rs, r)
  PROVE  SoundHistory(Recorded(rs, r))
<1> DEFINE next == Recorded(rs, r)
<1>1. CASE r.state = "idle"
  BY <1>1 DEF Recorded
<1>2. CASE r.state # "idle"
  <2>1. Reportable(r)
    BY <1>2, SoundIsReportable
  <2>2. Healthy(next) /\ Continued(rs, r, next)
    BY <2>1, RecordedHistory DEF SoundHistory
  <2> HIDE DEF next
  <2>3. PICK i \in DOMAIN next : \E run :
          /\ DOMAIN next = DOMAIN rs \cup {i}
          /\ RunToWorkOn(rs, r, i, run)
          /\ Advanced(run, r, next[i])
          /\ \A j \in DOMAIN rs : j # i => next[j] = rs[j] /\ rs[j].result # "open"
    BY <2>2 DEF Continued
  <2>4. PICK run :
          /\ DOMAIN next = DOMAIN rs \cup {i}
          /\ RunToWorkOn(rs, r, i, run)
          /\ Advanced(run, r, next[i])
          /\ \A j \in DOMAIN rs : j # i => next[j] = rs[j] /\ rs[j].result # "open"
    BY <2>3
  <2>5. run.product = r.product /\ DOMAIN run.steps \subseteq 1..Totals[r.product]
    <3>1. CASE run = NewRun(r.product)
      BY <3>1 DEF NewRun, EmptyDict
    <3>2. CASE i \in DOMAIN rs /\ OpenRun(rs) = i /\ run = rs[i]
      BY <1>2, <3>2 DEF FitsOpenRun, SoundHistory
    <3> QED BY <2>4, <3>1, <3>2 DEF RunToWorkOn
  <2>6. r.step \in 1..Totals[r.product]
    BY <1>2, SoundReport
  <2>7. DOMAIN next[i].steps \subseteq 1..Totals[next[i].product]
    BY <2>4, <2>5, <2>6 DEF Advanced
  <2>8. \A j \in DOMAIN next : DOMAIN next[j].steps \subseteq 1..Totals[next[j].product]
    BY <2>4, <2>7 DEF SoundHistory
  <2> QED BY <2>2, <2>8 DEF SoundHistory, next
<1> QED BY <1>1, <1>2

\* A report that continues the work the tables hold is accepted, and moves them
\* to its point.
LEMMA RecordedPoint ==
  ASSUME NEW rs, SoundHistory(rs), NEW r \in SoundReports, Follows(SavedIn(rs), r)
  PROVE  /\ Acceptable(rs, Totals, r)
         /\ SavedIn(Recorded(rs, r)) = Point(r)
<1> DEFINE next == Recorded(rs, r)
           old == rs[OpenRun(rs)]
<1>1. FitsOpenRun(rs, r)
  <2>1. CASE OpenRun(rs) = 0
    <3>1. 0 \notin DOMAIN rs
      BY DEF SoundHistory, Healthy
    <3> QED BY <2>1, <3>1 DEF FitsOpenRun
  <2>2. CASE OpenRun(rs) # 0
    <3>1. SavedIn(rs) # NoPoint /\ SavedIn(rs).product = old.product
      BY <2>2, SavedPointOf
    <3>2. r.product = old.product
      BY <3>1 DEF Follows
    <3> QED BY <3>2 DEF FitsOpenRun
  <2> QED BY <2>1, <2>2
<1>2. Acceptable(rs, Totals, r)
  BY <1>1 DEF Acceptable, SoundReports
<1>3. SoundHistory(next)
  BY <1>1, RecordedIsSound
<1>4. CASE r.state = "idle"
  <2>1. next = rs
    BY <1>4 DEF Recorded
  <2>2. SavedIn(rs) = NoPoint
    BY <1>4 DEF Follows
  <2>3. Point(r) = NoPoint
    BY <1>4, NoPointOtherwise
  <2> QED BY <1>2, <2>1, <2>2, <2>3
<1>5. CASE r.state # "idle"
  <2>1. Reportable(r) /\ r.step \in Nat \ {0}
    BY <1>5, SoundIsReportable DEF Reportable
  <2>2. Healthy(next) /\ Continued(rs, r, next)
    BY <2>1, RecordedHistory DEF SoundHistory
  <2> HIDE DEF next
  <2>3. PICK i \in DOMAIN next : \E run :
          /\ DOMAIN next = DOMAIN rs \cup {i}
          /\ RunToWorkOn(rs, r, i, run)
          /\ Advanced(run, r, next[i])
          /\ \A j \in DOMAIN rs : j # i => next[j] = rs[j] /\ rs[j].result # "open"
    BY <2>2 DEF Continued
  <2>4. PICK run :
          /\ DOMAIN next = DOMAIN rs \cup {i}
          /\ RunToWorkOn(rs, r, i, run)
          /\ Advanced(run, r, next[i])
          /\ \A j \in DOMAIN rs : j # i => next[j] = rs[j] /\ rs[j].result # "open"
    BY <2>3
  <2> DEFINE over == r.result = "defect" \/ r.state = "complete"
  <2>5. next[i].result = "open" <=> ~over
    BY <2>4 DEF Advanced
  <2>6. CASE over
    <3>1. \A j \in DOMAIN next : next[j].result # "open"
      BY <2>4, <2>5, <2>6
    <3>2. OpenRun(next) = 0
      BY <2>2, <3>1, OpenRunFound
    <3>3. SavedIn(next) = NoPoint
      BY <1>3, <3>2, LeftWork
    <3>4. Point(r) = NoPoint
      BY <2>6, NoPointOtherwise
    <3> QED BY <1>2, <3>3, <3>4 DEF next
  <2>7. CASE ~over
    <3>1. r.state \in {"running", "paused"} /\ r.result # "defect"
      <4>1. r.state \in {"idle", "running", "paused", "complete"}
        BY DEF SoundReports, Snapshots
      <4> QED BY <1>5, <2>7, <4>1
    <3>2. next[i].result = "open"
      BY <2>5, <2>7
    <3>3. OpenRun(next) = i /\ i # 0
      <4>1. i # 0
        BY <2>2 DEF Healthy
      <4>3. 0 \notin DOMAIN next
        BY <2>2 DEF Healthy
      <4>2. OpenRun(next) # 0 /\ \A j \in DOMAIN next : j # OpenRun(next) => next[j].result # "open"
        BY <2>2, <3>2, <4>3, OpenRunFound
      <4> QED BY <3>2, <4>1, <4>2
    <3>4. SavedIn(next) = [product |-> next[i].product, step |-> LatestStep(next[i]),
             paused |-> next[i].steps[LatestStep(next[i])].openPauses > 0]
      BY <1>3, <3>3, SavedPointOf
    <3>5. \A n \in DOMAIN run.steps : n <= r.step
      <4>1. CASE run = NewRun(r.product)
        BY <4>1 DEF NewRun, EmptyDict
      <4>2. CASE i \in DOMAIN rs /\ OpenRun(rs) = i /\ run = rs[i]
        <5>1. OpenRun(rs) # 0
          BY <3>3, <4>2
        <5>2. SavedIn(rs) # NoPoint /\ SavedIn(rs).step = LatestStep(run)
          BY <4>2, <5>1, SavedPointOf
        <5>3. /\ run \in Runs
          BY <4>2, <5>1, UnfinishedRun
        <5>4. /\ LatestStep(run) \in Nat
              /\ \A n \in DOMAIN run.steps : n <= LatestStep(run)
          BY <5>3, LatestStepIsTop
        <5>5. DOMAIN run.steps \subseteq Nat
          BY <5>3, StepTableFacts DEF Runs
        <5>6. Point(r) # NoPoint
          BY <3>1, PointOfWork
        <5>7. r.step = LatestStep(run) \/ r.step = LatestStep(run) + 1
          BY <5>2, <5>6 DEF Follows
        <5> QED BY <2>1, <5>4, <5>5, <5>7
      <4> QED BY <2>4, <4>1, <4>2 DEF RunToWorkOn
    <3>6. /\ DOMAIN next[i].steps = DOMAIN run.steps \cup {r.step}
          /\ next[i].steps[r.step].openPauses > 0 <=> r.state = "paused"
      BY <2>4, <3>2 DEF Advanced
    <3>7. LatestStep(next[i]) = r.step
      <4>1. next[i] \in Runs
        BY <2>2 DEF Healthy, Kept
      <4>2. /\ LatestStep(next[i]) \in Nat
            /\ LatestStep(next[i]) \in {0} \cup DOMAIN next[i].steps
            /\ \A n \in DOMAIN next[i].steps : n <= LatestStep(next[i])
        BY <4>1, LatestStepIsTop
      <4>3. r.step <= LatestStep(next[i])
        BY <3>6, <4>2
      <4>4. LatestStep(next[i]) <= r.step
        BY <2>1, <3>5, <3>6, <4>2
      <4> QED BY <2>1, <4>2, <4>3, <4>4
    <3>8. next[i].product = r.product
      <4>1. CASE run = NewRun(r.product)
        BY <2>4, <4>1 DEF NewRun, Advanced
      <4>2. CASE i \in DOMAIN rs /\ OpenRun(rs) = i /\ run = rs[i]
        BY <1>1, <1>5, <2>4, <4>2 DEF FitsOpenRun, Advanced
      <4> QED BY <2>4, <4>1, <4>2 DEF RunToWorkOn
    <3>9. Point(r) = [product |-> r.product, step |-> r.step, paused |-> r.state = "paused"]
      BY <3>1, PointOfWork
    <3>10. (next[i].steps[r.step].openPauses > 0) = (r.state = "paused")
      BY <3>6
    <3> QED BY <1>2, <3>4, <3>7, <3>8, <3>9, <3>10 DEF next
  <2> QED BY <2>6, <2>7
<1> QED BY <1>4, <1>5

-----------------------------------------------------------------------------
(* The shape of the state                                                  *)

LEMMA Bounds == MaxReports \in Nat /\ MaxLogins \in Nat /\ MaxFaults \in Nat
  BY ReportingAssumption

\* Tokens are numbered from 1 by the logins.
LEMMA Tokens ==
  ASSUME Shape
  PROVE  /\ token \in Nat /\ live \in Nat /\ live <= token /\ token <= MaxLogins
         /\ Windowed => token >= 1
         /\ \A i \in DOMAIN late : /\ late[i].token \in Nat \ {0} /\ late[i].token <= token
                                  /\ late[i].report \in SoundReports
<1>1. token \in Nat /\ live \in Nat /\ live <= token /\ token <= MaxLogins
  <2>1. token \in 0..MaxLogins /\ live \in 0..token
    BY DEF Shape
  <2> QED BY <2>1, Bounds
<1>2. Windowed => token >= 1
  BY DEF Shape
<1>3. late \in Seq(LateRequests) /\ \A i \in DOMAIN late : late[i].token <= token
  BY DEF Shape
<1>4. \A i \in DOMAIN late : late[i] \in LateRequests
  BY <1>3
<1> QED BY <1>1, <1>2, <1>3, <1>4 DEF LateRequests

\* An operation of the controller queues sound reports.
LEMMA ApplyKeeps ==
  ASSUME Shape, NEW operation, Sane(operation), Apply(operation)
  PROVE  /\ Standing(snapshot')
         /\ queue' \in Seq(SoundReports)
         /\ published' \in 0..MaxReports
<1>1. /\ operation.published \in Seq(SoundReports)
      /\ Len(operation.published) \in Nat
  BY DEF Sane
<1>2. /\ published + Len(operation.published) <= MaxReports
      /\ queue' = queue \o operation.published
      /\ published' = published + Len(operation.published)
      /\ snapshot' = operation.next
  BY DEF Apply
<1>3. published \in Nat /\ MaxReports \in Nat
  BY ReportingAssumption DEF Shape
<1>4. published' \in 0..MaxReports
  BY <1>1, <1>2, <1>3
<1>5. queue' \in Seq(SoundReports)
  BY <1>1, <1>2 DEF Shape
<1> QED BY <1>2, <1>4, <1>5 DEF Sane

\* A fault is counted.
LEMMA FaultKeeps ==
  ASSUME Shape, Fault
  PROVE  faults' \in 0..MaxFaults
  BY ReportingAssumption DEF Shape, Fault

\* An operation that leaves the session alone.
LEMMA OperationShape ==
  ASSUME Shape, NEW operation, Sane(operation), Apply(operation), Windowed,
         UNCHANGED <<sending, phase, token, live, late, runs>>,
         asked' \in [job : 0..job', step : 0..MaxTotal, pending : BOOLEAN], job' \in Nat,
         refreshing' \in BOOLEAN, intact' \in BOOLEAN, faults' \in 0..MaxFaults
  PROVE  Shape'
<1>1. /\ Standing(snapshot')
      /\ queue' \in Seq(SoundReports)
      /\ published' \in 0..MaxReports
  BY ApplyKeeps
<1> QED BY <1>1 DEF Shape, Windowed

\* A step that is not about reports.
LEMMA QuietShape ==
  ASSUME Shape, UNCHANGED <<snapshot, queue, sending, token, live, late, runs, published>>,
         phase' \in {"out", "in", "terminating"}, Windowed <=> Windowed',
         asked' \in [job : 0..job', step : 0..MaxTotal, pending : BOOLEAN], job' \in Nat,
         refreshing' \in BOOLEAN, intact' \in BOOLEAN, faults' \in 0..MaxFaults
  PROVE  Shape'
  BY DEF Shape

\* The request on the wire becomes a late one.
LEMMA QuitKeeps ==
  ASSUME Shape, Windowed, Quit
  PROVE  /\ late' \in Seq(LateRequests)
         /\ \A i \in DOMAIN late' :
              \/ i \in DOMAIN late /\ late'[i] = late[i]
              \/ /\ i = Len(late) + 1 /\ sending # <<>>
                 /\ late'[i].report = sending[1] /\ late'[i].token = token
<1> DEFINE gone == [i \in DOMAIN sending |-> [report |-> sending[i], token |-> token]]
<1>1. /\ DOMAIN sending = 1..Len(sending) /\ Len(sending) \in {0, 1}
      /\ token \in Nat \ {0}
      /\ \A i \in 1..Len(sending) : sending[i] \in SoundReports
  <2>1. sending \in Seq(SoundReports) /\ Len(sending) <= 1
    BY DEF Shape
  <2>2. token \in Nat /\ token >= 1
    BY Tokens
  <2>3. DOMAIN sending = 1..Len(sending) /\ Len(sending) \in Nat
        /\ \A i \in 1..Len(sending) : sending[i] \in SoundReports
    BY <2>1
  <2>4. Len(sending) \in {0, 1}
    BY <2>1, <2>3
  <2>5. token \in Nat \ {0}
    BY <2>2
  <2> QED BY <2>3, <2>4, <2>5
<1>2. gone \in [1..Len(sending) -> LateRequests]
  <2>1. \A i \in 1..Len(sending) : [report |-> sending[i], token |-> token] \in LateRequests
    BY <1>1 DEF LateRequests
  <2> QED BY <1>1, <2>1
<1>3. gone \in Seq(LateRequests) /\ Len(gone) = Len(sending)
      /\ \A i \in 1..Len(gone) : gone[i] = [report |-> sending[i], token |-> token]
  <2>1. \A i \in 1..Len(sending) : gone[i] = [report |-> sending[i], token |-> token]
    BY <1>1
  <2> HIDE DEF gone
  <2>2. gone \in Seq(LateRequests) /\ Len(gone) = Len(sending)
    BY <1>1, <1>2
  <2> QED BY <2>1, <2>2
<1>4. late' = late \o gone
  BY DEF Quit
<1> HIDE DEF gone
<1>5. late \in Seq(LateRequests)
  BY DEF Shape
<1>6. late' \in Seq(LateRequests)
  BY <1>3, <1>4, <1>5
<1>7. ASSUME NEW i \in DOMAIN late'
      PROVE  \/ i \in DOMAIN late /\ late'[i] = late[i]
             \/ /\ i = Len(late) + 1 /\ sending # <<>>
                /\ late'[i].report = sending[1] /\ late'[i].token = token
  <2>1. CASE i \in 1..Len(late)
    BY <1>3, <1>4, <1>5, <2>1
  <2>2. CASE i \notin 1..Len(late)
    <3>1. i \in 1..(Len(late) + Len(gone)) /\ Len(late) \in Nat
      BY <1>3, <1>4, <1>5, <1>7
    <3>2. i = Len(late) + 1 /\ Len(gone) = 1
      BY <1>1, <1>3, <2>2, <3>1
    <3>3. late'[i] = gone[1]
      BY <1>3, <1>4, <1>5, <3>2
    <3>4. gone[1] = [report |-> sending[1], token |-> token]
      BY <1>3, <3>2
    <3>5. sending # <<>>
      <4>1. Len(sending) = 1 /\ Len(<<>>) = 0
        BY <1>3, <3>2
      <4> QED BY <4>1
    <3> QED BY <3>2, <3>3, <3>4, <3>5
  <2> QED BY <2>1, <2>2
<1> QED BY <1>6, <1>7

\* A late request is handled, the others keep their order.
LEMMA LateKeeps ==
  ASSUME Shape, NEW i \in DOMAIN late, LateRequest(i)
  PROVE  /\ late' \in Seq(LateRequests)
         /\ \A j \in DOMAIN late' :
              LET k == IF j < i THEN j ELSE j + 1 IN
              k \in DOMAIN late /\ k # i /\ late'[j] = late[k]
         /\ \A k \in DOMAIN late : k # i => \E j \in DOMAIN late' : late'[j] = late[k]
<1> DEFINE n == Len(late)
           front == SubSeq(late, 1, i - 1)
           back == SubSeq(late, i + 1, n)
<1>1. late \in Seq(LateRequests) /\ n \in Nat /\ i \in 1..n
  BY DEF Shape
<1>2. late' = front \o back
  BY DEF LateRequest, RemoveAt
<1>3. /\ front \in Seq(LateRequests) /\ Len(front) = i - 1
      /\ \A j \in 1..i - 1 : front[j] = late[j]
  BY <1>1
<1>4. /\ back \in Seq(LateRequests) /\ Len(back) = n - i
      /\ \A j \in 1..n - i : back[j] = late[i + j]
  BY <1>1
<1> HIDE DEF front, back
<1>5. late' \in Seq(LateRequests) /\ Len(late') = n - 1
  BY <1>1, <1>2, <1>3, <1>4
<1>6. ASSUME NEW j \in DOMAIN late', j < i PROVE j \in DOMAIN late /\ j # i /\ late'[j] = late[j]
  BY <1>1, <1>2, <1>3, <1>4, <1>5, <1>6
<1>7. ASSUME NEW j \in DOMAIN late', ~(j < i)
      PROVE  j + 1 \in DOMAIN late /\ j + 1 # i /\ late'[j] = late[j + 1]
  <2>1. j \in i..n - 1
    BY <1>1, <1>5, <1>7
  <2>2. late'[j] = back[j - (i - 1)]
    BY <1>1, <1>2, <1>3, <1>4, <2>1
  <2>3. j - (i - 1) \in 1..n - i /\ i + (j - (i - 1)) = j + 1
    BY <1>1, <2>1
  <2> QED BY <1>1, <1>4, <2>1, <2>2, <2>3
<1>8. ASSUME NEW k \in DOMAIN late, k # i PROVE \E j \in DOMAIN late' : late'[j] = late[k]
  <2>1. CASE k < i
    <3>1. k \in DOMAIN late'
      BY <1>1, <1>5, <2>1
    <3> QED BY <1>6, <2>1, <3>1
  <2>2. CASE k > i
    <3>1. k - 1 \in DOMAIN late' /\ ~(k - 1 < i) /\ (k - 1) + 1 = k
      BY <1>1, <1>5, <2>2
    <3> QED BY <1>7, <3>1
  <2>3. k < i \/ k > i
    BY <1>1, <1>8
  <2> QED BY <2>1, <2>2, <2>3
<1> QED BY <1>5, <1>6, <1>7, <1>8

LEMMA ShapeInit == Init => Shape
<1> SUFFICES ASSUME Init PROVE Shape
  OBVIOUS
<1>1. PICK product \in Products : snapshot = Configure(product, Totals[product]).next
  BY DEF Init
<1>2. Standing(snapshot)
  BY <1>1, ConfigureIsSane DEF Sane
<1>3. DOMAIN EmptyDict = {}
  BY DEF EmptyDict
<1>4. SoundHistory(runs)
  <2>1. DOMAIN runs \subseteq 1..0 /\ 0 \in Nat
    BY <1>3 DEF Init
  <2> HIDE DEF EmptyDict
  <2> QED BY <1>3, <2>1 DEF Init, SoundHistory, Healthy
<1>5. asked \in [job : 0..job, step : 0..MaxTotal, pending : BOOLEAN]
  BY BoundsAreNumbers DEF Init, NotAsked
<1> HIDE DEF EmptyDict
<1>6. /\ queue = <<>> /\ sending = <<>> /\ late = <<>>
      /\ token = 0 /\ live = 0 /\ job = 0 /\ published = 0 /\ faults = 0
      /\ phase = "out" /\ refreshing = FALSE /\ intact = TRUE
  BY DEF Init
<1>7. /\ queue \in Seq(SoundReports) /\ sending \in Seq(SoundReports) /\ Len(sending) <= 1
      /\ late \in Seq(LateRequests) /\ \A i \in DOMAIN late : late[i].token <= token
  BY <1>6
<1>8. /\ token \in 0..MaxLogins /\ live \in 0..token /\ job \in Nat
      /\ published \in 0..MaxReports /\ faults \in 0..MaxFaults
  BY <1>6, Bounds
<1> QED BY <1>2, <1>4, <1>5, <1>6, <1>7, <1>8 DEF Shape, Windowed

LEMMA LoginShape ==
  ASSUME Shape, NEW product \in Products, Login(product)
  PROVE  Shape'
<1> DEFINE first == IF IncompleteWork(runs, Totals) = NoWork
                    THEN Configure(product, Totals[product])
                    ELSE RestoreState(IncompleteWork(runs, Totals))
<1>1. Sane(first)
  <2>1. CASE IncompleteWork(runs, Totals) = NoWork
    BY <2>1, ConfigureIsSane
  <2>2. CASE IncompleteWork(runs, Totals) # NoWork
    <3>1. OpenRun(runs) # 0
      BY <2>2, LeftWork DEF Shape
    <3> QED BY <2>2, <3>1, RestoreIsSane DEF Shape
  <2> QED BY <2>1, <2>2
<1>2. snapshot' = first.next /\ queue' = first.published
  BY DEF Login
<1> HIDE DEF first
<1>3. Standing(snapshot') /\ queue' \in Seq(SoundReports)
  BY <1>1, <1>2 DEF Sane
<1>4. /\ sending' = <<>> /\ phase' = "in" /\ token' = token + 1 /\ live' = token + 1
      /\ asked' = NotAsked /\ refreshing' = FALSE /\ intact' = TRUE /\ job' = job + 1
      /\ published' = published + 1 /\ published < MaxReports /\ token < MaxLogins
      /\ UNCHANGED <<late, runs, faults>>
  BY DEF Login
<1>5. /\ token' \in 0..MaxLogins /\ live' \in 0..token' /\ token' >= 1
      /\ published' \in 0..MaxReports /\ job' \in Nat
  BY <1>4, BoundsAreNumbers DEF Shape
<1>6. asked' \in [job : 0..job', step : 0..MaxTotal, pending : BOOLEAN]
  BY <1>4, <1>5, BoundsAreNumbers DEF NotAsked
<1>7. \A i \in DOMAIN late' : late'[i].token <= token'
  <2>1. late \in Seq(LateRequests) /\ token \in Nat
    BY Tokens DEF Shape
  <2>2. \A i \in DOMAIN late : late[i].token \in Nat /\ late[i].token <= token
    BY Tokens
  <2>3. late' = late /\ token' = token + 1
    BY <1>4
  <2> QED BY <2>1, <2>2, <2>3
<1>8. sending' \in Seq(SoundReports) /\ Len(sending') <= 1
  BY <1>4
<1>9. late' \in Seq(LateRequests) /\ SoundHistory(runs') /\ faults' \in 0..MaxFaults
  BY <1>4 DEF Shape
<1> QED BY <1>3, <1>4, <1>5, <1>6, <1>7, <1>8, <1>9 DEF Shape, Windowed

\* The buttons, the board and the product list.
LEMMA OperationsShape ==
  ASSUME Shape
  PROVE  /\ \A product \in Products : ChooseProduct(product) => Shape'
         /\ \A product \in Products : ProductsFetched(product) => Shape'
         /\ StartWork => Shape'
         /\ StrayStart => Shape'
         /\ Operate => Shape'
         /\ \A verdict \in {"PASS", "FAIL"} : HandleResult(verdict) => Shape'
<1>1. Standing(snapshot) /\ job \in Nat /\ asked \in [job : 0..job, step : 0..MaxTotal, pending : BOOLEAN]
      /\ refreshing \in BOOLEAN /\ intact \in BOOLEAN /\ faults \in 0..MaxFaults
  BY DEF Shape
<1>2. asked \in [job : 0..job + 1, step : 0..MaxTotal, pending : BOOLEAN] /\ job + 1 \in Nat
  BY <1>1
<1>3. ASSUME NEW product \in Products, ChooseProduct(product) PROVE Shape'
  <2>1. Sane(Configure(product, Totals[product]))
    BY ConfigureIsSane
  <2> QED BY <1>1, <1>3, <2>1, OperationShape DEF ChooseProduct, gateway, Windowed
<1>4. ASSUME NEW product \in Products, ProductsFetched(product) PROVE Shape'
  <2>1. Sane(Configure(product, Totals[product]))
    BY ConfigureIsSane
  <2>2. intact' \in BOOLEAN /\ refreshing' \in BOOLEAN
    BY <1>1, <1>4 DEF ProductsFetched
  <2> QED BY <1>1, <1>4, <2>1, <2>2, OperationShape DEF ProductsFetched, gateway
<1>5. ASSUME StartWork PROVE Shape'
  <2>1. Sane(Start(snapshot))
    BY <1>1, StartIsSane
  <2> QED BY <1>1, <1>2, <1>5, <2>1, OperationShape DEF StartWork, gateway
<1>6. ASSUME StrayStart PROVE Shape'
  <2>1. Sane(Start(snapshot))
    BY <1>1, StartIsSane
  <2>2. faults' \in 0..MaxFaults
    BY <1>6, FaultKeeps DEF StrayStart
  <2>3. /\ intact' \in BOOLEAN /\ job' \in Nat
        /\ asked' \in [job : 0..job', step : 0..MaxTotal, pending : BOOLEAN]
    BY <1>1, <1>2, <1>6 DEF StrayStart
  <2> QED BY <1>1, <1>6, <2>1, <2>2, <2>3, OperationShape DEF StrayStart, gateway
<1>7. ASSUME Operate PROVE Shape'
  <2>1. PICK operation \in {Pause(snapshot), Resume(snapshot), RegisterDefect(snapshot)} :
          Apply(operation)
    BY <1>7 DEF Operate
  <2>2. Sane(operation)
    BY <1>1, <2>1, PauseIsSane, ResumeIsSane, RegisterDefectIsSane
  <2> QED BY <1>1, <1>7, <2>1, <2>2, OperationShape DEF Operate, gateway
<1>8. ASSUME NEW verdict \in {"PASS", "FAIL"}, HandleResult(verdict) PROVE Shape'
  <2>1. Sane(ApplyJudgement(snapshot, verdict))
    BY <1>1, JudgementIsSane
  <2>2. asked' \in [job : 0..job', step : 0..MaxTotal, pending : BOOLEAN]
    BY <1>1, <1>8, BoundsAreNumbers DEF HandleResult, NotAsked
  <2> QED BY <1>1, <1>8, <2>1, <2>2, OperationShape DEF HandleResult, gateway
<1> QED BY <1>3, <1>4, <1>5, <1>6, <1>7, <1>8

\* Steps that publish and record nothing.
LEMMA QuietStepsShape ==
  ASSUME Shape
  PROVE  /\ RefreshProducts => Shape'
         /\ RequestJudgement => Shape'
         /\ InferenceFails => Shape'
         /\ Disconnected => Shape'
<1>1. Standing(snapshot) /\ job \in Nat /\ asked \in [job : 0..job, step : 0..MaxTotal, pending : BOOLEAN]
      /\ refreshing \in BOOLEAN /\ intact \in BOOLEAN /\ faults \in 0..MaxFaults
      /\ phase \in {"out", "in", "terminating"}
  BY DEF Shape
<1>2. ASSUME RefreshProducts PROVE Shape'
  BY <1>1, <1>2, QuietShape DEF RefreshProducts, gateway, history, Windowed
<1>3. ASSUME RequestJudgement PROVE Shape'
  <2>1. snapshot.step \in 0..MaxTotal
    BY <1>1, SoundReport, BoundsAreNumbers DEF Standing
  <2>2. asked' \in [job : 0..job, step : 0..MaxTotal, pending : BOOLEAN]
    BY <1>1, <1>3, <2>1 DEF RequestJudgement
  <2> QED BY <1>1, <1>3, <2>2, QuietShape DEF RequestJudgement, gateway, history, Windowed
<1>4. ASSUME InferenceFails PROVE Shape'
  <2>1. asked' \in [job : 0..job, step : 0..MaxTotal, pending : BOOLEAN]
    BY <1>1, <1>4 DEF InferenceFails
  <2> QED BY <1>1, <1>4, <2>1, QuietShape DEF InferenceFails, gateway, history, Windowed
<1>5. ASSUME Disconnected PROVE Shape'
  <2>1. faults' \in 0..MaxFaults
    BY <1>5, FaultKeeps DEF Disconnected
  <2> QED BY <1>1, <1>5, <2>1, QuietShape DEF Disconnected, gateway, Windowed
<1> QED BY <1>2, <1>3, <1>4, <1>5

\* What a queue and the report taken from it are made of.
LEMMA QueueTaken ==
  ASSUME NEW Q \in Seq(SoundReports), Q # <<>>
  PROVE  /\ Head(Q) \in SoundReports /\ Tail(Q) \in Seq(SoundReports)
         /\ <<Head(Q)>> \in Seq(SoundReports) /\ Len(<<Head(Q)>>) = 1
         /\ <<Head(Q)>> \o Tail(Q) = <<>> \o Q
<1>1. Head(Q) \in SoundReports /\ Tail(Q) \in Seq(SoundReports)
  OBVIOUS
<1>2. <<Head(Q)>> \o Tail(Q) = Q /\ <<>> \o Q = Q
  BY <1>1
<1> QED BY <1>1, <1>2

\* The report on the wire.
LEMMA Sent ==
  ASSUME Shape, sending # <<>>
  PROVE  sending[1] \in SoundReports /\ sending = <<sending[1]>>
<1>1. sending \in Seq(SoundReports) /\ Len(sending) <= 1
  BY DEF Shape
<1>2. Len(sending) = 0 => sending = <<>>
  BY <1>1
<1>3. Len(sending) = 1
  <2> DEFINE n == Len(sending)
  <2>1. n \in Nat /\ n <= 1 /\ n # 0
    BY <1>1, <1>2
  <2> HIDE DEF n
  <2>2. n = 1
    BY <2>1
  <2> QED BY <2>2 DEF n
<1>4. sending[1] \in SoundReports
  BY <1>1, <1>3
<1>5. sending = <<sending[1]>>
  BY <1>1, <1>3, <1>4
<1> QED BY <1>4, <1>5

\* A report that is recorded leaves the history sound.
LEMMA RecordableIsSound ==
  ASSUME Shape, NEW r \in SoundReports, NEW t, Recordable(r, t)
  PROVE  SoundHistory(Recorded(runs, r))
  BY RecordedIsSound DEF Shape, Recordable, Acceptable

LEMMA SenderShape ==
  ASSUME Shape
  PROVE  /\ Send => Shape'
         /\ Answered => Shape'
         /\ TimedOut => Shape'
         /\ \A i \in DOMAIN late : LateRequest(i) => Shape'
<1>1. <<>> \in Seq(SoundReports) /\ Len(<<>>) <= 1
  OBVIOUS
<1>2. ASSUME Send PROVE Shape'
  <2>1. /\ sending' \in Seq(SoundReports) /\ Len(sending') <= 1
        /\ queue' \in Seq(SoundReports)
    BY <1>2, QueueTaken DEF Send, Shape
  <2>2. /\ Windowed /\ Windowed'
        /\ UNCHANGED <<snapshot, phase, token, asked, refreshing, live, late, runs,
                      job, intact, published, faults>>
    BY <1>2 DEF Send, gateway, history, Windowed
  <2> QED BY <2>1, <2>2 DEF Shape
<1>3. ASSUME Answered PROVE Shape'
  <2>1. sending' = <<>> /\ Windowed /\ sending # <<>>
        /\ UNCHANGED <<snapshot, queue, token, asked, refreshing, live, late, job,
                      published, faults>>
    BY <1>3 DEF Answered
  <2>2. SoundHistory(runs') /\ phase' \in {"in", "terminating"} /\ intact' \in BOOLEAN
    <3>1. CASE Recordable(sending[1], token)
      <4>1. runs' = Recorded(runs, sending[1]) /\ UNCHANGED <<phase, intact>>
        BY <1>3, <3>1 DEF Answered
      <4>2. SoundHistory(Recorded(runs, sending[1]))
        BY <2>1, <3>1, Sent, RecordableIsSound
      <4> QED BY <2>1, <4>1, <4>2 DEF Shape, Windowed
    <3>2. CASE ~Recordable(sending[1], token)
      <4>1. runs' = runs /\ phase' = "terminating" /\ intact' = FALSE
        BY <1>3, <3>2 DEF Answered, Fail
      <4> QED BY <4>1 DEF Shape
    <3> QED BY <3>1, <3>2
  <2>3. Windowed'
    BY <2>2 DEF Windowed
  <2> QED BY <1>1, <2>1, <2>2, <2>3 DEF Shape
<1>4. ASSUME TimedOut PROVE Shape'
  <2>1. /\ sending' = <<>> /\ Windowed /\ sending # <<>>
        /\ phase' = "terminating" /\ intact' = FALSE
        /\ UNCHANGED <<snapshot, queue, token, asked, refreshing, live, runs, job, published>>
        /\ late' \in {late, Append(late, [report |-> sending[1], token |-> token])}
    BY <1>4 DEF TimedOut, Fail
  <2>2. faults' \in 0..MaxFaults
    BY <1>4, FaultKeeps DEF TimedOut
  <2>3. late' \in Seq(LateRequests) /\ \A i \in DOMAIN late' : late'[i].token <= token'
    <3> DEFINE new == [report |-> sending[1], token |-> token]
    <3>1. late \in Seq(LateRequests) /\ \A i \in DOMAIN late : late[i].token <= token
      BY DEF Shape
    <3>2. token \in Nat \ {0}
      <4>1. token \in Nat /\ token >= 1
        BY <2>1, Tokens
      <4> QED BY <4>1
    <3>3. new \in LateRequests /\ new.token = token
      BY <2>1, <3>2, Sent DEF LateRequests
    <3> HIDE DEF new
    <3>4. /\ Append(late, new) \in Seq(LateRequests)
          /\ \A i \in DOMAIN Append(late, new) : Append(late, new)[i].token <= token
      <4>1. \A i \in DOMAIN Append(late, new) :
              \/ i \in DOMAIN late /\ Append(late, new)[i] = late[i]
              \/ Append(late, new)[i] = new
        BY <3>1, <3>3
      <4>2. token <= token
        BY <3>2
      <4>3. Append(late, new) \in Seq(LateRequests)
        BY <3>1, <3>3
      <4>4. \A i \in DOMAIN Append(late, new) : Append(late, new)[i].token <= token
        BY <3>1, <3>3, <4>1, <4>2
      <4> QED BY <4>3, <4>4
    <3>5. late' = late \/ late' = Append(late, new)
      BY <2>1 DEF new
    <3> QED BY <2>1, <3>1, <3>4, <3>5
  <2>4. Windowed'
    BY <2>1 DEF Windowed
  <2> QED BY <1>1, <2>1, <2>2, <2>3, <2>4 DEF Shape
<1>5. ASSUME NEW i \in DOMAIN late, LateRequest(i) PROVE Shape'
  <2>1. /\ late' \in Seq(LateRequests)
        /\ \A j \in DOMAIN late' : \E k \in DOMAIN late : late'[j] = late[k]
    BY <1>5, LateKeeps
  <2>2. /\ UNCHANGED <<snapshot, queue, sending, phase, token, asked, refreshing, live,
                      job, intact, published, faults>>
        /\ runs' = IF Recordable(late[i].report, late[i].token)
                   THEN Recorded(runs, late[i].report) ELSE runs
    BY <1>5 DEF LateRequest, jetson, history
  <2>3. late[i].report \in SoundReports
    BY Tokens
  <2>4. SoundHistory(runs')
    <3>1. CASE Recordable(late[i].report, late[i].token)
      BY <2>2, <2>3, <3>1, RecordableIsSound
    <3>2. CASE ~Recordable(late[i].report, late[i].token)
      BY <2>2, <3>2 DEF Shape
    <3> QED BY <3>1, <3>2
  <2>5. \A j \in DOMAIN late' : late'[j].token <= token
    BY <2>1 DEF Shape
  <2> QED BY <2>1, <2>2, <2>4, <2>5 DEF Shape, Windowed
<1> QED BY <1>2, <1>3, <1>4, <1>5

LEMMA EndingShape ==
  ASSUME Shape
  PROVE  /\ Close => Shape'
         /\ Crash => Shape'
         /\ GatewayRestart => Shape'
<1>1. ASSUME Windowed, Quit, live' \in 0..token, faults' \in 0..MaxFaults PROVE Shape'
  <2>1. /\ late' \in Seq(LateRequests)
        /\ \A i \in DOMAIN late' :
             \/ i \in DOMAIN late /\ late'[i] = late[i]
             \/ late'[i].token = token
    BY <1>1, QuitKeeps
  <2>2. \A i \in DOMAIN late' : late'[i].token <= token
    BY <2>1, Tokens
  <2>3. /\ phase' = "out" /\ queue' = <<>> /\ sending' = <<>>
        /\ UNCHANGED <<snapshot, token, asked, refreshing, runs, job, intact, published>>
    BY <1>1 DEF Quit
  <2>4. <<>> \in Seq(SoundReports) /\ Len(<<>>) <= 1
    OBVIOUS
  <2> QED BY <1>1, <2>1, <2>2, <2>3, <2>4 DEF Shape, Windowed
<1>2. live \in 0..token /\ 0 \in 0..token /\ faults \in 0..MaxFaults
  <2>1. token \in Nat
    BY Tokens
  <2> QED BY <2>1 DEF Shape
<1>3. ASSUME Close PROVE Shape'
  <2>1. live' \in 0..token /\ faults' \in 0..MaxFaults
    BY <1>2, <1>3, FaultKeeps DEF Close
  <2> QED BY <1>1, <1>3, <2>1 DEF Close
<1>4. ASSUME Crash PROVE Shape'
  BY <1>1, <1>2, <1>4, FaultKeeps DEF Crash
<1>5. ASSUME GatewayRestart PROVE Shape'
  <2>1. /\ live' = 0 /\ late' = <<>> /\ intact' = (intact /\ ~Windowed)
        /\ UNCHANGED <<snapshot, queue, sending, phase, token, asked, refreshing, runs, job, published>>
    BY <1>5 DEF GatewayRestart, jetson
  <2>2. faults' \in 0..MaxFaults /\ intact' \in BOOLEAN
    BY <1>5, <2>1, FaultKeeps DEF GatewayRestart, Shape
  <2>3. <<>> \in Seq(LateRequests) /\ DOMAIN <<>> = {}
    OBVIOUS
  <2> QED BY <1>2, <2>1, <2>2, <2>3 DEF Shape, Windowed
<1> QED BY <1>3, <1>4, <1>5

LEMMA ShapeNext == Shape /\ [Next]_vars => Shape'
<1> SUFFICES ASSUME Shape, [Next]_vars PROVE Shape'
  OBVIOUS
<1>1. CASE UNCHANGED vars
  BY <1>1 DEF vars, jetson, gateway, history, Shape, Windowed
<1>2. CASE \E product \in Products :
             Login(product) \/ ChooseProduct(product) \/ ProductsFetched(product)
  BY <1>2, LoginShape, OperationsShape
<1>3. CASE StartWork \/ StrayStart \/ Operate
  BY <1>3, OperationsShape
<1>4. CASE RefreshProducts \/ RequestJudgement \/ InferenceFails \/ Disconnected
  BY <1>4, QuietStepsShape
<1>5. CASE \E verdict \in {"PASS", "FAIL"} : HandleResult(verdict)
  BY <1>5, OperationsShape
<1>6. CASE Send \/ Answered \/ TimedOut \/ \E i \in DOMAIN late : LateRequest(i)
  BY <1>6, SenderShape
<1>7. CASE Close \/ Crash \/ GatewayRestart
  BY <1>7, EndingShape
<1> QED BY <1>1, <1>2, <1>3, <1>4, <1>5, <1>6, <1>7 DEF Next

-----------------------------------------------------------------------------
(* The link                                                                *)

\* Queues joined in either order.
LEMMA Joined ==
  ASSUME NEW S, NEW s \in Seq(S), NEW t \in Seq(S), NEW u \in Seq(S)
  PROVE  (s \o t) \o u = s \o (t \o u)
  BY ConcatAssociative

\* One report is a chain.
LEMMA ChainStarts ==
  ASSUME NEW r \in SoundReports, NEW first, Follows(first, r)
  PROVE  Chained(first, <<>> \o <<r>>, Point(r))
<1>1. <<>> \o <<r>> = <<r>>
  OBVIOUS
<1>2. <<r>> # <<>> /\ Len(<<r>>) = 1 /\ <<r>>[1] = r /\ 1..0 = {}
  OBVIOUS
<1> QED BY <1>1, <1>2 DEF Chained

\* The link in a window leads over the report on the wire.
LEMMA ChainHead ==
  ASSUME ReportingInv, intact, Windowed, sending # <<>>
  PROVE  /\ live = token
         /\ sending[1] \in SoundReports
         /\ Follows(SavedIn(runs), sending[1])
         /\ Chained(Point(sending[1]), queue, Point(snapshot))
         /\ Recordable(sending[1], token)
         /\ SavedIn(Recorded(runs, sending[1])) = Point(sending[1])
<1>1. Shape /\ live = token /\ Chained(SavedIn(runs), sending \o queue, Point(snapshot))
  BY DEF ReportingInv, Link
<1>2. sending[1] \in SoundReports /\ sending = <<sending[1]>>
  BY <1>1, Sent
<1>3. queue \in Seq(SoundReports) /\ SoundHistory(runs)
  BY <1>1 DEF Shape
<1>4. Follows(SavedIn(runs), sending[1]) /\ Chained(Point(sending[1]), queue, Point(snapshot))
  <2> DEFINE r == sending[1]
  <2>1. Chained(SavedIn(runs), <<r>> \o queue, Point(snapshot))
    BY <1>1, <1>2
  <2>2. r \in SoundReports
    BY <1>2
  <2> HIDE DEF r
  <2>3. Follows(SavedIn(runs), r) /\ Chained(Point(r), queue, Point(snapshot))
    BY <2>1, <2>2, <1>3, ChainShrinks
  <2> QED BY <2>3 DEF r
<1>5. /\ Acceptable(runs, Totals, sending[1])
      /\ SavedIn(Recorded(runs, sending[1])) = Point(sending[1])
  BY <1>2, <1>3, <1>4, RecordedPoint
<1> QED BY <1>1, <1>2, <1>4, <1>5 DEF Recordable

\* A product may be chosen where no work is under way.
LEMMA ConfigureContinues ==
  ASSUME NEW product \in Products, snapshot.state = "idle"
  PROVE  LET operation == Configure(product, Totals[product]) IN
         Sane(operation) /\ Continuing(snapshot, operation)
<1> DEFINE operation == Configure(product, Totals[product])
<1>1. /\ Sane(operation) /\ operation.published = <<operation.next>>
      /\ operation.next.state = "idle"
  BY ConfigureIsSane
<1>2. Point(snapshot) = NoPoint
  BY NoPointOtherwise
<1> HIDE DEF operation
<1>3. Continuing(snapshot, operation)
  BY <1>1, <1>2 DEF Continuing, Follows
<1> QED BY <1>1, <1>3 DEF operation

\* An operation that continues the work keeps the link.
LEMMA OperationLink ==
  ASSUME ReportingInv, Windowed, NEW operation, Sane(operation), Apply(operation),
         Continuing(snapshot, operation),
         UNCHANGED <<sending, phase, token, live, late, runs>>, intact' => intact
  PROVE  Link'
<1>1. Shape /\ Link
  BY DEF ReportingInv
<1>2. Windowed'
  BY DEF Windowed
<1> SUFFICES ASSUME intact'
             PROVE  /\ live' = token'
                    /\ \A i \in DOMAIN late' : late'[i].token # live'
                    /\ Chained(SavedIn(runs'), sending' \o queue', Point(snapshot'))
  BY <1>2 DEF Link
<1>3. /\ live = token
      /\ \A i \in DOMAIN late : late[i].token # live
      /\ Chained(SavedIn(runs), sending \o queue, Point(snapshot))
  BY <1>1 DEF Link
<1>4. snapshot' = operation.next /\ queue' = queue \o operation.published
  BY DEF Apply
<1>5. /\ sending \in Seq(SoundReports) /\ queue \in Seq(SoundReports)
      /\ operation.published \in Seq(SoundReports) /\ Standing(snapshot)
  BY <1>1 DEF Shape, Sane
<1>6. Chained(SavedIn(runs), (sending \o queue) \o operation.published, Point(operation.next))
  <2>1. sending \o queue \in Seq(SoundReports)
    BY <1>5
  <2> QED BY <1>3, <1>5, <2>1, ChainExtended
<1>7. (sending \o queue) \o operation.published = sending \o (queue \o operation.published)
  <2> DEFINE pub == operation.published
  <2>1. sending \in Seq(SoundReports) /\ queue \in Seq(SoundReports) /\ pub \in Seq(SoundReports)
    BY <1>5
  <2> HIDE DEF pub
  <2>2. (sending \o queue) \o pub = sending \o (queue \o pub)
    BY <2>1, Joined
  <2> QED BY <2>2 DEF pub
<1> QED BY <1>3, <1>4, <1>6, <1>7

\* A step that leaves the reports and the work alone keeps the link.
LEMMA QuietLink ==
  ASSUME Link, UNCHANGED <<snapshot, queue, sending, token, live, late, runs>>,
         Windowed <=> Windowed', intact' => intact
  PROVE  Link'
  BY DEF Link

\* A login shows the work the tables hold, and reports it.
LEMMA LoginTakesUp ==
  ASSUME Shape, NEW product \in Products, Login(product)
  PROVE  /\ snapshot' \in SoundReports /\ queue' = <<snapshot'>> /\ sending' = <<>>
         /\ Follows(SavedIn(runs), snapshot') /\ Point(snapshot') = SavedIn(runs)
<1> DEFINE unfinished == IncompleteWork(runs, Totals)
           first == IF unfinished = NoWork THEN Configure(product, Totals[product])
                    ELSE RestoreState(unfinished)
<1>1. snapshot' = first.next /\ queue' = first.published /\ sending' = <<>>
  BY DEF Login
<1>2. SoundHistory(runs)
  BY DEF Shape
<1>3. /\ first.next \in SoundReports /\ first.published = <<first.next>>
      /\ Follows(SavedIn(runs), first.next) /\ Point(first.next) = SavedIn(runs)
  <2>1. CASE OpenRun(runs) = 0
    <3>1. unfinished = NoWork /\ SavedIn(runs) = NoPoint
      BY <1>2, <2>1, LeftWork
    <3>2. first = Configure(product, Totals[product])
      BY <3>1
    <3> HIDE DEF first
    <3>3. Sane(first) /\ first.published = <<first.next>> /\ first.next.state = "idle"
      BY <3>2, ConfigureIsSane
    <3>4. Point(first.next) = NoPoint
      BY <3>3, NoPointOtherwise
    <3> QED BY <3>1, <3>3, <3>4 DEF Sane, Standing, Follows
  <2>2. CASE OpenRun(runs) # 0
    <3>1. unfinished # NoWork
      BY <1>2, <2>2, LeftWork
    <3>2. first = RestoreState(IncompleteWork(runs, Totals))
      BY <3>1
    <3> HIDE DEF first
    <3>3. /\ Sane(first) /\ first.published = <<first.next>>
          /\ Follows(SavedIn(runs), first.next) /\ Point(first.next) = SavedIn(runs)
      BY <1>2, <2>2, <3>2, RestoreIsSane
    <3> QED BY <3>3 DEF Sane, Standing
  <2> QED BY <2>1, <2>2
<1> HIDE DEF first
<1> QED BY <1>1, <1>3

LEMMA LoginLink ==
  ASSUME Shape, NEW product \in Products, Login(product)
  PROVE  Link'
<1>1. /\ token' = token + 1 /\ live' = token + 1 /\ UNCHANGED <<late, runs>>
      /\ phase' = "in"
  BY DEF Login
<1>2. Chained(SavedIn(runs'), sending' \o queue', Point(snapshot'))
  BY <1>1, LoginTakesUp, ChainStarts
<1>3. \A i \in DOMAIN late' : late'[i].token # live'
  BY <1>1, Tokens
<1>4. Windowed' /\ live' = token'
  BY <1>1 DEF Windowed
<1> QED BY <1>2, <1>3, <1>4 DEF Link

LEMMA LinkInit == Init => Link
<1> SUFFICES ASSUME Init PROVE Link
  OBVIOUS
<1>1. phase = "out" /\ late = <<>>
  BY DEF Init
<1>2. DOMAIN late = {}
  BY <1>1
<1> QED BY <1>1, <1>2 DEF Link, Windowed

LEMMA OperationsLink ==
  ASSUME ReportingInv
  PROVE  /\ \A product \in Products : ChooseProduct(product) => Link'
         /\ \A product \in Products : ProductsFetched(product) => Link'
         /\ StartWork => Link'
         /\ StrayStart => Link'
         /\ Operate => Link'
         /\ \A verdict \in {"PASS", "FAIL"} : HandleResult(verdict) => Link'
<1>1. Shape /\ Standing(snapshot)
  BY DEF ReportingInv, Shape
<1>2. ASSUME NEW product \in Products, ChooseProduct(product) PROVE Link'
  <2>1. /\ Apply(Configure(product, Totals[product])) /\ Windowed /\ snapshot.state = "idle"
        /\ UNCHANGED <<sending, phase, token, live, late, runs, intact>>
    BY <1>2 DEF ChooseProduct, gateway, Windowed
  <2> QED BY <2>1, ConfigureContinues, OperationLink
<1>3. ASSUME NEW product \in Products, ProductsFetched(product) PROVE Link'
  <2>1. /\ Apply(Configure(product, Totals[product])) /\ Windowed
        /\ UNCHANGED <<sending, phase, token, live, late, runs>>
        /\ intact' => intact /\ snapshot.state = "idle"
    BY <1>3 DEF ProductsFetched, gateway
  <2>2. CASE snapshot.state = "idle"
    BY <2>1, <2>2, ConfigureContinues, OperationLink
  <2>3. CASE snapshot.state # "idle"
    BY <2>1, <2>3 DEF Link
  <2> QED BY <2>2, <2>3
<1>4. ASSUME StartWork PROVE Link'
  <2>1. /\ Apply(Start(snapshot)) /\ Windowed /\ snapshot.state = "idle"
        /\ UNCHANGED <<sending, phase, token, live, late, runs, intact>>
    BY <1>4 DEF StartWork, gateway
  <2>2. Sane(Start(snapshot)) /\ Continuing(snapshot, Start(snapshot))
    BY <1>1, <2>1, StartIsSane
  <2> QED BY <2>1, <2>2, OperationLink
<1>5. ASSUME StrayStart PROVE Link'
  <2>1. /\ Apply(Start(snapshot)) /\ Windowed
        /\ UNCHANGED <<sending, phase, token, live, late, runs>>
        /\ snapshot.state = "running" => ~intact'
        /\ snapshot.state # "running" => intact' = intact
    BY <1>5 DEF StrayStart, gateway
  <2>2. CASE snapshot.state = "running"
    BY <2>1, <2>2 DEF Link
  <2>3. CASE snapshot.state # "running"
    <3>1. Sane(Start(snapshot)) /\ Continuing(snapshot, Start(snapshot))
      BY <1>1, <2>3, StartIsSane
    <3> QED BY <2>1, <2>3, <3>1, OperationLink
  <2> QED BY <2>2, <2>3
<1>6. ASSUME Operate PROVE Link'
  <2>1. /\ Windowed /\ UNCHANGED <<sending, phase, token, live, late, runs, intact>>
        /\ \/ Apply(Pause(snapshot)) \/ Apply(Resume(snapshot))
           \/ Apply(RegisterDefect(snapshot))
    BY <1>6 DEF Operate, gateway
  <2>2. CASE Apply(Pause(snapshot))
    BY <1>1, <2>1, <2>2, PauseIsSane, OperationLink
  <2>3. CASE Apply(Resume(snapshot))
    BY <1>1, <2>1, <2>3, ResumeIsSane, OperationLink
  <2>4. CASE Apply(RegisterDefect(snapshot))
    BY <1>1, <2>1, <2>4, RegisterDefectIsSane, OperationLink
  <2> QED BY <2>1, <2>2, <2>3, <2>4
<1>7. ASSUME NEW verdict \in {"PASS", "FAIL"}, HandleResult(verdict) PROVE Link'
  <2>1. /\ Apply(ApplyJudgement(snapshot, verdict)) /\ Windowed
        /\ UNCHANGED <<sending, phase, token, live, late, runs, intact>>
    BY <1>7 DEF HandleResult, gateway
  <2> QED BY <1>1, <2>1, JudgementIsSane, OperationLink
<1> QED BY <1>2, <1>3, <1>4, <1>5, <1>6, <1>7

LEMMA QuietStepsLink ==
  ASSUME ReportingInv,
         RefreshProducts \/ RequestJudgement \/ InferenceFails \/ Disconnected \/ UNCHANGED vars
  PROVE  Link'
<1>1. /\ UNCHANGED <<snapshot, queue, sending, token, live, late, runs, intact>>
      /\ Windowed' <=> Windowed
  BY DEF RefreshProducts, RequestJudgement, InferenceFails, Disconnected, gateway, history,
         vars, jetson, Windowed
<1> QED BY <1>1, QuietLink DEF ReportingInv

LEMMA SenderLink ==
  ASSUME ReportingInv
  PROVE  /\ Send => Link'
         /\ Answered => Link'
         /\ TimedOut => Link'
<1>1. Shape /\ Link /\ queue \in Seq(SoundReports)
  BY DEF ReportingInv, Shape
<1>2. ASSUME Send PROVE Link'
  <2>1. /\ sending = <<>> /\ queue # <<>> /\ sending' = <<Head(queue)>> /\ queue' = Tail(queue)
        /\ UNCHANGED <<snapshot, phase, token, live, late, runs, intact>>
    BY <1>2 DEF Send, gateway, history
  <2>2. sending' \o queue' = sending \o queue
    BY <1>1, <2>1, QueueTaken
  <2> QED BY <1>1, <2>1, <2>2 DEF Link, Windowed
<1>3. ASSUME Answered PROVE Link'
  <2>1. /\ Windowed /\ sending # <<>> /\ sending' = <<>>
        /\ UNCHANGED <<snapshot, queue, token, live, late>>
    BY <1>3 DEF Answered
  <2>2. CASE intact
    <3>1. /\ live = token /\ Recordable(sending[1], token)
          /\ Chained(Point(sending[1]), queue, Point(snapshot))
          /\ SavedIn(Recorded(runs, sending[1])) = Point(sending[1])
      BY <2>1, <2>2, ChainHead
    <3>2. runs' = Recorded(runs, sending[1]) /\ UNCHANGED <<phase, intact>>
      BY <1>3, <3>1 DEF Answered
    <3>3. sending' \o queue' = queue
      BY <1>1, <2>1
    <3>4. Chained(SavedIn(runs'), sending' \o queue', Point(snapshot'))
      BY <2>1, <3>1, <3>2, <3>3
    <3> QED BY <1>1, <2>1, <2>2, <3>1, <3>2, <3>4 DEF Link, Windowed
  <2>3. CASE ~intact
    BY <1>3, <2>3 DEF Answered, Fail, Link
  <2> QED BY <2>2, <2>3
<1>4. ASSUME TimedOut PROVE Link'
  BY <1>4 DEF TimedOut, Fail, Link
<1> QED BY <1>2, <1>3, <1>4

LEMMA LateLink ==
  ASSUME ReportingInv, NEW i \in DOMAIN late, LateRequest(i)
  PROVE  Link'
<1>1. Shape /\ Link
  BY DEF ReportingInv
<1>2. /\ UNCHANGED <<snapshot, queue, sending, phase, token, live, intact>>
      /\ late[i].token # live => runs' = runs
  BY DEF LateRequest, jetson, history, Recordable
<1>3. \A j \in DOMAIN late' :
        LET k == IF j < i THEN j ELSE j + 1 IN
        k \in DOMAIN late /\ k # i /\ late'[j] = late[k]
  BY <1>1, LateKeeps
<1>4. \A j \in DOMAIN late' : \E k \in DOMAIN late : k # i /\ late'[j] = late[k]
  BY <1>3
<1>5. i \in Nat /\ DOMAIN late' \subseteq Nat
  <2>1. late \in Seq(LateRequests) /\ late' \in Seq(LateRequests)
    BY <1>1, LateKeeps DEF Shape
  <2> QED BY <2>1
<1> SUFFICES ASSUME intact PROVE Link'
  BY <1>2 DEF Link
<1>6. CASE Windowed
  <2>1. late[i].token # live
    BY <1>1, <1>6 DEF Link
  <2> QED BY <1>1, <1>2, <1>4, <1>6, <2>1 DEF Link, Windowed
<1>7. CASE ~Windowed
  <2>1. \A m \in DOMAIN late : late[m].token = live =>
           /\ Follows(SavedIn(runs), late[m].report)
           /\ \A n \in DOMAIN late : late[n].token = live => n = m
    BY <1>1, <1>7 DEF Link
  <2>2. ~Windowed'
    BY <1>2, <1>7 DEF Windowed
  <2>3. CASE late[i].token = live
    <3>1. \A j \in DOMAIN late' : late'[j].token # live'
      BY <1>2, <1>4, <2>1, <2>3
    <3> QED BY <2>2, <3>1 DEF Link
  <2>4. CASE late[i].token # live
    <3>1. runs' = runs /\ live' = live
      BY <1>2, <2>4
    <3>2. ASSUME NEW m \in DOMAIN late', NEW n \in DOMAIN late',
                 late'[m].token = live', late'[n].token = live'
          PROVE  n = m
      <4> DEFINE km == IF m < i THEN m ELSE m + 1
                 kn == IF n < i THEN n ELSE n + 1
      <4>1. km \in DOMAIN late /\ late'[m] = late[km] /\ km # i
        BY <1>3
      <4>2. kn \in DOMAIN late /\ late'[n] = late[kn] /\ kn # i
        BY <1>3
      <4>3. km = kn
        BY <2>1, <3>1, <3>2, <4>1, <4>2
      <4> QED BY <4>1, <4>2, <4>3, <1>5
    <3>3. ASSUME NEW m \in DOMAIN late', late'[m].token = live'
          PROVE  Follows(SavedIn(runs'), late'[m].report)
      <4>1. PICK k \in DOMAIN late : late'[m] = late[k]
        BY <1>4
      <4> QED BY <2>1, <3>1, <3>3, <4>1
    <3> QED BY <2>2, <3>2, <3>3 DEF Link
  <2> QED BY <2>3, <2>4
<1> QED BY <1>6, <1>7

LEMMA EndingLink ==
  ASSUME ReportingInv
  PROVE  /\ Close => Link'
         /\ Crash => Link'
         /\ GatewayRestart => Link'
<1>1. Shape /\ Link
  BY DEF ReportingInv
<1>2. ASSUME Windowed, Quit, intact' = intact, live' \in {0, live} PROVE Link'
  <2> SUFFICES ASSUME intact PROVE Link'
    BY <1>2 DEF Link
  <2>1. phase' = "out" /\ UNCHANGED <<runs, token>>
    BY <1>2 DEF Quit
  <2>2. ~Windowed'
    BY <2>1 DEF Windowed
  <2>3. live = token /\ \A i \in DOMAIN late : late[i].token # live
    BY <1>1, <1>2 DEF Link
  <2>4. \A i \in DOMAIN late' :
              \/ i \in DOMAIN late /\ late'[i] = late[i]
              \/ /\ i = Len(late) + 1 /\ sending # <<>>
                 /\ late'[i].report = sending[1] /\ late'[i].token = token
    BY <1>1, <1>2, QuitKeeps
  <2>5. CASE live' = 0
    <3>1. \A i \in DOMAIN late' : late'[i].token # 0
      BY <1>1, <1>2, <2>4, Tokens
    <3> QED BY <2>2, <2>5, <3>1 DEF Link
  <2>6. CASE live' = live
    <3>1. \A i \in DOMAIN late' : late'[i].token = live' =>
             i = Len(late) + 1 /\ sending # <<>> /\ late'[i].report = sending[1]
      BY <2>3, <2>4, <2>6
    <3>2. sending # <<>> => Follows(SavedIn(runs), sending[1])
      BY <1>2, ChainHead
    <3> QED BY <2>1, <2>2, <3>1, <3>2 DEF Link
  <2> QED BY <1>2, <2>5, <2>6
<1>3. ASSUME Close PROVE Link'
  <2>1. Windowed /\ Quit /\ live' \in {0, live} /\ intact' = intact
    BY <1>3 DEF Close, Quit
  <2> QED BY <1>2, <2>1
<1>4. ASSUME Crash PROVE Link'
  <2>1. Windowed /\ Quit /\ live' \in {0, live} /\ intact' = intact
    BY <1>4 DEF Crash, Quit
  <2> QED BY <1>2, <2>1
<1>5. ASSUME GatewayRestart PROVE Link'
  <2>1. late' = <<>> /\ intact' = (intact /\ ~Windowed) /\ phase' = phase
    BY <1>5 DEF GatewayRestart, jetson
  <2>2. DOMAIN late' = {}
    BY <2>1
  <2> QED BY <2>1, <2>2 DEF Link, Windowed
<1> QED BY <1>3, <1>4, <1>5

LEMMA LinkNext == ReportingInv /\ [Next]_vars => Link'
<1> SUFFICES ASSUME ReportingInv, [Next]_vars PROVE Link'
  OBVIOUS
<1>1. CASE \E product \in Products :
             Login(product) \/ ChooseProduct(product) \/ ProductsFetched(product)
  BY <1>1, LoginLink, OperationsLink DEF ReportingInv
<1>2. CASE StartWork \/ StrayStart \/ Operate
  BY <1>2, OperationsLink
<1>3. CASE RefreshProducts \/ RequestJudgement \/ InferenceFails \/ Disconnected \/ UNCHANGED vars
  BY <1>3, QuietStepsLink
<1>4. CASE \E verdict \in {"PASS", "FAIL"} : HandleResult(verdict)
  BY <1>4, OperationsLink
<1>5. CASE Send \/ Answered \/ TimedOut
  BY <1>5, SenderLink
<1>6. CASE \E i \in DOMAIN late : LateRequest(i)
  BY <1>6, LateLink
<1>7. CASE Close \/ Crash \/ GatewayRestart
  BY <1>7, EndingLink
<1> QED BY <1>1, <1>2, <1>3, <1>4, <1>5, <1>6, <1>7 DEF Next

-----------------------------------------------------------------------------
(* The invariant and what follows from it                                  *)

\* The reports underway are sound whatever happens, and while the link is intact
\* they lead from the tables of the monitoring PC to what the window shows.
THEOREM ReportingInvariant == Spec => []ReportingInv
<1>1. Init => ReportingInv
  BY ShapeInit, LinkInit DEF ReportingInv
<1>2. ReportingInv /\ [Next]_vars => ReportingInv'
  BY ShapeNext, LinkNext DEF ReportingInv
<1> QED BY <1>1, <1>2, PTL DEF Spec

\* The snapshot, the reports underway and the session always have the shape the
\* program gives them.
THEOREM TypeInvariant == Spec => []TypeOK
<1>1. ReportingInv => TypeOK
  <2> SUFFICES ASSUME Shape PROVE TypeOK
    BY DEF ReportingInv
  <2>1. SoundReports \subseteq Snapshots(Products, MaxTotal)
    BY DEF SoundReports
  <2>2. snapshot \in Snapshots(Products, MaxTotal)
    BY <2>1 DEF Shape, Standing
  <2>3. /\ \A i \in DOMAIN queue : queue[i] \in Snapshots(Products, MaxTotal)
        /\ \A i \in DOMAIN sending : sending[i] \in Snapshots(Products, MaxTotal)
    <3>1. queue \in Seq(SoundReports) /\ sending \in Seq(SoundReports)
      BY DEF Shape
    <3> QED BY <2>1, <3>1
  <2>4. \A i \in DOMAIN late : late[i].token \in 1..token
    BY Tokens
  <2> QED BY <2>2, <2>3, <2>4 DEF Shape, TypeOK
<1> QED BY <1>1, ReportingInvariant, PTL

\* While the link is intact the monitoring PC refuses no report: what it is handed
\* continues the work it has recorded.
THEOREM NothingIsRefused == Spec => NoRefusalWhileIntact
<1>1. ReportingInv /\ [Next]_vars => [intact /\ Answered => intact']_vars
  <2> SUFFICES ASSUME ReportingInv, intact, Answered PROVE intact'
    OBVIOUS
  <2>1. Windowed /\ sending # <<>>
    BY DEF Answered
  <2>2. Recordable(sending[1], token)
    BY <2>1, ChainHead
  <2> QED BY <2>2 DEF Answered
<1> QED BY <1>1, ReportingInvariant, PTL DEF Spec, NoRefusalWhileIntact

-----------------------------------------------------------------------------
(* The refinement of ResumableWork                                         *)

Points == Resumable!Points \cup {NoPoint}

\* The points of a sequence of reports.
PointsOf(reports) == [i \in DOMAIN reports |-> Point(reports[i])]

\* A report has a point ResumableWork knows.
LEMMA PointTyped ==
  ASSUME NEW r \in SoundReports
  PROVE  Point(r) \in Points
<1>1. CASE ~(r.state \in {"running", "paused"} /\ r.result # "defect")
  BY <1>1, NoPointOtherwise DEF Points
<1>2. CASE r.state \in {"running", "paused"} /\ r.result # "defect"
  <2>1. /\ r.product \in Products /\ r.total = Totals[r.product]
        /\ r.total \in 1..MaxTotal /\ r.step \in 1..r.total
    BY <1>2, SoundReport
  <2>2. MaxTotal \in Nat
    BY ReportingAssumption
  <2>3. r.step \in 1..MaxTotal
    BY <2>1, <2>2
  <2>4. Point(r) = [product |-> r.product, step |-> r.step, paused |-> r.state = "paused"]
    BY <1>2, PointOfWork
  <2>5. (r.state = "paused") \in BOOLEAN
    OBVIOUS
  <2>6. [product |-> r.product, step |-> r.step, paused |-> r.state = "paused"] \in Resumable!Points
    BY <2>1, <2>3, <2>5 DEF Resumable!Points
  <2> QED BY <2>4, <2>6 DEF Points
<1> QED BY <1>1, <1>2

LEMMA SavedTyped ==
  ASSUME NEW rs, SoundHistory(rs)
  PROVE  SavedIn(rs) \in Points
<1>1. CASE OpenRun(rs) = 0
  BY <1>1, LeftWork DEF Points
<1>2. CASE OpenRun(rs) # 0
  <2>1. /\ Sane(RestoreState(IncompleteWork(rs, Totals)))
        /\ Point(RestoreState(IncompleteWork(rs, Totals)).next) = SavedIn(rs)
    BY <1>2, RestoreIsSane
  <2> QED BY <2>1, PointTyped DEF Sane, Standing
<1> QED BY <1>1, <1>2

\* What follows a point is a move of the work.
LEMMA FollowsIsMove ==
  ASSUME NEW p, NEW r \in SoundReports, Follows(p, r)
  PROVE  Resumable!Moves(p, Point(r))
<1>1. Resumable!NoPoint = NoPoint
  BY DEF Resumable!NoPoint, NoPoint
<1>2. CASE Point(r) = NoPoint
  BY <1>1, <1>2 DEF Resumable!Moves
<1>3. CASE Point(r) # NoPoint
  <2>1. /\ r.state \in {"running", "paused"} /\ r.result # "defect"
    BY <1>3, NoPointOtherwise
  <2>2. /\ Point(r).product = r.product /\ Point(r).step = r.step
        /\ Point(r).paused = (r.state = "paused")
    BY <2>1, PointOfWork
  <2>3. Point(r) \in Resumable!Points
    BY <1>3, PointTyped DEF Points
  <2>4. CASE p = NoPoint
    BY <1>1, <2>1, <2>2, <2>3, <2>4 DEF Follows, Resumable!Moves
  <2>5. CASE p # NoPoint
    BY <1>1, <1>3, <2>1, <2>2, <2>5 DEF Follows, Resumable!Moves
  <2> QED BY <2>4, <2>5
<1> QED BY <1>2, <1>3

\* The points of reports are a sequence of points, and joined as the reports are.
LEMMA PointsTyped ==
  ASSUME NEW R \in Seq(SoundReports)
  PROVE  /\ PointsOf(R) \in Seq(Points) /\ Len(PointsOf(R)) = Len(R)
         /\ \A i \in 1..Len(R) : PointsOf(R)[i] = Point(R[i])
<1>1. DOMAIN R = 1..Len(R) /\ Len(R) \in Nat /\ \A i \in 1..Len(R) : R[i] \in SoundReports
  OBVIOUS
<1>2. PointsOf(R) = [i \in 1..Len(R) |-> Point(R[i])]
  BY <1>1 DEF PointsOf
<1>3. \A i \in 1..Len(R) : Point(R[i]) \in Points
  BY <1>1, PointTyped
<1> QED BY <1>1, <1>2, <1>3

LEMMA PointsJoined ==
  ASSUME NEW R \in Seq(SoundReports), NEW Q \in Seq(SoundReports)
  PROVE  PointsOf(R \o Q) = PointsOf(R) \o PointsOf(Q)
<1>1. /\ R \o Q \in Seq(SoundReports) /\ Len(R \o Q) = Len(R) + Len(Q)
      /\ \A i \in 1..Len(R) + Len(Q) : (R \o Q)[i] = IF i <= Len(R) THEN R[i] ELSE Q[i - Len(R)]
  BY ConcatProperties
<1> DEFINE A == PointsOf(R)
           B == PointsOf(Q)
           C == PointsOf(R \o Q)
<1>2. /\ A \in Seq(Points) /\ Len(A) = Len(R) /\ \A i \in 1..Len(R) : A[i] = Point(R[i])
      /\ B \in Seq(Points) /\ Len(B) = Len(Q) /\ \A i \in 1..Len(Q) : B[i] = Point(Q[i])
      /\ C \in Seq(Points) /\ Len(C) = Len(R) + Len(Q)
      /\ \A i \in 1..Len(R) + Len(Q) : C[i] = Point((R \o Q)[i])
  BY <1>1, PointsTyped
<1> HIDE DEF A, B, C
<1>3. /\ A \o B \in Seq(Points) /\ Len(A \o B) = Len(A) + Len(B)
      /\ \A i \in 1..Len(A) + Len(B) : (A \o B)[i] = IF i <= Len(A) THEN A[i] ELSE B[i - Len(A)]
  <2>1. A \in Seq(Points) /\ B \in Seq(Points)
    BY <1>2
  <2> QED BY <2>1, ConcatProperties
<1>4. Len(R) \in Nat /\ Len(Q) \in Nat
  OBVIOUS
<1>5. \A i \in 1..Len(R) + Len(Q) : C[i] = (A \o B)[i]
  <2> TAKE i \in 1..Len(R) + Len(Q)
  <2>1. CASE i <= Len(R)
    <3>1. i \in 1..Len(R)
      BY <1>4, <2>1
    <3> QED BY <1>1, <1>2, <1>3, <2>1, <3>1
  <2>2. CASE ~(i <= Len(R))
    <3>1. i - Len(R) \in 1..Len(Q)
      BY <1>4, <2>2
    <3> QED BY <1>1, <1>2, <1>3, <2>2, <3>1
  <2> QED BY <2>1, <2>2
<1>6. C = A \o B
  BY <1>2, <1>3, <1>5
<1> QED BY <1>6 DEF A, B, C

\* OnWire is the request on the wire, if there is one.
WireFound ==
  \/ OnWire = <<>> /\ \A i \in DOMAIN late : late[i].token # live
  \/ \E i \in DOMAIN late : late[i].token = live /\ OnWire = <<late[i].report>>

\* In a window the backlog is what the sender holds; after it, the request on the wire.
BacklogFound ==
  /\ ~intact => Backlog = <<>>
  /\ intact /\ Windowed => Backlog = PointsOf(sending \o queue)
  /\ intact /\ ~Windowed => Backlog = PointsOf(OnWire)

LEMMA OnWireIs == WireFound
<1> DEFINE wire == {i \in DOMAIN late : late[i].token = live}
<1>1. CASE wire = {}
  BY <1>1 DEF OnWire, WireFound
<1>2. CASE wire # {}
  <2> DEFINE i == CHOOSE i \in wire : TRUE
  <2>1. i \in wire
    BY <1>2
  <2>2. OnWire = <<late[i].report>>
    BY <1>2 DEF OnWire
  <2> HIDE DEF i
  <2> QED BY <2>1, <2>2 DEF WireFound
<1> QED BY <1>1, <1>2

LEMMA BacklogIs == ReportingInv => BacklogFound
<1> SUFFICES ASSUME ReportingInv PROVE BacklogFound
  OBVIOUS
<1>1. Shape /\ Link
  BY DEF ReportingInv
<1>2. /\ sending \in Seq(SoundReports) /\ queue \in Seq(SoundReports)
      /\ ~Windowed => queue = <<>> /\ sending = <<>>
  BY <1>1 DEF Shape
<1>3. PointsUnderway = PointsOf(OnWire \o sending \o queue)
  BY DEF PointsUnderway, PointsOf
<1>4. CASE intact /\ Windowed
  <2>1. \A i \in DOMAIN late : late[i].token # live
    BY <1>1, <1>4 DEF Link
  <2>2. OnWire = <<>>
    BY <1>1, <2>1, OnWireIs DEF WireFound
  <2>3. <<>> \o sending = sending
    BY <1>2
  <2> QED BY <1>3, <1>4, <2>2, <2>3 DEF Backlog, BacklogFound
<1>5. CASE intact /\ ~Windowed
  <2>1. OnWire \in Seq(SoundReports)
    <3>1. \A i \in DOMAIN late : <<late[i].report>> \in Seq(SoundReports)
      BY <1>1, Tokens
    <3>2. <<>> \in Seq(SoundReports)
      OBVIOUS
    <3> QED BY <1>1, <3>1, <3>2, OnWireIs DEF WireFound
  <2>2. OnWire \o <<>> \o <<>> = OnWire
    BY <2>1
  <2> QED BY <1>2, <1>3, <1>5, <2>2 DEF Backlog, BacklogFound
<1> QED BY <1>4, <1>5 DEF Backlog, BacklogFound

LEMMA FoundNext ==
  /\ WireFound'
  /\ ReportingInv' => BacklogFound'
  BY OnWireIs, BacklogIs, PTL

LEMMA OnePoint ==
  ASSUME NEW r \in SoundReports
  PROVE  PointsOf(<<r>>) = <<Point(r)>> /\ Point(r) \in Points
<1>1. DOMAIN <<r>> = 1..1 /\ <<r>>[1] = r
  OBVIOUS
<1>2. PointsOf(<<r>>) = [i \in 1..1 |-> Point(r)]
  BY <1>1 DEF PointsOf
<1>3. Point(r) \in Points
  BY PointTyped
<1>4. [i \in 1..1 |-> Point(r)] = <<Point(r)>>
  OBVIOUS
<1> QED BY <1>2, <1>3, <1>4

LEMMA NoPoints ==
  ASSUME NEW a \in SoundReports, NEW b \in SoundReports,
         Point(a) = NoPoint, Point(b) = NoPoint
  PROVE  PointsOf(<<a, b>>) = <<NoPoint, NoPoint>>
<1>1. DOMAIN <<a, b>> = 1..2 /\ <<a, b>>[1] = a /\ <<a, b>>[2] = b
  OBVIOUS
<1>2. \A i \in 1..2 : Point(<<a, b>>[i]) = NoPoint
  <2>1. \A i \in 1..2 : i = 1 \/ i = 2
    OBVIOUS
  <2> QED BY <1>1, <2>1
<1>3. PointsOf(<<a, b>>) = [i \in 1..2 |-> NoPoint]
  BY <1>1, <1>2 DEF PointsOf
<1>4. [i \in 1..2 |-> NoPoint] = <<NoPoint, NoPoint>>
  OBVIOUS
<1> QED BY <1>3, <1>4

LEMMA PointsTaken ==
  ASSUME NEW r \in SoundReports, NEW R \in Seq(SoundReports)
  PROVE  LET points == PointsOf(<<r>> \o R) IN
         points # <<>> /\ Head(points) = Point(r) /\ Tail(points) = PointsOf(R)
<1>1. <<r>> \in Seq(SoundReports)
  OBVIOUS
<1>2. PointsOf(<<r>> \o R) = <<Point(r)>> \o PointsOf(R)
  BY <1>1, OnePoint, PointsJoined
<1>3. PointsOf(R) \in Seq(Points) /\ Point(r) \in Points
  BY OnePoint, PointsTyped
<1> DEFINE rest == PointsOf(R)
           p == Point(r)
<1>4. rest \in Seq(Points) /\ p \in Points
  BY <1>3
<1> HIDE DEF rest, p
<1>5. <<p>> \o rest # <<>> /\ Head(<<p>> \o rest) = p /\ Tail(<<p>> \o rest) = rest
  BY <1>4
<1> QED BY <1>2, <1>5 DEF rest, p

-----------------------------------------------------------------------------
(* Every step is a step of ResumableWork, or leaves it alone               *)

Stutters == UNCHANGED <<WindowPoint, Backlog, SavedPoint, Windowed, intact>>

Maps == Resumable!Next \/ Stutters

LEMMA BrokenStep ==
  ASSUME ReportingInv', ~intact'
  PROVE  Resumable!Break
<1>1. Shape'
  BY DEF ReportingInv
<1>2. WindowPoint' \in Points
  <2>1. snapshot' \in SoundReports
    BY <1>1 DEF Shape, Standing
  <2>2. Point(snapshot') \in Points /\ NoPoint \in Points
    BY <2>1, PointTyped DEF Points
  <2> QED BY <2>2 DEF WindowPoint
<1>3. SavedPoint' \in Points
  <2>1. SoundHistory(runs')
    BY <1>1 DEF Shape
  <2>2. SavedIn(runs') \in Points
    BY <2>1, SavedTyped
  <2> QED BY <2>2 DEF SavedPoint, SavedIn
<1>4. Backlog' = <<>>
  BY FoundNext DEF BacklogFound
<1>5. Windowed' \in BOOLEAN
  BY DEF Windowed
<1>6. Points = Resumable!Points \cup {Resumable!NoPoint}
  BY DEF Points, NoPoint, Resumable!NoPoint
<1> QED BY <1>2, <1>3, <1>4, <1>5, <1>6 DEF Resumable!Break

\* A step that touches neither the work nor the reports.
LEMMA QuietStep ==
  ASSUME UNCHANGED <<snapshot, queue, sending, late, live, runs, intact>>, Windowed' = Windowed
  PROVE  Stutters
  BY DEF Stutters, WindowPoint, Backlog, PointsUnderway, OnWire, SavedPoint

\* An operation is progress, or was refused.
LEMMA OperationStep ==
  ASSUME ReportingInv, ReportingInv', Windowed, intact, intact',
         NEW operation, Sane(operation), Apply(operation), Continuing(snapshot, operation),
         UNCHANGED <<sending, phase, token, live, late, runs>>
  PROVE  Maps
<1> DEFINE R == sending \o queue
           pub == operation.published
<1>1. Windowed' /\ SavedPoint' = SavedPoint
  BY DEF Windowed, SavedPoint
<1>2. /\ snapshot' = operation.next /\ queue' = queue \o pub
      /\ sending' = sending
  BY DEF Apply
<1>3. sending \in Seq(SoundReports) /\ queue \in Seq(SoundReports) /\ pub \in Seq(SoundReports)
      /\ snapshot' \in SoundReports
  BY <1>2 DEF ReportingInv, Shape, Sane, Standing
<1>4. R \in Seq(SoundReports)
  BY <1>3
<1>5. sending' \o queue' = R \o pub
  <2> HIDE DEF pub
  <2>1. (sending \o queue) \o pub = sending \o (queue \o pub)
    BY <1>3, Joined
  <2> QED BY <1>2, <2>1
<1>6. Backlog = PointsOf(R)
  BY BacklogIs DEF BacklogFound
<1>7. Backlog' = PointsOf(R \o pub)
  BY <1>1, <1>5, FoundNext DEF BacklogFound
<1>8. WindowPoint = Point(snapshot) /\ WindowPoint' = Point(snapshot')
  BY <1>1 DEF WindowPoint
<1>9. WindowPoint' \in Resumable!Points \cup {Resumable!NoPoint} /\ Resumable!NoPoint = NoPoint
  BY <1>3, <1>8, PointTyped DEF Points, NoPoint, Resumable!NoPoint
<1> HIDE DEF R, pub
<1>10. PointsOf(R) \in Seq(Points)
  BY <1>4, PointsTyped
<1>11. CASE pub = <<>> /\ operation.next = snapshot
  <2>1. R \o pub = R
    BY <1>4, <1>11
  <2> QED BY <1>1, <1>2, <1>6, <1>7, <1>8, <1>11, <2>1 DEF Maps, Stutters
<1>12. CASE pub = <<operation.next>> /\ Follows(Point(snapshot), operation.next)
  <2>1. Backlog' = PointsOf(R) \o <<WindowPoint'>>
    BY <1>2, <1>3, <1>4, <1>7, <1>8, <1>12, OnePoint, PointsJoined
  <2>2. Backlog' = Append(Backlog, WindowPoint')
    <3> DEFINE p == WindowPoint'
               b == PointsOf(R)
    <3>1. b \in Seq(Points) /\ p \in Points
      BY <1>3, <1>8, <1>10, PointTyped
    <3> HIDE DEF p, b
    <3>2. b \o <<p>> = Append(b, p)
      BY <3>1, AppendIsConcat
    <3> QED BY <1>6, <2>1, <3>2 DEF p, b
  <2>3. Resumable!Moves(WindowPoint, WindowPoint')
    BY <1>2, <1>3, <1>8, <1>12, FollowsIsMove
  <2> QED BY <1>1, <1>9, <2>2, <2>3 DEF Maps, Resumable!Next, Resumable!Progress
<1>13. CASE \E e \in SoundReports :
              /\ pub = <<e, operation.next>>
              /\ Follows(Point(snapshot), e) /\ Point(e) = NoPoint
              /\ operation.next.state = "idle"
  <2>1. PICK e \in SoundReports : pub = <<e, snapshot'>> /\ Point(e) = NoPoint
    BY <1>2, <1>13
  <2>2. Point(snapshot') = NoPoint
    BY <1>2, <1>13, NoPointOtherwise
  <2>3. PointsOf(pub) = <<NoPoint, NoPoint>>
    BY <1>3, <2>1, <2>2, NoPoints
  <2>4. Backlog' = Backlog \o <<NoPoint, NoPoint>>
    BY <1>3, <1>4, <1>6, <1>7, <2>3, PointsJoined
  <2>5. Resumable!Moves(WindowPoint, WindowPoint')
    BY <1>8, <1>9, <2>2 DEF Resumable!Moves
  <2> QED BY <1>1, <1>8, <1>9, <2>2, <2>4, <2>5 DEF Maps, Resumable!Next, Resumable!Progress
<1>14. \/ pub = <<>> /\ operation.next = snapshot
       \/ pub = <<operation.next>> /\ Follows(Point(snapshot), operation.next)
       \/ \E e \in SoundReports :
              /\ pub = <<e, operation.next>>
              /\ Follows(Point(snapshot), e) /\ Point(e) = NoPoint
              /\ operation.next.state = "idle"
  BY DEF Continuing, pub
<1> QED BY <1>11, <1>12, <1>13, <1>14

LEMMA LoginStep ==
  ASSUME ReportingInv, ReportingInv', NEW product \in Products, Login(product)
  PROVE  Maps
<1>1. Windowed' /\ intact' /\ runs' = runs
  BY DEF Login, Windowed
<1>2. /\ snapshot' \in SoundReports /\ queue' = <<snapshot'>> /\ sending' = <<>>
      /\ Point(snapshot') = SavedIn(runs)
  BY LoginTakesUp DEF ReportingInv
<1>3. sending' \o queue' = <<snapshot'>>
  BY <1>2
<1>4. Backlog' = <<Point(snapshot')>>
  BY <1>1, <1>2, <1>3, FoundNext, OnePoint DEF BacklogFound
<1>5. WindowPoint' = Point(snapshot') /\ SavedPoint = SavedIn(runs) /\ SavedPoint' = SavedPoint
  BY <1>1 DEF WindowPoint, SavedPoint, SavedIn
<1> QED BY <1>1, <1>2, <1>4, <1>5 DEF Maps, Resumable!Next, Resumable!TakeUp

LEMMA SenderStep ==
  ASSUME ReportingInv, ReportingInv', intact, intact'
  PROVE  /\ Send => Maps
         /\ Answered => Maps
<1>1. queue \in Seq(SoundReports)
  BY DEF ReportingInv, Shape
<1>2. ASSUME Send PROVE Maps
  <2>1. /\ sending = <<>> /\ queue # <<>> /\ sending' = <<Head(queue)>> /\ queue' = Tail(queue)
        /\ UNCHANGED <<snapshot, phase, runs>> /\ Windowed
    BY <1>2 DEF Send, gateway
  <2>2. sending' \o queue' = sending \o queue
    BY <1>1, <2>1, QueueTaken
  <2>3. Windowed' = Windowed
    BY <2>1 DEF Windowed
  <2>4. Backlog' = Backlog
    BY <2>1, <2>2, <2>3, BacklogIs, FoundNext DEF BacklogFound
  <2> QED BY <2>1, <2>3, <2>4 DEF Maps, Stutters, WindowPoint, SavedPoint
<1>3. ASSUME Answered PROVE Maps
  <2> DEFINE r == sending[1]
  <2>1. /\ Windowed /\ sending # <<>> /\ sending' = <<>> /\ UNCHANGED <<snapshot, queue>>
    BY <1>3 DEF Answered
  <2>2. /\ r \in SoundReports /\ Recordable(r, token)
        /\ SavedIn(Recorded(runs, r)) = Point(r)
    BY <2>1, ChainHead
  <2>3. runs' = Recorded(runs, r) /\ phase' = phase
    BY <1>3, <2>2 DEF Answered
  <2>4. sending = <<r>>
    BY <2>1, Sent DEF ReportingInv
  <2> HIDE DEF r
  <2>5. Windowed' = Windowed
    BY <2>3 DEF Windowed
  <2>6. Backlog = PointsOf(<<r>> \o queue)
    BY <2>1, <2>4, BacklogIs DEF BacklogFound
  <2>7. Backlog # <<>> /\ Head(Backlog) = Point(r) /\ Tail(Backlog) = PointsOf(queue)
    BY <1>1, <2>2, <2>6, PointsTaken
  <2>8. Backlog' = PointsOf(queue)
    <3>1. sending' \o queue' = queue
      BY <1>1, <2>1
    <3> QED BY <2>1, <2>5, <3>1, FoundNext DEF BacklogFound
  <2>9. SavedPoint' = Point(r)
    BY <2>2, <2>3 DEF SavedPoint, SavedIn
  <2>10. WindowPoint' = WindowPoint
    BY <2>1, <2>5 DEF WindowPoint
  <2> QED BY <2>5, <2>7, <2>8, <2>9, <2>10 DEF Maps, Resumable!Next, Resumable!Save
<1> QED BY <1>2, <1>3

LEMMA NothingOnWire ==
  PointsOf(<<>>) = <<>>
<1>1. DOMAIN <<>> = 1..0
  OBVIOUS
<1>2. PointsOf(<<>>) = [i \in 1..0 |-> Point(<<>>[i])]
  BY <1>1 DEF PointsOf
<1>3. [i \in 1..0 |-> Point(<<>>[i])] = <<>>
  OBVIOUS
<1> QED BY <1>2, <1>3

LEMMA LateStep ==
  ASSUME ReportingInv, ReportingInv', intact, intact', NEW i \in DOMAIN late, LateRequest(i)
  PROVE  Maps
<1>1. Shape /\ Link
  BY DEF ReportingInv
<1>2. /\ UNCHANGED <<snapshot, queue, sending, phase, token, live, intact>>
      /\ late[i].token # live => runs' = runs
      /\ Recordable(late[i].report, late[i].token) => runs' = Recorded(runs, late[i].report)
  BY DEF LateRequest, jetson, history, Recordable
<1>3. /\ \A j \in DOMAIN late' : \E k \in DOMAIN late : k # i /\ late'[j] = late[k]
      /\ \A k \in DOMAIN late : k # i => \E j \in DOMAIN late' : late'[j] = late[k]
  BY <1>1, LateKeeps
<1>4. Windowed' = Windowed /\ WindowPoint' = WindowPoint
  BY <1>2 DEF Windowed, WindowPoint
<1>5. CASE Windowed
  <2>1. late[i].token # live
    BY <1>1, <1>5 DEF Link
  <2>2. runs' = runs
    BY <1>2, <2>1
  <2>3. Backlog' = Backlog
    BY <1>2, <1>4, <1>5, BacklogIs, FoundNext DEF BacklogFound
  <2> QED BY <1>2, <1>4, <2>2, <2>3 DEF Maps, Stutters, SavedPoint
<1>6. CASE ~Windowed
  <2>1. \A m \in DOMAIN late : late[m].token = live =>
           /\ Follows(SavedIn(runs), late[m].report)
           /\ \A n \in DOMAIN late : late[n].token = live => n = m
    BY <1>1, <1>6 DEF Link
  <2>2. Backlog = PointsOf(OnWire) /\ Backlog' = PointsOf(OnWire')
    BY <1>4, <1>6, BacklogIs, FoundNext DEF BacklogFound
  <2>3. CASE late[i].token = live
    <3> DEFINE r == late[i].report
    <3>1. r \in SoundReports /\ Follows(SavedIn(runs), r) /\ SoundHistory(runs)
      BY <1>1, <2>1, <2>3, Tokens DEF Shape
    <3>2. Recordable(r, late[i].token) /\ SavedIn(Recorded(runs, r)) = Point(r)
      BY <2>3, <3>1, RecordedPoint DEF Recordable
    <3>3. SavedPoint' = Point(r)
      BY <1>2, <3>2 DEF SavedPoint, SavedIn
    <3>4. OnWire = <<r>>
      BY <2>1, <2>3, OnWireIs DEF WireFound
    <3>5. OnWire' = <<>>
      BY <1>2, <1>3, <2>1, <2>3, FoundNext DEF WireFound
    <3> HIDE DEF r
    <3>6. Backlog = <<Point(r)>> /\ Backlog' = <<>>
      BY <2>2, <3>1, <3>4, <3>5, OnePoint, NothingOnWire
    <3>7. Backlog # <<>> /\ Head(Backlog) = Point(r) /\ Tail(Backlog) = <<>>
      BY <3>6
    <3> QED BY <1>4, <3>3, <3>6, <3>7 DEF Maps, Resumable!Next, Resumable!Save
  <2>4. CASE late[i].token # live
    <3>1. runs' = runs
      BY <1>2, <2>4
    <3>2. OnWire' = OnWire
      <4>1. CASE \A k \in DOMAIN late : late[k].token # live
        <5>1. \A j \in DOMAIN late' : late'[j].token # live'
          BY <1>2, <1>3, <4>1
        <5>2. OnWire = <<>>
          BY <4>1, OnWireIs DEF WireFound
        <5>3. OnWire' = <<>>
          BY <5>1, FoundNext DEF WireFound
        <5> QED BY <5>2, <5>3
      <4>2. CASE \E k \in DOMAIN late : late[k].token = live
        <5>1. PICK k \in DOMAIN late : late[k].token = live /\ OnWire = <<late[k].report>>
          BY <4>2, OnWireIs DEF WireFound
        <5>2. \E j \in DOMAIN late' : late'[j].token = live'
          BY <1>2, <1>3, <2>4, <5>1
        <5>3. PICK j \in DOMAIN late' : late'[j].token = live' /\ OnWire' = <<late'[j].report>>
          BY <5>2, FoundNext DEF WireFound
        <5>4. PICK m \in DOMAIN late : late'[j] = late[m]
          BY <1>3
        <5>5. m = k
          BY <1>2, <2>1, <5>1, <5>3, <5>4
        <5> QED BY <5>1, <5>3, <5>4, <5>5
      <4> QED BY <4>1, <4>2
    <3>3. Backlog' = Backlog
      BY <2>2, <3>2
    <3> QED BY <1>2, <1>4, <3>1, <3>3 DEF Maps, Stutters, SavedPoint
  <2> QED BY <2>3, <2>4
<1> QED BY <1>5, <1>6

LEMMA EndingStep ==
  ASSUME ReportingInv, ReportingInv', intact, intact'
  PROVE  /\ Close => Maps
         /\ Crash => Maps
         /\ GatewayRestart => Maps
<1>1. Shape /\ Link /\ queue \in Seq(SoundReports)
  BY DEF ReportingInv, Shape
<1>2. ASSUME Windowed, Quit, live' \in {0, live} PROVE Maps
  <2>1. phase' = "out" /\ UNCHANGED <<runs, token>>
    BY <1>2 DEF Quit
  <2>2. ~Windowed' /\ WindowPoint' = NoPoint /\ SavedPoint' = SavedPoint
    BY <2>1 DEF Windowed, WindowPoint, SavedPoint
  <2>3. live = token /\ \A i \in DOMAIN late : late[i].token # live
    BY <1>1, <1>2 DEF Link
  <2>4. \A i \in DOMAIN late' :
              \/ i \in DOMAIN late /\ late'[i] = late[i]
              \/ /\ i = Len(late) + 1 /\ sending # <<>>
                 /\ late'[i].report = sending[1] /\ late'[i].token = token
    BY <1>1, <1>2, QuitKeeps
  <2>5. Backlog' = PointsOf(OnWire')
    BY <2>2, FoundNext DEF BacklogFound
  <2>6. Backlog' = <<>> \/ (Backlog # <<>> /\ Backlog' = <<Head(Backlog)>>)
    <3>1. CASE OnWire' = <<>>
      BY <2>5, <3>1, NothingOnWire
    <3>2. CASE OnWire' # <<>>
      <4>1. PICK i \in DOMAIN late' : late'[i].token = live' /\ OnWire' = <<late'[i].report>>
        BY <3>2, FoundNext DEF WireFound
      <4>2. late'[i].token # 0
        BY <1>1, <1>2, <2>4, Tokens
      <4>3. live' = live
        BY <1>2, <4>1, <4>2
      <4>4. sending # <<>> /\ late'[i].report = sending[1]
        BY <2>3, <2>4, <4>1, <4>3
      <4> DEFINE r == sending[1]
      <4>5. r \in SoundReports /\ sending = <<r>> /\ OnWire' = <<r>>
        BY <1>1, <4>1, <4>4, Sent
      <4> HIDE DEF r
      <4>6. Backlog = PointsOf(<<r>> \o queue)
        BY <1>2, <4>5, BacklogIs DEF BacklogFound
      <4>7. Backlog # <<>> /\ Head(Backlog) = Point(r)
        BY <1>1, <4>5, <4>6, PointsTaken
      <4>8. Backlog' = <<Point(r)>>
        BY <2>5, <4>5, OnePoint
      <4> QED BY <4>7, <4>8
    <3> QED BY <3>1, <3>2
  <2>7. Resumable!NoPoint = NoPoint
    BY DEF Resumable!NoPoint, NoPoint
  <2>8. Windowed' = FALSE
    BY <2>2 DEF Windowed
  <2> QED BY <2>2, <2>6, <2>7, <2>8 DEF Maps, Resumable!Next, Resumable!Leave
<1>3. ASSUME Close PROVE Maps
  BY <1>2, <1>3 DEF Close
<1>4. ASSUME Crash PROVE Maps
  BY <1>2, <1>4 DEF Crash
<1>5. ASSUME GatewayRestart PROVE Maps
  <2>1. late' = <<>> /\ ~Windowed /\ UNCHANGED <<phase, snapshot, runs>>
    BY <1>5 DEF GatewayRestart, jetson
  <2>2. ~Windowed' /\ WindowPoint' = NoPoint /\ SavedPoint' = SavedPoint
    BY <2>1 DEF Windowed, WindowPoint, SavedPoint
  <2>3. DOMAIN late' = {}
    BY <2>1
  <2>4. OnWire' = <<>>
    BY <2>3, FoundNext DEF WireFound
  <2>5. Backlog' = <<>>
    BY <2>2, <2>4, FoundNext, NothingOnWire DEF BacklogFound
  <2>6. Resumable!NoPoint = NoPoint
    BY DEF Resumable!NoPoint, NoPoint
  <2>7. Windowed' = FALSE
    BY <2>2 DEF Windowed
  <2> QED BY <2>2, <2>5, <2>6, <2>7 DEF Maps, Resumable!Next, Resumable!Leave
<1> QED BY <1>3, <1>4, <1>5

LEMMA OperationsStep ==
  ASSUME ReportingInv, ReportingInv', intact, intact'
  PROVE  /\ \A product \in Products : ChooseProduct(product) => Maps
         /\ \A product \in Products : ProductsFetched(product) => Maps
         /\ StartWork => Maps
         /\ StrayStart => Maps
         /\ Operate => Maps
         /\ \A verdict \in {"PASS", "FAIL"} : HandleResult(verdict) => Maps
<1>1. Standing(snapshot)
  BY DEF ReportingInv, Shape
<1>2. ASSUME NEW product \in Products, ChooseProduct(product) PROVE Maps
  <2>1. /\ Apply(Configure(product, Totals[product])) /\ Windowed /\ snapshot.state = "idle"
        /\ UNCHANGED <<sending, phase, token, live, late, runs>>
    BY <1>2 DEF ChooseProduct, gateway, Windowed
  <2> QED BY <2>1, ConfigureContinues, OperationStep
<1>3. ASSUME NEW product \in Products, ProductsFetched(product) PROVE Maps
  <2>1. /\ Apply(Configure(product, Totals[product])) /\ Windowed /\ snapshot.state = "idle"
        /\ UNCHANGED <<sending, phase, token, live, late, runs>>
    BY <1>3 DEF ProductsFetched, gateway
  <2> QED BY <2>1, ConfigureContinues, OperationStep
<1>4. ASSUME StartWork PROVE Maps
  <2>1. /\ Apply(Start(snapshot)) /\ Windowed /\ snapshot.state = "idle"
        /\ UNCHANGED <<sending, phase, token, live, late, runs>>
    BY <1>4 DEF StartWork, gateway
  <2>2. Sane(Start(snapshot)) /\ Continuing(snapshot, Start(snapshot))
    BY <1>1, <2>1, StartIsSane
  <2> QED BY <2>1, <2>2, OperationStep
<1>5. ASSUME StrayStart PROVE Maps
  <2>1. /\ Apply(Start(snapshot)) /\ Windowed /\ snapshot.state # "running"
        /\ UNCHANGED <<sending, phase, token, live, late, runs>>
    BY <1>5 DEF StrayStart, gateway
  <2>2. Sane(Start(snapshot)) /\ Continuing(snapshot, Start(snapshot))
    BY <1>1, <2>1, StartIsSane
  <2> QED BY <2>1, <2>2, OperationStep
<1>6. ASSUME Operate PROVE Maps
  <2>1. /\ Windowed /\ UNCHANGED <<sending, phase, token, live, late, runs>>
        /\ \/ Apply(Pause(snapshot)) \/ Apply(Resume(snapshot))
           \/ Apply(RegisterDefect(snapshot))
    BY <1>6 DEF Operate, gateway
  <2>2. CASE Apply(Pause(snapshot))
    BY <1>1, <2>1, <2>2, PauseIsSane, OperationStep
  <2>3. CASE Apply(Resume(snapshot))
    BY <1>1, <2>1, <2>3, ResumeIsSane, OperationStep
  <2>4. CASE Apply(RegisterDefect(snapshot))
    BY <1>1, <2>1, <2>4, RegisterDefectIsSane, OperationStep
  <2> QED BY <2>1, <2>2, <2>3, <2>4
<1>7. ASSUME NEW verdict \in {"PASS", "FAIL"}, HandleResult(verdict) PROVE Maps
  <2>1. /\ Apply(ApplyJudgement(snapshot, verdict)) /\ Windowed
        /\ UNCHANGED <<sending, phase, token, live, late, runs>>
    BY <1>7 DEF HandleResult, gateway
  <2> QED BY <1>1, <2>1, JudgementIsSane, OperationStep
<1> QED BY <1>2, <1>3, <1>4, <1>5, <1>6, <1>7

\* Only a login restores the link.
LEMMA StaysBroken ==
  ASSUME Next, intact', ~(\E product \in Products : Login(product)), ~TimedOut
  PROVE  intact
  BY DEF Next, ChooseProduct, ProductsFetched, RefreshProducts, StartWork, StrayStart,
         Operate, RequestJudgement, HandleResult, InferenceFails, Send, Answered, Fail,
         LateRequest, Close, Crash, Quit, Disconnected, GatewayRestart, jetson, history

LEMMA NextMaps ==
  ASSUME ReportingInv, ReportingInv', Next
  PROVE  Maps
<1>1. CASE ~intact'
  BY <1>1, BrokenStep DEF Maps, Resumable!Next
<1>2. CASE \E product \in Products : Login(product)
  BY <1>2, LoginStep
<1>3. CASE TimedOut
  BY <1>1, <1>3 DEF TimedOut, Fail
<1>4. CASE intact' /\ ~TimedOut /\ ~(\E product \in Products : Login(product))
  <2>1. intact
    BY <1>4, StaysBroken
  <2>2. CASE \E product \in Products : ChooseProduct(product) \/ ProductsFetched(product)
    BY <1>4, <2>1, <2>2, OperationsStep
  <2>3. CASE StartWork \/ StrayStart \/ Operate
    BY <1>4, <2>1, <2>3, OperationsStep
  <2>4. CASE \E verdict \in {"PASS", "FAIL"} : HandleResult(verdict)
    BY <1>4, <2>1, <2>4, OperationsStep
  <2>5. CASE RefreshProducts \/ RequestJudgement \/ InferenceFails \/ Disconnected
    <3>1. /\ UNCHANGED <<snapshot, queue, sending, late, live, runs, intact>>
          /\ Windowed' = Windowed
      BY <2>5 DEF RefreshProducts, RequestJudgement, InferenceFails, Disconnected, gateway,
                  history, Windowed
    <3> QED BY <3>1, QuietStep DEF Maps
  <2>6. CASE Send \/ Answered
    BY <1>4, <2>1, <2>6, SenderStep
  <2>7. CASE \E i \in DOMAIN late : LateRequest(i)
    BY <1>4, <2>1, <2>7, LateStep
  <2>8. CASE Close \/ Crash \/ GatewayRestart
    BY <1>4, <2>1, <2>8, EndingStep
  <2> QED BY <1>4, <2>2, <2>3, <2>4, <2>5, <2>6, <2>7, <2>8 DEF Next
<1> QED BY <1>1, <1>2, <1>3, <1>4

LEMMA InitMaps == Init => Resumable!Init
<1> SUFFICES ASSUME Init PROVE Resumable!Init
  OBVIOUS
<1>1. ReportingInv
  BY ShapeInit, LinkInit DEF ReportingInv
<1>2. phase = "out" /\ intact = TRUE /\ runs = EmptyDict /\ late = <<>>
  BY DEF Init
<1>3. ~Windowed /\ WindowPoint = NoPoint
  BY <1>2 DEF Windowed, WindowPoint
<1>4. DOMAIN late = {}
  BY <1>2
<1>5. OnWire = <<>>
  BY <1>4, OnWireIs DEF WireFound
<1>6. Backlog = <<>>
  BY <1>1, <1>2, <1>3, <1>5, BacklogIs, NothingOnWire DEF BacklogFound
<1>7. SavedPoint = NoPoint
  <2>1. SoundHistory(runs) /\ DOMAIN runs = {}
    BY <1>1, <1>2 DEF ReportingInv, Shape, EmptyDict
  <2>2. OpenRun(runs) = 0
    BY <2>1, UnfinishedRun
  <2>3. SavedIn(runs) = NoPoint
    BY <2>1, <2>2, LeftWork
  <2> QED BY <2>3 DEF SavedPoint, SavedIn
<1>8. Resumable!NoPoint = NoPoint
  BY DEF Resumable!NoPoint, NoPoint
<1>9. Windowed = FALSE
  BY <1>3 DEF Windowed
<1> QED BY <1>2, <1>3, <1>6, <1>7, <1>8, <1>9 DEF Resumable!Init

\* The system keeps the promise of ResumableWork, for any products, any number of
\* reports, logins and faults: while the link is intact the tables follow the worker in
\* order and without gaps, and a login takes up the point the tables hold.
THEOREM WorkIsTakenUp == Spec => TakesUpWork
<1>1. ReportingInv /\ ReportingInv' /\ [Next]_vars => [Resumable!Next]_(Resumable!vars)
  <2> SUFFICES ASSUME ReportingInv, ReportingInv', [Next]_vars
               PROVE  Resumable!Next \/ UNCHANGED Resumable!vars
    OBVIOUS
  <2>1. CASE Next
    BY <2>1, NextMaps DEF Maps, Stutters, Resumable!vars
  <2>2. CASE UNCHANGED vars
    <3>1. /\ UNCHANGED <<snapshot, queue, sending, late, live, runs, intact>>
          /\ Windowed' = Windowed
      BY <2>2 DEF vars, jetson, gateway, history, Windowed
    <3> QED BY <3>1, QuietStep DEF Stutters, Resumable!vars
  <2> QED BY <2>1, <2>2
<1> QED BY <1>1, InitMaps, ReportingInvariant, PTL DEF Spec, TakesUpWork, Resumable!Spec

-----------------------------------------------------------------------------
(* Step by step: what the tables make of reports in order                  *)

\* The reports still to come find the tables where they need them.
LEMMA RecordedSettles ==
  ASSUME NEW rs, SoundHistory(rs), NEW r \in SoundReports
  PROVE  /\ FitsOpenRun(rs, r) => Settled(Recorded(rs, r), r)
         /\ ~FitsOpenRun(rs, r) => Settled(rs, r)
<1>1. ASSUME ~FitsOpenRun(rs, r) PROVE Settled(rs, r)
  <2>1. OpenRun(rs) \in DOMAIN rs /\ rs[OpenRun(rs)].product # r.product
    BY <1>1 DEF FitsOpenRun
  <2>2. 0 \notin DOMAIN rs
    BY DEF SoundHistory, Healthy
  <2> QED BY <2>1, <2>2 DEF Settled, Reached
<1>2. ASSUME FitsOpenRun(rs, r), Point(r) # NoPoint
      PROVE  Reached(Recorded(rs, r), r.product, r.step)
  <2> DEFINE next == Recorded(rs, r)
  <2>1. r.state \in {"running", "paused"} /\ r.result # "defect"
    BY <1>2, NoPointOtherwise
  <2>2. Reportable(r)
    BY <2>1, SoundIsReportable
  <2>3. Healthy(next) /\ Continued(rs, r, next)
    BY <2>2, RecordedHistory DEF SoundHistory
  <2> HIDE DEF next
  <2>4. PICK i \in DOMAIN next : \E run : Advanced(run, r, next[i])
    BY <2>3 DEF Continued
  <2>5. next[i].result = "open" /\ r.step \in DOMAIN next[i].steps
    BY <2>1, <2>4 DEF Advanced
  <2>6. 0 \notin DOMAIN next /\ next[i] \in Runs
    BY <2>3 DEF Healthy, Kept
  <2>7. OpenRun(next) = i /\ i # 0
    BY <2>3, <2>5, <2>6, OpenRunFound
  <2>8. r.step <= LatestStep(next[i])
    BY <2>5, <2>6, LatestStepIsTop
  <2> QED BY <2>7, <2>8 DEF Reached, next
<1> QED BY <1>1, <1>2 DEF Settled

\* The run that is worked on has rows up to its latest step.
LEMMA RunSoFar ==
  ASSUME NEW rs, SoundHistory(rs), StepByStep(rs), NEW r \in SoundReports, r.state # "idle",
         NEW i, NEW run, RunToWorkOn(rs, r, i, run)
  PROVE  /\ run \in Runs /\ LatestStep(run) \in Nat
         /\ \A n \in DOMAIN run.steps : n <= LatestStep(run)
         /\ Passed(run, LatestStep(run) - 1)
         /\ OpenRun(rs) = 0 => DOMAIN run.steps = {} /\ run.product = r.product
         /\ OpenRun(rs) # 0 => /\ run = rs[OpenRun(rs)] /\ run.product \in Products
                               /\ LatestStep(run) \in DOMAIN run.steps
                               /\ LatestStep(run) \in 1..Totals[run.product]
<1>1. r.product \in Products
  BY SoundReport
<1>2. 0 \notin DOMAIN rs
  BY DEF SoundHistory, Healthy
<1>3. CASE i \in DOMAIN rs /\ OpenRun(rs) = i /\ run = rs[i]
  <2>1. OpenRun(rs) # 0
    BY <1>2, <1>3
  <2>2. /\ run \in Runs /\ run.result = "open" /\ run.product \in Products
        /\ LatestStep(run) \in DOMAIN run.steps
        /\ LatestStep(run) \in 1..Totals[run.product]
    BY <1>3, <2>1, UnfinishedRun
  <2>3. Passed(run, LatestStep(run) - 1)
    BY <1>3, <2>2 DEF StepByStep
  <2>4. LatestStep(run) \in Nat /\ \A n \in DOMAIN run.steps : n <= LatestStep(run)
    BY <2>2, LatestStepIsTop
  <2> QED BY <1>3, <2>1, <2>2, <2>3, <2>4
<1>4. CASE i \notin DOMAIN rs /\ OpenRun(rs) = 0 /\ run = NewRun(r.product)
  <2>1. Worked(run) /\ DOMAIN run.steps = {} /\ run.product = r.product
    BY <1>1, <1>4, NewRunIsWorked DEF NewRun
  <2>2. run \in Runs
    BY <2>1 DEF Worked
  <2>3. LatestStep(run) = 0
    BY <2>1, <2>2, LatestStepIsTop
  <2>4. Passed(run, LatestStep(run) - 1)
    <3>1. 1..(0 - 1) = {}
      OBVIOUS
    <3> QED BY <2>3, <3>1 DEF Passed
  <2> QED BY <1>4, <2>1, <2>2, <2>3, <2>4
<1> QED BY <1>3, <1>4 DEF RunToWorkOn

\* A report no step is missing before leaves a history without gaps.
LEMMA RecordedStepByStep ==
  ASSUME NEW rs, SoundHistory(rs), StepByStep(rs), NEW r \in SoundReports,
         FitsOpenRun(rs, r), Prepared(rs, r)
  PROVE  StepByStep(Recorded(rs, r))
<1> DEFINE next == Recorded(rs, r)
<1>1. CASE r.state = "idle"
  BY <1>1 DEF Recorded
<1>2. CASE r.state # "idle"
  <2>1. Reportable(r) /\ r.step \in Nat \ {0}
    BY <1>2, SoundIsReportable DEF Reportable
  <2>2. Healthy(next) /\ Continued(rs, r, next)
    BY <2>1, RecordedHistory DEF SoundHistory
  <2> HIDE DEF next
  <2>3. PICK i \in DOMAIN next : \E run :
          /\ DOMAIN next = DOMAIN rs \cup {i}
          /\ RunToWorkOn(rs, r, i, run)
          /\ Advanced(run, r, next[i])
          /\ \A j \in DOMAIN rs : j # i => next[j] = rs[j] /\ rs[j].result # "open"
    BY <2>2 DEF Continued
  <2>4. PICK run :
          /\ DOMAIN next = DOMAIN rs \cup {i}
          /\ RunToWorkOn(rs, r, i, run)
          /\ Advanced(run, r, next[i])
          /\ \A j \in DOMAIN rs : j # i => next[j] = rs[j] /\ rs[j].result # "open"
    BY <2>3
  <2> DEFINE latest == LatestStep(run)
             top == LatestStep(next[i])
  <2>5. /\ run \in Runs /\ latest \in Nat
        /\ \A n \in DOMAIN run.steps : n <= latest
        /\ Passed(run, latest - 1)
        /\ OpenRun(rs) = 0 => DOMAIN run.steps = {} /\ run.product = r.product
        /\ OpenRun(rs) # 0 => /\ run = rs[OpenRun(rs)] /\ run.product \in Products
                              /\ latest \in DOMAIN run.steps
                              /\ latest \in 1..Totals[run.product]
    BY <1>2, <2>4, RunSoFar
  <2>6. /\ next[i].product = run.product
        /\ DOMAIN next[i].steps = DOMAIN run.steps \cup {r.step}
        /\ next[i].result = IF r.result = "defect" THEN "defect"
                            ELSE IF r.state = "complete" THEN "pass" ELSE "open"
        /\ KeepsVerdicts(next[i], run)
        /\ Passing(r) => HasPassed(next[i], PassedStep(latest, r))
    BY <2>4 DEF Advanced
  <2>7. next[i] \in Runs
    BY <2>2 DEF Healthy, Kept
  <2>8. /\ top \in Nat /\ top \in {0} \cup DOMAIN next[i].steps
        /\ \A n \in DOMAIN next[i].steps : n <= top
    BY <2>7, LatestStepIsTop
  <2>9. \A n : HasPassed(run, n) => HasPassed(next[i], n)
    BY <2>6 DEF KeepsVerdicts, HasPassed
  <2>10. \A n \in 1..latest - 1 : n \in DOMAIN next[i].steps /\ HasPassed(next[i], n)
    BY <2>5, <2>6, <2>9 DEF Passed
  <2>11. OpenRun(rs) # 0 => run.product = r.product
    <3>1. OpenRun(rs) # 0 => OpenRun(rs) \in DOMAIN rs
      BY UnfinishedRun
    <3> QED BY <1>2, <2>5, <3>1 DEF FitsOpenRun
  <2>12. Reached(rs, r.product, r.step) => OpenRun(rs) # 0 /\ r.step <= latest
    BY <2>5, <2>11 DEF Reached
  <2>13. Reached(rs, r.product, r.step - 1) => OpenRun(rs) # 0 /\ r.step - 1 <= latest
    BY <2>5, <2>11 DEF Reached
  <2> HIDE DEF latest, top
  <2>14. ASSUME next[i].result = "pass" PROVE Passed(next[i], Totals[next[i].product])
    <3>1. r.state = "complete" /\ r.result # "defect"
      BY <2>6, <2>14
    <3>2. OpenRun(rs) # 0 /\ r.step <= latest /\ r.result = "pass"
      BY <3>1, <2>12, <1>2 DEF Prepared
    <3>3. r.step = Totals[r.product]
      BY <3>1, SoundReport
    <3>4. latest = r.step
      BY <2>1, <2>5, <2>11, <3>2, <3>3
    <3>5. HasPassed(next[i], latest)
      BY <2>5, <2>6, <3>2, <3>4 DEF Passing, PassedStep
    <3>6. latest \in DOMAIN next[i].steps
      BY <2>6, <3>4
    <3>7. \A n \in 1..latest : n \in 1..latest - 1 \/ n = latest
      BY <2>5
    <3> QED BY <2>6, <2>10, <2>11, <3>2, <3>3, <3>4, <3>5, <3>6, <3>7 DEF Passed
  <2>15. ASSUME next[i].result = "open" PROVE Passed(next[i], top - 1)
    <3>1. r.state # "complete"
      BY <2>6, <2>15
    <3>2. top \in DOMAIN run.steps \cup {r.step}
      BY <2>1, <2>6, <2>8
    <3>3. \/ r.step = 1
          \/ r.step <= latest
          \/ r.step = latest + 1 /\ r.event = "step_pass" /\ OpenRun(rs) # 0
      <4>1. \/ r.step = 1 \/ r.step <= latest
            \/ r.step - 1 <= latest /\ r.event = "step_pass" /\ OpenRun(rs) # 0
        BY <1>2, <2>12, <2>13, <3>1 DEF Prepared
      <4> QED BY <2>1, <2>5, <4>1
    <3>4. CASE r.step = 1 \/ r.step <= latest
      <4>1. top - 1 <= latest - 1 \/ top = 1
        BY <2>1, <2>5, <2>8, <3>2, <3>4
      <4>2. \A n \in 1..top - 1 : n \in 1..latest - 1
        BY <2>5, <2>8, <4>1
      <4> QED BY <2>10, <4>2 DEF Passed
    <3>5. CASE r.step = latest + 1 /\ r.event = "step_pass" /\ OpenRun(rs) # 0
      <4>1. latest \in 1..Totals[run.product] /\ latest \in DOMAIN run.steps
        BY <2>5, <3>5
      <4>2. HasPassed(next[i], latest)
        BY <2>1, <2>5, <2>6, <3>5, <4>1 DEF Passing, PassedStep
      <4>3. latest \in DOMAIN next[i].steps
        BY <2>6, <4>1
      <4>4. top - 1 <= latest
        BY <2>1, <2>5, <2>8, <3>2, <3>5
      <4>5. \A n \in 1..top - 1 : n \in 1..latest - 1 \/ n = latest
        BY <2>5, <2>8, <4>4
      <4> QED BY <2>10, <4>2, <4>3, <4>5 DEF Passed
    <3> QED BY <3>3, <3>4, <3>5
  <2>16. ASSUME NEW j \in DOMAIN next
         PROVE  /\ next[j].result = "pass" => Passed(next[j], Totals[next[j].product])
                /\ next[j].result = "open" => Passed(next[j], LatestStep(next[j]) - 1)
    <3>1. CASE j = i
      BY <2>14, <2>15, <3>1 DEF top
    <3>2. CASE j # i
      <4>1. j \in DOMAIN rs /\ next[j] = rs[j]
        BY <2>4, <3>2
      <4> QED BY <4>1 DEF StepByStep
    <3> QED BY <3>1, <3>2
  <2> QED BY <2>16 DEF StepByStep, next
<1> QED BY <1>1, <1>2

\* What may follow a settled report is prepared for.
LEMMA SettledPrepares ==
  ASSUME NEW rs, NEW a \in SoundReports, NEW b \in SoundReports, Settled(rs, a), Succeeds(a, b)
  PROVE  Prepared(rs, b)
<1>1. CASE b.state = "idle" \/ (b.step = 1 /\ b.state # "complete")
  BY <1>1 DEF Prepared
<1>2. CASE /\ Point(a) # NoPoint /\ a.product = b.product
           /\ \/ b.step = a.step /\ (b.state = "complete" => b.result = "pass")
              \/ b.step = a.step + 1 /\ b.event = "step_pass" /\ b.state # "complete"
  <2>1. Reached(rs, b.product, a.step)
    BY <1>2 DEF Settled
  <2>2. a.step \in Nat
    BY DEF SoundReports, Snapshots
  <2>3. CASE b.step = a.step /\ (b.state = "complete" => b.result = "pass")
    BY <2>1, <2>3 DEF Prepared
  <2>4. CASE b.step = a.step + 1 /\ b.event = "step_pass" /\ b.state # "complete"
    <3>1. b.step - 1 = a.step
      BY <2>2, <2>4
    <3> QED BY <2>1, <2>4, <3>1 DEF Prepared
  <2> QED BY <1>2, <2>3, <2>4
<1> QED BY <1>1, <1>2 DEF Succeeds

LEMMA OrderGrows ==
  ASSUME NEW rs, NEW R \in Seq(SoundReports), NEW s \in SoundReports, NEW r \in SoundReports,
         InOrder(rs, R, s), Succeeds(s, r)
  PROVE  InOrder(rs, Append(R, r), r)
<1> DEFINE A == Append(R, r)
<1>1. /\ A # <<>> /\ Len(A) = Len(R) + 1 /\ A[Len(A)] = r
      /\ \A i \in 1..Len(R) : A[i] = R[i]
      /\ Len(R) \in Nat /\ (R = <<>> <=> Len(R) = 0)
  OBVIOUS
<1> HIDE DEF A
<1>2. Prepared(rs, A[1])
  <2>1. CASE R = <<>>
    BY <1>1, <2>1, SettledPrepares DEF InOrder
  <2>2. CASE R # <<>>
    BY <1>1, <2>2 DEF InOrder
  <2> QED BY <2>1, <2>2
<1>3. ASSUME NEW i \in 1..Len(A) - 1 PROVE Succeeds(A[i], A[i + 1])
  <2>1. CASE i < Len(R)
    BY <1>1, <1>3, <2>1 DEF InOrder
  <2>2. CASE i = Len(R)
    <3>1. R # <<>> /\ R[Len(R)] = s
      BY <1>1, <1>3, <2>2 DEF InOrder
    <3> QED BY <1>1, <1>3, <2>2, <3>1
  <2> QED BY <1>1, <1>3, <2>1, <2>2
<1> QED BY <1>1, <1>2, <1>3 DEF InOrder, A

LEMMA OrderShrinks ==
  ASSUME NEW rs, NEW R \in Seq(SoundReports), NEW r \in SoundReports, NEW s,
         InOrder(rs, <<r>> \o R, s)
  PROVE  /\ Prepared(rs, r)
         /\ \A next : Settled(next, r) => InOrder(next, R, s)
<1> DEFINE A == <<r>> \o R
<1>1. /\ A # <<>> /\ Len(A) = Len(R) + 1 /\ A[1] = r
      /\ \A i \in 1..Len(R) : A[i + 1] = R[i] /\ R[i] \in SoundReports
      /\ Len(R) \in Nat /\ (R = <<>> <=> Len(R) = 0)
  OBVIOUS
<1>2. InOrder(rs, A, s)
  OBVIOUS
<1> HIDE DEF A
<1>3. Prepared(rs, r) /\ A[Len(A)] = s
  BY <1>1, <1>2 DEF InOrder
<1>4. ASSUME NEW next, Settled(next, r) PROVE InOrder(next, R, s)
  <2>1. R = <<>> => Settled(next, s)
    BY <1>1, <1>3, <1>4
  <2>2. R # <<>> => Prepared(next, R[1]) /\ R[Len(R)] = s
    <3> SUFFICES ASSUME R # <<>> PROVE Prepared(next, R[1]) /\ R[Len(R)] = s
      OBVIOUS
    <3>1. 1 \in 1..Len(A) - 1 /\ 1 \in 1..Len(R) /\ Len(R) \in 1..Len(R)
      BY <1>1
    <3>2. Succeeds(A[1], A[1 + 1])
      BY <1>2, <3>1 DEF InOrder
    <3>3. Succeeds(r, R[1]) /\ R[1] \in SoundReports
      BY <1>1, <3>1, <3>2
    <3> QED BY <1>1, <1>3, <1>4, <3>1, <3>3, SettledPrepares
  <2>3. ASSUME NEW i \in 1..Len(R) - 1 PROVE Succeeds(R[i], R[i + 1])
    <3>1. i + 1 \in 1..Len(A) - 1 /\ i \in 1..Len(R) /\ i + 1 \in 1..Len(R)
      BY <1>1, <2>3
    <3>2. Succeeds(A[i + 1], A[(i + 1) + 1])
      BY <1>2, <3>1 DEF InOrder
    <3> QED BY <1>1, <3>1, <3>2
  <2> QED BY <2>1, <2>2, <2>3 DEF InOrder
<1> QED BY <1>3, <1>4

LEMMA OrderExtended ==
  ASSUME NEW s, Standing(s), NEW operation, Sane(operation), Orderly(s, operation),
         NEW rs, NEW R \in Seq(SoundReports), InOrder(rs, R, s)
  PROVE  InOrder(rs, R \o operation.published, operation.next)
<1> DEFINE x == operation.next
<1>1. x \in SoundReports /\ s \in SoundReports
  BY DEF Sane, Standing
<1>2. CASE operation.published = <<>> /\ x = s
  BY <1>2
<1>3. CASE operation.published = <<x>> /\ Succeeds(s, x)
  <2> HIDE DEF x
  <2>1. R \o <<x>> = Append(R, x)
    BY <1>1
  <2>2. InOrder(rs, Append(R, x), x)
    BY <1>1, <1>3, OrderGrows
  <2> QED BY <1>3, <2>1, <2>2 DEF x
<1>4. ASSUME NEW e \in SoundReports, operation.published = <<e, x>>,
             Succeeds(s, e), x.state = "idle"
      PROVE  InOrder(rs, R \o operation.published, x)
  <2> HIDE DEF x
  <2>1. R \o <<e, x>> = Append(Append(R, e), x) /\ Append(R, e) \in Seq(SoundReports)
    BY <1>1
  <2>2. InOrder(rs, Append(R, e), e)
    BY <1>1, <1>4, OrderGrows
  <2>3. Succeeds(e, x)
    BY <1>4 DEF Succeeds
  <2>4. InOrder(rs, Append(Append(R, e), x), x)
    BY <1>1, <2>1, <2>2, <2>3, OrderGrows
  <2> QED BY <1>4, <2>1, <2>4
<1> QED BY <1>2, <1>3, <1>4 DEF Orderly

-----------------------------------------------------------------------------
(* Without faults                                                          *)

LEMMA OperationCalm ==
  ASSUME Shape, Calm, Windowed, NEW operation, Sane(operation), Apply(operation),
         Orderly(snapshot, operation),
         UNCHANGED <<sending, phase, token, live, late, runs, faults>>
  PROVE  Calm'
<1> SUFFICES ASSUME faults = 0
             PROVE  /\ live' = IF Windowed' THEN token' ELSE 0
                    /\ \A i \in DOMAIN late' : late'[i].token # live'
                    /\ StepByStep(runs')
                    /\ Windowed' => InOrder(runs', sending' \o queue', snapshot')
  BY DEF Calm
<1>1. Windowed'
  BY DEF Windowed
<1>2. /\ live = token /\ \A i \in DOMAIN late : late[i].token # live
      /\ StepByStep(runs) /\ InOrder(runs, sending \o queue, snapshot)
  BY DEF Calm
<1> DEFINE pub == operation.published
<1>3. snapshot' = operation.next /\ queue' = queue \o pub
  BY DEF Apply
<1>4. /\ sending \in Seq(SoundReports) /\ queue \in Seq(SoundReports)
      /\ pub \in Seq(SoundReports) /\ Standing(snapshot)
  BY DEF Shape, Sane
<1>5. sending \o queue \in Seq(SoundReports)
  BY <1>4
<1>6. InOrder(runs, (sending \o queue) \o pub, operation.next)
  BY <1>2, <1>4, <1>5, OrderExtended
<1> HIDE DEF pub
<1>7. (sending \o queue) \o pub = sending \o (queue \o pub)
  BY <1>4, Joined
<1> QED BY <1>1, <1>2, <1>3, <1>6, <1>7

LEMMA ConfigureIsOrderly ==
  ASSUME NEW product \in Products, NEW s
  PROVE  LET operation == Configure(product, Totals[product]) IN
         Sane(operation) /\ Orderly(s, operation)
<1> DEFINE operation == Configure(product, Totals[product])
<1>1. /\ Sane(operation) /\ operation.published = <<operation.next>>
      /\ operation.next.state = "idle"
  BY ConfigureIsSane
<1> HIDE DEF operation
<1>2. Orderly(s, operation)
  BY <1>1 DEF Orderly, Succeeds
<1> QED BY <1>1, <1>2 DEF operation

LEMMA OperationsCalm ==
  ASSUME Shape, Calm
  PROVE  /\ \A product \in Products : ChooseProduct(product) => Calm'
         /\ \A product \in Products : ProductsFetched(product) => Calm'
         /\ StartWork => Calm'
         /\ Operate => Calm'
         /\ \A verdict \in {"PASS", "FAIL"} : HandleResult(verdict) => Calm'
<1>1. Standing(snapshot)
  BY DEF Shape
<1>2. ASSUME NEW product \in Products, ChooseProduct(product) PROVE Calm'
  <2>1. /\ Apply(Configure(product, Totals[product])) /\ Windowed
        /\ UNCHANGED <<sending, phase, token, live, late, runs, faults>>
    BY <1>2 DEF ChooseProduct, gateway, Windowed
  <2> QED BY <2>1, ConfigureIsOrderly, OperationCalm
<1>3. ASSUME NEW product \in Products, ProductsFetched(product) PROVE Calm'
  <2>1. /\ Apply(Configure(product, Totals[product])) /\ Windowed
        /\ UNCHANGED <<sending, phase, token, live, late, runs, faults>>
    BY <1>3 DEF ProductsFetched, gateway
  <2> QED BY <2>1, ConfigureIsOrderly, OperationCalm
<1>4. ASSUME StartWork PROVE Calm'
  <2>1. /\ Apply(Start(snapshot)) /\ Windowed
        /\ UNCHANGED <<sending, phase, token, live, late, runs, faults>>
    BY <1>4 DEF StartWork, gateway
  <2> QED BY <1>1, <2>1, StartIsSane, OperationCalm
<1>5. ASSUME Operate PROVE Calm'
  <2>1. /\ Windowed /\ UNCHANGED <<sending, phase, token, live, late, runs, faults>>
        /\ \/ Apply(Pause(snapshot)) \/ Apply(Resume(snapshot))
           \/ Apply(RegisterDefect(snapshot))
    BY <1>5 DEF Operate, gateway
  <2>2. CASE Apply(Pause(snapshot))
    BY <1>1, <2>1, <2>2, PauseIsSane, OperationCalm
  <2>3. CASE Apply(Resume(snapshot))
    BY <1>1, <2>1, <2>3, ResumeIsSane, OperationCalm
  <2>4. CASE Apply(RegisterDefect(snapshot))
    BY <1>1, <2>1, <2>4, RegisterDefectIsSane, OperationCalm
  <2> QED BY <2>1, <2>2, <2>3, <2>4
<1>6. ASSUME NEW verdict \in {"PASS", "FAIL"}, HandleResult(verdict) PROVE Calm'
  <2>1. /\ Apply(ApplyJudgement(snapshot, verdict)) /\ Windowed
        /\ UNCHANGED <<sending, phase, token, live, late, runs, faults>>
    BY <1>6 DEF HandleResult, gateway
  <2> QED BY <1>1, <2>1, JudgementIsSane, OperationCalm
<1> QED BY <1>2, <1>3, <1>4, <1>5, <1>6

LEMMA LoginCalm ==
  ASSUME Shape, Calm, NEW product \in Products, Login(product)
  PROVE  Calm'
<1>1. /\ token' = token + 1 /\ live' = token + 1 /\ UNCHANGED <<late, runs, faults>>
      /\ phase' = "in"
  BY DEF Login
<1> SUFFICES ASSUME faults = 0
             PROVE  /\ live' = IF Windowed' THEN token' ELSE 0
                    /\ \A i \in DOMAIN late' : late'[i].token # live'
                    /\ StepByStep(runs')
                    /\ Windowed' => InOrder(runs', sending' \o queue', snapshot')
  BY <1>1 DEF Calm
<1>2. Windowed' /\ StepByStep(runs)
  BY <1>1 DEF Windowed, Calm
<1>3. \A i \in DOMAIN late' : late'[i].token # live'
  BY <1>1, Tokens
<1> DEFINE r == snapshot'
<1>4. /\ r \in SoundReports /\ queue' = <<r>> /\ sending' = <<>>
      /\ Follows(SavedIn(runs), r) /\ Point(r) = SavedIn(runs)
  BY LoginTakesUp
<1> HIDE DEF r
<1>5. Prepared(runs, r)
  <2>1. CASE SavedIn(runs) = NoPoint
    BY <1>4, <2>1 DEF Follows, Prepared
  <2>2. CASE SavedIn(runs) # NoPoint
    <3>1. SoundHistory(runs)
      BY DEF Shape
    <3>2. OpenRun(runs) # 0
      BY <2>2, <3>1, LeftWork
    <3>3. SavedIn(runs) = [product |-> runs[OpenRun(runs)].product,
            step |-> LatestStep(runs[OpenRun(runs)]),
            paused |-> runs[OpenRun(runs)].steps[LatestStep(runs[OpenRun(runs)])].openPauses > 0]
      BY <3>1, <3>2, SavedPointOf
    <3>4. r.state \in {"running", "paused"} /\ r.result # "defect"
      BY <1>4, <2>2, NoPointOtherwise
    <3>5. Point(r).step = r.step
      BY <3>4, PointOfWork
    <3>6. r.step = LatestStep(runs[OpenRun(runs)]) /\ r.step \in Nat
      BY <1>4, <3>3, <3>5 DEF SoundReports, Snapshots
    <3> QED BY <3>2, <3>4, <3>6 DEF Prepared, Reached
  <2> QED BY <2>1, <2>2
<1>6. InOrder(runs, sending' \o queue', r)
  <2>1. sending' \o queue' = <<r>>
    BY <1>4
  <2>2. <<r>> # <<>> /\ Len(<<r>>) = 1 /\ <<r>>[1] = r /\ 1..0 = {}
    OBVIOUS
  <2> QED BY <1>5, <2>1, <2>2 DEF InOrder
<1> QED BY <1>1, <1>2, <1>3, <1>6 DEF r

LEMMA SenderCalm ==
  ASSUME Shape, Calm
  PROVE  /\ Send => Calm'
         /\ Answered => Calm'
         /\ \A i \in DOMAIN late : LateRequest(i) => Calm'
<1>1. queue \in Seq(SoundReports) /\ SoundHistory(runs)
  BY DEF Shape
<1>2. ASSUME Send PROVE Calm'
  <2>1. /\ sending = <<>> /\ queue # <<>> /\ sending' = <<Head(queue)>> /\ queue' = Tail(queue)
        /\ UNCHANGED <<snapshot, phase, token, live, late, runs, faults>>
    BY <1>2 DEF Send, gateway, history
  <2>2. sending' \o queue' = sending \o queue
    BY <1>1, <2>1, QueueTaken
  <2> QED BY <2>1, <2>2 DEF Calm, Windowed
<1>3. ASSUME Answered PROVE Calm'
  <2>1. /\ Windowed /\ sending # <<>> /\ sending' = <<>>
        /\ UNCHANGED <<snapshot, queue, token, live, late, faults>>
    BY <1>3 DEF Answered
  <2> SUFFICES ASSUME faults = 0
               PROVE  /\ live' = IF Windowed' THEN token' ELSE 0
                      /\ \A i \in DOMAIN late' : late'[i].token # live'
                      /\ StepByStep(runs')
                      /\ Windowed' => InOrder(runs', sending' \o queue', snapshot')
    BY <2>1 DEF Calm
  <2> DEFINE r == sending[1]
  <2>2. r \in SoundReports /\ sending = <<r>>
    BY <2>1, Sent
  <2>3. /\ live = token /\ \A i \in DOMAIN late : late[i].token # live
        /\ StepByStep(runs) /\ InOrder(runs, sending \o queue, snapshot)
    BY <2>1 DEF Calm
  <2>4. Recordable(r, token) <=> FitsOpenRun(runs, r)
    BY <2>2, <2>3 DEF Recordable, Acceptable, SoundReports
  <2>5. /\ FitsOpenRun(runs, r) => runs' = Recorded(runs, r) /\ phase' = phase
        /\ ~FitsOpenRun(runs, r) => runs' = runs /\ phase' = "terminating"
    BY <1>3, <2>4 DEF Answered, Fail
  <2>6. Windowed'
    BY <2>1, <2>5 DEF Windowed
  <2> HIDE DEF r
  <2>7. /\ Prepared(runs, r)
        /\ \A next : Settled(next, r) => InOrder(next, queue, snapshot)
    <3>1. InOrder(runs, <<r>> \o queue, snapshot)
      BY <2>2, <2>3
    <3> QED BY <1>1, <2>2, <3>1, OrderShrinks
  <2>8. Settled(runs', r) /\ StepByStep(runs')
    <3>1. CASE FitsOpenRun(runs, r)
      BY <1>1, <2>2, <2>3, <2>5, <2>7, <3>1, RecordedSettles, RecordedStepByStep
    <3>2. CASE ~FitsOpenRun(runs, r)
      BY <1>1, <2>2, <2>3, <2>5, <3>2, RecordedSettles
    <3> QED BY <3>1, <3>2
  <2>9. sending' \o queue' = queue
    BY <1>1, <2>1
  <2> QED BY <2>1, <2>3, <2>6, <2>7, <2>8, <2>9
<1>4. ASSUME NEW i \in DOMAIN late, LateRequest(i) PROVE Calm'
  <2>1. /\ UNCHANGED <<snapshot, queue, sending, phase, token, live, faults>>
        /\ late[i].token # live => runs' = runs
    BY <1>4 DEF LateRequest, jetson, history, Recordable
  <2>2. \A j \in DOMAIN late' : \E k \in DOMAIN late : late'[j] = late[k]
    BY <1>4, LateKeeps
  <2> QED BY <1>4, <2>1, <2>2 DEF Calm, Windowed
<1> QED BY <1>2, <1>3, <1>4

\* The logout of an undisturbed window revokes the token before the request on the
\* wire is handled.
LEMMA CloseCalm ==
  ASSUME Shape, Calm, Close, faults' = 0
  PROVE  Calm'
<1>1. faults \in Nat
  BY Bounds DEF Shape
<1>2. Windowed /\ Quit /\ live' = (IF live = token THEN 0 ELSE live) /\ faults = 0
  BY <1>1 DEF Close, Fault
<1>3. live = token /\ StepByStep(runs)
  BY <1>2 DEF Calm
<1>4. \A i \in DOMAIN late' :
              \/ i \in DOMAIN late /\ late'[i] = late[i]
              \/ late'[i].token = token
  BY <1>2, QuitKeeps
<1>5. \A i \in DOMAIN late' : late'[i].token # 0
  BY <1>2, <1>4, Tokens
<1>6. phase' = "out" /\ runs' = runs /\ live' = 0
  BY <1>2, <1>3 DEF Quit
<1> QED BY <1>3, <1>5, <1>6 DEF Calm, Windowed

LEMMA CalmInit == Init => Calm
<1> SUFFICES ASSUME Init PROVE Calm
  OBVIOUS
<1>1. phase = "out" /\ live = 0 /\ late = <<>> /\ runs = EmptyDict
  BY DEF Init
<1>2. DOMAIN late = {} /\ DOMAIN runs = {}
  BY <1>1 DEF EmptyDict
<1> QED BY <1>1, <1>2 DEF Calm, Windowed, StepByStep

LEMMA CalmNext == Shape /\ Calm /\ [Next]_vars => Calm'
<1> SUFFICES ASSUME Shape, Calm, [Next]_vars PROVE Calm'
  OBVIOUS
<1>1. faults \in Nat
  BY Bounds DEF Shape
<1>2. CASE UNCHANGED vars
  BY <1>2 DEF vars, jetson, gateway, history, Calm, Windowed
<1>3. CASE \E product \in Products :
             Login(product) \/ ChooseProduct(product) \/ ProductsFetched(product)
  BY <1>3, LoginCalm, OperationsCalm
<1>4. CASE StartWork \/ Operate
  BY <1>4, OperationsCalm
<1>5. CASE \E verdict \in {"PASS", "FAIL"} : HandleResult(verdict)
  BY <1>5, OperationsCalm
<1>6. CASE RefreshProducts \/ RequestJudgement \/ InferenceFails
  BY <1>6 DEF RefreshProducts, RequestJudgement, InferenceFails, gateway, history, Calm, Windowed
<1>7. CASE Send \/ Answered \/ \E i \in DOMAIN late : LateRequest(i)
  BY <1>7, SenderCalm
<1>8. CASE StrayStart \/ TimedOut \/ Crash \/ Disconnected \/ GatewayRestart
  <2>1. faults' = faults + 1
    BY <1>8 DEF StrayStart, TimedOut, Crash, Disconnected, GatewayRestart, Fault
  <2>2. faults' # 0
    BY <1>1, <2>1
  <2> QED BY <2>2 DEF Calm
<1>9. CASE Close
  <2>1. CASE faults' = 0
    BY <1>9, <2>1, CloseCalm
  <2>2. CASE faults' # 0
    BY <2>2 DEF Calm
  <2> QED BY <2>1, <2>2
<1> QED BY <1>2, <1>3, <1>4, <1>5, <1>6, <1>7, <1>8, <1>9 DEF Next

\* Until the first fault the history has no gaps, in whatever order the worker starts,
\* interrupts, ends and takes up work on whatever products.
THEOREM CalmInvariant == Spec => [](Shape /\ Calm)
<1>1. Init => Shape /\ Calm
  BY ShapeInit, CalmInit
<1>2. (Shape /\ Calm) /\ [Next]_vars => (Shape /\ Calm)'
  BY ShapeNext, CalmNext
<1> QED BY <1>1, <1>2, PTL DEF Spec

\* A product that counts as passed before the first fault was recorded step by step.
THEOREM PassedUntilFault == Spec => [](faults = 0 => PassedRunIsComplete)
<1>1. Shape /\ Calm => (faults = 0 => PassedRunIsComplete)
  <2> SUFFICES ASSUME StepByStep(runs) PROVE PassedRunIsComplete
    BY DEF Calm
  <2> QED BY DEF StepByStep, Passed, HasPassed, PassedRunIsComplete
<1> QED BY <1>1, CalmInvariant, PTL

\* In a system without faults, every product that counts as passed was recorded step
\* by step, a pass row for each of its steps.
THEOREM PassedRunsAreComplete ==
  ASSUME MaxFaults = 0
  PROVE  Spec => []PassedRunIsComplete
<1>1. Shape => faults = 0
  <2>1. 0..0 = {0}
    OBVIOUS
  <2> QED BY <2>1 DEF Shape
<1>2. Shape /\ Calm => PassedRunIsComplete
  <2> SUFFICES ASSUME StepByStep(runs) PROVE PassedRunIsComplete
    BY <1>1 DEF Calm
  <2> QED BY DEF StepByStep, Passed, HasPassed, PassedRunIsComplete
<1> QED BY <1>2, CalmInvariant, PTL

=============================================================================
