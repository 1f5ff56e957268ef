------------------------- MODULE StateRecorderProofs -------------------------
(***************************************************************************)
(* Safety of the work history of an employee, for any products, number of  *)
(* steps, event ids and reports: one unfinished run, finished runs are     *)
(* closed in every table and never change, and the step a login would      *)
(* resume is open.  What one report does to a history is shown in          *)
(* WorkTablesProofs.                                                       *)
(***************************************************************************)
EXTENDS StateRecorder, WorkTablesProofs

\* The inductive invariant of the recorder.
RecorderInv ==
  /\ Healthy(runs)
  /\ \A i \in DOMAIN runs : DOMAIN runs[i].steps \subseteq 1..MaxTotal
  /\ DOMAIN events \subseteq EventIds
  /\ \A id \in DOMAIN events : events[id] \in Reports
  /\ totals \in [DOMAIN totals -> 1..MaxTotal] /\ DOMAIN totals \subseteq Products
  /\ edits \in 0..MaxEdits

-----------------------------------------------------------------------------
(* The operations                                                          *)

\* Nothing has been recorded yet.
LEMMA InitKeeps == Init => RecorderInv
<1> SUFFICES ASSUME Init PROVE RecorderInv
  OBVIOUS
<1>1. DOMAIN EmptyDict = {}
  BY DEF EmptyDict
<1> HIDE DEF EmptyDict
<1>2. Healthy(runs)
  <2>1. DOMAIN runs \subseteq 1..0 /\ 0 \in Nat
    BY <1>1 DEF Init
  <2> QED BY <1>1, <2>1 DEF Init, Healthy
<1>3. totals \in [DOMAIN totals -> 1..MaxTotal] /\ DOMAIN totals \subseteq Products
  BY DEF Init
<1> QED BY <1>1, <1>2, <1>3, RecorderAssumption DEF Init, RecorderInv

\* What an accepted report is about.
LEMMA AcceptedReport ==
  ASSUME RecorderInv, NEW p \in Reports, Acceptable(runs, totals, p), p.state # "idle"
  PROVE  Reportable(p) /\ p.step \in 1..MaxTotal
<1>1. p.product \in DOMAIN totals /\ p.total = totals[p.product] /\ p.step \in 1..p.total
  BY DEF Acceptable, WellFormed
<1>2. p.product \in Products /\ p.total \in 1..MaxTotal
  BY <1>1 DEF RecorderInv
<1>3. p.event \in Events
  BY RecorderAssumption
<1> QED BY <1>1, <1>2, <1>3, RecorderAssumption DEF Reportable

\* A report keeps the history healthy, and the finished runs as they were.
LEMMA RecordKeeps ==
  ASSUME RecorderInv, NEW id \in EventIds, NEW p \in Reports, Record(id, p)
  PROVE  /\ RecorderInv'
         /\ \A i \in DOMAIN runs : runs[i].result # "open" =>
              i \in DOMAIN runs' /\ runs'[i] = runs[i]
<1>1. /\ Healthy(runs')
      /\ \A i \in DOMAIN runs' : DOMAIN runs'[i].steps \subseteq 1..MaxTotal
      /\ \A i \in DOMAIN runs : runs[i].result # "open" =>
           i \in DOMAIN runs' /\ runs'[i] = runs[i]
  <2>1. CASE p.state = "idle"
    <3>1. runs' = runs
      BY <2>1 DEF Record, Recorded
    <3> QED BY <3>1 DEF RecorderInv
  <2>2. CASE p.state # "idle"
    <3>1. Reportable(p) /\ p.step \in 1..MaxTotal
      BY <2>2, AcceptedReport DEF Record
    <3>2. Healthy(runs) /\ runs' = Recorded(runs, p)
      BY DEF RecorderInv, Record
    <3>3. /\ Healthy(runs')
          /\ \A i \in DOMAIN runs : runs[i].result # "open" =>
               i \in DOMAIN runs' /\ runs'[i] = runs[i]
          /\ Continued(runs, p, runs')
      BY <3>1, <3>2, RecordedHistory
    <3>4. \A i \in DOMAIN runs' : DOMAIN runs'[i].steps \subseteq 1..MaxTotal
      <4>1. PICK i \in DOMAIN runs' : \E run :
              /\ DOMAIN runs' = DOMAIN runs \cup {i}
              /\ RunToWorkOn(runs, p, i, run)
              /\ Advanced(run, p, runs'[i])
              /\ \A j \in DOMAIN runs : j # i => runs'[j] = runs[j] /\ runs[j].result # "open"
        BY <3>3 DEF Continued
      <4>2. PICK run :
              /\ DOMAIN runs' = DOMAIN runs \cup {i}
              /\ RunToWorkOn(runs, p, i, run)
              /\ Advanced(run, p, runs'[i])
              /\ \A j \in DOMAIN runs : j # i => runs'[j] = runs[j] /\ runs[j].result # "open"
        BY <4>1
      <4>3. DOMAIN run.steps \subseteq 1..MaxTotal
        <5>1. CASE run = NewRun(p.product)
          BY <5>1 DEF NewRun, EmptyDict
        <5>2. CASE i \in DOMAIN runs /\ run = runs[i]
          BY <5>2 DEF RecorderInv
        <5> QED BY <4>2, <5>1, <5>2 DEF RunToWorkOn
      <4>4. DOMAIN runs'[i].steps \subseteq 1..MaxTotal
        BY <3>1, <4>2, <4>3 DEF Advanced
      <4> QED BY <4>2, <4>4 DEF RecorderInv
    <3> QED BY <3>3, <3>4
  <2> QED BY <2>1, <2>2
<1>2. events' = Put(events, id, p)
  BY DEF Record
<1>3. DOMAIN events' \subseteq EventIds /\ \A e \in DOMAIN events' : events'[e] \in Reports
  BY <1>2 DEF RecorderInv, Put
<1>4. UNCHANGED <<totals, edits>>
  BY DEF Record
<1> QED BY <1>1, <1>3, <1>4 DEF RecorderInv

\* An edit of a product does not look at the history.
LEMMA UpdateProductKeeps ==
  ASSUME RecorderInv, NEW product \in Products, NEW total \in 1..MaxTotal,
         UpdateProduct(product, total)
  PROVE  RecorderInv' /\ runs' = runs
<1>1. totals' \in [DOMAIN totals' -> 1..MaxTotal] /\ DOMAIN totals' \subseteq Products
  BY DEF RecorderInv, UpdateProduct
<1>2. edits' \in 0..MaxEdits
  BY RecorderAssumption DEF RecorderInv, UpdateProduct
<1>3. UNCHANGED <<runs, events>>
  BY DEF UpdateProduct
<1> QED BY <1>1, <1>2, <1>3 DEF RecorderInv

\* With a product, all its runs go and no other.
LEMMA DeleteProductKeeps ==
  ASSUME RecorderInv, NEW product \in Products, DeleteProduct(product)
  PROVE  RecorderInv'
<1>1. /\ DOMAIN runs' \subseteq DOMAIN runs
      /\ \A i \in DOMAIN runs' : runs'[i] = runs[i]
  BY DEF DeleteProduct, Without
<1>2. Healthy(runs')
  BY <1>1 DEF RecorderInv, Healthy
<1>3. \A i \in DOMAIN runs' : DOMAIN runs'[i].steps \subseteq 1..MaxTotal
  BY <1>1 DEF RecorderInv
<1>4. /\ DOMAIN events' \subseteq DOMAIN events
      /\ \A e \in DOMAIN events' : events'[e] = events[e]
  BY DEF DeleteProduct, Without
<1>5. totals' \in [DOMAIN totals' -> 1..MaxTotal] /\ DOMAIN totals' \subseteq Products
  BY DEF RecorderInv, DeleteProduct, Without
<1>6. edits' \in 0..MaxEdits
  BY RecorderAssumption DEF RecorderInv, DeleteProduct
<1> QED BY <1>2, <1>3, <1>4, <1>5, <1>6 DEF RecorderInv

\* Every operation keeps the invariant.
LEMMA NextKeeps == RecorderInv /\ [Next]_vars => RecorderInv'
<1> SUFFICES ASSUME RecorderInv, [Next]_vars PROVE RecorderInv'
  OBVIOUS
<1>1. ASSUME NEW id \in EventIds, NEW p \in Reports, Record(id, p) PROVE RecorderInv'
  BY <1>1, RecordKeeps
<1>2. ASSUME NEW product \in Products, NEW total \in 1..MaxTotal, UpdateProduct(product, total)
      PROVE  RecorderInv'
  BY <1>2, UpdateProductKeeps
<1>3. ASSUME NEW product \in Products, DeleteProduct(product) PROVE RecorderInv'
  BY <1>3, DeleteProductKeeps
<1>4. CASE UNCHANGED vars
  BY <1>4 DEF vars, RecorderInv
<1> QED BY <1>1, <1>2, <1>3, <1>4 DEF Next

\* The history is healthy after any reports in any order, repeated or refused, and
\* any edits and deletions of products in between.
THEOREM RecorderInvariant == Spec => []RecorderInv
  BY InitKeeps, NextKeeps, PTL DEF Spec

-----------------------------------------------------------------------------
(* Every verdict has its report                                            *)

\* g maps S as f does, and x to y.
Joins(g, f, S, x, y) == g[x] = y /\ \A s \in S : g[s] = f[s]

\* A new pair joins a bijection.
LEMMA BijectionGrows ==
  ASSUME NEW S, NEW T, NEW f, NEW x, NEW y,
         f \in Bijection(S, T), x \notin S, y \notin T
  PROVE  \E g \in Bijection(S \cup {x}, T \cup {y}) : Joins(g, f, S, x, y)
<1> DEFINE g == Put(f, x, y)
<1>1. /\ f \in [S -> T]
      /\ \A a, b \in S : f[a] = f[b] => a = b
      /\ \A t \in T : \E s \in S : f[s] = t
  BY DEF Bijection, Injection, Surjection, IsInjective
<1>2. g \in [S \cup {x} -> T \cup {y}] /\ g[x] = y /\ \A s \in S : g[s] = f[s]
  BY <1>1 DEF Put
<1> HIDE DEF g
<1>3. \A a, b \in S \cup {x} : g[a] = g[b] => a = b
  BY <1>1, <1>2
<1>4. \A t \in T \cup {y} : \E s \in S \cup {x} : g[s] = t
  BY <1>1, <1>2
<1>5. g \in Bijection(S \cup {x}, T \cup {y})
  BY <1>2, <1>3, <1>4 DEF Bijection, Injection, Surjection, IsInjective
<1> QED BY <1>2, <1>5 DEF Joins

\* g maps R as f does.
Agrees(g, f, R) == \A s \in R : g[s] = f[s]

\* A bijection restricted to some of its pairs.
LEMMA BijectionShrinks ==
  ASSUME NEW S, NEW T, NEW f, f \in Bijection(S, T), NEW R \in SUBSET S, NEW U \in SUBSET T,
         \A s \in S : s \in R <=> f[s] \in U
  PROVE  \E g \in Bijection(R, U) : Agrees(g, f, R)
<1> DEFINE g == Restrict(f, R)
<1>1. /\ f \in [S -> T]
      /\ \A a, b \in S : f[a] = f[b] => a = b
      /\ \A t \in T : \E s \in S : f[s] = t
  BY DEF Bijection, Injection, Surjection, IsInjective
<1>2. g \in [R -> U] /\ \A s \in R : g[s] = f[s]
  BY <1>1 DEF Restrict
<1> HIDE DEF g
<1>3. \A a, b \in R : g[a] = g[b] => a = b
  BY <1>1, <1>2
<1>4. \A t \in U : \E s \in R : g[s] = t
  BY <1>1, <1>2
<1>5. g \in Bijection(R, U)
  BY <1>2, <1>3, <1>4 DEF Bijection, Injection, Surjection, IsInjective
<1> QED BY <1>2, <1>5 DEF Agrees

\* The report brought the n-th verdict of the run.
Brought(report, run, n) ==
  /\ report.product = run.product /\ report.event = run.judgements[n].source
  /\ ReportedResult(report) = run.judgements[n].result
  /\ run.judgements[n].step <= report.step

\* OneVerdictPerReport with the report of each verdict named.
Carrier(c, rs, reports) ==
  /\ c \in Bijection(VerdictRows(rs), VerdictReports(reports))
  /\ \A row \in VerdictRows(rs) : Brought(reports[c[row]], rs[row[1]], row[2])

\* A verdict row is a run and a place in its judgements.
LEMMA VerdictRowIsPlace ==
  ASSUME NEW rs
  PROVE  /\ \A row \in VerdictRows(rs) :
              /\ row = <<row[1], row[2]>> /\ row[1] \in DOMAIN rs
              /\ row[2] \in DOMAIN rs[row[1]].judgements
         /\ \A i \in DOMAIN rs : \A n \in DOMAIN rs[i].judgements : <<i, n>> \in VerdictRows(rs)
  BY DEF VerdictRows

\* A history that keeps its verdict rows and gets no other.
LEMMA SameVerdictRows ==
  ASSUME NEW rs, NEW next, DOMAIN rs \subseteq DOMAIN next,
         \A j \in DOMAIN rs : next[j].judgements = rs[j].judgements,
         \A j \in DOMAIN next : j \notin DOMAIN rs => next[j].judgements = <<>>
  PROVE  VerdictRows(next) = VerdictRows(rs)
<1>1. ASSUME NEW row \in VerdictRows(next) PROVE row \in VerdictRows(rs)
  <2>1. /\ row = <<row[1], row[2]>> /\ row[1] \in DOMAIN next
        /\ row[2] \in DOMAIN next[row[1]].judgements
    BY VerdictRowIsPlace
  <2>2. row[1] \in DOMAIN rs
    <3>1. DOMAIN <<>> = {}
      OBVIOUS
    <3> QED BY <2>1, <3>1
  <2> QED BY <2>1, <2>2, VerdictRowIsPlace
<1>2. ASSUME NEW row \in VerdictRows(rs) PROVE row \in VerdictRows(next)
  <2>1. /\ row = <<row[1], row[2]>> /\ row[1] \in DOMAIN rs
        /\ row[2] \in DOMAIN rs[row[1]].judgements
    BY VerdictRowIsPlace
  <2> QED BY <2>1, VerdictRowIsPlace
<1> QED BY <1>1, <1>2

\* Where the verdicts and the products of the runs stay, and so do the reports of
\* verdicts, each keeps its report.
LEMMA SameCarrier ==
  ASSUME NEW rs, NEW reports, NEW c, Carrier(c, rs, reports), NEW next, NEW nextReports,
         VerdictRows(next) = VerdictRows(rs),
         \A j \in DOMAIN rs : next[j].product = rs[j].product
                              /\ next[j].judgements = rs[j].judgements,
         VerdictReports(nextReports) = VerdictReports(reports),
         \A id \in VerdictReports(reports) : nextReports[id] = reports[id]
  PROVE  Carrier(c, next, nextReports)
<1>1. ASSUME NEW row \in VerdictRows(rs)
      PROVE  Brought(nextReports[c[row]], next[row[1]], row[2])
  <2>1. row[1] \in DOMAIN rs
    BY VerdictRowIsPlace
  <2>2. c[row] \in VerdictReports(reports)
    BY DEF Carrier, Bijection, Surjection
  <2>3. Brought(reports[c[row]], rs[row[1]], row[2])
    BY DEF Carrier
  <2> QED BY <2>1, <2>2, <2>3 DEF Brought
<1> QED BY <1>1 DEF Carrier

\* A report on a run that the history has, or on a new one, brings its verdict, and
\* none of the others changes.
LEMMA RecordedVerdicts ==
  ASSUME NEW rs, Healthy(rs), NEW p, Reportable(p), FitsOpenRun(rs, p),
         NEW next, Continued(rs, p, next),
         NEW reports, NEW id, id \notin DOMAIN reports, NEW c, Carrier(c, rs, reports)
  PROVE  \E d : Carrier(d, next, Put(reports, id, p))
<1> DEFINE all == Put(reports, id, p)
<1>1. PICK i \in DOMAIN next : \E run :
        /\ DOMAIN next = DOMAIN rs \cup {i}
        /\ RunToWorkOn(rs, p, i, run)
        /\ Advanced(run, p, next[i])
        /\ \A j \in DOMAIN rs : j # i => next[j] = rs[j] /\ rs[j].result # "open"
  BY DEF Continued
<1>2. PICK run :
        /\ DOMAIN next = DOMAIN rs \cup {i}
        /\ RunToWorkOn(rs, p, i, run)
        /\ Advanced(run, p, next[i])
        /\ \A j \in DOMAIN rs : j # i => next[j] = rs[j] /\ rs[j].result # "open"
  BY <1>1
<1>3. /\ DOMAIN all = DOMAIN reports \cup {id} /\ all[id] = p
      /\ \A e \in DOMAIN reports : e # id /\ all[e] = reports[e]
  BY DEF Put
<1> HIDE DEF all
<1>4. /\ i \in DOMAIN rs => run = rs[i]
      /\ i \notin DOMAIN rs => run.product = p.product /\ run.judgements = <<>>
      /\ run.judgements \in Seq(Judgement)
  <2>1. CASE i \in DOMAIN rs
    <3>1. run = rs[i] /\ rs[i] \in Runs
      BY <1>2, <2>1 DEF RunToWorkOn, Healthy, Kept
    <3> QED BY <2>1, <3>1 DEF Runs
  <2>2. CASE i \notin DOMAIN rs
    <3>1. run = NewRun(p.product)
      BY <1>2, <2>2 DEF RunToWorkOn
    <3> QED BY <2>2, <3>1 DEF NewRun
  <2> QED BY <2>1, <2>2
<1>5. next[i].product = run.product /\ Files(run, p, next[i])
  BY <1>2 DEF Advanced
<1>6. CASE ReportedResult(p) \notin {"pass", "fail"}
  <2>1. next[i].judgements = run.judgements
    BY <1>5, <1>6 DEF Files
  <2>2. \A j \in DOMAIN rs : next[j].product = rs[j].product
                             /\ next[j].judgements = rs[j].judgements
    BY <1>2, <1>4, <1>5, <2>1
  <2>3. VerdictRows(next) = VerdictRows(rs)
    BY <1>2, <1>4, <2>1, <2>2, SameVerdictRows
  <2>4. VerdictReports(all) = VerdictReports(reports)
    BY <1>3, <1>6 DEF VerdictReports
  <2>5. \A e \in VerdictReports(reports) : all[e] = reports[e]
    BY <1>3 DEF VerdictReports
  <2>6. Carrier(c, next, all)
    BY <2>2, <2>3, <2>4, <2>5, SameCarrier
  <2> QED BY <2>6 DEF all
<1>7. CASE ReportedResult(p) \in {"pass", "fail"}
  <2> DEFINE m == Len(run.judgements) + 1
             new == <<i, m>>
  <2>1. PICK row \in Judgement :
          /\ row.result = ReportedResult(p) /\ row.source = p.event
          /\ row.step <= p.step
          /\ next[i].judgements = Append(run.judgements, row)
    BY <1>5, <1>7 DEF Files
  <2>2. /\ DOMAIN next[i].judgements = DOMAIN run.judgements \cup {m}
        /\ m \notin DOMAIN run.judgements
        /\ next[i].judgements[m] = row
        /\ \A n \in DOMAIN run.judgements : next[i].judgements[n] = run.judgements[n]
    BY <1>4, <2>1
  <2> HIDE DEF m
  <2>3. new \notin VerdictRows(rs)
    <3> SUFFICES ASSUME new \in VerdictRows(rs) PROVE FALSE
      OBVIOUS
    <3>1. i \in DOMAIN rs /\ m \in DOMAIN rs[i].judgements
      <4>1. new[1] = i /\ new[2] = m
        OBVIOUS
      <4> HIDE DEF new
      <4> QED BY <4>1, VerdictRowIsPlace
    <3> QED BY <1>4, <2>2, <3>1
  <2>4. VerdictRows(next) = VerdictRows(rs) \cup {new}
    <3>1. ASSUME NEW r \in VerdictRows(next) PROVE r \in VerdictRows(rs) \cup {new}
      <4>1. /\ r = <<r[1], r[2]>> /\ r[1] \in DOMAIN next
            /\ r[2] \in DOMAIN next[r[1]].judgements
        BY VerdictRowIsPlace
      <4>2. CASE r[1] # i
        <5>1. r[1] \in DOMAIN rs /\ r[2] \in DOMAIN rs[r[1]].judgements
          BY <1>2, <4>1, <4>2
        <5> QED BY <4>1, <5>1, VerdictRowIsPlace
      <4>3. CASE r[1] = i /\ r[2] = m
        BY <4>1, <4>3
      <4>4. CASE r[1] = i /\ r[2] # m
        <5>1. r[2] \in DOMAIN run.judgements
          BY <2>2, <4>1, <4>4
        <5>2. i \in DOMAIN rs
          <6>1. DOMAIN <<>> = {}
            OBVIOUS
          <6> QED BY <1>4, <5>1, <6>1
        <5>3. r[1] \in DOMAIN rs /\ r[2] \in DOMAIN rs[r[1]].judgements
          BY <1>4, <4>4, <5>1, <5>2
        <5> QED BY <4>1, <5>3, VerdictRowIsPlace
      <4> QED BY <4>2, <4>3, <4>4
    <3>2. new \in VerdictRows(next)
      BY <2>2, VerdictRowIsPlace
    <3>3. ASSUME NEW r \in VerdictRows(rs) PROVE r \in VerdictRows(next)
      <4>1. /\ r = <<r[1], r[2]>> /\ r[1] \in DOMAIN rs
            /\ r[2] \in DOMAIN rs[r[1]].judgements
        BY VerdictRowIsPlace
      <4>2. r[1] \in DOMAIN next /\ r[2] \in DOMAIN next[r[1]].judgements
        BY <1>2, <1>4, <2>2, <4>1
      <4> QED BY <4>1, <4>2, VerdictRowIsPlace
    <3> HIDE DEF new
    <3> QED BY <3>1, <3>2, <3>3
  <2>5. VerdictReports(all) = VerdictReports(reports) \cup {id}
    BY <1>3, <1>7 DEF VerdictReports, Reportable
  <2>6. id \notin VerdictReports(reports)
    BY DEF VerdictReports
  <2>7. c \in Bijection(VerdictRows(rs), VerdictReports(reports))
    BY DEF Carrier
  <2>8. new[1] = i /\ new[2] = m
    OBVIOUS
  <2> HIDE DEF new
  <2>9. PICK d \in Bijection(VerdictRows(next), VerdictReports(all)) :
          d[new] = id /\ \A r \in VerdictRows(rs) : d[r] = c[r]
    <3> DEFINE S == VerdictRows(rs)
               T == VerdictReports(reports)
    <3>1. c \in Bijection(S, T) /\ new \notin S /\ id \notin T
      BY <2>3, <2>6, <2>7
    <3> HIDE DEF S, T
    <3>2. \E g \in Bijection(S \cup {new}, T \cup {id}) :
            Joins(g, c, S, new, id)
      BY <3>1, BijectionGrows
    <3> QED BY <2>4, <2>5, <3>2 DEF S, T, Joins
  <2>10. Brought(all[d[new]], next[new[1]], new[2])
    <3>1. p.product = run.product
      <4>1. CASE i \notin DOMAIN rs
        BY <1>4, <4>1
      <4>2. CASE i \in DOMAIN rs
        BY <1>2, <1>4, <4>2 DEF RunToWorkOn, FitsOpenRun, Reportable
      <4> QED BY <4>1, <4>2
    <3> QED BY <1>3, <1>5, <2>1, <2>2, <2>8, <2>9, <3>1 DEF Brought
  <2>11. ASSUME NEW r \in VerdictRows(rs) PROVE Brought(all[d[r]], next[r[1]], r[2])
    <3>1. /\ r[1] \in DOMAIN rs /\ r[2] \in DOMAIN rs[r[1]].judgements
      BY VerdictRowIsPlace
    <3>2. c[r] \in VerdictReports(reports)
      BY <2>7 DEF Bijection, Surjection
    <3>3. all[d[r]] = reports[c[r]]
      BY <1>3, <2>9, <3>2 DEF VerdictReports
    <3>4. /\ next[r[1]].product = rs[r[1]].product
          /\ next[r[1]].judgements[r[2]] = rs[r[1]].judgements[r[2]]
      BY <1>2, <1>4, <1>5, <2>2, <3>1
    <3>5. Brought(reports[c[r]], rs[r[1]], r[2])
      BY DEF Carrier
    <3> QED BY <3>3, <3>4, <3>5 DEF Brought
  <2>12. Carrier(d, next, all)
    BY <2>4, <2>9, <2>10, <2>11 DEF Carrier
  <2> QED BY <2>12 DEF all
<1> QED BY <1>6, <1>7

\* next is the table without the entries of the product.
Lacks(next, table, product) ==
  /\ DOMAIN next = {k \in DOMAIN table : table[k].product # product}
  /\ \A k \in DOMAIN next : next[k] = table[k]

\* The runs and the reports of a product go together, and with them the pairs.
LEMMA DeletedVerdicts ==
  ASSUME NEW rs, NEW reports, NEW c, Carrier(c, rs, reports), NEW product,
         NEW next, Lacks(next, rs, product), NEW left, Lacks(left, reports, product)
  PROVE  \E d : Carrier(d, next, left)
<1> DEFINE S == VerdictRows(rs)
           T == VerdictReports(reports)
           R == VerdictRows(next)
           U == VerdictReports(left)
<1>1. /\ DOMAIN next = {i \in DOMAIN rs : rs[i].product # product}
      /\ \A i \in DOMAIN next : next[i] = rs[i]
  BY DEF Lacks
<1>2. /\ DOMAIN left = {e \in DOMAIN reports : reports[e].product # product}
      /\ \A e \in DOMAIN left : left[e] = reports[e]
  BY DEF Lacks
<1>3. \A row \in S : row \in R <=> rs[row[1]].product # product
  <2> SUFFICES ASSUME NEW row \in S PROVE row \in R <=> rs[row[1]].product # product
    OBVIOUS
  <2>1. /\ row = <<row[1], row[2]>> /\ row[1] \in DOMAIN rs
        /\ row[2] \in DOMAIN rs[row[1]].judgements
    BY VerdictRowIsPlace
  <2>2. ASSUME row \in R PROVE rs[row[1]].product # product
    <3>1. row[1] \in DOMAIN next
      BY <2>2, VerdictRowIsPlace
    <3> QED BY <1>1, <3>1
  <2>3. ASSUME rs[row[1]].product # product PROVE row \in R
    <3>1. row[1] \in DOMAIN next /\ row[2] \in DOMAIN next[row[1]].judgements
      BY <1>1, <2>1, <2>3
    <3> QED BY <2>1, <3>1, VerdictRowIsPlace
  <2> QED BY <2>2, <2>3
<1>4. R \subseteq S
  <2> SUFFICES ASSUME NEW row \in R PROVE row \in S
    OBVIOUS
  <2>1. /\ row = <<row[1], row[2]>> /\ row[1] \in DOMAIN next
        /\ row[2] \in DOMAIN next[row[1]].judgements
    BY VerdictRowIsPlace
  <2>2. row[1] \in DOMAIN rs /\ row[2] \in DOMAIN rs[row[1]].judgements
    BY <1>1, <2>1
  <2> QED BY <2>1, <2>2, VerdictRowIsPlace
<1>5. U \subseteq T /\ \A e \in T : e \in U <=> reports[e].product # product
  BY <1>2 DEF VerdictReports
<1>6. /\ c \in Bijection(S, T)
      /\ \A row \in S : c[row] \in T /\ Brought(reports[c[row]], rs[row[1]], row[2])
  BY DEF Carrier, Bijection, Surjection
<1>7. \A row \in S : row \in R <=> c[row] \in U
  <2> HIDE DEF S, T, R, U
  <2> QED BY <1>3, <1>5, <1>6 DEF Brought
<1>8. PICK d \in Bijection(R, U) : Agrees(d, c, R)
  <2> HIDE DEF S, T, R, U
  <2> QED BY <1>4, <1>5, <1>6, <1>7, BijectionShrinks
<1>9. ASSUME NEW row \in R PROVE Brought(left[d[row]], next[row[1]], row[2])
  <2>1. row \in S /\ c[row] \in U /\ d[row] = c[row]
    <3> HIDE DEF S, R, U
    <3> QED BY <1>4, <1>7, <1>8, <1>9 DEF Agrees
  <2>2. left[d[row]] = reports[c[row]]
    BY <1>2, <2>1 DEF VerdictReports
  <2>3. next[row[1]] = rs[row[1]]
    <3>1. row[1] \in DOMAIN next
      BY <1>9, VerdictRowIsPlace
    <3> QED BY <1>1, <3>1
  <2> HIDE DEF S, T, R, U
  <2> QED BY <1>6, <2>1, <2>2, <2>3
<1>10. Carrier(d, next, left)
  BY <1>8, <1>9 DEF Carrier
<1> QED BY <1>10

\* OneVerdictPerReport, said with Carrier.
LEMMA CarrierFound == OneVerdictPerReport <=> \E c : Carrier(c, runs, events)
  BY DEF OneVerdictPerReport, Carrier, Brought

LEMMA CarrierFoundNext == OneVerdictPerReport' <=> \E c : Carrier(c, runs', events')
  BY DEF OneVerdictPerReport, Carrier, Brought

\* There is no verdict to begin with.
LEMMA InitCarries == Init => OneVerdictPerReport
<1> SUFFICES ASSUME Init PROVE \E c : Carrier(c, runs, events)
  BY CarrierFound
<1>1. DOMAIN EmptyDict = {} /\ EmptyDict \in Bijection({}, {})
  BY DEF EmptyDict, Bijection, Injection, Surjection, IsInjective
<1> HIDE DEF EmptyDict
<1>2. VerdictRows(runs) = {} /\ VerdictReports(events) = {}
  BY <1>1 DEF Init, VerdictRows, VerdictReports
<1>3. Carrier(EmptyDict, runs, events)
  BY <1>1, <1>2 DEF Carrier
<1> QED BY <1>3

\* Every operation keeps each verdict with its report.
LEMMA NextCarries == RecorderInv /\ OneVerdictPerReport /\ [Next]_vars => OneVerdictPerReport'
<1> SUFFICES ASSUME RecorderInv, OneVerdictPerReport, [Next]_vars
             PROVE  \E c : Carrier(c, runs', events')
  BY CarrierFoundNext
<1> PICK c : Carrier(c, runs, events)
  BY CarrierFound
<1>1. ASSUME NEW id \in EventIds, NEW p \in Reports, Record(id, p)
      PROVE  \E d : Carrier(d, runs', events')
  <2>1. id \notin DOMAIN events /\ events' = Put(events, id, p) /\ runs' = Recorded(runs, p)
    BY <1>1 DEF Record
  <2>2. CASE p.state = "idle"
    <3>1. runs' = runs
      BY <2>1, <2>2 DEF Recorded
    <3>2. /\ VerdictReports(events') = VerdictReports(events)
          /\ \A e \in VerdictReports(events) : events'[e] = events[e]
      BY <2>1, <2>2 DEF VerdictReports, Put
    <3>3. Carrier(c, runs', events')
      BY <3>1, <3>2 DEF Carrier, Bijection, Surjection
    <3> QED BY <3>3
  <2>3. CASE p.state # "idle"
    <3>1. Reportable(p) /\ FitsOpenRun(runs, p)
      BY <1>1, <2>3, AcceptedReport DEF Record, Acceptable
    <3>2. Healthy(runs) /\ Continued(runs, p, runs')
      BY <2>1, <3>1, RecordedHistory DEF RecorderInv
    <3> QED BY <2>1, <3>1, <3>2, RecordedVerdicts
  <2> QED BY <2>2, <2>3
<1>2. ASSUME NEW product \in Products, NEW total \in 1..MaxTotal, UpdateProduct(product, total)
      PROVE  \E d : Carrier(d, runs', events')
  BY <1>2 DEF UpdateProduct
<1>3. ASSUME NEW product \in Products, DeleteProduct(product)
      PROVE  \E d : Carrier(d, runs', events')
  <2>1. Lacks(runs', runs, product) /\ Lacks(events', events, product)
    BY <1>3 DEF DeleteProduct, Without, Lacks
  <2> QED BY <2>1, DeletedVerdicts
<1>4. CASE UNCHANGED vars
  BY <1>4 DEF vars
<1> QED BY <1>1, <1>2, <1>3, <1>4 DEF Next

-----------------------------------------------------------------------------
(* The properties                                                          *)

\* The rows never leave their tables' shape, whatever the Jetson reports.
THEOREM RecorderTypeCorrect == Spec => []TypeOK
<1>1. RecorderInv => TypeOK
  <2> SUFFICES ASSUME RecorderInv PROVE TypeOK
    OBVIOUS
  <2>1. ASSUME NEW i \in DOMAIN runs
        PROVE  /\ i \in Nat \ {0}
               /\ runs[i].product \in Products
               /\ runs[i].result \in {"open", "pass", "defect"}
               /\ DOMAIN runs[i].steps \subseteq 1..MaxTotal
               /\ \A n \in DOMAIN runs[i].steps : runs[i].steps[n] \in StepRow
               /\ runs[i].judgements \in Seq(Judgement)
    <3>1. i \in Nat \ {0}
      BY DEF RecorderInv, Healthy
    <3>2. runs[i] \in Runs
      BY DEF RecorderInv, Healthy, Kept
    <3>3. runs[i].steps \in StepTables
      BY <3>2 DEF Runs
    <3>4. /\ DOMAIN runs[i].steps \subseteq 1..MaxTotal
          /\ \A n \in DOMAIN runs[i].steps : runs[i].steps[n] \in StepRow
      BY <3>3, StepTableFacts DEF RecorderInv
    <3> QED BY <3>1, <3>2, <3>4 DEF Runs
  <2> QED BY <2>1 DEF RecorderInv, TypeOK
<1> QED BY <1>1, RecorderInvariant, PTL

\* At most one run lacks completed_at, and it is the newest: the unit an employee
\* is on is never ambiguous.
THEOREM UnfinishedRunIsUnique == Spec => []OneUnfinishedRun
<1>1. RecorderInv => OneUnfinishedRun
  BY DEF RecorderInv, Healthy, OneUnfinishedRun
<1> QED BY <1>1, RecorderInvariant, PTL

\* No verdict is filed twice or lost, and none outlives the report that carried it,
\* however often reports are repeated and whatever products are deleted.
THEOREM VerdictsHaveTheirReports == Spec => []OneVerdictPerReport
  BY RecorderInvariant, InitCarries, NextCarries, PTL DEF Spec

\* A finished run leaves no step row open, and ended in a defect exactly if one of
\* its steps has the defect row.
THEOREM FinishedRunsAreClosed == Spec => []FinishedRunIsClosed
<1>1. RecorderInv => FinishedRunIsClosed
  BY DEF RecorderInv, Healthy, Kept, RunIsClosed, FinishedRunIsClosed
<1> QED BY <1>1, RecorderInvariant, PTL

\* The step a login resumes is open: a worker is never put on a step that is over.
THEOREM ResumedStepStaysOpen == Spec => []ResumedStepIsOpen
<1>1. RecorderInv => ResumedStepIsOpen
  <2> SUFFICES ASSUME RecorderInv, NEW i \in DOMAIN runs, runs[i].result = "open"
               PROVE  /\ runs[i].steps # EmptyDict
                      /\ runs[i].steps[LatestStep(runs[i])].open
    BY DEF ResumedStepIsOpen
  <2> DEFINE steps == runs[i].steps
             S == {0} \cup DOMAIN steps
  <2>1. runs[i] \in Runs /\ TopIsOpen(runs[i])
    BY DEF RecorderInv, Healthy, Kept
  <2>2. PICK top \in DOMAIN steps : steps[top].open /\ \A n \in DOMAIN steps : n <= top
    BY <2>1 DEF TopIsOpen
  <2>3. DOMAIN steps \subseteq Nat
    BY <2>1, StepTableFacts DEF Runs
  <2>4. S \in SUBSET Nat /\ top \in S /\ \A x \in S : x <= top
    BY <2>2, <2>3
  <2>5. LatestStep(runs[i]) = top
    <3>1. Max(S) = top
      <4> HIDE DEF S
      <4> QED BY <2>4, MaxIsGreatest
    <3> QED BY <3>1 DEF LatestStep
  <2>6. steps # EmptyDict
    <3>1. DOMAIN EmptyDict = {}
      BY DEF EmptyDict
    <3> QED BY <2>2, <3>1
  <2> QED BY <2>2, <2>5, <2>6
<1> QED BY <1>1, RecorderInvariant, PTL

\* A finished run never changes again unless its product is deleted.
THEOREM FinishedRunsAreFrozen == Spec => FinishedRunIsFrozen
<1> DEFINE Frozen == \A i \in DOMAIN runs : runs[i].result # "open" =>
                       \/ i \in DOMAIN runs' /\ runs'[i] = runs[i]
                       \/ \E product \in Products : DeleteProduct(product)
<1>1. RecorderInv /\ [Next]_vars => [Frozen]_vars
  <2> SUFFICES ASSUME RecorderInv, Next PROVE Frozen
    BY DEF Next
  <2>1. ASSUME NEW id \in EventIds, NEW p \in Reports, Record(id, p) PROVE Frozen
    BY <2>1, RecordKeeps
  <2>2. ASSUME NEW product \in Products, NEW total \in 1..MaxTotal, UpdateProduct(product, total)
        PROVE  Frozen
    BY <2>2, UpdateProductKeeps
  <2>3. ASSUME NEW product \in Products, DeleteProduct(product) PROVE Frozen
    BY <2>3
  <2> QED BY <2>1, <2>2, <2>3 DEF Next
<1> QED BY <1>1, RecorderInvariant, PTL DEF Spec, FinishedRunIsFrozen

=============================================================================
