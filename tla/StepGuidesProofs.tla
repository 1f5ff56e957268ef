--------------------------- MODULE StepGuidesProofs ---------------------------
(***************************************************************************)
(* Safety of the panel of reference images, for any number of products,    *)
(* steps and threads.  The signals of a thread decide it: its result comes *)
(* before its end, and a thread is not used again while one is queued, so  *)
(* that a result always names the key it was fetched for (Signalled).      *)
(***************************************************************************)
EXTENDS StepGuides, SequenceTheorems, TLAPS

\* The snapshots an operation leads to, as they are kept.
KeptWork ==
  /\ snapshot.total = Total
  /\ snapshot.result = "waiting" /\ snapshot.event = "init"
  /\ ~restored => ~Active(snapshot)

\* What the window remembers of its panel fits the panel and the work.
PanelFits ==
  /\ requested = IF Active(snapshot) THEN Key(snapshot) ELSE NoKey
  /\ ~Active(snapshot) => panel = Waiting /\ displayed = NoKey
  /\ panel.shows = "picture" =>
       /\ panel.picture = displayed
       /\ panel.picture \in Keys
       /\ panel.title = panel.picture[2]
       /\ panel.picture[1] = snapshot.product
       /\ panel.picture = Key(snapshot) \/ held # NoThread

\* A thread at work has a key.  Of the signals of one thread only "fetched", then
\* "finished" can be queued, and each is queued no sooner than it was sent.
SignalsOf(jobs, signals) ==
  /\ \A t \in Threads : jobs[t].stage # "free" => jobs[t].key \in Keys
  /\ \A i \in 1..Len(signals) :
       /\ signals[i].what = "fetched" => jobs[signals[i].thread].stage \in {"answered", "ended"}
       /\ signals[i].what = "finished" => jobs[signals[i].thread].stage = "ended"
  /\ \A i, j \in 1..Len(signals) :
       i < j /\ signals[i].thread = signals[j].thread =>
         signals[i].what = "fetched" /\ signals[j].what = "finished"

Signalled == SignalsOf(fetches, events)

\* The inductive invariant of the panel.
GuideInv == TypeOK /\ KeptWork /\ PanelFits /\ Signalled

-----------------------------------------------------------------------------
(* Operations of the controller                                            *)

\* An operation is refused, or publishes the snapshot it leads to, or publishes
\* how the work ended and then an idle snapshot.
Sound(operation) ==
  \/ operation = Refused(snapshot)
  \/ \E next \in Snapshots(Products, Total) :
       /\ operation = Published(next)
       /\ next.total = Total
       /\ next.result # "defect" /\ next.event \notin {"manual_defect", "complete"}
  \/ /\ operation.next \in Snapshots(Products, Total)
     /\ operation.next.total = Total
     /\ ~Active(operation.next)
     /\ operation.next.state = "idle"
     /\ operation.published # <<>>
     /\ \A i \in DOMAIN operation.published : ~Active(operation.published[i])

\* Another snapshot of the same work.
LEMMA NextIsSound ==
  ASSUME NEW next \in Snapshots(Products, Total), next.total = Total,
         next.result # "defect", next.event \notin {"manual_defect", "complete"}
  PROVE  Sound(Published(next)) /\ Published(next).next = next
  BY DEF Sound, Published

LEMMA RefusedIsSound == Sound(Refused(snapshot)) /\ Refused(snapshot).next = snapshot
  BY DEF Sound, Refused

\* The fields an operation writes are those of a snapshot again.
States == {"idle", "running", "paused", "complete"}
Results == {"waiting", "pass", "fail", "defect"}
EventNames == {"init", "restore", "start", "pause", "resume",
               "manual_defect", "ai_fail", "step_pass", "complete"}

LEMMA EditIsTyped ==
  ASSUME NEW s \in Snapshots(Products, Total),
         NEW n \in 0..Total, NEW st \in States, NEW r \in Results, NEW e \in EventNames
  PROVE  [s EXCEPT !.step = n, !.state = st, !.result = r, !.event = e]
           \in Snapshots(Products, Total)
<1> DEFINE totals == 1..Total
           steps == 0..Total
<1>1. Snapshots(Products, Total) =
        [product : Products, total : totals, step : steps,
         state : States, result : Results, event : EventNames]
  BY DEF Snapshots, States, Results, EventNames
<1> HIDE DEF totals
<1>2. n \in steps
  OBVIOUS
<1> HIDE DEF steps
<1>3. s \in [product : Products, total : totals, step : steps,
            state : States, result : Results, event : EventNames]
  BY <1>1
<1>4. [s EXCEPT !.step = n, !.state = st, !.result = r, !.event = e]
        \in [product : Products, total : totals, step : steps,
            state : States, result : Results, event : EventNames]
  BY <1>2, <1>3
<1> QED BY <1>1, <1>4

\* Work that has ended.
LEMMA EndIsSound ==
  ASSUME NEW s \in Snapshots(Products, Total), s.total = Total, ~Active(s)
  PROVE  Sound(Ended(s)) /\ Ended(s).next.product = s.product
<1>1. IdleAgain(s) \in Snapshots(Products, Total) /\ IdleAgain(s).total = Total
      /\ IdleAgain(s).product = s.product /\ IdleAgain(s).state = "idle"
  <2>1. IdleAgain(s) \in Snapshots(Products, Total)
    <3>1. 0 \in 0..Total /\ "idle" \in States /\ "waiting" \in Results /\ "init" \in EventNames
      BY GuideAssumption DEF States, Results, EventNames
    <3> QED BY <3>1, EditIsTyped DEF IdleAgain
  <2> QED BY <2>1 DEF IdleAgain, Snapshots
<1>2. ~Active(IdleAgain(s))
  BY <1>1 DEF Active
<1>3. Ended(s).next = IdleAgain(s) /\ Ended(s).published = <<s, IdleAgain(s)>>
  BY DEF Ended
<1>4. \A i \in DOMAIN Ended(s).published : ~Active(Ended(s).published[i])
  BY <1>2, <1>3
<1>5. Ended(s).published # <<>>
  BY <1>3
<1> QED BY <1>1, <1>2, <1>3, <1>4, <1>5 DEF Sound

LEMMA MoveIsSound ==
  ASSUME snapshot \in Snapshots(Products, Total), snapshot.total = Total,
         snapshot.result = "waiting", snapshot.event = "init"
  PROVE  /\ Sound(Start(snapshot)) /\ Start(snapshot).next.product = snapshot.product
         /\ Sound(Pause(snapshot)) /\ Pause(snapshot).next.product = snapshot.product
         /\ Sound(Resume(snapshot)) /\ Resume(snapshot).next.product = snapshot.product
<1> DEFINE begun   == [snapshot EXCEPT !.step = 1, !.state = "running",
                                       !.result = "waiting", !.event = "start"]
           paused  == [snapshot EXCEPT !.state = "paused", !.event = "pause"]
           resumed == [snapshot EXCEPT !.state = "running", !.event = "resume"]
<1>1. /\ begun \in Snapshots(Products, Total) /\ begun.total = Total /\ begun.result = "waiting"
      /\ begun.event = "start" /\ begun.product = snapshot.product
  <2>1. begun \in Snapshots(Products, Total)
    <3>1. 1 \in 0..Total /\ "running" \in States /\ "waiting" \in Results
          /\ "start" \in EventNames
      BY GuideAssumption DEF States, Results, EventNames
    <3> QED BY <3>1, EditIsTyped
  <2> QED BY <2>1 DEF Snapshots
<1>2. /\ paused \in Snapshots(Products, Total) /\ paused.total = Total
      /\ paused.result = "waiting" /\ paused.event = "pause" /\ paused.product = snapshot.product
  BY DEF Snapshots
<1>3. /\ resumed \in Snapshots(Products, Total) /\ resumed.total = Total
      /\ resumed.result = "waiting" /\ resumed.event = "resume"
      /\ resumed.product = snapshot.product
  BY DEF Snapshots
<1>4. /\ Sound(Published(begun)) /\ Published(begun).next = begun
      /\ Sound(Published(paused)) /\ Published(paused).next = paused
      /\ Sound(Published(resumed)) /\ Published(resumed).next = resumed
  <2> HIDE DEF begun, paused, resumed
  <2> QED BY <1>1, <1>2, <1>3, NextIsSound
<1>5. Sound(Resume(snapshot)) /\ Resume(snapshot).next.product = snapshot.product
  BY <1>3, <1>4, RefusedIsSound DEF Resume
<1>6. Sound(Start(snapshot)) /\ Start(snapshot).next.product = snapshot.product
  BY <1>1, <1>4, <1>5 DEF Start
<1>7. Sound(Pause(snapshot)) /\ Pause(snapshot).next.product = snapshot.product
  BY <1>2, <1>4, RefusedIsSound DEF Pause
<1> QED BY <1>5, <1>6, <1>7

LEMMA DefectIsSound ==
  ASSUME snapshot \in Snapshots(Products, Total), snapshot.total = Total
  PROVE  /\ Sound(RegisterDefect(snapshot))
         /\ RegisterDefect(snapshot).next.product = snapshot.product
<1> DEFINE s == [snapshot EXCEPT !.result = "defect", !.event = "manual_defect"]
<1>1. /\ s \in Snapshots(Products, Total) /\ s.total = Total /\ s.product = snapshot.product
      /\ s.result = "defect"
  BY DEF Snapshots
<1>2. Sound(Ended(s)) /\ Ended(s).next.product = s.product
  <2> HIDE DEF s
  <2> QED BY <1>1, EndIsSound DEF Active
<1> QED BY <1>1, <1>2, RefusedIsSound DEF RegisterDefect

LEMMA JudgementIsSound ==
  ASSUME snapshot \in Snapshots(Products, Total), snapshot.total = Total,
         snapshot.result = "waiting", NEW verdict \in {"PASS", "FAIL"}
  PROVE  /\ Sound(ApplyJudgement(snapshot, verdict))
         /\ ApplyJudgement(snapshot, verdict).next.product = snapshot.product
<1> DEFINE failed == [snapshot EXCEPT !.result = "fail", !.event = "ai_fail"]
           done   == [snapshot EXCEPT !.state = "complete", !.result = "pass",
                                      !.event = "complete"]
           passed == [snapshot EXCEPT !.step = @ + 1, !.result = "waiting",
                                      !.event = "step_pass"]
           result == ApplyJudgement(snapshot, verdict)
<1>5. snapshot.step \in Int /\ snapshot.total \in Int
  BY GuideAssumption DEF Snapshots
<1>1. CASE snapshot.state # "running"
  <2>1. result = Refused(snapshot)
    BY <1>1 DEF ApplyJudgement
  <2> QED BY <2>1, RefusedIsSound
<1>2. CASE snapshot.state = "running" /\ verdict = "FAIL"
  <2>1. result = Published(failed)
    BY <1>2 DEF ApplyJudgement
  <2>2. /\ failed \in Snapshots(Products, Total) /\ failed.total = Total
        /\ failed.result = "fail" /\ failed.event = "ai_fail"
        /\ failed.product = snapshot.product
    BY DEF Snapshots
  <2>3. Sound(Published(failed)) /\ Published(failed).next = failed
    <3> HIDE DEF failed
    <3> QED BY <2>2, NextIsSound
  <2> QED BY <2>1, <2>2, <2>3
<1>3. CASE snapshot.state = "running" /\ verdict = "PASS" /\ snapshot.step >= snapshot.total
  <2>1. result = Ended(done)
    BY <1>3, <1>5 DEF ApplyJudgement
  <2>2. /\ done \in Snapshots(Products, Total) /\ done.total = Total
        /\ done.product = snapshot.product /\ done.state = "complete"
    BY DEF Snapshots
  <2>3. Sound(Ended(done)) /\ Ended(done).next.product = done.product
    <3> HIDE DEF done
    <3> QED BY <2>2, EndIsSound DEF Active
  <2> QED BY <2>1, <2>2, <2>3
<1>4. CASE snapshot.state = "running" /\ verdict = "PASS" /\ snapshot.step < snapshot.total
  <2>1. result = Published(passed)
    BY <1>4, <1>5 DEF ApplyJudgement
  <2>2. /\ passed \in Snapshots(Products, Total) /\ passed.total = Total
        /\ passed.result = "waiting" /\ passed.event = "step_pass"
        /\ passed.product = snapshot.product
    <3>1. snapshot.step + 1 \in 0..Total
      BY <1>4, GuideAssumption DEF Snapshots
    <3> QED BY <3>1 DEF Snapshots
  <2>3. Sound(Published(passed)) /\ Published(passed).next = passed
    <3> HIDE DEF passed
    <3> QED BY <2>2, NextIsSound
  <2> QED BY <2>1, <2>2, <2>3
<1>6. snapshot.step >= snapshot.total \/ snapshot.step < snapshot.total
  BY <1>5
<1> QED BY <1>1, <1>2, <1>3, <1>4, <1>6

LEMMA ConfigureIsSound ==
  ASSUME NEW product \in Products
  PROVE  /\ Sound(Configure(product, Total))
         /\ Configure(product, Total).published # <<>>
         /\ Configure(product, Total).next.state = "idle"
<1> DEFINE s == [product |-> product, total |-> Total, step |-> 0, state |-> "idle",
                 result |-> "waiting", event |-> "init"]
<1>1. /\ s \in Snapshots(Products, Total) /\ s.total = Total /\ s.state = "idle"
      /\ s.result = "waiting" /\ s.event = "init"
  BY GuideAssumption DEF Snapshots
<1>2. Configure(product, Total) = Published(s)
  BY DEF Configure
<1>3. Sound(Published(s)) /\ Published(s).next = s
  <2> HIDE DEF s
  <2> QED BY <1>1, NextIsSound
<1>4. Published(s).published # <<>>
  BY DEF Published
<1> QED BY <1>1, <1>2, <1>3, <1>4

\* A saved step is in the product: it is not clamped.
LEMMA RestoreIsSound ==
  ASSUME NEW saved \in [product : Products, total : {Total}, step : 1..Total,
                        state : {"running", "paused"}, result : {"waiting", "fail"}]
  PROVE  Sound(RestoreState(saved))
<1> DEFINE step == Max({1, Min({saved.total, saved.step})})
           s == [product |-> saved.product, total |-> saved.total, step |-> step,
                 state |-> saved.state, result |-> saved.result, event |-> "restore"]
<1>1. saved.total = Total /\ saved.step \in 1..Total /\ Total \in Nat
  BY GuideAssumption
<1>2. Min({saved.total, saved.step}) = saved.step
  <2>1. \A y \in {saved.total, saved.step} : saved.step =< y
    BY <1>1
  <2>2. \A x \in {saved.total, saved.step} :
          (\A y \in {saved.total, saved.step} : x =< y) => x = saved.step
    BY <1>1
  <2> QED BY <2>1, <2>2 DEF Min
<1>3. Max({1, saved.step}) = saved.step
  <2>1. \A y \in {1, saved.step} : saved.step >= y
    BY <1>1
  <2>2. \A x \in {1, saved.step} : (\A y \in {1, saved.step} : x >= y) => x = saved.step
    BY <1>1
  <2> QED BY <2>1, <2>2 DEF Max
<1>4. step = saved.step
  BY <1>2, <1>3
<1>5. /\ s \in Snapshots(Products, Total) /\ s.total = Total
      /\ s.result # "defect" /\ s.event = "restore"
  <2> HIDE DEF step
  <2> QED BY <1>1, <1>4, GuideAssumption DEF Snapshots
<1>6. RestoreState(saved) = Published(s)
  BY DEF RestoreState
<1>7. Sound(Published(s))
  <2> HIDE DEF s
  <2> QED BY <1>5, NextIsSound
<1> QED BY <1>6, <1>7

-----------------------------------------------------------------------------
(* Requests and clearing                                                   *)

Jobs == [key : Keys \cup {NoKey}, stage : {"free", "fetching", "answered", "ended"}]

LEMMA GuideTypes ==
  ASSUME TypeOK
  PROVE  /\ requested \in Keys \cup {NoKey} /\ displayed \in Keys \cup {NoKey}
         /\ cache \subseteq Keys /\ panel \in Panels /\ held \in Threads \cup {NoThread}
         /\ fetches \in [Threads -> Jobs] /\ events \in Seq(Signals)
         /\ snapshot \in Snapshots(Products, Total)
         /\ NoKey \notin Keys /\ NoThread \notin Threads /\ Total \in Nat \ {0}
  BY GuideAssumption DEF TypeOK, Jobs

\* Texts and pictures for a panel.
LEMMA PanelTypes ==
  /\ Waiting \in Panels /\ Waiting.shows = "waiting"
  /\ \A key \in Keys :
       /\ Text(key[2], "loading") \in Panels /\ Text(key[2], "loading").shows = "loading"
       /\ Text(key[2], "nothing") \in Panels /\ Text(key[2], "nothing").shows = "nothing"
       /\ Picture(key) \in Panels /\ Picture(key).picture = key
       /\ Picture(key).title = key[2] /\ Picture(key).shows = "picture"
<1>1. \A key \in Keys : key[2] \in 0..Total
  BY GuideAssumption DEF Keys
<1>2. 0 \in 0..Total
  BY GuideAssumption
<1>3. \A n \in 0..Total : \A text \in {"waiting", "loading", "nothing"} :
        Text(n, text) \in Panels /\ Text(n, text).shows = text
  BY DEF Text, Panels
<1>4. \A key \in Keys :
        /\ Picture(key) \in Panels /\ Picture(key).picture = key
        /\ Picture(key).title = key[2] /\ Picture(key).shows = "picture"
  BY <1>1 DEF Picture, Panels
<1> QED BY <1>1, <1>2, <1>3, <1>4 DEF Waiting

\* A request leaves a panel that fits the work it is made for.
LEMMA RequestFits ==
  ASSUME TypeOK, PanelFits,
         NEW key \in Keys, NEW keeper \in Threads \cup {NoThread}, NEW jobs,
         RequestGuide(key, keeper, jobs),
         Active(snapshot)', key = Key(snapshot)', cache' \subseteq Keys,
         panel.shows = "picture" => panel.picture[1] = key[1]
  PROVE  /\ PanelFits'
         /\ requested' \in Keys \cup {NoKey} /\ displayed' \in Keys \cup {NoKey}
         /\ panel' \in Panels /\ held' \in Threads \cup {NoThread}
<1> USE GuideTypes, PanelTypes
<1>1. requested' = key
  BY DEF RequestGuide
<1>2. key[1] = snapshot'.product
  BY DEF Key
<1>3. CASE displayed = key /\ held' = keeper /\ UNCHANGED <<displayed, panel>>
  BY <1>1, <1>2, <1>3 DEF PanelFits
<1>4. CASE displayed # key /\ displayed' = key /\ panel' = Picture(key) /\ held' = keeper
  BY <1>1, <1>2, <1>4 DEF PanelFits
<1>5. CASE displayed # key /\ Running(keeper) /\ held' = keeper /\ UNCHANGED <<displayed, panel>>
  <2>1. keeper # NoThread
    BY <1>5 DEF Running
  <2> QED BY <1>1, <1>2, <1>5, <2>1 DEF PanelFits
<1>6. CASE displayed # key /\ panel' = Text(key[2], "loading") /\ held' \in Threads
           /\ UNCHANGED displayed
  BY <1>1, <1>2, <1>6 DEF PanelFits
<1> QED BY <1>3, <1>4, <1>5, <1>6 DEF RequestGuide

\* A request takes at most a thread that is free.
LEMMA RequestTakes ==
  ASSUME NEW key \in Keys, NEW keeper, NEW jobs \in [Threads -> Jobs],
         RequestGuide(key, keeper, jobs),
         NEW signals \in Seq(Signals), SignalsOf(jobs, signals)
  PROVE  fetches' \in [Threads -> Jobs] /\ SignalsOf(fetches', signals)
<1>1. CASE fetches' = jobs
  BY <1>1
<1>2. ASSUME NEW t \in Threads, jobs[t] = Free,
             fetches' = [jobs EXCEPT ![t] = [key |-> key, stage |-> "fetching"]]
      PROVE  fetches' \in [Threads -> Jobs] /\ SignalsOf(fetches', signals)
  <2>1. [key |-> key, stage |-> "fetching"] \in Jobs
    BY DEF Jobs
  <2>2. fetches' \in [Threads -> Jobs]
    BY <1>2, <2>1
  <2>3. jobs[t].stage = "free"
    BY <1>2 DEF Free
  <2>4. \A i \in 1..Len(signals) :
          /\ signals[i].thread \in Threads
          /\ signals[i].what \in {"fetched", "finished"}
    <3>1. \A i \in 1..Len(signals) : signals[i] \in Signals
      OBVIOUS
    <3> QED BY <3>1 DEF Signals
  <2>5. \A i \in 1..Len(signals) : signals[i].thread # t
    BY <2>3, <2>4 DEF SignalsOf
  <2>6. \A i \in 1..Len(signals) :
          fetches'[signals[i].thread] = jobs[signals[i].thread]
    BY <1>2, <2>4, <2>5
  <2>7. \A u \in Threads : fetches'[u].stage # "free" => fetches'[u].key \in Keys
    BY <1>2 DEF SignalsOf
  <2> QED BY <2>2, <2>6, <2>7 DEF SignalsOf
<1> QED BY <1>1, <1>2 DEF RequestGuide

\* What an operation of the controller does to the panel.
LEMMA OperateFits ==
  ASSUME GuideInv, NEW operation, Sound(operation), Operate(operation),
         cache' \subseteq Keys, restored' \in BOOLEAN, listing' \in BOOLEAN, over' \in BOOLEAN,
         \/ operation.next.product = snapshot.product
         \/ ~restored
         \/ operation.next.state = "idle" /\ operation.published # <<>>,
         restored'
  PROVE  GuideInv'
<1> USE GuideTypes DEF GuideInv
<1> DEFINE next == operation.next
<1>1. events' = events /\ snapshot' = Kept(next)
  BY DEF Operate
<1>2. CASE operation = Refused(snapshot)
  <2>1. next = snapshot /\ operation.published = <<>>
    BY <1>2 DEF Refused
  <2>2. Kept(snapshot) = snapshot
    BY DEF Kept, KeptWork, Snapshots
  <2>3. snapshot' = snapshot /\ UNCHANGED <<requested, displayed, panel, held, fetches, events>>
    BY <1>1, <2>1, <2>2 DEF Operate
  <2>4. TypeOK'
    BY <2>3 DEF TypeOK
  <2>5. KeptWork'
    BY <2>3 DEF KeptWork, Active
  <2>6. PanelFits' /\ Signalled'
    BY <2>3 DEF PanelFits, Signalled, SignalsOf, Active, Key
  <2> QED BY <2>4, <2>5, <2>6
<1>3. ASSUME next \in Snapshots(Products, Total), next.total = Total, restored'
      PROVE  /\ snapshot' \in Snapshots(Products, Total) /\ KeptWork'
             /\ snapshot'.product = next.product /\ snapshot'.step = next.step
             /\ snapshot'.state = next.state
  BY <1>1, <1>3 DEF Kept, KeptWork, Snapshots
<1>4. ASSUME next \in Snapshots(Products, Total), next.total = Total, restored',
             ~Active(snapshot'), ClearGuide
      PROVE  GuideInv'
  <2>1. UNCHANGED <<held, fetches>> /\ requested' = NoKey /\ displayed' = NoKey /\ panel' = Waiting
    BY <1>4 DEF ClearGuide
  <2>2. panel' \in Panels /\ panel'.shows # "picture"
    BY <2>1, PanelTypes
  <2>3. TypeOK'
    BY <1>1, <1>3, <1>4, <2>1, <2>2 DEF TypeOK
  <2>4. PanelFits'
    BY <1>4, <2>1, <2>2 DEF PanelFits
  <2>5. Signalled'
    BY <1>1, <2>1 DEF Signalled
  <2> QED BY <1>3, <1>4, <2>3, <2>4, <2>5
<1>5. ASSUME next \in Snapshots(Products, Total), next.total = Total,
             operation.published = <<next>>,
             next.result # "defect", next.event \notin {"manual_defect", "complete"}
      PROVE  GuideInv'
  <2>1. restored'
    OBVIOUS
  <2>2. Active(snapshot') <=> Active(next)
    BY <1>1, <1>3, <1>5, <2>1 DEF Active, KeptWork
  <2>3. CASE ~Active(next)
    <3>1. ClearGuide
      BY <1>5, <2>3 DEF Operate
    <3> QED BY <1>4, <1>5, <2>1, <2>2, <2>3, <3>1
  <2>4. CASE Active(next)
    <3>1. RequestGuide(Key(next), held, fetches)
      BY <1>5, <2>4 DEF Operate
    <3>2. Key(next) \in Keys /\ Key(next) = Key(snapshot')
      BY <1>3, <1>5, <2>1, <2>4 DEF Active, Key, Keys, Snapshots
    <3>3. panel.shows = "picture" => panel.picture[1] = Key(next)[1]
      <4>1. ~restored => panel.shows # "picture"
        BY PanelTypes DEF KeptWork, PanelFits
      <4>2. next.state # "idle"
        BY <2>4 DEF Active
      <4> QED BY <4>1, <4>2 DEF PanelFits, Key
    <3>4. /\ PanelFits'
          /\ requested' \in Keys \cup {NoKey} /\ displayed' \in Keys \cup {NoKey}
          /\ panel' \in Panels /\ held' \in Threads \cup {NoThread}
      BY <2>2, <2>4, <3>1, <3>2, <3>3, RequestFits
    <3>5. fetches' \in [Threads -> Jobs] /\ SignalsOf(fetches', events)
      BY <3>1, <3>2, RequestTakes DEF Signalled
    <3>6. TypeOK'
      BY <1>1, <1>3, <1>5, <2>1, <3>4, <3>5 DEF TypeOK, Jobs
    <3> QED BY <1>1, <1>3, <1>5, <2>1, <3>4, <3>5, <3>6 DEF Signalled
  <2> QED BY <2>3, <2>4
<1>6. CASE /\ next \in Snapshots(Products, Total) /\ next.total = Total
           /\ ~Active(next) /\ next.state = "idle" /\ operation.published # <<>>
           /\ \A i \in DOMAIN operation.published : ~Active(operation.published[i])
  <2>1. restored' /\ ClearGuide
    BY <1>6 DEF Operate
  <2>2. ~Active(snapshot')
    BY <1>3, <1>6, <2>1 DEF Active
  <2> QED BY <1>4, <1>6, <2>1, <2>2
<1>7. ASSUME NEW n \in Snapshots(Products, Total), operation = Published(n),
             n.total = Total, n.result # "defect", n.event \notin {"manual_defect", "complete"}
      PROVE  GuideInv'
  <2>1. next = n /\ operation.published = <<n>>
    BY <1>7 DEF Published
  <2> QED BY <1>5, <1>7, <2>1
<1> QED BY <1>2, <1>6, <1>7 DEF Sound

-----------------------------------------------------------------------------
(* The actions                                                             *)

LEMMA StartKeeps == ASSUME GuideInv, StartWork PROVE GuideInv'
<1>1. Sound(Start(snapshot)) /\ Start(snapshot).next.product = snapshot.product
  BY MoveIsSound DEF GuideInv, TypeOK, KeptWork
<1>2. Operate(Start(snapshot)) /\ restored' /\ cache' = cache /\ listing' = listing
  BY DEF StartWork
<1>3. over' \in BOOLEAN
  BY DEF StartWork, GuideInv, TypeOK
<1> QED BY <1>1, <1>2, <1>3, OperateFits DEF GuideInv, TypeOK

LEMMA GoOnKeeps == ASSUME GuideInv, GoOn PROVE GuideInv'
<1>1. restored' /\ cache' = cache /\ listing' = listing
  BY DEF GoOn
<1>2. over' \in BOOLEAN
  BY DEF GoOn, GuideInv, TypeOK
<1>3. ASSUME NEW operation, Sound(operation), operation.next.product = snapshot.product,
             Operate(operation)
      PROVE  GuideInv'
  BY <1>1, <1>2, <1>3, OperateFits DEF GuideInv, TypeOK
<1>4. CASE \E verdict \in {"PASS", "FAIL"} : Operate(ApplyJudgement(snapshot, verdict))
  BY <1>3, <1>4, JudgementIsSound DEF GuideInv, TypeOK, KeptWork
<1>5. CASE Operate(Pause(snapshot))
  BY <1>3, <1>5, MoveIsSound DEF GuideInv, TypeOK, KeptWork
<1>6. CASE Operate(Resume(snapshot))
  BY <1>3, <1>6, MoveIsSound DEF GuideInv, TypeOK, KeptWork
<1>7. CASE Operate(RegisterDefect(snapshot))
  BY <1>3, <1>7, DefectIsSound DEF GuideInv, TypeOK, KeptWork
<1> QED BY <1>4, <1>5, <1>6, <1>7 DEF GoOn

LEMMA ChangeKeeps ==
  ASSUME GuideInv, ChangeProduct, restored', listing' \in BOOLEAN, restored' \in BOOLEAN
  PROVE  GuideInv'
<1>1. PICK product \in Products : Operate(Configure(product, Total))
  BY DEF ChangeProduct
<1>2. cache' \subseteq Keys /\ over' \in BOOLEAN
  BY DEF ChangeProduct
<1> QED BY <1>1, <1>2, ConfigureIsSound, OperateFits

LEMMA FirstKeeps == ASSUME GuideInv, FirstProducts PROVE GuideInv'
<1>1. ~restored /\ restored' = TRUE /\ listing' = FALSE
  BY DEF FirstProducts
<1>2. CASE ChangeProduct
  BY <1>1, <1>2, ChangeKeeps
<1>3. ASSUME NEW saved \in [product : Products, total : {Total}, step : 1..Total,
                            state : {"running", "paused"}, result : {"waiting", "fail"}],
             Operate(RestoreState(saved)), UNCHANGED <<cache, over>>
      PROVE  GuideInv'
  BY <1>1, <1>3, RestoreIsSound, OperateFits DEF GuideInv, TypeOK
<1> QED BY <1>2, <1>3 DEF FirstProducts

LEMMA ListKeeps ==
  ASSUME GuideInv, RefreshProducts \/ NoProducts
  PROVE  GuideInv'
<1> USE GuideTypes DEF GuideInv
<1>1. UNCHANGED <<snapshot, restored, over, requested, panel, held, fetches, events>>
  BY DEF RefreshProducts, NoProducts, guide
<1>2. listing' \in BOOLEAN /\ cache' \subseteq Keys
  BY DEF RefreshProducts, NoProducts, guide, TypeOK
<1>3. displayed' = displayed \/ (displayed' = NoKey /\ ~Active(snapshot))
  BY DEF RefreshProducts, NoProducts, guide, Idle, Active
<1>4. TypeOK'
  BY <1>1, <1>2, <1>3 DEF TypeOK
<1>5. KeptWork'
  BY <1>1 DEF KeptWork, Active
<1>6. PanelFits'
  BY <1>1, <1>3, PanelTypes DEF PanelFits, Active, Key
<1>7. Signalled'
  BY <1>1 DEF Signalled
<1> QED BY <1>4, <1>5, <1>6, <1>7

\* The queue after its first signal.
LEMMA TailOfSignals ==
  ASSUME events \in Seq(Signals), events # <<>>, SignalsOf(fetches, events)
  PROVE  /\ Tail(events) \in Seq(Signals) /\ SignalsOf(fetches, Tail(events))
         /\ Head(events) \in Signals
         /\ Head(events).what = "fetched" =>
              fetches[Head(events).thread].stage \in {"answered", "ended"}
         /\ Head(events).what = "finished" =>
              \A i \in 1..Len(Tail(events)) : Tail(events)[i].thread # Head(events).thread
<1>1. /\ Tail(events) \in Seq(Signals) /\ Len(Tail(events)) = Len(events) - 1
      /\ Len(events) \in Nat /\ 1 \in 1..Len(events) /\ Head(events) = events[1]
  OBVIOUS
<1>2. \A i \in 1..Len(Tail(events)) : Tail(events)[i] = events[i + 1]
  OBVIOUS
<1>3. \A i \in 1..Len(Tail(events)) : i + 1 \in 1..Len(events) /\ 1 < i + 1
  BY <1>1
<1>4. SignalsOf(fetches, Tail(events))
  <2>1. \A i, j \in 1..Len(Tail(events)) : i < j => i + 1 < j + 1
    BY <1>1
  <2> QED BY <1>2, <1>3, <2>1 DEF SignalsOf
<1>5. Head(events) \in Signals
  BY <1>1
<1>6. \A i \in 1..Len(Tail(events)) :
        Tail(events)[i].thread = Head(events).thread => Head(events).what = "fetched"
  BY <1>1, <1>2, <1>3 DEF SignalsOf
<1> QED BY <1>1, <1>4, <1>5, <1>6 DEF SignalsOf

\* A thread goes on by one stage and queues its signal.
LEMMA QueueKeeps ==
  ASSUME GuideInv, NEW t \in Threads, NEW signal \in Signals, signal.thread = t,
         events' = Append(events, signal), UNCHANGED <<work, guide>>,
         \/ /\ fetches[t].stage = "fetching" /\ signal.what = "fetched"
            /\ fetches' = [fetches EXCEPT ![t].stage = "answered"]
         \/ /\ fetches[t].stage = "answered" /\ signal.what = "finished"
            /\ fetches' = [fetches EXCEPT ![t].stage = "ended"]
  PROVE  GuideInv'
<1> USE GuideTypes DEF GuideInv
<1>1. /\ Len(events) \in Nat /\ events' \in Seq(Signals) /\ Len(events') = Len(events) + 1
      /\ events'[Len(events) + 1] = signal
      /\ \A i \in 1..Len(events) : events'[i] = events[i] /\ events[i] \in Signals
  OBVIOUS
<1>2. \A u \in Threads \ {t} : fetches'[u] = fetches[u]
  OBVIOUS
<1>3. /\ fetches'[t].key = fetches[t].key
      /\ fetches'[t].stage = IF signal.what = "fetched" THEN "answered" ELSE "ended"
      /\ fetches[t].stage # "free"
      /\ fetches' \in [Threads -> Jobs]
  <2>1. fetches[t] \in Jobs
    OBVIOUS
  <2>2. \A stage \in {"answered", "ended"} :
          /\ [fetches[t] EXCEPT !.stage = stage] \in Jobs
          /\ [fetches[t] EXCEPT !.stage = stage].key = fetches[t].key
          /\ [fetches[t] EXCEPT !.stage = stage].stage = stage
    BY <2>1 DEF Jobs
  <2>3. PICK stage \in {"answered", "ended"} :
          /\ fetches' = [fetches EXCEPT ![t].stage = stage]
          /\ stage = IF signal.what = "fetched" THEN "answered" ELSE "ended"
    OBVIOUS
  <2>4. fetches'[t] = [fetches[t] EXCEPT !.stage = stage]
    BY <2>3
  <2>5. fetches' \in [Threads -> Jobs]
    BY <2>2, <2>3
  <2>6. fetches[t].stage # "free"
    OBVIOUS
  <2> QED BY <2>2, <2>3, <2>4, <2>5, <2>6
<1>4. \A i \in 1..Len(events) :
        events[i].thread \in Threads /\ events[i].what \in {"fetched", "finished"}
  BY <1>1 DEF Signals
<1>5. \A i \in 1..Len(events) : events[i].thread = t =>
        events[i].what = "fetched" /\ signal.what = "finished"
  BY <1>4 DEF Signalled, SignalsOf
<1>6. SignalsOf(fetches', events')
  <2>1. \A u \in Threads : fetches'[u].stage # "free" => fetches'[u].key \in Keys
    BY <1>2, <1>3 DEF Signalled, SignalsOf
  <2>2. ASSUME NEW i \in 1..Len(events')
        PROVE  /\ events'[i].what = "fetched" =>
                    fetches'[events'[i].thread].stage \in {"answered", "ended"}
               /\ events'[i].what = "finished" => fetches'[events'[i].thread].stage = "ended"
    <3>1. CASE i = Len(events) + 1
      BY <1>1, <1>3, <3>1
    <3>2. CASE i \in 1..Len(events) /\ events[i].thread = t
      BY <1>1, <1>3, <1>5, <3>2
    <3>3. CASE i \in 1..Len(events) /\ events[i].thread # t
      BY <1>1, <1>2, <1>4, <3>3 DEF Signalled, SignalsOf
    <3> QED BY <1>1, <3>1, <3>2, <3>3
  <2>3. ASSUME NEW i \in 1..Len(events'), NEW j \in 1..Len(events'),
               i < j, events'[i].thread = events'[j].thread
        PROVE  events'[i].what = "fetched" /\ events'[j].what = "finished"
    <3>1. i \in 1..Len(events)
      BY <1>1, <2>3
    <3>2. CASE j = Len(events) + 1
      BY <1>1, <1>5, <2>3, <3>1, <3>2
    <3>3. CASE j \in 1..Len(events)
      BY <1>1, <2>3, <3>1, <3>3 DEF Signalled, SignalsOf
    <3> QED BY <1>1, <3>2, <3>3
  <2> QED BY <2>1, <2>2, <2>3 DEF SignalsOf
<1>7. TypeOK'
  BY <1>1, <1>3 DEF TypeOK, Jobs, work, guide
<1>8. KeptWork' /\ PanelFits'
  BY DEF KeptWork, PanelFits, Active, Key, work, guide
<1> QED BY <1>6, <1>7, <1>8 DEF Signalled

LEMMA ThreadKeeps ==
  ASSUME GuideInv, NEW t \in Threads, FetchAnswered(t) \/ FetchEnds(t)
  PROVE  GuideInv'
<1>1. ASSUME FetchAnswered(t) PROVE GuideInv'
  <2>1. PICK image \in BOOLEAN :
          events' = Append(events, [thread |-> t, what |-> "fetched", image |-> image])
    BY <1>1 DEF FetchAnswered, Queue
  <2>2. [thread |-> t, what |-> "fetched", image |-> image] \in Signals
    BY DEF Signals
  <2> QED BY <1>1, <2>1, <2>2, QueueKeeps DEF FetchAnswered
<1>2. ASSUME FetchEnds(t) PROVE GuideInv'
  <2>1. [thread |-> t, what |-> "finished", image |-> FALSE] \in Signals
    BY DEF Signals
  <2> QED BY <1>2, <2>1, QueueKeeps DEF FetchEnds, Queue
<1> QED BY <1>1, <1>2

LEMMA FetchedKeeps == ASSUME GuideInv, Fetched PROVE GuideInv'
<1> USE GuideTypes, PanelTypes DEF GuideInv
<1> DEFINE key == fetches[Head(events).thread].key
<1>1. /\ events # <<>> /\ Head(events).what = "fetched" /\ events' = Tail(events)
      /\ UNCHANGED <<work, requested, held, fetches>>
  BY DEF Fetched, Handle
<1>2. /\ events' \in Seq(Signals) /\ SignalsOf(fetches', events')
      /\ Head(events).thread \in Threads
      /\ fetches[Head(events).thread].stage \in {"answered", "ended"}
  BY <1>1, TailOfSignals DEF Signalled, Signals
<1>3. key \in Keys
  BY <1>2 DEF Signalled, SignalsOf
<1>4. /\ UNCHANGED <<snapshot, restored, listing, over>>
      /\ KeptWork' /\ Active(snapshot)' = Active(snapshot) /\ Key(snapshot)' = Key(snapshot)
  BY <1>1 DEF work, KeptWork, Active, Key
<1>5. \/ UNCHANGED <<displayed, panel, cache>>
      \/ /\ key = requested /\ displayed' = key /\ cache' \subseteq Keys
         /\ panel' = Picture(key) \/ panel' = Text(key[2], "nothing")
  BY <1>3 DEF Fetched
<1>6. /\ displayed' \in Keys \cup {NoKey} /\ cache' \subseteq Keys /\ panel' \in Panels
  BY <1>3, <1>5
<1>7. TypeOK'
  BY <1>1, <1>2, <1>4, <1>6 DEF TypeOK
<1>8. PanelFits'
  <2>1. CASE UNCHANGED <<displayed, panel, cache>>
    BY <1>1, <1>4, <2>1 DEF PanelFits
  <2>2. CASE /\ key = requested /\ displayed' = key
             /\ panel' = Picture(key) \/ panel' = Text(key[2], "nothing")
    <3>1. Active(snapshot) /\ key = Key(snapshot) /\ key[1] = snapshot.product
      BY <1>3, <2>2 DEF PanelFits, Key
    <3> QED BY <1>1, <1>3, <1>4, <2>2, <3>1 DEF PanelFits
  <2> QED BY <1>5, <2>1, <2>2
<1> QED BY <1>2, <1>4, <1>7, <1>8 DEF Signalled

LEMMA FinishedKeeps == ASSUME GuideInv, Finished PROVE GuideInv'
<1> USE GuideTypes, PanelTypes DEF GuideInv
<1> DEFINE t == Head(events).thread
           jobs == [fetches EXCEPT ![t] = Free]
<1>1. /\ events # <<>> /\ Head(events).what = "finished" /\ events' = Tail(events)
      /\ UNCHANGED <<work, cache>>
  BY DEF Finished, Handle
<1>2. /\ events' \in Seq(Signals) /\ SignalsOf(fetches, events') /\ t \in Threads
      /\ \A i \in 1..Len(events') : events'[i].thread # t
  BY <1>1, TailOfSignals DEF Signalled, Signals
<1>3. jobs \in [Threads -> Jobs] /\ SignalsOf(jobs, events')
  <2>1. Free \in Jobs /\ Free.stage = "free"
    BY DEF Free, Jobs
  <2>2. \A i \in 1..Len(events') : events'[i].thread \in Threads
    <3>1. \A i \in 1..Len(events') : events'[i] \in Signals
      BY <1>2
    <3> QED BY <3>1 DEF Signals
  <2>3. \A i \in 1..Len(events') : jobs[events'[i].thread] = fetches[events'[i].thread]
    BY <1>2, <2>2
  <2>4. \A u \in Threads : jobs[u].stage # "free" => jobs[u].key \in Keys
    BY <1>2, <2>1 DEF SignalsOf
  <2> QED BY <1>2, <2>1, <2>3, <2>4 DEF SignalsOf
<1> HIDE DEF jobs
<1>4. /\ UNCHANGED <<snapshot, restored, listing, over, cache>>
      /\ KeptWork' /\ Active(snapshot)' = Active(snapshot) /\ Key(snapshot)' = Key(snapshot)
  BY <1>1 DEF work, KeptWork, Active, Key
<1>5. CASE requested \notin {NoKey, displayed} /\ RequestGuide(requested, NoThread, jobs)
  <2>1. Active(snapshot) /\ requested = Key(snapshot) /\ requested \in Keys
        /\ requested[1] = snapshot.product
    BY <1>5 DEF PanelFits, Key
  <2>2. panel.shows = "picture" => panel.picture[1] = requested[1]
    BY <2>1 DEF PanelFits
  <2>3. /\ PanelFits'
        /\ requested' \in Keys \cup {NoKey} /\ displayed' \in Keys \cup {NoKey}
        /\ panel' \in Panels /\ held' \in Threads \cup {NoThread}
    BY <1>4, <1>5, <2>1, <2>2, RequestFits
  <2>4. fetches' \in [Threads -> Jobs] /\ SignalsOf(fetches', events')
    BY <1>2, <1>3, <1>5, <2>1, RequestTakes
  <2>5. TypeOK'
    BY <1>2, <1>4, <2>3, <2>4 DEF TypeOK, Jobs
  <2> QED BY <1>4, <2>3, <2>4, <2>5 DEF Signalled
<1>6. CASE /\ requested \in {NoKey, displayed}
           /\ held' = NoThread /\ fetches' = jobs /\ UNCHANGED <<requested, displayed, panel>>
  <2>1. TypeOK'
    BY <1>2, <1>3, <1>4, <1>6 DEF TypeOK, Jobs
  <2>2. Active(snapshot) => Key(snapshot) \in Keys
    BY DEF Active, Key, Keys, Snapshots
  <2>3. panel.shows = "picture" => Active(snapshot) /\ displayed = Key(snapshot)
    BY <1>6, <2>2 DEF PanelFits
  <2>4. PanelFits'
    BY <1>4, <1>6, <2>3 DEF PanelFits
  <2> QED BY <1>3, <1>4, <1>6, <2>1, <2>4 DEF Signalled
<1> QED BY <1>5, <1>6 DEF Finished, jobs

-----------------------------------------------------------------------------
(* Theorems                                                                *)

LEMMA GuideInvInit == Init => GuideInv
<1> SUFFICES ASSUME Init PROVE GuideInv
  OBVIOUS
<1>1. PICK product \in Products : snapshot = Configure(product, Total).next
  BY DEF Init
<1>2. /\ snapshot \in Snapshots(Products, Total) /\ snapshot.total = Total
      /\ snapshot.state = "idle" /\ snapshot.result = "waiting" /\ snapshot.event = "init"
  BY <1>1, GuideAssumption DEF Configure, Published, Snapshots
<1>3. ~Active(snapshot)
  BY <1>2 DEF Active
<1>4. TypeOK
  <2>1. fetches \in [Threads -> Jobs]
    BY DEF Init, Free, Jobs
  <2>2. events \in Seq(Signals)
    BY DEF Init
  <2>3. panel \in Panels
    BY PanelTypes DEF Init
  <2> QED BY <1>2, <2>1, <2>2, <2>3 DEF Init, TypeOK, Jobs
<1>5. KeptWork /\ PanelFits
  BY <1>2, <1>3, PanelTypes DEF Init, KeptWork, PanelFits
<1>6. Signalled
  BY DEF Init, Signalled, SignalsOf, Free
<1> QED BY <1>4, <1>5, <1>6 DEF GuideInv

LEMMA GuideInvStep == GuideInv /\ [Next]_vars => GuideInv'
<1> SUFFICES ASSUME GuideInv, [Next]_vars PROVE GuideInv'
  OBVIOUS
<1>1. CASE StartWork
  BY <1>1, StartKeeps
<1>2. CASE GoOn
  BY <1>2, GoOnKeeps
<1>3. CASE ChooseProduct
  BY <1>3, ChangeKeeps DEF ChooseProduct, GuideInv, TypeOK
<1>4. CASE RefreshProducts \/ NoProducts
  BY <1>4, ListKeeps
<1>5. CASE ProductsFetched
  BY <1>5, ChangeKeeps DEF ProductsFetched
<1>6. CASE FirstProducts
  BY <1>6, FirstKeeps
<1>7. CASE \E t \in Threads : FetchAnswered(t) \/ FetchEnds(t)
  BY <1>7, ThreadKeeps
<1>8. CASE Fetched
  BY <1>8, FetchedKeeps
<1>9. CASE Finished
  BY <1>9, FinishedKeeps
<1>10. CASE UNCHANGED vars
  BY <1>10 DEF vars, work, guide, GuideInv, TypeOK, KeptWork, PanelFits, Signalled,
               SignalsOf, Active, Key
<1> QED BY <1>1, <1>2, <1>3, <1>4, <1>5, <1>6, <1>7, <1>8, <1>9, <1>10 DEF Next, Work

\* The inductive invariant holds in every behaviour.
THEOREM GuideInvariant == Spec => []GuideInv
  BY GuideInvInit, GuideInvStep, PTL DEF Spec

\* The fields of the window and the signals queued for it keep their shape.
THEOREM GuideTypeCorrect == Spec => []TypeOK
<1>1. GuideInv => TypeOK
  BY DEF GuideInv
<1> QED BY <1>1, GuideInvariant, PTL

\* No image outside of the work, and none of another product, however late a fetch
\* of _request_step_guide is answered.
THEOREM NoForeignGuideIsShown == Spec => []NoForeignGuide
<1>1. GuideInv => NoForeignGuide
  BY DEF GuideInv, PanelFits, NoForeignGuide
<1> QED BY <1>1, GuideInvariant, PTL

\* An image of an earlier step stands only while a fetch goes on whose end, in
\* _on_step_guide_fetch_finished, replaces it.
THEOREM StaleGuidesAreReplaced == Spec => []StaleGuideIsReplaced
<1>1. GuideInv => StaleGuideIsReplaced
  BY DEF GuideInv, PanelFits, StaleGuideIsReplaced
<1> QED BY <1>1, GuideInvariant, PTL

=============================================================================
