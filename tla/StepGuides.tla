----------------------------- MODULE StepGuides -----------------------------
(***************************************************************************)
(* The panel of the worker's window that shows the reference image of the  *)
(* step, beside the camera image.  An image is fetched from the monitoring *)
(* PC by a thread of its own (StepGuideFetchThread), whose result and end  *)
(* reach the window as queued signals, and is kept in a cache.             *)
(*                                                                         *)
(* The window has room for one thread, but a thread that has ended and     *)
(* whose "finished" is still queued counts as gone: a second one is        *)
(* started beside it, and the late "finished" of the first makes the       *)
(* window forget the second.                                               *)
(*                                                                         *)
(* The list of products is fetched by a thread, too; its answer chooses a  *)
(* product and sets up new work.  The window and the verdicts it receives  *)
(* are otherwise those of Station; closing the window is left out.         *)
(***************************************************************************)
EXTENDS WorkState

CONSTANTS
  Products,
  Total,      \* total_steps of every product
  Threads,    \* bound: fetches at once
  NoKey,      \* None as a key
  NoThread    \* None as a thread

Keys == Products \X (1..Total)

ASSUME GuideAssumption ==
  /\ Total \in Nat \ {0}
  /\ NoKey \notin Keys /\ NoThread \notin Threads

VARIABLES
  snapshot,   \* WorkStateController.snapshot, without event and last_result
  restored,   \* _saved_work_restored: the first list of products has come
  listing,    \* product_fetch_thread runs
  requested,  \* _requested_guide_key
  displayed,  \* _displayed_guide_key
  cache,      \* keys of _guide_pixmap_cache
  panel,      \* guide_title_label and step_guide_view
  held,       \* _guide_fetch_thread
  fetches,    \* what each thread fetches, and how far it is
  events,     \* signals of the threads queued for the window
  over        \* history: the work was started over since it began

work == <<snapshot, restored, listing, over>>
guide == <<requested, displayed, cache, panel, held>>
vars == <<work, guide, fetches, events>>

\* A panel shows a text or a picture, under the title of a step or of none (0).
Panels == [title : 0..Total, shows : {"waiting", "loading", "nothing", "picture"},
           picture : Keys \cup {NoKey}]

\* What a thread signals, in this order.
Signals == [thread : Threads, what : {"fetched", "finished"}, image : BOOLEAN]

Text(title, text) == [title |-> title, shows |-> text, picture |-> NoKey]

Picture(key) == [title |-> key[2], shows |-> "picture", picture |-> key]

Waiting == Text(0, "waiting")

-----------------------------------------------------------------------------
(* The panel                                                               *)

\* QThread.isRunning
Running(t) == t # NoThread /\ fetches[t].stage \in {"fetching", "answered"}

Free == [key |-> NoKey, stage |-> "free"]

\* _request_step_guide, "keeper" being the thread the window remembers and
\* "jobs" the threads there are.
RequestGuide(key, keeper, jobs) ==
  /\ requested' = key
  /\ \/ /\ displayed = key
        /\ held' = keeper /\ fetches' = jobs
        /\ UNCHANGED <<displayed, panel>>
     \/ /\ displayed # key /\ key \in cache
        /\ displayed' = key
        /\ panel' = Picture(key)
        /\ held' = keeper /\ fetches' = jobs
     \/ /\ displayed # key /\ key \notin cache /\ Running(keeper)
        /\ held' = keeper /\ fetches' = jobs
        /\ UNCHANGED <<displayed, panel>>
     \/ /\ displayed # key /\ key \notin cache /\ ~Running(keeper)
        /\ panel' = Text(key[2], "loading")
        /\ \E t \in Threads :
             /\ jobs[t] = Free
             /\ held' = t
             /\ fetches' = [jobs EXCEPT ![t] = [key |-> key, stage |-> "fetching"]]
        /\ UNCHANGED displayed

\* _clear_step_guide
ClearGuide ==
  /\ requested' = NoKey
  /\ displayed' = NoKey
  /\ panel' = Waiting
  /\ UNCHANGED <<held, fetches>>

\* is_active_work
Active(s) ==
  /\ s.state \in {"running", "paused"}
  /\ s.step >= 1
  /\ s.result # "defect"
  /\ s.event \notin {"manual_defect", "complete"}

Key(s) == <<s.product, s.step>>

\* The event and the last result matter only as they are published.
Kept(s) == [s EXCEPT !.event = "init", !.result = "waiting"]

\* An operation of the controller, and update_work_state for what it publishes.
Operate(operation) ==
  /\ snapshot' = Kept(operation.next)
  /\ IF operation.published = <<>>
     THEN UNCHANGED <<requested, displayed, panel, held, fetches>>
     ELSE IF \A i \in DOMAIN operation.published : ~Active(operation.published[i])
          THEN ClearGuide
          ELSE RequestGuide(Key(operation.next), held, fetches)
  /\ UNCHANGED events

-----------------------------------------------------------------------------
(* The work                                                                *)

Idle == snapshot.state = "idle"

\* The screen allows a start when idle; the board's START comes in any state.
StartWork ==
  /\ restored
  /\ Operate(Start(snapshot))
  /\ over' = (over \/ snapshot.state = "running")
  /\ UNCHANGED <<restored, listing, cache>>

\* Verdict, pause, resume and defect.
GoOn ==
  /\ restored
  /\ \/ \E verdict \in {"PASS", "FAIL"} : Operate(ApplyJudgement(snapshot, verdict))
     \/ Operate(Pause(snapshot))
     \/ Operate(Resume(snapshot))
     \/ Operate(RegisterDefect(snapshot))
  /\ over' = (over /\ snapshot'.state # "idle")
  /\ UNCHANGED <<restored, listing, cache>>

\* _on_product_changed
ChangeProduct ==
  /\ \E product \in Products : Operate(Configure(product, Total))
  /\ cache' = {}
  /\ over' = FALSE

\* The worker chooses a product in the list.
ChooseProduct ==
  /\ restored /\ Idle
  /\ ChangeProduct
  /\ UNCHANGED <<restored, listing>>

\* Mutant: the button is enabled during the work.
RefreshAnyTime ==
  /\ ~listing
  /\ listing' = TRUE
  /\ displayed' = NoKey
  /\ cache' = {}
  /\ UNCHANGED <<snapshot, restored, over, requested, panel, held, fetches, events>>

\* fetch_products, from the button that is enabled in an idle window.
RefreshProducts ==
  /\ Idle /\ ~listing
  /\ listing' = TRUE
  /\ displayed' = NoKey
  /\ cache' = {}
  /\ UNCHANGED <<snapshot, restored, over, requested, panel, held, fetches, events>>

\* _on_products_fetched: whatever the worker does by now, the first product of
\* the list is set up.
ProductsFetched ==
  /\ restored /\ listing
  /\ listing' = FALSE
  /\ ChangeProduct
  /\ UNCHANGED restored

\* An empty list changes nothing (a first one, with no work to restore, leaves a
\* window in which nothing can be started: left out).
NoProducts ==
  /\ restored /\ listing
  /\ listing' = FALSE
  /\ UNCHANGED <<snapshot, restored, over, guide, fetches, events>>

\* The first list: the work that was left is restored, or a product set up.
FirstProducts ==
  /\ ~restored /\ listing
  /\ restored' = TRUE
  /\ listing' = FALSE
  /\ \/ /\ \E saved \in [product : Products, total : {Total}, step : 1..Total,
                         state : {"running", "paused"}, result : {"waiting", "fail"}] :
             Operate(RestoreState(saved))
        /\ UNCHANGED <<cache, over>>
     \/ ChangeProduct

-----------------------------------------------------------------------------
(* The threads and their signals                                           *)

Queue(signal) == events' = Append(events, signal)

\* run: the request is answered with an image, or with none, or fails; a file
\* that is no image is found out later, with the same effect as none.
FetchAnswered(t) ==
  /\ fetches[t].stage = "fetching"
  /\ fetches' = [fetches EXCEPT ![t].stage = "answered"]
  /\ \E image \in BOOLEAN : Queue([thread |-> t, what |-> "fetched", image |-> image])
  /\ UNCHANGED <<work, guide>>

FetchEnds(t) ==
  /\ fetches[t].stage = "answered"
  /\ fetches' = [fetches EXCEPT ![t].stage = "ended"]
  /\ Queue([thread |-> t, what |-> "finished", image |-> FALSE])
  /\ UNCHANGED <<work, guide>>

Handle(what) ==
  /\ events # <<>> /\ Head(events).what = what
  /\ events' = Tail(events)
  /\ UNCHANGED work

\* Mutant: an image that comes late is shown as well.
FetchedLate ==
  /\ Handle("fetched")
  /\ LET key == fetches[Head(events).thread].key
     IN  IF Head(events).image
         THEN displayed' = key /\ panel' = Picture(key) /\ cache' = cache \cup {key}
         ELSE displayed' = key /\ panel' = Text(key[2], "nothing") /\ UNCHANGED cache
  /\ UNCHANGED <<requested, held, fetches>>

\* Mutant: the title that was set with the request is kept.
FetchedUntitled ==
  /\ Handle("fetched")
  /\ LET key == fetches[Head(events).thread].key
     IN  IF key # requested
         THEN UNCHANGED <<displayed, panel, cache>>
         ELSE IF Head(events).image
         THEN /\ displayed' = key /\ cache' = cache \cup {key}
              /\ panel' = [panel EXCEPT !.shows = "picture", !.picture = key]
         ELSE displayed' = key /\ panel' = Text(key[2], "nothing") /\ UNCHANGED cache
  /\ UNCHANGED <<requested, held, fetches>>

\* _on_step_guide_fetched
Fetched ==
  /\ Handle("fetched")
  /\ LET key == fetches[Head(events).thread].key
     IN  IF key # requested
         THEN UNCHANGED <<displayed, panel, cache>>
         ELSE IF Head(events).image
         THEN displayed' = key /\ panel' = Picture(key) /\ cache' = cache \cup {key}
         ELSE displayed' = key /\ panel' = Text(key[2], "nothing") /\ UNCHANGED cache
  /\ UNCHANGED <<requested, held, fetches>>

\* Mutant: a key that was requested meanwhile is not fetched.
FinishedForgets ==
  /\ Handle("finished")
  /\ held' = NoThread
  /\ fetches' = [fetches EXCEPT ![Head(events).thread] = Free]
  /\ UNCHANGED <<requested, displayed, cache, panel>>

\* _on_step_guide_fetch_finished: the window forgets the thread it remembers,
\* whichever has finished, and fetches what was requested meanwhile.
Finished ==
  /\ Handle("finished")
  /\ LET jobs == [fetches EXCEPT ![Head(events).thread] = Free]
     IN  IF requested \notin {NoKey, displayed}
         THEN RequestGuide(requested, NoThread, jobs)
         ELSE /\ held' = NoThread /\ fetches' = jobs
              /\ UNCHANGED <<requested, displayed, panel>>
  /\ UNCHANGED cache

-----------------------------------------------------------------------------
\* The window has just been opened; its controller knows of no product.
Init ==
  /\ \E product \in Products :
       snapshot = Configure(product, Total).next
  /\ restored = FALSE /\ listing = TRUE
  /\ requested = NoKey /\ displayed = NoKey
  /\ cache = {}
  /\ panel = Waiting
  /\ held = NoThread
  /\ fetches = [t \in Threads |-> Free]
  /\ events = <<>>
  /\ over = FALSE

Work ==
  \/ StartWork \/ GoOn \/ ChooseProduct \/ RefreshProducts
  \/ ProductsFetched \/ NoProducts \/ FirstProducts

Next ==
  \/ Work
  \/ \E t \in Threads : FetchAnswered(t) \/ FetchEnds(t)
  \/ Fetched \/ Finished

Spec == Init /\ [][Next]_vars

\* Requests time out, threads end, and the event loop of the window runs; worker,
\* board and the fetch of the products need not do anything.
FairSpec ==
  /\ Spec
  /\ \A t \in Threads : WF_vars(FetchAnswered(t) \/ FetchEnds(t))
  /\ WF_vars(Fetched \/ Finished)

-----------------------------------------------------------------------------
(* Properties                                                              *)

\* The shape of the window's fields and of what is queued for it.
TypeOK ==
  /\ snapshot \in Snapshots(Products, Total)
  /\ restored \in BOOLEAN /\ listing \in BOOLEAN /\ over \in BOOLEAN
  /\ requested \in Keys \cup {NoKey} /\ displayed \in Keys \cup {NoKey}
  /\ cache \subseteq Keys
  /\ panel \in Panels
  /\ held \in Threads \cup {NoThread}
  /\ fetches \in [Threads -> [key : Keys \cup {NoKey},
                              stage : {"free", "fetching", "answered", "ended"}]]
  /\ events \in Seq(Signals)

\* The worker is not shown an image outside of the work, and during the work none
\* of another product, however late a fetch is answered and whatever was chosen or
\* started since.
NoForeignGuide ==
  /\ ~Active(snapshot) => requested = NoKey /\ panel = Waiting
  /\ panel.shows = "picture" => panel.picture[1] = snapshot.product

\* An image is shown under its own title; that of another step than the one the
\* work is at is left standing only while a fetch whose end replaces it goes on.
StaleGuideIsReplaced ==
  panel.shows = "picture" =>
    /\ panel.title = panel.picture[2]
    /\ panel.picture = Key(snapshot) \/ held # NoThread

\* The panel speaks of the step the work is at, and has an answer.
Settled == panel.shows \in {"picture", "nothing"} /\ panel.title = snapshot.step

\* A step the work stays at gets its image, or the text that there is none, also
\* if the fetch of another step was going on; except in work that was started over.
GuideArrives ==
  \A key \in Keys : requested = key ~> (requested # key \/ Settled \/ over)

=============================================================================
