---------------------------- MODULE StationProofs ----------------------------
(***************************************************************************)
(* Window and board agree: InStep, LedsShowWork and PressesCount, for any  *)
(* number of LEDs, any products and lines of any length.                   *)
(*                                                                         *)
(* On a busy line the two need not agree.  What stays true is that they    *)
(* WILL: the commands on their way lead the board to what the lines on     *)
(* their way lead the window to (invariant Concord).                       *)
(***************************************************************************)
EXTENDS Station, TLAPS

\* What the board can know of the work.
View(s) == [step |-> s.step, state |-> s.state, result |-> s.result]

IdleView == [step |-> 0, state |-> "idle", result |-> "waiting"]

Views ==
  {IdleView} \cup
  [step : Nat \ {0}, state : {"running", "paused"}, result : {"waiting", "fail"}]

\* The LED of the step alone, none in a pause; step and pause of the view, and the
\* fail LED only after a FAIL.  Beyond the last LED the board may be at any step.
Matches(f, v) ==
  /\ f.leds = (IF f.paused THEN {} ELSE {f.step} \ {0})
  /\ f.step = 0 => ~f.paused
  /\ v.step <= LastStep => f.step = v.step /\ (f.fail => v.result = "fail")
  /\ v.step <= LastStep \/ f.step # 0 => (f.paused <=> v.state = "paused")

\* What command c makes of the face f; Stm!Fits, said of any face.
Suits(c, f) ==
  /\ c \in {"P", "U", "M"} => f.step # 0
  /\ c = "U" => ~f.paused
  /\ c = "M" => f.paused

Taken(c, f) == IF Suits(c, f) THEN Stm!After(c, f) ELSE f

\* The lines that say of a step what the window will make of it; the others leave the
\* work as it is, "Start" until it is heard.
Moving(line) == line \in {"Pause", "Resume", "Reset"}

Apt(line, v) ==
  /\ line \in {"Pause", "Reset"} => v.state = "running"
  /\ line = "Resume" => v.state = "paused"

Moved(line, v) ==
  CASE line = "Pause"  -> [v EXCEPT !.state = "paused"]
    [] line = "Resume" -> [v EXCEPT !.state = "running"]
    [] line = "Reset"  -> IdleView
    [] OTHER           -> v

\* fs: the faces the board shows as it takes the commands cs, one after the other.
FacesOver(fs, f, cs) ==
  /\ fs \in [0..Len(cs) -> Stm!Faces]
  /\ fs[0] = f
  /\ \A i \in 1..Len(cs) : fs[i] = Taken(cs[i], fs[i - 1])

\* The commands cs lead the board from the face f to one that matches u.
BoardReaches(f, cs, u) ==
  \A fs : FacesOver(fs, f, cs) => Matches(fs[Len(cs)], u)

\* vs: the views of the window as it hears the lines ls.  Lines at the end that move
\* nothing leave the last view as it was.
ViewsOver(vs, v, ls) ==
  /\ vs \in [0..Len(ls) -> Views]
  /\ vs[0] = v
  /\ \A i \in 1..Len(ls) : Apt(ls[i], vs[i - 1]) /\ vs[i] = Moved(ls[i], vs[i - 1])
  /\ \A i \in 0..Len(ls) :
       (\A k \in i + 1..Len(ls) : ~Moving(ls[k])) => vs[i] = vs[Len(ls)]

\* The lines ls lead the window from the view v to u, and each is apt when it comes.
WindowReaches(v, ls, u) == \E vs : ViewsOver(vs, v, ls) /\ vs[Len(ls)] = u

\* The commands between window and board: also the "U" of a restored pause.
Coming == bytes \o (IF window = "restoring" THEN <<"U">> ELSE <<>>)

\* The face after the command in the mailbox.
Facing == IF serving \/ byte = "none" THEN face ELSE Taken(byte, face)

\* A snapshot of the window, and what the board can know of it.
WorkOK(s) ==
  /\ \E product \in Products : s \in Snapshots({product}, Totals[product])
  /\ View(s) \in Views

\* The states of board, line and window, whatever has happened to them.
BoardShape ==
  /\ face \in Stm!Faces /\ asked \in BOOLEAN
  /\ byte \in Commands \cup {"none"} /\ serving \in BOOLEAN
  /\ serving => byte # "none"

LineShape ==
  lines \in Seq(Messages) /\ bytes \in Seq(Commands) /\ linked \in BOOLEAN /\ level \in BOOLEAN

WindowShape ==
  /\ WorkOK(snapshot)
  /\ judging \in {"no", "asked", "failed"} /\ window \in {"out", "in", "restoring"}
  /\ refreshing \in BOOLEAN
  /\ window = "out" => snapshot.state = "idle"

Shape == BoardShape /\ LineShape /\ WindowShape

\* No line that moves the work is on its way.
Calm == \A i \in 1..Len(lines) : ~Underway(lines[i])

\* A line that moves the work meets no command.
LinesAlone ==
  ~Calm => Coming = <<>> /\ byte = "none"

\* "Start" comes from a board that is still waiting.
StartFromRest == (\E i \in 1..Len(lines) : lines[i] = "Start") => face.step = 0

Meet == \E u \in Views : WindowReaches(View(snapshot), lines, u) /\ BoardReaches(Facing, Coming, u)

Concord ==
  level => LinesAlone /\ (~linked => lines = <<>>) /\ StartFromRest /\ Meet

StationInv == Shape /\ Concord

-----------------------------------------------------------------------------
(* Commands and faces                                                      *)

LEMMA DigitFacts ==
  ASSUME NEW n \in 1..LastStep
  PROVE  /\ Digits[n] \in Commands
         /\ Digits[n] \notin {"S", "P", "F", "C", "R", "U", "M", "E", "none"}
         /\ Stm!StepOf(Digits[n]) = n
<1>1. n \in 1..9
  BY ProtocolAssumption
<1>2. /\ Digits[1] = "1" /\ Digits[2] = "2" /\ Digits[3] = "3" /\ Digits[4] = "4"
      /\ Digits[5] = "5" /\ Digits[6] = "6" /\ Digits[7] = "7" /\ Digits[8] = "8"
      /\ Digits[9] = "9"
  BY DEF Digits
<1>3. Stm!Digits = Digits
  BY DEF Digits, Stm!Digits
<1>4. Digits[n] \notin {"S", "P", "F", "C", "R", "U", "M", "E", "none"}
  BY <1>1, <1>2
<1>5. ASSUME NEW m \in 1..LastStep, Digits[m] = Digits[n] PROVE m = n
  <2>1. m \in 1..9
    BY ProtocolAssumption
  <2> QED BY <1>1, <1>2, <1>5, <2>1
<1>6. Stm!StepOf(Digits[n]) = n
  BY <1>3, <1>5 DEF Stm!StepOf
<1> QED BY <1>4, <1>6 DEF Commands

LEMMA CommandFacts ==
  /\ "none" \notin Commands
  /\ {"S", "P", "F", "C", "R", "U", "M", "E"} \subseteq Commands
  /\ \A c \in Commands : \/ c \in {"S", "P", "F", "C", "R", "U", "M", "E"}
                         \/ \E n \in 1..LastStep : c = Digits[n]
BY DigitFacts DEF Commands

\* The face after each command.
LEMMA TakenFacts ==
  ASSUME NEW f \in Stm!Faces
  PROVE  /\ Taken("S", f) = [step |-> 1, paused |-> FALSE, leds |-> f.leds \cup {1}, fail |-> FALSE]
         /\ Taken("P", f) = IF f.step = 0 THEN f ELSE Stm!Passed(f)
         /\ Taken("F", f) = [f EXCEPT !.paused = FALSE, !.fail = TRUE]
         /\ \A c \in {"C", "R", "E"} : Taken(c, f) = Stm!Blank
         /\ Taken("U", f) = IF f.step = 0 \/ f.paused THEN f ELSE Stm!Paused(f)
         /\ Taken("M", f) = IF f.step # 0 /\ f.paused THEN Stm!Resumed(f) ELSE f
         /\ \A n \in 1..LastStep :
              Taken(Digits[n], f) = [step |-> n, paused |-> FALSE, leds |-> {n}, fail |-> FALSE]
<1>1. ASSUME NEW n \in 1..LastStep
      PROVE  Taken(Digits[n], f) = [step |-> n, paused |-> FALSE, leds |-> {n}, fail |-> FALSE]
  <2>1. Suits(Digits[n], f)
    BY DigitFacts DEF Suits
  <2>2. Stm!After(Digits[n], f) =
          [step |-> n, paused |-> FALSE, leds |-> {n}, fail |-> FALSE]
    BY DigitFacts DEF Stm!After
  <2> QED BY <2>1, <2>2 DEF Taken
<1>2. \A c \in {"C", "R", "E"} : Taken(c, f) = Stm!Blank
  BY DEF Taken, Suits, Stm!After
<1> QED BY <1>1, <1>2 DEF Taken, Suits, Stm!After

LEMMA TakenIsFace ==
  ASSUME NEW f \in Stm!Faces, NEW c \in Commands
  PROVE  Taken(c, f) \in Stm!Faces
<1>1. LastStep \in 1..9
  BY ProtocolAssumption
<1>2. /\ f.step \in 0..LastStep /\ f.paused \in BOOLEAN
      /\ f.leds \in SUBSET (1..LastStep) /\ f.fail \in BOOLEAN
  BY DEF Stm!Faces
<1>3. ASSUME NEW n \in 0..LastStep, NEW l \in SUBSET (1..LastStep)
      PROVE  [step |-> n, paused |-> FALSE, leds |-> l, fail |-> FALSE] \in Stm!Faces
  BY DEF Stm!Faces
<1>4. CASE c = "S"
  <2>1. 1 \in 0..LastStep /\ f.leds \cup {1} \in SUBSET (1..LastStep)
    BY <1>1, <1>2
  <2>2. Taken(c, f) = [step |-> 1, paused |-> FALSE, leds |-> f.leds \cup {1}, fail |-> FALSE]
    BY <1>4, TakenFacts
  <2> QED BY <1>3, <2>1, <2>2
<1>5. CASE c = "P"
  <2>1. (f.step + 1) % (LastStep + 1) \in 0..LastStep
    BY <1>1, <1>2
  <2>2. Stm!Passed(f) \in Stm!Faces
    BY <1>2, <2>1 DEF Stm!Passed, Stm!Faces
  <2> QED BY <1>5, <2>2, TakenFacts
<1>6. CASE c = "F"
  <2>1. [f EXCEPT !.paused = FALSE, !.fail = TRUE] \in Stm!Faces
    BY DEF Stm!Faces
  <2> QED BY <1>6, <2>1, TakenFacts
<1>7. CASE c \in {"C", "R", "E"}
  <2>1. 0 \in 0..LastStep /\ {} \in SUBSET (1..LastStep)
    BY <1>1
  <2>2. Taken(c, f) = [step |-> 0, paused |-> FALSE, leds |-> {}, fail |-> FALSE]
    BY <1>7, TakenFacts DEF Stm!Blank
  <2> QED BY <1>3, <2>1, <2>2
<1>8. CASE c = "U"
  <2>1. f.step # 0 => Stm!Paused(f) \in Stm!Faces
    BY <1>2 DEF Stm!Paused, Stm!Faces
  <2> QED BY <1>8, <2>1, TakenFacts
<1>9. CASE c = "M"
  <2>1. f.step # 0 => Stm!Resumed(f) \in Stm!Faces
    BY <1>2 DEF Stm!Resumed, Stm!Faces
  <2> QED BY <1>9, <2>1, TakenFacts
<1>10. CASE \E n \in 1..LastStep : c = Digits[n]
  <2>1. PICK n \in 1..LastStep : c = Digits[n]
    BY <1>10
  <2>2. n \in 0..LastStep /\ {n} \in SUBSET (1..LastStep)
    BY <1>1
  <2>3. Taken(c, f) = [step |-> n, paused |-> FALSE, leds |-> {n}, fail |-> FALSE]
    BY <2>1, TakenFacts
  <2> QED BY <1>3, <2>2, <2>3
<1> QED BY <1>4, <1>5, <1>6, <1>7, <1>8, <1>9, <1>10, CommandFacts

-----------------------------------------------------------------------------
(* Faces that match a view                                                 *)

LEMMA ViewFacts ==
  ASSUME NEW v \in Views
  PROVE  /\ v = [step |-> v.step, state |-> v.state, result |-> v.result]
         /\ v.step \in Nat /\ v.state \in {"idle", "running", "paused"}
         /\ v.result \in {"waiting", "fail"}
         /\ v.state = "idle" => v = IdleView
         /\ v.state # "idle" => v.step # 0
BY DEF Views, IdleView

\* What the face of the board has to be for a match, and what has to be shown of one.
LEMMA FaceFacts ==
  ASSUME NEW f \in Stm!Faces
  PROVE  /\ f = [step |-> f.step, paused |-> f.paused, leds |-> f.leds, fail |-> f.fail]
         /\ f.step \in 0..LastStep /\ f.paused \in BOOLEAN /\ f.fail \in BOOLEAN
         /\ f.leds \in SUBSET (1..LastStep)
BY DEF Stm!Faces

LEMMA BlankIsFace ==
  Stm!Blank \in Stm!Faces
BY ProtocolAssumption DEF Stm!Blank, Stm!Faces

LEMMA IdleMatched ==
  Matches(Stm!Blank, IdleView)
BY ProtocolAssumption DEF Matches, Stm!Blank, IdleView

\* "S" begins a work that is idle, ...
LEMMA StartMatched ==
  ASSUME NEW f \in Stm!Faces, f.leds = {}, NEW u, u.step \in Nat, u.state = "running",
         u.step <= LastStep => u.step = 1
  PROVE  Matches(Taken("S", f), u)
<1>1. Taken("S", f) = [step |-> 1, paused |-> FALSE, leds |-> {1}, fail |-> FALSE]
  BY TakenFacts
<1> QED BY <1>1, ProtocolAssumption DEF Matches

\* ... a digit restores a work that runs, ...
LEMMA DigitMatched ==
  ASSUME NEW f \in Stm!Faces, NEW u, u.step \in 1..LastStep, u.state = "running"
  PROVE  Matches(Taken(Digits[u.step], f), u)
<1>1. Taken(Digits[u.step], f) = [step |-> u.step, paused |-> FALSE, leds |-> {u.step}, fail |-> FALSE]
  BY TakenFacts
<1> QED BY <1>1, ProtocolAssumption DEF Matches

\* ... "R", "C" and "E" end it, whatever the board shows.
LEMMA EndMatched ==
  ASSUME NEW f \in Stm!Faces, NEW c \in {"C", "R", "E"}
  PROVE  Matches(Taken(c, f), IdleView)
BY TakenFacts, IdleMatched

LEMMA PauseMatched ==
  ASSUME NEW f \in Stm!Faces, NEW v \in Views, Matches(f, v), v.state = "running"
  PROVE  /\ Matches(Taken("U", f), [v EXCEPT !.state = "paused"])
         /\ f.step # 0 => ~f.paused /\ Matches(Stm!Paused(f), [v EXCEPT !.state = "paused"])
<1> DEFINE u == [v EXCEPT !.state = "paused"]
<1>1. u.step = v.step /\ u.state = "paused" /\ u.result = v.result /\ v.step \in Nat \ {0}
  BY ViewFacts
<1>2. LastStep \in 1..9
  BY ProtocolAssumption
<1>3. CASE f.step = 0
  <2>1. Taken("U", f) = f
    BY <1>3, TakenFacts
  <2>2. v.step > LastStep
    BY <1>1, <1>2, <1>3 DEF Matches
  <2> QED BY <1>1, <1>2, <1>3, <2>1, <2>2 DEF Matches
<1>4. CASE f.step # 0
  <2>1. ~f.paused /\ f.leds = {f.step} /\ f.step \in 0..LastStep
    BY <1>4, FaceFacts DEF Matches
  <2>2. Taken("U", f) = Stm!Paused(f)
    BY <1>4, <2>1, TakenFacts
  <2>3. Stm!Paused(f) = [step |-> f.step, paused |-> TRUE, leds |-> {}, fail |-> f.fail]
    BY <2>1 DEF Stm!Paused
  <2> QED BY <1>1, <1>2, <1>4, <2>1, <2>2, <2>3 DEF Matches
<1> QED BY <1>3, <1>4

LEMMA ResumeMatched ==
  ASSUME NEW f \in Stm!Faces, NEW v \in Views, Matches(f, v), v.state = "paused"
  PROVE  /\ Matches(Taken("M", f), [v EXCEPT !.state = "running"])
         /\ f.step # 0 => f.paused /\ Matches(Stm!Resumed(f), [v EXCEPT !.state = "running"])
<1> DEFINE u == [v EXCEPT !.state = "running"]
<1>1. u.step = v.step /\ u.state = "running" /\ u.result = v.result /\ v.step \in Nat \ {0}
  BY ViewFacts
<1>2. LastStep \in 1..9
  BY ProtocolAssumption
<1>3. CASE f.step = 0
  <2>1. Taken("M", f) = f
    BY <1>3, TakenFacts
  <2>2. v.step > LastStep
    BY <1>1, <1>2, <1>3 DEF Matches
  <2> QED BY <1>1, <1>2, <1>3, <2>1, <2>2 DEF Matches
<1>4. CASE f.step # 0
  <2>1. f.paused /\ f.leds = {} /\ f.step \in 0..LastStep
    BY <1>4, FaceFacts DEF Matches
  <2>2. Taken("M", f) = Stm!Resumed(f)
    BY <1>4, <2>1, TakenFacts
  <2>3. Stm!Resumed(f) = [step |-> f.step, paused |-> FALSE, leds |-> {f.step}, fail |-> f.fail]
    BY <2>1 DEF Stm!Resumed
  <2> QED BY <1>1, <1>2, <1>4, <2>1, <2>2, <2>3 DEF Matches
<1> QED BY <1>3, <1>4

LEMMA FailMatched ==
  ASSUME NEW f \in Stm!Faces, NEW v \in Views, Matches(f, v), v.state = "running"
  PROVE  Matches(Taken("F", f), [v EXCEPT !.result = "fail"])
<1>1. ~f.paused /\ f.leds = {f.step} \ {0}
  BY ViewFacts, FaceFacts DEF Matches
<1> DEFINE g == [f EXCEPT !.paused = FALSE, !.fail = TRUE]
<1>2. g.step = f.step /\ g.paused = FALSE /\ g.leds = f.leds /\ g.fail = TRUE
  BY DEF Stm!Faces
<1>3. Taken("F", f) = g
  BY TakenFacts
<1> HIDE DEF g
<1> QED BY <1>1, <1>2, <1>3, ViewFacts DEF Matches

\* After the last LED the board is back at step 0, and ignores "P" from then on.
LEMMA PassMatched ==
  ASSUME NEW f \in Stm!Faces, NEW v \in Views, Matches(f, v), v.state = "running"
  PROVE  Matches(Taken("P", f), [step |-> v.step + 1, state |-> "running", result |-> "waiting"])
<1> DEFINE u == [step |-> v.step + 1, state |-> "running", result |-> "waiting"]
           next == (f.step + 1) % (LastStep + 1)
<1>1. LastStep \in 1..9 /\ f.step \in 0..LastStep /\ v.step \in Nat \ {0}
  BY ProtocolAssumption, FaceFacts, ViewFacts
<1>2. ~f.paused /\ f.leds = {f.step} \ {0}
  BY FaceFacts, ViewFacts DEF Matches
<1>3. CASE f.step = 0
  <2>1. Taken("P", f) = f
    BY <1>3, TakenFacts
  <2>2. v.step > LastStep
    BY <1>1, <1>3 DEF Matches
  <2> QED BY <1>1, <1>2, <1>3, <2>1, <2>2 DEF Matches
<1>4. CASE f.step # 0
  <2>1. next = (IF f.step = LastStep THEN 0 ELSE f.step + 1)
    BY <1>1
  <2>2. Taken("P", f) = [step |-> next, paused |-> FALSE, leds |-> {next} \ {0}, fail |-> FALSE]
    <3>1. Taken("P", f) = Stm!Passed(f)
      BY <1>4, TakenFacts
    <3>2. (f.leds \ {f.step}) \cup ({next} \ {0}) = {next} \ {0}
      BY <1>2
    <3> QED BY <3>1, <3>2 DEF Stm!Passed
  <2>3. v.step <= LastStep => f.step = v.step
    BY DEF Matches
  <2>4. v.step + 1 <= LastStep => next = v.step + 1
    BY <1>1, <2>1, <2>3
  <2>5. u.step = v.step + 1 /\ u.state = "running"
    OBVIOUS
  <2> HIDE DEF next, u
  <2> DEFINE g == Taken("P", f)
  <2>6. g.step = next /\ g.paused = FALSE /\ g.leds = {next} \ {0} /\ g.fail = FALSE
    BY <2>2
  <2> HIDE DEF g
  <2>7. Matches(g, u)
    BY <1>1, <2>4, <2>5, <2>6 DEF Matches
  <2> QED BY <2>7 DEF g, u
<1> QED BY <1>3, <1>4

-----------------------------------------------------------------------------
(* Commands on their way                                                   *)

LEMMA BoardReachesNow ==
  ASSUME NEW f \in Stm!Faces, NEW u
  PROVE  BoardReaches(f, <<>>, u) <=> Matches(f, u)
<1> DEFINE fs == [i \in 0..0 |-> f]
<1>1. FacesOver(fs, f, <<>>) /\ fs[0] = f
  BY DEF FacesOver
<1>2. \A gs : FacesOver(gs, f, <<>>) => gs[0] = f
  BY DEF FacesOver
<1> QED BY <1>1, <1>2 DEF BoardReaches

LEMMA BoardReachesOne ==
  ASSUME NEW f, NEW c, NEW u, Matches(Taken(c, f), u)
  PROVE  BoardReaches(f, <<c>>, u)
<1>1. ASSUME NEW fs, FacesOver(fs, f, <<c>>) PROVE fs[1] = Taken(c, f)
  <2>1. Len(<<c>>) = 1 /\ <<c>>[1] = c /\ 1 \in 1..1 /\ 1 - 1 = 0
    OBVIOUS
  <2> QED BY <1>1, <2>1 DEF FacesOver
<1> QED BY <1>1 DEF BoardReaches

\* One more command: what it makes of any face the others may lead to.
LEMMA BoardReachesMore ==
  ASSUME NEW f \in Stm!Faces, NEW cs \in Seq(Commands), NEW c \in Commands, NEW u, NEW w,
         \A g \in Stm!Faces : (BoardReaches(f, cs, u) => Matches(g, u)) => Matches(Taken(c, g), w)
  PROVE  BoardReaches(f, Append(cs, c), w)
<1> DEFINE ds == Append(cs, c)
           n  == Len(cs)
<1>1. /\ n \in Nat /\ Len(ds) = n + 1 /\ ds[n + 1] = c
      /\ \A i \in 1..n : ds[i] = cs[i]
  OBVIOUS
<1> SUFFICES ASSUME NEW gs, FacesOver(gs, f, ds) PROVE Matches(gs[n + 1], w)
  BY <1>1 DEF BoardReaches
<1> DEFINE fs == [i \in 0..n |-> gs[i]]
<1> HIDE DEF ds, n
<1>2. /\ gs \in [0..n + 1 -> Stm!Faces] /\ gs[0] = f
      /\ \A i \in 1..n + 1 : gs[i] = Taken(ds[i], gs[i - 1])
  BY <1>1 DEF FacesOver
<1>3. fs \in [0..n -> Stm!Faces] /\ fs[0] = f
  BY <1>1, <1>2
<1>4. ASSUME NEW i \in 1..n PROVE fs[i] = Taken(cs[i], fs[i - 1])
  <2>1. i \in 1..n + 1 /\ i \in 0..n /\ i - 1 \in 0..n
    BY <1>1
  <2> QED BY <1>1, <1>2, <2>1
<1>5. FacesOver(fs, f, cs)
  BY <1>3, <1>4 DEF FacesOver, n
<1>6. n \in 0..n /\ fs[n] = gs[n] /\ gs[n] \in Stm!Faces
  BY <1>1, <1>3
<1>7. BoardReaches(f, cs, u) => Matches(gs[n], u)
  BY <1>5, <1>6 DEF BoardReaches, n
<1>8. gs[n + 1] = Taken(c, gs[n])
  <2>1. n + 1 \in 1..n + 1 /\ n + 1 - 1 = n
    BY <1>1
  <2> QED BY <1>1, <1>2, <2>1
<1> QED BY <1>6, <1>7, <1>8

\* A command whose effect is known whatever the others have done.
LEMMA BoardReachesAnew ==
  ASSUME NEW f \in Stm!Faces, NEW cs \in Seq(Commands), NEW c \in Commands, NEW w,
         \A g \in Stm!Faces : Matches(Taken(c, g), w)
  PROVE  BoardReaches(f, Append(cs, c), w)
BY BoardReachesMore

\* The first of the commands arrives.
LEMMA BoardReachesNext ==
  ASSUME NEW f \in Stm!Faces, NEW cs \in Seq(Commands), cs # <<>>, NEW u,
         BoardReaches(f, cs, u)
  PROVE  BoardReaches(Taken(Head(cs), f), Tail(cs), u)
<1> DEFINE ds == Tail(cs)
           n  == Len(ds)
           g  == Taken(Head(cs), f)
<1>1. /\ n \in Nat /\ Len(cs) = n + 1 /\ Head(cs) = cs[1] /\ cs[1] \in Commands
      /\ \A i \in 1..n : ds[i] = cs[i + 1]
  OBVIOUS
<1> SUFFICES ASSUME NEW gs, FacesOver(gs, g, ds) PROVE Matches(gs[n], u)
  BY DEF BoardReaches
<1> DEFINE fs == [i \in 0..n + 1 |-> IF i = 0 THEN f ELSE gs[i - 1]]
<1> HIDE DEF ds, n
<1>2. /\ gs \in [0..n -> Stm!Faces] /\ gs[0] = g
      /\ \A i \in 1..n : gs[i] = Taken(ds[i], gs[i - 1])
  BY DEF FacesOver, n
<1>3. /\ \A i \in 0..n + 1 : fs[i] = IF i = 0 THEN f ELSE gs[i - 1]
      /\ fs[0] = f
      /\ \A i \in 1..n + 1 : fs[i] = gs[i - 1]
  BY <1>1
<1>4. fs \in [0..n + 1 -> Stm!Faces]
  <2>1. \A i \in 0..n + 1 : i = 0 \/ i - 1 \in 0..n
    BY <1>1
  <2> QED BY <1>2, <2>1
<1> HIDE DEF fs
<1>5. ASSUME NEW i \in 1..n + 1 PROVE fs[i] = Taken(cs[i], fs[i - 1])
  <2>1. CASE i = 1
    <3>1. i - 1 = 0
      BY <2>1
    <3> QED BY <1>1, <1>2, <1>3, <2>1, <3>1
  <2>2. CASE i # 1
    <3>1. i - 1 \in 1..n /\ i - 1 \in 1..n + 1 /\ (i - 1) + 1 = i
      BY <1>1, <2>2
    <3> QED BY <1>1, <1>2, <1>3, <3>1
  <2> QED BY <2>1, <2>2
<1>6. FacesOver(fs, f, cs)
  BY <1>1, <1>3, <1>4, <1>5 DEF FacesOver
<1>7. fs[n + 1] = gs[n]
  <2>1. n + 1 \in 1..n + 1 /\ (n + 1) - 1 = n
    BY <1>1
  <2> QED BY <1>3, <2>1
<1> QED BY <1>1, <1>6, <1>7 DEF BoardReaches

-----------------------------------------------------------------------------
(* Lines on their way                                                      *)

LEMMA MovedIsView ==
  ASSUME NEW v \in Views, NEW line \in Messages, Apt(line, v)
  PROVE  Moved(line, v) \in Views
<1>1. v.state # "idle" => /\ v.step \in Nat \ {0}
                          /\ v = [step |-> v.step, state |-> v.state, result |-> v.result]
  BY ViewFacts
<1>2. CASE line = "Pause"
  <2>1. [v EXCEPT !.state = "paused"] = [step |-> v.step, state |-> "paused", result |-> v.result]
    BY <1>1, <1>2 DEF Apt
  <2> QED BY <1>1, <1>2, <2>1, ViewFacts DEF Moved, Apt, Views
<1>3. CASE line = "Resume"
  <2>1. [v EXCEPT !.state = "running"] = [step |-> v.step, state |-> "running", result |-> v.result]
    BY <1>1, <1>3 DEF Apt
  <2> QED BY <1>1, <1>3, <2>1, ViewFacts DEF Moved, Apt, Views
<1>4. CASE line = "Reset"
  BY <1>4 DEF Moved, Views
<1>5. CASE line \in {"Check", "Start"}
  BY <1>5 DEF Moved
<1> QED BY <1>2, <1>3, <1>4, <1>5 DEF Messages

\* Lines that move nothing leave the view as it is.
LEMMA WindowStays ==
  ASSUME NEW v \in Views, NEW ls \in Seq(Messages), \A i \in 1..Len(ls) : ~Moving(ls[i]), NEW u
  PROVE  WindowReaches(v, ls, u) <=> u = v
<1>1. Len(ls) \in Nat /\ \A i \in 1..Len(ls) : ls[i] \in Messages
  OBVIOUS
<1>2. ASSUME WindowReaches(v, ls, u) PROVE u = v
  <2>1. PICK vs : ViewsOver(vs, v, ls) /\ vs[Len(ls)] = u
    BY <1>2 DEF WindowReaches
  <2>2. 0 \in 0..Len(ls) /\ \A k \in 0 + 1..Len(ls) : ~Moving(ls[k])
    BY <1>1
  <2> QED BY <2>1, <2>2 DEF ViewsOver
<1>3. WindowReaches(v, ls, v)
  <2> DEFINE vs == [i \in 0..Len(ls) |-> v]
  <2>1. \A line \in Messages : ~Moving(line) => Apt(line, v) /\ Moved(line, v) = v
    BY DEF Moving, Apt, Moved
  <2>2. \A i \in 1..Len(ls) : i \in 0..Len(ls) /\ i - 1 \in 0..Len(ls)
    BY <1>1
  <2>3. vs \in [0..Len(ls) -> Views] /\ \A i \in 0..Len(ls) : vs[i] = v
    OBVIOUS
  <2>4. 0 \in 0..Len(ls) /\ Len(ls) \in 0..Len(ls)
    BY <1>1
  <2> HIDE DEF vs
  <2>5. \A i \in 1..Len(ls) : Apt(ls[i], vs[i - 1]) /\ vs[i] = Moved(ls[i], vs[i - 1])
    BY <1>1, <2>1, <2>2, <2>3
  <2>6. ViewsOver(vs, v, ls)
    BY <2>3, <2>4, <2>5 DEF ViewsOver
  <2> QED BY <2>3, <2>4, <2>6 DEF WindowReaches
<1> QED BY <1>2, <1>3

\* The board says one more line.
LEMMA WindowReachesMore ==
  ASSUME NEW v \in Views, NEW ls \in Seq(Messages), NEW line \in Messages, NEW u \in Views,
         WindowReaches(v, ls, u), Apt(line, u)
  PROVE  WindowReaches(v, Append(ls, line), Moved(line, u))
<1> DEFINE ms == Append(ls, line)
           n  == Len(ls)
           w  == Moved(line, u)
<1>1. /\ n \in Nat /\ Len(ms) = n + 1 /\ ms[n + 1] = line
      /\ \A i \in 1..n : ms[i] = ls[i]
  OBVIOUS
<1>2. PICK vs : ViewsOver(vs, v, ls) /\ vs[n] = u
  BY DEF WindowReaches
<1> DEFINE ws == [i \in 0..n + 1 |-> IF i = n + 1 THEN w ELSE vs[i]]
<1>3. w \in Views
  BY MovedIsView
<1> HIDE DEF ms, n, w
<1>4. /\ vs \in [0..n -> Views] /\ vs[0] = v
      /\ \A i \in 1..n : Apt(ls[i], vs[i - 1]) /\ vs[i] = Moved(ls[i], vs[i - 1])
      /\ \A i \in 0..n : (\A k \in i + 1..n : ~Moving(ls[k])) => vs[i] = vs[n]
  BY <1>2 DEF ViewsOver, n
<1>5. \A i \in 0..n + 1 : i = n + 1 \/ i \in 0..n
  BY <1>1
<1>6. /\ ws \in [0..n + 1 -> Views]
      /\ ws[n + 1] = w
      /\ \A i \in 0..n : ws[i] = vs[i]
  <2>1. n + 1 \in 0..n + 1 /\ \A i \in 0..n : i # n + 1 /\ i \in 0..n + 1
    BY <1>1
  <2> QED BY <1>3, <1>4, <1>5, <2>1
<1> HIDE DEF ws
<1>7. ws[0] = v /\ ws[n] = u
  <2>1. 0 \in 0..n /\ n \in 0..n
    BY <1>1
  <2> QED BY <1>2, <1>4, <1>6, <2>1
<1>8. ASSUME NEW i \in 1..n + 1
      PROVE  Apt(ms[i], ws[i - 1]) /\ ws[i] = Moved(ms[i], ws[i - 1])
  <2>1. CASE i = n + 1
    <3>1. i - 1 = n
      BY <1>1, <2>1
    <3> QED BY <1>1, <1>6, <1>7, <2>1, <3>1 DEF w
  <2>2. CASE i # n + 1
    <3>1. i \in 1..n /\ i \in 0..n /\ i - 1 \in 0..n
      BY <1>1, <2>2
    <3> QED BY <1>1, <1>4, <1>6, <3>1
  <2> QED BY <2>1, <2>2
<1>9. ASSUME NEW i \in 0..n + 1, \A k \in i + 1..n + 1 : ~Moving(ms[k])
      PROVE  ws[i] = ws[n + 1]
  <2>1. CASE i = n + 1
    BY <2>1
  <2>2. CASE i # n + 1
    <3>1. i \in 0..n /\ n + 1 \in i + 1..n + 1
      BY <1>1, <2>2
    <3>2. \A k \in i + 1..n : k \in i + 1..n + 1 /\ k \in 1..n
      BY <1>1, <3>1
    <3>3. ws[i] = u
      BY <1>1, <1>2, <1>4, <1>6, <1>9, <3>1, <3>2
    <3>4. ~Moving(line)
      BY <1>1, <1>9, <3>1
    <3>5. w = u
      BY <3>4 DEF w, Moving, Moved
    <3> QED BY <1>6, <3>3, <3>5
  <2> QED BY <2>1, <2>2
<1>10. ViewsOver(ws, v, ms)
  BY <1>1, <1>6, <1>7, <1>8, <1>9 DEF ViewsOver
<1> QED BY <1>1, <1>6, <1>10 DEF WindowReaches, w, ms

\* The window hears the first of the lines.
LEMMA WindowReachesNext ==
  ASSUME NEW v \in Views, NEW ls \in Seq(Messages), ls # <<>>, NEW u,
         WindowReaches(v, ls, u)
  PROVE  /\ Apt(Head(ls), v)
         /\ Moved(Head(ls), v) \in Views
         /\ WindowReaches(Moved(Head(ls), v), Tail(ls), u)
<1> DEFINE ms == Tail(ls)
           n  == Len(ms)
           w  == Moved(Head(ls), v)
<1>1. /\ n \in Nat /\ Len(ls) = n + 1 /\ Head(ls) = ls[1] /\ ls[1] \in Messages
      /\ \A i \in 1..n : ms[i] = ls[i + 1]
  OBVIOUS
<1>2. PICK vs : ViewsOver(vs, v, ls) /\ vs[Len(ls)] = u
  BY DEF WindowReaches
<1> HIDE DEF ms, n
<1>3. /\ vs \in [0..n + 1 -> Views] /\ vs[0] = v /\ vs[n + 1] = u
      /\ \A i \in 1..n + 1 : Apt(ls[i], vs[i - 1]) /\ vs[i] = Moved(ls[i], vs[i - 1])
      /\ \A i \in 0..n + 1 : (\A k \in i + 1..n + 1 : ~Moving(ls[k])) => vs[i] = vs[n + 1]
  BY <1>1, <1>2 DEF ViewsOver
<1>4. 1 \in 1..n + 1 /\ 1 - 1 = 0
  BY <1>1
<1>5. Apt(Head(ls), v) /\ vs[1] = w
  BY <1>1, <1>3, <1>4
<1>6. w \in Views
  BY <1>1, <1>5, MovedIsView
<1> HIDE DEF w
<1> DEFINE ws == [i \in 0..n |-> vs[i + 1]]
<1>7. \A i \in 0..n : ws[i] = vs[i + 1] /\ i + 1 \in 0..n + 1
  BY <1>1
<1>8. ws \in [0..n -> Views]
  BY <1>3, <1>7
<1> HIDE DEF ws
<1>9. ws[0] = w /\ ws[n] = u
  <2>1. 0 \in 0..n /\ n \in 0..n /\ 0 + 1 = 1
    BY <1>1
  <2> QED BY <1>3, <1>5, <1>7, <2>1
<1>10. ASSUME NEW i \in 1..n
       PROVE  Apt(ms[i], ws[i - 1]) /\ ws[i] = Moved(ms[i], ws[i - 1])
  <2>1. i \in 0..n /\ i - 1 \in 0..n /\ (i - 1) + 1 = i /\ i + 1 \in 1..n + 1 /\ (i + 1) - 1 = i
    BY <1>1
  <2> QED BY <1>1, <1>3, <1>7, <2>1
<1>11. ASSUME NEW i \in 0..n, \A k \in i + 1..n : ~Moving(ms[k])
       PROVE  ws[i] = ws[n]
  <2>1. ASSUME NEW k \in (i + 1) + 1..n + 1 PROVE ~Moving(ls[k])
    <3>1. k - 1 \in i + 1..n /\ k - 1 \in 1..n /\ (k - 1) + 1 = k
      BY <1>1
    <3> QED BY <1>1, <1>11, <3>1
  <2>2. i + 1 \in 0..n + 1
    BY <1>1
  <2> QED BY <1>3, <1>7, <1>9, <2>1, <2>2
<1>12. ViewsOver(ws, w, ms)
  BY <1>8, <1>9, <1>10, <1>11 DEF ViewsOver, n
<1>13. WindowReaches(w, ms, u)
  BY <1>9, <1>12 DEF WindowReaches, n
<1> QED BY <1>5, <1>6, <1>13 DEF w, ms

-----------------------------------------------------------------------------
(* Operations on the work                                                  *)

LEMMA EventForgotten ==
  ASSUME NEW s, WorkOK(s)
  PROVE  /\ WorkOK([s EXCEPT !.event = "init"])
         /\ View([s EXCEPT !.event = "init"]) = View(s)
<1>1. PICK p \in Products : s \in Snapshots({p}, Totals[p])
  BY DEF WorkOK
<1>2. [s EXCEPT !.event = "init"] \in Snapshots({p}, Totals[p])
  BY <1>1 DEF Snapshots
<1>3. View([s EXCEPT !.event = "init"]) = View(s)
  BY <1>1 DEF Snapshots, View
<1> QED BY <1>2, <1>3 DEF WorkOK

LEMMA SnapshotFields ==
  ASSUME NEW s, WorkOK(s)
  PROVE  /\ s = [product |-> s.product, total |-> s.total, step |-> s.step, state |-> s.state,
                 result |-> s.result, event |-> s.event]
         /\ s.total \in Nat \ {0}
<1>1. PICK p \in Products : s \in Snapshots({p}, Totals[p])
  BY DEF WorkOK
<1>2. Totals[p] \in Nat \ {0}
  BY StationAssumption
<1> QED BY <1>1, <1>2 DEF Snapshots

LEMMA IdleWorkOK ==
  ASSUME NEW s, WorkOK(s)
  PROVE  WorkOK(IdleAgain(s)) /\ View(IdleAgain(s)) = IdleView
<1> DEFINE t == [product |-> s.product, total |-> s.total, step |-> 0, state |-> "idle",
                 result |-> "waiting", event |-> "init"]
<1>1. PICK p \in Products : s \in Snapshots({p}, Totals[p])
  BY DEF WorkOK
<1>2. IdleAgain(s) = t
  <2>1. s = [product |-> s.product, total |-> s.total, step |-> s.step, state |-> s.state,
             result |-> s.result, event |-> s.event]
    BY SnapshotFields
  <2>2. IdleAgain(s) = [s EXCEPT !.step = 0, !.state = "idle", !.result = "waiting", !.event = "init"]
    BY DEF IdleAgain
  <2> QED BY <2>1, <2>2
<1>3. Totals[p] \in Nat
  BY StationAssumption
<1>4. t \in Snapshots({p}, Totals[p])
  BY <1>1, <1>3 DEF Snapshots
<1>5. View(t) = IdleView
  BY DEF View, IdleView
<1> HIDE DEF t
<1> QED BY <1>2, <1>4, <1>5 DEF WorkOK, Views

LEMMA WorkFacts ==
  ASSUME NEW s, WorkOK(s)
  PROVE  /\ View(s).step = s.step /\ View(s).state = s.state /\ View(s).result = s.result
         /\ View(s) \in Views /\ s.step \in Nat /\ s.state \in {"idle", "running", "paused"}
         /\ s.state = "idle" => View(s) = IdleView /\ s.step = 0
         /\ s.state # "idle" => s.step # 0 /\ s.result \in {"waiting", "fail"}
BY DEF WorkOK, View, Views, IdleView

LEMMA ConfigureWorkOK ==
  ASSUME NEW p \in Products
  PROVE  /\ WorkOK(Configure(p, Totals[p]).next)
         /\ View(Configure(p, Totals[p]).next) = IdleView
         /\ Configure(p, Totals[p]).next.state = "idle"
<1> DEFINE s == [product |-> p, total |-> Totals[p], step |-> 0, state |-> "idle",
                 result |-> "waiting", event |-> "init"]
<1>1. Configure(p, Totals[p]).next = s
  BY DEF Configure, Published
<1>2. Totals[p] \in Nat \ {0}
  BY StationAssumption
<1>3. s \in Snapshots({p}, Totals[p])
  BY <1>2 DEF Snapshots
<1>4. View(s) = IdleView /\ s.state = "idle"
  BY DEF View, IdleView
<1> HIDE DEF s
<1> QED BY <1>1, <1>3, <1>4 DEF WorkOK, Views

\* A work that goes on: what a change of its state, result and step leaves of it.
LEMMA WorkGoesOn ==
  ASSUME NEW s, WorkOK(s), NEW n \in Nat \ {0}, n = s.step \/ n <= s.total,
         NEW state \in {"running", "paused"}, NEW result \in {"waiting", "fail"},
         NEW event \in {"start", "pause", "resume", "ai_fail", "step_pass"}, NEW t,
         t = [product |-> s.product, total |-> s.total, step |-> n, state |-> state,
              result |-> result, event |-> event]
  PROVE  WorkOK(t) /\ View(t) = [step |-> n, state |-> state, result |-> result]
<1>1. PICK p \in Products : s \in Snapshots({p}, Totals[p])
  BY DEF WorkOK
<1>2. Totals[p] \in Nat \ {0}
  BY StationAssumption
<1>3. t \in Snapshots({p}, Totals[p])
  BY <1>1, <1>2 DEF Snapshots
<1>4. View(t) = [step |-> n, state |-> state, result |-> result]
  BY DEF View
<1>5. View(t) \in Views
  BY <1>4 DEF Views
<1> QED BY <1>3, <1>4, <1>5 DEF WorkOK

LEMMA StartWorkOK ==
  ASSUME NEW s, WorkOK(s)
  PROVE  /\ WorkOK(Start(s).next)
         /\ View(Start(s).next) =
              IF s.state = "paused" THEN [View(s) EXCEPT !.state = "running"]
              ELSE [step |-> 1, state |-> "running", result |-> "waiting"]
<1>1. s = [product |-> s.product, total |-> s.total, step |-> s.step, state |-> s.state,
           result |-> s.result, event |-> s.event]
  BY SnapshotFields
<1>2. CASE s.state = "paused"
  <2>1. Start(s).next = [s EXCEPT !.state = "running", !.event = "resume"]
    BY <1>2 DEF Start, Resume, Published
  <2>2. Start(s).next = [product |-> s.product, total |-> s.total, step |-> s.step,
          state |-> "running", result |-> s.result, event |-> "resume"]
    BY <1>1, <2>1
  <2>3. [View(s) EXCEPT !.state = "running"] =
          [step |-> s.step, state |-> "running", result |-> s.result]
    BY DEF View
  <2> QED BY <1>2, <2>2, <2>3, WorkFacts, WorkGoesOn
<1>3. CASE s.state # "paused"
  <2> DEFINE t == [product |-> s.product, total |-> s.total, step |-> 1,
          state |-> "running", result |-> "waiting", event |-> "start"]
  <2>1. Start(s).next = [s EXCEPT !.step = 1, !.state = "running",
                           !.result = "waiting", !.event = "start"]
    BY <1>3 DEF Start, Published
  <2>2. Start(s).next = t
    BY <1>1, <2>1
  <2>3. WorkOK(t) /\ View(t) = [step |-> 1, state |-> "running", result |-> "waiting"]
    <3>1. s.total \in Nat \ {0}
      BY SnapshotFields
    <3>2. 1 \in Nat \ {0} /\ 1 <= s.total
      BY <3>1
    <3> HIDE DEF t
    <3> QED BY <3>2, WorkGoesOn DEF t
  <2> QED BY <1>3, <2>2, <2>3
<1> QED BY <1>2, <1>3

LEMMA PauseWorkOK ==
  ASSUME NEW s, WorkOK(s)
  PROVE  /\ WorkOK(Pause(s).next)
         /\ View(Pause(s).next) =
              IF s.state = "running" THEN [View(s) EXCEPT !.state = "paused"] ELSE View(s)
<1>1. s = [product |-> s.product, total |-> s.total, step |-> s.step, state |-> s.state,
           result |-> s.result, event |-> s.event]
  BY SnapshotFields
<1>2. CASE s.state = "running"
  <2>1. Pause(s).next = [s EXCEPT !.state = "paused", !.event = "pause"]
    BY <1>2 DEF Pause, Published
  <2>2. Pause(s).next = [product |-> s.product, total |-> s.total, step |-> s.step,
          state |-> "paused", result |-> s.result, event |-> "pause"]
    BY <1>1, <2>1
  <2>3. [View(s) EXCEPT !.state = "paused"] =
          [step |-> s.step, state |-> "paused", result |-> s.result]
    BY DEF View
  <2> QED BY <1>2, <2>2, <2>3, WorkFacts, WorkGoesOn
<1>3. CASE s.state # "running"
  BY <1>3 DEF Pause, Refused
<1> QED BY <1>2, <1>3

LEMMA ResumeWorkOK ==
  ASSUME NEW s, WorkOK(s)
  PROVE  /\ WorkOK(Resume(s).next)
         /\ View(Resume(s).next) =
              IF s.state = "paused" THEN [View(s) EXCEPT !.state = "running"] ELSE View(s)
<1>1. CASE s.state = "paused"
  <2>1. Resume(s).next = Start(s).next
    BY <1>1 DEF Start
  <2> QED BY <1>1, <2>1, StartWorkOK
<1>2. CASE s.state # "paused"
  BY <1>2 DEF Resume, Refused
<1> QED BY <1>1, <1>2

LEMMA DefectWorkOK ==
  ASSUME NEW s, WorkOK(s)
  PROVE  /\ WorkOK(RegisterDefect(s).next)
         /\ View(RegisterDefect(s).next) = IdleView
<1> DEFINE t == [s EXCEPT !.result = "defect", !.event = "manual_defect"]
<1>1. CASE s.state # "idle"
  <2>1. RegisterDefect(s).next = IdleAgain(t)
    BY <1>1, WorkFacts DEF RegisterDefect, Ended
  <2>2. IdleAgain(t) = IdleAgain(s)
    BY SnapshotFields DEF IdleAgain
  <2> QED BY <2>1, <2>2, IdleWorkOK
<1>2. CASE s.state = "idle"
  <2>1. RegisterDefect(s).next = s
    BY <1>2 DEF RegisterDefect, Refused
  <2> QED BY <1>2, <2>1, WorkFacts
<1> QED BY <1>1, <1>2

\* The verdict is applied to a work that runs.
LEMMA JudgementWorkOK ==
  ASSUME NEW s, WorkOK(s), NEW verdict \in {"PASS", "FAIL"}
  PROVE  /\ WorkOK(ApplyJudgement(s, verdict).next)
         /\ s.state = "running" =>
              View(ApplyJudgement(s, verdict).next) =
                IF verdict = "FAIL" THEN [View(s) EXCEPT !.result = "fail"]
                ELSE IF s.step >= s.total THEN IdleView
                ELSE [step |-> s.step + 1, state |-> "running", result |-> "waiting"]
<1> DEFINE r == ApplyJudgement(s, verdict).next
<1>1. s = [product |-> s.product, total |-> s.total, step |-> s.step, state |-> s.state,
           result |-> s.result, event |-> s.event]
  BY SnapshotFields
<1>2. s.step \in Nat /\ s.total \in Nat \ {0}
  BY WorkFacts, SnapshotFields
<1>3. CASE s.state # "running"
  BY <1>3 DEF ApplyJudgement, Refused
<1>4. CASE s.state = "running" /\ verdict = "FAIL"
  <2>1. r = [s EXCEPT !.result = "fail", !.event = "ai_fail"]
    BY <1>4 DEF ApplyJudgement, Published
  <2>2. r = [product |-> s.product, total |-> s.total, step |-> s.step,
          state |-> "running", result |-> "fail", event |-> "ai_fail"]
    BY <1>1, <1>4, <2>1
  <2>3. [View(s) EXCEPT !.result = "fail"] =
          [step |-> s.step, state |-> "running", result |-> "fail"]
    BY <1>4 DEF View
  <2> QED BY <1>4, <2>2, <2>3, WorkFacts, WorkGoesOn
<1>5. CASE s.state = "running" /\ verdict = "PASS" /\ s.step >= s.total
  <2> DEFINE t == [s EXCEPT !.state = "complete", !.result = "pass", !.event = "complete"]
  <2>1. r = IdleAgain(t)
    BY <1>2, <1>5 DEF ApplyJudgement, Ended
  <2>2. IdleAgain(t) = IdleAgain(s)
    BY SnapshotFields DEF IdleAgain
  <2> QED BY <1>5, <2>1, <2>2, IdleWorkOK
<1>6. CASE s.state = "running" /\ verdict = "PASS" /\ ~s.step >= s.total
  <2>1. r = [s EXCEPT !.step = s.step + 1, !.result = "waiting", !.event = "step_pass"]
    BY <1>2, <1>6 DEF ApplyJudgement, Published
  <2>2. r = [product |-> s.product, total |-> s.total, step |-> s.step + 1,
          state |-> "running", result |-> "waiting", event |-> "step_pass"]
    BY <1>1, <1>6, <2>1
  <2>3. s.step + 1 \in Nat \ {0} /\ s.step + 1 <= s.total
    BY <1>2, <1>6
  <2> HIDE DEF r
  <2>4. WorkOK(r) /\ View(r) = [step |-> s.step + 1, state |-> "running", result |-> "waiting"]
    BY <2>2, <2>3, WorkGoesOn
  <2> QED BY <1>6, <2>4 DEF r
<1> QED BY <1>3, <1>4, <1>5, <1>6

\* The clamp leaves the step of a saved work alone.
LEMMA RestoreWorkOK ==
  ASSUME NEW p \in Products, NEW work \in Saved(p)
  PROVE  /\ WorkOK(RestoreState(work).next)
         /\ View(RestoreState(work).next) =
              [step |-> work.step, state |-> work.state, result |-> work.result]
         /\ work.step \in Nat \ {0} /\ work.state \in {"running", "paused"}
         /\ work.result \in {"waiting", "fail"}
<1>1. Totals[p] \in Nat \ {0}
  BY StationAssumption
<1>2. /\ work.product = p /\ work.total = Totals[p] /\ work.step \in 1..Totals[p]
      /\ work.state \in {"running", "paused"} /\ work.result \in {"waiting", "fail"}
  BY DEF Saved
<1>3. Min({work.total, work.step}) = work.step
  BY <1>1, <1>2 DEF Min
<1>4. Max({1, work.step}) = work.step
  BY <1>1, <1>2 DEF Max
<1> DEFINE t == [product |-> work.product, total |-> work.total, step |-> work.step,
                 state |-> work.state, result |-> work.result, event |-> "restore"]
<1>5. RestoreState(work).next = t
  BY <1>3, <1>4 DEF RestoreState, Published
<1>6. t \in Snapshots({p}, Totals[p])
  BY <1>1, <1>2 DEF Snapshots
<1>7. View(t) = [step |-> work.step, state |-> work.state, result |-> work.result]
  BY DEF View
<1>8. View(t) \in Views
  BY <1>1, <1>2, <1>7 DEF Views
<1>9. work.step \in Nat \ {0}
  BY <1>1, <1>2
<1> HIDE DEF t
<1>10. WorkOK(t)
  BY <1>6, <1>8 DEF WorkOK
<1> QED BY <1>2, <1>5, <1>7, <1>9, <1>10

-----------------------------------------------------------------------------
(* The states of the station                                               *)

LEMMA ApplyFacts ==
  ASSUME NEW operation, WorkOK(operation.next), Apply(operation)
  PROVE  WorkOK(snapshot') /\ View(snapshot') = View(operation.next)
BY EventForgotten DEF Apply

LEMMA SendFacts ==
  ASSUME LineShape, NEW c \in Commands, Send(c)
  PROVE  /\ bytes' \in Seq(Commands) /\ linked' = linked
         /\ linked => bytes' = Append(bytes, c)
BY DEF Send, LineShape

LEMMA DeliverFacts ==
  ASSUME BoardShape, LineShape, Stm!Deliver
  PROVE  BoardShape' /\ lines' \in Seq(Messages) /\ lines # <<>> /\ lines' = Tail(lines)
<1>1. BoardShape'
  BY DEF Stm!Deliver, BoardShape
<1> QED BY <1>1 DEF Stm!Deliver, LineShape

LEMMA SaysFacts ==
  ASSUME LineShape, NEW message \in Messages, Stm!Says(message)
  PROVE  /\ ~serving /\ byte' = byte /\ serving' = serving
         /\ lines' = Append(lines, message) /\ lines' \in Seq(Messages)
BY DEF Stm!Says, LineShape

\* The board as its buttons and its commands leave it.
LEMMA BoardShapeNext ==
  ASSUME BoardShape, LineShape,
         \/ Stm!Serve \/ Stm!Acknowledge
         \/ Stm!PressCheck \/ Stm!PressStart \/ Stm!PressPause \/ Stm!PressReset
  PROVE  BoardShape' /\ lines' \in Seq(Messages)
<1>1. CASE Stm!Serve
  <2>1. Stm!Fits(byte) => Suits(byte, face)
    BY DEF Stm!Fits, Suits
  <2>2. face' \in Stm!Faces
    <3>1. byte \in Commands
      BY <1>1 DEF Stm!Serve, BoardShape
    <3>2. Taken(byte, face) \in Stm!Faces
      BY <3>1, TakenIsFace DEF BoardShape
    <3> QED BY <1>1, <2>1, <3>2 DEF Stm!Serve, Taken, BoardShape
  <2> QED BY <1>1, <2>2 DEF Stm!Serve, BoardShape, LineShape
<1>2. CASE Stm!Acknowledge
  BY <1>2 DEF Stm!Acknowledge, BoardShape, LineShape
<1>3. CASE Stm!PressCheck
  <2>1. "Check" \in Messages
    BY DEF Messages
  <2> QED BY <1>3, <2>1, SaysFacts DEF Stm!PressCheck, BoardShape
<1>4. CASE Stm!PressStart
  <2>1. "Start" \in Messages
    BY DEF Messages
  <2> QED BY <1>4, <2>1, SaysFacts DEF Stm!PressStart, BoardShape
<1>5. CASE Stm!PressPause
  <2>1. "Pause" \in Messages /\ "Resume" \in Messages
    BY DEF Messages
  <2>2. face.step \in 1..LastStep
    BY <1>5, ProtocolAssumption, FaceFacts DEF Stm!PressPause, BoardShape
  <2>3. Stm!Paused(face) \in Stm!Faces /\ Stm!Resumed(face) \in Stm!Faces
    BY <2>2, FaceFacts, ProtocolAssumption DEF Stm!Paused, Stm!Resumed, Stm!Faces, BoardShape
  <2> QED BY <1>5, <2>1, <2>3, SaysFacts DEF Stm!PressPause, BoardShape
<1>6. CASE Stm!PressReset
  <2>1. "Reset" \in Messages
    BY DEF Messages
  <2> QED BY <1>6, <2>1, BlankIsFace, SaysFacts DEF Stm!PressReset, BoardShape
<1> QED BY <1>1, <1>2, <1>3, <1>4, <1>5, <1>6

LEMMA NoWindowOK ==
  WorkOK(NoWindow) /\ View(NoWindow) = IdleView /\ NoWindow.state = "idle"
<1> DEFINE p == CHOOSE product \in Products : TRUE
<1>1. p \in Products
  BY StationAssumption
<1>2. NoWindow = Configure(p, Totals[p]).next
  BY DEF NoWindow
<1> QED BY <1>1, <1>2, ConfigureWorkOK

LEMMA ShapeInit ==
  Init => Shape
<1> SUFFICES ASSUME Init PROVE Shape
  OBVIOUS
<1>1. BoardShape
  BY BlankIsFace DEF Init, Stm!Init, BoardShape
<1>2. LineShape
  BY DEF Init, Stm!Init, LineShape
<1>3. WindowShape
  BY NoWindowOK DEF Init, WindowShape
<1> QED BY <1>1, <1>2, <1>3 DEF Shape

LEMMA ClickShape ==
  ASSUME Shape, ClickStart \/ ClickPause \/ ClickDefect \/ ClickJudge
  PROVE  Shape'
<1> USE DEF Shape
<1>1. CASE ClickStart
  <2>1. WorkOK(Start(snapshot).next)
    BY StartWorkOK DEF WindowShape
  <2> QED BY <1>1, <2>1, ApplyFacts, SendFacts, CommandFacts
          DEF ClickStart, MayClick, BoardShape, LineShape, WindowShape, board
<1>2. CASE ClickPause
  <2>1. WorkOK(Pause(snapshot).next) /\ WorkOK(Resume(snapshot).next)
    BY PauseWorkOK, ResumeWorkOK DEF WindowShape
  <2> QED BY <1>2, <2>1, ApplyFacts, SendFacts, CommandFacts
          DEF ClickPause, MayClick, BoardShape, LineShape, WindowShape, board
<1>3. CASE ClickDefect
  <2>1. WorkOK(RegisterDefect(snapshot).next)
    BY DefectWorkOK DEF WindowShape
  <2> QED BY <1>3, <2>1, ApplyFacts, SendFacts, CommandFacts
          DEF ClickDefect, MayClick, BoardShape, LineShape, WindowShape, board
<1>4. CASE ClickJudge
  BY <1>4 DEF ClickJudge, Judge, SendNothing, BoardShape, LineShape, WindowShape, board
<1> QED BY <1>1, <1>2, <1>3, <1>4

LEMMA ResultShape ==
  ASSUME Shape, NEW verdict \in {"PASS", "FAIL"}, HandleResult(verdict)
  PROVE  Shape'
<1>1. WorkOK(ApplyJudgement(snapshot, verdict).next)
  BY JudgementWorkOK DEF Shape, WindowShape
<1>2. Answer(verdict) \in Commands
  BY CommandFacts DEF Answer
<1> QED BY <1>1, <1>2, ApplyFacts, SendFacts
        DEF HandleResult, Tell, Shape, BoardShape, LineShape, WindowShape, board

LEMMA LineShapeNext ==
  ASSUME Shape, Lines
  PROVE  Shape'
<1> USE DEF Shape
<1>1. CASE LineCheck
  <2>1. window' = window /\ refreshing' = refreshing /\ Stm!Deliver
    BY <1>1 DEF LineCheck, Line
  <2> QED BY <1>1, <2>1, DeliverFacts
          DEF LineCheck, Judge, SendNothing, LineShape, WindowShape
<1>2. CASE LineCheckUnseen
  <2>1. window' = window /\ refreshing' = refreshing /\ Stm!Deliver
    BY <1>2 DEF LineCheckUnseen, Line
  <2> QED BY <1>2, <2>1, DeliverFacts
          DEF LineCheckUnseen, SendNothing, LineShape, WindowShape
<1>3. CASE LineStart
  <2>1. window' = window /\ window = "in" /\ refreshing' = refreshing /\ Stm!Deliver
    BY <1>3 DEF LineStart, Line
  <2>2. WorkOK(Start(snapshot).next)
    BY StartWorkOK DEF WindowShape
  <2> QED BY <1>3, <2>1, <2>2, DeliverFacts, ApplyFacts, SendFacts, CommandFacts
          DEF LineStart, LineShape, WindowShape
<1>4. CASE LineMoves
  <2>1. window' = window /\ window = "in" /\ refreshing' = refreshing /\ Stm!Deliver
    BY <1>4 DEF LineMoves, Line
  <2>2. /\ WorkOK(Pause(snapshot).next) /\ WorkOK(Resume(snapshot).next)
        /\ WorkOK(RegisterDefect(snapshot).next)
    BY PauseWorkOK, ResumeWorkOK, DefectWorkOK DEF WindowShape
  <2>3. WorkOK(snapshot')
    BY <1>4, <2>2, ApplyFacts DEF LineMoves, WindowShape
  <2> QED BY <1>4, <2>1, <2>3, DeliverFacts
          DEF LineMoves, SendNothing, LineShape, WindowShape
<1> QED BY <1>1, <1>2, <1>3, <1>4 DEF Lines

LEMMA OpenPortShape ==
  ASSUME BoardShape, LineShape, NEW commands \in Seq(Commands), OpenPort(commands)
  PROVE  /\ BoardShape' /\ lines' = <<>> /\ linked' = TRUE /\ lines' \in Seq(Messages)
         /\ bytes' = bytes \o commands /\ bytes' \in Seq(Commands)
<1>1. bytes \o commands \in Seq(Commands)
  BY DEF LineShape
<1> QED BY <1>1 DEF OpenPort, BoardShape

LEMMA LogShape ==
  ASSUME Shape, NEW product \in Products,
         ChooseProduct(product) \/ LogIn(product) \/ LogInToWork(product)
  PROVE  Shape'
<1> USE DEF Shape
<1>1. CASE ChooseProduct(product)
  BY <1>1, ApplyFacts, ConfigureWorkOK
     DEF ChooseProduct, MayClick, SendNothing, BoardShape, LineShape, WindowShape, board
<1>2. CASE LogIn(product)
  <2>1. <<"E">> \in Seq(Commands)
    BY CommandFacts
  <2>2. BoardShape' /\ LineShape'
    BY <1>2, <2>1, OpenPortShape DEF LogIn, LineShape
  <2>3. WindowShape'
    BY <1>2, ApplyFacts, ConfigureWorkOK DEF LogIn, WindowShape
  <2> QED BY <2>2, <2>3
<1>3. CASE LogInToWork(product)
  <2>1. PICK work \in Saved(product) :
          /\ Apply(RestoreState(work))
          /\ OpenPort(IF work.step <= LastStep THEN <<Digits[work.step]>> ELSE <<>>)
          /\ window' = IF work.step <= LastStep /\ work.state = "paused"
                       THEN "restoring" ELSE "in"
          /\ level' = (work.step <= LastStep)
    BY <1>3 DEF LogInToWork
  <2> DEFINE digit == IF work.step <= LastStep THEN <<Digits[work.step]>> ELSE <<>>
  <2>2. digit \in Seq(Commands)
    <3>1. work.step \in Nat \ {0}
      BY RestoreWorkOK
    <3>2. CASE work.step <= LastStep
      <4>1. work.step \in 1..LastStep
        BY <3>1, <3>2, ProtocolAssumption
      <4>2. Digits[work.step] \in Commands
        BY <4>1, DigitFacts
      <4> QED BY <3>2, <4>2
    <3> QED BY <3>2
  <2>3. OpenPort(digit) /\ level' \in BOOLEAN
    BY <2>1
  <2> HIDE DEF digit
  <2>4. BoardShape' /\ LineShape'
    BY <2>2, <2>3, OpenPortShape DEF LineShape
  <2>5. WindowShape'
    <3>1. WorkOK(snapshot')
      BY <2>1, RestoreWorkOK, ApplyFacts
    <3>2. window' \in {"in", "restoring"} /\ judging' = "no" /\ refreshing' = FALSE
      BY <1>3, <2>1 DEF LogInToWork
    <3> QED BY <3>1, <3>2 DEF WindowShape
  <2> QED BY <2>4, <2>5
<1> QED BY <1>1, <1>2, <1>3

\* A product list, asked for or come.
LEMMA ListShape ==
  ASSUME Shape, RefreshProducts \/ Lists
  PROVE  Shape'
<1>1. CASE RefreshProducts
  BY <1>1 DEF RefreshProducts, SendNothing, Shape, BoardShape, LineShape, WindowShape, board
<1>2. CASE Lists
  <2>1. PICK product \in Products : ProductsFetched(product)
    BY <1>2 DEF Lists
  <2>2. WorkOK(snapshot') /\ window' = "in" /\ refreshing' = FALSE /\ level' \in BOOLEAN
    BY <2>1, ApplyFacts, ConfigureWorkOK DEF ProductsFetched
  <2> QED BY <2>1, <2>2
          DEF ProductsFetched, SendNothing, Shape, BoardShape, LineShape, WindowShape, board
<1> QED BY <1>1, <1>2

LEMMA GoneShape ==
  ASSUME Shape, Gone
  PROVE  /\ BoardShape' /\ WindowShape'
         /\ lines' = <<>> /\ lines' \in Seq(Messages) /\ View(snapshot') = IdleView
<1>1. BoardShape'
  BY DEF Gone, Shape, BoardShape
<1>2. /\ snapshot' = NoWindow /\ window' = "out" /\ judging' = "no" /\ refreshing' = FALSE
      /\ lines' = <<>>
  BY DEF Gone
<1>3. WorkOK(snapshot') /\ View(snapshot') = IdleView /\ snapshot'.state = "idle"
  BY <1>2, NoWindowOK
<1>4. WindowShape'
  BY <1>2, <1>3 DEF WindowShape
<1> QED BY <1>1, <1>2, <1>3, <1>4

LEMMA ShapeNext ==
  Shape /\ [Next]_vars => Shape'
<1> SUFFICES ASSUME Shape, [Next]_vars PROVE Shape'
  OBVIOUS
<1>1. CASE Arrive
  <2>1. Head(bytes) \in Commands /\ Tail(bytes) \in Seq(Commands)
    BY <1>1 DEF Arrive, Shape, LineShape
  <2>2. BoardShape'
    BY <1>1, <2>1, CommandFacts DEF Arrive, Stm!Receive, Shape, BoardShape
  <2> QED BY <1>1, <2>1, <2>2 DEF Arrive, Stm!Receive, Shape, LineShape, WindowShape, jetson
<1>2. CASE BoardServes
  BY <1>2, BoardShapeNext DEF BoardServes, Shape, LineShape, WindowShape, jetson
<1>3. CASE Press
  <2>1. BoardShape' /\ lines' \in Seq(Messages)
    BY <1>3, BoardShapeNext DEF Press, Shape
  <2>2. level' \in BOOLEAN
    BY <1>3 DEF Press
  <2> QED BY <1>3, <2>1, <2>2 DEF Press, Shape, LineShape, WindowShape, jetson
<1>4. CASE Results
  BY <1>4, ResultShape DEF Results
<1>5. CASE Lines
  BY <1>5, LineShapeNext
<1>6. CASE RestorePause
  <2>1. bytes' \in Seq(Commands) /\ linked' = linked
    BY <1>6, SendFacts, CommandFacts DEF RestorePause, Shape
  <2>2. level' \in BOOLEAN /\ window' = "in" /\ UNCHANGED <<board, snapshot, judging, refreshing>>
    BY <1>6 DEF RestorePause
  <2> QED BY <2>1, <2>2 DEF Shape, BoardShape, LineShape, WindowShape, board
<1>7. CASE ClickStart \/ ClickPause \/ ClickDefect \/ ClickJudge
  BY <1>7, ClickShape
<1>8. CASE \E product \in Products :
             ChooseProduct(product) \/ LogIn(product) \/ LogInToWork(product)
  BY <1>8, LogShape
<1>9. CASE Close
  <2>1. bytes' \in Seq(Commands) /\ linked' = linked
    BY <1>9, SendFacts, CommandFacts DEF Close, Shape
  <2>2. level' \in BOOLEAN /\ Gone
    BY <1>9 DEF Close
  <2> QED BY <2>1, <2>2, GoneShape DEF Shape, LineShape
<1>10. CASE Refresh
  <2>1. <<>> \in Seq(Commands)
    OBVIOUS
  <2> QED BY <1>10, <2>1, OpenPortShape DEF Refresh, Shape, LineShape, WindowShape, jetson
<1>11. CASE InferenceFails
  BY <1>11 DEF InferenceFails, Shape, BoardShape, LineShape, WindowShape, board
<1>12. CASE Unplug
  <2>1. level' \in BOOLEAN /\ linked' = FALSE /\ bytes' = <<>> /\ lines' = <<>>
    BY <1>12 DEF Unplug
  <2>2. UNCHANGED <<face, asked, byte, serving>> /\ UNCHANGED <<snapshot, judging, window, refreshing>>
    BY <1>12 DEF Unplug, jetson
  <2>3. <<>> \in Seq(Commands) /\ <<>> \in Seq(Messages)
    OBVIOUS
  <2> QED BY <2>1, <2>2, <2>3 DEF Shape, BoardShape, LineShape, WindowShape
<1>13. CASE Crash
  BY <1>13, GoneShape DEF Crash, Shape, LineShape
<1>14. CASE BoardReset
  BY <1>14, BlankIsFace DEF BoardReset, Shape, BoardShape, LineShape, WindowShape, jetson
<1>15. CASE RefreshProducts \/ Lists
  BY <1>15, ListShape
<1>16. CASE UNCHANGED vars
  BY <1>16 DEF vars, board, jetson, Shape, BoardShape, LineShape, WindowShape
<1> QED BY <1>1, <1>2, <1>3, <1>4, <1>5, <1>6, <1>7, <1>8, <1>9, <1>10, <1>11, <1>12, <1>13,
           <1>14, <1>15, <1>16 DEF Next, Worker

\* TypeOK: the station never leaves the states the code knows.
THEOREM StationTypeOK ==
  Spec => []TypeOK
<1>1. ASSUME Shape PROVE TypeOK
  <2>1. \A i \in DOMAIN lines : lines[i] \in Messages
    BY <1>1 DEF Shape, LineShape
  <2>2. \A i \in DOMAIN bytes : bytes[i] \in Commands
    BY <1>1 DEF Shape, LineShape
  <2>3. \E product \in Products : snapshot \in Snapshots({product}, Totals[product])
    BY <1>1 DEF Shape, WindowShape, WorkOK
  <2> QED BY <1>1, <2>1, <2>2, <2>3 DEF Shape, BoardShape, LineShape, WindowShape, TypeOK
<1> QED BY <1>1, ShapeInit, ShapeNext, PTL DEF Spec

-----------------------------------------------------------------------------
(* Window and board stay level: what the steps have in common              *)

LEMMA ComingFacts ==
  ASSUME LineShape
  PROVE  /\ Coming \in Seq(Commands)
         /\ window # "restoring" => Coming = bytes
         /\ window = "restoring" => Coming = Append(bytes, "U")
<1>1. /\ bytes \in Seq(Commands) /\ bytes \o <<>> = bytes /\ bytes \o <<"U">> = Append(bytes, "U")
      /\ Append(bytes, "U") \in Seq(Commands)
  BY CommandFacts DEF LineShape
<1> QED BY <1>1 DEF Coming

LEMMA ComingFactsNext ==
  ASSUME LineShape'
  PROVE  /\ Coming' \in Seq(Commands)
         /\ window' # "restoring" => Coming' = bytes'
         /\ window' = "restoring" => Coming' = Append(bytes', "U")
<1>1. /\ bytes' \in Seq(Commands) /\ bytes' \o <<>> = bytes'
      /\ bytes' \o <<"U">> = Append(bytes', "U") /\ Append(bytes', "U") \in Seq(Commands)
  BY CommandFacts DEF LineShape
<1> QED BY <1>1 DEF Coming

LEMMA FacingIsFace ==
  ASSUME BoardShape
  PROVE  Facing \in Stm!Faces
BY TakenIsFace DEF BoardShape, Facing

\* Where no line moves the work, the commands lead the board to the work as it is.
LEMMA Abreast ==
  ASSUME Shape, Concord, level, Calm
  PROVE  BoardReaches(Facing, Coming, View(snapshot))
<1>1. PICK u \in Views : /\ WindowReaches(View(snapshot), lines, u)
                         /\ BoardReaches(Facing, Coming, u)
  BY DEF Concord, Meet
<1>2. \A i \in 1..Len(lines) : ~Moving(lines[i])
  BY DEF Calm, Underway, Moving
<1>3. View(snapshot) \in Views /\ lines \in Seq(Messages)
  BY DEF Shape, WindowShape, LineShape, WorkOK
<1>4. u = View(snapshot)
  BY <1>1, <1>2, <1>3, WindowStays
<1> QED BY <1>1, <1>4

\* ... and that is all there is to show.
LEMMA CalmConcord ==
  ASSUME Shape', linked' \/ lines' = <<>>, Calm',
         BoardReaches(Facing', Coming', View(snapshot'))
  PROVE  Concord'
<1>1. \A i \in 1..Len(lines') : ~Moving(lines'[i])
  BY DEF Calm, Underway, Moving
<1>2. View(snapshot') \in Views /\ lines' \in Seq(Messages)
  BY DEF Shape, WindowShape, LineShape, WorkOK
<1>3. WindowReaches(View(snapshot'), lines', View(snapshot'))
  BY <1>1, <1>2, WindowStays
<1>4. Meet'
  BY <1>2, <1>3 DEF Meet
<1>5. LinesAlone'
  BY DEF LinesAlone
<1>6. StartFromRest'
  BY DEF StartFromRest, Calm, Underway
<1> QED BY <1>4, <1>5, <1>6 DEF Concord

LEMMA EmptyIsCalm ==
  ASSUME lines' = <<>>
  PROVE  Calm'
BY DEF Calm

\* The window sends a command, and the board is left alone.
LEMMA SendConcord ==
  ASSUME Shape, Shape', window' # "restoring", UNCHANGED board, linked, Calm,
         NEW c \in Commands, Send(c),
         BoardReaches(Facing, Append(bytes, c), View(snapshot'))
  PROVE  Concord'
<1>1. bytes' = Append(bytes, c) /\ linked' = linked
  BY SendFacts DEF Shape
<1>2. Coming' = Append(bytes, c)
  BY <1>1, ComingFactsNext DEF Shape
<1>3. Facing' = Facing /\ lines' = lines
  BY DEF board, Facing
<1>4. Calm'
  BY <1>3 DEF Calm
<1> QED BY <1>1, <1>2, <1>3, <1>4, CalmConcord

\* Level before, with no line underway: the command has to take each face that matches
\* the work as it was to one that matches the work as it is.
LEMMA Follows ==
  ASSUME Shape, Concord, level, InOrder, window # "restoring", NEW c \in Commands, NEW w,
         \A g \in Stm!Faces : Matches(g, View(snapshot)) => Matches(Taken(c, g), w)
  PROVE  linked /\ Calm /\ BoardReaches(Facing, Append(bytes, c), w)
<1>1. linked /\ Calm
  BY DEF InOrder, Calm, Shape, LineShape
<1>2. BoardReaches(Facing, bytes, View(snapshot)) /\ bytes \in Seq(Commands)
  BY <1>1, Abreast, ComingFacts DEF Shape, LineShape
<1>3. Facing \in Stm!Faces
  BY FacingIsFace DEF Shape
<1> QED BY <1>1, <1>2, <1>3, BoardReachesMore

\* Level again: a command whose effect is the same on every face.
LEMMA Resets ==
  ASSUME Shape, linked, Quiet, NEW c \in {"C", "R", "E"}
  PROVE  linked /\ Calm /\ BoardReaches(Facing, Append(bytes, c), IdleView)
<1>1. c \in Commands /\ bytes \in Seq(Commands) /\ Facing \in Stm!Faces
  BY CommandFacts, FacingIsFace DEF Shape, LineShape
<1>2. BoardReaches(Facing, Append(bytes, c), IdleView)
  BY <1>1, EndMatched, BoardReachesAnew
<1> QED BY <1>2 DEF Quiet, Calm

-----------------------------------------------------------------------------
(* Window and board stay level: handlers of the window                     *)

LEMMA ClickStartConcord ==
  ASSUME Shape, Shape', Concord, ClickStart
  PROVE  Concord'
<1> SUFFICES ASSUME level' PROVE Concord'
  BY DEF Concord
<1>1. /\ level /\ InOrder /\ window = "in" /\ window' = "in" /\ snapshot.state = "idle"
      /\ Apply(Start(snapshot)) /\ Send("S") /\ UNCHANGED board
  BY DEF ClickStart, MayClick
<1> DEFINE w == [step |-> 1, state |-> "running", result |-> "waiting"]
<1>2. WorkOK(snapshot) /\ View(snapshot) = IdleView
  BY <1>1, WorkFacts DEF Shape, WindowShape
<1>3. View(snapshot') = w
  BY <1>1, <1>2, StartWorkOK, ApplyFacts
<1>4. w.step = 1 /\ w.state = "running"
  OBVIOUS
<1> HIDE DEF w
<1>5. ASSUME NEW g \in Stm!Faces, Matches(g, View(snapshot)) PROVE Matches(Taken("S", g), w)
  <2>1. g.leds = {}
    BY <1>2, <1>5, ProtocolAssumption DEF Matches, IdleView
  <2> QED BY <1>4, <2>1, StartMatched
<1>6. "S" \in Commands
  BY CommandFacts
<1>7. linked /\ Calm /\ BoardReaches(Facing, Append(bytes, "S"), w)
  BY <1>1, <1>5, <1>6, Follows
<1> QED BY <1>1, <1>3, <1>6, <1>7, SendConcord

LEMMA ClickPauseConcord ==
  ASSUME Shape, Shape', Concord, ClickPause
  PROVE  Concord'
<1> SUFFICES ASSUME level' PROVE Concord'
  BY DEF Concord
<1>1. /\ level /\ InOrder /\ window = "in" /\ window' = "in" /\ UNCHANGED board
      /\ \/ snapshot.state = "running" /\ Apply(Pause(snapshot)) /\ Send("U")
         \/ snapshot.state = "paused" /\ Apply(Resume(snapshot)) /\ Send("M")
  BY DEF ClickPause, MayClick
<1>2. WorkOK(snapshot) /\ View(snapshot) \in Views /\ View(snapshot).state = snapshot.state
  BY WorkFacts DEF Shape, WindowShape
<1>3. "U" \in Commands /\ "M" \in Commands
  BY CommandFacts
<1>4. CASE snapshot.state = "running" /\ Apply(Pause(snapshot)) /\ Send("U")
  <2> DEFINE w == [View(snapshot) EXCEPT !.state = "paused"]
  <2>1. View(snapshot') = w
    BY <1>2, <1>4, PauseWorkOK, ApplyFacts
  <2>2. \A g \in Stm!Faces : Matches(g, View(snapshot)) => Matches(Taken("U", g), w)
    BY <1>2, <1>4, PauseMatched
  <2> HIDE DEF w
  <2>3. linked /\ Calm /\ BoardReaches(Facing, Append(bytes, "U"), w)
    BY <1>1, <1>3, <2>2, Follows
  <2> QED BY <1>1, <1>3, <1>4, <2>1, <2>3, SendConcord
<1>5. CASE snapshot.state = "paused" /\ Apply(Resume(snapshot)) /\ Send("M")
  <2> DEFINE w == [View(snapshot) EXCEPT !.state = "running"]
  <2>1. View(snapshot') = w
    BY <1>2, <1>5, ResumeWorkOK, ApplyFacts
  <2>2. \A g \in Stm!Faces : Matches(g, View(snapshot)) => Matches(Taken("M", g), w)
    BY <1>2, <1>5, ResumeMatched
  <2> HIDE DEF w
  <2>3. linked /\ Calm /\ BoardReaches(Facing, Append(bytes, "M"), w)
    BY <1>1, <1>3, <2>2, Follows
  <2> QED BY <1>1, <1>3, <1>5, <2>1, <2>3, SendConcord
<1> QED BY <1>1, <1>4, <1>5

LEMMA ClickDefectConcord ==
  ASSUME Shape, Shape', Concord, ClickDefect
  PROVE  Concord'
<1> SUFFICES ASSUME level' PROVE Concord'
  BY DEF Concord
<1>1. /\ (level /\ InOrder) \/ Levels
      /\ window = "in" /\ window' = "in" /\ UNCHANGED board
      /\ Apply(RegisterDefect(snapshot)) /\ Send("R")
  BY DEF ClickDefect, MayClick
<1>2. View(snapshot') = IdleView
  BY <1>1, DefectWorkOK, ApplyFacts DEF Shape, WindowShape
<1>3. "R" \in Commands
  BY CommandFacts
<1>4. linked /\ Calm /\ BoardReaches(Facing, Append(bytes, "R"), IdleView)
  <2>1. CASE level /\ InOrder
    <3>1. \A g \in Stm!Faces : Matches(Taken("R", g), IdleView)
      BY EndMatched
    <3> QED BY <1>1, <1>3, <2>1, <3>1, Follows
  <2>2. CASE Levels
    BY <2>2, Resets DEF Levels
  <2> QED BY <1>1, <2>1, <2>2
<1> QED BY <1>1, <1>2, <1>3, <1>4, SendConcord

LEMMA ResultConcord ==
  ASSUME Shape, Shape', Concord, NEW verdict \in {"PASS", "FAIL"}, HandleResult(verdict)
  PROVE  Concord'
<1> SUFFICES ASSUME level' PROVE Concord'
  BY DEF Concord
<1>1. /\ (level /\ InOrder) \/ (Levels /\ Answer(verdict) = "C")
      /\ snapshot.state = "running"
      /\ window = "in" /\ window' = "in" /\ UNCHANGED board
      /\ Apply(ApplyJudgement(snapshot, verdict)) /\ Send(Answer(verdict))
  BY DEF HandleResult, Tell
<1>2. /\ WorkOK(snapshot) /\ View(snapshot) \in Views
      /\ View(snapshot).state = "running" /\ View(snapshot).step = snapshot.step
  BY <1>1, WorkFacts DEF Shape, WindowShape
<1>3. View(snapshot') = View(ApplyJudgement(snapshot, verdict).next)
  BY <1>1, <1>2, JudgementWorkOK, ApplyFacts
<1>4. {"F", "P", "C"} \subseteq Commands
  BY CommandFacts
<1>5. CASE verdict = "FAIL"
  <2> DEFINE w == [View(snapshot) EXCEPT !.result = "fail"]
  <2>1. View(snapshot') = w
    BY <1>1, <1>2, <1>3, <1>5, JudgementWorkOK
  <2>2. \A g \in Stm!Faces : Matches(g, View(snapshot)) => Matches(Taken("F", g), w)
    BY <1>2, FailMatched
  <2>3. Answer(verdict) = "F"
    BY <1>5 DEF Answer
  <2> HIDE DEF w
  <2>4. linked /\ Calm /\ BoardReaches(Facing, Append(bytes, "F"), w)
    BY <1>1, <1>4, <2>2, <2>3, Follows
  <2> QED BY <1>1, <1>4, <2>1, <2>3, <2>4, SendConcord
<1>6. CASE verdict = "PASS" /\ snapshot.step >= snapshot.total
  <2>1. View(snapshot') = IdleView
    BY <1>1, <1>2, <1>3, <1>6, JudgementWorkOK
  <2>2. Answer(verdict) = "C"
    BY <1>6 DEF Answer
  <2>3. linked /\ Calm /\ BoardReaches(Facing, Append(bytes, "C"), IdleView)
    <3>1. CASE level /\ InOrder
      <4>1. \A g \in Stm!Faces : Matches(Taken("C", g), IdleView)
        BY EndMatched
      <4> QED BY <1>1, <1>4, <3>1, <4>1, Follows
    <3>2. CASE Levels
      BY <3>2, Resets DEF Levels
    <3> QED BY <1>1, <3>1, <3>2
  <2> QED BY <1>1, <1>4, <2>1, <2>2, <2>3, SendConcord
<1>7. CASE verdict = "PASS" /\ ~snapshot.step >= snapshot.total
  <2> DEFINE w == [step |-> snapshot.step + 1, state |-> "running", result |-> "waiting"]
  <2>1. View(snapshot') = w
    BY <1>1, <1>2, <1>3, <1>7, JudgementWorkOK
  <2>2. \A g \in Stm!Faces : Matches(g, View(snapshot)) => Matches(Taken("P", g), w)
    BY <1>2, PassMatched
  <2>3. Answer(verdict) = "P"
    BY <1>7 DEF Answer
  <2> HIDE DEF w
  <2>4. linked /\ Calm /\ BoardReaches(Facing, Append(bytes, "P"), w)
    BY <1>1, <1>4, <2>2, <2>3, Follows
  <2> QED BY <1>1, <1>4, <2>1, <2>3, <2>4, SendConcord
<1> QED BY <1>5, <1>6, <1>7

\* The "U" of a restored pause was counted as coming before it is sent.
LEMMA RestorePauseConcord ==
  ASSUME Shape, Shape', Concord, RestorePause
  PROVE  Concord'
<1> SUFFICES ASSUME level' PROVE Concord'
  BY DEF Concord
<1>1. /\ level /\ InOrder /\ window = "restoring" /\ window' = "in" /\ Send("U")
      /\ UNCHANGED <<board, snapshot, judging>>
  BY DEF RestorePause
<1>2. linked /\ Calm
  BY <1>1 DEF InOrder, Calm, Shape, LineShape
<1>3. bytes' = Append(bytes, "U") /\ linked' = linked
  BY <1>1, <1>2, SendFacts, CommandFacts DEF Shape
<1>4. Coming' = Coming
  BY <1>1, <1>3, ComingFacts, ComingFactsNext DEF Shape
<1>5. Facing' = Facing /\ lines' = lines /\ snapshot' = snapshot
  BY <1>1 DEF board, Facing
<1>6. Calm'
  BY <1>2, <1>5 DEF Calm
<1>7. BoardReaches(Facing', Coming', View(snapshot'))
  BY <1>1, <1>2, <1>4, <1>5, Abreast
<1> QED BY <1>2, <1>3, <1>6, <1>7, CalmConcord

-----------------------------------------------------------------------------
(* Window and board stay level: lines of the board                         *)

\* The line the window hears fits the work, as long as they are level.
LEMMA HeadApt ==
  ASSUME Shape, Concord, level, lines # <<>>
  PROVE  Apt(Head(lines), View(snapshot))
BY WindowReachesNext DEF Concord, Meet, Shape, WindowShape, LineShape, WorkOK

\* The window makes of a line what the line stands for.
LEMMA HeardConcord ==
  ASSUME Shape, Shape', Concord, level, Stm!Deliver, linked, UNCHANGED <<bytes, linked, window>>,
         View(snapshot') = Moved(Head(lines), View(snapshot))
  PROVE  Concord'
<1>1. lines # <<>> /\ lines' = Tail(lines) /\ lines \in Seq(Messages)
  BY DeliverFacts DEF Shape, LineShape
<1>2. /\ Len(lines') = Len(lines) - 1 /\ Len(lines) \in Nat /\ Len(lines') \in Nat
      /\ \A i \in 1..Len(lines') : lines'[i] = lines[i + 1] /\ i + 1 \in 1..Len(lines)
  BY <1>1
<1>3. Facing' = Facing /\ Coming' = Coming /\ byte' = byte /\ face' = face
  BY DEF Stm!Deliver, Facing, Coming
<1>4. PICK u \in Views : WindowReaches(View(snapshot), lines, u) /\ BoardReaches(Facing, Coming, u)
  BY DEF Concord, Meet
<1>5. WindowReaches(View(snapshot'), lines', u)
  BY <1>1, <1>4, WindowReachesNext DEF Shape, WindowShape, WorkOK
<1>6. Meet'
  BY <1>3, <1>4, <1>5 DEF Meet
<1>7. Calm => Calm'
  BY <1>2 DEF Calm
<1>8. LinesAlone'
  BY <1>3, <1>7 DEF Concord, LinesAlone
<1>9. StartFromRest'
  BY <1>2, <1>3 DEF Concord, StartFromRest
<1> QED BY <1>6, <1>8, <1>9 DEF Concord

LEMMA LineCheckConcord ==
  ASSUME Shape, Shape', Concord, LineCheck
  PROVE  Concord'
<1> SUFFICES ASSUME level' PROVE Concord'
  BY DEF Concord
<1>1. /\ level /\ linked /\ Stm!Deliver /\ Head(lines) = "Check"
      /\ UNCHANGED <<bytes, linked, window>> /\ snapshot' = snapshot
  BY DEF LineCheck, Line, SendNothing
<1>2. View(snapshot') = Moved(Head(lines), View(snapshot))
  BY <1>1 DEF Moved
<1> QED BY <1>1, <1>2, HeardConcord

\* What the window makes of the lines that move the work.
LEMMA LineMovesFacts ==
  ASSUME Shape, Concord, level, LineMoves
  PROVE  /\ View(snapshot') = Moved(Head(lines), View(snapshot))
         /\ View(snapshot') # View(snapshot)
<1>1. /\ lines # <<>>
      /\ \/ Head(lines) = "Pause" /\ Apply(Pause(snapshot))
         \/ Head(lines) = "Resume" /\ Apply(Resume(snapshot))
         \/ /\ Head(lines) = "Reset"
            /\ IF snapshot.state = "running" THEN Apply(RegisterDefect(snapshot))
                                             ELSE UNCHANGED snapshot
  BY DEF LineMoves, Line
<1>2. Apt(Head(lines), View(snapshot))
  BY <1>1, HeadApt
<1>3. WorkOK(snapshot) /\ View(snapshot) \in Views /\ View(snapshot).state = snapshot.state
  BY WorkFacts DEF Shape, WindowShape
<1>4. CASE Head(lines) = "Pause" /\ Apply(Pause(snapshot))
  <2>1. snapshot.state = "running"
    BY <1>2, <1>3, <1>4 DEF Apt
  <2>2. View(snapshot') = [View(snapshot) EXCEPT !.state = "paused"]
    BY <1>3, <1>4, <2>1, PauseWorkOK, ApplyFacts
  <2>3. View(snapshot').state = "paused"
    BY <2>2 DEF View
  <2> QED BY <1>3, <1>4, <2>1, <2>2, <2>3 DEF Moved
<1>5. CASE Head(lines) = "Resume" /\ Apply(Resume(snapshot))
  <2>1. snapshot.state = "paused"
    BY <1>2, <1>3, <1>5 DEF Apt
  <2>2. View(snapshot') = [View(snapshot) EXCEPT !.state = "running"]
    BY <1>3, <1>5, <2>1, ResumeWorkOK, ApplyFacts
  <2>3. View(snapshot').state = "running"
    BY <2>2 DEF View
  <2> QED BY <1>3, <1>5, <2>1, <2>2, <2>3 DEF Moved
<1>6. CASE /\ Head(lines) = "Reset"
           /\ IF snapshot.state = "running" THEN Apply(RegisterDefect(snapshot))
                                            ELSE UNCHANGED snapshot
  <2>1. snapshot.state = "running"
    BY <1>2, <1>3, <1>6 DEF Apt
  <2>2. View(snapshot') = IdleView
    BY <1>3, <1>6, <2>1, DefectWorkOK, ApplyFacts
  <2>3. View(snapshot').state = "idle"
    BY <2>2 DEF IdleView
  <2> QED BY <1>3, <1>6, <2>1, <2>2, <2>3 DEF Moved
<1> QED BY <1>1, <1>4, <1>5, <1>6

LEMMA LineMovesConcord ==
  ASSUME Shape, Shape', Concord, LineMoves
  PROVE  Concord'
<1> SUFFICES ASSUME level' PROVE Concord'
  BY DEF Concord
<1>1. level /\ linked /\ Stm!Deliver /\ UNCHANGED <<bytes, linked, window>>
  BY DEF LineMoves, Line, SendNothing
<1>2. View(snapshot') = Moved(Head(lines), View(snapshot))
  BY <1>1, LineMovesFacts
<1> QED BY <1>1, <1>2, HeardConcord

\* A "Start" the board has sent from rest begins the work, or resumes one that no LED
\* can show; "S" does the same to the board.
LEMMA LineStartConcord ==
  ASSUME Shape, Shape', Concord, LineStart
  PROVE  Concord'
<1> SUFFICES ASSUME level' PROVE Concord'
  BY DEF Concord
<1>1. /\ level /\ linked /\ Stm!Deliver /\ lines # <<>> /\ Head(lines) = "Start"
      /\ window = "in" /\ window' = "in" /\ Apply(Start(snapshot)) /\ Send("S")
      /\ \A i \in DOMAIN Tail(lines) : ~Underway(Tail(lines)[i])
  BY DEF LineStart, Line
<1>2. /\ lines \in Seq(Messages) /\ Len(lines) \in Nat \ {0} /\ lines[1] = Head(lines)
      /\ lines' = Tail(lines) /\ Len(Tail(lines)) = Len(lines) - 1
      /\ DOMAIN Tail(lines) = 1..Len(Tail(lines))
      /\ \A i \in 1..Len(Tail(lines)) : Tail(lines)[i] = lines[i + 1]
  BY <1>1, DeliverFacts DEF Shape, LineShape
<1>3. Calm'
  BY <1>1, <1>2 DEF Calm
<1>4. 1 \in 1..Len(lines) /\ lines[1] = "Start"
  BY <1>1, <1>2
<1>5. Coming = <<>> /\ byte = "none" /\ face.step = 0
  BY <1>1, <1>4 DEF Concord, LinesAlone, StartFromRest, Calm, Underway
<1>6. Facing = face /\ Facing' = face /\ bytes = <<>>
  BY <1>1, <1>5, ComingFacts DEF Facing, Stm!Deliver, Shape
<1>7. bytes' = <<"S">> /\ linked' = linked
  <2>1. "S" \in Commands
    BY CommandFacts
  <2>2. bytes' = Append(bytes, "S") /\ linked' = linked
    BY <1>1, <2>1, SendFacts DEF Shape
  <2> QED BY <1>6, <2>2
<1>8. Coming' = <<"S">>
  BY <1>1, <1>7, ComingFactsNext DEF Shape
<1>9. /\ WorkOK(snapshot) /\ View(snapshot) \in Views /\ face \in Stm!Faces
      /\ View(snapshot).state = snapshot.state
  BY WorkFacts DEF Shape, WindowShape, BoardShape
<1>10. Matches(face, View(snapshot))
  <2>1. PICK u \in Views : /\ WindowReaches(View(snapshot), lines, u)
                           /\ BoardReaches(Facing, Coming, u)
    BY <1>1 DEF Concord, Meet
  <2>2. ASSUME NEW i \in 1..Len(lines) PROVE ~Moving(lines[i])
    <3>1. CASE i = 1
      BY <1>4, <3>1 DEF Moving
    <3>2. CASE i # 1
      <4>1. i - 1 \in 1..Len(Tail(lines)) /\ (i - 1) + 1 = i
        BY <1>2, <3>2
      <4> QED BY <1>1, <1>2, <4>1 DEF Moving, Underway
    <3> QED BY <3>1, <3>2
  <2>3. u = View(snapshot)
    BY <1>2, <1>9, <2>1, <2>2, WindowStays
  <2> QED BY <1>5, <1>6, <1>9, <2>1, <2>3, BoardReachesNow
<1>11. face.leds = {} /\ (View(snapshot).step <= LastStep => View(snapshot).step = 0)
  BY <1>5, <1>10 DEF Matches
<1> DEFINE w == IF snapshot.state = "paused" THEN [View(snapshot) EXCEPT !.state = "running"]
                ELSE [step |-> 1, state |-> "running", result |-> "waiting"]
<1>12. View(snapshot') = w
  BY <1>1, <1>9, StartWorkOK, ApplyFacts
<1>13. w.step \in Nat /\ w.state = "running" /\ (w.step <= LastStep => w.step = 1)
  <2>1. CASE snapshot.state = "paused"
    <3>1. View(snapshot).step \in Nat \ {0} /\ View(snapshot).step > LastStep
      BY <1>9, <1>11, <2>1, ViewFacts, ProtocolAssumption
    <3>2. w.step = View(snapshot).step /\ w.state = "running"
      BY <2>1 DEF View
    <3> HIDE DEF w
    <3> QED BY <3>1, <3>2, ProtocolAssumption
  <2>2. CASE snapshot.state # "paused"
    BY <2>2
  <2> QED BY <2>1, <2>2
<1> HIDE DEF w
<1>14. BoardReaches(face, <<"S">>, w)
  BY <1>9, <1>11, <1>13, StartMatched, BoardReachesOne
<1> QED BY <1>1, <1>3, <1>6, <1>7, <1>8, <1>12, <1>14, CalmConcord

-----------------------------------------------------------------------------
(* Window and board stay level: login and logout                           *)

LEMMA ChooseProductConcord ==
  ASSUME Shape, Concord, NEW product \in Products, ChooseProduct(product)
  PROVE  Concord'
<1>1. /\ snapshot.state = "idle" /\ Apply(Configure(product, Totals[product]))
      /\ UNCHANGED board /\ UNCHANGED <<bytes, linked, window, level>>
  BY DEF ChooseProduct, SendNothing
<1>2. View(snapshot') = View(snapshot)
  BY <1>1, WorkFacts, ConfigureWorkOK, ApplyFacts DEF Shape, WindowShape
<1>3. Facing' = Facing /\ Coming' = Coming /\ Calm' = Calm
  BY <1>1 DEF board, Facing, Coming, Calm
<1> QED BY <1>1, <1>2, <1>3 DEF Concord, Meet, LinesAlone, StartFromRest, board

\* A list that comes while the window is idle leaves it so; one that ends work at the
\* window only costs "level".
LEMMA ListConcord ==
  ASSUME Shape, Concord, RefreshProducts \/ Lists
  PROVE  Concord'
<1>1. UNCHANGED board /\ UNCHANGED <<bytes, linked, window>>
  BY DEF RefreshProducts, Lists, ProductsFetched, SendNothing
<1>2. Facing' = Facing /\ Coming' = Coming /\ Calm' = Calm
  BY <1>1 DEF board, Facing, Coming, Calm
<1>3. level' => level /\ View(snapshot') = View(snapshot)
  <2>1. CASE RefreshProducts
    BY <2>1 DEF RefreshProducts
  <2>2. ASSUME NEW product \in Products, ProductsFetched(product), level' PROVE level /\ View(snapshot') = View(snapshot)
    <3>1. level /\ snapshot.state = "idle" /\ Apply(Configure(product, Totals[product]))
      BY <2>2 DEF ProductsFetched
    <3> QED BY <3>1, WorkFacts, ConfigureWorkOK, ApplyFacts DEF Shape, WindowShape
  <2> QED BY <2>1, <2>2 DEF Lists
<1> QED BY <1>1, <1>2, <1>3 DEF Concord, Meet, LinesAlone, StartFromRest, board

\* A new window is level with the board, whatever was on the line before.
LEMMA LogInConcord ==
  ASSUME Shape, Shape', NEW product \in Products, LogIn(product)
  PROVE  Concord'
<1>1. /\ window' = "in" /\ Apply(Configure(product, Totals[product])) /\ OpenPort(<<"E">>)
  BY DEF LogIn
<1>2. <<"E">> \in Seq(Commands) /\ "E" \in Commands /\ bytes \in Seq(Commands)
  BY CommandFacts DEF Shape, LineShape
<1>3. lines' = <<>> /\ bytes' = Append(bytes, "E") /\ Facing' = Facing
  <2>1. bytes \o <<"E">> = Append(bytes, "E")
    BY <1>2
  <2> QED BY <1>1, <2>1 DEF OpenPort, Facing
<1>4. View(snapshot') = IdleView
  BY <1>1, ConfigureWorkOK, ApplyFacts
<1>5. Coming' = Append(bytes, "E")
  BY <1>1, <1>3, ComingFactsNext DEF Shape
<1>6. Facing \in Stm!Faces
  BY FacingIsFace DEF Shape
<1>7. BoardReaches(Facing, Append(bytes, "E"), IdleView)
  BY <1>2, <1>6, EndMatched, BoardReachesAnew
<1> QED BY <1>3, <1>4, <1>5, <1>7, EmptyIsCalm, CalmConcord

LEMMA LogInToWorkConcord ==
  ASSUME Shape, Shape', NEW product \in Products, LogInToWork(product)
  PROVE  Concord'
<1> SUFFICES ASSUME level' PROVE Concord'
  BY DEF Concord
<1>1. PICK work \in Saved(product) :
        /\ Apply(RestoreState(work))
        /\ OpenPort(IF work.step <= LastStep THEN <<Digits[work.step]>> ELSE <<>>)
        /\ window' = IF work.step <= LastStep /\ work.state = "paused"
                     THEN "restoring" ELSE "in"
        /\ level' = (work.step <= LastStep)
  BY DEF LogInToWork
<1> DEFINE digit == Digits[work.step]
           u == [step |-> work.step, state |-> "running", result |-> work.result]
<1>2. /\ work.step \in 1..LastStep /\ work.state \in {"running", "paused"}
      /\ work.result \in {"waiting", "fail"}
  <2>1. work.step <= LastStep
    BY <1>1
  <2>2. /\ work.step \in Nat \ {0} /\ work.state \in {"running", "paused"}
        /\ work.result \in {"waiting", "fail"}
    BY RestoreWorkOK
  <2> QED BY <2>1, <2>2, ProtocolAssumption
<1>3. /\ OpenPort(<<digit>>)
      /\ window' = IF work.state = "paused" THEN "restoring" ELSE "in"
  BY <1>1
<1>4. View(snapshot') = [step |-> work.step, state |-> work.state, result |-> work.result]
  BY <1>1, RestoreWorkOK, ApplyFacts
<1>5. digit \in Commands /\ bytes \in Seq(Commands) /\ Facing \in Stm!Faces
  BY <1>2, DigitFacts, FacingIsFace DEF Shape, LineShape
<1>6. u \in Views /\ u.step = work.step /\ u.state = "running"
  BY <1>2, ProtocolAssumption DEF Views
<1>7. \A g \in Stm!Faces : Matches(Taken(digit, g), u)
  BY <1>2, <1>6, DigitMatched
<1> HIDE DEF digit
<1>8. lines' = <<>> /\ bytes' = Append(bytes, digit) /\ Facing' = Facing
  <2>1. bytes \o <<digit>> = Append(bytes, digit)
    BY <1>5
  <2> QED BY <1>3, <2>1 DEF OpenPort, Facing
<1>9. BoardReaches(Facing, bytes', u)
  BY <1>5, <1>7, <1>8, BoardReachesAnew
<1>10. BoardReaches(Facing, Coming', View(snapshot'))
  <2>1. CASE work.state = "running"
    <3>1. Coming' = bytes'
      BY <1>3, <2>1, ComingFactsNext DEF Shape
    <3> QED BY <1>4, <1>9, <2>1, <3>1
  <2>2. CASE work.state = "paused"
    <3>1. Coming' = Append(bytes', "U")
      BY <1>3, <2>2, ComingFactsNext DEF Shape
    <3>2. View(snapshot') = [u EXCEPT !.state = "paused"]
      BY <1>4, <2>2
    <3>3. "U" \in Commands /\ bytes' \in Seq(Commands)
      BY CommandFacts DEF Shape, LineShape
    <3> HIDE DEF u
    <3>4. \A g \in Stm!Faces : Matches(g, u) => Matches(Taken("U", g), [u EXCEPT !.state = "paused"])
      BY <1>6, PauseMatched
    <3>5. BoardReaches(Facing, Append(bytes', "U"), [u EXCEPT !.state = "paused"])
      BY <1>5, <1>9, <3>3, <3>4, BoardReachesMore
    <3> QED BY <3>1, <3>2, <3>5
  <2> QED BY <1>2, <2>1, <2>2
<1> QED BY <1>8, <1>10, EmptyIsCalm, CalmConcord

LEMMA CloseConcord ==
  ASSUME Shape, Shape', Concord, Close
  PROVE  Concord'
<1> SUFFICES ASSUME level' PROVE Concord'
  BY DEF Concord
<1>1. /\ (level /\ InOrder) \/ (linked /\ Quiet)
      /\ window = "in" /\ Gone /\ Send("E")
  BY DEF Close
<1>2. "E" \in Commands
  BY CommandFacts
<1>3. linked /\ Calm /\ BoardReaches(Facing, Append(bytes, "E"), IdleView)
  <2>1. CASE level /\ InOrder
    <3>1. \A g \in Stm!Faces : Matches(Taken("E", g), IdleView)
      BY EndMatched
    <3> QED BY <1>1, <1>2, <2>1, <3>1, Follows
  <2>2. CASE linked /\ Quiet
    BY <2>2, Resets
  <2> QED BY <1>1, <2>1, <2>2
<1>4. bytes' = Append(bytes, "E") /\ linked' = linked
  BY <1>1, <1>2, <1>3, SendFacts DEF Shape
<1>5. window' = "out" /\ lines' = <<>> /\ Facing' = Facing
  BY <1>1 DEF Gone, Facing
<1>6. View(snapshot') = IdleView
  BY <1>1, GoneShape
<1>7. Coming' = Append(bytes, "E")
  BY <1>4, <1>5, ComingFactsNext DEF Shape
<1> QED BY <1>3, <1>5, <1>6, <1>7, EmptyIsCalm, CalmConcord

-----------------------------------------------------------------------------
(* Window and board stay level: the line and the board                     *)

LEMMA ArriveConcord ==
  ASSUME Shape, Shape', Concord, Arrive
  PROVE  Concord'
<1> SUFFICES ASSUME level' PROVE Concord'
  BY DEF Concord
<1>1. /\ level /\ byte = "none" /\ bytes # <<>> /\ bytes' = Tail(bytes) /\ byte' = Head(bytes)
      /\ UNCHANGED <<face, serving, lines, snapshot, window, linked>>
  BY DEF Arrive, Stm!Receive, jetson
<1>2. bytes \in Seq(Commands) /\ Head(bytes) \in Commands /\ ~serving
  BY <1>1 DEF Shape, BoardShape, LineShape
<1>3. /\ Coming \in Seq(Commands) /\ Coming # <<>>
      /\ Head(Coming) = Head(bytes) /\ Coming' = Tail(Coming)
  <2>1. <<"U">> \in Seq(Commands)
    BY CommandFacts
  <2>2. ASSUME NEW t \in Seq(Commands)
        PROVE  /\ bytes \o t \in Seq(Commands) /\ bytes \o t # <<>>
               /\ Head(bytes \o t) = Head(bytes) /\ Tail(bytes) \o t = Tail(bytes \o t)
    BY <1>1, <1>2
  <2>3. <<>> \in Seq(Commands)
    OBVIOUS
  <2> QED BY <1>1, <2>1, <2>2, <2>3 DEF Coming
<1>4. Calm /\ (linked \/ lines = <<>>)
  BY <1>1, <1>3 DEF Concord, LinesAlone
<1>5. Facing = face /\ Facing' = Taken(Head(bytes), face)
  BY <1>1, <1>2, CommandFacts DEF Facing
<1>6. BoardReaches(Facing', Coming', View(snapshot'))
  <2>1. BoardReaches(face, Coming, View(snapshot))
    BY <1>1, <1>4, <1>5, Abreast
  <2> QED BY <1>1, <1>3, <1>5, <2>1, BoardReachesNext DEF Shape, BoardShape
<1>7. Calm'
  BY <1>1, <1>4 DEF Calm
<1> QED BY <1>1, <1>4, <1>6, <1>7, CalmConcord

\* A command is served and acknowledged: no line meets it.
LEMMA BoardServesConcord ==
  ASSUME Shape, Shape', Concord, BoardServes
  PROVE  Concord'
<1>1. /\ UNCHANGED <<lines, snapshot, window, linked, bytes, level>>
      /\ byte # "none"
  BY DEF BoardServes, Stm!Serve, Stm!Acknowledge, jetson, Shape, BoardShape
<1>2. Facing' = Facing
  <2>1. CASE Stm!Serve
    <3>1. Stm!Fits(byte) <=> Suits(byte, face)
      BY DEF Stm!Fits, Suits
    <3> QED BY <2>1, <3>1 DEF Stm!Serve, Facing, Taken
  <2>2. CASE Stm!Acknowledge
    BY <2>2 DEF Stm!Acknowledge, Facing
  <2> QED BY <2>1, <2>2 DEF BoardServes
<1> SUFFICES ASSUME level' PROVE Concord'
  BY DEF Concord
<1>3. Calm /\ (linked \/ lines = <<>>)
  BY <1>1 DEF Concord, LinesAlone
<1>4. BoardReaches(Facing, Coming, View(snapshot))
  BY <1>1, <1>3, Abreast
<1>5. Coming' = Coming /\ Calm' /\ (linked' \/ lines' = <<>>)
  BY <1>1, <1>3 DEF Coming, Calm
<1> QED BY <1>1, <1>2, <1>4, <1>5, CalmConcord

\* A line is sent that fits the work the window will then be at.
LEMMA SaysConcord ==
  ASSUME Shape, Shape', Concord, level, linked, NEW message \in Messages, Stm!Says(message),
         UNCHANGED <<snapshot, window, linked, bytes>>,
         NEW u \in Views, WindowReaches(View(snapshot), lines, u), Apt(message, u),
         BoardReaches(Facing', Coming', Moved(message, u)),
         Underway(message) => Coming = <<>> /\ byte = "none",
         message = "Start" => face'.step = 0,
         face' = face \/ \A i \in 1..Len(lines) : lines[i] # "Start"
  PROVE  Concord'
<1>1. /\ lines' = Append(lines, message) /\ byte' = byte /\ serving' = serving
      /\ lines \in Seq(Messages)
  BY SaysFacts DEF Shape, LineShape
<1>2. /\ Len(lines') = Len(lines) + 1 /\ Len(lines) \in Nat /\ lines'[Len(lines) + 1] = message
      /\ \A i \in 1..Len(lines) : lines'[i] = lines[i]
  BY <1>1
<1>3. \A i \in 1..Len(lines') : i \in 1..Len(lines) \/ i = Len(lines) + 1
  BY <1>2
<1>4. Coming' = Coming
  BY DEF Coming
<1>5. Meet'
  <2>1. View(snapshot) \in Views
    BY DEF Shape, WindowShape, WorkOK
  <2>2. WindowReaches(View(snapshot'), lines', Moved(message, u))
    BY <1>1, <2>1, WindowReachesMore
  <2>3. Moved(message, u) \in Views
    BY MovedIsView
  <2> QED BY <2>2, <2>3 DEF Meet
<1>6. LinesAlone'
  <2>1. Calm /\ ~Underway(message) => Calm'
    BY <1>2, <1>3 DEF Calm
  <2> QED BY <1>1, <1>4, <2>1 DEF Concord, LinesAlone
<1>7. StartFromRest'
  <2>1. ASSUME NEW i \in 1..Len(lines'), lines'[i] = "Start" PROVE face'.step = 0
    <3>1. CASE i \in 1..Len(lines)
      BY <1>2, <2>1, <3>1 DEF Concord, StartFromRest
    <3>2. CASE i = Len(lines) + 1
      BY <1>2, <2>1, <3>2
    <3> QED BY <1>3, <3>1, <3>2
  <2> QED BY <2>1 DEF StartFromRest
<1> QED BY <1>5, <1>6, <1>7 DEF Concord

LEMMA PressConcord ==
  ASSUME Shape, Shape', Concord, Press
  PROVE  Concord'
<1> SUFFICES ASSUME level' PROVE Concord'
  BY DEF Concord
<1>1. level /\ linked /\ UNCHANGED <<snapshot, window, linked, bytes>>
  BY DEF Press, Heard, jetson
<1>2. PICK u \in Views : WindowReaches(View(snapshot), lines, u) /\ BoardReaches(Facing, Coming, u)
  BY <1>1 DEF Concord, Meet
<1>3. Coming' = Coming /\ face \in Stm!Faces
  BY <1>1 DEF Coming, Shape, BoardShape
<1>4. u.step \in Nat /\ (u.step = 0 => u = IdleView) /\ (u.state = "idle" => u.step = 0)
      /\ u.state \in {"idle", "running", "paused"}
  BY ViewFacts DEF IdleView
<1>5. CASE Stm!PressCheck
  <2>1. "Check" \in Messages /\ Apt("Check", u) /\ ~Underway("Check") /\ Moved("Check", u) = u
    BY DEF Messages, Apt, Underway, Moved
  <2>2. Stm!Says("Check") /\ face' = face
    BY <1>5 DEF Stm!PressCheck
  <2>3. Facing' = Facing
    BY <2>1, <2>2, SaysFacts DEF Facing, Shape
  <2> QED BY <1>1, <1>2, <1>3, <2>1, <2>2, <2>3, SaysConcord
<1>6. CASE /\ Stm!PressStart \/ Stm!PressPause \/ Stm!PressReset
           /\ bytes = <<>> /\ byte = "none" /\ window = "in"
  <2>1. Coming = <<>> /\ Facing = face /\ ~serving
    BY <1>6, ComingFacts DEF Facing, Shape, BoardShape
  <2>2. Matches(face, u)
    BY <1>2, <1>3, <2>1, BoardReachesNow
  <2>3. byte' = "none" /\ Facing' = face' /\ face' \in Stm!Faces
    BY <1>6 DEF Stm!PressStart, Stm!PressPause, Stm!PressReset, Stm!Says, Facing, Shape, BoardShape
  <2>4. face.step # 0 => /\ u.state = (IF face.paused THEN "paused" ELSE "running")
                         /\ \A i \in 1..Len(lines) : lines[i] # "Start"
    <3>1. ASSUME face.step # 0 PROVE u.state = (IF face.paused THEN "paused" ELSE "running")
      BY <1>3, <1>4, <2>2, <3>1, ProtocolAssumption, FaceFacts DEF Matches
    <3>2. ASSUME face.step # 0 PROVE \A i \in 1..Len(lines) : lines[i] # "Start"
      BY <1>1, <3>2 DEF Concord, StartFromRest
    <3> QED BY <3>1, <3>2
  <2>5. ASSUME NEW message \in Messages, Stm!Says(message), Apt(message, u),
               Matches(face', Moved(message, u)),
               message = "Start" => face'.step = 0,
               face' = face \/ face.step # 0
        PROVE  Concord'
    <3>1. BoardReaches(Facing', Coming', Moved(message, u))
      BY <1>3, <2>1, <2>3, <2>5, BoardReachesNow
    <3> QED BY <1>1, <1>2, <1>6, <2>1, <2>4, <2>5, <3>1, SaysConcord
  <2>6. CASE Stm!PressStart
    <3>1. "Start" \in Messages /\ Apt("Start", u) /\ Moved("Start", u) = u
      BY DEF Messages, Apt, Moved
    <3>2. Stm!Says("Start") /\ face' = face /\ face.step = 0
      BY <2>6 DEF Stm!PressStart
    <3> QED BY <2>2, <2>5, <3>1, <3>2
  <2>7. CASE Stm!PressPause
    <3>1. face.step # 0
      BY <2>7 DEF Stm!PressPause
    <3>2. CASE face.paused
      <4>1. Stm!Says("Resume") /\ face' = Stm!Resumed(face) /\ u.state = "paused"
        BY <2>4, <2>7, <3>1, <3>2 DEF Stm!PressPause
      <4>2. "Resume" \in Messages /\ Apt("Resume", u)
            /\ Moved("Resume", u) = [u EXCEPT !.state = "running"]
        BY <4>1 DEF Messages, Apt, Moved
      <4>3. Matches(face', Moved("Resume", u))
        BY <1>3, <2>2, <3>1, <4>1, <4>2, ResumeMatched
      <4> QED BY <2>5, <3>1, <4>1, <4>2, <4>3
    <3>3. CASE ~face.paused
      <4>1. Stm!Says("Pause") /\ face' = Stm!Paused(face) /\ u.state = "running"
        BY <2>4, <2>7, <3>1, <3>3 DEF Stm!PressPause
      <4>2. "Pause" \in Messages /\ Apt("Pause", u)
            /\ Moved("Pause", u) = [u EXCEPT !.state = "paused"]
        BY <4>1 DEF Messages, Apt, Moved
      <4>3. Matches(face', Moved("Pause", u))
        BY <1>3, <2>2, <3>1, <4>1, <4>2, PauseMatched
      <4> QED BY <2>5, <3>1, <4>1, <4>2, <4>3
    <3> QED BY <3>2, <3>3
  <2>8. CASE Stm!PressReset
    <3>1. /\ face.step # 0 /\ ~face.paused /\ Stm!Says("Reset") /\ face' = Stm!Blank
          /\ u.state = "running"
      BY <2>4, <2>8 DEF Stm!PressReset
    <3>2. "Reset" \in Messages /\ Apt("Reset", u) /\ Moved("Reset", u) = IdleView
      BY <3>1 DEF Messages, Apt, Moved
    <3>3. Matches(face', Moved("Reset", u))
      BY <3>1, <3>2, IdleMatched
    <3> QED BY <2>5, <3>1, <3>2, <3>3
  <2> QED BY <1>6, <2>6, <2>7, <2>8
<1> QED BY <1>5, <1>6 DEF Press

LEMMA UnplugConcord ==
  ASSUME Shape, Shape', Concord, Unplug
  PROVE  Concord'
<1> SUFFICES ASSUME level' PROVE Concord'
  BY DEF Concord
<1>1. /\ level /\ bytes = <<>> /\ lines = <<>> /\ bytes' = <<>> /\ lines' = <<>>
      /\ UNCHANGED <<face, byte, serving, snapshot, window>>
  BY DEF Unplug, jetson
<1>2. Facing' = Facing /\ Coming' = Coming /\ Calm
  BY <1>1 DEF Facing, Coming, Calm
<1>3. BoardReaches(Facing, Coming, View(snapshot))
  BY <1>1, <1>2, Abreast
<1> QED BY <1>1, <1>2, <1>3, EmptyIsCalm, CalmConcord

LEMMA RefreshConcord ==
  ASSUME Shape, Shape', Concord, Refresh
  PROVE  Concord'
<1> SUFFICES ASSUME level' PROVE Concord'
  BY DEF Concord
<1>1. /\ level /\ ~linked /\ lines' = <<>> /\ OpenPort(<<>>)
      /\ UNCHANGED <<face, byte, serving, snapshot, window>>
  BY DEF Refresh, OpenPort, jetson
<1>2. bytes' = bytes
  BY <1>1 DEF OpenPort, Shape, LineShape
<1>3. lines = <<>> /\ Calm
  BY <1>1 DEF Concord, Calm
<1>4. Facing' = Facing /\ Coming' = Coming
  BY <1>1, <1>2 DEF Facing, Coming
<1>5. BoardReaches(Facing, Coming, View(snapshot))
  BY <1>1, <1>3, Abreast
<1> QED BY <1>1, <1>4, <1>5, EmptyIsCalm, CalmConcord

-----------------------------------------------------------------------------
(* The theorems                                                            *)

LEMMA StationInvInit ==
  Init => StationInv
<1> SUFFICES ASSUME Init PROVE StationInv
  OBVIOUS
<1>1. Shape
  BY ShapeInit
<1>2. /\ lines = <<>> /\ bytes = <<>> /\ byte = "none" /\ face = Stm!Blank /\ window = "out"
      /\ View(snapshot) = IdleView /\ IdleView \in Views
  BY NoWindowOK DEF Init, Stm!Init, Views
<1>3. Coming = <<>> /\ Facing = Stm!Blank
  BY <1>1, <1>2, ComingFacts DEF Facing, Shape
<1>4. BoardReaches(Facing, Coming, IdleView)
  BY <1>3, BlankIsFace, IdleMatched, BoardReachesNow
<1>5. WindowReaches(IdleView, lines, IdleView)
  <2>1. lines \in Seq(Messages) /\ \A i \in 1..Len(lines) : ~Moving(lines[i])
    BY <1>2
  <2> QED BY <1>2, <2>1, WindowStays
<1>6. Meet
  BY <1>2, <1>4, <1>5 DEF Meet
<1>7. Calm /\ StartFromRest
  BY <1>2 DEF Calm, StartFromRest
<1> QED BY <1>1, <1>2, <1>6, <1>7 DEF StationInv, Concord, LinesAlone

LEMMA StationInvNext ==
  StationInv /\ [Next]_vars => StationInv'
<1> SUFFICES ASSUME Shape, Shape', Concord, [Next]_vars PROVE Concord'
  BY ShapeNext DEF StationInv
<1>1. CASE Arrive
  BY <1>1, ArriveConcord
<1>2. CASE BoardServes
  BY <1>2, BoardServesConcord
<1>3. CASE Press
  BY <1>3, PressConcord
<1>4. CASE Results
  BY <1>4, ResultConcord DEF Results
<1>5. CASE Lines
  <2>1. CASE LineCheckUnseen
    BY <2>1 DEF LineCheckUnseen, Concord
  <2> QED BY <1>5, <2>1, LineCheckConcord, LineStartConcord, LineMovesConcord DEF Lines
<1>6. CASE RestorePause
  BY <1>6, RestorePauseConcord
<1>7. CASE ClickStart \/ ClickPause \/ ClickDefect
  BY <1>7, ClickStartConcord, ClickPauseConcord, ClickDefectConcord
<1>8. CASE ClickJudge
  <2>1. UNCHANGED board /\ UNCHANGED <<snapshot, window, level, bytes, linked>>
    BY <1>8 DEF ClickJudge, SendNothing
  <2>2. Facing' = Facing /\ Coming' = Coming /\ Calm' = Calm
    BY <2>1 DEF board, Facing, Coming, Calm
  <2> QED BY <2>1, <2>2 DEF Concord, Meet, LinesAlone, StartFromRest, board
<1>9. CASE \E product \in Products :
             ChooseProduct(product) \/ LogIn(product) \/ LogInToWork(product)
  BY <1>9, ChooseProductConcord, LogInConcord, LogInToWorkConcord
<1>10. CASE Close
  BY <1>10, CloseConcord
<1>11. CASE Refresh
  BY <1>11, RefreshConcord
<1>12. CASE Unplug
  BY <1>12, UnplugConcord
<1>13. CASE InferenceFails \/ Crash \/ BoardReset
  BY <1>13 DEF InferenceFails, Crash, BoardReset, Concord
<1>14. CASE RefreshProducts \/ Lists
  BY <1>14, ListConcord
<1>15. CASE UNCHANGED vars
  <2>1. UNCHANGED board /\ UNCHANGED <<snapshot, window, level, bytes, linked>>
    BY <1>15 DEF vars, jetson
  <2>2. Facing' = Facing /\ Coming' = Coming /\ Calm' = Calm
    BY <2>1 DEF board, Facing, Coming, Calm
  <2> QED BY <2>1, <2>2 DEF Concord, Meet, LinesAlone, StartFromRest, board
<1> QED BY <1>1, <1>2, <1>3, <1>4, <1>5, <1>6, <1>7, <1>8, <1>9, <1>10, <1>11, <1>12, <1>13, <1>14,
           <1>15 DEF Next, Worker

\* The commands on their way lead the board to what the lines on their way lead the
\* window to, in every state in which nothing has come between them.
THEOREM StationInvariant ==
  Spec => []StationInv
BY StationInvInit, StationInvNext, PTL DEF Spec

\* On a quiet line there is nothing left on its way.
LEMMA QuietMatches ==
  ASSUME StationInv, Quiet, level
  PROVE  Matches(face, View(snapshot))
<1>1. Coming = <<>> /\ Facing = face /\ Calm /\ face \in Stm!Faces
  BY ComingFacts DEF StationInv, Shape, BoardShape, Quiet, Facing, Calm
<1>2. BoardReaches(Facing, Coming, View(snapshot))
  BY <1>1, Abreast DEF StationInv
<1> QED BY <1>1, <1>2, BoardReachesNow

LEMMA ShownFacts ==
  ASSUME StationInv
  PROVE  /\ Step = View(snapshot).step
         /\ Pausing <=> View(snapshot).state = "paused"
         /\ View(snapshot).result = "fail" => AtWork /\ snapshot.result = "fail"
<1>1. WorkOK(snapshot) /\ (window = "out" => snapshot.state = "idle")
  BY DEF StationInv, Shape, WindowShape
<1>2. /\ View(snapshot).step = snapshot.step /\ View(snapshot).state = snapshot.state
      /\ View(snapshot).result = snapshot.result
      /\ snapshot.state \in {"idle", "running", "paused"}
      /\ snapshot.state = "idle" => View(snapshot) = IdleView /\ snapshot.step = 0
  BY <1>1, WorkFacts
<1>3. IdleView.result = "waiting"
  BY DEF IdleView
<1> QED BY <1>1, <1>2, <1>3 DEF Step, Pausing, AtWork

\* InStep: step and pause of board and window are the same whenever nothing is on its
\* way between them, for every product the LEDs can show.
THEOREM StationInStep ==
  Spec => []InStep
<1>1. ASSUME StationInv PROVE InStep
  <2> SUFFICES ASSUME Shown PROVE face.step = Step /\ face.paused = Pausing
    BY DEF InStep
  <2>1. Matches(face, View(snapshot)) /\ Step <= LastStep
    BY <1>1, QuietMatches DEF Shown
  <2>2. face.step = Step /\ (face.paused <=> Pausing)
    BY <1>1, <2>1, ShownFacts DEF Matches
  <2>3. face.paused \in BOOLEAN /\ Pausing \in BOOLEAN
    BY <1>1 DEF StationInv, Shape, BoardShape, Stm!Faces, Pausing, AtWork
  <2> QED BY <2>2, <2>3
<1> QED BY <1>1, StationInvariant, PTL

\* LedsShowWork: the LED of the step alone is lit, none in a pause, and the fail LED
\* only after a FAIL on this step.
THEOREM StationLedsShowWork ==
  Spec => []LedsShowWork
<1>1. ASSUME StationInv PROVE LedsShowWork
  <2> SUFFICES ASSUME Shown
               PROVE  /\ face.leds = (IF Pausing THEN {} ELSE {Step} \ {0})
                      /\ face.fail => AtWork /\ snapshot.result = "fail"
    BY DEF LedsShowWork
  <2>1. Matches(face, View(snapshot)) /\ Step <= LastStep
    BY <1>1, QuietMatches DEF Shown
  <2> QED BY <1>1, <2>1, ShownFacts DEF Matches
<1> QED BY <1>1, StationInvariant, PTL

\* PressesCount: a pause, a resume or a reset at the board is never refused by the
\* window, as long as nothing has come between them.
THEOREM StationPressesCount ==
  Spec => PressesCount
<1>1. ASSUME StationInv, LineMoves, level PROVE snapshot' # snapshot
  BY <1>1, LineMovesFacts DEF StationInv
<1>2. StationInv /\ [Next]_vars => [LineMoves /\ level => snapshot' # snapshot]_vars
  BY <1>1
<1> QED BY <1>2, StationInvariant, PTL DEF Spec, PressesCount

=============================================================================
