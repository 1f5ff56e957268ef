--------------------------- MODULE StmPanelProofs ---------------------------
(***************************************************************************)
(* PanelStaysOpen, for any number of LEDs and melodies of any length.      *)
(* Which buttons are enabled at rest is decided by what handlers still     *)
(* have to write, by melodies that have locked the panel, and by presses   *)
(* that wait to be served.                                                 *)
(***************************************************************************)
EXTENDS StmFirmwareProofs

\* The write w does not disable button x, nor take back a press of it.
Spares(x, w) == w # <<"disable", x>> /\ w # <<"released">>

Spared(x, s) == \A i \in 1..Len(s) : Spares(x, s[i])

\* After the writes s button x is enabled, or a press waits to be served: the last
\* write on x enables it, and a press that comes afterwards is not taken back.
Opens(x, s) ==
  \E i \in 1..Len(s) :
    /\ s[i] = <<"enable", x>>
    /\ \A j \in 1..Len(s) : i < j => Spares(x, s[j])

\* The buttons of which one stays enabled: PAUSE, and START of a waiting board.
Offered(x) == x = "pause" \/ (x = "start" /\ step = 0)

\* Without a check underway, the end of a melody will open the panel, or a press
\* will that is kept, or a handler will, or it is open and will stay so.
PanelReopens ==
  ~asked => \/ notes > 0 /\ lock
            \/ btn # "released" /\ ~Comes(<<"released">>, todo)
            \/ \E x \in Buttons : Offered(x) /\ Opens(x, todo)
            \/ \E x \in enabled : Offered(x) /\ Spared(x, todo)

-----------------------------------------------------------------------------
(* Sequences of writes                                                     *)

\* Which writes leave a button alone.
LEMMA SparingWrites ==
  ASSUME NEW x
  PROVE  /\ Spares(x, <<"ack">>) /\ Spares(x, <<"timerOn">>) /\ Spares(x, <<"timerOff">>)
         /\ \A b : Spares(x, <<"enable", b>>)
         /\ \A b : b # x => Spares(x, <<"disable", b>>)
<1>1. /\ \A b : <<"enable", b>>[1] = "enable"
      /\ \A b : <<"disable", b>>[1] = "disable" /\ <<"disable", b>>[2] = b
      /\ <<"ack">>[1] = "ack" /\ <<"released">>[1] = "released"
      /\ <<"timerOn">>[1] = "timerOn" /\ <<"timerOff">>[1] = "timerOff"
  OBVIOUS
<1> QED BY <1>1 DEF Spares

LEMMA SparedConcat ==
  ASSUME NEW x, NEW s \in Seq(Writes), NEW t \in Seq(Writes), Spared(x, s), Spared(x, t)
  PROVE  Spared(x, s \o t)
<1>1. /\ Len(s \o t) = Len(s) + Len(t) /\ Len(s) \in Nat /\ Len(t) \in Nat
      /\ \A i \in 1..Len(s) : (s \o t)[i] = s[i]
      /\ \A i \in 1..Len(t) : (s \o t)[Len(s) + i] = t[i]
  BY ConcatProperties
<1> SUFFICES ASSUME NEW i \in 1..Len(s \o t) PROVE Spares(x, (s \o t)[i])
  BY DEF Spared
<1>2. CASE i \in 1..Len(s)
  BY <1>1, <1>2 DEF Spared
<1>3. CASE i \notin 1..Len(s)
  <2>1. i - Len(s) \in 1..Len(t) /\ Len(s) + (i - Len(s)) = i
    BY <1>1, <1>3
  <2> QED BY <1>1, <2>1 DEF Spared
<1> QED BY <1>2, <1>3

\* Writes that open the panel may follow any others ...
LEMMA OpensAfter ==
  ASSUME NEW x, NEW s \in Seq(Writes), NEW t \in Seq(Writes), Opens(x, t)
  PROVE  Opens(x, s \o t)
<1>1. /\ Len(s \o t) = Len(s) + Len(t) /\ Len(s) \in Nat /\ Len(t) \in Nat
      /\ \A i \in 1..Len(t) : (s \o t)[Len(s) + i] = t[i]
  OBVIOUS
<1>2. PICK i \in 1..Len(t) :
        t[i] = <<"enable", x>> /\ \A j \in 1..Len(t) : i < j => Spares(x, t[j])
  BY DEF Opens
<1>3. Len(s) + i \in 1..Len(s \o t) /\ (s \o t)[Len(s) + i] = <<"enable", x>>
  BY <1>1, <1>2
<1>4. ASSUME NEW j \in 1..Len(s \o t), Len(s) + i < j PROVE Spares(x, (s \o t)[j])
  <2>1. j - Len(s) \in 1..Len(t) /\ i < j - Len(s) /\ Len(s) + (j - Len(s)) = j
    BY <1>1, <1>4
  <2> QED BY <1>1, <1>2, <2>1
<1> QED BY <1>3, <1>4 DEF Opens

\* ... and be followed by writes that spare the button.
LEMMA OpensBefore ==
  ASSUME NEW x, NEW s \in Seq(Writes), NEW t \in Seq(Writes), Opens(x, s), Spared(x, t)
  PROVE  Opens(x, s \o t)
<1>1. /\ Len(s \o t) = Len(s) + Len(t) /\ Len(s) \in Nat /\ Len(t) \in Nat
      /\ \A i \in 1..Len(s) : (s \o t)[i] = s[i]
      /\ \A i \in 1..Len(t) : (s \o t)[Len(s) + i] = t[i]
  OBVIOUS
<1>2. PICK i \in 1..Len(s) :
        s[i] = <<"enable", x>> /\ \A j \in 1..Len(s) : i < j => Spares(x, s[j])
  BY DEF Opens
<1>3. i \in 1..Len(s \o t) /\ (s \o t)[i] = <<"enable", x>>
  BY <1>1, <1>2
<1>4. ASSUME NEW j \in 1..Len(s \o t), i < j PROVE Spares(x, (s \o t)[j])
  <2>1. CASE j \in 1..Len(s)
    BY <1>1, <1>2, <1>4, <2>1
  <2>2. CASE j \notin 1..Len(s)
    <3>1. j - Len(s) \in 1..Len(t) /\ Len(s) + (j - Len(s)) = j
      BY <1>1, <2>2
    <3> QED BY <1>1, <3>1 DEF Spared
  <2> QED BY <2>1, <2>2
<1> QED BY <1>3, <1>4 DEF Opens

\* What the next write leaves of both.
LEMMA OpensTail ==
  ASSUME NEW x, NEW s \in Seq(Writes), s # <<>>
  PROVE  /\ Opens(x, s) => \/ Head(s) = <<"enable", x>> /\ Spared(x, Tail(s))
                           \/ Opens(x, Tail(s))
         /\ Spared(x, s) => Spares(x, Head(s)) /\ Spared(x, Tail(s))
<1>1. /\ Len(Tail(s)) = Len(s) - 1 /\ Len(s) \in Nat \ {0} /\ Len(Tail(s)) \in Nat
      /\ Head(s) = s[1]
      /\ \A i \in 1..Len(Tail(s)) : Tail(s)[i] = s[i + 1]
  OBVIOUS
<1>2. ASSUME Spared(x, s) PROVE Spares(x, Head(s)) /\ Spared(x, Tail(s))
  <2>1. 1 \in 1..Len(s) /\ \A i \in 1..Len(Tail(s)) : i + 1 \in 1..Len(s)
    BY <1>1
  <2> QED BY <1>1, <1>2, <2>1 DEF Spared
<1>3. ASSUME Opens(x, s)
      PROVE  (Head(s) = <<"enable", x>> /\ Spared(x, Tail(s))) \/ Opens(x, Tail(s))
  <2>1. PICK i \in 1..Len(s) :
          s[i] = <<"enable", x>> /\ \A j \in 1..Len(s) : i < j => Spares(x, s[j])
    BY <1>3 DEF Opens
  <2>2. \A j \in 1..Len(Tail(s)) : i - 1 < j => Spares(x, Tail(s)[j])
    <3> SUFFICES ASSUME NEW j \in 1..Len(Tail(s)), i - 1 < j PROVE Spares(x, Tail(s)[j])
      OBVIOUS
    <3>1. j + 1 \in 1..Len(s) /\ i < j + 1
      BY <1>1
    <3> QED BY <1>1, <2>1, <3>1
  <2>3. CASE i = 1
    BY <1>1, <2>1, <2>2, <2>3 DEF Spared
  <2>4. CASE i # 1
    <3>1. i - 1 \in 1..Len(Tail(s)) /\ (i - 1) + 1 = i
      BY <1>1, <2>4
    <3>2. Tail(s)[i - 1] = <<"enable", x>>
      BY <1>1, <2>1, <3>1
    <3> QED BY <2>2, <3>1, <3>2 DEF Opens
  <2> QED BY <2>3, <2>4
<1> QED BY <1>2, <1>3

\* The building blocks of the handlers.
LEMMA PanelBlocks ==
  /\ \A on : Panel(on) \in Seq(Writes)
  /\ Released \in Seq(Writes) /\ Ack \in Seq(Writes)
  /\ TimerOn \in Seq(Writes) /\ TimerOff \in Seq(Writes)
  /\ Sound(FALSE) \in Seq(Writes) /\ <<>> \in Seq(Writes)
  /\ Enable("pause") \in Seq(Writes)
<1>1. PanelWrites \subseteq Writes
  BY DEF Writes
<1>2. \A on : Panel(on) \in Seq(Writes)
  BY <1>1, Blocks, SeqMonotonic
<1>3. Released \in Seq(Writes) /\ Enable("pause") \in Seq(Writes)
  BY <1>1, Blocks, SeqMonotonic DEF Buttons
<1>4. Ack \in Seq(Writes) /\ TimerOn \in Seq(Writes) /\ TimerOff \in Seq(Writes)
  BY DEF Ack, TimerOn, TimerOff, Writes
<1>5. Sound(FALSE) \in Seq(Writes)
  <2>1. Timed(Sound(FALSE))
    BY SoundIsTimed
  <2> QED BY <2>1 DEF Timed
<1>6. <<>> \in Seq(Writes)
  OBVIOUS
<1> QED BY <1>2, <1>3, <1>4, <1>5, <1>6, Zenon

\* Timer and acknowledgement spare every button.
LEMMA SparingBlocks ==
  ASSUME NEW x
  PROVE  /\ Spared(x, Ack) /\ Spared(x, TimerOn) /\ Spared(x, TimerOff)
         /\ Spared(x, <<>>) /\ Spared(x, Sound(FALSE)) /\ Spared(x, Sound(FALSE) \o Ack)
<1>1. Spared(x, Ack) /\ Spared(x, TimerOn) /\ Spared(x, TimerOff) /\ Spared(x, <<>>)
  BY SparingWrites DEF Spared, Ack, TimerOn, TimerOff
<1>2. Sound(FALSE) = (TimerOff \o <<>>) \o TimerOn
  BY DEF Sound
<1>3. TimerOff \o <<>> \in Seq(Writes)
  BY PanelBlocks, ConcatProperties
<1>4. Spared(x, Sound(FALSE))
  BY <1>1, <1>2, <1>3, SparedConcat, PanelBlocks
<1>5. Spared(x, Sound(FALSE) \o Ack)
  BY <1>1, <1>4, SparedConcat, PanelBlocks
<1> QED BY <1>1, <1>4, <1>5

\* Btn_ISR_Enable opens the panel to each of its buttons.
LEMMA PanelOpens ==
  ASSUME NEW on, NEW x \in Buttons, x \in on
  PROVE  Opens(x, Panel(on))
<1>1. Panel(on) = [i \in 1..4 |-> <<IF Order[i] \in on THEN "enable" ELSE "disable", Order[i]>>]
  BY DEF Panel, Order
<1>2. PICK i \in 1..4 : Order[i] = x
  BY DEF Order, Buttons
<1>3. \A j \in 1..4 : i < j => Order[j] # x
  BY <1>2 DEF Order
<1>4. /\ Panel(on)[i] = <<"enable", x>>
      /\ \A j \in 1..4 : \/ Panel(on)[j] = <<"enable", Order[j]>>
                         \/ Panel(on)[j] = <<"disable", Order[j]>>
  BY <1>1, <1>2
<1>5. \A j \in 1..4 : i < j => Spares(x, Panel(on)[j])
  BY <1>3, <1>4, SparingWrites
<1>6. Len(Panel(on)) = 4
  BY <1>1
<1> QED BY <1>4, <1>5, <1>6 DEF Opens

\* The handlers that open the panel.
LEMMA HandlersOpen ==
  ASSUME NEW on, NEW x \in Buttons, x \in on
  PROVE  /\ Opens(x, Panel(on) \o Sound(FALSE) \o Ack)
         /\ Opens(x, (Released \o Panel(on)) \o TimerOff \o Ack)
         /\ Opens(x, TimerOff \o Released \o Panel(on) \o Ack)
         /\ Opens(x, TimerOff \o Panel(on))
         /\ Opens(x, Released \o Panel(on))
<1> DEFINE P == Panel(on)
           S == Sound(FALSE)
<1>1. /\ P \in Seq(Writes) /\ S \in Seq(Writes) /\ Opens(x, P) /\ Spared(x, S)
      /\ Released \in Seq(Writes) /\ Ack \in Seq(Writes) /\ TimerOff \in Seq(Writes)
      /\ Spared(x, Ack) /\ Spared(x, TimerOff)
  BY PanelBlocks, PanelOpens, SparingBlocks, Zenon
<1> HIDE DEF P, S
<1>2. P \o S \in Seq(Writes) /\ Opens(x, P \o S)
  BY <1>1, OpensBefore, ConcatProperties
<1>3. Opens(x, (P \o S) \o Ack)
  BY <1>1, <1>2, OpensBefore
<1>4. Released \o P \in Seq(Writes) /\ Opens(x, Released \o P)
  BY <1>1, OpensAfter, ConcatProperties
<1>5. (Released \o P) \o TimerOff \in Seq(Writes) /\ Opens(x, (Released \o P) \o TimerOff)
  BY <1>1, <1>4, OpensBefore, ConcatProperties
<1>6. Opens(x, ((Released \o P) \o TimerOff) \o Ack)
  BY <1>1, <1>5, OpensBefore
<1>7. TimerOff \o Released \in Seq(Writes)
  BY <1>1, ConcatProperties
<1>8. (TimerOff \o Released) \o P \in Seq(Writes) /\ Opens(x, (TimerOff \o Released) \o P)
  BY <1>1, <1>7, OpensAfter, ConcatProperties
<1>9. Opens(x, ((TimerOff \o Released) \o P) \o Ack)
  BY <1>1, <1>8, OpensBefore
<1>10. Opens(x, TimerOff \o P)
  BY <1>1, OpensAfter
<1> QED BY <1>3, <1>4, <1>6, <1>9, <1>10 DEF P, S

\* Handle_Btn_Pause ends with PAUSE enabled, whatever comes before.
LEMMA PauseOpens ==
  ASSUME NEW s \in Seq(Writes)
  PROVE  Opens("pause", s \o Enable("pause"))
<1>1. Opens("pause", Enable("pause"))
  BY DEF Opens, Enable
<1> QED BY <1>1, PanelBlocks, OpensAfter

\* Writes that spare every button take back no press.
LEMMA SparedIsKept ==
  ASSUME NEW s \in Seq(Writes), NEW x, Spared(x, s)
  PROVE  ~Comes(<<"released">>, s)
<1>1. \A i \in DOMAIN s : s[i] # <<"released">>
  BY DEF Spared, Spares
<1> QED BY <1>1 DEF Comes

-----------------------------------------------------------------------------
(* The steps                                                               *)

\* A shared write.
LEMMA WriteKeepsPanel ==
  ASSUME FirmwareInv, PanelReopens, Write
  PROVE  PanelReopens'
<1>1. todo \in Seq(Writes) /\ todo # <<>> /\ todo' = Tail(todo)
  BY DEF FirmwareInv, Write
<1>2. UNCHANGED <<step, asked, notes, lock>>
  BY DEF Write, work, melody
<1>3. SUFFICES ASSUME ~asked
               PROVE  \/ notes > 0 /\ lock
                      \/ btn' # "released" /\ ~Comes(<<"released">>, todo')
                      \/ \E x \in Buttons : Offered(x) /\ Opens(x, todo')
                      \/ \E x \in enabled' : Offered(x) /\ Spared(x, todo')
  BY <1>2 DEF PanelReopens, Offered
<1>4. CASE notes > 0 /\ lock
  BY <1>4
<1>5. CASE btn # "released" /\ ~Comes(<<"released">>, todo)
  <2>1. Head(todo) # <<"released">> /\ ~Comes(<<"released">>, Tail(todo))
    BY <1>1, <1>5, TailFacts
  <2>2. Head(todo) \in Writes
    BY <1>1
  <2>3. Head(todo)[1] # "released"
    <3> SUFFICES ASSUME NEW w \in Writes, w[1] = "released" PROVE w = <<"released">>
      BY <2>1, <2>2
    <3> QED BY DEF Writes, PanelWrites
  <2>4. btn' = btn
    BY <2>3 DEF Write
  <2> QED BY <1>1, <1>5, <2>1, <2>4
<1>6. ASSUME NEW x \in Buttons, Offered(x), Opens(x, todo)
      PROVE  \/ Opens(x, todo')
             \/ x \in enabled' /\ Spared(x, todo')
  <2>1. (Head(todo) = <<"enable", x>> /\ Spared(x, todo')) \/ Opens(x, todo')
    BY <1>1, <1>6, OpensTail
  <2>2. CASE Head(todo) = <<"enable", x>> /\ Spared(x, todo')
    BY <2>2 DEF Write
  <2> QED BY <2>1, <2>2
<1>7. ASSUME NEW x \in enabled, Offered(x), Spared(x, todo)
      PROVE  x \in enabled' /\ Spared(x, todo')
  <2>1. Spares(x, Head(todo)) /\ Spared(x, todo')
    BY <1>1, <1>7, OpensTail
  <2>2. Head(todo) \in Writes
    BY <1>1
  <2>3. ~(Head(todo)[1] = "disable" /\ Head(todo)[2] = x)
    <3> SUFFICES ASSUME NEW w \in Writes, w[1] = "disable", w[2] = x
                 PROVE  w = <<"disable", x>>
      BY <2>1, <2>2 DEF Spares
    <3> QED BY DEF Writes, PanelWrites
  <2>4. x \in enabled'
    BY <1>7, <2>3 DEF Write
  <2> QED BY <2>1, <2>4
<1> QED BY <1>3, <1>4, <1>5, <1>6, <1>7 DEF PanelReopens, Offered

\* An interrupt: a press that closes the panel is kept, unless the handler is
\* about to take presses back, and then it opens the panel afterwards.
LEMMA InterruptKeepsPanel ==
  ASSUME FirmwareInv, PanelReopens, Expire \/ Input
  PROVE  PanelReopens'
<1>1. CASE UNCHANGED <<step, asked, notes, lock, btn, enabled, todo>>
  BY <1>1 DEF PanelReopens, Offered
<1>2. ASSUME NEW b \in Buttons, Press(b) PROVE PanelReopens'
  <2>1. /\ UNCHANGED <<step, asked, notes, lock, todo>>
        /\ btn' = b /\ b # "released" /\ todo \in Seq(Writes)
    BY <1>2 DEF Press, work, melody, Buttons, FirmwareInv
  <2>2. CASE Comes(<<"released">>, todo)
    <3>1. \A x : ~Spared(x, todo)
      BY <2>1, <2>2, SparedIsKept
    <3> QED BY <2>1, <2>2, <3>1 DEF PanelReopens, Offered
  <2>3. CASE ~Comes(<<"released">>, todo)
    BY <2>1, <2>3 DEF PanelReopens
  <2> QED BY <2>2, <2>3
<1>3. CASE Expire
  BY <1>1, <1>3 DEF Expire, work, melody, panel
<1>4. ASSUME NEW c \in Commands, Receive(c) PROVE PanelReopens'
  BY <1>1, <1>4 DEF Receive, work, melody, panel
<1> QED BY <1>2, <1>3, <1>4 DEF Input

\* A dispatch that has nothing to do with the panel.
LEMMA OtherDispatchKeepsPanel ==
  ASSUME FirmwareInv, PanelReopens, todo = <<>>, UNCHANGED <<step, asked, btn, enabled>>,
         todo' \in {<<>>, Ack, TimerOn, TimerOff},
         notes > 0 /\ lock => notes' > 0 /\ lock'
  PROVE  PanelReopens'
<1>1. \A x : Spared(x, todo') /\ ~Opens(x, todo)
  <2>1. \A x : ~Opens(x, todo)
    BY DEF Opens
  <2>2. \A x : Spared(x, todo')
    BY SparingBlocks, Zenon
  <2> QED BY <2>1, <2>2
<1>2. ~Comes(<<"released">>, todo')
  <2>1. todo' \in Seq(Writes)
    BY PanelBlocks
  <2> QED BY <1>1, <2>1, SparedIsKept
<1> QED BY <1>1, <1>2 DEF PanelReopens, Offered

\* A melody that locks the panel opens it in the end.
LEMMA MelodyReopens ==
  ASSUME NEW m \in Melodies, Play(m, TRUE)
  PROVE  PanelReopens'
  BY FirmwareAssumption DEF Play, PanelReopens

\* A handler that opens the panel to PAUSE, or at step 0 to START.
LEMMA OpenedPanel ==
  ASSUME NEW x \in Buttons, x = "pause" \/ (x = "start" /\ step' = 0), Opens(x, todo')
  PROVE  PanelReopens'
  BY DEF PanelReopens, Offered

\* Among the buttons that fit the state of the work is one of these.
LEMMA FittingOffers ==
  \E x \in Buttons : x \in Fitting(step, paused) /\ Offered(x)
<1>1. {"start", "pause"} \subseteq Buttons
  BY DEF Buttons
<1>2. CASE step = 0
  BY <1>1, <1>2 DEF Fitting, Offered
<1>3. CASE step # 0
  BY <1>1, <1>3 DEF Fitting, Working, Offered
<1> QED BY <1>2, <1>3

\* A command.
LEMMA UartKeepsPanel ==
  ASSUME FirmwareInv, PanelReopens, Uart
  PROVE  PanelReopens'
<1>1. CASE UartStart \/ UartPass \/ UartFail \/ UartComplete \/ UartDefect
  <2>1. \E m \in Melodies : Play(m, TRUE)
    BY <1>1 DEF UartStart, UartPass, UartFail, UartComplete, UartDefect, Melodies
  <2> QED BY <2>1, MelodyReopens
<1>2. "pause" \in Buttons /\ "start" \in Buttons /\ "pause" \in Working
  BY DEF Buttons, Working
<1>3. CASE UartPause
  <2>1. todo' = Panel({"pause"}) \o Sound(FALSE) \o Ack
    BY <1>3 DEF UartPause
  <2>2. Opens("pause", todo')
    BY <1>2, <2>1, HandlersOpen, Zenon
  <2> QED BY <1>2, <2>2, OpenedPanel
<1>4. CASE UartResume
  <2>1. todo' = Panel(Working) \o Sound(FALSE) \o Ack
    BY <1>4 DEF UartResume
  <2>2. Opens("pause", todo')
    BY <1>2, <2>1, HandlersOpen, Zenon
  <2> QED BY <1>2, <2>2, OpenedPanel
<1>5. CASE UartExit
  <2>1. step' = 0 /\ todo' = (Released \o Panel({"start"})) \o TimerOff \o Ack
    BY <1>5 DEF UartExit, Work, ResetPanel
  <2>2. Opens("start", todo')
    BY <1>2, <2>1, HandlersOpen, Zenon
  <2> QED BY <1>2, <2>1, <2>2, OpenedPanel
<1>6. CASE UartRestore
  <2>1. todo' = TimerOff \o Released \o Panel(Working) \o Ack
    BY <1>6 DEF UartRestore
  <2>2. Opens("pause", todo')
    BY <1>2, <2>1, HandlersOpen, Zenon
  <2> QED BY <1>2, <2>2, OpenedPanel
<1>7. CASE UartIgnored
  <2>1. /\ todo = <<>> /\ todo' = Ack
        /\ UNCHANGED <<step, asked, btn, enabled, notes, lock>>
    BY <1>7 DEF UartIgnored, Command, work, melody, panel
  <2> QED BY <2>1, OtherDispatchKeepsPanel
<1> QED BY <1>1, <1>3, <1>4, <1>5, <1>6, <1>7 DEF Uart

\* The end of a note: if it was the last of a melody that has locked the panel, the
\* panel is opened.
LEMMA NoteKeepsPanel ==
  ASSUME FirmwareInv, PanelReopens, NextNote \/ LastNote \/ StaleNote
  PROVE  PanelReopens'
<1>1. /\ todo = <<>> /\ UNCHANGED <<step, paused, asked, btn, enabled>>
      /\ notes \in Nat
  BY FirmwareAssumption
     DEF NextNote, LastNote, StaleNote, NoteEnds, work, panel, FirmwareInv, TypeOK
<1>2. CASE NextNote
  <2>1. todo' = TimerOn /\ notes' > 0 /\ lock' = lock
    BY <1>1, <1>2 DEF NextNote
  <2> QED BY <1>1, <2>1, OtherDispatchKeepsPanel
<1>3. CASE LastNote /\ lock
  <2>1. todo' = TimerOff \o Panel(Fitting(step, paused))
    BY <1>3 DEF LastNote
  <2>2. PICK x \in Buttons : x \in Fitting(step, paused) /\ Offered(x)
    BY FittingOffers
  <2>3. Opens(x, todo')
    BY <2>1, <2>2, HandlersOpen, Zenon
  <2> QED BY <1>1, <2>2, <2>3, OpenedPanel DEF Offered
<1>4. CASE LastNote /\ ~lock
  <2>1. todo' = TimerOff
    <3>1. todo' = TimerOff \o <<>>
      BY <1>4 DEF LastNote
    <3> QED BY <3>1 DEF TimerOff
  <2> QED BY <1>1, <1>4, <2>1, OtherDispatchKeepsPanel
<1>5. CASE StaleNote
  <2>1. todo' = <<>> /\ notes = 0
    BY <1>5 DEF StaleNote
  <2> QED BY <1>1, <2>1, OtherDispatchKeepsPanel
<1> QED BY <1>2, <1>3, <1>4, <1>5

\* A press that is served.
LEMMA ButtonKeepsPanel ==
  ASSUME FirmwareInv, PanelReopens, BtnStart \/ BtnCheck \/ BtnPause \/ BtnReset
  PROVE  PanelReopens'
<1>1. "pause" \in Buttons /\ "start" \in Buttons
  BY DEF Buttons
<1>2. ASSUME todo' = Released \o Panel(Fitting(step, paused)), UNCHANGED step
      PROVE  PanelReopens'
  <2>1. PICK x \in Buttons : x \in Fitting(step, paused) /\ Offered(x)
    BY FittingOffers
  <2>2. Opens(x, todo')
    BY <1>2, <2>1, HandlersOpen, Zenon
  <2> QED BY <1>2, <2>1, <2>2, OpenedPanel DEF Offered
<1>3. CASE BtnStart
  BY <1>2, <1>3 DEF BtnStart, work
<1>4. CASE BtnCheck
  <2>1. CASE paused \/ step = 0
    BY <1>2, <1>4, <2>1 DEF BtnCheck, work
  <2>2. CASE ~(paused \/ step = 0)
    BY <1>4, <2>2 DEF BtnCheck, Work, PanelReopens
  <2> QED BY <2>1, <2>2
<1>5. CASE BtnPause
  <2>1. \E s \in Seq(Writes) : todo' = s \o Enable("pause")
    <3>1. \A on : (Panel(on) \o Sound(FALSE)) \o Released \in Seq(Writes)
      <4> SUFFICES ASSUME NEW on PROVE (Panel(on) \o Sound(FALSE)) \o Released \in Seq(Writes)
        OBVIOUS
      <4>1. Panel(on) \o Sound(FALSE) \in Seq(Writes)
        BY PanelBlocks, ConcatProperties, Zenon
      <4> QED BY <4>1, PanelBlocks, ConcatProperties, Zenon
    <3>2. \/ todo' = Released \o Enable("pause")
          \/ todo' = Panel({"pause"}) \o Sound(FALSE) \o Released \o Enable("pause")
          \/ todo' = Panel(Working) \o Sound(FALSE) \o Released \o Enable("pause")
      BY <1>5 DEF BtnPause
    <3> QED BY <3>1, <3>2, PanelBlocks, Zenon
  <2>2. Opens("pause", todo')
    BY <2>1, PauseOpens
  <2> QED BY <1>1, <2>2, OpenedPanel
<1>6. CASE BtnReset
  <2>1. CASE paused
    <3>1. todo' = Released \o Panel({"pause"})
      BY <1>6, <2>1 DEF BtnReset
    <3>2. Opens("pause", todo')
      BY <1>1, <3>1, HandlersOpen, Zenon
    <3> QED BY <1>1, <3>2, OpenedPanel
  <2>2. CASE ~paused /\ step = 0
    <3>1. todo' = Released \o Panel({"start"}) /\ step' = 0
      BY <1>6, <2>2 DEF BtnReset, work
    <3>2. Opens("start", todo')
      BY <1>1, <3>1, HandlersOpen, Zenon
    <3> QED BY <1>1, <3>1, <3>2, OpenedPanel
  <2>3. CASE ~paused /\ step # 0
    <3>1. Play("defect", TRUE) /\ "defect" \in Melodies
      BY <1>6, <2>3 DEF BtnReset, Melodies
    <3> QED BY <3>1, MelodyReopens
  <2> QED BY <2>1, <2>2, <2>3
<1> QED BY <1>3, <1>4, <1>5, <1>6

\* Whatever interrupts cut into the handlers, the panel opens again.
THEOREM PanelAlwaysReopens == Spec => []PanelReopens
<1>1. Init => PanelReopens
  <2> SUFFICES ASSUME Init PROVE PanelReopens
    OBVIOUS
  <2>1. "start" \in enabled /\ Offered("start") /\ Spared("start", todo)
    BY DEF Init, Offered, Buttons, Spared
  <2> QED BY <2>1 DEF PanelReopens
<1>2. FirmwareInv /\ PanelReopens /\ [Next]_vars => PanelReopens'
  <2> SUFFICES ASSUME FirmwareInv, PanelReopens, [Next]_vars PROVE PanelReopens'
    OBVIOUS
  <2>1. CASE Uart
    BY <2>1, UartKeepsPanel
  <2>2. CASE NoteOrButton
    BY <2>2, NoteKeepsPanel, ButtonKeepsPanel DEF NoteOrButton
  <2>3. CASE Write
    BY <2>3, WriteKeepsPanel
  <2>4. CASE Expire \/ Input
    BY <2>4, InterruptKeepsPanel
  <2>5. CASE Idle \/ UNCHANGED vars
    <3>1. UNCHANGED <<step, asked, notes, lock, btn, enabled, todo>>
      BY <2>5 DEF Idle, vars, work, melody, panel
    <3> QED BY <3>1 DEF PanelReopens, Offered
  <2>6. Uart \/ NoteOrButton \/ Write \/ Idle \/ Expire \/ Input \/ UNCHANGED vars
    BY DEF Next, Main, Uart, NoteOrButton
  <2> QED BY <2>1, <2>2, <2>3, <2>4, <2>5, <2>6
<1> QED BY FirmwareInvariant, <1>1, <1>2, PTL DEF Spec

\* A board at rest that waits for no verdict has PAUSE enabled, or waits at step 0
\* with START enabled, for any interleaving of commands, melodies and presses.
THEOREM PanelNeverGoesDead == Spec => []PanelStaysOpen
<1>1. PanelReopens => PanelStaysOpen
  <2> SUFFICES ASSUME PanelReopens, AtRest, ~asked
               PROVE  "pause" \in enabled \/ (step = 0 /\ "start" \in enabled)
    BY DEF PanelStaysOpen
  <2>1. todo = <<>> /\ btn = "released" /\ notes = 0
    BY DEF AtRest
  <2>2. \A x : ~Opens(x, todo)
    BY <2>1 DEF Opens
  <2>3. PICK x \in enabled : Offered(x)
    BY <2>1, <2>2 DEF PanelReopens
  <2> QED BY <2>3 DEF Offered
<1> QED BY <1>1, PanelAlwaysReopens, PTL

=============================================================================
