-------------------------- MODULE StmFirmwareProofs --------------------------
(***************************************************************************)
(* Safety of the firmware, and that it implements Board, for any number of *)
(* step LEDs and melodies of any length.  What a handler still has to      *)
(* write decides both: a note timer that is to be stopped is also to be    *)
(* started again (Timed), the acknowledgement is the last write of a       *)
(* handler, and a handler that says something has writes to come.          *)
(***************************************************************************)
EXTENDS StmFirmware, SequenceTheorems, TLAPS

\* Writes to the panel, and all shared writes.
PanelWrites == {<<"released">>} \cup ({"enable", "disable"} \X Buttons)
Writes == PanelWrites \cup {<<"ack">>, <<"timerOn">>, <<"timerOff">>}

\* A write is among those to come.
Comes(w, s) == w \in {s[i] : i \in DOMAIN s}

\* A timer that is stopped is started again afterwards.
Restarted(s) ==
  \A i \in 1..Len(s) : s[i] = <<"timerOff">> =>
    \E j \in 1..Len(s) : i < j /\ s[j] = <<"timerOn">>

\* The melody stops only for its next note, and that is timed.
MelodyRuns == notes > 0 => Restarted(todo)

\* A handler acknowledges a command with its last write; one that has said
\* something acknowledges none, and has writes to come.
AckComesLast == \A i \in 1..Len(todo) : todo[i] = <<"ack">> => i = Len(todo)
SaidIsHeard  == says # "none" => todo # <<>> /\ ~Comes(<<"ack">>, todo)

\* The inductive invariant of the firmware.
FirmwareInv ==
  /\ TypeOK
  /\ todo \in Seq(Writes)
  /\ NoLedLeftBehind
  /\ NoteHasTimer
  /\ MelodyRuns
  /\ AckComesLast
  /\ SaidIsHeard

-----------------------------------------------------------------------------
(* Sequences of writes                                                     *)

\* Writes to the panel are no acknowledgement and do not touch the timer.
LEMMA WritesDiffer ==
  /\ <<"ack">> \notin PanelWrites
  /\ <<"timerOn">> \notin PanelWrites /\ <<"timerOff">> \notin PanelWrites
  /\ <<"timerOn">> # <<"timerOff">>
  /\ <<"timerOn">> # <<"ack">> /\ <<"timerOff">> # <<"ack">>
<1>1. \A p \in PanelWrites : p[1] \in {"released", "enable", "disable"}
  BY DEF PanelWrites
<1>2. <<"ack">>[1] = "ack" /\ <<"timerOn">>[1] = "timerOn" /\ <<"timerOff">>[1] = "timerOff"
  OBVIOUS
<1> QED BY <1>1, <1>2

\* The building blocks of the handlers.
LEMMA Blocks ==
  /\ \A on : Panel(on) \in Seq(PanelWrites) /\ Panel(on) # <<>>
  /\ \A b \in Buttons : Enable(b) \in Seq(PanelWrites)
  /\ Released \in Seq(PanelWrites) /\ Released # <<>>
  /\ ResetPanel \in Seq(PanelWrites)
<1>1. \A on : Panel(on) \in Seq(PanelWrites) /\ Panel(on) # <<>>
  <2> SUFFICES ASSUME NEW on PROVE Panel(on) \in Seq(PanelWrites) /\ Panel(on) # <<>>
    OBVIOUS
  <2>1. Panel(on) = [i \in 1..4 |-> <<IF Order[i] \in on THEN "enable" ELSE "disable", Order[i]>>]
    BY DEF Panel, Order
  <2>2. \A i \in 1..4 : Order[i] \in Buttons
    BY DEF Order, Buttons
  <2>3. Panel(on) \in [1..4 -> PanelWrites]
    BY <2>1, <2>2 DEF PanelWrites
  <2>4. Panel(on) \in Seq(PanelWrites)
    BY <2>3, SeqDef
  <2>5. DOMAIN Panel(on) # DOMAIN <<>>
    BY <2>1
  <2> QED BY <2>4, <2>5
<1>2. \A b \in Buttons : Enable(b) \in Seq(PanelWrites)
  BY DEF Enable, PanelWrites
<1>3. Released \in Seq(PanelWrites) /\ Released # <<>>
  BY DEF Released, PanelWrites
<1>4. ResetPanel \in Seq(PanelWrites)
  BY <1>1, <1>3, ConcatProperties DEF ResetPanel
<1> QED BY <1>1, <1>2, <1>3, <1>4

\* A handler that plays a melody.
Timed(s) == s \in Seq(Writes) /\ s # <<>> /\ Restarted(s) /\ Comes(<<"timerOn">>, s)

\* A timer that is stopped, panel writes, and the timer started again.
LEMMA StopStartIsTimed ==
  ASSUME NEW mid \in Seq(Writes \ {<<"ack">>}), mid \in Seq(PanelWrites)
  PROVE  /\ Timed((TimerOff \o mid) \o TimerOn)
         /\ (TimerOff \o mid) \o TimerOn \in Seq(Writes \ {<<"ack">>})
<1> DEFINE W == Writes \ {<<"ack">>}
<1>1. <<"timerOn">> \in W /\ <<"timerOff">> \in W /\ W \subseteq Writes
  BY WritesDiffer DEF Writes
<1> HIDE DEF W
<1>2. /\ (TimerOff \o mid) \o TimerOn \in Seq(W)
      /\ Len((TimerOff \o mid) \o TimerOn) = Len(mid) + 2
      /\ ((TimerOff \o mid) \o TimerOn)[Len(mid) + 2] = <<"timerOn">>
      /\ Len(mid) \in Nat
  BY <1>1 DEF W, TimerOff, TimerOn
<1>3. (TimerOff \o mid) \o TimerOn \in Seq(Writes)
  BY <1>1, <1>2, SeqMonotonic
<1>4. SUFFICES ASSUME NEW s \in Seq(Writes), s = (TimerOff \o mid) \o TimerOn
               PROVE  Timed(s)
  BY <1>2, <1>3 DEF W
<1>5. DOMAIN s = 1..(Len(mid) + 2) /\ Len(s) = Len(mid) + 2 /\ s[Len(mid) + 2] = <<"timerOn">>
  BY <1>2, <1>4
<1>6. Restarted(s)
  <2> SUFFICES ASSUME NEW i \in 1..Len(s), s[i] = <<"timerOff">>
               PROVE  \E j \in 1..Len(s) : i < j /\ s[j] = <<"timerOn">>
    BY DEF Restarted
  <2>1. i # Len(mid) + 2
    BY <1>5, WritesDiffer
  <2>2. i < Len(mid) + 2 /\ Len(mid) + 2 \in 1..Len(s)
    BY <1>2, <1>5, <2>1
  <2> QED BY <1>5, <2>2
<1>7. Comes(<<"timerOn">>, s)
  <2>1. Len(mid) + 2 \in DOMAIN s
    BY <1>2, <1>5
  <2> QED BY <1>5, <2>1 DEF Comes
<1>8. s # <<>>
  BY <1>7 DEF Comes
<1> QED BY <1>6, <1>7, <1>8 DEF Timed

\* Buzzer_Play stops the timer only to start it again, and acknowledges nothing.
LEMMA SoundIsTimed ==
  ASSUME NEW locks \in BOOLEAN
  PROVE  /\ Timed(Sound(locks))
         /\ Sound(locks) \in Seq(Writes \ {<<"ack">>})
<1>1. PanelWrites \subseteq Writes \ {<<"ack">>}
  BY WritesDiffer DEF Writes
<1>2. <<>> \in Seq(PanelWrites) /\ Panel({}) \in Seq(PanelWrites)
  BY Blocks
<1>3. <<>> \in Seq(Writes \ {<<"ack">>}) /\ Panel({}) \in Seq(Writes \ {<<"ack">>})
  BY <1>1, <1>2, SeqMonotonic
<1>4. CASE locks
  BY <1>2, <1>3, <1>4, StopStartIsTimed DEF Sound
<1>5. CASE ~locks
  BY <1>2, <1>3, <1>5, StopStartIsTimed DEF Sound
<1> QED BY <1>4, <1>5

\* Writes to the panel before a melody leave it timed.
LEMMA PanelThenTimed ==
  ASSUME NEW s \in Seq(Writes), s \in Seq(PanelWrites), NEW t \in Seq(Writes), Timed(t)
  PROVE  Timed(s \o t)
<1>2. /\ s \o t \in Seq(Writes) /\ Len(s \o t) = Len(s) + Len(t)
      /\ Len(s) \in Nat /\ Len(t) \in Nat
      /\ \A i \in 1..Len(s) : (s \o t)[i] = s[i] /\ s[i] \in PanelWrites
      /\ \A i \in 1..Len(t) : (s \o t)[Len(s) + i] = t[i]
  OBVIOUS
<1>3. Comes(<<"timerOn">>, s \o t)
  <2>1. PICK k \in 1..Len(t) : t[k] = <<"timerOn">>
    BY DEF Timed, Comes
  <2>2. Len(s) + k \in DOMAIN (s \o t) /\ (s \o t)[Len(s) + k] = <<"timerOn">>
    BY <1>2, <2>1
  <2> QED BY <2>2 DEF Comes
<1>4. Restarted(s \o t)
  <2> SUFFICES ASSUME NEW i \in 1..Len(s \o t), (s \o t)[i] = <<"timerOff">>
               PROVE  \E j \in 1..Len(s \o t) : i < j /\ (s \o t)[j] = <<"timerOn">>
    BY DEF Restarted
  <2>1. i \notin 1..Len(s)
    BY <1>2, WritesDiffer
  <2>2. i - Len(s) \in 1..Len(t) /\ t[i - Len(s)] = <<"timerOff">>
    <3>1. i - Len(s) \in 1..Len(t)
      BY <1>2, <2>1
    <3>2. Len(s) + (i - Len(s)) = i
      BY <1>2
    <3> QED BY <1>2, <3>1, <3>2
  <2>3. PICK j \in 1..Len(t) : i - Len(s) < j /\ t[j] = <<"timerOn">>
    BY <2>2 DEF Timed, Restarted
  <2>4. Len(s) + j \in 1..Len(s \o t) /\ i < Len(s) + j /\ (s \o t)[Len(s) + j] = <<"timerOn">>
    BY <1>2, <2>3
  <2> QED BY <2>4
<1>5. s \o t # <<>>
  BY <1>2, <1>3 DEF Comes
<1> QED BY <1>2, <1>3, <1>4, <1>5 DEF Timed

\* So does what follows it, an acknowledgement or writes to the panel.
LEMMA TimedThenRest ==
  ASSUME NEW s \in Seq(Writes), Timed(s),
         NEW t \in Seq(Writes), t \in Seq(PanelWrites \cup {<<"ack">>})
  PROVE  Timed(s \o t)
<1>2. /\ s \o t \in Seq(Writes) /\ Len(s \o t) = Len(s) + Len(t)
      /\ Len(s) \in Nat /\ Len(t) \in Nat
      /\ \A i \in 1..Len(s) : (s \o t)[i] = s[i]
      /\ \A i \in 1..Len(t) : (s \o t)[Len(s) + i] = t[i] /\ t[i] \in PanelWrites \cup {<<"ack">>}
  OBVIOUS
<1>3. Comes(<<"timerOn">>, s \o t)
  <2>1. PICK k \in 1..Len(s) : s[k] = <<"timerOn">>
    BY DEF Timed, Comes
  <2>2. k \in DOMAIN (s \o t) /\ (s \o t)[k] = <<"timerOn">>
    BY <1>2, <2>1
  <2> QED BY <2>2 DEF Comes
<1>4. Restarted(s \o t)
  <2> SUFFICES ASSUME NEW i \in 1..Len(s \o t), (s \o t)[i] = <<"timerOff">>
               PROVE  \E j \in 1..Len(s \o t) : i < j /\ (s \o t)[j] = <<"timerOn">>
    BY DEF Restarted
  <2>1. i \in 1..Len(s)
    <3>1. CASE i \notin 1..Len(s)
      <4>1. i - Len(s) \in 1..Len(t) /\ Len(s) + (i - Len(s)) = i
        BY <1>2, <3>1
      <4>2. (s \o t)[i] \in PanelWrites \cup {<<"ack">>}
        BY <1>2, <4>1
      <4> QED BY <4>2, WritesDiffer
    <3> QED BY <3>1
  <2>2. PICK j \in 1..Len(s) : i < j /\ s[j] = <<"timerOn">>
    BY <1>2, <2>1 DEF Timed, Restarted
  <2>3. j \in 1..Len(s \o t) /\ (s \o t)[j] = <<"timerOn">>
    BY <1>2, <2>2
  <2> QED BY <2>2, <2>3
<1>5. s \o t # <<>>
  BY <1>2, <1>3 DEF Comes
<1> QED BY <1>2, <1>3, <1>4, <1>5 DEF Timed

\* Writes that end in an acknowledgement, and writes without one.
Answers(s) ==
  /\ s \in Seq(Writes) /\ s # <<>>
  /\ Comes(<<"ack">>, s)
  /\ \A i \in 1..Len(s) : s[i] = <<"ack">> => i = Len(s)

Silent(s) == s \in Seq(Writes) /\ ~Comes(<<"ack">>, s)

\* The acknowledgement is put at the end.
LEMMA AckAnswers ==
  ASSUME NEW s \in Seq(Writes \ {<<"ack">>})
  PROVE  Answers(s \o Ack)
<1>1. s \in Seq(Writes)
  BY SeqMonotonic
<1>2. ASSUME NEW i \in 1..Len(s) PROVE s[i] # <<"ack">>
  <2>1. s[i] \in Writes \ {<<"ack">>}
    BY ElementOfSeq
  <2> QED BY <2>1
<1> HIDE DEF Writes
<1>3. /\ s \o Ack \in Seq(Writes) /\ Len(s \o Ack) = Len(s) + 1 /\ Len(s) \in Nat
      /\ \A i \in 1..Len(s) : (s \o Ack)[i] = s[i]
      /\ (s \o Ack)[Len(s) + 1] = <<"ack">>
  <2>1. Ack \in Seq(Writes) /\ Len(Ack) = 1 /\ Ack[1] = <<"ack">>
    BY DEF Ack, Writes
  <2> QED BY <1>1, <2>1 DEF Ack
<1>4. \A i \in 1..Len(s \o Ack) : (s \o Ack)[i] = <<"ack">> => i = Len(s \o Ack)
  BY <1>2, <1>3
<1>5. Comes(<<"ack">>, s \o Ack)
  <2>1. Len(s) + 1 \in DOMAIN (s \o Ack)
    BY <1>3
  <2> QED BY <1>3, <2>1 DEF Comes
<1>6. s \o Ack # <<>>
  BY <1>3
<1> QED BY <1>3, <1>4, <1>5, <1>6 DEF Answers

LEMMA NoAckSilent ==
  ASSUME NEW s \in Seq(Writes \ {<<"ack">>})
  PROVE  Silent(s)
<1>1. s \in Seq(Writes)
  BY SeqMonotonic
<1>2. \A i \in DOMAIN s : s[i] # <<"ack">>
  OBVIOUS
<1> QED BY <1>1, <1>2 DEF Silent, Comes

\* Writes that leave the timer alone.
LEMMA PanelRestarted ==
  ASSUME NEW s \in Seq(PanelWrites \cup {<<"ack">>})
  PROVE  Restarted(s)
<1>1. \A i \in 1..Len(s) : s[i] \in PanelWrites \cup {<<"ack">>}
  OBVIOUS
<1> QED BY <1>1, WritesDiffer DEF Restarted

\* What one write takes from those to come.
LEMMA TailFacts ==
  ASSUME NEW s \in Seq(Writes), s # <<>>
  PROVE  /\ Tail(s) \in Seq(Writes)
         /\ \A w : Comes(w, s) <=> Head(s) = w \/ Comes(w, Tail(s))
         /\ Restarted(s) => /\ Restarted(Tail(s))
                            /\ Head(s) = <<"timerOff">> => Comes(<<"timerOn">>, Tail(s))
         /\ (\A i \in 1..Len(s) : s[i] = <<"ack">> => i = Len(s)) =>
              /\ \A i \in 1..Len(Tail(s)) : Tail(s)[i] = <<"ack">> => i = Len(Tail(s))
              /\ Head(s) = <<"ack">> => ~Comes(<<"ack">>, Tail(s))
<1>1. /\ Tail(s) \in Seq(Writes) /\ Len(Tail(s)) = Len(s) - 1
      /\ Len(s) \in Nat \ {0} /\ Len(Tail(s)) \in Nat
      /\ Head(s) = s[1]
      /\ \A i \in 1..Len(Tail(s)) : Tail(s)[i] = s[i + 1]
      /\ DOMAIN s = 1..Len(s) /\ DOMAIN Tail(s) = 1..Len(Tail(s))
  OBVIOUS
<1>2. \A i \in 2..Len(s) : i - 1 \in 1..Len(Tail(s)) /\ Tail(s)[i - 1] = s[i]
  <2> SUFFICES ASSUME NEW i \in 2..Len(s)
               PROVE  i - 1 \in 1..Len(Tail(s)) /\ Tail(s)[i - 1] = s[i]
    OBVIOUS
  <2>1. i - 1 \in 1..Len(Tail(s)) /\ (i - 1) + 1 = i
    BY <1>1
  <2> QED BY <1>1, <2>1
<1>3. \A w : Comes(w, s) <=> Head(s) = w \/ Comes(w, Tail(s))
  <2> SUFFICES ASSUME NEW w PROVE Comes(w, s) <=> Head(s) = w \/ Comes(w, Tail(s))
    OBVIOUS
  <2>1. ASSUME Comes(w, s), Head(s) # w PROVE Comes(w, Tail(s))
    <3>1. PICK i \in 1..Len(s) : s[i] = w
      BY <1>1, <2>1 DEF Comes
    <3>2. i \in 2..Len(s)
      BY <1>1, <2>1, <3>1
    <3> QED BY <1>1, <1>2, <3>1, <3>2 DEF Comes
  <2>2. ASSUME Head(s) = w PROVE Comes(w, s)
    BY <1>1, <2>2 DEF Comes
  <2>3. ASSUME Comes(w, Tail(s)) PROVE Comes(w, s)
    <3>1. PICK i \in 1..Len(Tail(s)) : Tail(s)[i] = w
      BY <1>1, <2>3 DEF Comes
    <3>2. i + 1 \in 1..Len(s) /\ s[i + 1] = w
      BY <1>1, <3>1
    <3> QED BY <1>1, <3>2 DEF Comes
  <2> QED BY <2>1, <2>2, <2>3
<1>4. ASSUME Restarted(s)
      PROVE  /\ Restarted(Tail(s))
             /\ Head(s) = <<"timerOff">> => Comes(<<"timerOn">>, Tail(s))
  <2>1. ASSUME NEW i \in 1..Len(s), s[i] = <<"timerOff">>
        PROVE  \E j \in 1..Len(Tail(s)) : i - 1 < j /\ Tail(s)[j] = <<"timerOn">>
    <3>1. PICK j \in 1..Len(s) : i < j /\ s[j] = <<"timerOn">>
      BY <1>4, <2>1 DEF Restarted
    <3>2. j \in 2..Len(s) /\ i - 1 < j - 1
      BY <1>1, <3>1
    <3> QED BY <1>2, <3>1, <3>2
  <2>2. Restarted(Tail(s))
    <3> SUFFICES ASSUME NEW i \in 1..Len(Tail(s)), Tail(s)[i] = <<"timerOff">>
                 PROVE  \E j \in 1..Len(Tail(s)) : i < j /\ Tail(s)[j] = <<"timerOn">>
      BY DEF Restarted
    <3>1. i + 1 \in 1..Len(s) /\ s[i + 1] = <<"timerOff">> /\ (i + 1) - 1 = i
      BY <1>1
    <3> QED BY <2>1, <3>1
  <2>3. ASSUME Head(s) = <<"timerOff">> PROVE Comes(<<"timerOn">>, Tail(s))
    <3>1. 1 \in 1..Len(s) /\ s[1] = <<"timerOff">>
      BY <1>1, <2>3
    <3>2. \E j \in 1..Len(Tail(s)) : Tail(s)[j] = <<"timerOn">>
      BY <2>1, <3>1
    <3> QED BY <1>1, <3>2 DEF Comes
  <2> QED BY <2>2, <2>3
<1>5. ASSUME \A i \in 1..Len(s) : s[i] = <<"ack">> => i = Len(s)
      PROVE  /\ \A i \in 1..Len(Tail(s)) : Tail(s)[i] = <<"ack">> => i = Len(Tail(s))
             /\ Head(s) = <<"ack">> => ~Comes(<<"ack">>, Tail(s))
  <2>1. ASSUME NEW i \in 1..Len(Tail(s)), Tail(s)[i] = <<"ack">> PROVE i = Len(Tail(s))
    <3>1. i + 1 \in 1..Len(s) /\ s[i + 1] = <<"ack">>
      BY <1>1, <2>1
    <3>2. i + 1 = Len(s)
      BY <1>5, <3>1
    <3> QED BY <3>2
  <2>2. ASSUME Head(s) = <<"ack">> PROVE ~Comes(<<"ack">>, Tail(s))
    <3>1. 1 \in 1..Len(s) /\ s[1] = <<"ack">>
      BY <1>1, <2>2
    <3>2. 1 = Len(s)
      BY <1>5, <3>1
    <3>3. Len(Tail(s)) = 0
      BY <3>2
    <3>4. Tail(s) = <<>>
      <4>1. \A t \in Seq(Writes) : t # <<>> => Len(t) \in Nat \ {0}
        BY EmptySeq
      <4> QED BY <1>1, <3>3, <4>1
    <3> QED BY <3>4 DEF Comes
  <2> QED BY <2>1, <2>2
<1> QED BY <1>1, <1>3, <1>4, <1>5

-----------------------------------------------------------------------------
(* What the handlers have to write                                         *)

\* Timed writes without an acknowledgement, and how they are put together.
Plays(s) == Timed(s) /\ s \in Seq(Writes \ {<<"ack">>})

LEMMA PlaysAfterPanel ==
  ASSUME NEW s \in Seq(PanelWrites), NEW t \in Seq(Writes \ {<<"ack">>}), Plays(t)
  PROVE  Plays(s \o t)
<1>1. PanelWrites \subseteq Writes \ {<<"ack">>}
  BY WritesDiffer DEF Writes
<1>2. s \in Seq(Writes \ {<<"ack">>}) /\ s \in Seq(Writes) /\ t \in Seq(Writes)
  BY <1>1, SeqMonotonic
<1>3. s \o t \in Seq(Writes \ {<<"ack">>})
  BY <1>2
<1> QED BY <1>2, <1>3, PanelThenTimed DEF Plays

LEMMA PlaysThenPanel ==
  ASSUME NEW s \in Seq(Writes \ {<<"ack">>}), Plays(s), NEW t \in Seq(PanelWrites)
  PROVE  Plays(s \o t)
<1>1. PanelWrites \subseteq Writes \ {<<"ack">>} /\ PanelWrites \subseteq PanelWrites \cup {<<"ack">>}
  BY WritesDiffer DEF Writes
<1>2. /\ t \in Seq(Writes \ {<<"ack">>}) /\ t \in Seq(PanelWrites \cup {<<"ack">>})
      /\ s \in Seq(Writes) /\ t \in Seq(Writes)
  BY <1>1, SeqMonotonic
<1>3. s \o t \in Seq(Writes \ {<<"ack">>})
  BY <1>2
<1> QED BY <1>2, <1>3, TimedThenRest DEF Plays

LEMMA PlaysThenAck ==
  ASSUME NEW s \in Seq(Writes \ {<<"ack">>}), Plays(s)
  PROVE  Timed(s \o Ack) /\ Answers(s \o Ack)
<1>1. Ack \in Seq(Writes) /\ Ack \in Seq(PanelWrites \cup {<<"ack">>}) /\ s \in Seq(Writes)
  BY SeqMonotonic DEF Ack, Writes
<1> QED BY <1>1, TimedThenRest, AckAnswers DEF Plays

LEMMA SoundPlays ==
  ASSUME NEW locks \in BOOLEAN
  PROVE  Sound(locks) \in Seq(Writes \ {<<"ack">>}) /\ Plays(Sound(locks))
BY SoundIsTimed DEF Plays

\* The melody that is played after a handler is one the handler times, or the one
\* that was played before, its timer untouched.
MelodyStep ==
  \/ notes' = 0
  \/ Timed(todo')
  \/ Restarted(todo') /\ UNCHANGED <<notes, timer, expired>>

Uart ==
  \/ UartStart \/ UartPass \/ UartFail \/ UartComplete \/ UartDefect
  \/ UartPause \/ UartResume \/ UartExit \/ UartRestore \/ UartIgnored

NoteOrButton ==
  \/ NextNote \/ LastNote \/ StaleNote
  \/ BtnStart \/ BtnCheck \/ BtnPause \/ BtnReset

\* Every command is acknowledged, whatever its handler does.
LEMMA CommandsAnswer ==
  ASSUME Uart
  PROVE  Answers(todo') /\ MelodyStep /\ says' = "none"
<1> DEFINE W == Writes \ {<<"ack">>}
<1>1. /\ Panel(Working) \in Seq(PanelWrites) /\ Panel({"pause"}) \in Seq(PanelWrites)
      /\ ResetPanel \in Seq(PanelWrites) /\ Released \in Seq(PanelWrites)
  BY Blocks
<1>2. \A A \in Seq(PanelWrites) : \A l \in BOOLEAN :
        Timed((A \o Sound(l)) \o Ack) /\ Answers((A \o Sound(l)) \o Ack)
  <2> SUFFICES ASSUME NEW A \in Seq(PanelWrites), NEW l \in BOOLEAN
               PROVE  Timed((A \o Sound(l)) \o Ack) /\ Answers((A \o Sound(l)) \o Ack)
    OBVIOUS
  <2>1. Plays(A \o Sound(l)) /\ A \o Sound(l) \in Seq(W)
    BY SoundPlays, PlaysAfterPanel DEF Plays
  <2> QED BY <2>1, PlaysThenAck
<1>3. \A l \in BOOLEAN : Timed(Sound(l) \o Ack) /\ Answers(Sound(l) \o Ack)
  BY SoundPlays, PlaysThenAck
<1>4. \A s \in Seq(PanelWrites \cup {<<"timerOff">>}) : s \in Seq(W)
  <2>1. PanelWrites \cup {<<"timerOff">>} \subseteq W
    BY WritesDiffer DEF Writes
  <2> QED BY <2>1, SeqMonotonic
<1>5. CASE UartStart
  BY <1>1, <1>2, <1>5 DEF UartStart, Command, MelodyStep
<1>6. CASE UartPass \/ UartFail
  BY <1>3, <1>6 DEF UartPass, UartFail, Command, MelodyStep
<1>7. CASE UartComplete \/ UartDefect
  BY <1>1, <1>2, <1>7 DEF UartComplete, UartDefect, Command, MelodyStep
<1>8. CASE UartPause \/ UartResume
  BY <1>1, <1>2, <1>8 DEF UartPause, UartResume, Command, MelodyStep
<1>9. CASE UartExit
  <2>1. ResetPanel \o TimerOff \in Seq(PanelWrites \cup {<<"timerOff">>})
    <3>1. /\ ResetPanel \in Seq(PanelWrites \cup {<<"timerOff">>})
          /\ TimerOff \in Seq(PanelWrites \cup {<<"timerOff">>})
      BY <1>1, SeqMonotonic DEF TimerOff
    <3> QED BY <3>1, ConcatProperties
  <2> QED BY <1>4, <1>9, <2>1, AckAnswers DEF UartExit, Command, Silence, MelodyStep
<1>10. CASE UartRestore
  <2>1. (TimerOff \o Released) \o Panel(Working) \in Seq(PanelWrites \cup {<<"timerOff">>})
    <3>1. /\ Released \in Seq(PanelWrites \cup {<<"timerOff">>})
          /\ Panel(Working) \in Seq(PanelWrites \cup {<<"timerOff">>})
          /\ TimerOff \in Seq(PanelWrites \cup {<<"timerOff">>})
      BY <1>1, SeqMonotonic DEF TimerOff
    <3> QED BY <3>1, ConcatProperties
  <2> QED BY <1>4, <1>10, <2>1, AckAnswers DEF UartRestore, Command, Silence, MelodyStep
<1>11. CASE UartIgnored
  <2>1. todo' = Ack /\ UNCHANGED <<notes, timer, expired>> /\ says' = "none"
    BY <1>11 DEF UartIgnored, Command, melody, clock
  <2>2. Ack \in Seq(PanelWrites \cup {<<"ack">>}) /\ Ack \in Seq(Writes) /\ Ack # <<>>
        /\ Len(Ack) = 1 /\ Ack[1] = <<"ack">>
    BY DEF Ack, Writes
  <2>3. Answers(Ack)
    BY <2>2 DEF Answers, Comes
  <2>4. Restarted(Ack)
    BY <2>2, PanelRestarted
  <2> QED BY <2>1, <2>3, <2>4 DEF MelodyStep
<1> QED BY <1>5, <1>6, <1>7, <1>8, <1>9, <1>10, <1>11 DEF Uart

\* Notes and buttons acknowledge nothing; a handler that says something has writes
\* to come.
LEMMA OthersAreSilent ==
  ASSUME NoteOrButton
  PROVE  /\ Silent(todo') /\ MelodyStep
         /\ says' # "none" => todo' # <<>>
<1> DEFINE W == Writes \ {<<"ack">>}
<1>1. /\ \A on : Panel(on) \in Seq(PanelWrites) /\ Panel(on) # <<>>
      /\ ResetPanel \in Seq(PanelWrites)
      /\ Released \in Seq(PanelWrites) /\ Released # <<>>
      /\ Enable("pause") \in Seq(PanelWrites)
  BY Blocks DEF Buttons
<1>2. PanelWrites \subseteq W /\ PanelWrites \subseteq PanelWrites \cup {<<"ack">>}
  BY WritesDiffer DEF Writes
<1>3. \A s \in Seq(PanelWrites) : Silent(s) /\ Restarted(s)
  <2> SUFFICES ASSUME NEW s \in Seq(PanelWrites) PROVE Silent(s) /\ Restarted(s)
    OBVIOUS
  <2>1. s \in Seq(W) /\ s \in Seq(PanelWrites \cup {<<"ack">>})
    BY <1>2, SeqMonotonic
  <2> QED BY <2>1, NoAckSilent, PanelRestarted
<1>4. \A s \in Seq(W) : Plays(s) => Silent(s) /\ Timed(s) /\ s # <<>>
  BY NoAckSilent DEF Plays, Timed
<1>5. CASE NextNote
  <2>1. Plays(TimerOn) /\ TimerOn \in Seq(W)
    <3>1. <<"timerOn">> \in Writes \ {<<"ack">>}
      BY WritesDiffer DEF Writes
    <3>2. TimerOn \in Seq(W) /\ TimerOn \in Seq(Writes) /\ TimerOn # <<>>
      BY <3>1 DEF TimerOn
    <3>3. Restarted(TimerOn) /\ Comes(<<"timerOn">>, TimerOn)
      BY WritesDiffer DEF TimerOn, Restarted, Comes
    <3> QED BY <3>2, <3>3 DEF Plays, Timed
  <2> QED BY <1>4, <1>5, <2>1 DEF NextNote, MelodyStep
<1>6. CASE LastNote
  <2>1. TimerOff \in Seq(W) /\ TimerOff # <<>>
    BY WritesDiffer DEF TimerOff, Writes
  <2>2. /\ (IF lock THEN Panel(Fitting(step, paused)) ELSE <<>>) \in Seq(PanelWrites)
        /\ (IF lock THEN Panel(Fitting(step, paused)) ELSE <<>>) \in Seq(W)
    BY <1>1, <1>2, SeqMonotonic
  <2>3. \A s \in Seq(W) : TimerOff \o s \in Seq(W)
    BY <2>1, ConcatProperties
  <2>4. todo' \in Seq(W) /\ notes' = 0 /\ says' = "none"
    BY <1>6, <2>2, <2>3 DEF LastNote, NoteEnds, Silence
  <2> QED BY <2>4, NoAckSilent DEF MelodyStep
<1>7. CASE StaleNote
  <2>1. todo' = <<>> /\ notes' = 0 /\ says' = "none"
    BY <1>7 DEF StaleNote, NoteEnds, melody
  <2>2. <<>> \in Seq(PanelWrites)
    OBVIOUS
  <2> QED BY <1>3, <2>1, <2>2 DEF MelodyStep
<1>8. CASE BtnStart
  <2>1. Released \o Panel(Fitting(step, paused)) \in Seq(PanelWrites)
        /\ Released \o Panel(Fitting(step, paused)) # <<>>
    BY <1>1, ConcatProperties
  <2>2. todo' = Released \o Panel(Fitting(step, paused)) /\ UNCHANGED <<notes, timer, expired>>
    BY <1>8 DEF BtnStart, Pressed, melody, clock
  <2> QED BY <1>3, <2>1, <2>2 DEF MelodyStep
<1>9. CASE BtnCheck
  <2>1. Released \o Panel(Fitting(step, paused)) \in Seq(PanelWrites)
        /\ Released \o Panel(Fitting(step, paused)) # <<>>
    BY <1>1, ConcatProperties
  <2>2. /\ todo' = Released \/ todo' = Released \o Panel(Fitting(step, paused))
        /\ UNCHANGED <<notes, timer, expired>>
    BY <1>9 DEF BtnCheck, Pressed, melody, clock
  <2> QED BY <1>1, <1>3, <2>1, <2>2 DEF MelodyStep
<1>10. CASE BtnPause
  <2>1. CASE todo' = Released \o Enable("pause") /\ UNCHANGED <<notes, timer, expired>>
    <3>1. Released \o Enable("pause") \in Seq(PanelWrites) /\ Released \o Enable("pause") # <<>>
      BY <1>1, ConcatProperties
    <3> QED BY <1>3, <2>1, <3>1 DEF MelodyStep
  <2>2. ASSUME NEW on, todo' = Panel(on) \o Sound(FALSE) \o Released \o Enable("pause")
        PROVE  Silent(todo') /\ MelodyStep /\ todo' # <<>>
    <3>1. Plays(Panel(on) \o Sound(FALSE)) /\ Panel(on) \o Sound(FALSE) \in Seq(W)
      BY <1>1, SoundPlays, PlaysAfterPanel DEF Plays
    <3>2. /\ Plays((Panel(on) \o Sound(FALSE)) \o Released)
          /\ (Panel(on) \o Sound(FALSE)) \o Released \in Seq(W)
      BY <1>1, <3>1, PlaysThenPanel DEF Plays
    <3>3. Plays(todo') /\ todo' \in Seq(W)
      BY <1>1, <2>2, <3>2, PlaysThenPanel DEF Plays
    <3> QED BY <1>4, <3>3 DEF MelodyStep
  <2>3. \/ todo' = Released \o Enable("pause") /\ UNCHANGED <<notes, timer, expired>>
        \/ todo' = Panel({"pause"}) \o Sound(FALSE) \o Released \o Enable("pause")
        \/ todo' = Panel(Working) \o Sound(FALSE) \o Released \o Enable("pause")
    BY <1>10 DEF BtnPause, Pressed, melody, clock
  <2> QED BY <2>1, <2>2, <2>3
<1>11. CASE BtnReset
  <2>1. CASE \E on : todo' = Released \o Panel(on) /\ UNCHANGED <<notes, timer, expired>>
    <3>1. \A on : Released \o Panel(on) \in Seq(PanelWrites) /\ Released \o Panel(on) # <<>>
      BY <1>1, ConcatProperties
    <3> QED BY <1>3, <2>1, <3>1 DEF MelodyStep
  <2>2. CASE todo' = Panel({}) \o ResetPanel \o Sound(TRUE)
    <3>1. Panel({}) \o ResetPanel \in Seq(PanelWrites)
      BY <1>1, ConcatProperties
    <3>2. Plays(todo') /\ todo' \in Seq(W)
      BY <2>2, <3>1, SoundPlays, PlaysAfterPanel DEF Plays
    <3> QED BY <1>4, <3>2 DEF MelodyStep
  <2>3. \/ \E on : todo' = Released \o Panel(on) /\ UNCHANGED <<notes, timer, expired>>
        \/ todo' = Panel({}) \o ResetPanel \o Sound(TRUE)
    BY <1>11 DEF BtnReset, Pressed, melody, clock
  <2> QED BY <2>1, <2>2, <2>3
<1> QED BY <1>5, <1>6, <1>7, <1>8, <1>9, <1>10, <1>11 DEF NoteOrButton

-----------------------------------------------------------------------------
(* The invariant                                                           *)

LEMMA InitInv ==
  ASSUME Init
  PROVE  FirmwareInv
<1> USE ProtocolAssumption
<1>1. TypeOK
  <2>1. notes \in {0} \cup UNION {1..Notes[m] : m \in Melodies}
    BY DEF Init
  <2>2. step \in 0..LastStep /\ leds \subseteq 1..LastStep /\ enabled \subseteq Buttons
    BY DEF Init, Buttons
  <2> QED BY <2>1, <2>2 DEF Init, TypeOK
<1>2. todo \in Seq(Writes)
  BY DEF Init
<1>3. NoLedLeftBehind /\ NoteHasTimer /\ MelodyRuns /\ SaidIsHeard
  BY DEF Init, NoLedLeftBehind, NoteHasTimer, MelodyRuns, SaidIsHeard
<1>4. AckComesLast
  BY DEF Init, AckComesLast
<1> QED BY <1>1, <1>2, <1>3, <1>4 DEF FirmwareInv

\* A melody has at least one note.
LEMMA PlayFacts ==
  ASSUME NEW m \in Melodies, NEW l \in BOOLEAN, Play(m, l)
  PROVE  /\ notes' \in {0} \cup UNION {1..Notes[k] : k \in Melodies}
         /\ lock' \in BOOLEAN
<1>1. Notes[m] \in Nat \ {0}
  BY FirmwareAssumption
<1>2. notes' \in 1..Notes[m]
  BY <1>1 DEF Play
<1> QED BY <1>2 DEF Play

\* Commands: the step, the LEDs, and what else the main loop changes.
LEMMA UartType ==
  ASSUME TypeOK, Uart
  PROVE  TypeOK'
<1> USE ProtocolAssumption DEF TypeOK
<1>1. /\ pc' = "note" /\ says' = "none"
      /\ UNCHANGED <<panel, mailbox, clock>>
  BY DEF Uart, UartStart, UartPass, UartFail, UartComplete, UartDefect, UartPause,
         UartResume, UartExit, UartRestore, UartIgnored, Command
<1>2. notes' \in {0} \cup UNION {1..Notes[k] : k \in Melodies} /\ lock' \in BOOLEAN
  <2>1. ASSUME NEW m \in Melodies, NEW l \in BOOLEAN, Play(m, l)
        PROVE  notes' \in {0} \cup UNION {1..Notes[k] : k \in Melodies} /\ lock' \in BOOLEAN
    BY <2>1, PlayFacts
  <2>2. CASE Silence \/ UNCHANGED melody
    BY <2>2 DEF Silence, melody
  <2>3. \/ \E m \in Melodies, l \in BOOLEAN : Play(m, l)
        \/ Silence \/ UNCHANGED melody
    BY DEF Uart, UartStart, UartPass, UartFail, UartComplete, UartDefect, UartPause,
           UartResume, UartExit, UartRestore, UartIgnored, Melodies
  <2> QED BY <2>1, <2>2, <2>3
<1>3. /\ step' \in 0..LastStep /\ paused' \in BOOLEAN /\ asked' \in BOOLEAN
      /\ leds' \subseteq 1..LastStep /\ fail' \in BOOLEAN
  <2>1. ASSUME NEW s \in 0..LastStep, NEW p \in BOOLEAN, Work(s, p, FALSE),
               NEW l, l \subseteq 1..LastStep, NEW f \in BOOLEAN, Lights(l, f)
        PROVE  /\ step' \in 0..LastStep /\ paused' \in BOOLEAN /\ asked' \in BOOLEAN
               /\ leds' \subseteq 1..LastStep /\ fail' \in BOOLEAN
    BY <2>1 DEF Work, Lights
  <2>2. \A s \in 0..LastStep : Led(s) \subseteq 1..LastStep
    BY DEF Led
  <2>3. (step + 1) % (LastStep + 1) \in 0..LastStep /\ 0 \in 0..LastStep /\ 1 \in 0..LastStep
    OBVIOUS
  <2>4. CASE UartStart
    <3>1. leds \cup Led(1) \subseteq 1..LastStep
      BY <2>2, <2>3
    <3> QED BY <2>1, <2>3, <2>4, <3>1 DEF UartStart
  <2>5. CASE UartPass
    <3>1. (leds \ {step}) \cup Led((step + 1) % (LastStep + 1)) \subseteq 1..LastStep
      BY <2>2, <2>3
    <3>2. step' = (step + 1) % (LastStep + 1)
      BY <2>5 DEF UartPass, Work
    <3> QED BY <2>1, <2>3, <2>5, <3>1, <3>2 DEF UartPass
  <2>6. CASE UartFail
    BY <2>1, <2>6 DEF UartFail
  <2>7. CASE UartComplete \/ UartDefect \/ UartExit
    <3>1. {} \subseteq 1..LastStep
      OBVIOUS
    <3> QED BY <2>1, <2>3, <2>7, <3>1 DEF UartComplete, UartDefect, UartExit
  <2>8. CASE UartPause
    <3>1. leds \ {step} \subseteq 1..LastStep
      OBVIOUS
    <3> QED BY <2>1, <2>8, <3>1 DEF UartPause
  <2>9. CASE UartResume
    <3>1. leds \cup Led(step) \subseteq 1..LastStep
      BY <2>2
    <3> QED BY <2>1, <2>9, <3>1 DEF UartResume
  <2>10. CASE UartRestore
    <3>1. PICK target \in 1..LastStep : Work(target, FALSE, FALSE) /\ Lights(Led(target), FALSE)
      BY <2>10 DEF UartRestore
    <3>2. target \in 0..LastStep
      OBVIOUS
    <3> QED BY <2>1, <2>2, <3>1, <3>2
  <2>11. CASE UartIgnored
    BY <2>11 DEF UartIgnored, work, lights
  <2> QED BY <2>4, <2>5, <2>6, <2>7, <2>8, <2>9, <2>10, <2>11 DEF Uart
<1> QED BY <1>1, <1>2, <1>3 DEF panel, mailbox, clock

\* Notes and buttons.
LEMMA NoteOrButtonType ==
  ASSUME TypeOK, NoteOrButton
  PROVE  TypeOK'
<1> USE ProtocolAssumption DEF TypeOK
<1> DEFINE Lit == /\ step' \in 0..LastStep /\ paused' \in BOOLEAN /\ asked' \in BOOLEAN
                  /\ leds' \subseteq 1..LastStep /\ fail' \in BOOLEAN
           Tune == /\ notes' \in {0} \cup UNION {1..Notes[k] : k \in Melodies}
                   /\ lock' \in BOOLEAN
<1>1. ASSUME NEW m \in Melodies, NEW l \in BOOLEAN, Play(m, l) PROVE Tune
  BY <1>1, PlayFacts
<1>2. ASSUME NEW s \in 0..LastStep, NEW p \in BOOLEAN, NEW a \in BOOLEAN, Work(s, p, a),
             NEW l, l \subseteq 1..LastStep, NEW f \in BOOLEAN, Lights(l, f)
      PROVE  Lit
  BY <1>2 DEF Work, Lights
<1>3. CASE NextNote \/ LastNote \/ StaleNote
  <2>1. UNCHANGED <<work, lights, panel, mailbox, timer>> /\ expired' \in BOOLEAN
        /\ pc' = "button" /\ says' = "none"
    BY <1>3 DEF NextNote, LastNote, StaleNote, NoteEnds
  <2>2. Tune
    <3>1. CASE NextNote
      <4>1. PICK k \in Melodies : notes \in 1..Notes[k]
        BY <3>1 DEF NextNote
      <4>2. Notes[k] \in Nat
        BY FirmwareAssumption
      <4>3. notes - 1 \in 1..Notes[k]
        BY <3>1, <4>1, <4>2 DEF NextNote
      <4> QED BY <3>1, <4>3 DEF NextNote
    <3>2. CASE LastNote \/ StaleNote
      BY <3>2 DEF LastNote, StaleNote, Silence, melody
    <3> QED BY <1>3, <3>1, <3>2
  <2> QED BY <2>1, <2>2 DEF work, lights, panel, mailbox
<1>4. CASE BtnStart \/ BtnCheck \/ BtnPause \/ BtnReset
  <2>1. pc' = "command" /\ UNCHANGED <<panel, mailbox, clock>>
    BY <1>4 DEF BtnStart, BtnCheck, BtnPause, BtnReset, Pressed
  <2>2. says' \in Messages \cup {"none"}
    BY <1>4 DEF BtnStart, BtnCheck, BtnPause, BtnReset, Messages
  <2>3. Tune
    <3>1. CASE UNCHANGED melody
      BY <3>1 DEF melody
    <3>2. UNCHANGED melody \/ Play("pause", FALSE) \/ Play("resume", FALSE) \/ Play("defect", TRUE)
      BY <1>4 DEF BtnStart, BtnCheck, BtnPause, BtnReset
    <3> QED BY <1>1, <3>1, <3>2 DEF Melodies
  <2>4. Lit
    <3>1. CASE UNCHANGED <<work, lights>>
      BY <3>1 DEF work, lights
    <3>2. CASE Work(step, paused, TRUE) /\ UNCHANGED lights
      BY <3>2 DEF Work, lights
    <3>3. CASE Work(step, TRUE, asked) /\ Lights(leds \ {step}, fail)
      <4>1. leds \ {step} \subseteq 1..LastStep
        OBVIOUS
      <4> QED BY <1>2, <3>3, <4>1
    <3>4. CASE step # 0 /\ Work(step, FALSE, asked) /\ Lights(leds \cup Led(step), fail)
      <4>1. leds \cup Led(step) \subseteq 1..LastStep
        BY <3>4 DEF Led
      <4> QED BY <1>2, <3>4, <4>1
    <3>5. CASE Work(0, FALSE, FALSE) /\ Lights({}, FALSE)
      <4>1. {} \subseteq 1..LastStep /\ 0 \in 0..LastStep
        OBVIOUS
      <4> QED BY <1>2, <3>5, <4>1
    <3>6. \/ UNCHANGED <<work, lights>>
          \/ Work(step, paused, TRUE) /\ UNCHANGED lights
          \/ Work(step, TRUE, asked) /\ Lights(leds \ {step}, fail)
          \/ step # 0 /\ Work(step, FALSE, asked) /\ Lights(leds \cup Led(step), fail)
          \/ Work(0, FALSE, FALSE) /\ Lights({}, FALSE)
      BY <1>4 DEF BtnStart, BtnCheck, BtnPause, BtnReset
    <3> QED BY <3>1, <3>2, <3>3, <3>4, <3>5, <3>6
  <2> QED BY <2>1, <2>2, <2>3, <2>4 DEF panel, mailbox, clock
<1> QED BY <1>3, <1>4 DEF NoteOrButton

\* The writes of a handler, the loop between two handlers, and the interrupts.
LEMMA OtherType ==
  ASSUME TypeOK, todo \in Seq(Writes), Write \/ Idle \/ Expire \/ Input
  PROVE  TypeOK'
<1> USE DEF TypeOK
<1>1. CASE Write
  <2>1. /\ UNCHANGED <<work, lights, melody, pc, byte>> /\ says' = "none"
        /\ btn' \in Buttons \cup {"released"}
        /\ dataIn' \in BOOLEAN /\ timer' \in BOOLEAN /\ expired' \in BOOLEAN
    BY <1>1 DEF Write
  <2>2. enabled' \subseteq Buttons
    <3> DEFINE w == Head(todo)
    <3>1. w \in Writes
      BY <1>1 DEF Write
    <3>2. w[1] = "enable" => w[2] \in Buttons
      BY <3>1 DEF Writes, PanelWrites
    <3>3. \/ w[1] = "enable" /\ enabled' = enabled \cup {w[2]}
          \/ enabled' = enabled \ {w[2]}
          \/ enabled' = enabled
      BY <1>1 DEF Write
    <3> QED BY <3>2, <3>3
  <2> QED BY <2>1, <2>2 DEF work, lights, melody
<1>2. CASE Idle
  BY <1>2 DEF Idle, work, lights, melody, panel, mailbox, clock
<1>3. CASE Expire
  BY <1>3 DEF Expire, work, lights, melody, panel, mailbox
<1>4. ASSUME NEW b \in Buttons, Press(b) PROVE TypeOK'
  BY <1>4 DEF Press, work, lights, melody, mailbox, clock
<1>5. ASSUME NEW c \in Commands, Receive(c) PROVE TypeOK'
  BY <1>5 DEF Receive, work, lights, melody, panel, clock
<1> QED BY <1>1, <1>2, <1>3, <1>4, <1>5 DEF Input

\* The step after a PASS.
LEMMA StepAfterPass ==
  ASSUME TypeOK
  PROVE  (step + 1) % (LastStep + 1) = IF step = LastStep THEN 0 ELSE step + 1
<1>1. LastStep \in 1..9 /\ step \in 0..LastStep
  BY ProtocolAssumption DEF TypeOK
<1>2. CASE LastStep = 1 \/ LastStep = 2 \/ LastStep = 3
  BY <1>1, <1>2
<1>3. CASE LastStep = 4 \/ LastStep = 5 \/ LastStep = 6
  BY <1>1, <1>3
<1>4. CASE LastStep = 7 \/ LastStep = 8 \/ LastStep = 9
  BY <1>1, <1>4
<1> QED BY <1>1, <1>2, <1>3, <1>4

\* No handler leaves a LED below the step it leads to.
LEMMA LedStep ==
  ASSUME TypeOK, NoLedLeftBehind, Next
  PROVE  NoLedLeftBehind'
<1> USE DEF NoLedLeftBehind
<1>1. step \in 0..LastStep /\ LastStep \in 1..9 /\ leds \subseteq 1..LastStep
  BY ProtocolAssumption DEF TypeOK
<1>2. CASE UNCHANGED <<work, lights>>
  BY <1>2 DEF work, lights
<1>3. CASE step' = step /\ (leds' \subseteq leds \/ (step # 0 /\ leds' \subseteq leds \cup {step}))
  <2> SUFFICES ASSUME NEW led \in leds' PROVE step' # 0 /\ step' <= led
    OBVIOUS
  <2>1. led \in leds \/ (led = step /\ step # 0)
    BY <1>3
  <2>2. step' = step
    BY <1>3
  <2>3. CASE led \in leds
    BY <2>2, <2>3
  <2>4. CASE led = step /\ step # 0
    BY <1>1, <2>2, <2>4
  <2> QED BY <2>1, <2>3, <2>4
<1>4. CASE leds' = {}
  BY <1>4
<1>5. CASE UartStart
  <2>1. step' = 1 /\ leds' \subseteq 1..LastStep
    BY <1>1, <1>5 DEF UartStart, Work, Lights, Led
  <2> QED BY <1>1, <2>1
<1>6. CASE UartPass
  <2>1. step' = IF step = LastStep THEN 0 ELSE step + 1
    BY <1>6, StepAfterPass DEF UartPass, Work
  <2>2. leds' = (leds \ {step}) \cup ({step'} \ {0}) /\ step # 0
    BY <1>6 DEF UartPass, Work, Lights, Led
  <2>3. \A led \in leds \ {step} : step + 1 <= led /\ led <= LastStep
    BY <1>1
  <2> QED BY <1>1, <2>1, <2>2, <2>3
<1>7. CASE UartRestore
  BY <1>7 DEF UartRestore, Work, Lights, Led
<1>8. \/ UNCHANGED <<work, lights>>
      \/ step' = step /\ (leds' \subseteq leds \/ (step # 0 /\ leds' \subseteq leds \cup {step}))
      \/ leds' = {}
      \/ UartStart \/ UartPass \/ UartRestore
  <2>1. CASE UartFail \/ UartPause \/ UartResume
    BY <2>1 DEF UartFail, UartPause, UartResume, Work, Lights, Led
  <2>2. CASE UartComplete \/ UartDefect \/ UartExit \/ UartIgnored
    BY <2>2 DEF UartComplete, UartDefect, UartExit, UartIgnored, Lights
  <2>3. CASE NextNote \/ LastNote \/ StaleNote \/ BtnStart
    BY <2>3 DEF NextNote, LastNote, StaleNote, NoteEnds, BtnStart
  <2>4. CASE BtnCheck
    BY <2>4 DEF BtnCheck, Work, work, lights
  <2>5. CASE BtnPause \/ BtnReset
    BY <2>5 DEF BtnPause, BtnReset, Work, Lights, Led
  <2>6. CASE Idle \/ Write \/ Expire \/ Input
    BY <2>6 DEF Idle, Write, Expire, Input, Press, Receive
  <2> QED BY <2>1, <2>2, <2>3, <2>4, <2>5, <2>6 DEF Next, Main
<1> QED BY <1>2, <1>3, <1>4, <1>5, <1>6, <1>7, <1>8

\* The timing of the melody, the acknowledgement and what is said, over a handler.
LEMMA HandlerStep ==
  ASSUME FirmwareInv, Uart \/ NoteOrButton
  PROVE  todo' \in Seq(Writes) /\ NoteHasTimer' /\ MelodyRuns' /\ AckComesLast' /\ SaidIsHeard'
<1>1. todo = <<>>
  BY DEF Uart, UartStart, UartPass, UartFail, UartComplete, UartDefect, UartPause, UartResume,
         UartExit, UartRestore, UartIgnored, Command, NoteOrButton, NextNote, LastNote,
         StaleNote, NoteEnds, BtnStart, BtnCheck, BtnPause, BtnReset, Pressed
<1>2. MelodyStep
  BY CommandsAnswer, OthersAreSilent
<1>3. NoteHasTimer' /\ MelodyRuns'
  <2>1. notes > 0 => timer \/ expired
    <3>1. ~Comes(<<"timerOn">>, todo)
      BY <1>1 DEF Comes
    <3> QED BY <3>1 DEF FirmwareInv, NoteHasTimer, Comes
  <2>2. CASE notes' = 0
    BY <2>2 DEF NoteHasTimer, MelodyRuns
  <2>3. CASE Timed(todo')
    BY <2>3 DEF Timed, Comes, NoteHasTimer, MelodyRuns
  <2>4. CASE Restarted(todo') /\ UNCHANGED <<notes, timer, expired>>
    BY <2>1, <2>4 DEF NoteHasTimer, MelodyRuns
  <2> QED BY <1>2, <2>2, <2>3, <2>4 DEF MelodyStep
<1>4. CASE Uart
  BY <1>3, <1>4, CommandsAnswer DEF Answers, AckComesLast, SaidIsHeard
<1>5. CASE NoteOrButton
  <2>1. Silent(todo') /\ (says' # "none" => todo' # <<>>)
    BY <1>5, OthersAreSilent
  <2>2. \A i \in 1..Len(todo') : todo'[i] # <<"ack">>
    BY <2>1 DEF Silent, Comes
  <2> QED BY <1>3, <2>1, <2>2 DEF Silent, AckComesLast, SaidIsHeard
<1> QED BY <1>4, <1>5

\* The same over a write of a handler, the loop, and the interrupts.
LEMMA OtherStep ==
  ASSUME FirmwareInv, Write \/ Idle \/ Expire \/ Input
  PROVE  todo' \in Seq(Writes) /\ NoteHasTimer' /\ MelodyRuns' /\ AckComesLast' /\ SaidIsHeard'
<1> USE DEF FirmwareInv
<1>1. CASE Write
  <2> DEFINE w == Head(todo)
  <2>1. /\ todo # <<>> /\ todo' = Tail(todo) /\ notes' = notes /\ says' = "none"
        /\ timer' = (w[1] = "timerOn" \/ (timer /\ w[1] # "timerOff"))
        /\ expired' = (expired /\ w[1] # "timerOn")
    BY <1>1 DEF Write, melody
  <2>2. todo' \in Seq(Writes)
    BY <2>1, TailFacts
  <2>3. MelodyRuns'
    BY <2>1, TailFacts DEF MelodyRuns
  <2>4. AckComesLast'
    BY <2>1, TailFacts DEF AckComesLast
  <2>5. SaidIsHeard'
    BY <2>1 DEF SaidIsHeard
  <2>6. NoteHasTimer'
    <3> SUFFICES ASSUME notes > 0
                 PROVE  timer' \/ expired' \/ Comes(<<"timerOn">>, todo')
      BY <2>1 DEF NoteHasTimer, Comes
    <3>1. w \in Writes
      BY <2>1
    <3>2. w[1] = "timerOff" => w = <<"timerOff">>
      BY <3>1 DEF Writes, PanelWrites
    <3>3. CASE w[1] = "timerOn"
      BY <2>1, <3>3
    <3>4. CASE w[1] = "timerOff"
      BY <2>1, <3>2, <3>4, TailFacts DEF MelodyRuns
    <3>5. CASE w[1] # "timerOn" /\ w[1] # "timerOff"
      <4>1. timer \/ expired \/ Comes(<<"timerOn">>, todo)
        BY DEF NoteHasTimer, Comes
      <4>2. w # <<"timerOn">>
        BY <3>5
      <4> QED BY <2>1, <3>5, <4>1, <4>2, TailFacts
    <3> QED BY <3>3, <3>4, <3>5
  <2> QED BY <2>2, <2>3, <2>4, <2>5, <2>6
<1>2. CASE Idle
  BY <1>2 DEF Idle, melody, clock, NoteHasTimer, MelodyRuns, AckComesLast, SaidIsHeard
<1>3. CASE Expire
  BY <1>3 DEF Expire, melody, NoteHasTimer, MelodyRuns, AckComesLast, SaidIsHeard
<1>4. CASE Input
  BY <1>4 DEF Input, Press, Receive, melody, clock, NoteHasTimer, MelodyRuns, AckComesLast,
              SaidIsHeard
<1> QED BY <1>1, <1>2, <1>3, <1>4

\* The invariant is inductive.
LEMMA NextInv ==
  ASSUME FirmwareInv, [Next]_vars
  PROVE  FirmwareInv'
<1>1. CASE UNCHANGED vars
  BY <1>1 DEF vars, work, lights, melody, panel, mailbox, clock, FirmwareInv, TypeOK,
              NoLedLeftBehind, NoteHasTimer, MelodyRuns, AckComesLast, SaidIsHeard
<1>2. CASE Next
  <2>1. Uart \/ NoteOrButton \/ Write \/ Idle \/ Expire \/ Input
    BY <1>2 DEF Next, Main, Uart, NoteOrButton
  <2>2. TypeOK'
    BY <2>1, UartType, NoteOrButtonType, OtherType DEF FirmwareInv
  <2>3. NoLedLeftBehind'
    BY <1>2, LedStep DEF FirmwareInv
  <2>4. todo' \in Seq(Writes) /\ NoteHasTimer' /\ MelodyRuns' /\ AckComesLast' /\ SaidIsHeard'
    BY <2>1, HandlerStep, OtherStep
  <2> QED BY <2>2, <2>3, <2>4 DEF FirmwareInv
<1> QED BY <1>1, <1>2

\* FirmwareInv holds in every state of the firmware.
THEOREM FirmwareInvariant == Spec => []FirmwareInv
<1>1. Init => FirmwareInv
  BY InitInv
<1>2. FirmwareInv /\ [Next]_vars => FirmwareInv'
  BY NextInv
<1> QED BY <1>1, <1>2, PTL DEF Spec

\* The globals of the firmware keep their shape: no step beyond the LEDs, no note
\* beyond the melody.
THEOREM FirmwareTypeCorrect == Spec => []TypeOK
<1>1. FirmwareInv => TypeOK
  BY DEF FirmwareInv
<1> QED BY FirmwareInvariant, <1>1, PTL

\* No melody hangs with the buttons locked: wherever commands and buttons replace
\* one, its note is timed, or has ended, or is about to be timed.
THEOREM MelodiesAreTimed == Spec => []NoteHasTimer
<1>1. FirmwareInv => NoteHasTimer
  BY DEF FirmwareInv
<1> QED BY FirmwareInvariant, <1>1, PTL

\* Passing through the steps puts out every LED a stray command has lit.
THEOREM LedsFollowTheStep == Spec => []NoLedLeftBehind
<1>1. FirmwareInv => NoLedLeftBehind
  BY DEF FirmwareInv
<1> QED BY FirmwareInvariant, <1>1, PTL

-----------------------------------------------------------------------------
(* The firmware implements Board                                           *)

Face == [step |-> step, paused |-> paused, leds |-> leds, fail |-> fail]
Mail == IF dataIn THEN byte ELSE "none"
Said == IF says = "none" THEN <<>> ELSE <<says>>

\* The variables of Board under the mapping.
LEMMA WireVars ==
  ASSUME Face' = Face, asked' = asked, Mail' = Mail, Said' = Said,
         Comes(<<"ack">>, todo') <=> Comes(<<"ack">>, todo)
  PROVE  UNCHANGED Wire!vars
<1>1. (<<"ack">> \in {todo[i] : i \in DOMAIN todo})' = (<<"ack">> \in {todo[i] : i \in DOMAIN todo})
  BY DEF Comes
<1> QED BY <1>1 DEF Wire!vars, Face, Mail, Said

\* A restored step is found again from its digit.
LEMMA DigitFacts ==
  ASSUME NEW n \in 1..LastStep
  PROVE  /\ Digits[n] \notin {"S", "P", "F", "C", "R", "U", "M", "E", "none"}
         /\ Wire!StepOf(Digits[n]) = n
<1>1. \A k \in 1..9 : /\ Digits[k] \notin {"S", "P", "F", "C", "R", "U", "M", "E", "none"}
                      /\ \A j \in 1..9 : Digits[k] = Digits[j] => k = j
  BY DEF Digits
<1>2. \A k \in 1..LastStep : k \in 1..9
  BY ProtocolAssumption
<1>3. \A k \in 1..LastStep : Digits[k] = Digits[n] => k = n
  BY <1>1, <1>2
<1>4. Wire!StepOf(Digits[n]) = CHOOSE k \in 1..LastStep : Digits[k] = Digits[n]
  BY DEF Wire!StepOf, Wire!Digits, Digits
<1>5. n = CHOOSE k \in 1..LastStep : Digits[k] = Digits[n]
  BY <1>3
<1> QED BY <1>1, <1>2, <1>4, <1>5

\* A command takes effect on the board as its handler does on the firmware.
LEMMA CommandEffect ==
  ASSUME TypeOK, Uart
  PROVE  IF Wire!Fits(byte)
         THEN Face' = Wire!After(byte, Face) /\ asked' = FALSE
         ELSE Face' = Face /\ asked' = asked
<1> USE DEF Wire!Fits, Wire!After, Face, Work, Lights, Led
<1>1. CASE UartStart
  <2>1. byte = "S" /\ Led(1) = {1}
    BY <1>1 DEF UartStart, Command
  <2>2. Wire!Fits(byte) /\ Wire!After(byte, Face) =
          [step |-> 1, paused |-> FALSE, leds |-> leds \cup {1}, fail |-> FALSE]
    BY <2>1
  <2>3. /\ step' = 1 /\ paused' = FALSE /\ asked' = FALSE
        /\ leds' = leds \cup {1} /\ fail' = FALSE
    BY <1>1, <2>1 DEF UartStart
  <2> QED BY <2>2, <2>3
<1>2. CASE UartPass
  BY <1>2 DEF UartPass, Command, Wire!Passed
<1>3. CASE UartFail
  BY <1>3 DEF UartFail, Command
<1>4. CASE UartComplete \/ UartDefect \/ UartExit
  BY <1>4 DEF UartComplete, UartDefect, UartExit, Command, Wire!Blank
<1>5. CASE UartPause
  BY <1>5 DEF UartPause, Command, Wire!Paused
<1>6. CASE UartResume
  BY <1>6 DEF UartResume, Command, Wire!Resumed
<1>7. CASE UartRestore
  <2>1. PICK target \in 1..LastStep :
          /\ byte = Digits[target]
          /\ Work(target, FALSE, FALSE) /\ Lights(Led(target), FALSE)
    BY <1>7 DEF UartRestore, Command
  <2>2. byte \notin {"S", "P", "F", "C", "R", "U", "M", "E"} /\ Wire!StepOf(byte) = target
    BY <2>1, DigitFacts
  <2>3. Led(target) = {target}
    BY ProtocolAssumption
  <2>4. Wire!Fits(byte) /\ Wire!After(byte, Face) =
          [step |-> target, paused |-> FALSE, leds |-> {target}, fail |-> FALSE]
    BY <2>2
  <2>5. /\ step' = target /\ paused' = FALSE /\ asked' = FALSE
        /\ leds' = {target} /\ fail' = FALSE
    BY <2>1, <2>3
  <2> QED BY <2>4, <2>5
<1>8. CASE UartIgnored
  BY <1>8 DEF UartIgnored, Command, work, lights
<1> QED BY <1>1, <1>2, <1>3, <1>4, <1>5, <1>6, <1>7, <1>8 DEF Uart

\* Serving a command is Serve.
LEMMA UartRefines ==
  ASSUME FirmwareInv, Uart
  PROVE  Wire!Serve
<1>1. todo = <<>> /\ dataIn /\ dataIn' /\ byte' = byte
  <2>1. ASSUME NEW c, Command(c)
        PROVE  todo = <<>> /\ dataIn /\ dataIn' /\ byte' = byte
    BY <2>1 DEF Command, mailbox
  <2>2. \E c : Command(c)
    BY DEF Uart, UartStart, UartPass, UartFail, UartComplete, UartDefect, UartPause,
           UartResume, UartExit, UartRestore, UartIgnored
  <2> QED BY <2>1, <2>2
<1>2. /\ ~Comes(<<"ack">>, todo) /\ Comes(<<"ack">>, todo')
      /\ says = "none" /\ says' = "none"
  BY <1>1, CommandsAnswer DEF Answers, FirmwareInv, SaidIsHeard, Comes
<1>3. byte # "none"
  <2>1. CASE UartRestore
    BY <2>1, DigitFacts DEF UartRestore, Command
  <2>2. CASE ~UartRestore
    BY <2>2 DEF Uart, UartStart, UartPass, UartFail, UartComplete, UartDefect, UartPause,
                UartResume, UartExit, UartIgnored, Command
  <2> QED BY <2>1, <2>2
<1>4. Mail = byte /\ Mail' = byte /\ Said' = Said
  BY <1>1, <1>2 DEF Mail, Said
<1>5. IF Wire!Fits(byte)
      THEN Face' = Wire!After(byte, Face) /\ asked' = FALSE
      ELSE Face' = Face /\ asked' = asked
  BY CommandEffect DEF FirmwareInv
<1> QED BY <1>1, <1>2, <1>3, <1>4, <1>5 DEF Wire!Serve, Comes, Face, Mail, Said

\* A note changes nothing the Jetson sees.
LEMMA NoteRefines ==
  ASSUME FirmwareInv, NextNote \/ LastNote \/ StaleNote
  PROVE  UNCHANGED Wire!vars
<1>1. /\ todo = <<>> /\ says' = "none" /\ UNCHANGED <<work, lights, mailbox>>
  BY DEF NextNote, LastNote, StaleNote, NoteEnds, panel
<1>2. says = "none" /\ ~Comes(<<"ack">>, todo) /\ ~Comes(<<"ack">>, todo')
  BY <1>1, OthersAreSilent DEF NoteOrButton, Silent, FirmwareInv, SaidIsHeard, Comes
<1> QED BY <1>1, <1>2, WireVars DEF work, lights, mailbox, Face, Mail, Said

\* A button is what it is on the board.
LEMMA ButtonRefines ==
  ASSUME FirmwareInv, BtnStart \/ BtnCheck \/ BtnPause \/ BtnReset
  PROVE  Wire!Next \/ UNCHANGED Wire!vars
<1>1. todo = <<>> /\ UNCHANGED <<byte, dataIn>>
  BY DEF BtnStart, BtnCheck, BtnPause, BtnReset, Pressed, mailbox
<1>2. says = "none" /\ ~Comes(<<"ack">>, todo) /\ ~Comes(<<"ack">>, todo')
  BY <1>1, OthersAreSilent DEF NoteOrButton, Silent, FirmwareInv, SaidIsHeard, Comes
<1>3. Mail' = Mail /\ Said = <<>>
  BY <1>1, <1>2 DEF Mail, Said
<1>4. ASSUME NEW m \in Messages, says' = m
      PROVE  Wire!Says(m)
  <2>1. Append(<<>>, m) = <<m>> /\ m # "none"
    BY DEF Messages
  <2>2. Said' = Append(Said, m)
    BY <1>3, <1>4, <2>1 DEF Said
  <2> QED BY <1>2, <1>3, <2>2 DEF Wire!Says, Comes, Mail, Said
<1>5. CASE says' = "none" /\ UNCHANGED <<work, lights>>
  BY <1>2, <1>3, <1>5, WireVars DEF work, lights, Face, Said
<1>6. CASE says' = "Start" /\ step = 0 /\ UNCHANGED <<work, lights>>
  BY <1>4, <1>6 DEF Wire!Next, Wire!PressStart, work, lights, Messages
<1>7. CASE says' = "Check" /\ step # 0 /\ ~paused /\ Work(step, paused, TRUE) /\ UNCHANGED lights
  BY <1>4, <1>7 DEF Wire!Next, Wire!PressCheck, Work, lights, Messages
<1>8. CASE /\ says' = "Pause" /\ step # 0 /\ ~paused
           /\ Work(step, TRUE, asked) /\ Lights(leds \ {step}, fail)
  <2>1. Face.step # 0 /\ ~Face.paused /\ asked' = asked
    BY <1>8 DEF Face, Work
  <2>2. Face' = [step |-> step, paused |-> TRUE, leds |-> leds \ {step}, fail |-> fail]
    BY <1>8 DEF Face, Work, Lights
  <2>4. Wire!Paused(Face) =
          [step |-> step, paused |-> TRUE, leds |-> leds \ {step}, fail |-> fail]
    BY DEF Face, Wire!Paused
  <2>3. Wire!Says("Pause")
    BY <1>4, <1>8 DEF Messages
  <2> QED BY <2>1, <2>2, <2>3, <2>4 DEF Wire!Next, Wire!PressPause, Face
<1>9. CASE /\ says' = "Resume" /\ step # 0 /\ paused
           /\ Work(step, FALSE, asked) /\ Lights(leds \cup Led(step), fail)
  <2>1. Led(step) = {step}
    BY <1>9 DEF Led
  <2>2. Face.step # 0 /\ Face.paused /\ asked' = asked
    BY <1>9 DEF Face, Work
  <2>3. Face' = [step |-> step, paused |-> FALSE, leds |-> leds \cup {step}, fail |-> fail]
    BY <1>9, <2>1 DEF Face, Work, Lights
  <2>5. Wire!Resumed(Face) =
          [step |-> step, paused |-> FALSE, leds |-> leds \cup {step}, fail |-> fail]
    BY DEF Face, Wire!Resumed
  <2>4. Wire!Says("Resume")
    BY <1>4, <1>9 DEF Messages
  <2> QED BY <2>2, <2>3, <2>4, <2>5 DEF Wire!Next, Wire!PressPause, Face
<1>10. CASE /\ says' = "Reset" /\ step # 0 /\ ~paused
            /\ Work(0, FALSE, FALSE) /\ Lights({}, FALSE)
  BY <1>4, <1>10 DEF Wire!Next, Wire!PressReset, Wire!Blank, Work, Lights, Messages
<1>11. CASE BtnStart
  BY <1>5, <1>6, <1>11 DEF BtnStart
<1>12. CASE BtnCheck
  BY <1>5, <1>7, <1>12 DEF BtnCheck
<1>13. CASE BtnPause
  BY <1>5, <1>8, <1>9, <1>13 DEF BtnPause
<1>14. CASE BtnReset
  BY <1>5, <1>10, <1>14 DEF BtnReset
<1> QED BY <1>11, <1>12, <1>13, <1>14

\* A write is the acknowledgement, the arrival of what was said, or nothing.
LEMMA WriteRefines ==
  ASSUME FirmwareInv, Write
  PROVE  Wire!Next \/ UNCHANGED Wire!vars
<1> DEFINE w == Head(todo)
<1>1. /\ todo # <<>> /\ todo \in Seq(Writes) /\ todo' = Tail(todo)
      /\ Face' = Face /\ asked' = asked /\ byte' = byte
      /\ says' = "none" /\ Said' = <<>>
      /\ dataIn' = (dataIn /\ w[1] # "ack")
  BY DEF Write, FirmwareInv, work, lights, Face, Said
<1>2. w[1] = "ack" <=> w = <<"ack">>
  <2>1. w \in Writes
    BY <1>1
  <2> QED BY <2>1 DEF Writes, PanelWrites
<1>3. CASE w = <<"ack">>
  <2>1. Comes(<<"ack">>, todo) /\ ~Comes(<<"ack">>, todo')
    BY <1>1, <1>3, TailFacts DEF FirmwareInv, AckComesLast
  <2>2. says = "none" /\ Said = <<>>
    BY <2>1 DEF FirmwareInv, SaidIsHeard, Said
  <2>3. Mail' = "none"
    BY <1>1, <1>2, <1>3 DEF Mail
  <2> QED BY <1>1, <2>1, <2>2, <2>3 DEF Wire!Next, Wire!Acknowledge, Comes, Face, Mail, Said
<1>4. CASE w # <<"ack">>
  <2>1. Comes(<<"ack">>, todo') <=> Comes(<<"ack">>, todo)
    BY <1>1, <1>4, TailFacts
  <2>2. Mail' = Mail
    BY <1>1, <1>2, <1>4 DEF Mail
  <2>3. CASE says = "none"
    BY <1>1, <2>1, <2>2, <2>3, WireVars DEF Said
  <2>4. CASE says # "none"
    <3>1. Said # <<>> /\ Said' = Tail(Said)
      BY <1>1, <2>4 DEF Said
    <3> QED BY <1>1, <2>1, <2>2, <3>1 DEF Wire!Next, Wire!Deliver, Comes, Face, Mail, Said
  <2> QED BY <2>3, <2>4
<1> QED BY <1>3, <1>4

\* Interrupts and the idle loop: only a received byte is seen.
LEMMA InterruptRefines ==
  ASSUME FirmwareInv, Idle \/ Expire \/ Input
  PROVE  Wire!Next \/ UNCHANGED Wire!vars
<1>1. CASE Idle
  <2>1. says = "none"
    BY <1>1 DEF Idle, FirmwareInv, SaidIsHeard
  <2> QED BY <1>1, <2>1, WireVars DEF Idle, work, lights, mailbox, Face, Mail, Said, Comes
<1>2. CASE Expire
  BY <1>2, WireVars DEF Expire, work, lights, mailbox, Face, Mail, Said, Comes
<1>3. ASSUME NEW b \in Buttons, Press(b)
      PROVE  UNCHANGED Wire!vars
  BY <1>3, WireVars DEF Press, work, lights, mailbox, Face, Mail, Said, Comes
<1>4. ASSUME NEW c \in Commands, Receive(c)
      PROVE  Wire!Next
  <2>1. /\ Mail' = c /\ Face' = Face /\ asked' = asked /\ todo' = todo /\ Said' = Said
    BY <1>4 DEF Receive, work, lights, Face, Mail, Said
  <2>2. Wire!Receive(c)
    BY <2>1 DEF Wire!Receive, Comes, Face, Mail, Said
  <2>3. c \in Wire!Commands
    BY DEF Commands, Wire!Commands, Digits, Wire!Digits
  <2> QED BY <2>2, <2>3 DEF Wire!Next
<1> QED BY <1>1, <1>2, <1>3, <1>4 DEF Input

\* The firmware implements Board: wherever interrupts cut into its handlers, what
\* commands and buttons do to step, pause and LEDs, what is said to the Jetson,
\* and when the mailbox is free again, is a step of Board or no step at all.
THEOREM FirmwareImplementsBoard == Spec => ImplementsBoard
<1>1. Init => Wire!Init
  <2> SUFFICES ASSUME Init PROVE Wire!Init
    OBVIOUS
  <2>1. ~(<<"ack">> \in {todo[i] : i \in DOMAIN todo})
    BY DEF Init
  <2>2. [step |-> step, paused |-> paused, leds |-> leds, fail |-> fail] = Wire!Blank
    BY DEF Init, Wire!Blank
  <2>3. /\ asked = FALSE
        /\ (IF dataIn THEN byte ELSE "none") = "none"
        /\ (IF says = "none" THEN <<>> ELSE <<says>>) = <<>>
    BY DEF Init
  <2> QED BY <2>1, <2>2, <2>3 DEF Wire!Init
<1>2. FirmwareInv /\ [Next]_vars => [Wire!Next]_(Wire!vars)
  <2> SUFFICES ASSUME FirmwareInv, [Next]_vars
               PROVE  Wire!Next \/ UNCHANGED Wire!vars
    OBVIOUS
  <2>1. CASE UNCHANGED vars
    BY <2>1, WireVars DEF vars, work, lights, mailbox, Face, Mail, Said, Comes
  <2>2. CASE Next
    <3>1. CASE Uart
      BY <3>1, UartRefines DEF Wire!Next
    <3>2. CASE NoteOrButton
      BY <3>2, NoteRefines, ButtonRefines DEF NoteOrButton
    <3>3. Uart \/ NoteOrButton \/ Write \/ Idle \/ Expire \/ Input
      BY <2>2 DEF Next, Main, Uart, NoteOrButton
    <3> QED BY <3>1, <3>2, <3>3, WriteRefines, InterruptRefines
  <2> QED BY <2>1, <2>2
<1> QED BY FirmwareInvariant, <1>1, <1>2, PTL DEF Spec, ImplementsBoard, Wire!Spec

==============================================================================
