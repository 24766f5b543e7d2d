---------------------------- MODULE TrainerProofs ----------------------------
(***************************************************************************)
(* Proofs about the impromptu trainer: types, the round, and how far a     *)
(* phase may overrun.                                                      *)
(***************************************************************************)
EXTENDS Trainer, TLAPS

(***************************************************************************)
(* Types                                                                   *)
(***************************************************************************)

\* A timer is a record of its seven fields, and so is what the actions make of it.
LEMMA Fields ==
  ASSUME NEW r \in Timer
  PROVE  /\ r.left \in Int /\ r.shown \in Nat /\ r.total \in Nat /\ r.since \in 0..Gap
         /\ r.running \in BOOLEAN /\ r.paused \in BOOLEAN
         /\ r.done \in {"none", "speak", "done"}
BY DEF Timer
LEMMA Built ==
  ASSUME NEW a \in BOOLEAN, NEW b \in BOOLEAN, NEW n \in Int, NEW m \in Nat, NEW t \in Nat,
         NEW k \in 0..Gap, NEW d \in {"none", "speak", "done"}
  PROVE  [running |-> a, paused |-> b, left |-> n, shown |-> m, total |-> t, since |-> k,
          done |-> d] \in Timer
BY DEF Timer
LEMMA Edited ==
  ASSUME NEW B, NEW I, NEW N, NEW G, NEW D,
         NEW r \in [running : B, paused : B, left : I, shown : N, total : N, since : G, done : D],
         NEW a \in B, NEW n \in I, NEW m \in N, NEW k \in G
  PROVE  LET T == [running : B, paused : B, left : I, shown : N, total : N, since : G, done : D]
         IN  /\ [r EXCEPT !.left = n, !.since = k] \in T
             /\ [r EXCEPT !.left = n, !.shown = m, !.since = k] \in T
             /\ [r EXCEPT !.running = a, !.shown = m, !.since = k] \in T
             /\ [r EXCEPT !.running = a, !.paused = a] \in T
             /\ [r EXCEPT !.paused = a] \in T
             /\ [r EXCEPT !.paused = a, !.left = n, !.since = k] \in T
BY Zenon
LEMMA TimerEdited ==
  ASSUME NEW r \in Timer, NEW a \in BOOLEAN, NEW n \in Int, NEW m \in Nat, NEW k \in 0..Gap
  PROVE  /\ [r EXCEPT !.left = n, !.since = k] \in Timer
         /\ [r EXCEPT !.left = n, !.shown = m, !.since = k] \in Timer
         /\ [r EXCEPT !.running = a, !.shown = m, !.since = k] \in Timer
         /\ [r EXCEPT !.running = a, !.paused = a] \in Timer
         /\ [r EXCEPT !.paused = a] \in Timer
         /\ [r EXCEPT !.paused = a, !.left = n, !.since = k] \in Timer
BY Edited, Zenon DEF Timer
LEMMA Started ==
  ASSUME NEW n \in Choices, NEW done \in {"speak", "done"}, Start(n, done)
  PROVE  timer' \in Timer /\ spent' \in Nat /\ pauses' \in 0..MaxPauses
<1>1. 0 \in 0..Gap /\ 0 \in 0..MaxPauses /\ n \in Nat /\ n \in Int
  BY TrainerAssumption
<1>2. timer' = [running |-> TRUE, paused |-> FALSE, left |-> n, shown |-> n,
                total |-> n, since |-> 0, done |-> done]
  BY DEF Start
<1>3. timer' \in Timer
  <2>1. done \in {"none", "speak", "done"} OBVIOUS
  <2> QED BY <1>1, <1>2, <2>1, Built
<1>4. spent' = 0 /\ pauses' = 0
  BY DEF Start
<1> QED BY <1>1, <1>3, <1>4

LEMMA InitType == Init => TypeOK
<1> SUFFICES ASSUME Init PROVE TypeOK
  OBVIOUS
<1>1. 0 \in 0..Gap /\ 0 \in 0..MaxPauses /\ 0 \in Int /\ 0 \in Nat /\ 1 \in Nat
  BY TrainerAssumption
<1>2. timer = [running |-> FALSE, paused |-> FALSE, left |-> 0, shown |-> 0, total |-> 1,
               since |-> 0, done |-> "none"]
  BY DEF Init
<1>3. timer \in Timer
  BY <1>1, <1>2, Built
<1>4. settings \in [open : BOOLEAN, track : Tracks, style : Styles \cup {None},
                    prep : Choices, speak : Choices]
  BY DEF Init
<1>5. spent \in Nat /\ pauses \in 0..MaxPauses
  BY <1>1 DEF Init
<1> QED BY <1>3, <1>4, <1>5 DEF Init, TypeOK, Calm

LEMMA StepType == TypeOK /\ RoundIsConsistent /\ [Next]_vars => TypeOK'
<1> SUFFICES ASSUME TypeOK, RoundIsConsistent, [Next]_vars PROVE TypeOK'
  OBVIOUS
<1>0. /\ 0 \in 0..Gap /\ 0 \in Nat /\ settings.prep \in Choices /\ settings.speak \in Choices
      /\ timer \in Timer /\ spent \in Nat /\ pauses \in 0..MaxPauses
      /\ FALSE \in BOOLEAN /\ TRUE \in BOOLEAN
  BY TrainerAssumption DEF TypeOK
<1>f. /\ timer.left \in Int /\ timer.shown \in Nat /\ timer.shown \in Int
      /\ timer.since \in 0..Gap /\ timer.done \in {"none", "speak", "done"}
  BY <1>0, Fields
<1>1. CASE ToggleSettings BY <1>1 DEF TypeOK, ToggleSettings
<1>2. CASE Choose BY TrainerAssumption, <1>2 DEF TypeOK, Choose, InTrack
<1>3. CASE StageTopic BY <1>3 DEF TypeOK, StageTopic
<1>4. CASE DrawTopic
  <2>1. Drawable \subseteq Topics
    BY DEF TypeOK, Drawable, Fresh, Source, Pool, InTrack
  <2> QED BY <1>4, <2>1 DEF TypeOK, DrawTopic, Calm
<1>5. CASE Settle BY <1>5 DEF TypeOK, Settle, Calm
<1>6. CASE StartPrep
  <2>1. timer' \in Timer /\ spent' \in Nat /\ pauses' \in 0..MaxPauses
    BY <1>0, <1>6, Started DEF StartPrep
  <2> QED BY <1>6, <2>1 DEF TypeOK, StartPrep, Timed
<1>7. CASE StartSpeak
  <2>1. timer' \in Timer /\ spent' \in Nat /\ pauses' \in 0..MaxPauses
    BY <1>0, <1>7, Started DEF StartSpeak
  <2> QED BY <1>7, <2>1 DEF TypeOK, StartSpeak, Timed
<1>8. CASE Pass
  <2>1. timer.left - 1 \in Int /\ timer.since + 1 \in 0..Gap /\ spent + 1 \in Nat
    BY <1>0, <1>8, <1>f, TrainerAssumption DEF Pass
  <2>2. timer' \in Timer
    BY <1>0, <1>8, <2>1, TimerEdited, Zenon DEF Pass
  <2> QED BY <1>8, <2>1, <2>2 DEF TypeOK, Pass
<1>9. CASE Tick
  <2>1. CASE timer.left > 0
    <3>1. timer.left \in Nat
      BY <1>f, <2>1
    <3>2. timer' \in Timer
      <4>1. timer' = [timer EXCEPT !.left = timer.left, !.shown = timer.left, !.since = 0]
        BY <1>9, <2>1 DEF Tick, Remaining
      <4> QED BY <1>0, <1>f, <3>1, <4>1, TimerEdited, Zenon
    <3> QED BY <1>9, <2>1, <3>2 DEF TypeOK, Tick, Remaining
  <2>2. CASE ~(timer.left > 0) /\ timer.done = "speak"
    <3>1. Start(settings.speak, "done")
      BY <1>9, <2>2 DEF Tick, Remaining
    <3>2. timer' \in Timer /\ spent' \in Nat /\ pauses' \in 0..MaxPauses
      BY <1>0, <3>1, Started
    <3>3. phase' = "speak"
      BY <1>9, <2>2 DEF Tick, Remaining
    <3> QED BY <1>9, <3>2, <3>3 DEF TypeOK, Tick, Timed
  <2>3. CASE ~(timer.left > 0) /\ timer.done # "speak"
    <3>1. timer' = [timer EXCEPT !.running = FALSE, !.shown = 0, !.since = 0]
      BY <1>9, <2>3 DEF Tick, Remaining
    <3>2. timer' \in Timer
      BY <1>0, <1>f, <3>1, TimerEdited, Zenon
    <3>3. phase \in Timed
      BY <1>9 DEF Tick, RoundIsConsistent
    <3>4. timer.done = "done"
      BY <2>3, <3>3 DEF RoundIsConsistent, Timed
    <3>5. phase' \in Calm
      BY <1>9, <2>3, <3>4 DEF Tick, Remaining, Calm
    <3> QED BY <1>9, <2>3, <3>2, <3>5 DEF TypeOK, Tick, Remaining
  <2> QED BY <2>1, <2>2, <2>3
<1>10. CASE Pause
  <2>1. pauses + 1 \in 0..MaxPauses
    BY <1>0, <1>10, TrainerAssumption DEF Pause
  <2>2. timer' \in Timer
    BY <1>0, <1>10, <1>f, TimerEdited, Zenon DEF Pause
  <2> QED BY <1>10, <2>1, <2>2 DEF TypeOK, Pause
<1>11. CASE Resume
  <2>1. timer' \in Timer
    BY <1>0, <1>11, <1>f, TimerEdited, Zenon DEF Resume
  <2> QED BY <1>11, <2>1 DEF TypeOK, Resume
<1>12. CASE FinishEarly
  <2>1. timer' \in Timer
    BY <1>0, <1>12, <1>f, TimerEdited, Zenon DEF FinishEarly
  <2> QED BY <1>12, <2>1 DEF TypeOK, FinishEarly, Calm
<1>13. CASE Reset
  <2>1. timer' \in Timer
    BY <1>0, <1>13, <1>f, TimerEdited, Zenon DEF Reset
  <2> QED BY <1>13, <2>1 DEF TypeOK, Reset, Calm
<1>14. CASE UNCHANGED vars BY <1>14 DEF TypeOK, vars
<1> QED
  BY <1>1, <1>2, <1>3, <1>4, <1>5, <1>6, <1>7, <1>8, <1>9, <1>10, <1>11, <1>12, <1>13, <1>14
  DEF Next


(***************************************************************************)
(* The round                                                               *)
(***************************************************************************)

\* What the actions leave in the fields of the timer.
LEMMA StartedWith ==
  ASSUME NEW n, NEW done, Start(n, done)
  PROVE  /\ timer'.running = TRUE /\ timer'.paused = FALSE
         /\ timer'.total = n /\ timer'.done = done
         /\ timer'.left = n /\ timer'.shown = n /\ timer'.since = 0
         /\ spent' = 0 /\ pauses' = 0
BY DEF Start

LEMMA StepRound == TypeOK /\ RoundIsConsistent /\ [Next]_vars => RoundIsConsistent'
<1> SUFFICES ASSUME TypeOK, RoundIsConsistent, [Next]_vars PROVE RoundIsConsistent'
  OBVIOUS
<1>t. timer \in Timer
  BY DEF TypeOK
<1>1. CASE ToggleSettings BY <1>1 DEF ToggleSettings, RoundIsConsistent, Calm, Timed
<1>2. CASE Choose
  <2>1. phase \notin Timed \cup {"spin"}
    BY <1>2 DEF Choose, RoundIsConsistent
  <2> QED BY <1>2, <2>1 DEF Choose, RoundIsConsistent, Timed
<1>3. CASE StageTopic BY <1>3 DEF StageTopic, RoundIsConsistent
<1>4. CASE DrawTopic
  <2>1. Drawable \subseteq Topics
    BY DEF TypeOK, Drawable, Fresh, Source, Pool, InTrack
  <2>2. topic' # None /\ phase' \in {"topic", "spin"} /\ ~settings.open
    BY <1>4, <2>1, TrainerAssumption DEF DrawTopic
  <2>3. phase \notin Timed /\ phase' \notin Timed
    BY <1>4, <2>2 DEF DrawTopic, Calm, Timed
  <2> QED BY <1>4, <2>2, <2>3 DEF DrawTopic, RoundIsConsistent, Timed
<1>5. CASE Settle BY <1>5 DEF Settle, RoundIsConsistent, Timed
<1>6. CASE StartPrep
  <2>1. /\ timer'.running = TRUE /\ timer'.total = settings.prep /\ timer'.done = "speak"
        /\ phase' = "prep" /\ phase = "topic" /\ ~settings.open
        /\ settings' = settings /\ topic' = topic
    BY <1>6, StartedWith DEF StartPrep
  <2>2. topic # None
    BY <2>1 DEF RoundIsConsistent
  <2> QED BY <2>1, <2>2 DEF RoundIsConsistent, Timed
<1>7. CASE StartSpeak
  <2>1. /\ timer'.running = TRUE /\ timer'.total = settings.speak /\ timer'.done = "done"
        /\ phase' = "speak" /\ phase \in {"topic", "prep"} /\ ~settings.open
        /\ settings' = settings /\ topic' = topic
    BY <1>7, StartedWith DEF StartSpeak
  <2>2. topic # None
    BY <2>1 DEF RoundIsConsistent
  <2> QED BY <2>1, <2>2 DEF RoundIsConsistent, Timed
<1>8. CASE Pass
  <2>1. /\ timer'.running = timer.running /\ timer'.total = timer.total
        /\ timer'.done = timer.done
    BY <1>8, <1>t DEF Pass, Timer
  <2> QED BY <1>8, <2>1 DEF Pass, RoundIsConsistent
<1>9. CASE Tick
  <2>p. phase \in Timed /\ ~settings.open /\ phase # "idle"
        /\ settings' = settings /\ topic' = topic
    BY <1>9 DEF Tick, RoundIsConsistent, Timed
  <2>1. CASE timer.left > 0
    <3>1. /\ timer'.running = timer.running /\ timer'.total = timer.total
          /\ timer'.done = timer.done /\ phase' = phase
      BY <1>9, <1>t, <2>1 DEF Tick, Remaining, Timer
    <3> QED BY <2>p, <3>1 DEF RoundIsConsistent
  <2>2. CASE ~(timer.left > 0) /\ timer.done = "speak"
    <3>1. Start(settings.speak, "done") /\ phase' = "speak"
      BY <1>9, <2>2 DEF Tick, Remaining
    <3>2. /\ timer'.running = TRUE /\ timer'.total = settings.speak /\ timer'.done = "done"
      BY <3>1, StartedWith
    <3> QED BY <2>p, <3>1, <3>2 DEF RoundIsConsistent, Timed
  <2>3. CASE ~(timer.left > 0) /\ timer.done # "speak"
    <3>1. timer.done = "done"
      BY <2>p, <2>3 DEF RoundIsConsistent, Timed
    <3>2. timer'.running = FALSE /\ phase' = "done"
      BY <1>9, <1>t, <2>3, <3>1 DEF Tick, Remaining, Timer
    <3> QED BY <2>p, <3>2 DEF RoundIsConsistent, Timed
  <2> QED BY <2>1, <2>2, <2>3
<1>10. CASE Pause
  <2>1. /\ timer'.running = timer.running /\ timer'.total = timer.total
        /\ timer'.done = timer.done
    BY <1>10, <1>t DEF Pause, Timer
  <2> QED BY <1>10, <2>1 DEF Pause, RoundIsConsistent
<1>11. CASE Resume
  <2>1. /\ timer'.running = timer.running /\ timer'.total = timer.total
        /\ timer'.done = timer.done
    BY <1>11, <1>t DEF Resume, Timer
  <2> QED BY <1>11, <2>1 DEF Resume, RoundIsConsistent
<1>12. CASE FinishEarly
  <2>1. timer'.running = FALSE
    BY <1>12, <1>t DEF FinishEarly, Timer
  <2> QED BY <1>12, <2>1 DEF FinishEarly, RoundIsConsistent, Timed
<1>13. CASE Reset
  <2>1. timer'.running = FALSE
    BY <1>13, <1>t DEF Reset, Timer
  <2> QED BY <1>13, <2>1 DEF Reset, RoundIsConsistent, Timed
<1>14. CASE UNCHANGED vars BY <1>14 DEF RoundIsConsistent, vars
<1> QED
  BY <1>1, <1>2, <1>3, <1>4, <1>5, <1>6, <1>7, <1>8, <1>9, <1>10, <1>11, <1>12, <1>13, <1>14
  DEF Next

LEMMA InitRound == Init => RoundIsConsistent
BY DEF Init, RoundIsConsistent, Timed

\* Every variable of the trainer keeps its type, for any topics and times.
THEOREM TrainerTypes == Spec => []TypeOK
BY InitType, StepType, InitRound, StepRound, PTL DEF Spec

\* The clock runs exactly in the timed phases, for their own time and towards
\* the phase that follows, with the panel closed.
THEOREM RoundConsistent == Spec => []RoundIsConsistent
BY InitType, StepType, InitRound, StepRound, PTL DEF Spec

(***************************************************************************)
(* Time                                                                    *)
(***************************************************************************)

\* Why the bound holds.  What is left is what is shown less the wait for the
\* next tick, so it is never below -Gap; and what has been spent and is left
\* together exceed the phase's time by at most one wait for each pause, since
\* only resuming gives time back, from what was shown.
Lost == IF timer.paused THEN Gap * pauses - Gap ELSE Gap * pauses
TimeInv ==
  phase \in Timed =>
    /\ timer.shown = timer.left + timer.since
    /\ spent + timer.left <= timer.total + Lost

LEMMA PauseTimes == ASSUME NEW g \in Nat, NEW n \in Nat
               PROVE  g * (n + 1) = g * n + g /\ g * n \in Nat /\ g * 0 = 0
OBVIOUS

LEMMA StepTime ==
  TypeOK /\ RoundIsConsistent /\ TimeInv /\ [Next]_vars => TimeInv'
<1> SUFFICES ASSUME TypeOK, RoundIsConsistent, TimeInv, [Next]_vars, (phase \in Timed)'
             PROVE  /\ (timer.shown = timer.left + timer.since)'
                    /\ (spent + timer.left <= timer.total + Lost)'
  BY DEF TimeInv
<1>t. timer \in Timer
  BY DEF TypeOK
<1>n. /\ timer.left \in Int /\ timer.shown \in Nat /\ timer.total \in Nat
      /\ timer.since \in 0..Gap /\ timer.paused \in BOOLEAN /\ timer.running \in BOOLEAN
      /\ spent \in Nat /\ pauses \in Nat /\ Gap \in Nat
  BY <1>t, Fields, TrainerAssumption DEF TypeOK
<1>g. Gap * pauses \in Nat /\ Gap * 0 = 0 /\ Gap * (pauses + 1) = Gap * pauses + Gap
  BY <1>n, PauseTimes
<1>s. ASSUME NEW n \in Choices, NEW d, Start(n, d)
      PROVE  /\ (timer.shown = timer.left + timer.since)'
             /\ (spent + timer.left <= timer.total + Lost)'
  <2>1. /\ timer'.left = n /\ timer'.shown = n /\ timer'.since = 0 /\ timer'.total = n
        /\ timer'.paused = FALSE /\ spent' = 0 /\ pauses' = 0
    BY <1>s, StartedWith
  <2>2. Lost' = 0
    BY <1>g, <2>1 DEF Lost
  <2>3. n \in Nat
    BY TrainerAssumption
  <2> QED BY <2>1, <2>2, <2>3
<1>u. ASSUME UNCHANGED <<phase, timer, spent, pauses>>
      PROVE  /\ (timer.shown = timer.left + timer.since)'
             /\ (spent + timer.left <= timer.total + Lost)'
  BY <1>u DEF TimeInv, Lost
<1>1. CASE ToggleSettings BY <1>1, <1>u DEF ToggleSettings
<1>2. CASE Choose BY <1>2, <1>u DEF Choose
<1>3. CASE StageTopic BY <1>3, <1>u DEF StageTopic
<1>4. CASE DrawTopic BY <1>4 DEF DrawTopic, Timed
<1>5. CASE Settle BY <1>5 DEF Settle, Timed
<1>6. CASE StartPrep BY <1>6, <1>s DEF StartPrep, TypeOK
<1>7. CASE StartSpeak BY <1>7, <1>s DEF StartSpeak, TypeOK
<1>8. CASE Pass
  <2>1. /\ timer'.left = timer.left - 1 /\ timer'.since = timer.since + 1
        /\ timer'.shown = timer.shown /\ timer'.total = timer.total
        /\ timer'.paused = timer.paused
    BY <1>8, <1>t DEF Pass, Timer
  <2>2. phase' = phase /\ spent' = spent + 1 /\ pauses' = pauses
    BY <1>8 DEF Pass
  <2>3. Lost' = Lost /\ Lost \in Int
    BY <1>n, <1>g, <2>1, <2>2 DEF Lost
  <2> QED BY <1>n, <2>1, <2>2, <2>3 DEF TimeInv
<1>9. CASE Tick
  <2>1. CASE timer.left > 0
    <3>1. /\ timer'.left = timer.left /\ timer'.shown = timer.left /\ timer'.since = 0
          /\ timer'.total = timer.total /\ timer'.paused = timer.paused
          /\ phase' = phase /\ spent' = spent /\ pauses' = pauses
      BY <1>9, <1>t, <2>1 DEF Tick, Remaining, Timer
    <3>2. Lost' = Lost
      BY <3>1 DEF Lost
    <3> QED BY <1>n, <3>1, <3>2 DEF TimeInv
  <2>2. CASE ~(timer.left > 0) /\ timer.done = "speak"
    <3>1. Start(settings.speak, "done")
      BY <1>9, <2>2 DEF Tick, Remaining
    <3> QED BY <3>1, <1>s DEF TypeOK
  <2>3. CASE ~(timer.left > 0) /\ timer.done # "speak"
    <3>1. phase \in Timed
      BY <1>9 DEF Tick, RoundIsConsistent
    <3>2. phase' = "done"
      BY <1>9, <2>3, <3>1 DEF Tick, Remaining, RoundIsConsistent, Timed
    <3> QED BY <3>2 DEF Timed
  <2> QED BY <2>1, <2>2, <2>3
<1>10. CASE Pause
  <2>1. /\ timer'.left = timer.left /\ timer'.since = timer.since
        /\ timer'.shown = timer.shown /\ timer'.total = timer.total
        /\ timer'.paused = TRUE
    BY <1>10, <1>t DEF Pause, Timer
  <2>2. phase' = phase /\ spent' = spent /\ pauses' = pauses + 1 /\ ~timer.paused
    BY <1>10 DEF Pause
  <2>3. Lost' = Lost
    BY <1>n, <1>g, <2>1, <2>2 DEF Lost
  <2> QED BY <2>1, <2>2, <2>3 DEF TimeInv
<1>11. CASE Resume
  <2>1. /\ timer'.left = timer.shown /\ timer'.since = 0
        /\ timer'.shown = timer.shown /\ timer'.total = timer.total
        /\ timer'.paused = FALSE
    BY <1>11, <1>t DEF Resume, Timer
  <2>2. phase' = phase /\ spent' = spent /\ pauses' = pauses /\ timer.paused
    BY <1>11 DEF Resume
  <2>3. Lost' = Lost + Gap /\ Lost \in Int
    BY <1>n, <1>g, <2>1, <2>2 DEF Lost
  <2> QED BY <1>n, <2>1, <2>2, <2>3 DEF TimeInv
<1>12. CASE FinishEarly BY <1>12 DEF FinishEarly, Timed
<1>13. CASE Reset BY <1>13 DEF Reset, Timed
<1>14. CASE UNCHANGED vars BY <1>14, <1>u DEF vars
<1> QED
  BY <1>1, <1>2, <1>3, <1>4, <1>5, <1>6, <1>7, <1>8, <1>9, <1>10, <1>11, <1>12, <1>13, <1>14
  DEF Next

LEMMA TimeBound == TypeOK /\ TimeInv => ExtraTimeIsBounded
<1> SUFFICES ASSUME TypeOK, TimeInv, phase \in Timed
             PROVE  spent <= timer.total + Gap * (pauses + 1)
  BY DEF ExtraTimeIsBounded
<1>1. /\ timer.left \in Int /\ timer.shown \in Nat /\ timer.total \in Nat
      /\ timer.since \in 0..Gap
      /\ spent \in Nat /\ pauses \in Nat /\ Gap \in Nat
  BY Fields, TrainerAssumption DEF TypeOK
<1>2. Gap * pauses \in Nat /\ Gap * (pauses + 1) = Gap * pauses + Gap
  BY <1>1, PauseTimes
<1>3. Lost \in Int /\ Lost <= Gap * pauses
  BY <1>1, <1>2 DEF Lost
<1>4. timer.shown = timer.left + timer.since /\ spent + timer.left <= timer.total + Lost
  BY DEF TimeInv
<1> QED BY <1>1, <1>2, <1>3, <1>4

\* A phase overruns its time by one wait for a tick, and one more for each pause,
\* whatever the times chosen and however rarely the browser fires the interval.
THEOREM ExtraTimeBounded == Spec => []ExtraTimeIsBounded
<1>1. Init => TimeInv
  BY DEF Init, TimeInv, Timed
<1> QED
  BY <1>1, InitType, StepType, InitRound, StepRound, StepTime, TimeBound, PTL DEF Spec
=============================================================================
