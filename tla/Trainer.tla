------------------------------- MODULE Trainer -------------------------------
(***************************************************************************)
(* The impromptu trainer: a topic is drawn and revealed by a reel, prepared *)
(* for and spoken on against a clock (ImpromptuTrainer, TopicReel and       *)
(* useCountdown).  The countdown reads the wall clock whenever its interval *)
(* fires, and a browser fires the interval of a tab in the background as    *)
(* rarely as it likes: up to Gap units after the last time.  One unit is    *)
(* the interval's period.  Sound and the look of the reel are left out.     *)
(***************************************************************************)
EXTENDS Integers, FiniteSets

CONSTANTS
  Topics, Tracks, Styles,
  Track, Style,      \* of each topic; a style stands for category and difficulty
  Choices,           \* PREP_CHOICES and SPEAK_CHOICES
  Gap,               \* the longest wait for a tick
  MaxPauses,         \* bound: pauses of one timed phase
  None

ASSUME TrainerAssumption ==
  /\ Track \in [Topics -> Tracks] /\ Style \in [Topics -> Styles]
  /\ Choices \subseteq Nat \ {0}
  /\ Gap \in Nat \ {0} /\ MaxPauses \in Nat
  /\ None \notin Topics \cup Styles

VARIABLES
  phase,      \* idle, spin, topic, prep, speak, done
  settings,   \* the panel, and the track, style and times chosen in it
  topic,
  used,       \* usedRef: topics not to be drawn again yet
  staged,     \* the topic staged in local storage from /admin/impromptu
  timer,      \* useCountdown
  spent,      \* time of this phase the clock was not paused
  pauses      \* times it was

vars == <<phase, settings, topic, used, staged, timer, spent, pauses>>

Calm == {"idle", "topic", "done"}
Timed == {"prep", "speak"}

\* What the panel offers, and what is drawn from: the track's topics of the
\* chosen style, or all of them when there are none.
InTrack == {t \in Topics : Track[t] = settings.track}
Pool == {t \in InTrack : settings.style \in {None, Style[t]}}
Source == IF Pool = {} THEN InTrack ELSE Pool
Decoys(t) == Topics \ {t}

Init ==
  /\ phase = "idle"
  /\ settings \in [open : {FALSE}, track : Tracks, style : {None}, prep : Choices, speak : Choices]
  /\ topic = None /\ used = {} /\ staged = None
  /\ timer = [running |-> FALSE, paused |-> FALSE, left |-> 0, shown |-> 0, total |-> 1,
              since |-> 0, done |-> "none"]
  /\ spent = 0 /\ pauses = 0

(***************************************************************************)
(* Settings and the draw                                                   *)
(***************************************************************************)

\* Mutant: the panel can be opened while the clock runs.
ToggleSettingsAnytime ==
  /\ phase # "spin"
  /\ settings' = [settings EXCEPT !.open = ~@]
  /\ UNCHANGED <<phase, topic, used, staged, timer, spent, pauses>>

\* The panel's button is there between rounds only; "Done" closes it too.
ToggleSettings ==
  /\ phase \in Calm
  /\ settings' = [settings EXCEPT !.open = ~@]
  /\ UNCHANGED <<phase, topic, used, staged, timer, spent, pauses>>

\* pickTrack starts from any style; the chips of style and times.
Choose ==
  /\ settings.open
  /\ \/ \E t \in Tracks : settings' = [settings EXCEPT !.track = t, !.style = None]
     \/ \E s \in {Style[t] : t \in InTrack} \cup {None} :
          settings' = [settings EXCEPT !.style = s]
     \/ \E n \in Choices : settings' = [settings EXCEPT !.prep = n]
     \/ \E n \in Choices : settings' = [settings EXCEPT !.speak = n]
  /\ UNCHANGED <<phase, topic, used, staged, timer, spent, pauses>>

\* stageTopic, on the admin page of the same browser.
StageTopic ==
  /\ staged' \in Topics \cup {None}
  /\ UNCHANGED <<phase, settings, topic, used, timer, spent, pauses>>

\* What may be drawn: the staged topic, else one not used yet, else any.
Fresh == Source \ used
Drawable == IF staged # None THEN {staged} ELSE IF Fresh # {} THEN Fresh ELSE Source

\* drawTopic: the reel spins, unless there is nothing to roll past or the
\* visitor prefers reduced motion.
DrawTopic ==
  /\ phase \in Calm /\ ~settings.open
  /\ \E t \in Drawable :
       /\ topic' = t
       /\ used' = (IF staged = None /\ Fresh = {} THEN {} ELSE used) \cup {t}
       /\ phase' \in IF Decoys(t) = {} THEN {"topic"} ELSE {"spin", "topic"}
  /\ staged' = None
  /\ UNCHANGED <<settings, timer, spent, pauses>>

\* transitionend or the fallback timer, whichever is first.
Settle ==
  /\ phase = "spin"
  /\ phase' = "topic"
  /\ UNCHANGED <<settings, topic, used, staged, timer, spent, pauses>>

(***************************************************************************)
(* The clock                                                               *)
(***************************************************************************)

Start(seconds, done) ==
  /\ timer' = [running |-> TRUE, paused |-> FALSE, left |-> seconds, shown |-> seconds,
               total |-> seconds, since |-> 0, done |-> done]
  /\ spent' = 0 /\ pauses' = 0

StartPrep ==
  /\ phase = "topic" /\ ~settings.open
  /\ phase' = "prep"
  /\ Start(settings.prep, "speak")
  /\ UNCHANGED <<settings, topic, used, staged>>

\* "Just talk" and "Talk now"
StartSpeak ==
  /\ phase \in {"topic", "prep"} /\ ~settings.open
  /\ phase' = "speak"
  /\ Start(settings.speak, "done")
  /\ UNCHANGED <<settings, topic, used, staged>>

\* The wall clock.
Pass ==
  /\ timer.running /\ ~timer.paused /\ timer.since < Gap
  /\ timer' = [timer EXCEPT !.left = @ - 1, !.since = @ + 1]
  /\ spent' = spent + 1
  /\ UNCHANGED <<phase, settings, topic, used, staged, pauses>>

\* Mutant: ticks counted instead of time read.
TicksLeft == timer.shown - 1
\* The interval: what is left is read off the wall clock, and at the end of
\* the preparation the talk starts by itself.  The code speaks for as long as the
\* settings said when the preparation began (the callback of startPrep); here they
\* are read when it ends, which is the same because no settings can be opened
\* meanwhile (RoundIsConsistent).
Remaining == timer.left
Tick ==
  /\ timer.running /\ ~timer.paused /\ timer.since > 0
  /\ IF Remaining > 0
       THEN /\ timer' = [timer EXCEPT !.left = Remaining, !.shown = Remaining, !.since = 0]
            /\ UNCHANGED <<phase, spent, pauses>>
       ELSE /\ phase' = timer.done
            /\ IF timer.done = "speak"
                 THEN Start(settings.speak, "done")
                 ELSE /\ timer' = [timer EXCEPT !.running = FALSE, !.shown = 0, !.since = 0]
                      /\ UNCHANGED <<spent, pauses>>
  /\ UNCHANGED <<settings, topic, used, staged>>

Pause ==
  /\ phase \in Timed /\ ~timer.paused /\ pauses < MaxPauses
  /\ timer' = [timer EXCEPT !.paused = TRUE]
  /\ pauses' = pauses + 1
  /\ UNCHANGED <<phase, settings, topic, used, staged, spent>>

\* resume: the end is moved to what the screen shows from now.
Resume ==
  /\ phase \in Timed /\ timer.paused
  /\ timer' = [timer EXCEPT !.paused = FALSE, !.left = timer.shown, !.since = 0]
  /\ UNCHANGED <<phase, settings, topic, used, staged, spent, pauses>>

FinishEarly ==
  /\ phase = "speak"
  /\ phase' = "done"
  /\ timer' = [timer EXCEPT !.running = FALSE, !.paused = FALSE]
  /\ UNCHANGED <<settings, topic, used, staged, spent, pauses>>

Reset ==
  /\ phase = "done" /\ ~settings.open
  /\ phase' = "idle" /\ topic' = None
  /\ timer' = [timer EXCEPT !.running = FALSE, !.paused = FALSE]
  /\ UNCHANGED <<settings, used, staged, spent, pauses>>

Next ==
  \/ ToggleSettings \/ Choose \/ StageTopic \/ DrawTopic \/ Settle
  \/ StartPrep \/ StartSpeak \/ Pass \/ Tick \/ Pause \/ Resume \/ FinishEarly \/ Reset

Spec == Init /\ [][Next]_vars

\* Time passes, and the browser does fire its timers.
FairSpec == Spec /\ WF_vars(Pass) /\ WF_vars(Tick) /\ WF_vars(Settle)

(***************************************************************************)
(* Properties                                                              *)
(***************************************************************************)

Timer ==
  [running : BOOLEAN, paused : BOOLEAN, left : Int, shown : Nat, total : Nat,
   since : 0..Gap, done : {"none", "speak", "done"}]
TypeOK ==
  /\ phase \in Calm \cup Timed \cup {"spin"}
  /\ settings \in [open : BOOLEAN, track : Tracks, style : Styles \cup {None},
                   prep : Choices, speak : Choices]
  /\ topic \in Topics \cup {None} /\ used \subseteq Topics /\ staged \in Topics \cup {None}
  /\ timer \in Timer
  /\ spent \in Nat /\ pauses \in 0..MaxPauses

\* The clock runs exactly in the timed phases, for the time chosen for that
\* phase and towards the phase that follows it; the panel is never open
\* meanwhile and there is a topic from the draw to the reset, so what the
\* preparation captured when it began (the speaking time) is still what is
\* chosen when it ends.
RoundIsConsistent ==
  /\ timer.running <=> phase \in Timed
  /\ phase \in Timed \cup {"spin"} => ~settings.open
  /\ phase # "idle" => topic # None
  /\ phase = "prep" => timer.total = settings.prep /\ timer.done = "speak"
  /\ phase = "speak" => timer.total = settings.speak /\ timer.done = "done"

\* A throttled tab gives no extra time ("wall-clock based, not tick-counting"):
\* what a phase gets beyond its time is the wait for one tick, and one more for
\* each pause, because resuming counts from what the screen showed.
ExtraTimeIsBounded ==
  phase \in Timed => spent <= timer.total + Gap * (pauses + 1)
=============================================================================
