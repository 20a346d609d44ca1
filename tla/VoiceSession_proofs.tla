------------------------ MODULE VoiceSession_proofs ------------------------
(***************************************************************************)
(* No utterance is used twice and a stopped session stays quiet, for every  *)
(* number of clicks, utterances and polls.                                  *)
(***************************************************************************)
EXTENDS VoiceSession, TLAPS, FiniteSetTheorems

USE DEF worker, bounds, NoEvent, NoGeneration

-----------------------------------------------------------------------------
(* The inductive invariant                                                 *)

Ui == [last : EventIds, target : Targets, dictation : BOOLEAN,
       active : BOOLEAN, gen : Generations, listening : BOOLEAN,
       cued : BOOLEAN, ignore : BOOLEAN, pending : BOOLEAN]

Typed ==
  /\ wake \in BOOLEAN /\ looping \in BOOLEAN
  /\ slot \in Targets
  /\ events \in Seq([for : Purposes, text : Outcomes]) /\ Len(events) <= MaxUtterances
  /\ ui \in Ui
  /\ epoch \in Epochs
  /\ tasks \subseteq Tasks
  /\ clicks \in 0..MaxClicks /\ polls \in 0..MaxPolls
  /\ wanted \subseteq Generations

\* One activation of the bridge does one thing at a time.
OneBusy ==
  \A t, u \in tasks :
    t.kind \in BusyKinds /\ u.kind \in BusyKinds /\ t.epoch = u.epoch => t = u

BridgeOn == Bridge(ui)

\* Generations are used up by clicks and by utterances that end a session, and
\* activations by clicks: both are bounded.
UsedUp ==
  /\ ui.gen <= clicks + ui.last
  /\ epoch <= clicks + 1
  /\ BridgeOn => epoch > 0

\* What was used is not newer than the event that the window saw last.
Seen == submitted \cup composed \subseteq 1..ui.last /\ ui.last <= Len(events)

\* The session that is on is wanted, and only its listen is targeted.
Session ==
  /\ ui.active => ui.gen \in wanted
  /\ ui.target = "voice" => ui.active

\* Where a task stands: it is of an earlier generation or of the one that is on,
\* and a status under way in this activation is not older than what was seen.
TaskFits(t) ==
  /\ t.epoch <= epoch
  /\ t.kind # "typed" => t.ev <= Len(events)
  /\ t.gen <= ui.gen
  /\ t.gen # 0 /\ t.gen = ui.gen => ui.active
  /\ t.kind = "poll" /\ t.served /\ t.epoch = epoch => ui.last <= t.ev

TasksFit == \A t \in tasks : TaskFits(t)

IInv == Typed /\ OneBusy /\ UsedUp /\ Seen /\ Session /\ TasksFit

-----------------------------------------------------------------------------
(* Tasks                                                                   *)

\* A task gives way to one that is busy only if it was, for the same activation.
LEMMA BusyReplaced ==
  ASSUME OneBusy, NEW t \in tasks, NEW new,
         tasks' = (tasks \ {t}) \cup new,
         \A n \in new : n.kind \in BusyKinds => t.kind \in BusyKinds /\ n.epoch = t.epoch,
         \A n, m \in new : n.kind \in BusyKinds /\ m.kind \in BusyKinds => n = m
  PROVE  OneBusy'
  BY DEF OneBusy

\* One is added that is not busy, or for an activation that was idle.
LEMMA BusyAdded ==
  ASSUME OneBusy, NEW n, tasks' = tasks \cup {n},
         n.kind \in BusyKinds =>
           ~(\E t \in tasks : t.epoch = n.epoch /\ t.kind \in BusyKinds)
  PROVE  OneBusy'
  BY DEF OneBusy

\* Busy with one thing at most, the bridge has at most one such task.
LEMMA AtMostOne ==
  ASSUME OneBusy
  PROVE  \A e \in 1..epoch :
           Cardinality({t \in tasks : t.epoch = e /\ t.kind \in BusyKinds}) <= 1
<1> SUFFICES ASSUME NEW e \in 1..epoch
             PROVE  Cardinality({t \in tasks : t.epoch = e /\ t.kind \in BusyKinds}) <= 1
  OBVIOUS
<1> DEFINE busy == {t \in tasks : t.epoch = e /\ t.kind \in BusyKinds}
<1>1. CASE busy = {}
  BY <1>1, FS_EmptySet
<1>2. CASE busy # {}
  <2>1. PICK t \in busy : TRUE
    BY <1>2
  <2>2. busy = {t}
    BY <2>1 DEF OneBusy
  <2>3. Cardinality({t}) = 1
    BY FS_Singleton
  <2>. QED
    BY <2>2, <2>3
<1>. QED
  BY <1>1, <1>2

-----------------------------------------------------------------------------
(* The component                                                           *)

\* A change of the component that begins no session, ends none, sees no event and
\* does not make the bridge active.
Keeps(u, v) ==
  /\ v \in Ui
  /\ v.gen = u.gen /\ v.active = u.active /\ v.last = u.last
  /\ v.dictation => u.dictation
  /\ v.target = "voice" => u.active

\* What the ends of a listen and of a dictation are.
LEMMA Endings ==
  ASSUME NEW u \in Ui, u.target = "voice" => u.active
  PROVE  /\ Keeps(u, u)
         /\ Keeps(u, ListenOver(u)) /\ Keeps(u, Overtaken(u))
         /\ Keeps(u, DictationOver(u))
         /\ Keeps(u, [u EXCEPT !.pending = TRUE])
         /\ Keeps(u, [u EXCEPT !.pending = FALSE])
  BY DEF Keeps, Ui, Targets, ListenOver, Overtaken, DictationOver

\* The bridge stays in its activation.
LEMMA SameActivation ==
  ASSUME NEW v, Keeps(ui, v), Becomes(v)
  PROVE  ui' = v /\ epoch' = epoch
  BY DEF Keeps, Becomes, Bridge

\* What a step does that keeps the session and adds tasks that fit.
Quiet ==
  /\ Keeps(ui, ui') /\ epoch' = epoch
  /\ wanted' = wanted /\ submitted' = submitted /\ composed' = composed
  /\ clicks' \in clicks..MaxClicks /\ polls' \in 0..MaxPolls
  /\ wake' = wake /\ looping' \in BOOLEAN /\ slot' \in Targets
  /\ events' \in Seq([for : Purposes, text : Outcomes])
  /\ Len(events) <= Len(events') /\ Len(events') <= MaxUtterances
  /\ tasks' \subseteq Tasks /\ OneBusy'
  /\ \A t \in tasks' \ tasks : TaskFits(t)'

\* A bound that grows is still a bound.
LEMMA BoundGrows ==
  ASSUME NEW a \in Nat, NEW b \in Nat, NEW c \in Nat, NEW d \in Nat,
         a <= b + c, b <= d
  PROVE  a <= d + c
  OBVIOUS

LEMMA QuietStep ==
  ASSUME IInv, Quiet
  PROVE  IInv'
<1> USE ConstantsAssumption DEF ConstantsAssumption
<1>1. ui.gen \in Nat /\ ui.last \in Nat /\ epoch \in Nat /\ clicks \in Nat
      /\ ui \in Ui /\ Len(events) \in Nat /\ Len(events') \in Nat
  BY DEF IInv, Typed, Ui, Generations, EventIds, Epochs, Quiet
<1>2. Typed'
  BY DEF IInv, Typed, Quiet, Keeps
<1>3. UsedUp'
  <2>1. BridgeOn' => BridgeOn
    BY DEF Quiet, Keeps, Bridge, BridgeOn
  <2>2. ui'.gen = ui.gen /\ ui'.last = ui.last /\ epoch' = epoch
        /\ clicks' \in Nat /\ clicks <= clicks'
    BY <1>1 DEF Quiet, Keeps
  <2>3. ui.gen <= clicks + ui.last /\ epoch <= clicks + 1
    BY DEF IInv, UsedUp
  <2>4. BridgeOn' => epoch' > 0
    BY <2>1, <2>2 DEF IInv, UsedUp
  <2>5. /\ ui.gen \in Nat /\ ui.last \in Nat /\ epoch \in Nat
        /\ clicks \in Nat /\ clicks' \in Nat /\ clicks <= clicks'
    BY <1>1, <2>2
  <2>6. ui.gen <= clicks' + ui.last /\ epoch <= clicks' + 1
    BY <2>3, <2>5, BoundGrows
  <2>7. ui'.gen <= clicks' + ui'.last /\ epoch' <= clicks' + 1
    BY <2>2, <2>6
  <2>. QED
    BY <2>4, <2>7 DEF UsedUp
<1>4. Seen'
  BY <1>1 DEF IInv, Seen, Quiet, Keeps
<1>5. Session'
  BY <1>1 DEF IInv, Session, Quiet, Keeps
<1>6. TasksFit'
  <2> SUFFICES ASSUME NEW t \in tasks, t \in tasks' PROVE TaskFits(t)'
    BY DEF TasksFit, Quiet
  <2>1. TaskFits(t) /\ t.ev \in Nat
    BY DEF IInv, TasksFit, Typed, Tasks, EventIds
  <2>. QED
    BY <1>1, <2>1 DEF TaskFits, Quiet, Keeps
<1>. QED
  BY <1>2, <1>3, <1>4, <1>5, <1>6 DEF IInv, Quiet

-----------------------------------------------------------------------------
(* The steps that keep the session                                         *)

\* What is known in a reachable state.
LEMMA Known ==
  ASSUME IInv
  PROVE  /\ ui \in Ui /\ (ui.target = "voice" => ui.active) /\ Keeps(ui, ui)
         /\ ui.gen \in Generations /\ ui.last \in EventIds /\ epoch \in Epochs
         /\ clicks \in 0..MaxClicks /\ Len(events) \in EventIds
         /\ 0 \in Generations /\ 0 \in EventIds /\ 0 \in Epochs /\ 0 \in 0..MaxLines
         /\ \A t \in tasks : t \in Tasks /\ TaskFits(t)
         /\ \A g \in Generations, e \in EventIds, a \in Epochs :
              g \in Nat /\ e \in Nat /\ a \in Nat /\ e <= MaxUtterances
<1> USE ConstantsAssumption DEF ConstantsAssumption
<1>1. ui \in Ui /\ (ui.target = "voice" => ui.active)
  BY DEF IInv, Typed, Session
<1>2. /\ ui.gen \in Generations /\ ui.last \in EventIds /\ epoch \in Epochs
      /\ clicks \in 0..MaxClicks
  BY DEF IInv, Typed, Ui
<1>3. Len(events) \in EventIds
  BY DEF IInv, Typed, EventIds
<1>4. /\ 0 \in Generations /\ 0 \in EventIds /\ 0 \in Epochs /\ 0 \in 0..MaxLines
      /\ \A g \in Generations, e \in EventIds, a \in Epochs :
           g \in Nat /\ e \in Nat /\ a \in Nat /\ e <= MaxUtterances
  BY DEF Generations, EventIds, Epochs
<1>. QED
  BY <1>1, <1>2, <1>3, <1>4, Endings DEF IInv, Typed, TasksFit

\* A callback of the window that keeps the session, and what it awaits next.
LEMMA CallbackStep ==
  ASSUME IInv, NEW t \in tasks, NEW new, NEW v,
         Keeps(ui, v), Becomes(v), Awaited(t, new),
         UNCHANGED <<worker, bounds, composed, submitted, wanted>>,
         new \subseteq Tasks, \A n \in new : TaskFits(n),
         \A n \in new : n.kind \in BusyKinds => t.kind \in BusyKinds /\ n.epoch = t.epoch,
         \A n, m \in new : n.kind \in BusyKinds /\ m.kind \in BusyKinds => n = m
  PROVE  IInv'
<1> USE ConstantsAssumption DEF ConstantsAssumption
<1>1. ui' = v /\ epoch' = epoch
  BY SameActivation
<1>2. OneBusy'
  BY BusyReplaced DEF Awaited, IInv
<1>3. \A n \in tasks' \ tasks : TaskFits(n)'
  BY <1>1 DEF Awaited, TaskFits, Keeps
<1>4. Len(events) \in Nat /\ Len(events) <= Len(events') /\ clicks' \in clicks..MaxClicks
  BY DEF IInv, Typed
<1>. QED
  BY <1>1, <1>2, <1>3, <1>4, QuietStep DEF Quiet, IInv, Typed, Awaited

\* A callback after which nothing is awaited.
LEMMA LastCallback ==
  ASSUME IInv, NEW t \in tasks, NEW v, Keeps(ui, v), Becomes(v), Awaited(t, {}),
         UNCHANGED <<worker, bounds, composed, submitted, wanted>>
  PROVE  IInv'
  BY CallbackStep

\* Nothing changes but what is awaited.
LEMMA Same ==
  ASSUME UNCHANGED <<ui, epoch>>
  PROVE  Becomes(ui)
  BY DEF Becomes

LEMMA RequestListenStep ==
  ASSUME IInv, NEW t \in tasks, RequestListen(t)
  PROVE  IInv'
<1>1. CASE ui.listening \/ ui.pending \/ ~StillCurrent(ui, t.gen)
  BY <1>1, Known, Same, LastCallback DEF RequestListen
<1>2. CASE ~(ui.listening \/ ui.pending \/ ~StillCurrent(ui, t.gen))
  <2> DEFINE withCue == t.kind = "start" /\ ~ui.cued
             v == [ui EXCEPT !.listening = TRUE, !.target = "voice",
                             !.cued = @ \/ withCue]
             n == Request(IF withCue THEN "cue" ELSE "listen", t.gen)
  <2>1. ui.active /\ t.gen = ui.gen
    BY <1>2 DEF StillCurrent
  <2>2. Becomes(v) /\ Awaited(t, {n})
    BY <1>2 DEF RequestListen
  <2>3. Keeps(ui, v)
    BY <2>1, Known DEF Keeps, Ui, Targets
  <2>4. n \in Tasks /\ n.kind \in {"cue", "listen"} /\ n.gen = ui.gen /\ n.ev = 0
        /\ n.epoch = 0
    BY <2>1, Known DEF Request, Task, Tasks
  <2>5. TaskFits(n)
    BY <2>1, <2>4, Known DEF TaskFits
  <2> HIDE DEF v, n
  <2>. QED
    BY <2>2, <2>3, <2>4, <2>5, CallbackStep DEF RequestListen, BusyKinds
<1>. QED
  BY <1>1, <1>2

LEMMA CueEndsStep ==
  ASSUME IInv, NEW t \in tasks, CueEnds(t)
  PROVE  IInv'
<1>1. CASE CurrentAfterCue(t.gen)
  <2> DEFINE n == Request("listen", t.gen)
  <2>1. ui.active /\ t.gen = ui.gen
    BY <1>1 DEF CurrentAfterCue, StillCurrent
  <2>2. Becomes(ui) /\ Awaited(t, {n})
    BY <1>1, Same DEF CueEnds
  <2>3. n \in Tasks /\ n.kind = "listen" /\ n.gen = ui.gen /\ n.ev = 0 /\ n.epoch = 0
    BY <2>1, Known DEF Request, Task, Tasks
  <2>4. TaskFits(n)
    BY <2>1, <2>3, Known DEF TaskFits
  <2> HIDE DEF n
  <2>. QED
    BY <2>2, <2>3, <2>4, Known, CallbackStep DEF CueEnds, BusyKinds
<1>2. CASE ~CurrentAfterCue(t.gen)
  BY <1>2, Known, Endings, LastCallback DEF CueEnds
<1>. QED
  BY <1>1, <1>2

LEMMA AnsweredStep ==
  ASSUME IInv, NEW t \in tasks,
         ListenAnswered(t) \/ DictateAnswered(t) \/ RequestFails(t) \/ TypedEnds(t)
  PROVE  IInv'
<1> DEFINE v == IF ListenAnswered(t) THEN IF StillCurrent(ui, t.gen) THEN ListenOver(ui)
                                          ELSE Overtaken(ui)
                ELSE IF DictateAnswered(t) THEN DictationOver(ui)
                ELSE IF RequestFails(t)
                     THEN IF t.kind = "listen" THEN ListenOver(ui) ELSE DictationOver(ui)
                     ELSE [ui EXCEPT !.pending = FALSE]
<1>1. Keeps(ui, v)
  BY Known, Endings
<1>2. /\ Becomes(v) /\ Awaited(t, {})
      /\ UNCHANGED <<worker, bounds, composed, submitted, wanted>>
  BY DEF ListenAnswered, DictateAnswered, RequestFails, TypedEnds, QueuedIsSeen
<1> HIDE DEF v
<1>. QED
  BY <1>1, <1>2, LastCallback

\* What a task of a turn is followed by: the same turn, a line of it, or its end.
LEMMA FollowsFits ==
  ASSUME IInv, NEW t \in tasks, t.kind # "typed", NEW n \in Tasks,
         n.gen = t.gen, n.ev = t.ev, n.epoch = t.epoch, n.kind # "poll"
  PROVE  TaskFits(n)
  BY Known DEF TaskFits

\* The component stays as it is.
LEMMA TurnStepKeeps ==
  ASSUME IInv, NEW t \in tasks, t.kind # "typed", TurnStep, NEW new, Awaited(t, new),
         new \subseteq Tasks,
         \A n \in new : n.gen = t.gen /\ n.ev = t.ev /\ n.epoch = t.epoch /\ n.kind # "poll",
         \A n \in new : n.kind \in BusyKinds => t.kind \in BusyKinds,
         \A n, m \in new : n.kind \in BusyKinds /\ m.kind \in BusyKinds => n = m
  PROVE  IInv'
<1>1. \A n \in new : TaskFits(n)
  BY FollowsFits
<1>. QED
  BY <1>1, Known, Same, CallbackStep DEF TurnStep

\* A line of a turn.
LEMMA LineIs ==
  ASSUME IInv, NEW t \in tasks, NEW kind \in {"filler", "queued", "line"},
         NEW n \in 0..MaxLines
  PROVE  /\ Line(t, kind, n) \in Tasks
         /\ Line(t, kind, n).kind = kind /\ Line(t, kind, n).line = n
         /\ Line(t, kind, n).gen = t.gen /\ Line(t, kind, n).ev = t.ev
         /\ Line(t, kind, n).epoch = t.epoch
<1>1. 0 \in 0..MaxLines
  BY ConstantsAssumption DEF ConstantsAssumption
<1>. QED
  BY <1>1, Known DEF Line, Task, Tasks

\* The turn goes on, and a line of it is spoken or queued.
LEMMA TurnSpeaks ==
  ASSUME IInv, NEW t \in tasks, t.kind = "turn", TurnStep,
         NEW s \in Tasks, s.kind = "turn", s.gen = t.gen, s.ev = t.ev, s.epoch = t.epoch,
         NEW kind \in {"filler", "queued", "line"}, NEW n \in 0..MaxLines,
         Awaited(t, {s, Line(t, kind, n)})
  PROVE  IInv'
<1> DEFINE l == Line(t, kind, n)
<1>1. l \in Tasks /\ l.kind = kind /\ l.gen = t.gen /\ l.ev = t.ev /\ l.epoch = t.epoch
  BY LineIs
<1>2. Awaited(t, {s, l}) /\ l.kind \notin BusyKinds /\ l.kind # "poll"
  BY <1>1 DEF BusyKinds
<1> HIDE DEF l
<1>. QED
  BY <1>1, <1>2, TurnStepKeeps DEF BusyKinds

LEMMA ReportProgressStep ==
  ASSUME IInv, NEW t \in tasks, ReportProgress(t)
  PROVE  IInv'
<1> DEFINE s == [t EXCEPT !.line = @ + 1]
           kind == IF \E l \in Lines(t) : l.kind # "filler" THEN "queued" ELSE "line"
<1>1. t.kind = "turn" /\ t.line \in 0..MaxLines /\ t.line < MaxLines /\ t \in Tasks
  BY Known DEF ReportProgress, Tasks
<1>2. t.line + 1 \in 0..MaxLines
  BY <1>1, ConstantsAssumption DEF ConstantsAssumption
<1>3. s \in Tasks /\ s.kind = "turn" /\ s.gen = t.gen /\ s.ev = t.ev /\ s.epoch = t.epoch
  BY <1>1, <1>2 DEF Tasks
<1>4. Awaited(t, {s, Line(t, kind, t.line + 1)}) /\ TurnStep
  BY DEF ReportProgress
<1>5. kind \in {"filler", "queued", "line"}
  OBVIOUS
<1> HIDE DEF s, kind
<1>. QED
  BY <1>1, <1>2, <1>3, <1>4, <1>5, TurnSpeaks

LEMMA SpeakFillerStep ==
  ASSUME IInv, NEW t \in tasks, SpeakFiller(t)
  PROVE  IInv'
<1> DEFINE s == [t EXCEPT !.served = TRUE]
<1>1. t.kind = "turn" /\ t \in Tasks
  BY Known DEF SpeakFiller
<1>2. 0 \in 0..MaxLines
  BY ConstantsAssumption DEF ConstantsAssumption
<1>3. s \in Tasks /\ s.kind = "turn" /\ s.gen = t.gen /\ s.ev = t.ev /\ s.epoch = t.epoch
  BY <1>1 DEF Tasks
<1>4. Awaited(t, {s, Line(t, "filler", 0)}) /\ TurnStep
  BY DEF SpeakFiller
<1> HIDE DEF s
<1>. QED
  BY <1>1, <1>2, <1>3, <1>4, TurnSpeaks

LEMMA LineStep ==
  ASSUME IInv, NEW t \in tasks, NextLine(t) \/ LineEnds(t)
  PROVE  IInv'
<1>1. CASE NextLine(t)
  <2> DEFINE n == [t EXCEPT !.kind = "line"]
  <2>1. t.kind = "queued" /\ Awaited(t, {n}) /\ TurnStep
    BY <1>1 DEF NextLine
  <2>2. n \in Tasks /\ n.kind = "line" /\ n.gen = t.gen /\ n.ev = t.ev /\ n.epoch = t.epoch
    BY Known DEF Tasks
  <2> HIDE DEF n
  <2>. QED
    BY <2>1, <2>2, TurnStepKeeps DEF BusyKinds
<1>2. CASE LineEnds(t)
  BY <1>2, TurnStepKeeps DEF LineEnds
<1>. QED
  BY <1>1, <1>2

LEMMA TurnEndsStep ==
  ASSUME IInv, NEW t \in tasks, TurnEnds(t)
  PROVE  IInv'
<1> DEFINE v == [ui EXCEPT !.pending = FALSE]
           n == Task("lines", t.gen, t.ev, t.epoch)
<1>1. Keeps(ui, v)
  BY Known, Endings
<1>2. Becomes(v) /\ Awaited(t, {n}) /\ t.kind = "turn"
  BY DEF TurnEnds
<1>3. n \in Tasks /\ n.kind = "lines" /\ n.gen = t.gen /\ n.ev = t.ev /\ n.epoch = t.epoch
  BY Known DEF Tasks, Task
<1>4. TaskFits(n)
  BY <1>2, <1>3, FollowsFits
<1> HIDE DEF v, n
<1>. QED
  BY <1>1, <1>2, <1>3, <1>4, CallbackStep DEF TurnEnds, BusyKinds

LEMMA ReplyStep ==
  ASSUME IInv, NEW t \in tasks, Reply(t)
  PROVE  IInv'
<1> DEFINE n == Task("speak", t.gen, t.ev, t.epoch)
<1>1. t.kind = "lines" /\ TurnStep
      /\ \E new \in SUBSET {n} : Awaited(t, new)
  BY DEF Reply
<1>2. n \in Tasks /\ n.kind = "speak" /\ n.gen = t.gen /\ n.ev = t.ev /\ n.epoch = t.epoch
  BY Known DEF Tasks, Task
<1> HIDE DEF n
<1>. QED
  BY <1>1, <1>2, TurnStepKeeps DEF BusyKinds

\* The timer that lets a session listen again.
LEMMA ListensAgainIs ==
  ASSUME IInv, NEW t \in tasks, t.kind # "typed", NEW gen \in Generations,
         gen # 0 /\ gen = ui.gen => ui.active
  PROVE  /\ ListensAgain(gen, t.ev) \subseteq Tasks
         /\ \A n \in ListensAgain(gen, t.ev) :
              n.kind = "relisten" /\ n.gen = gen /\ TaskFits(n)
         /\ \A n, m \in ListensAgain(gen, t.ev) : n = m
<1>1. t.ev \in EventIds \cup 0..MaxClicks /\ t.ev <= Len(events)
  BY Known DEF Tasks, TaskFits
<1> DEFINE n == Task("relisten", gen, t.ev, 0)
<1>2. n \in Tasks /\ n.kind = "relisten" /\ n.gen = gen /\ n.ev = t.ev /\ n.epoch = 0
  BY <1>1, Known DEF Task, Tasks
<1>3. ListensAgain(gen, t.ev) = IF gen # 0 /\ ui.gen = gen THEN {n} ELSE {}
  BY DEF ListensAgain
<1> HIDE DEF n
<1>4. gen = ui.gen => TaskFits(n)
  BY <1>1, <1>2, Known DEF TaskFits
<1>. QED
  BY <1>2, <1>3, <1>4

LEMMA SpeakEndsStep ==
  ASSUME IInv, NEW t \in tasks, SpeakEnds(t)
  PROVE  IInv'
<1> DEFINE new == ListensAgain(t.gen, t.ev)
<1>1. t.kind = "speak" /\ Awaited(t, new) /\ Becomes(ui)
  BY Same DEF SpeakEnds, TurnStep
<1>2. t.gen \in Generations /\ (t.gen # 0 /\ t.gen = ui.gen => ui.active)
  BY Known DEF Tasks, TaskFits
<1>3. new \subseteq Tasks /\ (\A n \in new : n.kind = "relisten" /\ TaskFits(n))
      /\ \A n, m \in new : n = m
  BY <1>1, <1>2, ListensAgainIs
<1> HIDE DEF new
<1>. QED
  BY <1>1, <1>3, Known, CallbackStep DEF SpeakEnds, TurnStep, BusyKinds

-----------------------------------------------------------------------------
(* The worker, and clicks that keep the session                            *)

\* A transcription is one event more.
LEMMA Transcribed ==
  ASSUME IInv, NEW purpose \in Purposes, Transcribes(purpose)
  PROVE  /\ events' \in Seq([for : Purposes, text : Outcomes])
         /\ Len(events) <= Len(events') /\ Len(events') <= MaxUtterances
<1>1. events \in Seq([for : Purposes, text : Outcomes]) /\ Len(events) < MaxUtterances
  BY DEF IInv, Typed, Transcribes
<1>2. PICK text \in Outcomes : events' = Append(events, [for |-> purpose, text |-> text])
  BY DEF Transcribes
<1>3. [for |-> purpose, text |-> text] \in [for : Purposes, text : Outcomes]
  OBVIOUS
<1>. QED
  BY <1>1, <1>2, <1>3, ConstantsAssumption DEF ConstantsAssumption

LEMMA WorkerSteps ==
  ASSUME IInv, Worker
  PROVE  IInv'
<1>1. Keeps(ui, ui') /\ epoch' = epoch
  BY Known DEF Worker, SayWakeWord, CaptureQueued, LoopChanges, WorkerStep
<1>2. \/ /\ events' \in Seq([for : Purposes, text : Outcomes])
         /\ Len(events) <= Len(events') /\ Len(events') <= MaxUtterances
      \/ events' = events
  BY Transcribed DEF Worker, SayWakeWord, CaptureQueued, LoopChanges, Purposes,
     Targets, IInv, Typed
<1>3. /\ looping' \in BOOLEAN /\ slot' \in Targets
      /\ UNCHANGED <<wake, tasks, wanted, submitted, composed, clicks, polls>>
  BY DEF IInv, Typed, Worker, SayWakeWord, CaptureQueued, LoopChanges, WorkerStep, Targets
<1>4. OneBusy' /\ clicks' \in clicks..MaxClicks /\ polls' \in 0..MaxPolls
  BY <1>3, ConstantsAssumption DEF IInv, OneBusy, Typed, ConstantsAssumption
<1>5. /\ events' \in Seq([for : Purposes, text : Outcomes])
      /\ Len(events) <= Len(events') /\ Len(events') <= MaxUtterances
  BY <1>2, ConstantsAssumption DEF IInv, Typed, ConstantsAssumption
<1>6. tasks \subseteq Tasks
  BY DEF IInv, Typed
<1>. QED
  BY <1>1, <1>3, <1>4, <1>5, <1>6, QuietStep DEF Quiet

LEMMA ServeStep ==
  ASSUME IInv, NEW t \in tasks, ServeRequest(t)
  PROVE  IInv'
<1> DEFINE s == [t EXCEPT !.served = TRUE,
                          !.ev = IF t.kind = "poll" THEN Len(events) ELSE @]
<1>1. t \in Tasks /\ TaskFits(t) /\ t.kind \in {"listen", "dictate", "poll"}
  BY Known DEF ServeRequest
<1>2. PICK n \in Tasks :
        /\ n = s
        /\ n.kind = t.kind /\ n.gen = t.gen /\ n.epoch = t.epoch
        /\ n.ev = IF t.kind = "poll" THEN Len(events) ELSE t.ev
  <2>1. /\ s \in Tasks /\ s.kind = t.kind /\ s.gen = t.gen /\ s.epoch = t.epoch
        /\ s.ev = IF t.kind = "poll" THEN Len(events) ELSE t.ev
    BY <1>1, Known DEF Tasks
  <2> HIDE DEF s
  <2>. QED
    BY <2>1
<1>3. /\ tasks' = (tasks \ {t}) \cup {n} /\ WorkerStep /\ looping' = looping
      /\ \/ UNCHANGED events
         \/ Transcribes(ListensFor(t))
      /\ slot' \in {slot, ListensFor(t)}
  BY <1>2 DEF ServeRequest
<1>4. ListensFor(t) \in Purposes /\ ListensFor(t) \in Targets
  BY DEF ListensFor, Purposes, Targets
<1> HIDE DEF s
<1>5. /\ events' \in Seq([for : Purposes, text : Outcomes])
      /\ Len(events) <= Len(events') /\ Len(events') <= MaxUtterances
  <2>1. CASE UNCHANGED events
    BY <2>1, ConstantsAssumption DEF IInv, Typed, ConstantsAssumption
  <2>2. CASE Transcribes(ListensFor(t))
    BY <1>4, <2>2, Transcribed
  <2>. QED
    BY <1>3, <2>1, <2>2
<1>6. OneBusy'
  BY <1>2, <1>3 DEF IInv, OneBusy
<1>7. UNCHANGED <<wake, ui, epoch, wanted, submitted, composed, clicks, polls>>
  BY <1>3 DEF WorkerStep
<1>8. /\ Len(events) \in Nat /\ Len(events') \in Nat
      /\ ui.last <= Len(events) /\ ui.last \in Nat
  BY <1>5, Known DEF IInv, Seen
<1>9. TaskFits(n)'
  <2>1. n.ev <= Len(events) \/ n.kind = "typed"
    BY <1>1, <1>2, <1>8 DEF TaskFits
  <2>2. n.ev \in Nat
    BY <1>1, <1>2, <1>8, Known DEF Tasks
  <2>3. n.kind # "typed" => n.ev <= Len(events')
    BY <2>1, <2>2, <1>5, <1>8
  <2>4. n.kind = "poll" => ui.last <= n.ev
    BY <1>2, <1>8
  <2>. QED
    BY <1>1, <1>2, <1>7, <2>3, <2>4 DEF TaskFits
<1>10. tasks' \subseteq Tasks /\ \A u \in tasks' \ tasks : TaskFits(u)'
  BY <1>2, <1>3, <1>9 DEF IInv, Typed
<1>11. clicks' \in clicks..MaxClicks /\ polls' \in 0..MaxPolls /\ looping' \in BOOLEAN
       /\ slot' \in Targets
  BY <1>3, <1>4, <1>7, ConstantsAssumption DEF IInv, Typed, ConstantsAssumption
<1>. QED
  BY <1>5, <1>6, <1>7, <1>10, <1>11, Known, QuietStep DEF Quiet

LEMMA PollStep ==
  ASSUME IInv, Poll
  PROVE  IInv'
<1>1. PICK n \in Tasks :
        /\ n = Task("poll", 0, 0, epoch)
        /\ n.kind = "poll" /\ n.gen = 0 /\ n.ev = 0
        /\ n.epoch = epoch /\ n.served = FALSE
  <2> DEFINE s == Task("poll", 0, 0, epoch)
  <2>1. /\ s \in Tasks /\ s.kind = "poll" /\ s.gen = 0 /\ s.ev = 0
        /\ s.epoch = epoch /\ s.served = FALSE
    BY Known DEF Task, Tasks
  <2> HIDE DEF s
  <2>2. \E n \in Tasks :
          /\ n = s
          /\ n.kind = "poll" /\ n.gen = 0 /\ n.ev = 0
          /\ n.epoch = epoch /\ n.served = FALSE
    BY <2>1
  <2>. QED
    BY <2>2 DEF s
<1>2. tasks' = tasks \cup {n}
  BY <1>1 DEF Poll
<1>3. ~(\E t \in tasks : t.epoch = epoch /\ t.kind \in BusyKinds)
  BY DEF Poll, Busy, BusyKinds
<1>4. UNCHANGED <<wake, looping, slot, events, ui, epoch, clicks, composed, submitted,
                  wanted>>
      /\ polls' \in 0..MaxPolls
  BY ConstantsAssumption DEF Poll, IInv, Typed, ConstantsAssumption
<1>5. OneBusy'
  BY <1>1, <1>2, <1>3, BusyAdded DEF IInv
<1>6. TaskFits(n)'
  BY <1>1, <1>4, Known DEF TaskFits
<1>7. tasks' \subseteq Tasks /\ \A u \in tasks' \ tasks : TaskFits(u)'
  BY <1>1, <1>2, <1>6 DEF IInv, Typed
<1>8. clicks' \in clicks..MaxClicks /\ Len(events) <= Len(events')
  BY <1>4, Known, ConstantsAssumption DEF ConstantsAssumption
<1>. QED
  BY <1>4, <1>5, <1>7, <1>8, Known, QuietStep DEF Quiet, IInv, Typed

LEMMA TypeStep ==
  ASSUME IInv, Type
  PROVE  IInv'
<1> USE ConstantsAssumption DEF ConstantsAssumption
<1> DEFINE v == [ui EXCEPT !.pending = TRUE]
<1>1. PICK n \in Tasks :
        /\ n = Task("typed", 0, clicks, 0)
        /\ n.kind = "typed" /\ n.gen = 0 /\ n.epoch = 0
  <2> DEFINE s == Task("typed", 0, clicks, 0)
  <2>1. s \in Tasks /\ s.kind = "typed" /\ s.gen = 0 /\ s.epoch = 0
    BY Known DEF Task, Tasks
  <2> HIDE DEF s
  <2>2. \E n \in Tasks : n = s /\ n.kind = "typed" /\ n.gen = 0 /\ n.epoch = 0
    BY <2>1
  <2>. QED
    BY <2>2 DEF s
<1>2. tasks' = tasks \cup {n} /\ Becomes(v) /\ Click /\ wanted' = wanted
  BY <1>1 DEF Type
<1>3. Keeps(ui, v)
  BY Known, Endings
<1> HIDE DEF v
<1>4. OneBusy'
  BY <1>1, <1>2, BusyAdded DEF IInv, BusyKinds
<1>5. ui' = v /\ epoch' = epoch
  BY <1>2, <1>3, SameActivation
<1>6. TaskFits(n)'
  BY <1>1, <1>3, <1>5, Known DEF TaskFits, Keeps
<1>7. tasks' \subseteq Tasks /\ \A u \in tasks' \ tasks : TaskFits(u)'
  BY <1>1, <1>2, <1>6 DEF IInv, Typed
<1>8. clicks' \in clicks..MaxClicks
      /\ UNCHANGED <<wake, looping, slot, events, polls, composed, submitted>>
  BY <1>2, Known DEF Click
<1>9. Len(events) <= Len(events')
  BY <1>8, Known
<1>. QED
  BY <1>2, <1>3, <1>4, <1>5, <1>7, <1>8, <1>9, QuietStep DEF Quiet, IInv, Typed

LEMMA StopTurnStep ==
  ASSUME IInv, StopTurn
  PROVE  IInv'
<1> USE ConstantsAssumption DEF ConstantsAssumption
<1> DEFINE v == [ui EXCEPT !.pending = FALSE]
<1>1. tasks' = tasks /\ Becomes(v) /\ Click /\ wanted' = wanted
  BY DEF StopTurn
<1>2. Keeps(ui, v)
  BY Known, Endings
<1> HIDE DEF v
<1>3. ui' = v /\ epoch' = epoch
  BY <1>1, <1>2, SameActivation
<1>4. clicks' \in clicks..MaxClicks
      /\ UNCHANGED <<wake, looping, slot, events, polls, composed, submitted>>
  BY <1>1, Known DEF Click
<1>5. Len(events) <= Len(events') /\ OneBusy'
  BY <1>1, <1>4, Known DEF IInv, OneBusy
<1>. QED
  BY <1>1, <1>2, <1>3, <1>4, <1>5, QuietStep DEF Quiet, IInv, Typed

-----------------------------------------------------------------------------
(* The steps that begin or end a session, or see an event                  *)

\* The bridge stays in its activation or begins the next one.
LEMMA NextActivation ==
  ASSUME IInv, NEW v, Becomes(v)
  PROVE  /\ ui' = v
         /\ epoch' = epoch \/ epoch' = epoch + 1
         /\ Bridge(v) => Bridge(ui) \/ epoch' = epoch + 1
  BY DEF Becomes

\* A task that goes on fits the new state.
LEMMA TaskGoesOn ==
  ASSUME IInv, NEW n \in tasks,
         epoch' = epoch \/ epoch' = epoch + 1,
         events' = events,
         \/ ui'.gen = ui.gen /\ (ui.active => ui'.active)
         \/ ui'.gen = ui.gen + 1,
         ui'.last = ui.last \/ ~(n.kind = "poll" /\ n.epoch = epoch)
  PROVE  TaskFits(n)'
<1>1. n \in Tasks /\ TaskFits(n)
  BY Known
<1>2. n.epoch \in Nat /\ n.gen \in Nat /\ epoch \in Nat /\ ui.gen \in Nat
  BY <1>1, Known DEF Tasks
<1>. QED
  BY <1>1, <1>2 DEF TaskFits

LEMMA DictationStep ==
  ASSUME IInv, ToggleDictation
  PROVE  IInv'
<1> USE ConstantsAssumption DEF ConstantsAssumption
<1> DEFINE v == [ui EXCEPT !.dictation = TRUE, !.target = "dictation"]
           n == Request("dictate", 0)
<1>1. /\ v \in Ui /\ v.gen = ui.gen /\ v.active = ui.active /\ v.last = ui.last
      /\ v.target = "dictation"
  BY Known DEF Ui, Targets
<1>2. /\ n \in Tasks /\ n.kind = "dictate" /\ n.gen = 0 /\ n.ev = 0 /\ n.epoch = 0
  BY Known DEF Request, Task, Tasks
<1>3. tasks' = tasks \cup {n} /\ Becomes(v) /\ Click /\ wanted' = wanted
  BY DEF ToggleDictation
<1> HIDE DEF v, n
<1>4. /\ ui' = v
      /\ epoch' = epoch \/ epoch' = epoch + 1
      /\ Bridge(v) => Bridge(ui) \/ epoch' = epoch + 1
  BY <1>3, NextActivation
<1>5. clicks' = clicks + 1 /\ clicks' \in 0..MaxClicks
      /\ UNCHANGED <<wake, looping, slot, events, polls, composed, submitted>>
  BY <1>3, Known DEF Click
<1>6. epoch \in Nat /\ ui.gen \in Nat /\ ui.last \in Nat /\ clicks \in Nat
      /\ Len(events) \in Nat
  BY Known
<1>7. UsedUp'
  <2>1. ui.gen <= clicks + ui.last /\ epoch <= clicks + 1
    BY DEF IInv, UsedUp
  <2>2. ui'.gen <= clicks' + ui'.last
    BY <1>1, <1>4, <1>5, <1>6, <2>1
  <2>3. epoch' <= clicks' + 1
    BY <1>4, <1>5, <1>6, <2>1
  <2>4. BridgeOn' => epoch' > 0
    BY <1>4, <1>5, <1>6 DEF IInv, UsedUp, BridgeOn, Bridge
  <2>. QED
    BY <2>2, <2>3, <2>4 DEF UsedUp
<1>8. epoch' \in Epochs
  BY <1>4, <1>5, <1>6, <1>7 DEF UsedUp, Epochs
<1>9. Typed'
  BY <1>1, <1>2, <1>3, <1>4, <1>5, <1>8 DEF IInv, Typed
<1>10. OneBusy'
  BY <1>2, <1>3, BusyAdded DEF IInv, BusyKinds
<1>11. Seen' /\ Session'
  BY <1>1, <1>3, <1>4, <1>5 DEF IInv, Seen, Session
<1>12. TasksFit'
  <2>1. \A t \in tasks : TaskFits(t)'
    BY <1>1, <1>4, <1>5, TaskGoesOn
  <2>2. n' = n
    BY DEF n, Request, Task
  <2>3. n.epoch <= epoch' /\ n.ev <= Len(events') /\ n.gen <= ui'.gen
    BY <1>1, <1>2, <1>4, <1>5, <1>6
  <2>4. TaskFits(n)'
    BY <1>2, <2>2, <2>3 DEF TaskFits
  <2>. QED
    BY <1>3, <2>1, <2>2, <2>4 DEF TasksFit
<1>. QED
  BY <1>7, <1>9, <1>10, <1>11, <1>12 DEF IInv

LEMMA StartStep ==
  ASSUME IInv, StartSession
  PROVE  IInv'
<1> USE ConstantsAssumption DEF ConstantsAssumption
<1> DEFINE v == [ui EXCEPT !.gen = @ + 1, !.active = TRUE, !.listening = FALSE,
                           !.cued = FALSE]
<1>1. clicks' = clicks + 1 /\ clicks' \in 0..MaxClicks
      /\ UNCHANGED <<wake, looping, slot, events, polls, composed, submitted>>
  BY Known DEF StartSession, Click
<1>2. epoch \in Nat /\ ui.gen \in Nat /\ ui.last \in Nat /\ clicks \in Nat
      /\ Len(events) \in Nat /\ ui.last <= MaxUtterances
  BY Known
<1>3. ui.gen <= clicks + ui.last /\ epoch <= clicks + 1
  BY DEF IInv, UsedUp
<1>4. ui.gen + 1 \in Generations
  BY <1>1, <1>2, <1>3 DEF Generations
<1>5. /\ v \in Ui /\ v.gen = ui.gen + 1 /\ v.active /\ v.last = ui.last
  BY <1>4, Known DEF Ui
<1>6. PICK n \in Tasks :
        /\ n = Request("start", ui.gen + 1)
        /\ n.kind = "start" /\ n.gen = ui.gen + 1 /\ n.ev = 0 /\ n.epoch = 0
  <2> DEFINE s == Request("start", ui.gen + 1)
  <2>1. s \in Tasks /\ s.kind = "start" /\ s.gen = ui.gen + 1 /\ s.ev = 0 /\ s.epoch = 0
    BY <1>4, Known DEF Request, Task, Tasks
  <2> HIDE DEF s
  <2>2. \E n \in Tasks :
          /\ n = s
          /\ n.kind = "start" /\ n.gen = ui.gen + 1 /\ n.ev = 0 /\ n.epoch = 0
    BY <2>1
  <2>. QED
    BY <2>2 DEF s
<1>7. tasks' = tasks \cup {n} /\ Becomes(v) /\ wanted' = wanted \cup {ui.gen + 1}
  BY <1>6 DEF StartSession
<1> HIDE DEF v
<1>8. /\ ui' = v
      /\ epoch' = epoch \/ epoch' = epoch + 1
      /\ Bridge(v) => Bridge(ui) \/ epoch' = epoch + 1
  BY <1>7, NextActivation
<1>9. UsedUp'
  <2>1. ui'.gen <= clicks' + ui'.last
    BY <1>1, <1>2, <1>3, <1>5, <1>8
  <2>2. epoch' <= clicks' + 1
    BY <1>1, <1>2, <1>3, <1>8
  <2>3. BridgeOn' => epoch' > 0
    BY <1>1, <1>2, <1>8 DEF IInv, UsedUp, BridgeOn, Bridge
  <2>. QED
    BY <2>1, <2>2, <2>3 DEF UsedUp
<1>10. epoch' \in Epochs
  BY <1>1, <1>2, <1>8, <1>9 DEF UsedUp, Epochs
<1>11. Typed'
  BY <1>1, <1>4, <1>5, <1>7, <1>8, <1>10 DEF IInv, Typed
<1>12. OneBusy'
  BY <1>6, <1>7, BusyAdded DEF IInv, BusyKinds
<1>13. Seen' /\ Session'
  BY <1>1, <1>5, <1>7, <1>8 DEF IInv, Seen, Session
<1>14. TasksFit'
  <2>1. \A t \in tasks : TaskFits(t)'
    BY <1>1, <1>5, <1>8, TaskGoesOn
  <2>2. n.epoch <= epoch' /\ n.ev <= Len(events') /\ n.gen <= ui'.gen /\ ui'.active
    BY <1>1, <1>2, <1>5, <1>6, <1>8
  <2>3. TaskFits(n)'
    BY <1>6, <2>2 DEF TaskFits
  <2>. QED
    BY <1>7, <2>1, <2>3 DEF TasksFit
<1>. QED
  BY <1>9, <1>11, <1>12, <1>13, <1>14 DEF IInv

\* A session that is stopped gives its generation up.
LEMMA StoppedIs ==
  ASSUME NEW u, u \in Ui, u.gen + 1 \in Generations
  PROVE  /\ Stopped(u) \in Ui
         /\ Stopped(u).gen = u.gen + 1 /\ ~Stopped(u).active /\ Stopped(u).last = u.last
         /\ Stopped(u).dictation = u.dictation /\ Stopped(u).target # "voice"
  BY DEF Stopped, Ui, Targets

LEMMA StopStep ==
  ASSUME IInv, StopSession
  PROVE  IInv'
<1> USE ConstantsAssumption DEF ConstantsAssumption
<1> DEFINE v == Stopped(ui)
<1>1. clicks' = clicks + 1 /\ clicks' \in 0..MaxClicks
      /\ UNCHANGED <<wake, looping, slot, events, polls, composed, submitted>>
  BY Known DEF StopSession, Click
<1>2. epoch \in Nat /\ ui.gen \in Nat /\ ui.last \in Nat /\ clicks \in Nat
      /\ ui.last <= MaxUtterances
  BY Known
<1>3. ui.gen <= clicks + ui.last /\ epoch <= clicks + 1
  BY DEF IInv, UsedUp
<1>4. ui.gen + 1 \in Generations
  BY <1>1, <1>2, <1>3 DEF Generations
<1>5. /\ v \in Ui /\ v.gen = ui.gen + 1 /\ ~v.active /\ v.last = ui.last
      /\ v.dictation = ui.dictation /\ v.target # "voice"
  BY <1>4, Known, StoppedIs
<1>6. tasks' = tasks /\ Becomes(v) /\ wanted' = wanted \ {ui.gen}
  BY DEF StopSession
<1> HIDE DEF v
<1>7. /\ ui' = v /\ epoch' = epoch
  BY <1>5, <1>6 DEF Becomes, Bridge
<1>8. UsedUp'
  <2>1. ui'.gen <= clicks' + ui'.last
    BY <1>1, <1>2, <1>3, <1>5, <1>7
  <2>2. epoch' <= clicks' + 1
    BY <1>1, <1>2, <1>3, <1>7
  <2>3. BridgeOn' => BridgeOn
    BY <1>1, <1>5, <1>7 DEF BridgeOn, Bridge
  <2>4. BridgeOn' => epoch' > 0
    BY <1>7, <2>3 DEF IInv, UsedUp
  <2>. QED
    BY <2>1, <2>2, <2>4 DEF UsedUp
<1>9. Typed'
  BY <1>1, <1>5, <1>6, <1>7 DEF IInv, Typed
<1>10. OneBusy'
  BY <1>6 DEF IInv, OneBusy
<1>11. Seen' /\ Session'
  BY <1>1, <1>5, <1>6, <1>7 DEF IInv, Seen, Session
<1>12. TasksFit'
  BY <1>1, <1>5, <1>6, <1>7, TaskGoesOn DEF TasksFit
<1>. QED
  BY <1>8, <1>9, <1>10, <1>11, <1>12 DEF IInv

\* The status that a poll brings while its activation lasts.
Fetched(t) ==
  /\ t \in tasks /\ t.kind = "poll" /\ t.served
  /\ t.epoch = epoch /\ Fresh(t.ev)

\* Its event is a later one than was seen, which leaves room for a generation.
LEMMA FetchedIsNew ==
  ASSUME IInv, NEW t, Fetched(t)
  PROVE  /\ t \in Tasks /\ t.ev \in EventIds /\ t.ev \in Nat /\ t.ev <= Len(events)
         /\ ui.last < t.ev /\ t.ev \in 1..Len(events)
         /\ t.ev \notin submitted \cup composed
         /\ ui.gen + 1 <= clicks + t.ev /\ ui.gen + 1 \in Generations
<1> USE ConstantsAssumption DEF ConstantsAssumption
<1>1. t \in Tasks /\ TaskFits(t) /\ ui.last \in Nat /\ Len(events) \in Nat
      /\ Len(events) <= MaxUtterances /\ ui.gen \in Nat /\ clicks \in Nat
      /\ clicks <= MaxClicks
  BY Known DEF Fetched
<1>2. t.ev \in Nat
  BY <1>1 DEF Tasks, EventIds
<1>3. t.ev <= Len(events) /\ ui.last <= t.ev /\ t.ev # ui.last
  BY <1>1 DEF TaskFits, Fetched, Fresh
<1>4. submitted \cup composed \subseteq 1..ui.last
  BY DEF IInv, Seen
<1>5. ui.gen <= clicks + ui.last
  BY DEF IInv, UsedUp
<1>6. ui.last < t.ev /\ ui.gen + 1 <= clicks + t.ev /\ t.ev \in 1..Len(events)
  BY <1>1, <1>2, <1>3, <1>5
<1>7. t.ev \notin submitted \cup composed
  BY <1>1, <1>2, <1>4, <1>6
<1>8. ui.gen + 1 \in Generations
  BY <1>1, <1>2, <1>3, <1>6 DEF Generations
<1>9. t.ev \in EventIds
  BY <1>1, <1>2, <1>3 DEF EventIds
<1>. QED
  BY <1>1, <1>2, <1>3, <1>6, <1>7, <1>8, <1>9

\* The window sees an event: the session goes on, or is stopped by it.
LEMMA SeesStep ==
  ASSUME IInv, NEW t, Fetched(t), NEW v, NEW new,
         v \in Ui, v.last = t.ev, v.dictation => ui.dictation,
         v.target = "voice" => v.active,
         \/ v.gen = ui.gen /\ v.active = ui.active /\ wanted' = wanted
         \/ v.gen = ui.gen + 1 /\ ~v.active /\ wanted' = wanted \ {ui.gen},
         Becomes(v), Awaited(t, new), UNCHANGED <<worker, bounds>>,
         submitted' \cup composed' \subseteq submitted \cup composed \cup {t.ev},
         new \subseteq Tasks,
         \A n \in new :
           /\ n.kind \in BusyKinds => n.kind = "turn" /\ n.epoch = t.epoch
           /\ n.kind # "poll" /\ n.epoch <= epoch /\ n.ev <= Len(events)
           /\ n.gen <= v.gen /\ (n.gen # 0 /\ n.gen = v.gen => v.active),
         \A n, m \in new : n = m
  PROVE  IInv'
<1> USE ConstantsAssumption DEF ConstantsAssumption
<1>1. epoch \in Nat /\ ui.gen \in Nat /\ ui.last \in Nat /\ clicks \in Nat
      /\ Len(events) \in Nat /\ t.ev \in Nat /\ t.ev <= Len(events) /\ ui.last < t.ev
      /\ ui.gen + 1 <= clicks + t.ev
  BY Known, FetchedIsNew
<1>2. ui' = v /\ epoch' = epoch
  <2>1. Bridge(v) => Bridge(ui)
    BY DEF Bridge
  <2>. QED
    BY <2>1 DEF Becomes
<1>3. UsedUp'
  <2>1. ui'.gen = ui.gen \/ ui'.gen = ui.gen + 1
    BY <1>2
  <2>2. ui'.last = t.ev /\ clicks' = clicks
    BY <1>2
  <2>3. ui'.gen <= clicks' + ui'.last
    BY <1>1, <2>1, <2>2
  <2>4. epoch <= clicks + 1
    BY DEF IInv, UsedUp
  <2>5. BridgeOn' => BridgeOn
    BY <1>2 DEF BridgeOn, Bridge
  <2>6. BridgeOn' => epoch' > 0
    BY <1>2, <2>5 DEF IInv, UsedUp
  <2>7. epoch' <= clicks' + 1
    BY <1>2, <2>2, <2>4
  <2>. QED
    BY <2>3, <2>6, <2>7 DEF UsedUp
<1>4. Typed'
  BY <1>2 DEF IInv, Typed, Awaited
<1>5. OneBusy'
  <2>1. \A n \in new : n.kind \in BusyKinds => t.kind \in BusyKinds /\ n.epoch = t.epoch
    BY DEF Fetched, BusyKinds
  <2>2. t \in tasks /\ tasks' = (tasks \ {t}) \cup new
    BY DEF Awaited, Fetched
  <2>3. \A n, m \in new : n.kind \in BusyKinds /\ m.kind \in BusyKinds => n = m
    OBVIOUS
  <2>4. OneBusy /\ t \in tasks
    BY <2>2 DEF IInv
  <2>. QED
    BY <2>1, <2>2, <2>3, <2>4, BusyReplaced
<1>6. Seen'
  <2>1. submitted \cup composed \subseteq 1..ui.last
    BY DEF IInv, Seen
  <2>2. 1..ui.last \subseteq 1..t.ev /\ t.ev \in 1..t.ev
    BY <1>1
  <2>3. submitted' \cup composed' \subseteq 1..ui'.last
    BY <1>2, <2>1, <2>2
  <2>. QED
    BY <1>1, <1>2, <2>3 DEF Seen
<1>7. Session'
  BY <1>2 DEF IInv, Session
<1>8. TasksFit'
  <2>1. ASSUME NEW n \in tasks, n # t
        PROVE  TaskFits(n)'
    <3>1. ~(n.kind = "poll" /\ n.epoch = epoch)
      BY <2>1 DEF IInv, OneBusy, Fetched, BusyKinds
    <3>. QED
      BY <1>2, <3>1, TaskGoesOn
  <2>2. ASSUME NEW n \in new
        PROVE  TaskFits(n)'
    BY <1>2 DEF TaskFits
  <2>. QED
    BY <2>1, <2>2 DEF TasksFit, Awaited
<1>. QED
  BY <1>3, <1>4, <1>5, <1>6, <1>7, <1>8 DEF IInv

\* handleVoiceTranscript
LEMMA SubmitsStep ==
  ASSUME IInv, NEW t, Fetched(t), NEW u, NEW gen \in Generations,
         gen # 0 => gen = ui.gen /\ ui.active,
         u \in Ui, u.last = t.ev, u.gen = ui.gen, u.active = ui.active,
         u.dictation = ui.dictation, u.target = "none",
         Submits(t.ev, u, t, gen), UNCHANGED <<worker, bounds>>
  PROVE  IInv'
<1>1. t \in tasks /\ t \in Tasks /\ t.kind = "poll" /\ t.epoch = epoch /\ t.ev \in EventIds
      /\ t.ev <= Len(events) /\ t.ev \in 1..Len(events)
  BY FetchedIsNew DEF Fetched
<1>2. ui.gen \in Nat /\ epoch \in Epochs /\ epoch \in Nat /\ gen \in Nat /\ 0 \in Epochs
  BY Known
<1>3. CASE u.pending
  <2> DEFINE new == ListensAgain(gen, t.ev)
  <2>1. Awaited(t, new) /\ Becomes(u) /\ UNCHANGED <<submitted, composed, wanted>>
    BY <1>3 DEF Submits
  <2>2. /\ new \subseteq Tasks
        /\ \A n \in new : n.kind = "relisten" /\ n.gen = gen /\ TaskFits(n)
        /\ \A n, m \in new : n = m
    BY <1>1, ListensAgainIs
  <2> HIDE DEF new
  <2>3. \A n \in new :
          /\ n.kind \in BusyKinds => n.kind = "turn" /\ n.epoch = t.epoch
          /\ n.kind # "poll" /\ n.epoch <= epoch /\ n.ev <= Len(events)
          /\ n.gen <= u.gen /\ (n.gen # 0 /\ n.gen = u.gen => u.active)
    BY <2>2 DEF TaskFits, BusyKinds
  <2>. QED
    BY <2>1, <2>2, <2>3, SeesStep
<1>4. CASE ~u.pending
  <2> DEFINE n == Task("turn", gen, t.ev, t.epoch)
             v == [u EXCEPT !.pending = TRUE]
  <2>1. Awaited(t, {n}) /\ Becomes(v) /\ submitted' = submitted \cup {t.ev}
        /\ UNCHANGED <<composed, wanted>>
    BY <1>4 DEF Submits
  <2>2. /\ n \in Tasks /\ n.kind = "turn" /\ n.gen = gen /\ n.ev = t.ev
        /\ n.epoch = t.epoch
    BY <1>1, <1>2, Known DEF Task, Tasks
  <2>3. /\ v \in Ui /\ v.last = t.ev /\ v.gen = ui.gen /\ v.active = ui.active
        /\ v.dictation = ui.dictation /\ v.target = "none"
    BY DEF Ui
  <2> HIDE DEF n, v
  <2>4. /\ n.kind \in BusyKinds => n.kind = "turn" /\ n.epoch = t.epoch
        /\ n.kind # "poll" /\ n.epoch <= epoch /\ n.ev <= Len(events)
        /\ n.gen <= v.gen /\ (n.gen # 0 /\ n.gen = v.gen => v.active)
    BY <1>1, <1>2, <2>2, <2>3
  <2>. QED
    BY <2>1, <2>2, <2>3, <2>4, SeesStep
<1>. QED
  BY <1>3, <1>4

\* consumeVoiceTranscript
LEMMA ConsumeStep ==
  ASSUME IInv, NEW t, Fetched(t), Consume(t.ev, t), UNCHANGED <<worker, bounds>>
  PROVE  IInv'
<1> DEFINE seen == [ui EXCEPT !.last = t.ev]
           heard == [seen EXCEPT !.listening = FALSE, !.target = "none"]
           words == events[t.ev].text = "words"
<1>1. /\ seen \in Ui /\ seen.last = t.ev /\ seen.gen = ui.gen /\ seen.active = ui.active
      /\ seen.dictation = ui.dictation /\ seen.target = ui.target
  BY Known, FetchedIsNew DEF Ui
<1>2. /\ heard \in Ui /\ heard.last = t.ev /\ heard.gen = ui.gen
      /\ heard.active = ui.active /\ heard.dictation = ui.dictation
      /\ heard.target = "none"
  BY <1>1 DEF Ui, Targets
<1>3. ui.target \in {"none", "dictation", "voice"} /\ ui.gen \in Generations /\ 0 \in Generations
  BY Known DEF Ui, Targets
<1> DEFINE dictated == [seen EXCEPT !.dictation = FALSE, !.target = "none"]
           noted == [seen EXCEPT !.ignore = FALSE]
<1>4. /\ dictated \in Ui /\ dictated.last = t.ev /\ dictated.gen = ui.gen
      /\ dictated.active = ui.active /\ ~dictated.dictation /\ dictated.target = "none"
  BY <1>1 DEF Ui, Targets
<1>5. /\ noted \in Ui /\ noted.last = t.ev /\ noted.gen = ui.gen
      /\ noted.active = ui.active /\ noted.dictation = ui.dictation
      /\ noted.target = ui.target
  BY <1>1 DEF Ui
<1>6. CASE ui.target = "dictation"
  <2>1. /\ Awaited(t, {}) /\ Becomes(dictated) /\ UNCHANGED <<submitted, wanted>>
        /\ composed' \in {composed, composed \cup {t.ev}}
    BY <1>6 DEF Consume
  <2> HIDE DEF dictated
  <2>. QED
    BY <1>4, <2>1, SeesStep
<1>7. CASE ui.target = "voice" /\ words
  <2>1. Submits(t.ev, heard, t, ui.gen)
    BY <1>7 DEF Consume
  <2>2. ui.active
    BY <1>7, Known
  <2> HIDE DEF heard
  <2>. QED
    BY <1>2, <1>3, <2>1, <2>2, SubmitsStep
<1>8. CASE ui.target = "voice" /\ ~words
  <2> DEFINE v == Stopped(heard)
  <2>1. /\ v \in Ui /\ v.gen = ui.gen + 1 /\ ~v.active /\ v.last = t.ev
        /\ v.dictation = ui.dictation /\ v.target # "voice"
    BY <1>2, FetchedIsNew, StoppedIs
  <2>2. Awaited(t, {}) /\ Becomes(v) /\ UNCHANGED <<composed, submitted>>
        /\ wanted' = wanted \ {ui.gen}
    BY <1>8 DEF Consume, PutsAside
  <2> HIDE DEF v
  <2>. QED
    BY <2>1, <2>2, SeesStep
<1>9. CASE ui.target = "none" /\ ui.ignore
  <2>1. Awaited(t, {}) /\ Becomes(noted) /\ UNCHANGED <<composed, submitted, wanted>>
    BY <1>9 DEF Consume, PutsAside
  <2> HIDE DEF noted
  <2>. QED
    BY <1>5, <1>9, <2>1, SeesStep
<1>10. CASE ui.target = "none" /\ ~ui.ignore /\ ~words
  <2>1. Awaited(t, {}) /\ Becomes(seen) /\ UNCHANGED <<composed, submitted, wanted>>
    BY <1>10 DEF Consume, PutsAside
  <2> HIDE DEF seen
  <2>. QED
    BY <1>1, <1>10, <2>1, SeesStep
<1>11. CASE ui.target = "none" /\ ~ui.ignore /\ words
  <2>1. Submits(t.ev, seen, t, 0)
    BY <1>11 DEF Consume
  <2> HIDE DEF seen
  <2>. QED
    BY <1>1, <1>3, <1>11, <2>1, SubmitsStep
<1>. QED
  BY <1>3, <1>6, <1>7, <1>8, <1>9, <1>10, <1>11

LEMMA PollAnsweredStep ==
  ASSUME IInv, NEW t \in tasks, PollAnswered(t)
  PROVE  IInv'
<1> DEFINE cancelled == t.epoch # epoch \/ ~Bridge(ui)
           heard == t.ev # 0 /\ events[t.ev].text # "rejected"
<1>1. CASE ~cancelled /\ heard /\ Fresh(t.ev)
  <2>1. Fetched(t) /\ Consume(t.ev, t)
    BY <1>1 DEF PollAnswered, Fetched
  <2>. QED
    BY <2>1, ConsumeStep DEF PollAnswered
<1>2. CASE ~(~cancelled /\ heard /\ Fresh(t.ev))
  <2>1. PutsAside(ui, t) /\ UNCHANGED wanted
    BY <1>2 DEF PollAnswered
  <2>. QED
    BY <2>1, Known, LastCallback DEF PollAnswered, PutsAside
<1>. QED
  BY <1>1, <1>2

-----------------------------------------------------------------------------
(* The invariant                                                           *)

LEMMA Initially == Init => IInv
<1> SUFFICES ASSUME Init PROVE IInv
  OBVIOUS
<1> USE ConstantsAssumption DEF ConstantsAssumption
<1>1. /\ 0 \in EventIds /\ 0 \in Generations /\ 0 \in Epochs /\ 1 \in Epochs
  BY DEF EventIds, Generations, Epochs
<1>2. ui \in Ui /\ ui.gen = 0 /\ ui.last = 0 /\ ~ui.active /\ ~ui.dictation
      /\ ui.target = "none"
  BY <1>1 DEF Init, Loaded, Ui, Targets
<1>3. Typed
  <2>1. events \in Seq([for : Purposes, text : Outcomes]) /\ Len(events) <= MaxUtterances
    BY DEF Init
  <2>2. epoch \in Epochs /\ tasks \subseteq Tasks /\ wanted \subseteq Generations
    BY <1>1 DEF Init
  <2>3. wake \in BOOLEAN /\ looping \in BOOLEAN /\ slot \in Targets
    BY DEF Init, Targets
  <2>4. clicks \in 0..MaxClicks /\ polls \in 0..MaxPolls
    BY DEF Init
  <2>. QED
    BY <1>2, <2>1, <2>2, <2>3, <2>4 DEF Typed
<1>4. OneBusy /\ TasksFit
  BY DEF Init, OneBusy, TasksFit
<1>5. UsedUp
  BY <1>2 DEF Init, UsedUp, BridgeOn, Bridge
<1>6. Seen /\ Session
  BY <1>2 DEF Init, Seen, Session
<1>. QED
  BY <1>3, <1>4, <1>5, <1>6 DEF IInv

\* Every step keeps the invariant.
LEMMA Stepwise == IInv /\ [Next]_vars => IInv'
<1> SUFFICES ASSUME IInv, [Next]_vars PROVE IInv'
  OBVIOUS
<1>1. CASE User
  BY <1>1, DictationStep, StartStep, StopStep, TypeStep, StopTurnStep DEF User
<1>2. CASE Worker
  BY <1>2, WorkerSteps
<1>3. CASE Poll
  BY <1>3, PollStep
<1>4. ASSUME NEW t \in tasks, ServeRequest(t)
      PROVE  IInv'
  BY <1>4, ServeStep
<1>5. ASSUME NEW t \in tasks, RequestFails(t)
      PROVE  IInv'
  BY <1>5, AnsweredStep
<1>6. ASSUME NEW t \in tasks, Returns(t)
      PROVE  IInv'
  BY <1>6, RequestListenStep, CueEndsStep, AnsweredStep, PollAnsweredStep, LineStep,
     TurnEndsStep, ReplyStep, SpeakEndsStep DEF Returns
<1>8. ASSUME NEW t \in tasks, ReportProgress(t) \/ SpeakFiller(t)
      PROVE  IInv'
  BY <1>8, ReportProgressStep, SpeakFillerStep
<1>7. CASE UNCHANGED vars
  BY <1>7 DEF vars, IInv, Typed, OneBusy, UsedUp, BridgeOn, Bridge, Seen, Session,
     TasksFit, TaskFits
<1>. QED
  BY <1>1, <1>2, <1>3, <1>4, <1>5, <1>6, <1>7, <1>8 DEF Next

LEMMA Invariant == Spec => []IInv
  BY Initially, Stepwise, PTL DEF Spec

\* Every reachable state is well typed, and each activation of the bridge is busy
\* with one thing at most.
THEOREM TypeCorrect == Spec => []TypeOK
<1>1. IInv => TypeOK
  <2> SUFFICES ASSUME IInv PROVE TypeOK
    OBVIOUS
  <2>1. submitted \subseteq 1..Len(events) /\ composed \subseteq 1..Len(events)
    <3>1. 1..ui.last \subseteq 1..Len(events)
      BY Known DEF IInv, Seen
    <3>. QED
      BY <3>1 DEF IInv, Seen
  <2>2. \A e \in 1..epoch :
          Cardinality({t \in tasks : t.epoch = e /\ t.kind \in BusyKinds}) <= 1
    BY AtMostOne DEF IInv
  <2>. QED
    BY <2>1, <2>2 DEF IInv, Typed, TypeOK, Ui
<1>. QED
  BY <1>1, Invariant, PTL

-----------------------------------------------------------------------------
(* What a step may begin                                                   *)

\* What is asked for or spoken is for a session that goes on, or was queued.
Wanted(n) == Heard(n) => n.gen \in wanted \/ WasQueued(n)

\* A turn that is begun.
Begun(n) == n.kind = "turn" /\ n.line = 0 /\ ~n.served

\* A step that uses no utterance: no turn is begun, nothing is composed.
UsesNone ==
  /\ composed' = composed
  /\ \A n \in tasks' \ tasks : ~Begun(n) /\ Wanted(n)

\* A task that neither begins a turn nor is heard.
Plain(n) ==
  n.kind \notin {"turn", "cue", "listen", "filler", "queued", "line", "speak"}

LEMMA PlainStep ==
  ASSUME composed' = composed, \A n \in tasks' \ tasks : Plain(n)
  PROVE  UsesNone
  BY DEF Plain, UsesNone, Begun, Wanted, Heard

LEMMA UserUsesNone ==
  ASSUME IInv, User
  PROVE  UsesNone
<1>1. composed' = composed
  BY DEF User, ToggleDictation, StartSession, StopSession, Type, StopTurn, Click
<1>2. ASSUME NEW kind, NEW gen, NEW ev, NEW ep,
             kind \in {"dictate", "start", "typed", "poll", "relisten"}
      PROVE  Plain(Task(kind, gen, ev, ep))
  BY <1>2 DEF Plain, Task
<1>3. CASE ToggleDictation
  <2>1. tasks' = tasks \cup {Task("dictate", 0, 0, 0)}
    BY <1>3 DEF ToggleDictation, Request
  <2>2. \A n \in tasks' \ tasks : Plain(n)
    BY <1>2, <2>1
  <2>. QED
    BY <1>1, <2>2, PlainStep
<1>4. CASE StartSession
  <2>1. tasks' = tasks \cup {Task("start", ui.gen + 1, 0, 0)}
    BY <1>4 DEF StartSession, Request
  <2>2. \A n \in tasks' \ tasks : Plain(n)
    BY <1>2, <2>1
  <2>. QED
    BY <1>1, <2>2, PlainStep
<1>5. CASE Type
  <2>1. tasks' = tasks \cup {Task("typed", 0, clicks, 0)}
    BY <1>5 DEF Type
  <2>2. \A n \in tasks' \ tasks : Plain(n)
    BY <1>2, <2>1
  <2>. QED
    BY <1>1, <2>2, PlainStep
<1>6. CASE StopSession \/ StopTurn
  BY <1>1, <1>6 DEF StopSession, StopTurn, UsesNone
<1>. QED
  BY <1>3, <1>4, <1>5, <1>6 DEF User

LEMMA WorkerUsesNone ==
  ASSUME IInv, Worker \/ Poll \/ \E t \in tasks : ServeRequest(t)
  PROVE  UsesNone
<1>1. CASE Worker
  BY <1>1 DEF Worker, SayWakeWord, CaptureQueued, LoopChanges, WorkerStep, UsesNone
<1>2. CASE Poll
  <2>1. tasks' = tasks \cup {Task("poll", 0, 0, epoch)} /\ composed' = composed
    BY <1>2 DEF Poll
  <2>2. Plain(Task("poll", 0, 0, epoch))
    BY DEF Plain, Task
  <2>. QED
    BY <2>1, <2>2, PlainStep
<1>3. ASSUME NEW t \in tasks, ServeRequest(t)
      PROVE  UsesNone
  <2> DEFINE s == [t EXCEPT !.served = TRUE,
                            !.ev = IF t.kind = "poll" THEN Len(events) ELSE @]
  <2>1. s.kind = t.kind /\ s.served = TRUE /\ t.kind # "turn"
    BY <1>3, Known DEF Tasks, ServeRequest
  <2>2. tasks' = (tasks \ {t}) \cup {s} /\ composed' = composed
    BY <1>3 DEF ServeRequest, WorkerStep
  <2> HIDE DEF s
  <2>. QED
    BY <2>1, <2>2 DEF UsesNone, Begun, Wanted, Heard
<1>. QED
  BY <1>1, <1>2, <1>3

\* What a turn speaks is for a session that goes on.
LEMMA SpokenIsWanted ==
  ASSUME IInv, NEW t \in tasks, ShouldSpeak(t.gen)
  PROVE  t.gen = 0 \/ t.gen \in wanted
  BY DEF ShouldSpeak, IInv, TasksFit, TaskFits, Session

\* The turn goes on with a line that is wanted.
LEMMA SpeaksWanted ==
  ASSUME IInv, NEW t \in tasks, ShouldSpeak(t.gen), composed' = composed,
         NEW s, ~Begun(s), s.kind = "turn",
         NEW kind \in {"filler", "queued", "line"}, NEW n \in 0..MaxLines,
         Awaited(t, {s, Line(t, kind, n)})
  PROVE  UsesNone
<1> DEFINE l == Line(t, kind, n)
<1>1. l.kind = kind /\ l.gen = t.gen
  BY LineIs
<1>2. Awaited(t, {s, l}) /\ (t.gen = 0 \/ t.gen \in wanted)
  BY SpokenIsWanted
<1> HIDE DEF l
<1>. QED
  BY <1>1, <1>2 DEF Awaited, UsesNone, Begun, Wanted, Heard

LEMMA TurnUsesNone ==
  ASSUME IInv, NEW t \in tasks,
         \/ ReportProgress(t) \/ SpeakFiller(t) \/ NextLine(t) \/ LineEnds(t)
         \/ TurnEnds(t) \/ Reply(t)
  PROVE  UsesNone
<1>0. composed' = composed /\ t \in Tasks
  BY Known DEF ReportProgress, SpeakFiller, NextLine, LineEnds, TurnEnds, Reply, TurnStep
<1>1. CASE ReportProgress(t)
  <2> DEFINE s == [t EXCEPT !.line = @ + 1]
             kind == IF \E l \in Lines(t) : l.kind # "filler" THEN "queued" ELSE "line"
  <2>1. t.kind = "turn" /\ t.line \in 0..MaxLines /\ t.line < MaxLines /\ ShouldSpeak(t.gen)
        /\ Awaited(t, {s, Line(t, kind, t.line + 1)})
    BY <1>0, <1>1 DEF ReportProgress, Tasks
  <2>2. t.line + 1 \in 0..MaxLines /\ t.line + 1 # 0
    BY <2>1, ConstantsAssumption DEF ConstantsAssumption
  <2>3. s.kind = "turn" /\ ~Begun(s) /\ kind \in {"filler", "queued", "line"}
    BY <1>0, <2>1, <2>2 DEF Tasks, Begun
  <2> HIDE DEF s, kind
  <2>. QED
    BY <1>0, <2>1, <2>2, <2>3, SpeaksWanted
<1>2. CASE SpeakFiller(t)
  <2> DEFINE s == [t EXCEPT !.served = TRUE]
  <2>1. t.kind = "turn" /\ ShouldSpeak(t.gen) /\ Awaited(t, {s, Line(t, "filler", 0)})
    BY <1>2 DEF SpeakFiller
  <2>2. s.kind = "turn" /\ ~Begun(s)
    BY <1>0, <2>1 DEF Tasks, Begun
  <2> HIDE DEF s
  <2>. QED
    BY <1>0, <2>1, <2>2, Known, SpeaksWanted
<1>3. CASE NextLine(t)
  <2> DEFINE n == [t EXCEPT !.kind = "line"]
  <2>1. t.kind = "queued" /\ Awaited(t, {n})
    BY <1>3 DEF NextLine
  <2>2. n.kind = "line" /\ [n EXCEPT !.kind = "queued"] = t
    BY <1>0, <2>1 DEF Tasks
  <2> HIDE DEF n
  <2>. QED
    BY <1>0, <2>1, <2>2 DEF Awaited, UsesNone, Begun, Wanted, WasQueued
<1>4. CASE LineEnds(t)
  BY <1>0, <1>4 DEF LineEnds, Awaited, UsesNone
<1>5. CASE TurnEnds(t)
  <2>1. Plain(Task("lines", t.gen, t.ev, t.epoch))
        /\ Awaited(t, {Task("lines", t.gen, t.ev, t.epoch)})
    BY <1>5 DEF TurnEnds, Plain, Task
  <2>. QED
    BY <1>0, <2>1, PlainStep DEF Awaited
<1>6. CASE Reply(t)
  <2> DEFINE n == Task("speak", t.gen, t.ev, t.epoch)
  <2>1. CASE ShouldSpeak(t.gen)
    <3>1. Awaited(t, {n}) /\ (t.gen = 0 \/ t.gen \in wanted)
      BY <1>6, <2>1, SpokenIsWanted DEF Reply
    <3>2. n.kind = "speak" /\ n.gen = t.gen
      BY DEF Task
    <3> HIDE DEF n
    <3>. QED
      BY <1>0, <3>1, <3>2 DEF Awaited, UsesNone, Begun, Wanted, Heard
  <2>2. CASE ~ShouldSpeak(t.gen)
    BY <1>0, <1>6, <2>2 DEF Reply, Awaited, UsesNone
  <2>. QED
    BY <2>1, <2>2
<1>. QED
  BY <1>1, <1>2, <1>3, <1>4, <1>5, <1>6

LEMMA CallbackUsesNone ==
  ASSUME IInv, NEW t \in tasks, RequestFails(t) \/ Returns(t), ~PollAnswered(t)
  PROVE  UsesNone
<1>2. CASE RequestListen(t)
  <2>0. composed' = composed
    BY <1>2 DEF RequestListen
  <2>1. CASE ui.listening \/ ui.pending \/ ~StillCurrent(ui, t.gen)
    BY <1>2, <2>0, <2>1 DEF RequestListen, Awaited, UsesNone
  <2>2. CASE ~(ui.listening \/ ui.pending \/ ~StillCurrent(ui, t.gen))
    <3> DEFINE n == Request(IF t.kind = "start" /\ ~ui.cued THEN "cue" ELSE "listen", t.gen)
    <3>1. n.kind \in {"cue", "listen"} /\ n.gen = t.gen
      BY DEF Request, Task
    <3>2. t.gen \in wanted
      BY <2>2 DEF StillCurrent, IInv, Session
    <3>3. Awaited(t, {n})
      BY <1>2, <2>2 DEF RequestListen
    <3> HIDE DEF n
    <3>. QED
      BY <2>0, <3>1, <3>2, <3>3 DEF Awaited, UsesNone, Begun, Wanted
  <2>. QED
    BY <2>1, <2>2
<1>3. CASE CueEnds(t)
  <2>0. composed' = composed
    BY <1>3 DEF CueEnds
  <2>1. CASE CurrentAfterCue(t.gen)
    <3> DEFINE n == Request("listen", t.gen)
    <3>1. n.kind = "listen" /\ n.gen = t.gen
      BY DEF Request, Task
    <3>2. t.gen \in wanted
      BY <2>1 DEF CurrentAfterCue, StillCurrent, IInv, Session
    <3>3. Awaited(t, {n})
      BY <1>3, <2>1 DEF CueEnds
    <3> HIDE DEF n
    <3>. QED
      BY <2>0, <3>1, <3>2, <3>3 DEF Awaited, UsesNone, Begun, Wanted
  <2>2. CASE ~CurrentAfterCue(t.gen)
    BY <1>3, <2>0, <2>2 DEF CueEnds, Awaited, UsesNone
  <2>. QED
    BY <2>1, <2>2
<1>4. CASE ListenAnswered(t) \/ DictateAnswered(t) \/ RequestFails(t) \/ TypedEnds(t)
  BY <1>4 DEF ListenAnswered, DictateAnswered, RequestFails, TypedEnds, Awaited, UsesNone
<1>5. CASE NextLine(t) \/ LineEnds(t) \/ TurnEnds(t) \/ Reply(t)
  BY <1>5, TurnUsesNone
<1>6. CASE SpeakEnds(t)
  <2>1. composed' = composed /\ Awaited(t, ListensAgain(t.gen, t.ev))
    BY <1>6 DEF SpeakEnds, TurnStep
  <2>2. /\ Plain(Task("relisten", t.gen, t.ev, 0))
        /\ ListensAgain(t.gen, t.ev) \in SUBSET {Task("relisten", t.gen, t.ev, 0)}
    BY DEF ListensAgain, Plain, Task
  <2>. QED
    BY <2>1, <2>2, PlainStep DEF Awaited
<1>. QED
  BY <1>2, <1>3, <1>4, <1>5, <1>6 DEF Returns

\* The answer to a poll uses the event that it fetched, or none.
UsesOnly(e) ==
  /\ composed' \subseteq composed \cup {e}
  /\ \A n \in tasks' \ tasks : (n.kind = "turn" => n.ev = e) /\ ~Heard(n)

LEMMA PollUses ==
  ASSUME IInv, NEW t \in tasks, PollAnswered(t)
  PROVE  UsesNone \/ (Fetched(t) /\ UsesOnly(t.ev))
<1> DEFINE cancelled == t.epoch # epoch \/ ~Bridge(ui)
           heard == t.ev # 0 /\ events[t.ev].text # "rejected"
<1>1. CASE ~(~cancelled /\ heard /\ Fresh(t.ev))
  BY <1>1 DEF PollAnswered, PutsAside, Awaited, UsesNone
<1>2. CASE ~cancelled /\ heard /\ Fresh(t.ev)
  <2>1. Fetched(t) /\ Consume(t.ev, t)
    BY <1>2 DEF PollAnswered, Fetched
  <2>2. ASSUME NEW u, NEW gen, Submits(t.ev, u, t, gen)
        PROVE  UsesOnly(t.ev)
    <3>1. composed' = composed
      BY <2>2 DEF Submits
    <3>2. \/ Awaited(t, ListensAgain(gen, t.ev))
          \/ Awaited(t, {Task("turn", gen, t.ev, t.epoch)})
      BY <2>2 DEF Submits
    <3>. QED
      BY <3>1, <3>2 DEF Awaited, ListensAgain, Task, UsesOnly, Heard
  <2>3. ASSUME Awaited(t, {}), composed' \subseteq composed \cup {t.ev}
        PROVE  UsesOnly(t.ev)
    BY <2>3 DEF Awaited, UsesOnly
  <2>4. ASSUME NEW u, PutsAside(u, t)
        PROVE  UsesOnly(t.ev)
    BY <2>3, <2>4 DEF PutsAside
  <2>5. ui.target \in Targets
    BY Known DEF Ui
  <2>6. CASE ui.target = "dictation"
    BY <2>1, <2>3, <2>6 DEF Consume
  <2>7. CASE ui.target = "voice"
    BY <2>1, <2>2, <2>4, <2>7 DEF Consume
  <2>8. CASE ui.target = "none"
    BY <2>1, <2>2, <2>4, <2>8 DEF Consume
  <2>. QED
    BY <2>1, <2>5, <2>6, <2>7, <2>8 DEF Targets
<1>. QED
  BY <1>1, <1>2

\* Every step uses a new event, or none.
LEMMA StepUses ==
  ASSUME IInv, Next
  PROVE  UsesNone \/ \E t \in tasks : Fetched(t) /\ UsesOnly(t.ev)
<1>1. CASE User \/ Worker \/ Poll \/ \E t \in tasks : ServeRequest(t)
  BY <1>1, UserUsesNone, WorkerUsesNone
<1>2. ASSUME NEW t \in tasks, RequestFails(t) \/ Returns(t), ~PollAnswered(t)
      PROVE  UsesNone
  BY <1>2, CallbackUsesNone
<1>3. ASSUME NEW t \in tasks, PollAnswered(t)
      PROVE  UsesNone \/ (Fetched(t) /\ UsesOnly(t.ev))
  BY <1>3, PollUses
<1>4. ASSUME NEW t \in tasks, ReportProgress(t) \/ SpeakFiller(t)
      PROVE  UsesNone
  BY <1>4, TurnUsesNone
<1>. QED
  BY <1>1, <1>2, <1>3, <1>4 DEF Next

UsedFirst ==
  \A e \in 1..Len(events) :
    \/ \E t \in tasks' \ tasks : t.ev = e /\ t.kind = "turn" /\ t.line = 0 /\ ~t.served
    \/ e \in composed' \ composed
    => e \notin submitted \cup composed

WantedOnes ==
  \A t \in tasks' \ tasks : Heard(t) => t.gen \in wanted \/ WasQueued(t)

\* No utterance is submitted as a turn or put in the composer a second time
\* (consumeVoiceTranscript).
THEOREM UsedButOnce == Spec => UsedOnce
<1>1. IInv /\ Next => UsedFirst
  <2> SUFFICES ASSUME IInv, Next PROVE UsedFirst
    OBVIOUS
  <2>1. CASE UsesNone
    BY <2>1 DEF UsesNone, Begun, UsedFirst
  <2>2. ASSUME NEW t \in tasks, Fetched(t), UsesOnly(t.ev)
        PROVE  UsedFirst
    <3>1. t.ev \notin submitted \cup composed
      BY <2>2, FetchedIsNew
    <3>. QED
      BY <2>2, <3>1 DEF UsesOnly, UsedFirst
  <2>. QED
    BY <2>1, <2>2, StepUses
<1>2. IInv /\ [Next]_vars => [UsedFirst]_vars
  BY <1>1
<1>. QED
  BY <1>2, Invariant, PTL DEF Spec, UsedOnce, UsedFirst

\* A session that was stopped asks for no listen, and speaks and queues nothing more,
\* but for the progress that was queued by then (requestVoiceListen,
\* consumeVoiceTranscript, runVoiceTurnWithSpeech).
THEOREM StoppedIsQuiet == Spec => QuietAfterStop
<1>1. IInv /\ Next => WantedOnes
  <2> SUFFICES ASSUME IInv, Next PROVE WantedOnes
    OBVIOUS
  <2>1. \A n \in tasks' \ tasks : Wanted(n)
    BY StepUses DEF UsesNone, UsesOnly, Wanted
  <2>. QED
    BY <2>1 DEF Wanted, WantedOnes
<1>2. IInv /\ [Next]_vars => [WantedOnes]_vars
  BY <1>1
<1>. QED
  BY <1>2, Invariant, PTL DEF Spec, QuietAfterStop, WantedOnes
=============================================================================
