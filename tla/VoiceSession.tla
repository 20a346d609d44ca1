---------------------------- MODULE VoiceSession ----------------------------
(***************************************************************************)
(* What the chat window makes of speech: dictation into the composer, the   *)
(* hands-free session, and the bridge that polls the voice worker for       *)
(* commands given after the wake word.  The window is one thread whose      *)
(* callbacks run to their next await; what they await, requests to the      *)
(* control plane, turns and timers, ends in any order, while refs of the    *)
(* component carry what the callbacks know of each other.                   *)
(*                                                                         *)
(* The worker is what VoiceWorker says of it: a listen is queued in one     *)
(* slot if a loop has the microphone, and captured at once if not.  An      *)
(* utterance is abstracted to whom it was meant for and what became of it.  *)
(***************************************************************************)
EXTENDS Naturals, Sequences, FiniteSets

CONSTANTS
  MaxClicks,      \* bound on what the user does in the window
  MaxUtterances,  \* bound on the transcriptions of the worker
  MaxPolls,       \* bound on the polls of the bridge
  MaxLines        \* bound on the progress that one turn reports

ASSUME ConstantsAssumption ==
  MaxClicks \in Nat /\ MaxUtterances \in Nat /\ MaxPolls \in Nat /\ MaxLines \in Nat

VARIABLES
  wake,      \* the backend says that the wake word is enabled
  looping,   \* _continuous_active: a loop has the worker's microphone
  slot,      \* the listen that is queued in the worker
  events,    \* the transcription_completed events of the worker, oldest first
  ui,        \* the refs and the state of the component
  epoch,     \* which activation of the bridge's effect this is
  tasks,     \* what the window awaits
  clicks, polls,
  composed,  \* history: utterances put in the composer
  submitted, \* history: utterances submitted as turns
  wanted     \* history: the generations whose session has not been stopped

vars == <<wake, looping, slot, events, ui, epoch, tasks, clicks, polls,
          composed, submitted, wanted>>
worker == <<wake, looping, slot, events>>
bounds == <<clicks, polls>>

Purposes == {"wake", "dictation", "voice"}
Targets == {"none", "dictation", "voice"}

\* A transcript is accepted, refused by the worker, which leaves an event without
\* a text, or taken for noise by the window.
Outcomes == {"words", "rejected", "noise"}
NoEvent == 0
NoGeneration == 0
Generations == 0..(MaxClicks + MaxUtterances)
EventIds == 0..MaxUtterances
Epochs == 0..(2 * MaxClicks + 1)

\* kind start, cue, listen, dictate, poll, filler, line, speak: a request to the control
\* plane; turn, typed: a turn; queued: a line to be spoken after the one before it;
\* lines: the lines of a turn that has ended; relisten: a timer.
\* served: of a request; of a turn, that its filler was spoken.
\* line: the number of a line; of a turn, how many it has reported.
Tasks ==
  [kind : {"start", "cue", "listen", "dictate", "poll", "turn", "filler", "queued", "line",
           "lines", "speak", "typed", "relisten"},
   gen : Generations, ev : EventIds \cup 0..MaxClicks, epoch : Epochs,
   served : BOOLEAN, line : 0..MaxLines]

\* What the bridge is busy with, from the request to the end of what it led to.
BusyKinds == {"poll", "turn", "lines", "speak"}

TypeOK ==
  /\ wake \in BOOLEAN /\ looping \in BOOLEAN
  /\ slot \in Targets
  /\ events \in Seq([for : Purposes, text : Outcomes]) /\ Len(events) <= MaxUtterances
  /\ ui \in [last : EventIds, target : Targets, dictation : BOOLEAN,
             active : BOOLEAN, gen : Generations, listening : BOOLEAN,
             cued : BOOLEAN, ignore : BOOLEAN, pending : BOOLEAN]
  /\ epoch \in Epochs
  /\ tasks \subseteq Tasks
  /\ clicks \in 0..MaxClicks /\ polls \in 0..MaxPolls
  /\ composed \subseteq 1..Len(events) /\ submitted \subseteq 1..Len(events)
  /\ wanted \subseteq Generations
  \* The bridge is busy with one poll at most, and what it led to.
  /\ \A e \in 1..epoch :
       Cardinality({t \in tasks : t.epoch = e /\ t.kind \in BusyKinds}) <= 1

Loaded ==
  [last |-> NoEvent, target |-> "none", dictation |-> FALSE, active |-> FALSE,
   gen |-> 0, listening |-> FALSE, cued |-> FALSE, ignore |-> FALSE,
   pending |-> FALSE]

\* voiceBridgeActive
Bridge(u) == u.dictation \/ wake \/ u.active

Init ==
  /\ wake \in BOOLEAN
  /\ looping = FALSE
  /\ slot = "none"
  /\ events = <<>>
  /\ ui = Loaded
  /\ epoch = IF wake THEN 1 ELSE 0
  /\ tasks = {}
  /\ clicks = 0 /\ polls = 0
  /\ composed = {} /\ submitted = {} /\ wanted = {}

-----------------------------------------------------------------------------

Task(kind, gen, ev, ep) ==
  [kind |-> kind, gen |-> gen, ev |-> ev, epoch |-> ep, served |-> FALSE, line |-> 0]
Request(kind, gen) == Task(kind, gen, NoEvent, 0)

\* The component changes; its effect runs again when the bridge becomes active.
Becomes(u) ==
  /\ ui' = u
  /\ epoch' = IF Bridge(u) /\ ~Bridge(ui) THEN epoch + 1 ELSE epoch

StillCurrent(u, gen) == u.active /\ u.gen = gen

\* The task t is over, and those of new follow from it.
Awaited(t, new) == tasks' = (tasks \ {t}) \cup new

\* stopManualVoiceSession
Stopped(u) ==
  [u EXCEPT !.gen = @ + 1, !.ignore = TRUE, !.active = FALSE, !.listening = FALSE,
            !.cued = FALSE, !.target = IF @ = "voice" THEN "none" ELSE @]

\* A listen that comes to an end without a transcript.
ListenOver(u) == [u EXCEPT !.listening = FALSE, !.target = "none"]

\* The same for one that was overtaken: the target of another is left alone.
Overtaken(u) ==
  [u EXCEPT !.listening = FALSE, !.target = IF @ = "voice" THEN "none" ELSE @]

-----------------------------------------------------------------------------
(* The user                                                                 *)

Click ==
  /\ clicks < MaxClicks
  /\ clicks' = clicks + 1
  /\ UNCHANGED <<worker, polls, composed, submitted>>

ToggleDictation ==
  /\ ~ui.dictation /\ ~ui.pending
  /\ Click
  /\ Becomes([ui EXCEPT !.dictation = TRUE, !.target = "dictation"])
  /\ tasks' = tasks \cup {Request("dictate", NoGeneration)}
  /\ UNCHANGED wanted

StartSession ==
  /\ ~ui.active
  /\ Click
  /\ Becomes([ui EXCEPT !.gen = @ + 1, !.active = TRUE, !.listening = FALSE,
                        !.cued = FALSE])
  /\ tasks' = tasks \cup {Request("start", ui.gen + 1)}
  /\ wanted' = wanted \cup {ui.gen + 1}

StopSession ==
  /\ ui.active
  /\ Click
  /\ Becomes(Stopped(ui))
  /\ wanted' = wanted \ {ui.gen}
  /\ UNCHANGED tasks

\* A message is typed and sent, as a turn of its own.
Type ==
  /\ ~ui.pending
  /\ Click
  /\ Becomes([ui EXCEPT !.pending = TRUE])
  /\ tasks' = tasks \cup {Task("typed", NoGeneration, clicks, 0)}
  /\ UNCHANGED wanted

\* stopChatTurn: the turn is given up before what it awaits has ended.
StopTurn ==
  /\ ui.pending
  /\ Click
  /\ Becomes([ui EXCEPT !.pending = FALSE])
  /\ UNCHANGED <<tasks, wanted>>

-----------------------------------------------------------------------------
(* The worker                                                               *)

Transcribes(purpose) ==
  /\ Len(events) < MaxUtterances
  /\ \E text \in Outcomes : events' = Append(events, [for |-> purpose, text |-> text])

WorkerStep == UNCHANGED <<wake, ui, epoch, bounds, composed, submitted, wanted>>

SayWakeWord ==
  /\ looping
  /\ Transcribes("wake")
  /\ WorkerStep
  /\ UNCHANGED <<looping, slot, tasks>>

\* The loop takes the listen from its slot: an utterance, or silence.
CaptureQueued ==
  /\ looping /\ slot # "none"
  /\ slot' = "none"
  /\ Transcribes(slot) \/ UNCHANGED events
  /\ WorkerStep
  /\ UNCHANGED <<looping, tasks>>

\* The loop starts or ends, by a command of the session or of another window.
LoopChanges ==
  /\ wake
  /\ looping' = ~looping
  /\ WorkerStep
  /\ UNCHANGED <<slot, events, tasks>>

ListensFor(t) == IF t.kind = "dictate" THEN "dictation" ELSE "voice"

\* A request is served.  What a poll will see is what there is now.
ServeRequest(t) ==
  /\ t.kind \in {"listen", "dictate", "poll"} /\ ~t.served
  /\ tasks' = (tasks \ {t}) \cup
       {[t EXCEPT !.served = TRUE,
                  !.ev = IF t.kind = "poll" THEN Len(events) ELSE @]}
  /\ \/ t.kind = "poll" /\ UNCHANGED <<slot, events>>
     \/ t.kind # "poll" /\ looping /\ slot' = ListensFor(t) /\ UNCHANGED events
     \/ /\ t.kind # "poll" /\ ~looping
        /\ Transcribes(ListensFor(t)) \/ UNCHANGED events
        /\ UNCHANGED slot
  /\ WorkerStep
  /\ UNCHANGED looping

-----------------------------------------------------------------------------
(* requestVoiceListen, for a generation of the session                      *)

RequestListen(t) ==
  /\ t \in tasks
  /\ t.kind \in {"start", "relisten"}
  /\ IF ui.listening \/ ui.pending \/ ~StillCurrent(ui, t.gen)
     THEN Awaited(t, {}) /\ UNCHANGED <<ui, epoch>>
     ELSE LET withCue == t.kind = "start" /\ ~ui.cued IN
          /\ Becomes([ui EXCEPT !.listening = TRUE, !.target = "voice",
                                !.cued = @ \/ withCue])
          /\ Awaited(t, {Request(IF withCue THEN "cue" ELSE "listen", t.gen)})
  /\ UNCHANGED <<worker, bounds, composed, submitted, wanted>>

CurrentAfterCue(gen) == StillCurrent(ui, gen)

CueEnds(t) ==
  /\ t \in tasks /\ t.kind = "cue"
  /\ IF CurrentAfterCue(t.gen)
     THEN Awaited(t, {Request("listen", t.gen)}) /\ UNCHANGED <<ui, epoch>>
     ELSE Awaited(t, {}) /\ Becomes(Overtaken(ui))
  /\ UNCHANGED <<worker, bounds, composed, submitted, wanted>>

\* Wrong: the queued listen is seen, and its silence is waited for.
QueuedIfLooping == slot # "none"

\* manualListenQueued looks for recent_events in the answer to the command, which
\* has them in its status: no queued listen is ever seen, and no transcript.
QueuedIsSeen == FALSE

ListenAnswered(t) ==
  /\ t \in tasks /\ t.kind = "listen" /\ t.served
  /\ Awaited(t, {})
  /\ Becomes(IF ~StillCurrent(ui, t.gen) THEN Overtaken(ui)
             ELSE IF QueuedIsSeen THEN ui ELSE ListenOver(ui))
  /\ UNCHANGED <<worker, bounds, composed, submitted, wanted>>

DictationOver(u) ==
  [u EXCEPT !.dictation = FALSE, !.target = IF @ = "dictation" THEN "none" ELSE @]

DictateAnswered(t) ==
  /\ t \in tasks /\ t.kind = "dictate" /\ t.served
  /\ Awaited(t, {})
  /\ Becomes(IF QueuedIsSeen THEN ui ELSE DictationOver(ui))
  /\ UNCHANGED <<worker, bounds, composed, submitted, wanted>>

\* The request fails.  After a start or a cue that fails the session goes on.
RequestFails(t) ==
  /\ t \in tasks /\ t.kind \in {"listen", "dictate"} /\ ~t.served
  /\ Awaited(t, {})
  /\ Becomes(IF t.kind = "listen" THEN ListenOver(ui) ELSE DictationOver(ui))
  /\ UNCHANGED <<worker, bounds, composed, submitted, wanted>>

-----------------------------------------------------------------------------
(* The bridge                                                               *)

\* Wrong: the bridge is free again when the answer is there.
BusyAsking == \E t \in tasks : t.epoch = epoch /\ t.kind = "poll"

Busy == \E t \in tasks : t.epoch = epoch /\ t.kind \in BusyKinds

Poll ==
  /\ Bridge(ui) /\ ~Busy
  /\ polls < MaxPolls
  /\ polls' = polls + 1
  /\ tasks' = tasks \cup {Task("poll", NoGeneration, NoEvent, epoch)}
  /\ UNCHANGED <<worker, ui, epoch, clicks, composed, submitted, wanted>>

\* Wrong: an event is told from the last one by nothing.
FreshAlways(e) == TRUE

Fresh(e) == e # ui.last

\* What a session does when an utterance of it has been dealt with.
ListensAgain(gen, e) ==
  IF gen # NoGeneration /\ ui.gen = gen THEN {Task("relisten", gen, e, 0)} ELSE {}

\* handleVoiceTranscript: send does nothing while a turn is pending.
Submits(e, u, t, gen) ==
  /\ IF u.pending
     THEN /\ Awaited(t, ListensAgain(gen, e))
          /\ Becomes(u)
          /\ UNCHANGED submitted
     ELSE /\ Awaited(t, {Task("turn", gen, e, t.epoch)})
          /\ Becomes([u EXCEPT !.pending = TRUE])
          /\ submitted' = submitted \cup {e}
  /\ UNCHANGED <<composed, wanted>>

\* A transcript that is put aside.
PutsAside(u, t) ==
  /\ Awaited(t, {})
  /\ Becomes(u)
  /\ UNCHANGED <<composed, submitted>>

\* consumeVoiceTranscript, up to its first await.
Consume(e, t) ==
  LET seen == [ui EXCEPT !.last = e]
      heard == [seen EXCEPT !.listening = FALSE, !.target = "none"]
      words == events[e].text = "words"
  IN
  CASE ui.target = "dictation" ->
         /\ Awaited(t, {})
         /\ Becomes([seen EXCEPT !.dictation = FALSE, !.target = "none"])
         /\ composed' = IF words THEN composed \cup {e} ELSE composed
         /\ UNCHANGED <<submitted, wanted>>
    [] ui.target = "voice" /\ words -> Submits(e, heard, t, ui.gen)
    [] ui.target = "voice" /\ ~words ->
         PutsAside(Stopped(heard), t) /\ wanted' = wanted \ {ui.gen}
    [] ui.target = "none" /\ ui.ignore ->
         PutsAside([seen EXCEPT !.ignore = FALSE], t) /\ UNCHANGED wanted
    [] ui.target = "none" /\ ~ui.ignore /\ ~words ->
         PutsAside(seen, t) /\ UNCHANGED wanted
    [] OTHER -> Submits(e, seen, t, NoGeneration)

\* A status arrives.  Its newest transcription counts, if that has a text.
PollAnswered(t) ==
  /\ t \in tasks /\ t.kind = "poll" /\ t.served
  /\ LET cancelled == t.epoch # epoch \/ ~Bridge(ui)
         heard == t.ev # NoEvent /\ events[t.ev].text # "rejected"
     IN IF ~cancelled /\ heard /\ Fresh(t.ev)
        THEN Consume(t.ev, t)
        ELSE PutsAside(ui, t) /\ UNCHANGED wanted
  /\ UNCHANGED <<worker, bounds>>

-----------------------------------------------------------------------------
(* The turn of an utterance, and what it speaks: runVoiceTurnWithSpeech     *)

TurnStep == UNCHANGED <<worker, ui, epoch, bounds, composed, submitted, wanted>>

\* Wrong: it is not looked whether the session was stopped.
ShouldSpeakAlways(gen) == TRUE

ShouldSpeak(gen) == gen = NoGeneration \/ ui.gen = gen

Lines(t) == {l \in tasks : l.epoch = t.epoch /\ l.kind \in {"filler", "queued", "line"}}

Line(t, kind, n) == [Task(kind, t.gen, t.ev, t.epoch) EXCEPT !.line = n]

\* reportProgress: the line is chained to the one before it.
ReportProgress(t) ==
  /\ t.kind = "turn" /\ t.line < MaxLines
  /\ ShouldSpeak(t.gen)
  /\ LET waits == \E l \in Lines(t) : l.kind # "filler"
     IN Awaited(t, {[t EXCEPT !.line = @ + 1],
                    Line(t, IF waits THEN "queued" ELSE "line", t.line + 1)})
  /\ TurnStep

\* The timer of a turn that has reported nothing.
SpeakFiller(t) ==
  /\ t.kind = "turn" /\ t.line = 0 /\ ~t.served
  /\ ShouldSpeak(t.gen)
  /\ Awaited(t, {[t EXCEPT !.served = TRUE], Line(t, "filler", 0)})
  /\ TurnStep

NextLine(t) ==
  /\ t.kind = "queued"
  /\ \A l \in Lines(t) : l.kind # "line" /\ (l.kind = "queued" => t.line <= l.line)
  /\ Awaited(t, {[t EXCEPT !.kind = "line"]})
  /\ TurnStep

LineEnds(t) == t.kind \in {"filler", "line"} /\ Awaited(t, {}) /\ TurnStep

\* send ends, and the next turn may begin; this one awaits its lines.
TurnEnds(t) ==
  /\ t \in tasks /\ t.kind = "turn"
  /\ Becomes([ui EXCEPT !.pending = FALSE])
  /\ Awaited(t, {Task("lines", t.gen, t.ev, t.epoch)})
  /\ UNCHANGED <<worker, bounds, composed, submitted, wanted>>

\* The reply is spoken, unless the session that it belongs to was stopped.
Reply(t) ==
  /\ t.kind = "lines" /\ Lines(t) = {}
  /\ Awaited(t, IF ShouldSpeak(t.gen) THEN {Task("speak", t.gen, t.ev, t.epoch)} ELSE {})
  /\ TurnStep

SpeakEnds(t) ==
  /\ t \in tasks /\ t.kind = "speak"
  /\ Awaited(t, ListensAgain(t.gen, t.ev))
  /\ TurnStep

TypedEnds(t) ==
  /\ t \in tasks /\ t.kind = "typed"
  /\ Awaited(t, {})
  /\ Becomes([ui EXCEPT !.pending = FALSE])
  /\ UNCHANGED <<worker, bounds, composed, submitted, wanted>>

-----------------------------------------------------------------------------

User == ToggleDictation \/ StartSession \/ StopSession \/ Type \/ StopTurn

Worker == SayWakeWord \/ CaptureQueued \/ LoopChanges

Returns(t) ==
  \/ RequestListen(t) \/ CueEnds(t) \/ ListenAnswered(t) \/ DictateAnswered(t)
  \/ PollAnswered(t) \/ TypedEnds(t)
  \/ NextLine(t) \/ LineEnds(t) \/ TurnEnds(t) \/ Reply(t) \/ SpeakEnds(t)

Next ==
  \/ User \/ Worker \/ Poll
  \/ \E t \in tasks :
       ServeRequest(t) \/ RequestFails(t) \/ Returns(t) \/ ReportProgress(t) \/ SpeakFiller(t)

Spec == Init /\ [][Next]_vars

\* What the window awaits ends: a request is served or fails, and is answered.
Fairness == WF_vars(\E t \in tasks : ServeRequest(t) \/ Returns(t))

FairSpec == Spec /\ Fairness

-----------------------------------------------------------------------------
(* Properties                                                              *)

\* An utterance that was submitted as a turn or put in the composer is not used
\* again, though it stays the newest transcription for many polls, and several
\* activations of the bridge may be working at a time (consumeVoiceTranscript).
UsedOnce ==
  [][\A e \in 1..Len(events) :
       \/ \E t \in tasks' \ tasks : t.ev = e /\ t.kind = "turn" /\ t.line = 0 /\ ~t.served
       \/ e \in composed' \ composed
       => e \notin submitted \cup composed]_vars

\* What the session asks for or speaks.
Heard(t) ==
  t.gen # NoGeneration /\ ~t.served
    /\ t.kind \in {"cue", "listen", "filler", "queued", "line", "speak"}

WasQueued(t) == t.kind = "line" /\ [t EXCEPT !.kind = "queued"] \in tasks

\* A listen of the hands-free session is asked for, and a reply to it, a filler or the
\* progress of its turn is spoken or queued, only while the session that wanted it goes
\* on: whatever was awaited when the user stopped it, or it stopped by itself, comes to
\* nothing, but for the progress that was queued by then (requestVoiceListen,
\* consumeVoiceTranscript, runVoiceTurnWithSpeech).
QuietAfterStop ==
  [][\A t \in tasks' \ tasks : Heard(t) => t.gen \in wanted \/ WasQueued(t)]_vars

\* The microphone buttons come back: neither a dictation nor a listen of the
\* session stays on for ever when nothing is said (toggleDictation,
\* requestVoiceListen).
ButtonsComeBack ==
  /\ ui.dictation ~> ~ui.dictation
  /\ ui.listening ~> ~ui.listening

\* "routes a queued composer dictation transcript into the input instead of
\* submitting it": what was dictated is not submitted as a turn.
DictationStays == \A e \in submitted : events[e].for # "dictation"

-----------------------------------------------------------------------------
(* What a stop is for, and the code does not do                             *)

\* A session that was stopped speaks no more.  But whether to speak is asked when a line
\* of progress is queued, and not when its turn to be spoken has come (reportProgress):
\* the lines that wait behind one being spoken are spoken after the stop.
SilentAfterStop == [][\A t \in tasks' \ tasks : Heard(t) => t.gen \in wanted]_vars
=============================================================================
