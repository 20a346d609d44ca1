---------------------------- MODULE VoiceWorker ----------------------------
(***************************************************************************)
(* The voice worker inside the control plane: a facade whose commands are   *)
(* served one at a time by the control thread, and the thread of the wake   *)
(* loop, which reads the microphone, looks for the wake word and captures   *)
(* utterances.  They share the facade's lock, an event that asks the loop   *)
(* to stop, the flags of the controller, and the one slot of a listen that  *)
(* the loop is to carry out.  A stop waits two seconds for the loop and     *)
(* then forgets it, so that loops that were forgotten are actors as well.   *)
(*                                                                         *)
(* A frame of sound is abstracted to whether it has Marvex's own voice in   *)
(* it, and the queue of a microphone stream to whether such frames are in   *)
(* it.                                                                     *)
(***************************************************************************)
EXTENDS Naturals, FiniteSets

CONSTANTS
  MaxLoops,      \* bound on the threads the facade starts
  MaxRequests    \* bound on the commands

ASSUME ConstantsAssumption == MaxLoops \in Nat \ {0} /\ MaxRequests \in Nat

Loops == 1..MaxLoops
Listens == 1..MaxRequests
NoLoop == 0
NoListen == 0
Free == 0
Control == MaxLoops + 1

VARIABLES
  lock,        \* the facade's lock: Free, Control or a loop
  life,        \* controller._state
  enabled,     \* config.wakeword.enabled
  continuous,  \* _continuous_active
  manual,      \* _manual_listen_trace_id: the number of the command, or NoListen
  playing,     \* _playback_active
  cooling,     \* the time of _capture_resume_at has not come
  tickStop,    \* the event _tick_stop
  tickThread,  \* the handle _tick_thread
  loop,        \* each thread: its place, and the listen it carries out
  echo,        \* loops in whose queue there are frames with Marvex's voice
  ctl,         \* the control thread: its place
  requests,
  orphans,     \* history: loops that a stop has forgotten
  quiet,       \* history: the last command that opens or closes was a stop,
               \* and it has returned
  late,        \* history: captures that a loop began since it was told to stop
  served,      \* history: listens that were captured
  selfHeard    \* history: a command after the wake word had Marvex's voice in it

flags == <<life, enabled, manual, playing, tickStop, tickThread>>
history == <<orphans, quiet, late, served, selfHeard>>
vars == <<lock, life, enabled, continuous, manual, playing, cooling, tickStop,
          tickThread, loop, echo, ctl, requests, orphans, quiet, late, served,
          selfHeard>>

Opening == {"start", "resume", "reload_on", "reload_off", "supervisor_start"}
Closing == {"stop", "pause", "supervisor_stop"}
Commands == Opening \cup Closing
              \cup {"listen", "speak", "speak_barge_in", "test_tts", "other"}

\* A loop that is in its while statement.
Reading(l) == loop[l].pc \in {"top", "poll", "grab", "gate", "match", "decode", "capture"}
Alive(l) == loop[l].pc = "new" \/ Reading(l)
Unused == {l \in Loops : loop[l].pc = "none"}

TypeOK ==
  /\ lock \in {Free, Control} \cup Loops
  /\ life \in {"stopped", "running", "paused"}
  /\ enabled \in BOOLEAN /\ continuous \in BOOLEAN
  /\ manual \in Listens \cup {NoListen}
  /\ playing \in BOOLEAN /\ cooling \in BOOLEAN /\ tickStop \in BOOLEAN
  /\ tickThread \in Loops \cup {NoLoop}
  /\ loop \in [Loops -> [pc : {"none", "new", "top", "poll", "grab", "gate", "match",
                               "decode", "capture", "ended"},
                         listen : Listens \cup {NoListen}]]
  /\ echo \subseteq Loops
  /\ ctl \in [pc : {"idle", "lock", "ensure", "close", "join",
                    "play", "barge", "test", "listen", "hold"},
              cmd : Commands]
  /\ requests \in 0..MaxRequests
  /\ orphans \subseteq Loops
  /\ quiet \in BOOLEAN
  /\ late \in [Loops -> Nat]
  /\ served \subseteq Listens
  /\ selfHeard \in BOOLEAN
  \* Whoever has the lock is at a place where it is held, and the other way.
  /\ lock = Control <=> ctl.pc \in {"play", "barge", "test", "listen", "hold"}
  /\ \A l \in Loops : lock = l <=> loop[l].pc \in {"decode", "capture"}

Init ==
  /\ lock = Free
  /\ life = "stopped"
  /\ enabled = TRUE
  /\ continuous = FALSE
  /\ manual = NoListen
  /\ playing = FALSE /\ cooling = FALSE
  /\ tickStop = FALSE /\ tickThread = NoLoop
  /\ loop = [l \in Loops |-> [pc |-> "none", listen |-> NoListen]]
  /\ echo = {}
  /\ ctl = [pc |-> "idle", cmd |-> "other"]
  /\ requests = 0
  /\ orphans = {} /\ quiet = TRUE
  /\ late = [l \in Loops |-> 0]
  /\ served = {} /\ selfHeard = FALSE

-----------------------------------------------------------------------------
(* Commands: the facade takes the lock, the controller handles the command, *)
(* and then the thread of the loop is started or stopped                    *)

Ask(cmd) ==
  /\ ctl.pc = "idle"
  /\ requests < MaxRequests
  /\ cmd \in Opening => Unused # {}
  /\ requests' = requests + 1
  /\ ctl' = [pc |-> "lock", cmd |-> cmd]
  /\ quiet' = (quiet /\ cmd \notin Opening)
  /\ UNCHANGED <<flags, lock, continuous, cooling, loop, echo, orphans, late,
                 served, selfHeard>>

\* A handler that does not block: it has the lock for this step only.
Handles(cmds, next) ==
  /\ ctl.pc = "lock" /\ ctl.cmd \in cmds
  /\ lock = Free
  /\ ctl' = [ctl EXCEPT !.pc = next]
  /\ UNCHANGED <<lock, playing, tickStop, tickThread, continuous, cooling, loop,
                 echo, requests, history>>

HandleLife ==
  /\ \/ Handles({"start", "resume"}, "ensure") /\ life' = "running"
     \/ Handles({"stop"}, "close") /\ life' = "stopped"
     \/ Handles({"pause"}, "close") /\ life' = "paused"
     \/ Handles({"supervisor_start"}, "ensure") /\ life' = life
     \/ Handles({"supervisor_stop"}, "close") /\ life' = life
  /\ UNCHANGED <<enabled, manual>>

\* The loop that runs keeps the configuration it was started with.
HandleReload ==
  /\ Handles({"reload_on", "reload_off"}, "ensure")
  /\ enabled' = (ctl.cmd = "reload_on")
  /\ UNCHANGED <<life, manual>>

\* With a loop on the microphone, a listen is left to it, in the place of any
\* that it has not taken yet.
QueueListen ==
  /\ continuous
  /\ Handles({"listen"}, "idle")
  /\ manual' = requests
  /\ UNCHANGED <<life, enabled>>

\* The text to speak is empty, or the synthesis fails.
SpeakFails ==
  /\ Handles({"speak", "speak_barge_in", "test_tts"}, "idle")
  /\ UNCHANGED <<life, enabled, manual>>

Open(l) == Reading(l)

\* A handler that keeps the lock until what it does has ended.
Blocks(cmds, at) ==
  /\ ctl.pc = "lock" /\ ctl.cmd \in cmds
  /\ lock = Free
  /\ lock' = Control
  /\ ctl' = [ctl EXCEPT !.pc = at]
  /\ UNCHANGED <<life, enabled, continuous, manual, cooling, tickStop, tickThread,
                 loop, requests, history>>

\* The streams that are open record what is played.
Sounds == echo' = echo \cup {l \in Loops : Open(l)}

Speak ==
  /\ ctl.cmd = "speak_barge_in" => continuous
  /\ Blocks({"speak", "speak_barge_in"}, "play")
  /\ playing' = TRUE
  /\ Sounds

\* No guard: the handler itself reads the microphone and lets it interrupt.
SpeakWithBargeIn ==
  /\ ~continuous
  /\ Blocks({"speak_barge_in"}, "barge")
  /\ Sounds
  /\ UNCHANGED playing

\* test_tts and test_playback play without the guard.
TestTts ==
  /\ Blocks({"test_tts"}, "test")
  /\ Sounds
  /\ UNCHANGED playing

DirectListen ==
  /\ ~continuous
  /\ Blocks({"listen"}, "listen")
  /\ UNCHANGED <<playing, echo>>

\* Everything else: a status, a test of the microphone or of a model, a change
\* of a model or a voice, the download of one.
Hold ==
  /\ Blocks({"other"}, "hold")
  /\ UNCHANGED <<playing, echo>>

Unblocks(at) ==
  /\ ctl.pc = at
  /\ lock' = Free
  /\ ctl' = [ctl EXCEPT !.pc = "idle"]
  /\ UNCHANGED <<life, enabled, continuous, manual, tickStop, tickThread, loop,
                 echo, requests, orphans, quiet, late, selfHeard>>

PlayEnds ==
  /\ Unblocks("play")
  /\ playing' = FALSE /\ cooling' = TRUE
  /\ UNCHANGED served

ListenEnds ==
  /\ Unblocks("listen")
  /\ served' = served \cup {requests}
  /\ UNCHANGED <<playing, cooling>>

HoldEnds ==
  /\ \E at \in {"barge", "test", "hold"} : Unblocks(at)
  /\ UNCHANGED <<playing, cooling, served>>

-----------------------------------------------------------------------------
(* The facade's thread                                                      *)

NeedsThread == ~\E l \in Loops : l = tickThread /\ Alive(l)

Ensure ==
  /\ ctl.pc = "ensure"
  /\ ctl' = [ctl EXCEPT !.pc = "idle"]
  /\ IF NeedsThread
     THEN \E l \in Unused :
            /\ \A m \in Unused : l <= m
            /\ tickStop' = FALSE
            /\ loop' = [loop EXCEPT ![l].pc = "new"]
            /\ tickThread' = l
            /\ late' = [m \in Loops |-> 0]
     ELSE UNCHANGED <<tickStop, loop, tickThread, late>>
  /\ UNCHANGED <<lock, life, enabled, continuous, manual, playing, cooling, echo,
                 requests, orphans, quiet, served, selfHeard>>

Close ==
  /\ ctl.pc = "close"
  /\ tickStop' = TRUE
  /\ ctl' = [ctl EXCEPT !.pc = "join"]
  /\ UNCHANGED <<lock, life, enabled, continuous, manual, playing, cooling,
                 tickThread, loop, echo, requests, history>>

Closed ==
  /\ ctl.pc = "join"
  /\ ctl' = [ctl EXCEPT !.pc = "idle"]
  /\ tickThread' = NoLoop
  /\ quiet' = TRUE
  /\ UNCHANGED <<lock, life, enabled, continuous, manual, playing, cooling, tickStop,
                 loop, echo, requests, late, served, selfHeard>>

Joined == ~\E l \in Loops : l = tickThread /\ Alive(l)

Join ==
  /\ Joined
  /\ Closed
  /\ UNCHANGED orphans

\* A loop takes longer than the two seconds of a join to come back to its while
\* statement: it loads a model, captures, or waits for another that does.
Slow(l) ==
  \/ loop[l].pc \in {"new", "decode", "capture"}
  \/ loop[l].pc \in {"poll", "grab", "match"} /\ lock # Free

JoinTimesOut ==
  /\ ~Joined /\ Slow(tickThread)
  /\ Closed
  /\ orphans' = orphans \cup {tickThread}

-----------------------------------------------------------------------------
(* The wake loop                                                            *)

Moves(l, from, next) ==
  /\ loop[l].pc = from
  /\ loop' = [loop EXCEPT ![l].pc = next]
  /\ UNCHANGED <<life, enabled, playing, cooling, tickStop, tickThread, ctl,
                 requests, orphans, quiet>>

\* The wake word is off, or its model is not ready.
Refuse(l) ==
  /\ Moves(l, "new", "ended")
  /\ UNCHANGED <<lock, continuous, manual, echo, late, served, selfHeard>>

\* The flag is set, and then the stream is opened, which may fail: the thread
\* dies and nobody clears the flag.
Start(l) ==
  /\ enabled
  /\ Moves(l, "new", "top") \/ Moves(l, "new", "ended")
  /\ continuous' = TRUE
  /\ UNCHANGED <<lock, manual, echo, late, served, selfHeard>>

ToldToStop(l) == tickStop

Leave(l) ==
  /\ ToldToStop(l)
  /\ Moves(l, "top", "ended")
  /\ continuous' = FALSE
  /\ echo' = echo \ {l}
  /\ UNCHANGED <<lock, manual, late, served, selfHeard>>

\* The frame may be the last in the queue with Marvex's voice in it, but not while
\* Marvex is heard: then the queue fills up as it is read.
Audible == ctl.pc \in {"play", "barge", "test"}

ReadFrame(l) ==
  /\ ~ToldToStop(l)
  /\ Moves(l, "top", "poll")
  /\ echo' \in IF Audible THEN {echo} ELSE {echo, echo \ {l}}
  /\ UNCHANGED <<lock, continuous, manual, late, served, selfHeard>>

\* Wrong: a listen is gated like a wake word.
TakeListenGated(l) ==
  /\ loop[l].pc = "poll"
  /\ lock = Free
  /\ manual' = NoListen
  /\ loop' = [loop EXCEPT ![l].pc = IF manual = NoListen \/ cooling THEN "gate" ELSE "grab",
                          ![l].listen = manual]
  /\ UNCHANGED <<lock, life, enabled, continuous, playing, cooling, tickStop,
                 tickThread, echo, ctl, requests, history>>

\* The listen that is queued, if any, is taken out of its slot.
TakeListen(l) ==
  /\ loop[l].pc = "poll"
  /\ lock = Free
  /\ manual' = NoListen
  /\ loop' = [loop EXCEPT ![l].pc = IF manual = NoListen THEN "gate" ELSE "grab",
                          ![l].listen = manual]
  /\ UNCHANGED <<lock, life, enabled, continuous, playing, cooling, tickStop,
                 tickThread, echo, ctl, requests, history>>

BeginsCapture(l) ==
  /\ late' = [late EXCEPT ![l] = IF tickStop THEN @ + 1 ELSE 0]
  /\ UNCHANGED <<continuous, manual, echo, served>>

\* A listen is captured at once, the frame in hand first: it is not gated.
Grab(l) ==
  /\ lock = Free
  /\ Moves(l, "grab", "capture")
  /\ lock' = l
  /\ BeginsCapture(l)
  /\ UNCHANGED selfHeard

Suppressed == playing \/ cooling

\* A frame is dropped, or put with others until there are enough to decode.
Gate(l) ==
  /\ \/ Moves(l, "gate", "top")
     \/ ~Suppressed /\ Moves(l, "gate", "match")
  /\ UNCHANGED <<lock, continuous, manual, echo, late, served, selfHeard>>

Match(l) ==
  /\ lock = Free
  /\ Moves(l, "match", "decode")
  /\ lock' = l
  /\ UNCHANGED <<continuous, manual, echo, late, served, selfHeard>>

Miss(l) ==
  /\ Moves(l, "decode", "top")
  /\ lock' = Free
  /\ UNCHANGED <<continuous, manual, echo, late, served, selfHeard>>

\* The wake word: the command after it is captured from what the stream has, the
\* frames queued while the loop waited for the lock included.
Detect(l) ==
  /\ loop[l].pc = "decode"
  /\ loop' = [loop EXCEPT ![l].pc = "capture", ![l].listen = NoListen]
  /\ BeginsCapture(l)
  /\ selfHeard' = (selfHeard \/ l \in echo)
  /\ UNCHANGED <<lock, life, enabled, playing, cooling, tickStop, tickThread, ctl,
                 requests, orphans, quiet>>

\* Wrong: a capture after the wake word returns with the lock held.
ReleasedIfHeard(l) == IF loop[l].listen # NoListen THEN Free ELSE lock

Released(l) == Free

\* Wrong: the loop goes on with the next frame without looking at the event.
AfterCaptureUnchecked == "poll"

AfterCapture == "top"

\* An utterance, or silence, or a failure: each ends the capture.
EndCapture(l) ==
  /\ Moves(l, "capture", AfterCapture)
  /\ lock' = Released(l)
  /\ served' = served \cup ({loop[l].listen} \ {NoListen})
  /\ echo' \in {echo, echo \ {l}}
  /\ UNCHANGED <<continuous, manual, late, selfHeard>>

\* The echo has died away.  A loop that is not kept waiting has by then read and
\* dropped what its queue held.
Kept(l) ==
  \/ loop[l].pc \in {"decode", "capture"}
  \/ loop[l].pc \in {"poll", "grab", "match"} /\ lock # Free

CoolEnds ==
  /\ cooling
  /\ \A l \in echo : Kept(l)
  /\ cooling' = FALSE
  /\ UNCHANGED <<flags, lock, continuous, loop, echo, ctl, requests, history>>

-----------------------------------------------------------------------------

Serve == HandleLife \/ HandleReload \/ QueueListen \/ SpeakFails \/ Speak
         \/ SpeakWithBargeIn \/ TestTts \/ DirectListen \/ Hold

Finish == PlayEnds \/ ListenEnds \/ HoldEnds \/ Ensure \/ Close \/ Join \/ JoinTimesOut

Runs(l) == Refuse(l) \/ Start(l) \/ Leave(l) \/ ReadFrame(l) \/ Gate(l) \/ Miss(l)
           \/ Detect(l) \/ EndCapture(l)

Locks(l) == TakeListen(l) \/ Grab(l) \/ Match(l)

Next ==
  \/ \E cmd \in Commands : Ask(cmd)
  \/ Serve \/ Finish
  \/ \E l \in Loops : Runs(l) \/ Locks(l)
  \/ CoolEnds

Spec == Init /\ [][Next]_vars

\* Threads run, a sound, a capture and a decode end, and the microphone delivers
\* frames.  The lock is free for the time of a frame between two uses of it by a
\* loop, so that whoever waits for it is not passed over forever.
Fairness ==
  /\ SF_vars(Serve) /\ WF_vars(Finish)
  /\ \A l \in Loops : WF_vars(Runs(l)) /\ SF_vars(Locks(l))

FairSpec == Spec /\ Fairness

-----------------------------------------------------------------------------
(* Properties                                                              *)

\* When a stop has returned, and nothing was started since, only loops that it
\* waited for in vain still run; each begins at most one more capture
\* (_stop_tick_thread, the while condition of run_wake_listen_loop).
StopQuiets ==
  /\ quiet => \A l \in Loops : Alive(l) => l \in orphans
  /\ \A l \in Loops : late[l] <= 1

\* A listen that is queued while a loop reads the microphone is captured, unless a
\* later one takes its place or the loop is told to stop (_handle_listen and the
\* manual branch of run_wake_listen_loop).
ListenIsServed ==
  \A n \in Listens :
    manual = n /\ (\E l \in Loops : Reading(l))
      ~> n \in served \/ manual > n \/ tickStop

\* A listen waits in the slot, or a loop carries it out.
Carries(l, n) == loop[l].listen = n /\ loop[l].pc \in {"grab", "capture"}
Pending(n) == manual = n \/ \E l \in Loops : Carries(l, n)

\* A listen is captured once: it is in the slot, with one loop or captured, and
\* never in two of these, however many loops take turns at the slot while
\* commands fill it (_handle_listen, _take_manual_listen_trace_id).
ListenOnce ==
  \A n \in Listens :
    /\ n \in served => ~Pending(n)
    /\ manual = n => \A l \in Loops : ~Carries(l, n)
    /\ \A l, m \in Loops : Carries(l, n) /\ Carries(m, n) => l = m

\* A listen that was queued is not lost: it waits, also over a stop and for the
\* next loop, until it is captured or a later one takes its place.
ListenNotLost ==
  [][\A n \in Listens : Pending(n) => Pending(n)' \/ n \in served' \/ manual' > n]_vars

\* Every command returns, whatever the loops do with the lock, and a stop reaches
\* every loop, also the forgotten ones, unless a start takes it back.
CommandsTakeEffect ==
  /\ ctl.pc # "idle" ~> ctl.pc = "idle"
  /\ tickStop ~> ~tickStop \/ \A l \in Loops : ~Alive(l)

\* "so the continuous wake/capture loop stands down and never re-captures its own
\* TTS": a command captured after the wake word is free of Marvex's voice.
NoSelfCapture == ~selfHeard
=============================================================================
