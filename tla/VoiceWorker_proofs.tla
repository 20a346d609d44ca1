-------------------------- MODULE VoiceWorker_proofs --------------------------
(***************************************************************************)
(* For any number of loops and of commands: the lock has one holder, who is *)
(* where it is held, and a stop that returned leaves only loops that it     *)
(* waited for in vain, with one more capture each at most.                  *)
(***************************************************************************)
EXTENDS VoiceWorker, TLAPS

Places == {"none", "new", "top", "poll", "grab", "gate", "match", "decode", "capture",
           "ended"}
Threads == [pc : Places, listen : Listens \cup {NoListen}]
Serving == {"play", "barge", "test", "listen", "hold"}
Controls == [pc : {"idle", "lock", "ensure", "close", "join"} \cup Serving, cmd : Commands]

\* The types of the variables, without what TypeOK says of the lock.
Typed ==
  /\ lock \in {Free, Control} \cup Loops
  /\ life \in {"stopped", "running", "paused"}
  /\ enabled \in BOOLEAN /\ continuous \in BOOLEAN
  /\ manual \in Listens \cup {NoListen}
  /\ playing \in BOOLEAN /\ cooling \in BOOLEAN /\ tickStop \in BOOLEAN
  /\ tickThread \in Loops \cup {NoLoop}
  /\ loop \in [Loops -> Threads]
  /\ echo \subseteq Loops
  /\ ctl \in Controls
  /\ requests \in 0..MaxRequests
  /\ orphans \subseteq Loops
  /\ quiet \in BOOLEAN
  /\ late \in [Loops -> Nat]
  /\ served \subseteq Listens
  /\ selfHeard \in BOOLEAN

\* Whoever has the lock is at a place where it is held, and the other way.
LockHeld ==
  /\ lock = Control <=> ctl.pc \in Serving
  /\ \A l \in Loops : lock = l <=> loop[l].pc \in {"decode", "capture"}

\* A command that is served has a number.
Asked == ctl.pc # "idle" => requests \in Listens

\* A command that opens is not the quiet after a stop.
Opens == ctl.pc = "ensure" \/ (ctl.pc = "lock" /\ ctl.cmd \in Opening) => ~quiet

\* A loop that is alive is the one that the facade has a handle of, or forgotten.
Handled == \A l \in Loops : Alive(l) => l \in orphans \/ l = tickThread

\* When a stop has returned, the loops that are alive are forgotten ones.
Quiet == quiet => \A l \in Loops : Alive(l) => l \in orphans

\* A loop that is on its way to a capture has begun none since it was told to stop:
\* it looks at the event after every capture.
Underway == {"poll", "grab", "gate", "match", "decode"}

LateCleared ==
  \A l \in Loops :
    /\ ~tickStop => late[l] = 0
    /\ loop[l].pc \in Underway => late[l] = 0
    /\ late[l] <= 1

Facade == Opens /\ Handled /\ Quiet

IInv == Typed /\ LockHeld /\ Asked /\ Facade /\ LateCleared

-----------------------------------------------------------------------------

LEMMA Owners == Free \notin Loops /\ Control \notin Loops /\ Control # Free
BY ConstantsAssumption DEF Free, Control, Loops

\* Every step keeps the types.
LEMMA TypedStep == ASSUME Typed, Asked, [Next]_vars PROVE Typed'
<1> USE DEF Typed, flags, history
<1> USE Owners
<1>1. ASSUME NEW cmd \in Commands, Ask(cmd) PROVE Typed'
  <2>1. requests' \in 0..MaxRequests /\ ctl' \in Controls
    BY <1>1, ConstantsAssumption DEF Ask, Controls
  <2> QED BY <1>1, <2>1 DEF Ask
<1>2. CASE HandleLife
  <2>1. ctl' \in Controls
    BY <1>2 DEF HandleLife, Handles, Controls
  <2> QED BY <1>2, <2>1 DEF HandleLife, Handles
<1>3. CASE HandleReload \/ SpeakFails
  <2>1. ctl' \in Controls
    BY <1>3 DEF HandleReload, SpeakFails, Handles, Controls
  <2> QED BY <1>3, <2>1 DEF HandleReload, SpeakFails, Handles
<1>4. CASE QueueListen
  <2>1. ctl' \in Controls
    BY <1>4 DEF QueueListen, Handles, Controls
  <2> QED BY <1>4, <2>1 DEF QueueListen, Handles, Asked
<1>5. CASE Speak \/ SpeakWithBargeIn \/ TestTts
  <2>1. ctl' \in Controls
    BY <1>5 DEF Speak, SpeakWithBargeIn, TestTts, Blocks, Controls, Serving
  <2> QED BY <1>5, <2>1 DEF Speak, SpeakWithBargeIn, TestTts, Blocks, Sounds
<1>6. CASE DirectListen \/ Hold
  <2>1. ctl' \in Controls
    BY <1>6 DEF DirectListen, Hold, Blocks, Controls, Serving
  <2> QED BY <1>6, <2>1 DEF DirectListen, Hold, Blocks
<1>7. CASE PlayEnds \/ ListenEnds \/ HoldEnds
  <2>1. ctl' \in Controls /\ requests \in Listens \cup {0}
    BY <1>7 DEF PlayEnds, ListenEnds, HoldEnds, Unblocks, Controls, Listens
  <2>2. served' \subseteq Listens
    BY <1>7 DEF PlayEnds, ListenEnds, HoldEnds, Unblocks, Asked
  <2>3. playing' \in BOOLEAN /\ cooling' \in BOOLEAN
    BY <1>7 DEF PlayEnds, ListenEnds, HoldEnds
  <2>4. /\ lock' = Free
        /\ UNCHANGED <<life, enabled, continuous, manual, tickStop, tickThread, loop, echo,
                       requests, orphans, quiet, late, selfHeard>>
    BY <1>7 DEF PlayEnds, ListenEnds, HoldEnds, Unblocks
  <2> QED BY <2>1, <2>2, <2>3, <2>4
<1>8. CASE Ensure
  <2>1. ctl' \in Controls
    BY <1>8 DEF Ensure, Controls
  <2>2. CASE NeedsThread
    <3>1. PICK l \in Unused : /\ tickStop' = FALSE
                              /\ loop' = [loop EXCEPT ![l].pc = "new"]
                              /\ tickThread' = l
                              /\ late' = [m \in Loops |-> 0]
      BY <1>8, <2>2 DEF Ensure
    <3>2. loop' \in [Loops -> Threads] /\ tickThread' \in Loops
      BY <3>1 DEF Unused, Threads, Places
    <3> QED BY <1>8, <2>1, <3>1, <3>2 DEF Ensure
  <2>3. CASE ~NeedsThread
    BY <1>8, <2>1, <2>3 DEF Ensure
  <2> QED BY <2>2, <2>3
<1>9. CASE Close \/ Join \/ JoinTimesOut
  <2>1. ctl' \in Controls
    BY <1>9 DEF Close, Join, JoinTimesOut, Closed, Controls
  <2>2. CASE Close
    BY <2>1, <2>2 DEF Close
  <2>3. CASE Join
    BY <2>1, <2>3 DEF Join, Closed
  <2>4. CASE JoinTimesOut
    <3>1. tickThread \in Loops
      BY <2>4 DEF JoinTimesOut, Joined
    <3> QED BY <2>1, <2>4, <3>1 DEF JoinTimesOut, Closed
  <2> QED BY <1>9, <2>2, <2>3, <2>4
<1>10. ASSUME NEW l \in Loops, Runs(l) \/ Locks(l) PROVE Typed'
  <2>1. loop' \in [Loops -> Threads]
    <3>1. CASE TakeListen(l)
      <4>1. PICK next \in Places :
              loop' = [loop EXCEPT ![l].pc = next, ![l].listen = manual]
        BY <3>1 DEF TakeListen, Places
      <4> QED BY <4>1 DEF Threads
    <3>2. CASE Detect(l)
      BY <3>2 DEF Detect, Threads, Places
    <3>3. ASSUME NEW from, NEW next \in Places, Moves(l, from, next)
          PROVE  loop' \in [Loops -> Threads]
      BY <3>3 DEF Moves, Threads
    <3> QED
      BY <1>10, <3>1, <3>2, <3>3
      DEF Runs, Locks, Refuse, Start, Leave, ReadFrame, Gate, Miss, EndCapture, Grab,
          Match, AfterCapture, Places
  <2>2. late' \in [Loops -> Nat]
    BY <1>10 DEF Runs, Locks, Refuse, Start, Leave, ReadFrame, Gate, Miss, EndCapture,
                 Grab, Match, Detect, TakeListen, BeginsCapture
  <2>3. served' \subseteq Listens
    BY <1>10 DEF Runs, Locks, Refuse, Start, Leave, ReadFrame, Gate, Miss, EndCapture,
                 Grab, Match, Detect, TakeListen, BeginsCapture, Threads
  <2>4. echo' \subseteq Loops
    BY <1>10 DEF Runs, Locks, Refuse, Start, Leave, ReadFrame, Gate, Miss, EndCapture,
                 Grab, Match, Detect, TakeListen, BeginsCapture
  <2>5. /\ lock' \in {Free, Control} \cup Loops /\ manual' \in Listens \cup {NoListen}
        /\ continuous' \in BOOLEAN /\ selfHeard' \in BOOLEAN
    BY <1>10 DEF Runs, Locks, Refuse, Start, Leave, ReadFrame, Gate, Miss, EndCapture,
                 Grab, Match, Detect, TakeListen, BeginsCapture, Released
  <2>6. UNCHANGED <<life, enabled, playing, cooling, tickStop, tickThread, ctl, requests,
                    orphans, quiet>>
    BY <1>10 DEF Runs, Locks, Refuse, Start, Leave, ReadFrame, Gate, Miss, EndCapture,
                 Grab, Match, Detect, TakeListen, Moves
  <2> QED BY <2>1, <2>2, <2>3, <2>4, <2>5, <2>6
<1>11. CASE CoolEnds
  BY <1>11 DEF CoolEnds
<1>12. CASE UNCHANGED vars
  BY <1>12 DEF vars
<1> QED BY <1>1, <1>2, <1>3, <1>4, <1>5, <1>6, <1>7, <1>8, <1>9, <1>10, <1>11, <1>12
    DEF Next, Serve, Finish

\* Every step keeps the numbers of the commands.
LEMMA AskedStep == ASSUME Typed, Asked, [Next]_vars PROVE Asked'
<1> USE DEF Typed, flags, history, Asked
<1>1. ASSUME NEW cmd \in Commands, Ask(cmd) PROVE Asked'
  BY <1>1, ConstantsAssumption DEF Ask, Listens
<1>2. CASE ~\E cmd \in Commands : Ask(cmd)
  <2>1. requests' = requests /\ (ctl.pc = "idle" => ctl'.pc = "idle")
    BY <1>2 DEF Next, Serve, Finish, HandleLife, HandleReload, QueueListen, SpeakFails,
         Handles, Speak, SpeakWithBargeIn, TestTts, DirectListen, Hold, Blocks,
         PlayEnds, ListenEnds, HoldEnds, Unblocks, Ensure, Close, Join, JoinTimesOut,
         Closed, Runs, Locks, Refuse, Start, Leave, ReadFrame, Gate, Miss, EndCapture,
         Grab, Match, Detect, TakeListen, Moves, CoolEnds, vars
  <2> QED BY <2>1
<1> QED BY <1>1, <1>2

\* Every step keeps the lock with its holder.
LEMMA LockStep == ASSUME Typed, LockHeld, [Next]_vars PROVE LockHeld'
<1> USE DEF Typed, LockHeld
<1> USE Owners
<1>1. CASE \/ \E cmd \in Commands : Ask(cmd)
           \/ HandleLife \/ HandleReload \/ QueueListen \/ SpeakFails
           \/ Close \/ Join \/ JoinTimesOut \/ CoolEnds \/ UNCHANGED vars
  <2>1. /\ lock' = lock /\ loop' = loop
        /\ (ctl.pc \notin Serving /\ ctl'.pc \notin Serving) \/ ctl' = ctl
    BY <1>1 DEF Ask, HandleLife, HandleReload, QueueListen, SpeakFails, Handles, Close,
                Join, JoinTimesOut, Closed, CoolEnds, vars, Controls, Serving
  <2> QED BY <2>1
<1>2. CASE Speak \/ SpeakWithBargeIn \/ TestTts \/ DirectListen \/ Hold
  <2>1. ctl'.pc \in Serving /\ lock = Free /\ lock' = Control /\ loop' = loop
    BY <1>2 DEF Speak, SpeakWithBargeIn, TestTts, DirectListen, Hold, Blocks, Controls,
                Serving
  <2> QED BY <2>1
<1>3. CASE PlayEnds \/ ListenEnds \/ HoldEnds
  <2>1. ctl.pc \in Serving /\ ctl'.pc \notin Serving /\ lock' = Free /\ loop' = loop
    BY <1>3 DEF PlayEnds, ListenEnds, HoldEnds, Unblocks, Controls, Serving
  <2> QED BY <2>1
<1>4. CASE Ensure
  <2>1. ctl.pc \notin Serving /\ ctl'.pc \notin Serving /\ lock' = lock
    BY <1>4 DEF Ensure, Controls, Serving
  <2>2. \A l \in Loops : loop'[l].pc \in {"decode", "capture"}
                           <=> loop[l].pc \in {"decode", "capture"}
    <3>1. CASE NeedsThread
      BY <1>4, <3>1 DEF Ensure, Unused, Threads
    <3>2. CASE ~NeedsThread
      BY <1>4, <3>2 DEF Ensure
    <3> QED BY <3>1, <3>2
  <2> QED BY <2>1, <2>2
<1>5. ASSUME NEW l \in Loops, Runs(l) \/ Locks(l) PROVE LockHeld'
  <2>1. ctl' = ctl /\ \A m \in Loops : m # l => loop'[m] = loop[m]
    BY <1>5 DEF Runs, Locks, Refuse, Start, Leave, ReadFrame, Gate, Miss, EndCapture,
                Grab, Match, Detect, TakeListen, Moves
  <2>2. CASE Grab(l) \/ Match(l)
    <3>1. lock = Free /\ lock' = l /\ loop'[l].pc \in {"decode", "capture"}
      BY <2>2 DEF Grab, Match, Moves, Threads
    <3> QED BY <2>1, <3>1
  <2>3. CASE Miss(l) \/ EndCapture(l)
    <3>1. /\ loop[l].pc \in {"decode", "capture"} /\ lock' = Free
          /\ loop'[l].pc \notin {"decode", "capture"}
      BY <2>3 DEF Miss, EndCapture, AfterCapture, Released, Moves, Threads
    <3> QED BY <2>1, <3>1
  <2>4. CASE Detect(l)
    <3>1. /\ loop[l].pc \in {"decode", "capture"} /\ lock' = lock
          /\ loop'[l].pc \in {"decode", "capture"}
      BY <2>4 DEF Detect, Threads
    <3> QED BY <2>1, <3>1
  <2>5. CASE \/ Refuse(l) \/ Start(l) \/ Leave(l) \/ ReadFrame(l) \/ Gate(l)
             \/ TakeListen(l)
    <3>1. /\ loop[l].pc \notin {"decode", "capture"} /\ lock' = lock
          /\ loop'[l].pc \notin {"decode", "capture"}
      <4>1. CASE TakeListen(l)
        BY <4>1 DEF TakeListen, Threads
      <4>2. CASE ~TakeListen(l)
        BY <2>5, <4>2 DEF Refuse, Start, Leave, ReadFrame, Gate, Moves, Threads
      <4> QED BY <4>1, <4>2
    <3> QED BY <2>1, <3>1
  <2> QED BY <1>5, <2>2, <2>3, <2>4, <2>5 DEF Runs, Locks
<1> QED BY <1>1, <1>2, <1>3, <1>4, <1>5 DEF Next, Serve, Finish

\* A loop is alive only if it was, or if the facade has just started it.
LEMMA RunsKeepAlive ==
  ASSUME Typed, NEW l \in Loops, Runs(l) \/ Locks(l)
  PROVE  \A m \in Loops : Alive(m)' => Alive(m)
<1>1. \A m \in Loops : m # l => loop'[m] = loop[m]
  BY DEF Runs, Locks, Refuse, Start, Leave, ReadFrame, Gate, Miss, EndCapture,
         Grab, Match, Detect, TakeListen, Moves, Typed
<1>2. loop[l].pc \in {"new", "top", "poll", "grab", "gate", "match", "decode", "capture"}
  BY DEF Runs, Locks, Refuse, Start, Leave, ReadFrame, Gate, Miss, EndCapture,
         Grab, Match, Detect, TakeListen, Moves
<1> QED BY <1>1, <1>2 DEF Alive, Reading

\* Every step keeps what the facade knows of its loops.
LEMMA FacadeStep == ASSUME Typed, Facade, [Next]_vars PROVE Facade'
<1> USE DEF Facade, Opens, Handled, Quiet
<1>1. ASSUME NEW cmd \in Commands, Ask(cmd) PROVE Facade'
  <2>1. /\ UNCHANGED <<loop, orphans, tickThread>> /\ ctl' = [pc |-> "lock", cmd |-> cmd]
        /\ quiet' = (quiet /\ cmd \notin Opening)
    BY <1>1 DEF Ask, flags
  <2> QED BY <2>1 DEF Alive, Reading
<1>2. CASE HandleLife \/ HandleReload \/ QueueListen \/ SpeakFails
  <2>1. UNCHANGED <<loop, orphans, tickThread, quiet>>
    BY <1>2 DEF HandleLife, HandleReload, QueueListen, SpeakFails, Handles, history
  <2>2. ctl'.pc # "lock" /\ (ctl'.pc = "ensure" => ctl.pc = "lock" /\ ctl.cmd \in Opening)
    BY <1>2 DEF HandleLife, HandleReload, QueueListen, SpeakFails, Handles, Opening,
                Typed, Controls
  <2> QED BY <2>1, <2>2 DEF Alive, Reading
<1>3. CASE \/ Speak \/ SpeakWithBargeIn \/ TestTts \/ DirectListen \/ Hold
           \/ PlayEnds \/ ListenEnds \/ HoldEnds \/ Close \/ CoolEnds \/ UNCHANGED vars
  <2>1. UNCHANGED <<loop, orphans, tickThread, quiet>>
    BY <1>3 DEF Speak, SpeakWithBargeIn, TestTts, DirectListen, Hold, Blocks, PlayEnds,
                ListenEnds, HoldEnds, Unblocks, Close, CoolEnds, flags, history, vars
  <2>2. ctl'.pc \notin {"lock", "ensure"} \/ ctl' = ctl
    BY <1>3 DEF Speak, SpeakWithBargeIn, TestTts, DirectListen, Hold, Blocks, PlayEnds,
                ListenEnds, HoldEnds, Unblocks, Close, CoolEnds, vars, Typed, Controls
  <2> QED BY <2>1, <2>2 DEF Alive, Reading
<1>4. CASE Ensure
  <2>1. ~quiet /\ ~quiet' /\ ctl'.pc = "idle" /\ orphans' = orphans
    BY <1>4 DEF Ensure, Typed, Controls
  <2>2. CASE NeedsThread
    <3>1. PICK l \in Unused : loop' = [loop EXCEPT ![l].pc = "new"] /\ tickThread' = l
      BY <1>4, <2>2 DEF Ensure
    <3>2. \A m \in Loops : m # l => loop'[m] = loop[m]
      BY <3>1 DEF Typed
    <3>3. \A m \in Loops : Alive(m) => m \in orphans
      BY <2>2 DEF NeedsThread
    <3> QED BY <2>1, <3>1, <3>2, <3>3 DEF Alive, Reading
  <2>3. CASE ~NeedsThread
    <3>1. loop' = loop /\ tickThread' = tickThread
      BY <1>4, <2>3 DEF Ensure
    <3> QED BY <2>1, <3>1 DEF Alive, Reading
  <2> QED BY <2>2, <2>3
<1>5. CASE Join \/ JoinTimesOut
  <2>1. loop' = loop /\ ctl'.pc = "idle" /\ orphans \subseteq orphans'
    BY <1>5 DEF Join, JoinTimesOut, Closed, Typed, Controls
  <2>2. \A l \in Loops : Alive(l) => l \in orphans'
    <3>1. CASE Join
      BY <2>1, <3>1 DEF Join, Joined
    <3>2. CASE JoinTimesOut
      BY <2>1, <3>2 DEF JoinTimesOut
    <3> QED BY <1>5, <3>1, <3>2
  <2> QED BY <2>1, <2>2 DEF Alive, Reading
<1>6. ASSUME NEW l \in Loops, Runs(l) \/ Locks(l) PROVE Facade'
  <2>1. UNCHANGED <<ctl, quiet, orphans, tickThread>>
    BY <1>6 DEF Runs, Locks, Refuse, Start, Leave, ReadFrame, Gate, Miss, EndCapture,
                Grab, Match, Detect, TakeListen, Moves, history
  <2> QED BY <1>6, <2>1, RunsKeepAlive
<1> QED BY <1>1, <1>2, <1>3, <1>4, <1>5, <1>6 DEF Next, Serve, Finish

\* Every step keeps the count of the late captures.
LEMMA LateStep == ASSUME Typed, LateCleared, [Next]_vars PROVE LateCleared'
<1> USE DEF Typed, LateCleared
<1>1. CASE \/ \E cmd \in Commands : Ask(cmd)
           \/ Serve \/ PlayEnds \/ ListenEnds \/ HoldEnds \/ Close \/ Join \/ JoinTimesOut
           \/ CoolEnds \/ UNCHANGED vars
  <2>1. loop' = loop /\ late' = late /\ (tickStop => tickStop')
    BY <1>1 DEF Ask, Serve, HandleLife, HandleReload, QueueListen, SpeakFails, Handles,
                Speak, SpeakWithBargeIn, TestTts, DirectListen, Hold, Blocks, PlayEnds,
                ListenEnds, HoldEnds, Unblocks, Close, Join, JoinTimesOut, Closed,
                CoolEnds, flags, history, vars
  <2> QED BY <2>1
<1>2. CASE Ensure
  <2>1. CASE NeedsThread
    <3>1. \A l \in Loops : late'[l] = 0
      BY <1>2, <2>1 DEF Ensure
    <3> QED BY <3>1
  <2>2. CASE ~NeedsThread
    <3>1. loop' = loop /\ late' = late /\ tickStop' = tickStop
      BY <1>2, <2>2 DEF Ensure
    <3> QED BY <3>1
  <2> QED BY <2>1, <2>2
<1>3. ASSUME NEW l \in Loops, Runs(l) \/ Locks(l) PROVE LateCleared'
  <2>1. tickStop' = tickStop /\ \A m \in Loops : m # l => loop'[m] = loop[m]
    BY <1>3 DEF Runs, Locks, Refuse, Start, Leave, ReadFrame, Gate, Miss, EndCapture,
                Grab, Match, Detect, TakeListen, Moves
  <2>2. CASE Grab(l) \/ Detect(l)
    <3>1. loop[l].pc \in Underway /\ loop'[l].pc = "capture"
      BY <2>2 DEF Grab, Detect, Moves, Threads, Underway
    <3>2. late' = [late EXCEPT ![l] = IF tickStop THEN @ + 1 ELSE 0]
      BY <2>2 DEF Grab, Detect, BeginsCapture
    <3>3. /\ late'[l] = (IF tickStop THEN 1 ELSE 0)
          /\ \A m \in Loops : m # l => late'[m] = late[m]
      BY <3>1, <3>2
    <3>4. loop'[l].pc \notin Underway
      BY <3>1 DEF Underway
    <3> QED BY <2>1, <3>3, <3>4
  <2>3. CASE ~(Grab(l) \/ Detect(l))
    <3>1. late' = late
      BY <1>3, <2>3 DEF Runs, Locks, Refuse, Start, Leave, ReadFrame, Gate, Miss,
                        EndCapture, Match, TakeListen, history
    <3>2. loop'[l].pc \in Underway => loop[l].pc \in Underway \/ ~tickStop
      <4>1. CASE TakeListen(l)
        BY <4>1 DEF TakeListen, Underway
      <4>2. CASE ReadFrame(l)
        BY <4>2 DEF ReadFrame, ToldToStop
      <4>3. CASE Gate(l) \/ Match(l)
        BY <4>3 DEF Gate, Match, Moves, Underway
      <4>4. CASE Refuse(l) \/ Start(l) \/ Leave(l) \/ Miss(l) \/ EndCapture(l)
        BY <4>4 DEF Refuse, Start, Leave, Miss, EndCapture, AfterCapture, Moves, Threads,
                    Underway
      <4> QED BY <1>3, <2>3, <4>1, <4>2, <4>3, <4>4 DEF Runs, Locks
    <3> QED BY <2>1, <3>1, <3>2
  <2> QED BY <2>2, <2>3
<1> QED BY <1>1, <1>2, <1>3 DEF Next, Finish

-----------------------------------------------------------------------------
(* The theorems                                                             *)

LEMMA Initially == Init => IInv
<1> SUFFICES ASSUME Init PROVE IInv
  OBVIOUS
<1>1. loop \in [Loops -> Threads] /\ \A l \in Loops : loop[l].pc = "none"
  BY DEF Init, Threads, Places
<1>2. Typed
  <2>1. ctl \in Controls
    BY DEF Init, Controls, Commands
  <2>2. requests \in 0..MaxRequests /\ late \in [Loops -> Nat]
    BY ConstantsAssumption DEF Init
  <2> QED BY <1>1, <2>1, <2>2 DEF Init, Typed
<1>3. LockHeld /\ Asked
  BY <1>1, Owners DEF Init, LockHeld, Asked, Serving
<1>4. Facade
  BY <1>1 DEF Init, Facade, Opens, Handled, Quiet, Alive, Reading
<1>5. LateCleared
  BY <1>1 DEF Init, LateCleared
<1> QED BY <1>2, <1>3, <1>4, <1>5 DEF IInv

LEMMA Inductive == IInv /\ [Next]_vars => IInv'
BY TypedStep, AskedStep, LockStep, FacadeStep, LateStep DEF IInv

LEMMA Invariance == Spec => []IInv
BY Initially, Inductive, PTL DEF Spec

\* Every variable is in its type, and the lock is with the one that is at a place
\* where it is held (VoiceWorkerFacade._lock).
THEOREM TypeCorrect == Spec => []TypeOK
<1>1. IInv => TypeOK
  BY DEF IInv, Typed, LockHeld, TypeOK, Threads, Places, Controls, Serving
<1> QED BY <1>1, Invariance, PTL

\* When a stop has returned, and nothing was started since, only loops that it
\* waited for in vain still run; each begins at most one more capture
\* (_stop_tick_thread, the while condition of run_wake_listen_loop).
THEOREM StopsQuietly == Spec => []StopQuiets
<1>1. IInv => StopQuiets
  BY DEF IInv, Facade, Quiet, LateCleared, StopQuiets
<1> QED BY <1>1, Invariance, PTL

-----------------------------------------------------------------------------
(* A listen is captured once, and not lost                                  *)

\* The command that is being served is a listen nobody has seen yet.
IsNew == ctl.pc = "listen" \/ (ctl.pc = "lock" /\ ctl.cmd = "listen")

\* The listens that were seen have the numbers of commands that were given.
Numbered ==
  /\ manual <= requests
  /\ \A n \in served : n <= requests
  /\ \A l \in Loops, n \in Listens : Carries(l, n) => n <= requests
  /\ IsNew => requests \notin served /\ ~Pending(requests)

OnceInv == ListenOnce /\ Numbered

\* What a step may do with the listens.
CarriesOn == \A l \in Loops, n \in Listens : Carries(l, n)' <=> Carries(l, n)

Nothing == CarriesOn /\ UNCHANGED <<manual, served, requests>> /\ (IsNew' => IsNew)

Numbers == CarriesOn /\ UNCHANGED <<manual, served>> /\ requests' = requests + 1

Queues == /\ CarriesOn /\ UNCHANGED <<served, requests>>
          /\ IsNew /\ ~IsNew' /\ manual' = requests

Captures == /\ CarriesOn /\ UNCHANGED <<manual, requests>>
            /\ IsNew /\ ~IsNew' /\ served' = served \cup {requests}

Takes(l) ==
  /\ \A m \in Loops, n \in Listens :
       Carries(m, n)' <=> IF m = l THEN manual = n ELSE Carries(m, n)
  /\ \A n \in Listens : ~Carries(l, n)
  /\ manual' = NoListen /\ UNCHANGED <<served, requests>> /\ (IsNew' => IsNew)

Ends(l) ==
  /\ \A m \in Loops, n \in Listens : Carries(m, n)' <=> m # l /\ Carries(m, n)
  /\ \A n \in Listens : n \in served' <=> n \in served \/ Carries(l, n)
  /\ UNCHANGED <<manual, requests>> /\ (IsNew' => IsNew)

Effect == Nothing \/ Numbers \/ Queues \/ Captures \/ \E l \in Loops : Takes(l) \/ Ends(l)

\* No command but the queueing of a listen, and its capture, touches one.
LEMMA CommandEffect ==
  ASSUME Typed, \/ \E cmd \in Commands : Ask(cmd)
                \/ Serve \/ Finish \/ CoolEnds \/ UNCHANGED vars
  PROVE  Effect
<1> USE DEF Typed, flags, history
<1>1. ASSUME NEW cmd \in Commands, Ask(cmd) PROVE Numbers
  BY <1>1 DEF Ask, Numbers, CarriesOn, Carries
<1>2. CASE QueueListen
  <2>1. UNCHANGED <<loop, served, requests>> /\ IsNew /\ ~IsNew' /\ manual' = requests
    BY <1>2 DEF QueueListen, Handles, IsNew, Controls
  <2> QED BY <2>1 DEF Effect, Queues, CarriesOn, Carries
<1>3. CASE ListenEnds
  <2>1. /\ UNCHANGED <<loop, manual, requests>> /\ IsNew /\ ~IsNew'
        /\ served' = served \cup {requests}
    BY <1>3 DEF ListenEnds, Unblocks, IsNew, Controls
  <2> QED BY <2>1 DEF Effect, Captures, CarriesOn, Carries
<1>4. CASE Ensure
  <2>1. UNCHANGED <<manual, served, requests>> /\ ~IsNew'
    BY <1>4 DEF Ensure, IsNew, Controls
  <2>2. CarriesOn
    <3>1. CASE NeedsThread
      BY <1>4, <3>1 DEF Ensure, Unused, Threads, CarriesOn, Carries
    <3>2. CASE ~NeedsThread
      BY <1>4, <3>2 DEF Ensure, CarriesOn, Carries
    <3> QED BY <3>1, <3>2
  <2> QED BY <2>1, <2>2 DEF Effect, Nothing
<1>5. CASE \/ HandleLife \/ HandleReload \/ SpeakFails \/ Speak \/ SpeakWithBargeIn \/ TestTts
           \/ DirectListen \/ Hold \/ PlayEnds \/ HoldEnds \/ Close \/ Join \/ JoinTimesOut
           \/ CoolEnds \/ UNCHANGED vars
  <2>1. UNCHANGED <<loop, manual, served, requests>>
    BY <1>5 DEF HandleLife, HandleReload, SpeakFails, Handles, Speak, SpeakWithBargeIn,
                TestTts, DirectListen, Hold, Blocks, PlayEnds, HoldEnds, Unblocks, Close,
                Join, JoinTimesOut, Closed, CoolEnds, vars
  <2>2. IsNew' => IsNew
    BY <1>5 DEF HandleLife, HandleReload, SpeakFails, Handles, Speak, SpeakWithBargeIn,
                TestTts, DirectListen, Hold, Blocks, PlayEnds, HoldEnds, Unblocks, Close,
                Join, JoinTimesOut, Closed, CoolEnds, vars, IsNew, Controls
  <2> QED BY <2>1, <2>2 DEF Effect, Nothing, CarriesOn, Carries
<1> QED BY <1>1, <1>2, <1>3, <1>4, <1>5 DEF Serve, Finish, Effect

\* A loop takes the listen out of the slot, and captures the one that it took.
LEMMA LoopEffect ==
  ASSUME Typed, NEW l \in Loops, Runs(l) \/ Locks(l)
  PROVE  Effect
<1> USE DEF Typed, history
<1>0. NoListen \notin Listens
  BY DEF NoListen, Listens
<1>1. UNCHANGED <<requests, ctl>> /\ \A m \in Loops \ {l} : loop'[m] = loop[m]
  BY DEF Runs, Locks, Refuse, Start, Leave, ReadFrame, Gate, Miss, EndCapture, Grab, Match,
         Detect, TakeListen, Moves
<1>2. IsNew' = IsNew
  BY <1>1 DEF IsNew
<1>3. CASE TakeListen(l)
  <2>1. /\ manual' = NoListen /\ served' = served
        /\ loop[l].pc = "poll" /\ loop'[l].listen = manual
        /\ loop'[l].pc = (IF manual = NoListen THEN "gate" ELSE "grab")
    BY <1>3 DEF TakeListen, Threads
  <2>2. Takes(l)
    BY <1>0, <1>1, <1>2, <2>1 DEF Takes, Carries
  <2> QED BY <2>2 DEF Effect
<1>4. CASE EndCapture(l)
  <2>1. /\ manual' = manual /\ served' = served \cup ({loop[l].listen} \ {NoListen})
        /\ loop[l].pc = "capture" /\ loop'[l].pc = "top"
    BY <1>4 DEF EndCapture, Moves, AfterCapture, Threads
  <2>2. Ends(l)
    BY <1>0, <1>1, <1>2, <2>1 DEF Ends, Carries
  <2> QED BY <2>2 DEF Effect
<1>5. CASE Detect(l)
  <2>1. /\ UNCHANGED <<manual, served>> /\ loop[l].pc = "decode" /\ loop'[l].listen = NoListen
    BY <1>5 DEF Detect, BeginsCapture, Threads
  <2> QED BY <1>0, <1>1, <1>2, <2>1 DEF Effect, Nothing, CarriesOn, Carries
<1>6. CASE ~TakeListen(l) /\ ~EndCapture(l) /\ ~Detect(l)
  <2>1. UNCHANGED <<manual, served>> /\ loop'[l].listen = loop[l].listen
    BY <1>6 DEF Runs, Locks, Refuse, Start, Leave, ReadFrame, Gate, Miss, Grab, Match, Moves,
         BeginsCapture, Threads
  <2>2. loop'[l].pc \in {"grab", "capture"} <=> loop[l].pc \in {"grab", "capture"}
    BY <1>6 DEF Runs, Locks, Refuse, Start, Leave, ReadFrame, Gate, Miss, Grab, Match, Moves,
         Threads
  <2> QED BY <1>1, <1>2, <2>1, <2>2 DEF Effect, Nothing, CarriesOn, Carries
<1> QED BY <1>3, <1>4, <1>5, <1>6

LEMMA StepEffect == Typed /\ [Next]_vars => Effect
BY CommandEffect, LoopEffect DEF Next

\* None of this captures a listen twice.
LEMMA OnceStep == IInv /\ IInv' /\ OnceInv /\ [Next]_vars => OnceInv'
<1> SUFFICES ASSUME IInv, IInv', OnceInv, [Next]_vars PROVE OnceInv'
  OBVIOUS
<1> USE DEF OnceInv, ListenOnce, Numbered, Pending
<1>0. /\ requests \in Nat /\ manual \in Nat /\ served \subseteq Listens
      /\ manual # NoListen => manual \in Listens
      /\ NoListen \notin Listens /\ \A n \in Listens : n \in Nat
      /\ IsNew => requests \in Listens
      /\ IsNew' => requests' \in Listens
  BY ConstantsAssumption DEF IInv, Typed, Asked, IsNew, Listens, NoListen
<1>1. Effect
  BY StepEffect DEF IInv
<1>2. CASE Nothing
  BY <1>0, <1>2 DEF Nothing, CarriesOn
<1>3. CASE Numbers
  <2>1. requests + 1 \in Nat /\ \A n \in Nat : n <= requests => n <= requests + 1
                                                     /\ n # requests + 1
    BY <1>0
  <2>2. ListenOnce'
    BY <1>3 DEF Numbers, CarriesOn
  <2>3. requests' \notin served' /\ (requests' \in Listens => ~Pending(requests)')
    BY <1>0, <1>3, <2>1 DEF Numbers, CarriesOn
  <2> QED BY <1>0, <1>3, <2>1, <2>2, <2>3 DEF Numbers, CarriesOn
<1>4. CASE Queues
  BY <1>0, <1>4 DEF Queues, CarriesOn
<1>5. CASE Captures
  BY <1>0, <1>5 DEF Captures, CarriesOn
<1>6. ASSUME NEW l \in Loops, Takes(l) PROVE OnceInv'
  <2>1. /\ manual' = NoListen /\ served' = served /\ requests' = requests /\ (IsNew' => IsNew)
        /\ \A n \in Listens : Pending(n)' => Pending(n)
    BY <1>0, <1>6 DEF Takes
  <2>2. ListenOnce'
    <3>1. \A n \in Listens : n \in served' => ~Pending(n)'
      BY <2>1
    <3>2. \A n \in Listens : \A k, m \in Loops : Carries(k, n)' /\ Carries(m, n)' => k = m
      BY <1>6 DEF Takes
    <3> QED BY <1>0, <2>1, <3>1, <3>2
  <2>3. \A n \in Listens : Pending(n) => n <= requests
    BY <1>0
  <2>4. Numbered'
    BY <1>0, <2>1, <2>3 DEF NoListen
  <2> QED BY <2>2, <2>4
<1>7. ASSUME NEW l \in Loops, Ends(l) PROVE OnceInv'
  <2>1. /\ manual' = manual /\ requests' = requests /\ (IsNew' => IsNew)
        /\ \A n \in Listens : Pending(n)' => Pending(n) /\ ~Carries(l, n)
        /\ \A n \in Listens : n \in served' <=> n \in served \/ Carries(l, n)
    BY <1>0, <1>7 DEF Ends
  <2>2. ListenOnce'
    <3>1. \A n \in Listens : n \in served' => ~Pending(n)'
      BY <2>1
    <3>2. \A n \in Listens : \A k, m \in Loops : Carries(k, n)' /\ Carries(m, n)' => k = m
      BY <1>7 DEF Ends
    <3> QED BY <1>7, <2>1, <3>1, <3>2 DEF Ends
  <2>3. served' \subseteq Listens
    BY DEF IInv, Typed
  <2>4. Numbered'
    BY <1>0, <1>7, <2>1, <2>3 DEF Ends
  <2> QED BY <2>2, <2>4
<1> QED BY <1>1, <1>2, <1>3, <1>4, <1>5, <1>6, <1>7 DEF Effect

\* The listens, in every reachable state.
LEMMA OnceInvariant == Spec => []OnceInv
<1>1. Init => OnceInv
  BY DEF Init, OnceInv, ListenOnce, Numbered, Pending, Carries, IsNew, NoListen, Listens
<1> QED BY <1>1, OnceStep, Invariance, PTL DEF Spec

\* A listen is in the slot, with one loop or captured, and never in two of these, for any
\* number of loops and commands (_handle_listen, _take_manual_listen_trace_id).
THEOREM ListensServedOnce == Spec => []ListenOnce
<1>1. OnceInv => ListenOnce
  BY DEF OnceInv
<1> QED BY <1>1, OnceInvariant, PTL

\* A listen that was queued waits until it is captured or a later one takes its place.
THEOREM ListensWait == Spec => ListenNotLost
<1>1. ASSUME IInv, OnceInv, [Next]_vars, NEW n \in Listens, Pending(n)
      PROVE  Pending(n)' \/ n \in served' \/ manual' > n
  <2>1. CASE Nothing \/ Numbers \/ Captures
    BY <1>1, <2>1 DEF Pending, Nothing, Numbers, Captures, CarriesOn
  <2>2. CASE Queues
    <3>1. manual = n => requests > n
      <4>1. n \in Nat /\ requests \in Nat
        BY <1>1, ConstantsAssumption DEF Listens, IInv, Typed
      <4>2. n <= requests /\ n # requests
        BY <1>1, <2>2 DEF Queues, OnceInv, Numbered, Pending
      <4> QED BY <4>1, <4>2
    <3> QED BY <1>1, <2>2, <3>1 DEF Queues, CarriesOn, Pending
  <2>3. ASSUME NEW l \in Loops, Takes(l) \/ Ends(l)
        PROVE  Pending(n)' \/ n \in served'
    BY <1>1, <2>3 DEF Takes, Ends, Pending
  <2> QED BY <1>1, <2>1, <2>2, <2>3, StepEffect DEF Effect, IInv
<1>2. ASSUME IInv, OnceInv, [Next]_vars
      PROVE  [\A n \in Listens : Pending(n) => Pending(n)' \/ n \in served' \/ manual' > n]_vars
  BY <1>1, <1>2
<1> QED BY <1>2, Invariance, OnceInvariant, PTL DEF Spec, ListenNotLost
=============================================================================
