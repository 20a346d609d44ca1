-------------------------- MODULE Supervisor_proofs --------------------------
(***************************************************************************)
(* For any services and any number of installations and of hosts: one       *)
(* controller at a time installs, one thread at a time looks after a        *)
(* service, and what is spawned was installed to the end.                   *)
(* And of the stream that the shell reads: it stays within its bounds.      *)
(***************************************************************************)
EXTENDS Supervisor, Sequences, FiniteSetTheorems, TLAPS

Places == {"none", "stopped?", "launch", "done"} \cup Installing
Works == [pc : Places, outcome : {"none", "ready", "dev", "failed"}]
Watches == [pc : {"none", "test", "spawn", "watch", "poll", "kill", "backoff", "done"},
            child : BOOLEAN]

\* The types of the variables, without what TypeOK says of the flag bootstrapping.
Typed ==
  /\ host \in [n : 1..MaxHosts, kind : Kinds,
               main : {"run", "stopping", "waiting", "exiting", "gone", "crashed"}]
  /\ asking \in BOOLEAN
  /\ bundle \in AnyWheel
  /\ venv \in Environments
  /\ strays \subseteq AnyWheel
  /\ shutdown \in BOOLEAN /\ launched \in BOOLEAN /\ bootstrapping \in BOOLEAN
  /\ ctl \in [Controllers -> Works]
  /\ thr \in [Threads -> Watches]
  /\ status \in [Services -> {"none", "starting", "running", "stopped"} \cup Down]
  /\ torn \in BOOLEAN

\* The installation is one controller's at a time, and the flag is up for just
\* that time.
OneInstaller ==
  /\ bootstrapping <=> \E c \in Controllers : ctl[c].pc \in Installing
  /\ \A c, d \in Controllers : ctl[c].pc \in Installing /\ ctl[d].pc \in Installing => c = d

\* The threads that supervise are those of the one controller that launched.
OneLauncher ==
  /\ \A t \in Threads : thr[t].pc # "none" => launched
  /\ \A t, u \in Threads : thr[t].pc # "none" /\ thr[u].pc # "none" => t[1] = u[1]

\* Unless something is installing, or what it vouches for was disturbed, the marker
\* beside the script is that of the wheel that is installed.
MarkerTrue ==
  venv.script /\ venv.marker # NoWheel /\ ~torn /\ ~Working({"install", "record"})
    => venv.marker = venv.pkg

\* What a controller found or made ready stays so, and nothing more is installed.
Changing == {"create", "begin", "install", "record"}

ReadyStays ==
  \A c \in Controllers :
    ctl[c].outcome = "ready" /\ bundle # NoWheel /\ ~torn
      => venv.pkg = bundle /\ Current /\ ~Working(Changing)

\* A host that has ended has no controller left.
DeadIdle == ~Alive => \A c \in Controllers : ctl[c].pc = "none"

Disk == MarkerTrue /\ ReadyStays /\ DeadIdle

IInv == Typed /\ OneInstaller /\ OneLauncher /\ Disk

-----------------------------------------------------------------------------
(* The shape of the steps                                                   *)

\* A controller's step leaves the other controllers and the host alone.
LEMMA ControlSteps ==
  ASSUME Typed, NEW c \in Controllers, Controls(c)
  PROVE  /\ UNCHANGED <<host, asking, bundle, strays, shutdown, status>>
         /\ ctl'[c] \in Works /\ ctl' = [ctl EXCEPT ![c] = ctl'[c]]
         /\ ctl[c].pc \in Installing \cup {"stopped?", "launch"}
<1> USE DEF Typed, Works, Places, Installing, Step, Settled, flags, disk
<1>1. CASE Check(c)
  BY <1>1 DEF Check
<1>2. CASE Create(c)
  BY <1>2 DEF Create
<1>3. CASE Begin(c)
  <2>1. CASE Step(c, "begin", "install")
    BY <1>3, <2>1 DEF Begin
  <2>2. CASE Settled(c, "begin", "failed")
    BY <1>3, <2>2 DEF Begin
  <2> QED BY <1>3, <2>1, <2>2 DEF Begin
<1>4. CASE Install(c)
  BY <1>4 DEF Install
<1>5. CASE Record(c)
  BY <1>5 DEF Record
<1>6. CASE WriteManifest(c)
  BY <1>6 DEF WriteManifest
<1>7. CASE Clear(c)
  BY <1>7 DEF Clear
<1>8. CASE TestShutdown(c)
  BY <1>8 DEF TestShutdown
<1>9. CASE Launch(c)
  BY <1>9 DEF Launch
<1> QED BY <1>1, <1>2, <1>3, <1>4, <1>5, <1>6, <1>7, <1>8, <1>9 DEF Controls

\* A thread that goes on is typed, and so is what it says.
LEMMA GoesTyped ==
  ASSUME Typed, NEW t \in Threads, NEW from, NEW next, NEW child \in BOOLEAN,
         NEW says \in {"none", "starting", "running", "stopped"} \cup Down,
         next \in {"test", "spawn", "watch", "poll", "kill", "backoff", "done"},
         from # "none", Goes(t, from, next, child, says)
  PROVE  /\ UNCHANGED <<host, asking, disk, flags, ctl>>
         /\ thr'[t] \in Watches /\ thr' = [thr EXCEPT ![t] = thr'[t]]
         /\ thr[t].pc # "none"
         /\ status' \in [Services -> {"none", "starting", "running", "stopped"} \cup Down]
<1>1. t[2] \in Services
  BY DEF Threads
<1>2. [pc |-> next, child |-> child] \in Watches
  BY DEF Watches
<1>3. thr' = [thr EXCEPT ![t] = [pc |-> next, child |-> child]]
      /\ status' = [status EXCEPT ![t[2]] = says]
      /\ UNCHANGED <<host, asking, disk, flags, ctl>>
      /\ thr[t].pc # "none"
  BY DEF Goes
<1>4. thr'[t] = [pc |-> next, child |-> child]
  BY <1>3 DEF Typed
<1> QED BY <1>1, <1>2, <1>3, <1>4 DEF Typed

\* A thread's step, and the end of its child, leaves the other threads, the
\* controllers, the flags and the disk alone, and wakes no thread that is not there.
LEMMA ThreadSteps ==
  ASSUME Typed, NEW t \in Threads, Supervises(t) \/ ChildEnds(t)
  PROVE  /\ UNCHANGED <<host, asking, disk, flags, ctl>>
         /\ thr'[t] \in Watches /\ thr' = [thr EXCEPT ![t] = thr'[t]]
         /\ thr'[t].pc # "none" => thr[t].pc # "none"
         /\ status' \in [Services -> {"none", "starting", "running", "stopped"} \cup Down]
<1>0. /\ status[t[2]] \in {"none", "starting", "running", "stopped"} \cup Down
      /\ thr[t].child \in BOOLEAN
      /\ {"exited", "spawn_error", "monitor_error"} \subseteq Down
  BY DEF Threads, Typed, Watches, Down
<1>1. CASE ChildEnds(t)
  BY <1>1 DEF ChildEnds, Typed, Watches
<1>2. CASE Test(t)
  BY <1>0, <1>2, GoesTyped DEF Test
<1>3. CASE Spawn(t) \/ SpawnFails(t)
  BY <1>0, <1>3, GoesTyped DEF Spawn, SpawnFails
<1>4. CASE SeesShutdown(t) \/ SeesNone(t)
  <2>1. t[2] \in Services
    BY DEF Threads
  <2> QED BY <2>1, <1>4 DEF SeesShutdown, SeesNone, Goes, Typed, Watches, Down
<1>5. CASE StillRuns(t) \/ SeesEnd(t)
  BY <1>0, <1>5, GoesTyped DEF StillRuns, SeesEnd, AfterEnd
<1>6. CASE WatchFails(t) \/ Kill(t) \/ Wake(t)
  BY <1>0, <1>6, GoesTyped DEF WatchFails, Kill, Wake
<1> QED BY <1>1, <1>2, <1>3, <1>4, <1>5, <1>6 DEF Supervises

\* The host's end takes every thread with it.
LEMMA EndSteps ==
  ASSUME Typed, Ends \/ Crash
  PROVE  /\ \E main \in {"waiting", "gone", "crashed"} : host' = [host EXCEPT !.main = main]
         /\ WaitBegins \/ Gone
BY DEF Typed, Ends, Crash, WaitBegins, NothingToWaitFor, WaitEnds, WaitTimesOut, Quit, Main

-----------------------------------------------------------------------------
(* The parts of the invariant                                               *)

\* Every step keeps the types.
LEMMA TypedStep == ASSUME Typed, [Next]_vars PROVE Typed'
<1> USE DEF Typed, flags, disk, AnyWheel, Environments
<1>1. CASE AskRetry
  BY <1>1 DEF AskRetry
<1>2. CASE Retry
  <2>1. ctl' \in [Controllers -> Works]
    <3>1. CASE bootstrapping
      BY <1>2, <3>1 DEF Retry
    <3>2. CASE ~bootstrapping
      BY <1>2, <3>2 DEF Retry, Works, Places, Installing
    <3> QED BY <3>1, <3>2
  <2> QED BY <1>2, <2>1 DEF Retry
<1>3. CASE Stop
  BY <1>3 DEF Stop, Main
<1>4. CASE Ends \/ Crash
  <2>1. host' \in [n : 1..MaxHosts, kind : Kinds,
                   main : {"run", "stopping", "waiting", "exiting", "gone", "crashed"}]
    BY <1>4, EndSteps
  <2>2. CASE WaitBegins
    BY <2>1, <2>2 DEF WaitBegins
  <2>3. CASE Gone
    <3>1. ctl' \in [Controllers -> Works] /\ thr' \in [Threads -> Watches]
      BY <2>3 DEF Gone, Idle, NoThread, Works, Places, Watches
    <3>2. strays' \subseteq AnyWheel /\ torn' \in BOOLEAN
      BY <2>3 DEF Gone, Working
    <3> QED BY <2>1, <2>3, <3>1, <3>2 DEF Gone
  <2> QED BY <1>4, <2>2, <2>3, EndSteps
<1>5. CASE Restart
  <2>1. host' \in [n : 1..MaxHosts, kind : Kinds,
                   main : {"run", "stopping", "waiting", "exiting", "gone", "crashed"}]
    <3>1. PICK kind \in Kinds : host' = [n |-> host.n + 1, kind |-> kind, main |-> "run"]
      BY <1>5 DEF Restart
    <3>2. host.n + 1 \in 1..MaxHosts
      BY <1>5, ConstantsAssumption DEF Restart
    <3> QED BY <3>1, <3>2
  <2>2. ctl' \in [Controllers -> Works]
    BY <1>5 DEF Restart, Started, Idle, Works, Places, Installing
  <2>3. thr' \in [Threads -> Watches]
    BY <1>5 DEF Restart, Started, NoThread, Watches
  <2> QED BY <1>5, <2>1, <2>2, <2>3 DEF Restart, Started
<1>6. ASSUME NEW c \in Controllers, Controls(c) PROVE Typed'
  <2>1. /\ host' \in [n : 1..MaxHosts, kind : Kinds,
                      main : {"run", "stopping", "waiting", "exiting", "gone", "crashed"}]
        /\ asking' \in BOOLEAN /\ bundle' \in AnyWheel /\ strays' = strays /\ shutdown' \in BOOLEAN
        /\ ctl' \in [Controllers -> Works]
        /\ status' \in [Services -> {"none", "starting", "running", "stopped"} \cup Down]
    BY <1>6, ControlSteps
  <2>2. venv' \in Environments
    <3>1. CASE Create(c)
      BY <3>1 DEF Create
    <3>2. CASE Begin(c)
      BY <3>2 DEF Begin
    <3>3. CASE Install(c)
      BY <3>3 DEF Install, Marked
    <3>4. CASE Record(c)
      BY <3>4 DEF Record
    <3>5. CASE venv' = venv
      BY <3>5
    <3> QED BY <1>6, <3>1, <3>2, <3>3, <3>4, <3>5
        DEF Controls, Check, WriteManifest, Clear, TestShutdown, Launch
  <2>3. /\ launched' \in BOOLEAN /\ bootstrapping' \in BOOLEAN
        /\ thr' \in [Threads -> Watches] /\ torn' \in BOOLEAN
    <3>1. CASE Launch(c)
      BY <3>1 DEF Launch, NoThread, Watches
    <3>2. CASE Clear(c)
      BY <3>2 DEF Clear, Cleared, Step
    <3>3. CASE Record(c)
      BY <3>3 DEF Record, Settled
    <3>4. CASE UNCHANGED <<launched, bootstrapping, thr, torn>>
      BY <3>4
    <3> QED BY <1>6, <3>1, <3>2, <3>3, <3>4
        DEF Controls, Check, Create, Begin, Install, WriteManifest, TestShutdown,
            Step, Settled
  <2> QED BY <2>1, <2>2, <2>3
<1>7. ASSUME NEW t \in Threads, Supervises(t) \/ ChildEnds(t) PROVE Typed'
  BY <1>7, ThreadSteps
<1>8. CASE \E w \in strays : StrayWorks(w)
  <2>1. PICK w \in strays : StrayWorks(w)
    BY <1>8
  <2>2. venv' \in Environments
    BY <2>1 DEF StrayWorks
  <2>3. strays' \subseteq AnyWheel /\ torn' \in BOOLEAN
    BY <2>1 DEF StrayWorks
  <2> QED BY <2>1, <2>2, <2>3 DEF StrayWorks
<1>9. CASE UNCHANGED vars
  BY <1>9 DEF vars
<1> QED BY <1>1, <1>2, <1>3, <1>4, <1>5, <1>6, <1>7, <1>8, <1>9 DEF Next

\* Every step keeps the one installer: a second one begins only when the flag is
\* down, and the flag goes down with the installation.
LEMMA InstallerStep == ASSUME Typed, OneInstaller, [Next]_vars PROVE OneInstaller'
<1> USE DEF Typed, flags, disk
<1>1. CASE AskRetry
  BY <1>1 DEF AskRetry, OneInstaller
<1>2. CASE Retry
  <2>1. CASE bootstrapping
    BY <1>2, <2>1 DEF Retry, OneInstaller
  <2>2. CASE ~bootstrapping
    <3>1. PICK c \in Controllers : ctl' = [ctl EXCEPT ![c].pc = "check"]
      BY <1>2, <2>2 DEF Retry
    <3>2. \A d \in Controllers : ctl'[d].pc \in Installing <=> d = c
      BY <2>2, <3>1 DEF OneInstaller, Works, Installing
    <3> QED BY <1>2, <3>2 DEF Retry, OneInstaller
  <2> QED BY <2>1, <2>2
<1>3. CASE Stop
  BY <1>3 DEF Stop, OneInstaller
<1>4. CASE Ends \/ Crash
  <2>1. CASE WaitBegins
    BY <2>1 DEF WaitBegins, OneInstaller
  <2>2. CASE Gone
    BY <2>2 DEF Gone, Idle, Installing, OneInstaller
  <2> QED BY <1>4, <2>1, <2>2, EndSteps
<1>5. CASE Restart
  <2>1. bootstrapping' /\ \A c \in Controllers : ctl'[c].pc \in Installing <=> c = 1
    BY <1>5 DEF Restart, Started, Idle, Installing
  <2>2. 1 \in Controllers
    BY ConstantsAssumption DEF Controllers
  <2> QED BY <2>1, <2>2 DEF OneInstaller
<1>6. ASSUME NEW c \in Controllers, Controls(c) PROVE OneInstaller'
  <2>1. \A d \in Controllers : d # c => ctl'[d] = ctl[d]
    BY <1>6, ControlSteps
  <2>2. CASE Clear(c)
    <3>1. ctl[c].pc \in Installing /\ ctl'[c].pc \notin Installing /\ ~bootstrapping'
      BY <2>2 DEF Clear, Step, Cleared, Installing, Works
    <3> QED BY <2>1, <3>1 DEF OneInstaller
  <2>3. CASE ~Clear(c)
    <3>1. bootstrapping' = bootstrapping
      BY <1>6, <2>3 DEF Controls, Check, Create, Begin, Install, Record, WriteManifest,
                        TestShutdown, Launch
    <3>2. ctl'[c].pc \in Installing <=> ctl[c].pc \in Installing
      <4> USE DEF Step, Settled, Installing, Works
      <4>1. CASE Check(c)
        BY <4>1 DEF Check
      <4>2. CASE Create(c)
        BY <4>2 DEF Create
      <4>3. CASE Begin(c)
        <5>1. CASE Step(c, "begin", "install")
          BY <5>1
        <5>2. CASE Settled(c, "begin", "failed")
          BY <5>2
        <5> QED BY <4>3, <5>1, <5>2 DEF Begin
      <4>4. CASE Install(c)
        BY <4>4 DEF Install
      <4>5. CASE Record(c)
        BY <4>5 DEF Record
      <4>6. CASE WriteManifest(c)
        BY <4>6 DEF WriteManifest
      <4>7. CASE TestShutdown(c)
        BY <4>7 DEF TestShutdown
      <4>8. CASE Launch(c)
        BY <4>8 DEF Launch
      <4> QED BY <1>6, <2>3, <4>1, <4>2, <4>3, <4>4, <4>5, <4>6, <4>7, <4>8 DEF Controls
    <3> QED BY <2>1, <3>1, <3>2 DEF OneInstaller
  <2> QED BY <2>2, <2>3
<1>7. ASSUME NEW t \in Threads, Supervises(t) \/ ChildEnds(t) PROVE OneInstaller'
  BY <1>7, ThreadSteps DEF OneInstaller
<1>8. CASE \E w \in strays : StrayWorks(w)
  <2>1. UNCHANGED <<ctl, flags>>
    BY <1>8 DEF StrayWorks
  <2> QED BY <2>1 DEF OneInstaller
<1>9. CASE UNCHANGED vars
  BY <1>9 DEF vars, OneInstaller
<1> QED BY <1>1, <1>2, <1>3, <1>4, <1>5, <1>6, <1>7, <1>8, <1>9 DEF Next

\* Every step keeps the one launcher: of the controllers that come to launch, the
\* first swaps the flag, and no other makes a thread.
LEMMA LauncherStep == ASSUME Typed, OneLauncher, [Next]_vars PROVE OneLauncher'
<1> USE DEF Typed, flags, disk
<1>1. CASE AskRetry \/ Retry \/ Stop
  BY <1>1 DEF AskRetry, Retry, Stop, OneLauncher
<1>2. CASE Ends \/ Crash
  <2>1. CASE WaitBegins
    BY <2>1 DEF WaitBegins, OneLauncher
  <2>2. CASE Gone
    BY <2>2 DEF Gone, NoThread, OneLauncher
  <2> QED BY <1>2, <2>1, <2>2, EndSteps
<1>3. CASE Restart
  BY <1>3 DEF Restart, Started, NoThread, OneLauncher
<1>4. ASSUME NEW c \in Controllers, Controls(c) PROVE OneLauncher'
  <2>1. CASE Launch(c)
    <3>1. CASE launched
      BY <2>1, <3>1 DEF Launch, Launched, OneLauncher
    <3>2. CASE ~launched
      <4>1. \A t \in Threads : thr'[t].pc # "none" => t[1] = c
        BY <2>1, <3>2 DEF Launch, Launched, OneLauncher
      <4>2. launched'
        BY <2>1 DEF Launch
      <4> QED BY <4>1, <4>2 DEF OneLauncher
    <3> QED BY <3>1, <3>2
  <2>2. CASE ~Launch(c)
    <3>1. thr' = thr /\ launched' = launched
      BY <1>4, <2>2 DEF Controls, Check, Create, Begin, Install, Record, WriteManifest,
                        Clear, TestShutdown, Step, Settled
    <3> QED BY <3>1 DEF OneLauncher
  <2> QED BY <2>1, <2>2
<1>5. ASSUME NEW t \in Threads, Supervises(t) \/ ChildEnds(t) PROVE OneLauncher'
  <2>1. launched' = launched
        /\ \A u \in Threads : thr'[u].pc # "none" => thr[u].pc # "none"
    BY <1>5, ThreadSteps
  <2> QED BY <2>1 DEF OneLauncher
<1>6. CASE \E w \in strays : StrayWorks(w)
  <2>1. UNCHANGED <<thr, flags>>
    BY <1>6 DEF StrayWorks
  <2> QED BY <2>1 DEF OneLauncher
<1>7. CASE UNCHANGED vars
  BY <1>7 DEF vars, OneLauncher
<1> QED BY <1>1, <1>2, <1>3, <1>4, <1>5, <1>6, <1>7 DEF Next

\* Every step keeps what is on the disk true to the marker and to the controllers:
\* what it vouches for is disturbed only where torn says so, and it is written after
\* an installation that came to its end.
LEMMA DiskStep == ASSUME Typed, OneInstaller, Disk, [Next]_vars PROVE Disk'
<1> USE DEF Typed, flags, disk
<1> USE DEF Disk, MarkerTrue, ReadyStays, DeadIdle, Alive, Current, Working, Environments
<1>1. CASE AskRetry \/ Stop
  BY <1>1 DEF AskRetry, Stop, Main
<1>2. CASE Retry
  <2>1. /\ UNCHANGED <<venv, bundle, torn>>
        /\ \A c \in Controllers : ctl'[c].outcome = ctl[c].outcome
        /\ \A c \in Controllers : ctl'[c].pc \in {ctl[c].pc, "check"}
        /\ \A c \in Controllers : ctl'[c].pc # ctl[c].pc => ctl[c].pc = "none"
    BY <1>2 DEF Retry, Works
  <2>4. Alive /\ host' = host
    BY <1>2 DEF Retry
  <2>2. \A c \in Controllers : ctl'[c].pc \in Changing <=> ctl[c].pc \in Changing
    BY <2>1 DEF Changing
  <2>3. \A c \in Controllers :
          ctl'[c].pc \in {"install", "record"} <=> ctl[c].pc \in {"install", "record"}
    BY <2>1
  <2> QED BY <2>1, <2>2, <2>3, <2>4
<1>3. CASE Ends \/ Crash
  <2>1. CASE WaitBegins
    BY <2>1 DEF WaitBegins, Main
  <2>2. CASE Gone
    <3>0. \A c \in Controllers : ctl'[c].pc = "none"
      BY <2>2 DEF Gone, Idle
    <3>1. UNCHANGED venv /\ \A c \in Controllers : ctl'[c].outcome = "none"
      BY <2>2 DEF Gone, Idle
    <3>2. torn' = (torn \/ (Working({"install", "record"}) /\ venv.marker # NoWheel))
      BY <2>2 DEF Gone
    <3> QED BY <3>0, <3>1, <3>2
  <2> QED BY <1>3, <2>1, <2>2, EndSteps
<1>4. CASE Restart
  <2>1. \A c \in Controllers : ctl'[c].pc \in {"none", "check"} /\ ctl'[c].outcome = "none"
    BY <1>4 DEF Restart, Started, Idle
  <2>2. UNCHANGED <<venv, torn>> /\ ~Working({"install", "record"})
    BY <1>4 DEF Restart
  <2>3. Alive'
    BY <1>4 DEF Restart
  <2> QED BY <2>1, <2>2, <2>3
<1>5. CASE \E w \in strays : StrayWorks(w)
  <2>1. UNCHANGED <<host, bundle, ctl>>
    BY <1>5 DEF StrayWorks
  <2>2. torn' = (torn \/ (venv' # venv /\ venv.marker # NoWheel)) /\ venv'.marker = venv.marker
    BY <1>5 DEF StrayWorks
  <2>3. CASE venv' = venv
    BY <2>1, <2>2, <2>3
  <2>4. CASE venv' # venv /\ venv.marker # NoWheel
    BY <2>1, <2>2, <2>4
  <2>5. CASE venv' # venv /\ venv.marker = NoWheel
    BY <2>1, <2>2, <2>5
  <2> QED BY <2>3, <2>4, <2>5
<1>6. ASSUME NEW c \in Controllers, Controls(c) PROVE Disk'
  <2>0. /\ UNCHANGED <<host, bundle>> /\ ctl'[c] \in Works
        /\ \A d \in Controllers : d # c => ctl'[d] = ctl[d]
    BY <1>6, ControlSteps
  <2>1. Alive /\ ctl[c].pc \in Installing \cup {"stopped?", "launch"}
    BY <1>6, ControlSteps DEF Installing
  <2>2. DeadIdle'
    BY <2>0, <2>1
  <2>3. CASE ctl[c].pc \in Installing
    <3>1. \A d \in Controllers : d # c => ctl'[d].pc \notin Installing
                                      /\ ctl[d].pc \notin Installing
      BY <2>0, <2>3 DEF OneInstaller
    <3>2. /\ \A d \in Controllers : d # c => ctl'[d].pc \notin Changing
                                           /\ ctl'[d].pc \notin {"install", "record"}
          /\ \A d \in Controllers : d # c => ctl[d].pc \notin Changing
                                           /\ ctl[d].pc \notin {"install", "record"}
      BY <3>1 DEF Installing, Changing
    \* While a tool runs, nothing else is ready but what was disturbed.
    <3>3. ctl[c].pc \in Changing =>
            \A d \in Controllers : ctl[d].outcome = "ready" /\ bundle # NoWheel => torn
      OBVIOUS
    <3>4. CASE Check(c)
      <4>1. UNCHANGED <<venv, torn>> /\ ctl[c].pc = "check"
        BY <3>4 DEF Check, Step, Settled
      <4>2. ~Working(Changing)
        BY <3>2, <4>1 DEF Changing
      <4>3. CASE Current /\ Settled(c, "check", "ready")
        <5>1. ctl'[c] = [pc |-> "manifest", outcome |-> "ready"]
          BY <4>3 DEF Settled
        <5>2. ~Working(Changing)' /\ ~Working({"install", "record"})
          BY <3>2, <4>1, <5>1 DEF Changing
        <5> QED BY <2>0, <2>2, <4>1, <4>3, <5>1, <5>2
      <4>4. CASE Settled(c, "check", "dev")
        <5>1. ctl'[c] = [pc |-> "manifest", outcome |-> "dev"]
          BY <4>4 DEF Settled
        <5>2. ~Working(Changing)' /\ ~Working({"install", "record"})
          BY <3>2, <4>1, <5>1 DEF Changing
        <5> QED BY <2>0, <2>2, <4>1, <5>1, <5>2
      <4>5. CASE ~Current /\ Step(c, "check", IF venv.script THEN "begin" ELSE "create")
        <5>1. ctl'[c].pc \in {"begin", "create"} /\ ctl'[c].outcome = ctl[c].outcome
          BY <4>5 DEF Step, Works
        <5>2. ~Working({"install", "record"})
          BY <3>2, <4>1
        <5> QED BY <2>0, <2>2, <4>1, <4>5, <5>1, <5>2
      <4> QED BY <3>4, <4>3, <4>4, <4>5 DEF Check
    <3>5. CASE Create(c)
      <4>1. ctl[c].pc = "create" /\ UNCHANGED torn /\ venv'.marker = venv.marker
        BY <3>5 DEF Create, Step, Settled
      <4>2. /\ ctl'[c].pc \in {"begin", "manifest"}
            /\ ctl'[c].outcome # "ready" \/ ctl'[c].outcome = ctl[c].outcome
        BY <3>5 DEF Create, Step, Settled, Works
      <4>3. venv' = venv \/ ~venv'.script
        BY <3>5 DEF Create
      <4>4. ~Working({"install", "record"})
        BY <3>2, <4>1
      <4>5. MarkerTrue'
        BY <2>0, <4>1, <4>3, <4>4
      <4> QED BY <2>0, <2>2, <3>3, <4>1, <4>2, <4>5 DEF Changing
    <3>6. CASE Begin(c)
      <4>1. CASE Step(c, "begin", "install") /\ UNCHANGED torn
        <5>1. ctl[c].pc = "begin" /\ ctl'[c].pc = "install" /\ ctl'[c].outcome = ctl[c].outcome
          BY <4>1 DEF Step, Works
        <5> QED BY <2>0, <2>2, <3>3, <4>1, <5>1 DEF Changing
      <4>2. CASE Settled(c, "begin", "failed") /\ UNCHANGED <<venv, torn>>
        <5>1. ctl[c].pc = "begin" /\ ctl'[c] = [pc |-> "manifest", outcome |-> "failed"]
          BY <4>2 DEF Settled
        <5>2. ~Working({"install", "record"})
          BY <3>2, <5>1
        <5>3. MarkerTrue'
          BY <2>0, <4>2, <5>2
        <5> QED BY <2>0, <2>2, <3>3, <4>2, <5>1, <5>3 DEF Changing
      <4> QED BY <3>6, <4>1, <4>2 DEF Begin
    <3>7. CASE Install(c)
      <4>1. CASE Step(c, "install", "record") /\ UNCHANGED torn
        <5>1. /\ ctl[c].pc = "install" /\ ctl'[c].pc = "record"
              /\ ctl'[c].outcome = ctl[c].outcome
          BY <4>1 DEF Step, Works
        <5> QED BY <2>0, <2>2, <3>3, <4>1, <5>1 DEF Changing
      <4>2. CASE /\ Settled(c, "install", "failed")
                 /\ venv'.marker = venv.marker
                 /\ torn' = (torn \/ venv.marker # NoWheel)
        <5>1. ctl[c].pc = "install" /\ ctl'[c] = [pc |-> "manifest", outcome |-> "failed"]
          BY <4>2 DEF Settled
        <5>2. MarkerTrue'
          BY <4>2
        <5>3. ReadyStays'
          BY <2>0, <3>3, <4>2, <5>1 DEF Changing
        <5> QED BY <2>2, <5>2, <5>3
      <4> QED BY <3>7, <4>1, <4>2 DEF Install, Marked
    <3>8. CASE Record(c)
      <4>1. CASE venv.script /\ Settled(c, "record", "ready")
        <5>1. ctl[c].pc = "record" /\ ctl'[c] = [pc |-> "manifest", outcome |-> "ready"]
          BY <4>1 DEF Settled
        <5>2. ~Working(Changing)'
          BY <3>2, <5>1 DEF Changing
        <5>3. \/ torn'
              \/ venv'.pkg = bundle /\ venv'.marker = bundle /\ venv'.script
          BY <3>8, <4>1 DEF Record, Settled
        <5>4. MarkerTrue'
          BY <2>0, <5>3
        <5>5. ReadyStays'
          BY <2>0, <5>2, <5>3
        <5> QED BY <2>2, <5>4, <5>5
      <4>2. CASE ~venv.script /\ Settled(c, "record", "failed") /\ UNCHANGED <<venv, torn>>
        <5>1. ctl[c].pc = "record" /\ ctl'[c] = [pc |-> "manifest", outcome |-> "failed"]
          BY <4>2 DEF Settled
        <5> QED BY <2>0, <2>2, <3>3, <4>2, <5>1 DEF Changing
      <4> QED BY <3>8, <4>1, <4>2 DEF Record
    <3>9. CASE WriteManifest(c) \/ Clear(c)
      <4>1. UNCHANGED <<venv, torn>> /\ ctl'[c].outcome = ctl[c].outcome
        BY <3>9 DEF WriteManifest, Clear, Step, Works
      <4>2. ctl'[c].pc \notin Changing /\ ctl[c].pc \notin Changing
        BY <3>9 DEF WriteManifest, Clear, Step, Works, Changing
      <4>3. ~Working({"install", "record"}) /\ ~Working(Changing)'
        BY <3>2, <4>2 DEF Changing
      <4> QED BY <2>0, <2>2, <4>1, <4>3
    <3> QED BY <1>6, <2>3, <3>4, <3>5, <3>6, <3>7, <3>8, <3>9
        DEF Controls, TestShutdown, Launch, Step, Installing
  <2>4. CASE ctl[c].pc \in {"stopped?", "launch"}
    <3>1. TestShutdown(c) \/ Launch(c)
      BY <1>6, <2>4 DEF Controls, Check, Create, Begin, Install, Record, WriteManifest, Clear,
                        Step, Settled
    <3>2. UNCHANGED <<venv, torn>> /\ ctl'[c].outcome = ctl[c].outcome
      BY <3>1 DEF TestShutdown, Launch, Step, Works
    <3>3. ctl'[c].pc \in {"launch", "done"}
      BY <3>1 DEF TestShutdown, Launch, Step, Works
    <3>4. \A d \in Controllers : (ctl'[d].pc \in Changing <=> ctl[d].pc \in Changing)
            /\ (ctl'[d].pc \in {"install", "record"} <=> ctl[d].pc \in {"install", "record"})
      BY <2>0, <2>4, <3>3 DEF Changing
    <3> QED BY <2>0, <2>2, <3>2, <3>4
  <2> QED BY <2>1, <2>3, <2>4
<1>7. ASSUME NEW t \in Threads, Supervises(t) \/ ChildEnds(t) PROVE Disk'
  BY <1>7, ThreadSteps
<1>8. CASE UNCHANGED vars
  BY <1>8 DEF vars
<1> QED BY <1>1, <1>2, <1>3, <1>4, <1>5, <1>6, <1>7, <1>8 DEF Next

-----------------------------------------------------------------------------
(* The theorems                                                             *)

LEMMA Initially == Init => IInv
<1> SUFFICES ASSUME Init PROVE IInv
  OBVIOUS
<1>1. ctl \in [Controllers -> Works]
      /\ \A c \in Controllers : /\ ctl[c].pc \in Installing <=> c = 1
                                /\ ctl[c].pc \in {"none", "check"}
                                /\ ctl[c].outcome = "none"
  BY DEF Init, Idle, Works, Places, Installing
<1>2. thr \in [Threads -> Watches] /\ \A t \in Threads : thr[t].pc = "none"
  BY DEF Init, NoThread, Watches
<1>3. 1 \in Controllers /\ 1 \in 1..MaxHosts
  BY ConstantsAssumption DEF Controllers
<1>0. venv \in Environments /\ torn \in BOOLEAN /\ MarkerTrue
  BY DEF Init, MarkerTrue
<1>4. Typed
  <2>1. host \in [n : 1..MaxHosts, kind : Kinds,
                  main : {"run", "stopping", "waiting", "exiting", "gone", "crashed"}]
    BY <1>3 DEF Init
  <2>2. status \in [Services -> {"none", "starting", "running", "stopped"} \cup Down]
    BY DEF Init
  <2> QED BY <1>0, <1>1, <1>2, <2>1, <2>2 DEF Init, Typed
<1>5. OneInstaller /\ OneLauncher
  BY <1>1, <1>2, <1>3 DEF Init, OneInstaller, OneLauncher
<1>6. Disk
  BY <1>0, <1>1 DEF Init, Disk, ReadyStays, DeadIdle, Alive
<1> QED BY <1>4, <1>5, <1>6 DEF IInv

LEMMA Inductive == IInv /\ [Next]_vars => IInv'
BY TypedStep, InstallerStep, LauncherStep, DiskStep DEF IInv

LEMMA Invariance == Spec => []IInv
BY Initially, Inductive, PTL DEF Spec

\* A set whose elements are all equal has one at most.
LEMMA OneAtMost ==
  ASSUME NEW S, \A x, y \in S : x = y
  PROVE  Cardinality(S) <= 1
<1>1. CASE S = {}
  BY <1>1, FS_EmptySet
<1>2. CASE S # {}
  <2>1. PICK x \in S : S = {x}
    BY <1>2
  <2> QED BY <2>1, FS_Singleton
<1> QED BY <1>1, <1>2

\* Every variable is in its type, and the flag bootstrapping is up for just the time
\* of one installation (spawn_controller).
THEOREM TypeCorrect == Spec => []TypeOK
<1>1. IInv => TypeOK
  <2> SUFFICES ASSUME IInv PROVE TypeOK
    OBVIOUS
  <2>1. Cardinality({c \in Controllers : ctl[c].pc \in Installing}) <= 1
    BY OneAtMost DEF IInv, OneInstaller
  <2> QED BY <2>1 DEF IInv, Typed, OneInstaller, TypeOK, Works, Places, Watches
<1> QED BY <1>1, Invariance, PTL

\* At most one thread at a time looks after a service, however often the user has
\* the setup tried again (retry_setup, the swap of launched in spawn_controller).
THEOREM OneThread == Spec => []OneThreadPerService
<1>1. IInv => OneThreadPerService
  <2> SUFFICES ASSUME IInv, NEW s \in Services
               PROVE  Cardinality({c \in Controllers :
                                     thr[<<c, s>>].pc \notin {"none", "done"}}) <= 1
    BY DEF OneThreadPerService
  <2>1. ASSUME NEW c \in Controllers, NEW d \in Controllers,
               thr[<<c, s>>].pc # "none", thr[<<d, s>>].pc # "none"
        PROVE  c = d
    <3>1. <<c, s>> \in Threads /\ <<d, s>> \in Threads
      BY DEF Threads
    <3> QED BY <2>1, <3>1 DEF IInv, OneLauncher
  <2> QED BY <2>1, OneAtMost
<1> QED BY <1>1, Invariance, PTL

\* A service is spawned from an environment that its host's wheel was installed in to
\* the end, unless what the marker vouches for was disturbed since the last
\* installation was recorded (runtime_venv_is_current, ensure_runtime).
THEOREM SpawnsWhole == Spec => RunsWhole
<1>1. IInv /\ [Next]_vars =>
        [\A t \in Threads :
           /\ thr'[t].child /\ ~thr[t].child /\ ctl[t[1]].outcome = "ready"
           /\ bundle # NoWheel
           => venv.pkg = bundle \/ torn]_vars
  <2> SUFFICES ASSUME IInv, NEW t \in Threads, ctl[t[1]].outcome = "ready", bundle # NoWheel
               PROVE  venv.pkg = bundle \/ torn
    OBVIOUS
  <2>1. t[1] \in Controllers
    BY DEF Threads
  <2> QED BY <2>1 DEF IInv, Disk, ReadyStays
<1> QED BY <1>1, Invariance, PTL DEF Spec, RunsWhole

-----------------------------------------------------------------------------
(* A service that is stopped                                                *)

\* A child is in the care of a thread.
Watched == \A t \in Threads : thr[t].child => thr[t].pc \in {"watch", "poll", "kill"}

\* A service that is stopped had a thread, and has none that goes on.
StoppedIsOver ==
  \A s \in Services : status[s] = "stopped" =>
    launched /\ \A c \in Controllers : thr[<<c, s>>].pc \in {"none", "done"}

StopInv == Watched /\ StoppedIsOver

\* What a thread's step does to its child and to the status.
LEMMA ThreadWatches ==
  ASSUME Typed, Watched, NEW t \in Threads, Supervises(t) \/ ChildEnds(t)
  PROVE  /\ thr'[t].child => thr'[t].pc \in {"watch", "poll", "kill"}
         /\ thr[t].pc \notin {"none", "done"}
         /\ \A s \in Services : s # t[2] => status'[s] = status[s]
         /\ status'[t[2]] = "stopped" => status[t[2]] = "stopped" \/ thr'[t].pc = "done"
<1>0. t[2] \in Services /\ "spawn_error" # "stopped"
  BY DEF Threads
<1>1. CASE ChildEnds(t)
  BY <1>1 DEF ChildEnds, Typed, Watched, Watches
<1>2. CASE Test(t)
  BY <1>0, <1>2 DEF Test, Goes, Typed
<1>3. CASE Spawn(t) \/ SpawnFails(t)
  BY <1>0, <1>3 DEF Spawn, SpawnFails, Goes, Typed
<1>4. CASE SeesShutdown(t) \/ SeesNone(t)
  BY <1>0, <1>4 DEF SeesShutdown, SeesNone, Goes, Typed
<1>5. CASE StillRuns(t) \/ SeesEnd(t)
  BY <1>0, <1>5 DEF StillRuns, SeesEnd, AfterEnd, Goes, Typed
<1>6. CASE WatchFails(t) \/ Kill(t) \/ Wake(t)
  BY <1>0, <1>6 DEF WatchFails, Kill, Wake, Goes, Typed
<1> QED BY <1>1, <1>2, <1>3, <1>4, <1>5, <1>6 DEF Supervises

\* Every step keeps what a stop relies on.
LEMMA StopStep == IInv /\ StopInv /\ [Next]_vars => StopInv'
<1> SUFFICES ASSUME IInv, StopInv, [Next]_vars PROVE StopInv'
  OBVIOUS
<1> USE DEF StopInv, flags, disk
<1>0. \A c \in Controllers, s \in Services : <<c, s>> \in Threads
  BY DEF Threads
<1>1. CASE AskRetry \/ Retry \/ Stop \/ WaitBegins \/ UNCHANGED vars
  <2>1. UNCHANGED <<thr, status, launched>>
    BY <1>1 DEF AskRetry, Retry, Stop, WaitBegins, vars
  <2> QED BY <2>1 DEF Watched, StoppedIsOver
<1>2. CASE Gone
  <2>1. UNCHANGED <<status, launched>> /\ \A t \in Threads : thr'[t] = NoThread
    BY <1>2 DEF Gone
  <2> QED BY <1>0, <2>1 DEF Watched, StoppedIsOver, NoThread
<1>3. CASE Restart
  <2>1. \A s \in Services : status'[s] = "none"
    BY <1>3 DEF Restart, Started
  <2>2. \A t \in Threads : thr'[t] = NoThread
    BY <1>3 DEF Restart, Started
  <2> QED BY <2>1, <2>2 DEF Watched, StoppedIsOver, NoThread
<1>4. ASSUME NEW c \in Controllers, Controls(c) PROVE StopInv'
  <2>1. CASE Launch(c) /\ ~launched
    <3>1. status' = status /\ \A s \in Services : status[s] # "stopped"
      BY <2>1 DEF Launch, StoppedIsOver
    <3>2. \A t \in Threads : thr'[t] = thr[t] \/ thr'[t] = [NoThread EXCEPT !.pc = "test"]
      BY <2>1 DEF Launch, Launched, IInv, Typed
    <3> QED BY <3>1, <3>2 DEF Watched, StoppedIsOver, NoThread
  <2>2. CASE ~(Launch(c) /\ ~launched)
    <3>1. UNCHANGED <<thr, status, launched>>
      BY <1>4, <2>2 DEF Controls, Check, Create, Begin, Install, Record, WriteManifest, Clear,
           TestShutdown, Step, Settled, Launch, Launched, IInv, Typed
    <3> QED BY <3>1 DEF Watched, StoppedIsOver
  <2> QED BY <2>1, <2>2
<1>5. ASSUME NEW t \in Threads, Supervises(t) \/ ChildEnds(t) PROVE StopInv'
  <2>1. /\ thr'[t].child => thr'[t].pc \in {"watch", "poll", "kill"}
        /\ thr[t].pc \notin {"none", "done"}
        /\ \A s \in Services : s # t[2] => status'[s] = status[s]
        /\ status'[t[2]] = "stopped" => status[t[2]] = "stopped" \/ thr'[t].pc = "done"
    BY <1>5, ThreadWatches DEF IInv
  <2>2. launched' = launched /\ \A u \in Threads : u # t => thr'[u] = thr[u]
    BY <1>5, ThreadSteps DEF IInv, Typed
  <2>3. Watched'
    BY <2>1, <2>2 DEF Watched
  <2>4. ASSUME NEW s \in Services, status'[s] = "stopped", NEW c \in Controllers
        PROVE  launched' /\ thr'[<<c, s>>].pc \in {"none", "done"}
    <3>1. PICK d \in Controllers, r \in Services : t = <<d, r>>
      BY DEF Threads
    <3>2. CASE s # r
      <4>1. <<c, s>> # t /\ status[s] = "stopped"
        BY <2>1, <2>4, <3>1, <3>2
      <4> QED BY <1>0, <2>2, <4>1 DEF StoppedIsOver
    <3>3. CASE s = r
      <4>1. status[s] # "stopped"
        BY <2>1, <3>1, <3>3 DEF StoppedIsOver
      <4>2. thr'[t].pc = "done" /\ launched
        BY <2>1, <2>4, <3>1, <3>3, <4>1 DEF IInv, OneLauncher
      <4>3. CASE c = d
        BY <2>2, <3>1, <3>3, <4>2, <4>3
      <4>4. CASE c # d
        <5>1. thr[<<c, s>>].pc = "none" /\ <<c, s>> # t
          BY <1>0, <2>1, <3>1, <4>4 DEF IInv, OneLauncher
        <5> QED BY <1>0, <2>2, <4>2, <5>1
      <4> QED BY <4>3, <4>4
    <3> QED BY <3>2, <3>3
  <2>5. 1 \in Controllers
    BY ConstantsAssumption DEF Controllers
  <2> QED BY <2>3, <2>4, <2>5 DEF StoppedIsOver
<1>6. CASE \E w \in strays : StrayWorks(w)
  <2>1. UNCHANGED <<thr, status, launched>>
    BY <1>6 DEF StrayWorks
  <2> QED BY <2>1 DEF Watched, StoppedIsOver
<1> QED BY <1>1, <1>2, <1>3, <1>4, <1>5, <1>6, EndSteps DEF Next, IInv

\* The services that are stopped, in every reachable state.
LEMMA StopInvariant == Spec => []StopInv
<1>1. Init => StopInv
  <2> SUFFICES ASSUME Init PROVE StopInv
    OBVIOUS
  <2>1. /\ \A t \in Threads : thr[t] = NoThread
        /\ \A s \in Services : status[s] = "none"
    BY DEF Init
  <2> QED BY <2>1 DEF StopInv, Watched, StoppedIsOver, NoThread
<1> QED BY <1>1, StopStep, Invariance, PTL DEF Spec

\* The Windows service that has seen its services stopped leaves none of the processes that
\* it watches behind (wait_for_services_stopped, supervise_service).
THEOREM NoneLeftBehind == Spec => StopLeavesNone
<1>1. ASSUME StopInv PROVE [WaitEnds => \A t \in Threads : ~thr[t].child]_vars
  <2> SUFFICES ASSUME AllStopped, NEW t \in Threads PROVE ~thr[t].child
    BY DEF WaitEnds
  <2>1. PICK c \in Controllers, s \in Services : t = <<c, s>>
    BY DEF Threads
  <2>2. thr[t].pc \in {"none", "done"}
    BY <1>1, <2>1 DEF AllStopped, StopInv, StoppedIsOver
  <2> QED BY <1>1, <2>2 DEF StopInv, Watched
<1> QED BY <1>1, StopInvariant, PTL DEF StopLeavesNone
-----------------------------------------------------------------------------
(* The stream of the shell: the other thing that the host does is to read the *)
(* status that the control plane streams.  Its module has names that the       *)
(* supervisor's has too, so it is an instance here, of constants and variables *)
(* of its own, and what it assumes of them is an assumption of the theorems.   *)

CONSTANTS Publishers, Streams, MaxSubscribers, QueueSize, WireSize, MaxEvents,
          MaxCrashes, MaxBreaks
VARIABLES up, snapshot, subscribers, pub, stream, wire, reads, shown, made, crashes, breaks

Stream == INSTANCE StateStream

\* What StateStream assumes of its constants.
StreamConstants ==
  /\ IsFiniteSet(Publishers) /\ IsFiniteSet(Streams)
  /\ \A n \in {MaxSubscribers, QueueSize, WireSize} : n \in Nat \ {0}
  /\ \A n \in {MaxEvents, MaxCrashes, MaxBreaks} : n \in Nat

Links == [pc : {"closed", "open", "first", "wait"},
          posted : Seq(Stream!Events), queue : Seq(Stream!Events), client : BOOLEAN]

BusTyped ==
  /\ up \in BOOLEAN
  /\ made \in Nat /\ made <= MaxEvents
  /\ snapshot \in Stream!Events
  /\ pub \in [Publishers -> [event : Stream!Events, to : SUBSET Streams]]

LinksTyped ==
  /\ stream \in [Streams -> Links]
  /\ \A s \in Streams : Len(stream[s].queue) <= QueueSize

WireTyped ==
  /\ wire \in [Streams -> Seq(Stream!Events)]
  /\ \A s \in Streams : Len(wire[s]) <= WireSize
  /\ shown \in Stream!Events

SubscribersServed ==
  /\ subscribers \subseteq {s \in Streams : stream[s].pc \in {"first", "wait"}}
  /\ Cardinality(subscribers) <= MaxSubscribers

\* The shell reads one stream, which has it for a client until it has ended; what a
\* stream that nobody reads has sent is gone.
ReaderKnown ==
  /\ reads \subseteq Streams
  /\ \A s, t \in reads : s = t
  /\ \A s \in Streams : stream[s].client => s \in reads
  /\ \A s \in Streams : wire[s] # <<>> => s \in reads
  /\ \A s \in Streams : stream[s].pc = "closed" => ~stream[s].client

StreamInv == BusTyped /\ LinksTyped /\ WireTyped /\ SubscribersServed /\ ReaderKnown

\* An action of the stream, in the order of Next.
StreamStep ==
  \/ Stream!Crash \/ Stream!Restart
  \/ \E p \in Publishers : Stream!Publish(p)
  \/ \E p \in Publishers, s \in Streams : Stream!Call(p, s)
  \/ \E s \in Streams :
       \/ Stream!Enqueue(s)
       \/ Stream!Subscribe(s) \/ Stream!First(s) \/ Stream!SendEvent(s)
       \/ Stream!Heartbeat(s) \/ Stream!End(s)
       \/ Stream!Connect(s) \/ Stream!ReadFrame(s) \/ Stream!GiveUp(s) \/ Stream!SeeEnd(s)

\* The instance counts as this module does.
LEMMA SameCount == \A S : Stream!Cardinality(S) = Cardinality(S)
BY DEF Stream!Cardinality, Cardinality

LEMMA StreamSteps == Stream!Next => StreamStep
BY DEF Stream!Next, Stream!Serves, StreamStep

LEMMA StreamBegins == ASSUME StreamConstants, Stream!Init PROVE StreamInv
<1>1. /\ up \in BOOLEAN /\ made \in Nat /\ made <= MaxEvents
      /\ 0 \in Stream!Events
      /\ <<>> \in Seq(Stream!Events) /\ Len(<<>>) = 0
      /\ QueueSize \in Nat /\ WireSize \in Nat /\ MaxSubscribers \in Nat
  BY DEF StreamConstants, Stream!Init, Stream!Events
<1>2. Stream!Closed \in Links
  BY <1>1 DEF Stream!Closed, Links
<1>3. BusTyped
  BY <1>1 DEF Stream!Init, BusTyped, Stream!NoCall
<1>4. LinksTyped
  BY <1>1, <1>2 DEF Stream!Init, LinksTyped, Stream!Closed
<1>5. WireTyped
  BY <1>1 DEF Stream!Init, WireTyped
<1>6. SubscribersServed
  BY <1>1, FS_EmptySet DEF Stream!Init, SubscribersServed
<1>7. ReaderKnown
  BY <1>1 DEF Stream!Init, ReaderKnown, Stream!Closed
<1> QED BY <1>3, <1>4, <1>5, <1>6, <1>7 DEF StreamInv
LEMMA QueueOps ==
  ASSUME NEW S, NEW q \in Seq(S)
  PROVE  /\ Len(q) \in Nat
         /\ \A e \in S : Append(q, e) \in Seq(S) /\ Len(Append(q, e)) = Len(q) + 1
         /\ q # <<>> => Head(q) \in S /\ Tail(q) \in Seq(S) /\ Len(Tail(q)) = Len(q) - 1
         /\ \A n \in 0..Len(q) : SubSeq(q, 1, n) \in Seq(S) /\ Len(SubSeq(q, 1, n)) = n
OBVIOUS

\* A step that leaves the bus, a stream, or the wire alone.
LEMMA BusKept ==
  ASSUME BusTyped, UNCHANGED <<up, made, snapshot, pub>> PROVE BusTyped'
BY DEF BusTyped, Stream!Events

LEMMA WireKept ==
  ASSUME WireTyped, UNCHANGED <<wire, shown>> PROVE WireTyped'
BY DEF WireTyped, Stream!Events

\* One stream changes, into one that is typed.
LEMMA LinkSet ==
  ASSUME StreamInv, NEW s \in Streams, NEW x \in Links, Len(x.queue) <= QueueSize,
         stream' = [stream EXCEPT ![s] = x]
  PROVE  LinksTyped'
<1>1. stream' \in [Streams -> Links]
  BY DEF StreamInv, LinksTyped
<1>2. Links' = Links
  BY DEF Links, Stream!Events
<1>3. \A t \in Streams : stream'[t] = IF t = s THEN x ELSE stream[t]
  BY DEF StreamInv, LinksTyped
<1> QED BY <1>1, <1>2, <1>3 DEF StreamInv, LinksTyped

\* A frame is sent, to the client of a stream and so to the reader of the shell.
LEMMA FrameSent ==
  ASSUME StreamInv, NEW s \in Streams, NEW e \in Stream!Events, Stream!Sends(s, e),
         WireSize \in Nat, UNCHANGED <<shown, reads>>,
         \A t \in Streams : /\ stream'[t].client = stream[t].client
                            /\ stream'[t].pc = "closed" => stream[t].pc = "closed"
  PROVE  WireTyped' /\ ReaderKnown'
<1>1. /\ wire[s] \in Seq(Stream!Events) /\ Len(wire[s]) < WireSize
      /\ stream[s].client
      /\ wire' = [wire EXCEPT ![s] = Append(@, e)]
  BY DEF StreamInv, WireTyped, Stream!Sends
<1>2. Append(wire[s], e) \in Seq(Stream!Events) /\ Len(Append(wire[s], e)) = Len(wire[s]) + 1
  BY <1>1, QueueOps
<1>3. \A t \in Streams : wire'[t] = IF t = s THEN Append(wire[s], e) ELSE wire[t]
  BY <1>1 DEF StreamInv, WireTyped
<1>4. Len(wire[s]) \in Nat
  BY <1>1, QueueOps
<1>5. Len(Append(wire[s], e)) <= WireSize
  BY <1>1, <1>2, <1>4
<1>6. WireTyped'
  BY <1>1, <1>2, <1>3, <1>5 DEF StreamInv, WireTyped, Stream!Events
<1>7. ReaderKnown'
  BY <1>1, <1>3 DEF StreamInv, ReaderKnown
<1> QED BY <1>6, <1>7
\* The subscribers stay, and the places of the streams.
LEMMA SubscribersKept ==
  ASSUME SubscribersServed, UNCHANGED subscribers,
         \A t \in Streams : \/ stream'[t].pc = stream[t].pc
                            \/ {stream[t].pc, stream'[t].pc} \subseteq {"first", "wait"}
  PROVE  SubscribersServed'
BY DEF SubscribersServed

\* The reader stays, and what it has.
LEMMA ReaderKept ==
  ASSUME ReaderKnown, UNCHANGED <<reads, wire>>,
         \A t \in Streams : /\ stream'[t].client = stream[t].client
                            /\ stream'[t].pc = "closed" => stream[t].pc = "closed"
  PROVE  ReaderKnown'
BY DEF ReaderKnown

\* The bus: a publication, and the call of one subscriber.
LEMMA PublishKeeps ==
  ASSUME StreamConstants, StreamInv, NEW p \in Publishers, Stream!Publish(p)
  PROVE  StreamInv'
<1>1. /\ made' = made + 1 /\ made' <= MaxEvents /\ made' \in Stream!Events
      /\ snapshot' = made'
  BY DEF StreamInv, BusTyped, StreamConstants, Stream!Publish, Stream!Events
<1>2. subscribers \in SUBSET Streams
  BY DEF StreamInv, SubscribersServed
<1>3. BusTyped'
  BY <1>1, <1>2 DEF StreamInv, BusTyped, Stream!Publish, Stream!Events
<1>4. UNCHANGED <<subscribers, stream, wire, reads, shown>>
  BY DEF Stream!Publish, Stream!shell
<1> QED BY <1>3, <1>4 DEF StreamInv, LinksTyped, Links, WireTyped, SubscribersServed,
                          ReaderKnown, Stream!Events

LEMMA CallKeeps ==
  ASSUME StreamConstants, StreamInv, NEW p \in Publishers, NEW s \in Streams,
         Stream!Call(p, s)
  PROVE  StreamInv'
<1>1. /\ UNCHANGED <<up, snapshot, subscribers, wire, reads, shown, made>>
      /\ pub' = [pub EXCEPT ![p].to = @ \ {s}]
  BY DEF Stream!Call, Stream!bus, Stream!shell, Stream!counts
<1>2. BusTyped'
  BY <1>1 DEF StreamInv, BusTyped, Stream!Events
<1> DEFINE x == [stream[s] EXCEPT !.posted = Append(@, pub[p].event)]
<1>3. pub[p].event \in Stream!Events /\ stream[s] \in Links
  BY DEF StreamInv, BusTyped, LinksTyped
<1>4. Append(stream[s].posted, pub[p].event) \in Seq(Stream!Events)
  BY <1>3, QueueOps DEF Links
<1>5. x \in Links /\ x.queue = stream[s].queue /\ x.pc = stream[s].pc
      /\ x.client = stream[s].client
  BY <1>3, <1>4 DEF Links
<1>6. stream' = [stream EXCEPT ![s] = x]
  BY DEF Stream!Call
<1>7. LinksTyped'
  <2>1. Len(x.queue) <= QueueSize
    BY <1>5 DEF StreamInv, LinksTyped
  <2> HIDE DEF x
  <2> QED BY <1>5, <1>6, <2>1, LinkSet
<1>8. \A t \in Streams : stream'[t].pc = stream[t].pc /\ stream'[t].client = stream[t].client
  <2> HIDE DEF x
  <2> QED BY <1>5, <1>6 DEF StreamInv, LinksTyped
<1> QED BY <1>1, <1>2, <1>7, <1>8, WireKept, SubscribersKept, ReaderKept DEF StreamInv

\* The callbacks of a stream and its generator.
LEMMA EnqueueKeeps ==
  ASSUME StreamConstants, StreamInv, NEW s \in Streams, Stream!Enqueue(s)
  PROVE  StreamInv'
<1>1. UNCHANGED <<up, snapshot, subscribers, pub, wire, reads, shown, made>>
  BY DEF Stream!Enqueue, Stream!bus, Stream!shell, Stream!counts
<1> DEFINE q == IF Len(stream[s].queue) = QueueSize THEN stream[s].queue
                ELSE Append(stream[s].queue, Head(stream[s].posted))
<1> DEFINE x == [stream[s] EXCEPT !.posted = Tail(@), !.queue = q]
<1>2. /\ stream[s] \in Links /\ Len(stream[s].queue) <= QueueSize /\ QueueSize \in Nat
      /\ stream[s].posted # <<>>
  BY DEF StreamInv, LinksTyped, Stream!Enqueue, StreamConstants
<1>3. /\ Head(stream[s].posted) \in Stream!Events
      /\ Tail(stream[s].posted) \in Seq(Stream!Events)
  BY <1>2, QueueOps DEF Links
<1>4. q \in Seq(Stream!Events) /\ Len(q) <= QueueSize
  <2>1. stream[s].queue \in Seq(Stream!Events)
    BY <1>2 DEF Links
  <2>2. Len(stream[s].queue) \in Nat
    BY <2>1, QueueOps
  <2>3. LET a == Append(stream[s].queue, Head(stream[s].posted))
        IN  a \in Seq(Stream!Events) /\ Len(a) = Len(stream[s].queue) + 1
    BY <1>3, <2>1, QueueOps
  <2> QED BY <1>2, <2>1, <2>2, <2>3
<1>5. x \in Links /\ x.queue = q /\ x.pc = stream[s].pc /\ x.client = stream[s].client
  <2> HIDE DEF q
  <2> QED BY <1>2, <1>3, <1>4 DEF Links
<1>6. stream' = [stream EXCEPT ![s] = x]
  BY DEF Stream!Enqueue
<1>7. LinksTyped' /\ \A t \in Streams : /\ stream'[t].pc = stream[t].pc
                                        /\ stream'[t].client = stream[t].client
  <2> HIDE DEF x, q
  <2>1. LinksTyped'
    BY <1>4, <1>5, <1>6, LinkSet
  <2> QED BY <1>5, <1>6, <2>1 DEF StreamInv, LinksTyped
<1> QED BY <1>1, <1>7, BusKept, WireKept, SubscribersKept, ReaderKept DEF StreamInv

LEMMA SubscribeKeeps ==
  ASSUME StreamConstants, StreamInv, NEW s \in Streams, Stream!Subscribe(s)
  PROVE  StreamInv'
<1>1. UNCHANGED <<up, snapshot, pub, wire, reads, shown, made>>
  BY DEF Stream!Subscribe, Stream!shell, Stream!counts
<1> DEFINE x == [stream[s] EXCEPT !.pc = "first"]
<1>2. /\ stream[s] \in Links /\ Len(stream[s].queue) <= QueueSize
      /\ stream' = [stream EXCEPT ![s] = x]
  BY DEF StreamInv, LinksTyped, Stream!Subscribe
<1>3. x \in Links /\ x.queue = stream[s].queue /\ x.pc = "first" /\ x.client = stream[s].client
  BY <1>2 DEF Links
<1>4. /\ LinksTyped'
      /\ \A t \in Streams : /\ stream'[t].client = stream[t].client
                            /\ stream'[t].pc = IF t = s THEN "first" ELSE stream[t].pc
  <2> HIDE DEF x
  <2>1. LinksTyped'
    BY <1>2, <1>3, LinkSet
  <2> QED BY <1>2, <1>3, <2>1 DEF StreamInv, LinksTyped
<1>5. SubscribersServed'
  <2>1. IsFiniteSet(subscribers)
    BY FS_Subset DEF StreamInv, SubscribersServed, StreamConstants
  <2>2. Cardinality(subscribers) \in Nat /\ MaxSubscribers \in Nat
    BY <2>1, FS_CardinalityType DEF StreamConstants
  <2>3. Cardinality(subscribers') <= MaxSubscribers
    <3>1. CASE ~(Cardinality(subscribers) < MaxSubscribers)
      BY <3>1, SameCount DEF StreamInv, SubscribersServed, Stream!Subscribe
    <3>2. CASE Cardinality(subscribers) < MaxSubscribers
      <4>1. subscribers' = subscribers \cup {s}
        BY <3>2, SameCount DEF Stream!Subscribe
      <4>2. Cardinality(subscribers \cup {s})
              = IF s \in subscribers THEN Cardinality(subscribers)
                ELSE Cardinality(subscribers) + 1
        BY <2>1, FS_AddElement
      <4>3. Cardinality(subscribers \cup {s}) <= MaxSubscribers
        BY <2>2, <3>2, <4>2
      <4> QED BY <4>1, <4>3
    <3> QED BY <3>1, <3>2
  <2>4. subscribers' \subseteq subscribers \cup {s}
    BY DEF Stream!Subscribe
  <2> QED BY <1>4, <2>3, <2>4 DEF StreamInv, SubscribersServed
<1> QED BY <1>1, <1>4, <1>5, BusKept, WireKept, ReaderKept DEF StreamInv
\* What the generator sends: the latest event at first and with a heartbeat, and else the
\* next of its queue.
LEMMA FirstKeeps ==
  ASSUME StreamConstants, StreamInv, NEW s \in Streams, Stream!First(s)
  PROVE  StreamInv'
<1>1. UNCHANGED <<up, snapshot, subscribers, pub, reads, shown, made>>
  BY DEF Stream!First, Stream!bus, Stream!shell, Stream!counts
<1> DEFINE x == [stream[s] EXCEPT !.pc = "wait"]
<1>2. /\ stream[s] \in Links /\ Len(stream[s].queue) <= QueueSize
      /\ stream' = [stream EXCEPT ![s] = x] /\ stream[s].pc = "first"
      /\ WireSize \in Nat /\ snapshot \in Stream!Events
      /\ Stream!Sends(s, snapshot)
  BY DEF StreamInv, LinksTyped, BusTyped, StreamConstants, Stream!First
<1>3. x \in Links /\ x.queue = stream[s].queue /\ x.pc = "wait" /\ x.client = stream[s].client
  BY <1>2 DEF Links
<1>4. /\ LinksTyped'
      /\ \A t \in Streams : /\ stream'[t].client = stream[t].client
                            /\ stream'[t].pc = IF t = s THEN "wait" ELSE stream[t].pc
  <2> HIDE DEF x
  <2>1. LinksTyped'
    BY <1>2, <1>3, LinkSet
  <2> QED BY <1>2, <1>3, <2>1 DEF StreamInv, LinksTyped
<1>5. WireTyped' /\ ReaderKnown'
  BY <1>1, <1>2, <1>4, FrameSent
<1> QED BY <1>1, <1>2, <1>4, <1>5, BusKept, SubscribersKept DEF StreamInv

LEMMA SendEventKeeps ==
  ASSUME StreamConstants, StreamInv, NEW s \in Streams, Stream!SendEvent(s)
  PROVE  StreamInv'
<1>1. UNCHANGED <<up, snapshot, subscribers, pub, reads, shown, made>>
  BY DEF Stream!SendEvent, Stream!bus, Stream!shell, Stream!counts
<1> DEFINE x == [stream[s] EXCEPT !.queue = Tail(@)]
<1>2. /\ stream[s] \in Links /\ Len(stream[s].queue) <= QueueSize
      /\ stream[s].queue # <<>> /\ WireSize \in Nat /\ QueueSize \in Nat
  BY DEF StreamInv, LinksTyped, StreamConstants, Stream!SendEvent
<1>3. /\ Head(stream[s].queue) \in Stream!Events
      /\ Tail(stream[s].queue) \in Seq(Stream!Events)
      /\ Len(Tail(stream[s].queue)) = Len(stream[s].queue) - 1
      /\ Len(stream[s].queue) \in Nat
  BY <1>2, QueueOps DEF Links
<1>4. /\ x \in Links /\ Len(x.queue) <= QueueSize
      /\ x.pc = stream[s].pc /\ x.client = stream[s].client
  <2>1. x \in Links /\ x.queue = Tail(stream[s].queue)
    BY <1>2, <1>3 DEF Links
  <2>2. x.pc = stream[s].pc /\ x.client = stream[s].client
    BY <1>2 DEF Links
  <2>3. Len(Tail(stream[s].queue)) <= QueueSize
    BY <1>2, <1>3
  <2> QED BY <2>1, <2>2, <2>3
<1>5. stream' = [stream EXCEPT ![s] = x]
  BY DEF Stream!SendEvent
<1>6. /\ LinksTyped'
      /\ \A t \in Streams : stream'[t].pc = stream[t].pc /\ stream'[t].client = stream[t].client
  <2> HIDE DEF x
  <2>1. LinksTyped'
    BY <1>4, <1>5, LinkSet
  <2> QED BY <1>4, <1>5, <2>1 DEF StreamInv, LinksTyped
<1>7. WireTyped' /\ ReaderKnown'
  <2>1. PICK e \in Stream!Events : e = Head(stream[s].queue)
    BY <1>3
  <2>2. Stream!Sends(s, e)
    BY <2>1 DEF Stream!SendEvent, Stream!Sends
  <2> QED BY <1>1, <1>2, <1>6, <2>2, FrameSent
<1> QED BY <1>1, <1>6, <1>7, BusKept, SubscribersKept DEF StreamInv

LEMMA HeartbeatKeeps ==
  ASSUME StreamConstants, StreamInv, NEW s \in Streams, Stream!Heartbeat(s)
  PROVE  StreamInv'
<1>1. UNCHANGED <<up, snapshot, subscribers, pub, stream, reads, shown, made>>
  BY DEF Stream!Heartbeat, Stream!bus, Stream!shell, Stream!counts
<1>2. WireSize \in Nat /\ snapshot \in Stream!Events /\ Stream!Sends(s, snapshot)
  BY DEF StreamInv, BusTyped, StreamConstants, Stream!Heartbeat, Stream!BeatOf, Stream!Sends
<1>3. WireTyped' /\ ReaderKnown'
  BY <1>1, <1>2, FrameSent
<1>4. LinksTyped'
  BY <1>1 DEF StreamInv, LinksTyped, Links, Stream!Events
<1> QED BY <1>1, <1>3, <1>4, BusKept, SubscribersKept DEF StreamInv

LEMMA EndKeeps ==
  ASSUME StreamConstants, StreamInv, NEW s \in Streams, Stream!End(s)
  PROVE  StreamInv'
<1>1. /\ UNCHANGED <<up, snapshot, wire, reads, shown, made>>
      /\ subscribers' = subscribers \ {s}
      /\ stream' = [stream EXCEPT ![s] = Stream!Closed]
      /\ ~stream[s].client
  BY DEF Stream!End, Stream!Unsubscribed, Stream!shell, Stream!counts
<1>2. BusTyped'
  BY <1>1 DEF StreamInv, BusTyped, Stream!End, Stream!Events
<1>3. /\ LinksTyped'
      /\ \A t \in Streams : stream'[t] = IF t = s THEN Stream!Closed ELSE stream[t]
  <2>1. <<>> \in Seq(Stream!Events) /\ Len(<<>>) = 0 /\ QueueSize \in Nat
    BY DEF StreamConstants
  <2>2. Stream!Closed \in Links /\ Len(Stream!Closed.queue) <= QueueSize
    BY <2>1 DEF Stream!Closed, Links, StreamConstants
  <2>3. LinksTyped'
    BY <1>1, <2>2, LinkSet
  <2> QED BY <1>1, <2>3 DEF StreamInv, LinksTyped
<1>4. SubscribersServed'
  <2>1. IsFiniteSet(subscribers)
    BY FS_Subset DEF StreamInv, SubscribersServed, StreamConstants
  <2>2. subscribers \ {s} \in SUBSET subscribers
    OBVIOUS
  <2>3. /\ Cardinality(subscribers \ {s}) <= Cardinality(subscribers)
        /\ IsFiniteSet(subscribers \ {s})
    BY <2>1, <2>2, FS_Subset
  <2>4. /\ Cardinality(subscribers \ {s}) \in Nat /\ Cardinality(subscribers) \in Nat
        /\ MaxSubscribers \in Nat
    BY <2>1, <2>3, FS_CardinalityType DEF StreamConstants
  <2>5. Cardinality(subscribers') <= MaxSubscribers
    BY <1>1, <2>3, <2>4 DEF StreamInv, SubscribersServed
  <2> QED BY <1>1, <1>3, <2>5 DEF StreamInv, SubscribersServed
<1>5. ReaderKnown'
  BY <1>1, <1>3 DEF StreamInv, ReaderKnown, Stream!Closed
<1> QED BY <1>1, <1>2, <1>3, <1>4, <1>5, WireKept DEF StreamInv

\* The shell
LEMMA ConnectKeeps ==
  ASSUME StreamConstants, StreamInv, NEW s \in Streams, Stream!Connect(s)
  PROVE  StreamInv'
<1> DEFINE x == [Stream!Closed EXCEPT !.pc = "open", !.client = TRUE]
<1>1. /\ UNCHANGED <<up, snapshot, subscribers, pub, wire, shown, made>>
      /\ stream' = [stream EXCEPT ![s] = x]
      /\ stream[s].pc = "closed" /\ reads = {} /\ reads' = {s}
  BY DEF Stream!Connect, Stream!bus, Stream!counts
<1>2. /\ x \in Links /\ Len(x.queue) <= QueueSize
      /\ x.client /\ x.pc = "open"
  <2>1. <<>> \in Seq(Stream!Events) /\ Len(<<>>) = 0 /\ QueueSize \in Nat
    BY DEF StreamConstants
  <2> HIDE DEF x
  <2>2. Stream!Closed \in Links /\ Stream!Closed.queue = <<>>
    BY <2>1 DEF Stream!Closed, Links
  <2>3. PICK c \in Links : c = Stream!Closed /\ c.queue = <<>>
    BY <2>2
  <2>4. x = [c EXCEPT !.pc = "open", !.client = TRUE]
    BY <2>3 DEF x
  <2>5. /\ x \in Links /\ x.queue = c.queue
        /\ x.client /\ x.pc = "open"
    BY <2>4 DEF Links
  <2> QED BY <2>1, <2>3, <2>5
<1>3. /\ LinksTyped'
      /\ \A t \in Streams : stream'[t] = IF t = s THEN x ELSE stream[t]
  <2> HIDE DEF x
  <2>1. LinksTyped'
    BY <1>1, <1>2, LinkSet
  <2> QED BY <1>1, <2>1 DEF StreamInv, LinksTyped
<1>4. SubscribersServed'
  <2> HIDE DEF x
  <2> QED BY <1>1, <1>3 DEF StreamInv, SubscribersServed
<1>5. ReaderKnown'
  <2> HIDE DEF x
  <2> QED BY <1>1, <1>2, <1>3 DEF StreamInv, ReaderKnown
<1> HIDE DEF x
<1> QED BY <1>1, <1>3, <1>4, <1>5, BusKept, WireKept DEF StreamInv

LEMMA ReadFrameKeeps ==
  ASSUME StreamConstants, StreamInv, NEW s \in Streams, Stream!ReadFrame(s)
  PROVE  StreamInv'
<1>1. /\ UNCHANGED <<up, snapshot, subscribers, pub, stream, reads, made>>
      /\ s \in reads /\ wire[s] # <<>>
      /\ shown' = Head(wire[s]) /\ wire' = [wire EXCEPT ![s] = Tail(@)]
  BY DEF Stream!ReadFrame, Stream!bus, Stream!counts
<1>2. /\ wire[s] \in Seq(Stream!Events) /\ Len(wire[s]) <= WireSize /\ WireSize \in Nat
  BY DEF StreamInv, WireTyped, StreamConstants
<1>3. /\ Head(wire[s]) \in Stream!Events /\ Tail(wire[s]) \in Seq(Stream!Events)
      /\ Len(Tail(wire[s])) <= WireSize
  BY <1>1, <1>2, QueueOps
<1>4. \A t \in Streams : wire'[t] = IF t = s THEN Tail(wire[s]) ELSE wire[t]
  BY <1>1 DEF StreamInv, WireTyped
<1>5. WireTyped'
  BY <1>1, <1>3, <1>4 DEF StreamInv, WireTyped, Stream!Events
<1>6. LinksTyped' /\ SubscribersServed'
  BY <1>1 DEF StreamInv, LinksTyped, SubscribersServed, Links, Stream!Events
<1>7. ReaderKnown'
  BY <1>1, <1>4 DEF StreamInv, ReaderKnown
<1> QED BY <1>1, <1>5, <1>6, <1>7, BusKept DEF StreamInv

LEMMA GiveUpKeeps ==
  ASSUME StreamConstants, StreamInv, NEW s \in Streams, Stream!GiveUp(s)
  PROVE  StreamInv'
<1> DEFINE x == [stream[s] EXCEPT !.client = FALSE]
<1>1. /\ UNCHANGED <<up, snapshot, subscribers, pub, shown, made>>
      /\ s \in reads /\ reads' = {}
      /\ stream' = [stream EXCEPT ![s] = x] /\ wire' = [wire EXCEPT ![s] = <<>>]
  BY DEF Stream!GiveUp, Stream!bus
<1>2. stream[s] \in Links /\ Len(stream[s].queue) <= QueueSize
  BY DEF StreamInv, LinksTyped
<1>3. x \in Links /\ x.queue = stream[s].queue /\ x.pc = stream[s].pc /\ ~x.client
  BY <1>2 DEF Links
<1>4. /\ LinksTyped'
      /\ \A t \in Streams : stream'[t] = IF t = s THEN x ELSE stream[t]
  <2> HIDE DEF x
  <2>1. LinksTyped'
    BY <1>1, <1>2, <1>3, LinkSet
  <2> QED BY <1>1, <2>1 DEF StreamInv, LinksTyped
<1>5. \A t \in Streams : wire'[t] = IF t = s THEN <<>> ELSE wire[t]
  BY <1>1 DEF StreamInv, WireTyped
<1>6. WireTyped'
  <2>1. <<>> \in Seq(Stream!Events) /\ Len(<<>>) = 0 /\ WireSize \in Nat
    BY DEF StreamConstants
  <2>2. ASSUME NEW t \in Streams
        PROVE  wire'[t] \in Seq(Stream!Events) /\ Len(wire'[t]) <= WireSize
    <3>1. wire[t] \in Seq(Stream!Events) /\ Len(wire[t]) <= WireSize
      BY DEF StreamInv, WireTyped
    <3>2. wire'[t] = IF t = s THEN <<>> ELSE wire[t]
      BY <1>5
    <3>3. CASE t = s
      BY <2>1, <3>2, <3>3
    <3>4. CASE t # s
      BY <3>1, <3>2, <3>4
    <3> QED BY <3>3, <3>4
  <2> QED BY <1>1, <2>2 DEF StreamInv, WireTyped, Stream!Events
<1>7. ReaderKnown'
  <2>1. \A t \in Streams : t # s => ~stream[t].client /\ wire[t] = <<>>
    BY <1>1 DEF StreamInv, ReaderKnown
  <2> HIDE DEF x
  <2> QED BY <1>1, <1>3, <1>4, <1>5, <2>1 DEF StreamInv, ReaderKnown
<1>8. \A t \in Streams : stream'[t].pc = stream[t].pc
  <2> HIDE DEF x
  <2> QED BY <1>3, <1>4
<1> HIDE DEF x
<1> QED BY <1>1, <1>4, <1>6, <1>7, <1>8, BusKept, SubscribersKept DEF StreamInv

LEMMA SeeEndKeeps ==
  ASSUME StreamConstants, StreamInv, NEW s \in Streams, Stream!SeeEnd(s)
  PROVE  StreamInv'
<1>1. /\ UNCHANGED <<up, snapshot, subscribers, pub, stream, wire, shown, made>>
      /\ s \in reads /\ reads' = {} /\ stream[s].pc = "closed" /\ wire[s] = <<>>
  BY DEF Stream!SeeEnd, Stream!bus, Stream!counts
<1>2. LinksTyped' /\ SubscribersServed'
  BY <1>1 DEF StreamInv, LinksTyped, SubscribersServed, Links, Stream!Events
<1>3. ~stream[s].client
  BY <1>1 DEF StreamInv, ReaderKnown
<1>4. ReaderKnown'
  BY <1>1, <1>3 DEF StreamInv, ReaderKnown
<1> QED BY <1>1, <1>2, <1>4, BusKept, WireKept DEF StreamInv

\* The Core Service is gone, and comes back.
LEMMA CrashKeeps ==
  ASSUME StreamConstants, StreamInv, Stream!Crash PROVE StreamInv'
<1>1. /\ up' = FALSE /\ snapshot' = 0 /\ subscribers' = {}
      /\ pub' = [p \in Publishers |-> Stream!NoCall]
      /\ stream' = [s \in Streams |-> Stream!Closed]
      /\ UNCHANGED <<reads, shown, made>>
  BY DEF Stream!Crash, Stream!shell
<1>2. PICK n \in 0..WireSize :
        wire' = [s \in Streams |-> IF s \in reads /\ n <= Len(wire[s])
                                   THEN SubSeq(wire[s], 1, n) ELSE <<>>]
  BY DEF Stream!Crash
<1>3. /\ <<>> \in Seq(Stream!Events) /\ Len(<<>>) = 0 /\ 0 \in Stream!Events
      /\ QueueSize \in Nat /\ WireSize \in Nat /\ MaxSubscribers \in Nat /\ MaxEvents \in Nat
  BY DEF StreamConstants, Stream!Events
<1>4. BusTyped'
  BY <1>1, <1>3 DEF StreamInv, BusTyped, Stream!NoCall, Stream!Events
<1>5. LinksTyped'
  <2>1. Stream!Closed \in Links
    BY <1>3 DEF Stream!Closed, Links
  <2>2. Links' = Links
    BY DEF Links, Stream!Events
  <2> QED BY <1>1, <1>3, <2>1, <2>2 DEF LinksTyped, Stream!Closed
<1>6. WireTyped'
  <2>1. ASSUME NEW s \in Streams
        PROVE  wire'[s] \in Seq(Stream!Events) /\ Len(wire'[s]) <= WireSize
    <3>1. wire[s] \in Seq(Stream!Events)
      BY DEF StreamInv, WireTyped
    <3>2. n <= Len(wire[s]) => /\ SubSeq(wire[s], 1, n) \in Seq(Stream!Events)
                               /\ Len(SubSeq(wire[s], 1, n)) = n
      <4> SUFFICES ASSUME n <= Len(wire[s])
                   PROVE  /\ SubSeq(wire[s], 1, n) \in Seq(Stream!Events)
                          /\ Len(SubSeq(wire[s], 1, n)) = n
        OBVIOUS
      <4>1. n \in 0..Len(wire[s])
        BY <1>3, <3>1
      <4> QED BY <3>1, <4>1, QueueOps
    <3> QED BY <1>2, <1>3, <3>2
  <2>2. wire' \in [Streams -> Seq(Stream!Events)]
    BY <1>2, <2>1
  <2> QED BY <1>1, <2>1, <2>2 DEF StreamInv, WireTyped, Stream!Events
<1>7. SubscribersServed'
  BY <1>1, <1>3, FS_EmptySet DEF SubscribersServed
<1>8. ReaderKnown'
  BY <1>1, <1>2 DEF StreamInv, ReaderKnown, Stream!Closed
<1> QED BY <1>4, <1>5, <1>6, <1>7, <1>8 DEF StreamInv

LEMMA RestartKeeps == ASSUME StreamInv, Stream!Restart PROVE StreamInv'
<1>1. up' = TRUE /\ UNCHANGED <<snapshot, subscribers, pub, stream, wire, reads, shown, made>>
  BY DEF Stream!Restart, Stream!bus, Stream!shell, Stream!counts
<1> QED BY <1>1 DEF StreamInv, BusTyped, LinksTyped, Links, WireTyped, SubscribersServed,
                    ReaderKnown, Stream!Events

LEMMA StreamKeeps ==
  ASSUME StreamConstants, StreamInv, [Stream!Next]_Stream!vars PROVE StreamInv'
<1>1. CASE Stream!Crash
  BY <1>1, CrashKeeps
<1>2. CASE Stream!Restart
  BY <1>2, RestartKeeps
<1>3. ASSUME NEW p \in Publishers, Stream!Publish(p) PROVE StreamInv'
  BY <1>3, PublishKeeps
<1>4. ASSUME NEW p \in Publishers, NEW s \in Streams, Stream!Call(p, s) PROVE StreamInv'
  BY <1>4, CallKeeps
<1>5. ASSUME NEW s \in Streams,
             Stream!Enqueue(s) \/ Stream!Subscribe(s) \/ Stream!First(s) \/ Stream!SendEvent(s)
             \/ Stream!Heartbeat(s) \/ Stream!End(s)
      PROVE  StreamInv'
  BY <1>5, EnqueueKeeps, SubscribeKeeps, FirstKeeps, SendEventKeeps, HeartbeatKeeps, EndKeeps
<1>6. ASSUME NEW s \in Streams,
             Stream!Connect(s) \/ Stream!ReadFrame(s) \/ Stream!GiveUp(s) \/ Stream!SeeEnd(s)
      PROVE  StreamInv'
  BY <1>6, ConnectKeeps, ReadFrameKeeps, GiveUpKeeps, SeeEndKeeps
<1>7. CASE UNCHANGED Stream!vars
  BY <1>7 DEF Stream!vars, Stream!bus, Stream!shell, Stream!counts, StreamInv, BusTyped,
              LinksTyped, Links, WireTyped, SubscribersServed, ReaderKnown, Stream!Events
<1> QED BY <1>1, <1>2, <1>3, <1>4, <1>5, <1>6, <1>7, StreamSteps DEF StreamStep

LEMMA StreamInvariant == ASSUME StreamConstants PROVE Stream!Spec => []StreamInv
<1>1. Stream!Init => StreamInv
  BY StreamBegins
<1>2. StreamInv /\ [Stream!Next]_Stream!vars => StreamInv'
  BY StreamKeeps
<1> QED BY <1>1, <1>2, PTL DEF Stream!Spec

\* The invariant of the run of StateStream.
CallsStreams == Stream!CallsStreams

LEMMA StreamTypes == ASSUME StreamConstants, StreamInv PROVE CallsStreams
<1>1. Stream!Cardinality(reads) <= 1
  <2>1. CASE reads = {}
    BY <2>1, SameCount, FS_EmptySet
  <2>2. CASE reads # {}
    <3>1. PICK s \in reads : TRUE
      BY <2>2
    <3>2. reads = {s}
      BY <3>1 DEF StreamInv, ReaderKnown
    <3> QED BY <3>2, SameCount, FS_Singleton
  <2> QED BY <2>1, <2>2
<1>2. Stream!Cardinality(subscribers) <= MaxSubscribers
  BY SameCount DEF StreamInv, SubscribersServed
<1> QED BY <1>1, <1>2 DEF StreamInv, BusTyped, LinksTyped, Links, WireTyped,
                          SubscribersServed, ReaderKnown, CallsStreams,
                          Stream!CallsStreams, Stream!TypeOK

\* The bus calls only streams that are still there, and no more than it may; no queue is
\* longer than its size; the shell reads one stream at a time (subscribe, unsubscribe,
\* iter_state_sse_frames, read_state_stream_once).
THEOREM CallsOnlyStreams == ASSUME StreamConstants PROVE Stream!Spec => []CallsStreams
<1>1. StreamInv => CallsStreams
  BY StreamTypes
<1> QED BY <1>1, StreamInvariant, PTL
=============================================================================
