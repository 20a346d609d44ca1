----------------------------- MODULE Supervisor -----------------------------
(***************************************************************************)
(* The supervisor of the desktop shell and of the Windows service: a thread *)
(* that installs the Python runtime and then starts one thread for each     *)
(* backend service, which spawns the service's process, watches it, and     *)
(* spawns it again with a growing delay when it ends.  The user may ask for *)
(* the installation to be tried again, so that several of those threads may *)
(* be on their way at a time; they share the flags launched, bootstrapping  *)
(* and shutdown, and the virtual environment on the disk with the marker    *)
(* beside it, which says of one wheel that it was installed.  These, and a  *)
(* tool that went on alone, are all that a later host process, which may    *)
(* come with another wheel, finds of an earlier one.                        *)
(*                                                                         *)
(* A host that serves the Windows service waits for the backend to stop     *)
(* before it exits; the shell exits at once.                                *)
(***************************************************************************)
EXTENDS Naturals, FiniteSets

CONSTANTS
  Services,        \* the services of service_specs
  Wheels,          \* the marvex wheels that hosts come with, one for each version
  NoWheel,
  MaxControllers,  \* bound on the installations that one host begins
  MaxHosts         \* bound on the host processes, one after the other

ASSUME ConstantsAssumption ==
  /\ IsFiniteSet(Services)
  /\ NoWheel \notin Wheels
  /\ MaxControllers \in Nat \ {0} /\ MaxHosts \in Nat \ {0}

Controllers == 1..MaxControllers
Threads == Controllers \X Services

VARIABLES
  host,           \* the process: its number, what it is and where its main thread is
  asking,         \* a retry found that nothing is launched, and goes on to start one
  bundle,         \* the wheel that comes with the host, or NoWheel
  venv,           \* the environment on the disk, and its marker
  strays,         \* the tools that the end of a host left running
  shutdown, launched, bootstrapping,  \* the three flags
  ctl,            \* the controller threads: place and outcome of the installation
  thr,            \* the threads that supervise: place, and whether the child lives
  status,         \* SupervisorStatus, of the services
  torn            \* history: what the marker vouched for was disturbed, see RunsWhole

flags == <<shutdown, launched, bootstrapping>>
disk == <<bundle, venv, strays, torn>>
vars == <<host, asking, disk, flags, ctl, thr, status>>

Kinds == {"shell", "service"}
Down == {"exited", "spawn_error", "monitor_error"}
Installing == {"check", "create", "begin", "install", "record", "manifest", "clear"}

AnyWheel == Wheels \cup {NoWheel}

\* pkg: the wheel that is installed to the end, if one is.  script: the command
\* marvex-core is there.  marker: the wheel whose fingerprint wheel.marker holds.
Environments == [pkg : AnyWheel, script : BOOLEAN, marker : AnyWheel]

TypeOK ==
  /\ host \in [n : 1..MaxHosts, kind : Kinds,
               main : {"run", "stopping", "waiting", "exiting", "gone", "crashed"}]
  /\ asking \in BOOLEAN
  /\ bundle \in AnyWheel
  /\ venv \in Environments
  /\ strays \subseteq AnyWheel
  /\ shutdown \in BOOLEAN /\ launched \in BOOLEAN /\ bootstrapping \in BOOLEAN
  /\ ctl \in [Controllers -> [pc : {"none", "stopped?", "launch", "done"} \cup Installing,
                              outcome : {"none", "ready", "dev", "failed"}]]
  /\ thr \in [Threads -> [pc : {"none", "test", "spawn", "watch", "poll", "kill", "backoff",
                                "done"},
                          child : BOOLEAN]]
  /\ status \in [Services -> {"none", "starting", "running", "stopped"} \cup Down]
  /\ torn \in BOOLEAN
  \* The flag is up for just the time of one installation.
  /\ bootstrapping <=> \E c \in Controllers : ctl[c].pc \in Installing
  /\ Cardinality({c \in Controllers : ctl[c].pc \in Installing}) <= 1

Idle == [pc |-> "none", outcome |-> "none"]
NoThread == [pc |-> "none", child |-> FALSE]

\* Supervisor::start, whose first controller is on its way.
Started ==
  /\ asking' = FALSE
  /\ shutdown' = FALSE /\ launched' = FALSE /\ bootstrapping' = TRUE
  /\ ctl' = [c \in Controllers |-> IF c = 1 THEN [Idle EXCEPT !.pc = "check"] ELSE Idle]
  /\ thr' = [t \in Threads |-> NoThread]
  /\ status' = [s \in Services |-> "none"]

\* The disk is as some earlier host left it.
Init ==
  /\ host \in [n : {1}, kind : Kinds, main : {"run"}]
  /\ asking = FALSE
  /\ bundle \in AnyWheel
  /\ venv \in {v \in Environments : v.pkg # NoWheel => v.script}
  /\ strays = {}
  /\ shutdown = FALSE /\ launched = FALSE /\ bootstrapping = TRUE
  /\ ctl = [c \in Controllers |-> IF c = 1 THEN [Idle EXCEPT !.pc = "check"] ELSE Idle]
  /\ thr = [t \in Threads |-> NoThread]
  /\ status = [s \in Services |-> "none"]
  /\ torn = (venv.script /\ venv.marker \notin {NoWheel, venv.pkg})

-----------------------------------------------------------------------------
(* The user, and the end of the host                                        *)

Alive == host.main \notin {"gone", "crashed"}

Main(from, next) ==
  /\ host.main = from
  /\ host' = [host EXCEPT !.main = next]

\* start_setup: the two flags are looked at one after the other.
AskRetry ==
  /\ host.kind = "shell" /\ host.main = "run" /\ ~asking
  /\ ~launched
  /\ \E c \in Controllers : ctl[c].pc = "none"
  /\ asking' = TRUE
  /\ UNCHANGED <<host, disk, flags, ctl, thr, status>>

Retry ==
  /\ Alive /\ asking
  /\ asking' = FALSE
  /\ bootstrapping' = TRUE
  /\ IF bootstrapping THEN UNCHANGED ctl
     ELSE \E c \in Controllers :
            /\ ctl[c].pc = "none" /\ \A d \in Controllers : ctl[d].pc = "none" => c <= d
            /\ ctl' = [ctl EXCEPT ![c].pc = "check"]
  /\ UNCHANGED <<host, disk, shutdown, launched, thr, status>>

\* marvex_shutdown and marvex_restart, or the stop of the Windows service.
Stop ==
  /\ Main("run", IF host.kind = "shell" THEN "exiting" ELSE "stopping")
  /\ ~asking
  /\ shutdown' = TRUE
  /\ UNCHANGED <<asking, disk, launched, bootstrapping, ctl, thr, status>>

Working(places) == \E c \in Controllers : ctl[c].pc \in places

\* The threads end with the process.  Nothing ends or waits for the tool that one
\* of them had started: it may go on alone (NoWheel: the one that clears).
Gone ==
  /\ asking' = FALSE
  /\ ctl' = [c \in Controllers |-> Idle]
  /\ thr' = [t \in Threads |-> NoThread]
  /\ bootstrapping' = FALSE
  /\ \/ UNCHANGED strays
     \/ Working({"install"}) /\ strays' = strays \cup {bundle}
     \/ Working({"create"}) /\ strays' = strays \cup {NoWheel}
  /\ torn' = (torn \/ (Working({"install", "record"}) /\ venv.marker # NoWheel))
  /\ UNCHANGED <<bundle, venv, shutdown, launched, status>>

WaitBegins ==
  /\ launched
  /\ Main("stopping", "waiting")
  /\ UNCHANGED <<asking, disk, flags, ctl, thr, status>>

NothingToWaitFor == ~launched /\ Main("stopping", "gone") /\ Gone

AllStopped == \A s \in Services : status[s] = "stopped"

WaitEnds == AllStopped /\ Main("waiting", "gone") /\ Gone

\* A thread gives up its child well within the twenty seconds of the wait; only
\* the delay before a new attempt may be longer.
WaitTimesOut ==
  /\ \A t \in Threads : thr[t].pc \in {"none", "backoff", "done"}
  /\ Main("waiting", "gone") /\ Gone

Quit == Main("exiting", "gone") /\ Gone

\* The host is killed, or the machine goes down.
Crash == Alive /\ Main(host.main, "crashed") /\ Gone

\* Another host process, perhaps of another version, and with another wheel.
Restart ==
  /\ ~Alive /\ host.n < MaxHosts
  /\ \E kind \in Kinds : host' = [n |-> host.n + 1, kind |-> kind, main |-> "run"]
  /\ bundle' \in AnyWheel
  /\ Started
  /\ UNCHANGED <<venv, strays, torn>>

\* A tool that was left running changes the environment, and may come to its end.
StrayWorks(w) ==
  /\ w \in strays
  /\ \/ \E script \in BOOLEAN : venv' = [venv EXCEPT !.pkg = NoWheel, !.script = script]
     \/ w # NoWheel /\ venv' = [venv EXCEPT !.pkg = w, !.script = TRUE]
  /\ strays' \in {strays, strays \ {w}}
  /\ torn' = (torn \/ (venv' # venv /\ venv.marker # NoWheel))
  /\ UNCHANGED <<host, asking, bundle, flags, ctl, thr, status>>

-----------------------------------------------------------------------------
(* The controller: ensure_runtime, and then the launch                      *)

Step(c, from, next) ==
  /\ ctl[c].pc = from
  /\ ctl' = [ctl EXCEPT ![c].pc = next]
  /\ UNCHANGED <<host, asking, bundle, strays, thr, status>>

Settled(c, from, outcome) ==
  /\ ctl[c].pc = from
  /\ ctl' = [ctl EXCEPT ![c] = [pc |-> "manifest", outcome |-> outcome]]
  /\ UNCHANGED <<host, asking, bundle, strays, thr, status>>

\* runtime_venv_is_current
Current == venv.script /\ bundle \in {NoWheel, venv.marker}

Check(c) ==
  /\ \/ Current /\ Settled(c, "check", "ready")
     \/ ~Current /\ bundle = NoWheel /\ Settled(c, "check", "dev")
     \/ /\ ~Current /\ bundle # NoWheel
        /\ Step(c, "check", IF venv.script THEN "begin" ELSE "create")
  /\ UNCHANGED <<venv, torn, flags>>

\* uv venv --clear; the marker is not in the environment.
Create(c) ==
  /\ \/ /\ Step(c, "create", "begin")
        /\ venv' = [venv EXCEPT !.pkg = NoWheel, !.script = FALSE]
     \/ /\ Settled(c, "create", "failed")
        /\ venv' \in {venv, [venv EXCEPT !.pkg = NoWheel, !.script = FALSE]}
  /\ UNCHANGED <<torn, flags>>

\* The script may be in use, or the wheels may be missing.
Begin(c) ==
  /\ \/ /\ Step(c, "begin", "install")
        /\ \E script \in BOOLEAN :
             venv' = [venv EXCEPT !.pkg = NoWheel, !.script = script]
     \/ Settled(c, "begin", "failed") /\ UNCHANGED venv
  /\ UNCHANGED <<torn, flags>>

\* Wrong: the marker is written whether the installation succeeded or not.
MarkedAnyway(v) == [v EXCEPT !.marker = bundle]

Marked(v) == v

\* uv pip install.  What it leaves when it fails has the marker that was there.
Install(c) ==
  /\ \/ /\ Step(c, "install", "record")
        /\ venv' = [venv EXCEPT !.pkg = bundle, !.script = TRUE]
        /\ UNCHANGED torn
     \/ /\ Settled(c, "install", "failed")
        /\ \E script \in BOOLEAN : venv' = Marked([venv EXCEPT !.script = script])
        /\ torn' = (torn \/ venv.marker # NoWheel)
  /\ UNCHANGED flags

\* The script is looked for once more.  record_installed_runtime_wheel, whose errors
\* are ignored.
Record(c) ==
  /\ \/ /\ venv.script /\ Settled(c, "record", "ready")
        /\ \/ venv' = [venv EXCEPT !.marker = bundle] /\ torn' = (venv.pkg # bundle)
           \/ venv' \in {venv, [venv EXCEPT !.marker = NoWheel]} /\ torn' = TRUE
     \/ ~venv.script /\ Settled(c, "record", "failed") /\ UNCHANGED <<venv, torn>>
  /\ UNCHANGED flags

WriteManifest(c) ==
  /\ Step(c, "manifest", "clear")
  /\ UNCHANGED <<venv, torn, flags>>

\* Wrong: the flag stays up after an installation that failed.
ClearedIfReady(c) == ctl[c].outcome = "failed"

Cleared(c) == FALSE

Clear(c) ==
  /\ Step(c, "clear", "stopped?")
  /\ bootstrapping' = Cleared(c)
  /\ UNCHANGED <<venv, torn, shutdown, launched>>

TestShutdown(c) ==
  /\ Step(c, "stopped?", IF shutdown \/ ctl[c].outcome = "failed" THEN "done" ELSE "launch")
  /\ UNCHANGED <<venv, torn, flags>>

\* Wrong: the flag is set, but what it was is not looked at.
LaunchedNever == FALSE

Launched == launched

Launch(c) ==
  /\ ctl[c].pc = "launch"
  /\ ctl' = [ctl EXCEPT ![c].pc = "done"]
  /\ launched' = TRUE
  /\ thr' = IF Launched THEN thr
            ELSE [t \in Threads |-> IF t[1] = c THEN [NoThread EXCEPT !.pc = "test"]
                                    ELSE thr[t]]
  /\ UNCHANGED <<host, asking, disk, shutdown, bootstrapping, status>>

Controls(c) ==
  \/ Check(c) \/ Create(c) \/ Begin(c) \/ Install(c) \/ Record(c)
  \/ WriteManifest(c) \/ Clear(c) \/ TestShutdown(c) \/ Launch(c)

-----------------------------------------------------------------------------
(* The thread of a service: supervise_service                               *)

\* The thread goes on, with its child alive or not, and says so.
Goes(t, from, next, child, says) ==
  /\ thr[t].pc = from
  /\ thr' = [thr EXCEPT ![t] = [pc |-> next, child |-> child]]
  /\ status' = [status EXCEPT ![t[2]] = says]
  /\ UNCHANGED <<host, asking, disk, flags, ctl>>

\* After a delay, too, the thread looks whether it is to go on; it then leaves the
\* status of what went wrong.
Test(t) ==
  \/ shutdown /\ Goes(t, "test", "done", FALSE, status[t[2]])
  \/ ~shutdown /\ Goes(t, "test", "spawn", FALSE, "starting")

Spawn(t) == Goes(t, "spawn", "watch", TRUE, "running")
SpawnFails(t) == Goes(t, "spawn", "backoff", FALSE, "spawn_error")

ChildEnds(t) ==
  /\ thr[t].child
  /\ thr' = [thr EXCEPT ![t].child = FALSE]
  /\ UNCHANGED <<host, asking, disk, flags, ctl, status>>

SeesShutdown(t) == shutdown /\ Goes(t, "watch", "kill", thr[t].child, status[t[2]])

SeesNone(t) == ~shutdown /\ Goes(t, "watch", "poll", thr[t].child, status[t[2]])

StillRuns(t) == thr[t].child /\ Goes(t, "poll", "watch", TRUE, status[t[2]])

\* Wrong: the thread of a service that has ended gives up.
AfterEndGivesUp == "done"

AfterEnd == "backoff"

SeesEnd(t) == ~thr[t].child /\ Goes(t, "poll", AfterEnd, FALSE, "exited")

\* try_wait fails: the child, which may be alive, is not watched any longer.
WatchFails(t) == Goes(t, "poll", "backoff", FALSE, "monitor_error")

Kill(t) == Goes(t, "kill", "done", FALSE, "stopped")

Wake(t) == Goes(t, "backoff", "test", FALSE, status[t[2]])

Supervises(t) ==
  \/ Test(t) \/ Spawn(t) \/ SpawnFails(t) \/ SeesShutdown(t) \/ SeesNone(t)
  \/ StillRuns(t) \/ SeesEnd(t) \/ WatchFails(t) \/ Kill(t) \/ Wake(t)

-----------------------------------------------------------------------------

Ends == WaitBegins \/ NothingToWaitFor \/ WaitEnds \/ WaitTimesOut \/ Quit

Next ==
  \/ AskRetry \/ Retry \/ Stop \/ Ends \/ Crash \/ Restart
  \/ \E w \in strays : StrayWorks(w)
  \/ \E c \in Controllers : Controls(c)
  \/ \E t \in Threads : Supervises(t) \/ ChildEnds(t)

Spec == Init /\ [][Next]_vars

\* Threads run, tools and processes end by themselves or are killed.
Fairness ==
  /\ WF_vars(Retry) /\ WF_vars(Ends)
  /\ \A c \in Controllers : WF_vars(Controls(c))
  /\ \A t \in Threads : WF_vars(Supervises(t))

FairSpec == Spec /\ Fairness

-----------------------------------------------------------------------------
(* Properties                                                              *)

\* A service of a host that comes with a wheel is spawned from the environment only
\* when that wheel was installed in it to the end, whatever was broken off before,
\* though hosts come with other wheels, and though a second installation may begin
\* before the first has launched anything (runtime_venv_is_current, ensure_runtime,
\* spawn_controller).  Excepted (torn) until the next installation is recorded: one
\* failed or was broken off, or a tool left behind changed the environment, beside
\* the marker of an earlier one; or the marker could not be written.
RunsWhole ==
  [][\A t \in Threads :
       /\ thr'[t].child /\ ~thr[t].child /\ ctl[t[1]].outcome = "ready"
       /\ bundle # NoWheel
       => venv.pkg = bundle \/ torn]_vars

\* However often the user has the setup tried again, at most one thread at a time
\* looks after a service, so that two processes of it never fight for its port
\* (retry_setup, the swap of launched in spawn_controller).
OneThreadPerService ==
  \A s \in Services :
    Cardinality({c \in Controllers : thr[<<c, s>>].pc \notin {"none", "done"}}) <= 1

\* The Windows service that has seen every service stopped leaves none of the
\* processes it watches behind: a service that is stopped has no thread left that
\* could start it again, however many controllers tried to launch it
\* (wait_for_services_stopped, supervise_service).
StopLeavesNone == [][WaitEnds => \A t \in Threads : ~thr[t].child]_vars

\* A service that ended, or could not be started or watched, is started again
\* unless the host stops (supervise_service).
ComesBack ==
  \A s \in Services :
    status[s] \in Down ~> status[s] = "starting" \/ shutdown \/ ~Alive

-----------------------------------------------------------------------------
(* What the marker is for, and the code does not do                         *)

\* A host does not run from an environment that its wheel was not installed in to
\* the end: the marker is compared for this.  But no installation takes the marker
\* of the last one away before it begins: when it is broken off, a host that comes
\* with the wheel of the last one finds the environment current.
SpawnsCurrent ==
  [][\A t \in Threads :
       /\ thr'[t].child /\ ~thr[t].child /\ ctl[t[1]].outcome = "ready"
       /\ bundle # NoWheel
       => venv.pkg = bundle]_vars
=============================================================================
