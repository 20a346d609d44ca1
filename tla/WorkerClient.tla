---------------------------- MODULE WorkerClient ----------------------------
(***************************************************************************)
(* The Core Service keeps one long-lived worker subprocess per kind of     *)
(* worker (provider, intent, tool) behind a _JsonlWorkerProcessClient.     *)
(* Turn threads share the client: request, stream and shutdown run under   *)
(* its lock, write one JSON line to the worker's stdin and wait for lines  *)
(* that a reader thread moves from the worker's stdout to a queue.         *)
(*                                                                         *)
(* Modelled: the lock, the handle and its respawn, the start handshake,    *)
(* the reader queue and its end marker, the idle timeout, trace matching,  *)
(* the kill paths, and the worker's single-threaded command loop with its  *)
(* crashes.  A line printed by the worker is in the queue at once: a line  *)
(* still in the pipe is, to the client, a line not printed yet.            *)
(***************************************************************************)
EXTENDS Naturals, Sequences

CONSTANTS
  Callers,      \* threads of the Core Service that share one client
  Traces,       \* trace ids of turns; a turn sends many commands under its one
  NoCaller,     \* the value of lock when it is free
  MaxCalls,     \* bound on the calls made to the client
  MaxProcs,     \* bound on the processes spawned
  MaxDeltas     \* bound on the delta frames of a stream

StartTrace == "trace-start"
StopTrace == "trace-stop"
ValidationTrace == "trace-validation"

AllTraces == Traces \cup {StartTrace, StopTrace, ValidationTrace}

ASSUME ConstantsAssumption ==
  /\ NoCaller \notin Callers
  /\ Traces \cap {StartTrace, StopTrace, ValidationTrace} = {}
  /\ MaxCalls \in Nat
  /\ MaxProcs \in Nat
  /\ MaxDeltas \in Nat

VARIABLES
  lock,     \* the caller inside `with self._lock`, or NoCaller
  pc,       \* where each caller is
  call,     \* the command each caller asked the client to send
  phase,    \* "start" during the start handshake, else "main"
  process,  \* self._process: the process the client refers to, 0 for None
  spawned,  \* processes spawned so far; self._reader_queue is queue[spawned]
  status,   \* each process: not spawned, running, exiting (poll() is None), dead
  stdin,    \* commands written and not yet finished by the worker
  sent,     \* delta frames sent for the command at the head of stdin
  queue,    \* the reader thread's queue, one for each process
  eof,      \* the reader thread of the process has put its end marker
  calls,    \* calls made so far
  via,      \* history: the process the call's command was written to
  got,      \* history: the frames handed to the caller in its current call
  outcome,  \* history: how the caller's last call ended
  abandoned \* history: <<process, trace>> of calls that timed out

client == <<lock, pc, call, phase, process, spawned>>
worker == <<status, stdin, sent, queue, eof>>
history == <<via, got, outcome, abandoned>>
vars == <<lock, pc, call, phase, process, spawned, status, stdin, sent, queue,
          eof, calls, via, got, outcome, abandoned>>

Procs == 1..MaxProcs
Commands == {"start", "stop", "request", "stream"}
Command == [id : 0..MaxCalls, cmd : Commands, trace : AllTraces]
Kinds == {"result", "delta", "final", "error", "eof"}
Frame == [id : 0..MaxCalls, n : 0..MaxDeltas + 1, kind : Kinds,
          trace : AllTraces, ok : BOOLEAN, proc : Procs]

StartCommand == [id |-> 0, cmd |-> "start", trace |-> StartTrace]

\* The marker the reader thread puts when the worker's stdout ends.
EofFrame(p) == [id |-> 0, n |-> 0, kind |-> "eof", trace |-> ValidationTrace,
                ok |-> FALSE, proc |-> p]

ReplyWithoutOk(p, m, n, kind, ok) ==
  [id |-> m.id, n |-> n, kind |-> kind, trace |-> m.trace, proc |-> p]

\* The line a worker prints for command m: it echoes the command's trace.
Reply(p, m, n, kind, ok) ==
  [id |-> m.id, n |-> n, kind |-> kind, trace |-> m.trace, ok |-> ok, proc |-> p]

TypeOK ==
  /\ lock \in Callers \cup {NoCaller}
  /\ pc \in [Callers -> {"idle", "want", "begin", "send", "await", "reap"}]
  /\ call \in [Callers -> Command]
  /\ phase \in [Callers -> {"start", "main"}]
  /\ process \in 0..MaxProcs
  /\ spawned \in 0..MaxProcs
  /\ status \in [Procs -> {"none", "running", "exiting", "dead"}]
  /\ stdin \in [Procs -> Seq(Command)]
  /\ sent \in [Procs -> 0..MaxDeltas]
  /\ queue \in [Procs -> Seq(Frame)]
  /\ eof \in [Procs -> BOOLEAN]
  /\ calls \in 0..MaxCalls
  /\ via \in [Callers -> 0..MaxProcs]
  /\ got \in [Callers -> Seq(Frame)]
  /\ outcome \in [Callers -> {"none", "returned", "raised"}]
  /\ abandoned \subseteq (0..MaxProcs) \X AllTraces

Init ==
  /\ lock = NoCaller
  /\ pc = [c \in Callers |-> "idle"]
  /\ call = [c \in Callers |-> StartCommand]
  /\ phase = [c \in Callers |-> "main"]
  /\ process = 0
  /\ spawned = 0
  /\ status = [p \in Procs |-> "none"]
  /\ stdin = [p \in Procs |-> <<>>]
  /\ sent = [p \in Procs |-> 0]
  /\ queue = [p \in Procs |-> <<>>]
  /\ eof = [p \in Procs |-> FALSE]
  /\ calls = 0
  /\ via = [c \in Callers |-> 0]
  /\ got = [c \in Callers |-> <<>>]
  /\ outcome = [c \in Callers |-> "none"]
  /\ abandoned = {}

-----------------------------------------------------------------------------
(* The client: helpers                                                     *)

\* process is not None and process.poll() is None
Alive(p) == p # 0 /\ status[p] \in {"running", "exiting"}

\* The current command of the caller on the wire.
Wire(c) == IF phase[c] = "start" THEN StartCommand ELSE call[c]

MatchesAnyTrace(m, f) == TRUE

\* _await_response_locked accepts a frame that carries the command's trace.
Matches(m, f) == f.trace = m.trace

EndsAtFirstFrame(m, f) == TRUE

\* The frame after which request or stream returns to the caller.
Ends(m, f) == m.cmd # "stream" \/ f.kind \in {"final", "error"}

\* The queue a new process starts with: queue.Queue().
NewQueue == <<>>

\* _kill_locked: kill and wait; the handle itself is kept.
Kill(p) ==
  /\ status' = [status EXCEPT ![p] = "dead"]
  /\ stdin' = [stdin EXCEPT ![p] = <<>>]
  /\ sent' = [sent EXCEPT ![p] = 0]

\* Leaving the `with self._lock` block.
Release(c, how) ==
  /\ lock' = NoCaller
  /\ pc' = [pc EXCEPT ![c] = "idle"]
  /\ phase' = [phase EXCEPT ![c] = "main"]
  /\ outcome' = [outcome EXCEPT ![c] = how]
  /\ UNCHANGED <<call, spawned>>

RaiseWithoutKill(c) ==
  /\ Release(c, IF call[c].cmd = "stop" THEN "returned" ELSE "raised")
  /\ process' = IF call[c].cmd = "stop" THEN 0 ELSE process
  /\ UNCHANGED <<status, stdin, sent>>

\* An exception: it reaches the caller of request and stream; shutdown
\* swallows it, kills the worker and forgets the handle.
Raise(c) ==
  IF call[c].cmd = "stop"
  THEN /\ Kill(process)
       /\ process' = 0
       /\ Release(c, "returned")
  ELSE /\ Release(c, "raised")
       /\ UNCHANGED <<process, status, stdin, sent>>

Step(c, from, to) ==
  /\ pc[c] = from
  /\ pc' = [pc EXCEPT ![c] = to]

\* The reader queue of the client's current process.
Inbox == queue[spawned]
TakeFrame == queue' = [queue EXCEPT ![spawned] = Tail(Inbox)]
Front == Head(Inbox)
Receives(c) == pc[c] = "await" /\ Inbox # <<>> /\ Front.kind # "eof"
Answered(c) == Receives(c) /\ Matches(Wire(c), Front)

-----------------------------------------------------------------------------
(* The client: actions                                                     *)

\* A thread calls request, stream or (cmd "stop") shutdown.
Call(c, cmd, t) ==
  /\ calls < MaxCalls
  /\ Step(c, "idle", "want")
  /\ call' = [call EXCEPT ![c] = [id |-> calls + 1, cmd |-> cmd,
                                  trace |-> IF cmd = "stop" THEN StopTrace ELSE t]]
  /\ calls' = calls + 1
  /\ via' = [via EXCEPT ![c] = 0]
  /\ got' = [got EXCEPT ![c] = <<>>]
  /\ UNCHANGED <<lock, phase, process, spawned, worker, outcome, abandoned>>

Acquire(c) ==
  /\ lock = NoCaller
  /\ Step(c, "want", "begin")
  /\ lock' = c
  /\ UNCHANGED <<call, phase, process, spawned, worker, calls, history>>

\* The process is usable: no start handshake; shutdown goes on to send stop.
Reuse(c) ==
  /\ Alive(process)
  /\ Step(c, "begin", "send")
  /\ phase' = [phase EXCEPT ![c] = "main"]
  /\ UNCHANGED <<lock, call, process, spawned, worker, calls, history>>

NothingToStopKeepingLock(c) ==
  /\ pc[c] = "begin"
  /\ call[c].cmd = "stop"
  /\ ~Alive(process)
  /\ process' = 0
  /\ pc' = [pc EXCEPT ![c] = "idle"]
  /\ outcome' = [outcome EXCEPT ![c] = "returned"]
  /\ UNCHANGED <<lock, call, phase, spawned, worker, calls, via, got, abandoned>>

\* shutdown finds no process, or one that has exited.
NothingToStop(c) ==
  /\ pc[c] = "begin"
  /\ call[c].cmd = "stop"
  /\ ~Alive(process)
  /\ process' = 0
  /\ Release(c, "returned")
  /\ UNCHANGED <<worker, calls, via, got, abandoned>>

\* _ensure_started_locked spawns a process with its reader thread and queue.
Spawn(c) ==
  /\ call[c].cmd # "stop"
  /\ ~Alive(process)
  /\ spawned < MaxProcs
  /\ Step(c, "begin", "send")
  /\ spawned' = spawned + 1
  /\ process' = spawned + 1
  /\ status' = [status EXCEPT ![spawned + 1] = "running"]
  /\ queue' = [queue EXCEPT ![spawned + 1] = NewQueue]
  /\ phase' = [phase EXCEPT ![c] = "start"]
  /\ UNCHANGED <<lock, call, stdin, sent, eof, calls, history>>

\* The operating system refuses to start a process; the old handle is kept.
SpawnFails(c) ==
  /\ pc[c] = "begin"
  /\ call[c].cmd # "stop"
  /\ ~Alive(process)
  /\ Release(c, "raised")
  /\ UNCHANGED <<process, worker, calls, via, got, abandoned>>

\* The line is written to a worker whose end of the pipe is open.
Send(c) ==
  /\ Step(c, "send", "await")
  /\ status[process] = "running"
  /\ stdin' = [stdin EXCEPT ![process] = Append(@, Wire(c))]
  /\ via' = [via EXCEPT ![c] = process]
  /\ UNCHANGED <<lock, call, phase, process, spawned, status, sent, queue, eof,
                 calls, got, outcome, abandoned>>

\* poll() reports an exit, or the write hits a closed pipe.
SendFails(c) ==
  /\ pc[c] = "send"
  /\ status[process] # "running"
  /\ Raise(c)
  /\ UNCHANGED <<queue, eof, calls, via, got, abandoned>>

\* A frame of another trace is dropped; the idle window starts again.
Discard(c) ==
  /\ Receives(c)
  /\ ~Matches(Wire(c), Front)
  /\ TakeFrame
  /\ UNCHANGED <<client, status, stdin, sent, eof, calls, history>>

\* The worker confirms its start; the caller's own command is next.
Started(c) ==
  /\ Answered(c)
  /\ phase[c] = "start" /\ Front.ok
  /\ TakeFrame
  /\ Step(c, "await", "send")
  /\ phase' = [phase EXCEPT ![c] = "main"]
  /\ UNCHANGED <<lock, call, process, spawned, status, stdin, sent, eof, calls,
                 history>>

\* The worker refuses to start: it is killed and the call raises.
StartRefused(c) ==
  /\ Answered(c)
  /\ phase[c] = "start" /\ ~Front.ok
  /\ TakeFrame
  /\ Kill(process)
  /\ Release(c, "raised")
  /\ UNCHANGED <<process, eof, calls, via, got, abandoned>>

\* A matching frame reaches the caller of request or stream.
Deliver(c) ==
  /\ Answered(c)
  /\ phase[c] = "main" /\ call[c].cmd # "stop"
  /\ TakeFrame
  /\ got' = [got EXCEPT ![c] = Append(@, Front)]
  /\ IF Ends(call[c], Front)
     THEN Release(c, "returned")
     ELSE UNCHANGED <<lock, pc, call, phase, spawned, outcome>>
  /\ UNCHANGED <<process, status, stdin, sent, eof, calls, via, abandoned>>

\* shutdown has its answer to stop and waits for the process to exit.
StopAnswered(c) ==
  /\ Answered(c)
  /\ call[c].cmd = "stop"
  /\ TakeFrame
  /\ Step(c, "await", "reap")
  /\ UNCHANGED <<lock, call, phase, process, spawned, status, stdin, sent, eof,
                 calls, history>>

\* process.wait(timeout=5) returns, or it times out and the worker is killed.
Reap(c) ==
  /\ pc[c] = "reap"
  /\ Kill(process)
  /\ process' = 0
  /\ Release(c, "returned")
  /\ UNCHANGED <<queue, eof, calls, via, got, abandoned>>

\* The reader thread's end marker: ConnectionError.
Closed(c) ==
  /\ pc[c] = "await"
  /\ Inbox # <<>> /\ Front.kind = "eof"
  /\ TakeFrame
  /\ Raise(c)
  /\ UNCHANGED <<eof, calls, via, got, abandoned>>

TimeoutKills(c) ==
  /\ pc[c] = "await"
  /\ Inbox = <<>>
  /\ Kill(process)
  /\ Release(c, IF call[c].cmd = "stop" THEN "returned" ELSE "raised")
  /\ process' = IF call[c].cmd = "stop" THEN 0 ELSE process
  /\ abandoned' = abandoned \cup {<<process, Wire(c).trace>>}
  /\ UNCHANGED <<queue, eof, calls, via, got>>

\* No frame within the idle window: TimeoutError.  The worker is left alone.
Timeout(c) ==
  /\ pc[c] = "await"
  /\ Inbox = <<>>
  /\ Raise(c)
  /\ abandoned' = abandoned \cup {<<process, Wire(c).trace>>}
  /\ UNCHANGED <<queue, eof, calls, via, got>>

-----------------------------------------------------------------------------
(* The worker process and the reader thread                                *)

Busy(p) == status[p] = "running" /\ stdin[p] # <<>>
Current(p) == Head(stdin[p])
Emit(p, f) == queue' = [queue EXCEPT ![p] = Append(@, f)]
NextLine(p) ==
  /\ stdin' = [stdin EXCEPT ![p] = Tail(@)]
  /\ sent' = [sent EXCEPT ![p] = 0]

\* handle_jsonl_command answers with one line; an answered stop ends the loop.
WorkerReply(p) ==
  /\ Busy(p)
  /\ Current(p).cmd # "stream"
  /\ \E ok \in {TRUE, Current(p).cmd # "start"} :
       Emit(p, Reply(p, Current(p), 1, "result", ok))
  /\ IF Current(p).cmd = "stop"
     THEN /\ status' = [status EXCEPT ![p] = "exiting"]
          /\ stdin' = [stdin EXCEPT ![p] = <<>>]
          /\ sent' = [sent EXCEPT ![p] = 0]
     ELSE NextLine(p) /\ UNCHANGED status
  /\ UNCHANGED <<client, eof, calls, history>>

\* The provider yields one more piece of a streamed answer.
WorkerDelta(p) ==
  /\ Busy(p)
  /\ Current(p).cmd = "stream"
  /\ sent[p] < MaxDeltas
  /\ sent' = [sent EXCEPT ![p] = @ + 1]
  /\ Emit(p, Reply(p, Current(p), sent[p] + 1, "delta", TRUE))
  /\ UNCHANGED <<client, status, stdin, eof, calls, history>>

\* A stream ends with exactly one final or error frame.
WorkerFinish(p) ==
  /\ Busy(p)
  /\ Current(p).cmd = "stream"
  /\ \E kind \in {"final", "error"} :
       Emit(p, Reply(p, Current(p), sent[p] + 1, kind, TRUE))
  /\ NextLine(p)
  /\ UNCHANGED <<client, status, eof, calls, history>>

\* A command the worker cannot parse is answered under a trace of the worker's
\* own, which no caller waits for.
WorkerRejects(p) ==
  /\ Busy(p)
  /\ Current(p).cmd \in {"request", "stream"}
  /\ sent[p] = 0
  /\ Emit(p, [Reply(p, Current(p), 1, "error", FALSE) EXCEPT !.trace = ValidationTrace])
  /\ NextLine(p)
  /\ UNCHANGED <<client, status, eof, calls, history>>

\* The worker dies: its pipes close before poll() reports the exit.
Crash(p) ==
  /\ status[p] = "running"
  /\ status' = [status EXCEPT ![p] = "exiting"]
  /\ stdin' = [stdin EXCEPT ![p] = <<>>]
  /\ sent' = [sent EXCEPT ![p] = 0]
  /\ UNCHANGED <<client, queue, eof, calls, history>>

Exit(p) ==
  /\ status[p] = "exiting"
  /\ status' = [status EXCEPT ![p] = "dead"]
  /\ UNCHANGED <<client, stdin, sent, queue, eof, calls, history>>

\* The reader thread sees the end of stdout and puts its marker.  (The queue of
\* an earlier process is out of reach: its marker is not modelled.)
ReaderEof(p) ==
  /\ p = spawned
  /\ status[p] \in {"exiting", "dead"}
  /\ ~eof[p]
  /\ eof' = [eof EXCEPT ![p] = TRUE]
  /\ Emit(p, EofFrame(p))
  /\ UNCHANGED <<client, status, stdin, sent, calls, history>>

-----------------------------------------------------------------------------
\* What a caller does once its call is made.
CallerStep(c) ==
  \/ Acquire(c) \/ Reuse(c) \/ NothingToStop(c) \/ Spawn(c) \/ SpawnFails(c)
  \/ Send(c) \/ SendFails(c)
  \/ Discard(c) \/ Started(c) \/ StartRefused(c) \/ Deliver(c)
  \/ StopAnswered(c) \/ Reap(c) \/ Closed(c) \/ Timeout(c)

WorkerStep(p) ==
  \/ WorkerReply(p) \/ WorkerDelta(p) \/ WorkerFinish(p) \/ WorkerRejects(p)
  \/ Crash(p) \/ Exit(p) \/ ReaderEof(p)

Next ==
  \/ \E c \in Callers, cmd \in Commands \ {"start"}, t \in Traces : Call(c, cmd, t)
  \/ \E c \in Callers : CallerStep(c)
  \/ \E p \in Procs : WorkerStep(p)

Spec == Init /\ [][Next]_vars

\* Every thread goes on with its call: a wait on the queue ends by a frame or by
\* the timeout.  Nothing is assumed of the worker.
Fairness == \A c \in Callers : WF_vars(CallerStep(c))
FairSpec == Spec /\ Fairness

-----------------------------------------------------------------------------
(* Properties                                                              *)

Inside(c) == pc[c] \in {"begin", "send", "await", "reap"}

\* The client never loses a worker: a process that still lives is the one the
\* client refers to, whatever timeouts, crashes, refused starts and shutdowns
\* came before.  So at most one worker lives, and none once shutdown returns.
LiveWorkerIsCurrent == \A p \in Procs : Alive(p) => p = process

\* "Fresh queue per process so stale frames from a dead worker never leak into
\* the next one": what a caller receives was printed by the very process its
\* command was written to.
FramesOfOwnProcess ==
  \A c \in Callers : \A i \in DOMAIN got[c] : got[c][i].proc = via[c]

\* The inductive strengthening of the two properties above.
LockHeld == \A c \in Callers : Inside(c) <=> lock = c
HandleIsLastSpawned == process \in {0, spawned}
HandleOnWire == \A c \in Callers : pc[c] \in {"send", "await", "reap"} => process # 0
NotSpawnedYet == \A p \in Procs : p > spawned => status[p] = "none"
StopStartsNothing ==
  \A c \in Callers :
    phase[c] = "start" => call[c].cmd # "stop" /\ pc[c] \in {"send", "await"}
ReapStops == \A c \in Callers : pc[c] = "reap" => call[c].cmd = "stop"
QueueTagged == \A p \in Procs : \A i \in DOMAIN queue[p] : queue[p][i].proc = p
WrittenToCurrent == \A c \in Callers : pc[c] = "await" => via[c] = process
NothingReceivedYet ==
  \A c \in Callers :
    pc[c] \in {"want", "begin", "send"} \/ phase[c] = "start" => got[c] = <<>>

IInv ==
  /\ TypeOK
  /\ LockHeld
  /\ HandleIsLastSpawned
  /\ HandleOnWire
  /\ NotSpawnedYet
  /\ LiveWorkerIsCurrent
  /\ StopStartsNothing
  /\ ReapStops
  /\ QueueTagged
  /\ WrittenToCurrent
  /\ NothingReceivedYet
  /\ FramesOfOwnProcess

\* As long as no call of the same trace has timed out on this process, a caller
\* receives the frames of its own command, in order, none missing: answers of
\* other turns, of the start handshake and of concurrent callers never mix in.
OwnFramesInOrder ==
  \A c \in Callers :
    <<via[c], call[c].trace>> \notin abandoned =>
      \A i \in DOMAIN got[c] : got[c][i].id = call[c].id /\ got[c][i].n = i

\* "Reuses the same trace_id matching as request so stale frames are discarded":
\* no caller receives a frame of an earlier command.
StaleFramesDiscarded ==
  \A c \in Callers : \A i \in DOMAIN got[c] : got[c][i].id = call[c].id

\* "Never killed for being slow": a running worker is killed only by shutdown,
\* or because it answered that it cannot start.
SlowWorkerIsNotKilled ==
  [][\A p \in Procs :
       status[p] = "running" /\ status'[p] = "dead" =>
         \E c \in Callers :
           /\ lock = c
           /\ \/ call[c].cmd = "stop"
              \/ phase[c] = "start" /\ Answered(c) /\ ~Front.ok]_vars

\* Once shutdown returns no process that the client started lives, nor will one until
\* another call starts it: however the stop was answered, timed out or failed.
ShutdownLeavesNone ==
  [][\A c \in Callers :
       Inside(c) /\ call[c].cmd = "stop" /\ pc'[c] = "idle" =>
         \A p \in Procs : ~Alive(p)']_vars

\* A call that returns has its whole answer and nothing else: request one frame,
\* stream the frames up to the one that ends it, stop none, each of its own turn.
WholeAnswer(c) ==
  /\ \A i \in DOMAIN got[c] : got[c][i].trace = call[c].trace
  /\ call[c].cmd \in {"start", "stop"} => got[c] = <<>>
  /\ \A i \in DOMAIN got[c] :
       Ends(call[c], got[c][i]) => i = Len(got[c]) /\ pc[c] = "idle" /\ outcome[c] = "returned"
  /\ pc[c] = "idle" /\ outcome[c] = "returned" /\ call[c].cmd \in {"request", "stream"} =>
       got[c] # <<>> /\ Ends(call[c], got[c][Len(got[c])])

WholeAnswers == \A c \in Callers : WholeAnswer(c)

\* Every call returns or raises, even when the worker hangs, dies or answers
\* under a foreign trace, and even if every lock holder before it fails.
EveryCallReturns == \A c \in Callers : pc[c] = "want" ~> pc[c] = "idle"

\* The client implements the service its callers rely on.
Service == INSTANCE RpcService WITH
  server <- lock,
  stage <- [c \in Callers |-> CASE pc[c] = "idle" -> "idle"
                                 [] pc[c] = "want" -> "queued"
                                 [] OTHER -> "served"],
  request <- [c \in Callers |-> [cmd |-> call[c].cmd, trace |-> call[c].trace]],
  delivered <- [c \in Callers |->
                 [i \in DOMAIN got[c] |->
                   [kind |-> got[c][i].kind, trace |-> got[c][i].trace]]]

ImplementsService == Service!Spec
=============================================================================
