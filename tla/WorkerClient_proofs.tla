------------------------- MODULE WorkerClient_proofs -------------------------
(***************************************************************************)
(* For any number of callers, traces, calls, processes and deltas: the     *)
(* types of the client's state, that it never loses a live worker, never   *)
(* hands a frame of one process to a call made to another, and hands each  *)
(* caller the frames of its own command, in order; and that it implements  *)
(* RpcService.                                                             *)
(***************************************************************************)
EXTENDS WorkerClient, TLAPS

\* The part of the state the callers write is well typed after Release.
LEMMA ReleaseTyped ==
  ASSUME TypeOK, NEW c \in Callers, NEW how \in {"returned", "raised"}, Release(c, how)
  PROVE  /\ lock' \in Callers \cup {NoCaller}
         /\ pc' \in [Callers -> {"idle", "want", "begin", "send", "await", "reap"}]
         /\ phase' \in [Callers -> {"start", "main"}]
         /\ outcome' \in [Callers -> {"none", "returned", "raised"}]
         /\ call' = call /\ spawned' = spawned
BY DEF TypeOK, Release

\* Killing keeps the worker's state well typed.
LEMMA KillTyped ==
  ASSUME TypeOK, Kill(process)
  PROVE  /\ status' \in [Procs -> {"none", "running", "exiting", "dead"}]
         /\ stdin' \in [Procs -> Seq(Command)]
         /\ sent' \in [Procs -> 0..MaxDeltas]
<1>1. <<>> \in Seq(Command)
  OBVIOUS
<1>2. 0 \in 0..MaxDeltas
  BY ConstantsAssumption
<1> QED BY <1>1, <1>2 DEF TypeOK, Kill

\* Every path by which an exception leaves the client keeps the types.
LEMMA RaiseTyped ==
  ASSUME TypeOK, NEW c \in Callers, Raise(c)
  PROVE  /\ lock' \in Callers \cup {NoCaller}
         /\ pc' \in [Callers -> {"idle", "want", "begin", "send", "await", "reap"}]
         /\ phase' \in [Callers -> {"start", "main"}]
         /\ outcome' \in [Callers -> {"none", "returned", "raised"}]
         /\ call' = call /\ spawned' = spawned
         /\ process' \in 0..MaxProcs
         /\ status' \in [Procs -> {"none", "running", "exiting", "dead"}]
         /\ stdin' \in [Procs -> Seq(Command)]
         /\ sent' \in [Procs -> 0..MaxDeltas]
<1>0. 0 \in 0..MaxProcs
  BY ConstantsAssumption
<1>1. CASE call[c].cmd = "stop"
  BY <1>0, <1>1, KillTyped, ReleaseTyped DEF Raise
<1>2. CASE call[c].cmd # "stop"
  BY <1>2, ReleaseTyped DEF Raise, TypeOK
<1> QED BY <1>1, <1>2

\* Taking a frame from the reader's queue leaves queues of frames.
LEMMA TakeTyped ==
  ASSUME TypeOK, Inbox # <<>>, spawned # 0
  PROVE  /\ Front \in Frame
         /\ TakeFrame => queue' \in [Procs -> Seq(Frame)]
<1>1. spawned \in Procs
  BY ConstantsAssumption DEF TypeOK, Procs
<1>2. Inbox \in Seq(Frame)
  BY <1>1 DEF TypeOK, Inbox
<1>3. Head(Inbox) \in Frame /\ Tail(Inbox) \in Seq(Frame)
  BY <1>2
<1> QED BY <1>1, <1>3 DEF TypeOK, TakeFrame, Front

\* A caller that is waiting, and whose queue has a frame, reads the queue of a
\* spawned process: the frame was printed by the process on the wire.
LEMMA FrontIsCurrent ==
  ASSUME IInv, NEW c \in Callers, pc[c] = "await", Inbox # <<>>
  PROVE  /\ process = spawned /\ spawned \in Procs
         /\ Front \in Frame /\ Front.proc = process
         /\ TakeFrame => queue' \in [Procs -> Seq(Frame)]
<1>1. process = spawned /\ spawned # 0
  BY DEF IInv, HandleOnWire, HandleIsLastSpawned
<1>2. spawned \in Procs
  BY <1>1, ConstantsAssumption DEF IInv, TypeOK, Procs
<1>3. Inbox \in Seq(Frame) /\ 1 \in DOMAIN Inbox
  BY <1>2 DEF IInv, TypeOK, Inbox
<1>4. Inbox[1].proc = spawned
  BY <1>2, <1>3 DEF IInv, QueueTagged, Inbox
<1> QED
  BY <1>1, <1>2, <1>3, <1>4, TakeTyped DEF IInv, Front

\* What a caller puts on the wire is a command.
LEMMA WireTyped ==
  ASSUME TypeOK, NEW c \in Callers
  PROVE  Wire(c) \in Command
<1>1. StartCommand \in Command
  BY ConstantsAssumption DEF StartCommand, Command, Commands, AllTraces
<1> QED BY <1>1 DEF TypeOK, Wire

\* A busy worker works on a command.
LEMMA CurrentTyped ==
  ASSUME TypeOK, NEW p \in Procs, Busy(p)
  PROVE  Current(p) \in Command /\ Tail(stdin[p]) \in Seq(Command)
<1>1. stdin[p] \in Seq(Command) /\ stdin[p] # <<>>
  BY DEF TypeOK, Busy
<1> QED BY <1>1 DEF Current

\* A caller's step keeps every variable well typed.
LEMMA CallerTyped ==
  ASSUME IInv, NEW c \in Callers, CallerStep(c)
  PROVE  TypeOK'
<1> USE DEF IInv, client, worker, history
<1>1. CASE Acquire(c)
  BY <1>1 DEF Acquire, Step, TypeOK
<1>2. CASE Reuse(c)
  BY <1>2 DEF Reuse, Step, TypeOK
<1>3. CASE NothingToStop(c)
  <2>1. 0 \in 0..MaxProcs
    BY ConstantsAssumption
  <2> QED BY <1>3, <2>1, ReleaseTyped DEF NothingToStop, TypeOK
<1>4. CASE Spawn(c)
  <2>1. spawned + 1 \in Procs /\ spawned + 1 \in 0..MaxProcs
    BY <1>4, ConstantsAssumption DEF Spawn, TypeOK, Procs
  <2>2. NewQueue \in Seq(Frame)
    BY DEF NewQueue
  <2> QED BY <1>4, <2>1, <2>2 DEF Spawn, Step, TypeOK
<1>5. CASE SpawnFails(c)
  BY <1>5, ReleaseTyped DEF SpawnFails, TypeOK
<1>6. CASE Send(c)
  <2>1. process \in Procs
    BY <1>6, ConstantsAssumption DEF Send, Step, TypeOK, HandleOnWire, Procs
  <2>2. Wire(c) \in Command /\ stdin[process] \in Seq(Command)
    BY <2>1, WireTyped DEF TypeOK
  <2>3. Append(stdin[process], Wire(c)) \in Seq(Command)
    BY <2>2
  <2> QED BY <1>6, <2>1, <2>3 DEF Send, Step, TypeOK
<1>7. CASE SendFails(c)
  BY <1>7, RaiseTyped DEF SendFails, TypeOK
<1>8. CASE Discard(c)
  BY <1>8, FrontIsCurrent DEF Discard, Receives, TypeOK
<1>9. CASE Started(c)
  BY <1>9, FrontIsCurrent DEF Started, Answered, Receives, Step, TypeOK
<1>10. CASE StartRefused(c)
  BY <1>10, FrontIsCurrent, KillTyped, ReleaseTyped
  DEF StartRefused, Answered, Receives, TypeOK
<1>11. CASE Deliver(c)
  <2>1. Front \in Frame /\ queue' \in [Procs -> Seq(Frame)]
    BY <1>11, FrontIsCurrent DEF Deliver, Answered, Receives
  <2>2. got' \in [Callers -> Seq(Frame)]
    BY <1>11, <2>1 DEF Deliver, TypeOK
  <2>3. CASE Ends(call[c], Front)
    BY <1>11, <2>1, <2>2, <2>3, ReleaseTyped DEF Deliver, TypeOK
  <2>4. CASE ~Ends(call[c], Front)
    BY <1>11, <2>1, <2>2, <2>4 DEF Deliver, TypeOK
  <2> QED BY <2>3, <2>4
<1>12. CASE StopAnswered(c)
  BY <1>12, FrontIsCurrent DEF StopAnswered, Answered, Receives, Step, TypeOK
<1>13. CASE Reap(c)
  <2>1. 0 \in 0..MaxProcs
    BY ConstantsAssumption
  <2> QED BY <1>13, <2>1, KillTyped, ReleaseTyped DEF Reap, TypeOK
<1>14. CASE Closed(c)
  BY <1>14, FrontIsCurrent, RaiseTyped DEF Closed, TypeOK
<1>15. CASE Timeout(c)
  <2>1. Wire(c).trace \in AllTraces
    BY WireTyped DEF Command
  <2>2. abandoned' \subseteq (0..MaxProcs) \X AllTraces
    BY <1>15, <2>1 DEF Timeout, TypeOK
  <2> QED BY <1>15, <2>2, RaiseTyped DEF Timeout, TypeOK
<1> QED
  BY <1>1, <1>2, <1>3, <1>4, <1>5, <1>6, <1>7, <1>8, <1>9, <1>10, <1>11, <1>12,
     <1>13, <1>14, <1>15 DEF CallerStep

\* A line the worker or the reader thread adds to a queue is a tagged frame.
LEMMA EmitTyped ==
  ASSUME IInv, NEW p \in Procs, NEW f \in Frame, Emit(p, f)
  PROVE  /\ queue' \in [Procs -> Seq(Frame)]
         /\ f.proc = p => QueueTagged'
<1>1. Append(queue[p], f) \in Seq(Frame)
  BY DEF IInv, TypeOK
<1>2. queue' \in [Procs -> Seq(Frame)]
  BY <1>1 DEF IInv, TypeOK, Emit
<1>3. ASSUME f.proc = p, NEW q \in Procs, NEW i \in DOMAIN queue'[q]
      PROVE  queue'[q][i].proc = q
  <2>1. CASE q # p
    BY <1>3, <2>1 DEF IInv, TypeOK, QueueTagged, Emit
  <2>2. CASE q = p
    <3>1. queue[p] \in Seq(Frame) /\ queue'[q] = Append(queue[p], f)
      BY <2>2 DEF IInv, TypeOK, Emit
    <3>2. CASE i \in DOMAIN queue[p]
      BY <2>2, <3>1, <3>2 DEF IInv, QueueTagged
    <3>3. CASE i \notin DOMAIN queue[p]
      BY <1>3, <2>2, <3>1, <3>3
    <3> QED BY <3>2, <3>3
  <2> QED BY <2>1, <2>2
<1> QED BY <1>2, <1>3 DEF QueueTagged

\* A step of the worker or of its reader thread keeps the types and tags every
\* frame with its process.
LEMMA WorkerTyped ==
  ASSUME IInv, NEW p \in Procs, WorkerStep(p)
  PROVE  TypeOK' /\ QueueTagged'
<1> USE DEF IInv, client, history
<1>0. 0 \in 0..MaxDeltas /\ 1 \in 0..MaxDeltas + 1 /\ 0 \in 0..MaxDeltas + 1
      /\ 0 \in 0..MaxCalls /\ <<>> \in Seq(Command)
  BY ConstantsAssumption
<1>n. ASSUME Busy(p), NextLine(p)
      PROVE  stdin' \in [Procs -> Seq(Command)] /\ sent' \in [Procs -> 0..MaxDeltas]
  BY <1>0, <1>n, CurrentTyped DEF NextLine, TypeOK
<1>1. CASE WorkerReply(p)
  <2>1. PICK ok \in BOOLEAN : Emit(p, Reply(p, Current(p), 1, "result", ok))
    BY <1>1 DEF WorkerReply
  <2>2. Reply(p, Current(p), 1, "result", ok) \in Frame
    BY <1>0, <1>1, CurrentTyped DEF WorkerReply, Reply, Frame, Command, Kinds
  <2>3. queue' \in [Procs -> Seq(Frame)] /\ QueueTagged'
    BY <2>1, <2>2, EmitTyped DEF Reply
  <2>4. CASE Current(p).cmd = "stop"
    BY <1>0, <1>1, <2>3, <2>4 DEF WorkerReply, TypeOK
  <2>5. CASE Current(p).cmd # "stop"
    BY <1>1, <1>n, <2>3, <2>5 DEF WorkerReply, TypeOK
  <2> QED BY <2>4, <2>5
<1>2. CASE WorkerDelta(p)
  <2>1. sent[p] + 1 \in 0..MaxDeltas /\ sent[p] + 1 \in 0..MaxDeltas + 1
    BY <1>2, ConstantsAssumption DEF WorkerDelta, TypeOK
  <2>2. Reply(p, Current(p), sent[p] + 1, "delta", TRUE) \in Frame
    BY <1>2, <2>1, CurrentTyped DEF WorkerDelta, Reply, Frame, Command, Kinds
  <2>3. queue' \in [Procs -> Seq(Frame)] /\ QueueTagged'
    BY <1>2, <2>2, EmitTyped DEF WorkerDelta, Reply
  <2> QED BY <1>2, <2>1, <2>3 DEF WorkerDelta, TypeOK
<1>3. CASE WorkerFinish(p)
  <2>1. sent[p] + 1 \in 0..MaxDeltas + 1
    BY ConstantsAssumption DEF TypeOK
  <2>2. PICK kind \in {"final", "error"} :
          Emit(p, Reply(p, Current(p), sent[p] + 1, kind, TRUE))
    BY <1>3 DEF WorkerFinish
  <2>3. Reply(p, Current(p), sent[p] + 1, kind, TRUE) \in Frame
    BY <1>3, <2>1, CurrentTyped DEF WorkerFinish, Reply, Frame, Command, Kinds
  <2>4. queue' \in [Procs -> Seq(Frame)] /\ QueueTagged'
    BY <2>2, <2>3, EmitTyped DEF Reply
  <2> QED BY <1>3, <1>n, <2>4 DEF WorkerFinish, TypeOK
<1>4. CASE WorkerRejects(p)
  <2> DEFINE f == [Reply(p, Current(p), 1, "error", FALSE) EXCEPT !.trace = ValidationTrace]
  <2>1. f \in Frame /\ f.proc = p
    BY <1>0, <1>4, CurrentTyped DEF WorkerRejects, Reply, Frame, Command, Kinds, AllTraces
  <2>2. queue' \in [Procs -> Seq(Frame)] /\ QueueTagged'
    BY <1>4, <2>1, EmitTyped DEF WorkerRejects
  <2> QED BY <1>4, <1>n, <2>2 DEF WorkerRejects, TypeOK
<1>5. CASE Crash(p)
  BY <1>0, <1>5 DEF Crash, TypeOK, QueueTagged
<1>6. CASE Exit(p)
  BY <1>6 DEF Exit, TypeOK, QueueTagged
<1>7. CASE ReaderEof(p)
  <2>1. EofFrame(p) \in Frame
    BY <1>0 DEF EofFrame, Frame, Kinds, AllTraces
  <2>2. queue' \in [Procs -> Seq(Frame)] /\ QueueTagged'
    BY <1>7, <2>1, EmitTyped DEF ReaderEof, EofFrame
  <2> QED BY <1>7, <2>2 DEF ReaderEof, TypeOK
<1> QED
  BY <1>1, <1>2, <1>3, <1>4, <1>5, <1>6, <1>7 DEF WorkerStep

\* Who holds the lock, which process the handle and the wire refer to.
Control ==
  LockHeld /\ HandleIsLastSpawned /\ HandleOnWire /\ StopStartsNothing /\ ReapStops
  /\ WrittenToCurrent

\* Which processes live.
Processes == NotSpawnedYet /\ LiveWorkerIsCurrent

\* What the callers have received.
Received == NothingReceivedYet /\ FramesOfOwnProcess

\* Leaving the lock keeps the control part, whatever becomes of the handle:
\* nobody else is inside.
LEMMA ReleaseControl ==
  ASSUME IInv, NEW c \in Callers, Inside(c), NEW how, Release(c, how),
         process' \in {0, process}, via' = via
  PROVE  Control'
BY ConstantsAssumption
   DEF IInv, TypeOK, Control, LockHeld, HandleIsLastSpawned, HandleOnWire,
       StopStartsNothing, ReapStops, WrittenToCurrent, Release, Inside

\* Killing the client's process leaves no live process at all.
LEMMA KillProcesses ==
  ASSUME IInv, process # 0, Kill(process), spawned' = spawned
  PROVE  Processes' /\ \A p \in Procs : ~Alive(p)'
<1>1. process \in Procs
  BY DEF IInv, TypeOK, Procs
<1> QED
  BY <1>1, ConstantsAssumption
  DEF IInv, TypeOK, Processes, NotSpawnedYet, LiveWorkerIsCurrent, Alive, Kill, Procs,
      HandleIsLastSpawned

\* An exception inside the lock keeps control and processes.
LEMMA RaiseKeeps ==
  ASSUME IInv, NEW c \in Callers, Inside(c), process # 0, Raise(c), via' = via
  PROVE  Control' /\ Processes'
<1>1. CASE call[c].cmd = "stop"
  BY <1>1, ReleaseControl, KillProcesses DEF Raise, Release
<1>2. CASE call[c].cmd # "stop"
  <2>1. Control'
    BY <1>2, ReleaseControl DEF Raise
  <2> QED
    BY <1>2, <2>1
    DEF Raise, Release, IInv, Processes, NotSpawnedYet, LiveWorkerIsCurrent, Alive
<1> QED BY <1>1, <1>2

\* Taking a frame keeps the tags.
LEMMA TakeTagged ==
  ASSUME IInv, NEW c \in Callers, pc[c] = "await", Inbox # <<>>, TakeFrame
  PROVE  QueueTagged'
<1>1. spawned \in Procs /\ Inbox \in Seq(Frame)
  BY FrontIsCurrent DEF IInv, TypeOK, Inbox
<1>2. \A i \in DOMAIN Tail(Inbox) : Tail(Inbox)[i] = Inbox[i + 1] /\ i + 1 \in DOMAIN Inbox
  BY <1>1
<1>3. \A i \in DOMAIN Inbox : Inbox[i].proc = spawned
  BY <1>1 DEF IInv, QueueTagged, Inbox
<1>4. \A i \in DOMAIN Tail(Inbox) : Tail(Inbox)[i].proc = spawned
  BY <1>2, <1>3
<1> QED BY <1>1, <1>4 DEF IInv, TypeOK, QueueTagged, TakeFrame

\* A caller's step keeps the whole invariant.
LEMMA CallerKeeps ==
  ASSUME IInv, NEW c \in Callers, CallerStep(c)
  PROVE  IInv'
<1> SUFFICES Control' /\ Processes' /\ QueueTagged' /\ Received'
  BY CallerTyped DEF IInv, Control, Processes, Received
<1> USE DEF client, worker, history
<1>1. CASE Acquire(c)
  BY <1>1, ConstantsAssumption
  DEF Acquire, Step, IInv, TypeOK, Control, LockHeld, HandleIsLastSpawned, HandleOnWire,
      StopStartsNothing, ReapStops, WrittenToCurrent, Inside, Processes, NotSpawnedYet,
      LiveWorkerIsCurrent, Alive, QueueTagged, Received, NothingReceivedYet,
      FramesOfOwnProcess
<1>2. CASE Reuse(c)
  BY <1>2
  DEF Reuse, Step, IInv, TypeOK, Control, LockHeld, HandleIsLastSpawned, HandleOnWire,
      StopStartsNothing, ReapStops, WrittenToCurrent, Inside, Processes, NotSpawnedYet,
      LiveWorkerIsCurrent, Alive, QueueTagged, Received, NothingReceivedYet,
      FramesOfOwnProcess
<1>3. CASE NothingToStop(c)
  <2>1. Control'
    BY <1>3, ReleaseControl DEF NothingToStop, Inside
  <2>2. Processes'
    BY <1>3
    DEF NothingToStop, Release, IInv, Processes, NotSpawnedYet, LiveWorkerIsCurrent, Alive
  <2> QED
    BY <1>3, <2>1, <2>2
    DEF NothingToStop, Release, IInv, TypeOK, QueueTagged, Received, NothingReceivedYet,
        FramesOfOwnProcess
<1>4. CASE Spawn(c)
  <2>1. spawned + 1 \in Procs /\ spawned \in Nat
    BY <1>4, ConstantsAssumption DEF Spawn, IInv, TypeOK, Procs
  <2>2. Control'
    BY <1>4, <2>1
    DEF Spawn, Step, IInv, TypeOK, Control, LockHeld, HandleIsLastSpawned, HandleOnWire,
        StopStartsNothing, ReapStops, WrittenToCurrent, Inside
  <2>3. Processes'
    BY <1>4, <2>1
    DEF Spawn, IInv, TypeOK, Processes, NotSpawnedYet, LiveWorkerIsCurrent, Alive, Procs
  <2>4. QueueTagged'
    BY <1>4, <2>1 DEF Spawn, NewQueue, IInv, TypeOK, QueueTagged
  <2>5. Received'
    BY <1>4
    DEF Spawn, Step, IInv, TypeOK, Received, NothingReceivedYet, FramesOfOwnProcess
  <2> QED BY <2>2, <2>3, <2>4, <2>5
<1>5. CASE SpawnFails(c)
  <2>1. Control'
    BY <1>5, ReleaseControl DEF SpawnFails, Inside
  <2> QED
    BY <1>5, <2>1
    DEF SpawnFails, Release, IInv, TypeOK, Processes, NotSpawnedYet, LiveWorkerIsCurrent,
        Alive, QueueTagged, Received, NothingReceivedYet, FramesOfOwnProcess
<1>6. CASE Send(c)
  <2>1. Control'
    BY <1>6
    DEF Send, Step, IInv, TypeOK, Control, LockHeld, HandleIsLastSpawned, HandleOnWire,
        StopStartsNothing, ReapStops, WrittenToCurrent, Inside
  <2>2. Processes' /\ QueueTagged'
    BY <1>6
    DEF Send, IInv, Processes, NotSpawnedYet, LiveWorkerIsCurrent, Alive, QueueTagged
  <2>3. got[c] = <<>>
    BY <1>6 DEF Send, Step, IInv, NothingReceivedYet
  <2>4. Received'
    BY <1>6, <2>3
    DEF Send, Step, IInv, TypeOK, Received, NothingReceivedYet, FramesOfOwnProcess
  <2> QED BY <2>1, <2>2, <2>4
<1>r. ASSUME Inside(c), process # 0, Raise(c), UNCHANGED <<via, got>>
      PROVE  Control' /\ Processes' /\ Received'
  <2>1. Control' /\ Processes'
    BY <1>r, RaiseKeeps
  <2> QED
    BY <1>r, <2>1
    DEF Raise, Release, IInv, TypeOK, Received, NothingReceivedYet, FramesOfOwnProcess
<1>7. CASE SendFails(c)
  BY <1>7, <1>r DEF SendFails, Inside, IInv, HandleOnWire, QueueTagged
<1>8. CASE Discard(c)
  <2>1. QueueTagged'
    BY <1>8, TakeTagged DEF Discard, Receives
  <2> QED
    BY <1>8, <2>1
    DEF Discard, IInv, Control, LockHeld, HandleIsLastSpawned, HandleOnWire,
        StopStartsNothing, ReapStops, WrittenToCurrent, Inside, Processes, NotSpawnedYet,
        LiveWorkerIsCurrent, Alive, Received, NothingReceivedYet, FramesOfOwnProcess
<1>9. CASE Started(c)
  <2>1. QueueTagged'
    BY <1>9, TakeTagged DEF Started, Answered, Receives
  <2> QED
    BY <1>9, <2>1
    DEF Started, Step, IInv, TypeOK, Control, LockHeld, HandleIsLastSpawned, HandleOnWire,
        StopStartsNothing, ReapStops, WrittenToCurrent, Inside, Processes, NotSpawnedYet,
        LiveWorkerIsCurrent, Alive, Received, NothingReceivedYet, FramesOfOwnProcess
<1>10. CASE StartRefused(c)
  <2>1. QueueTagged'
    BY <1>10, TakeTagged DEF StartRefused, Answered, Receives
  <2>2. Inside(c) /\ process # 0
    BY <1>10 DEF StartRefused, Answered, Receives, Inside, IInv, HandleOnWire
  <2>3. Control' /\ Processes'
    BY <1>10, <2>2, ReleaseControl, KillProcesses DEF StartRefused, Release
  <2> QED
    BY <1>10, <2>1, <2>3
    DEF StartRefused, Release, IInv, TypeOK, Received, NothingReceivedYet,
        FramesOfOwnProcess
<1>11. CASE Deliver(c)
  <2>1. QueueTagged' /\ Front.proc = process /\ Front \in Frame
    BY <1>11, TakeTagged, FrontIsCurrent DEF Deliver, Answered, Receives
  <2>2. pc[c] = "await" /\ Inside(c) /\ via[c] = process
    BY <1>11 DEF Deliver, Answered, Receives, Inside, IInv, WrittenToCurrent
  <2>3. FramesOfOwnProcess'
    <3>1. ASSUME NEW d \in Callers, NEW i \in DOMAIN got'[d]
          PROVE  got'[d][i].proc = via'[d]
      <4>1. CASE d # c
        BY <1>11, <3>1, <4>1 DEF Deliver, IInv, TypeOK, FramesOfOwnProcess
      <4>2. CASE d = c
        <5>1. got[c] \in Seq(Frame) /\ got'[d] = Append(got[c], Front)
          BY <1>11, <4>2 DEF Deliver, IInv, TypeOK
        <5>2. CASE i \in DOMAIN got[c]
          BY <1>11, <4>2, <5>1, <5>2 DEF Deliver, IInv, FramesOfOwnProcess
        <5>3. CASE i \notin DOMAIN got[c]
          BY <1>11, <2>1, <2>2, <3>1, <4>2, <5>1, <5>3 DEF Deliver
        <5> QED BY <5>2, <5>3
      <4> QED BY <4>1, <4>2
    <3> QED BY <3>1 DEF FramesOfOwnProcess
  <2>4. Control'
    <3>1. CASE Ends(call[c], Front)
      BY <1>11, <2>2, <3>1, ReleaseControl DEF Deliver
    <3>2. CASE ~Ends(call[c], Front)
      BY <1>11, <3>2
      DEF Deliver, IInv, Control, LockHeld, HandleIsLastSpawned, HandleOnWire,
          StopStartsNothing, ReapStops, WrittenToCurrent, Inside
    <3> QED BY <3>1, <3>2
  <2>5. NothingReceivedYet'
    BY <1>11, <2>2 DEF Deliver, Release, IInv, TypeOK, NothingReceivedYet
  <2>6. Processes'
    BY <1>11
    DEF Deliver, Release, IInv, Processes, NotSpawnedYet, LiveWorkerIsCurrent, Alive
  <2> QED BY <2>1, <2>3, <2>4, <2>5, <2>6 DEF Received
<1>12. CASE StopAnswered(c)
  <2>1. QueueTagged'
    BY <1>12, TakeTagged DEF StopAnswered, Answered, Receives
  <2> QED
    BY <1>12, <2>1
    DEF StopAnswered, Step, IInv, TypeOK, Control, LockHeld, HandleIsLastSpawned,
        HandleOnWire, StopStartsNothing, ReapStops, WrittenToCurrent, Inside, Processes,
        NotSpawnedYet, LiveWorkerIsCurrent, Alive, Received, NothingReceivedYet,
        FramesOfOwnProcess
<1>13. CASE Reap(c)
  <2>1. Inside(c) /\ process # 0
    BY <1>13 DEF Reap, Inside, IInv, HandleOnWire
  <2>2. Control' /\ Processes'
    BY <1>13, <2>1, ReleaseControl, KillProcesses DEF Reap, Release
  <2> QED
    BY <1>13, <2>2
    DEF Reap, Release, IInv, TypeOK, QueueTagged, Received, NothingReceivedYet,
        FramesOfOwnProcess
<1>14. CASE Closed(c)
  <2>1. QueueTagged'
    BY <1>14, TakeTagged DEF Closed
  <2> QED BY <1>14, <1>r, <2>1 DEF Closed, Inside, IInv, HandleOnWire
<1>15. CASE Timeout(c)
  BY <1>15, <1>r DEF Timeout, Inside, IInv, HandleOnWire, QueueTagged
<1> QED
  BY <1>1, <1>2, <1>3, <1>4, <1>5, <1>6, <1>7, <1>8, <1>9, <1>10, <1>11, <1>12,
     <1>13, <1>14, <1>15 DEF CallerStep

\* A worker's step keeps the whole invariant: it touches no handle and no lock,
\* and brings no process to life.
LEMMA WorkerKeeps ==
  ASSUME IInv, NEW p \in Procs, WorkerStep(p)
  PROVE  IInv'
<1>1. UNCHANGED <<client, history, calls>>
  BY DEF WorkerStep, WorkerReply, WorkerDelta, WorkerFinish, WorkerRejects, Crash, Exit,
         ReaderEof
<1>2. \A q \in Procs : /\ Alive(q)' => Alive(q)
                       /\ status[q] = "none" => status'[q] = "none"
  BY DEF WorkerStep, WorkerReply, WorkerDelta, WorkerFinish, WorkerRejects, Crash, Exit,
         ReaderEof, Busy, Alive, IInv, TypeOK
<1>3. Processes'
  BY <1>1, <1>2 DEF IInv, Processes, NotSpawnedYet, LiveWorkerIsCurrent, client
<1> QED
  BY <1>1, <1>3, WorkerTyped
  DEF IInv, Processes, client, history, LockHeld, HandleIsLastSpawned, HandleOnWire,
      StopStartsNothing, ReapStops, WrittenToCurrent, Inside, NothingReceivedYet, FramesOfOwnProcess

\* A new call keeps the whole invariant.
LEMMA CallKeeps ==
  ASSUME IInv, NEW c \in Callers, NEW cmd \in Commands \ {"start"}, NEW t \in Traces,
         Call(c, cmd, t)
  PROVE  IInv'
<1>1. /\ calls + 1 \in 0..MaxCalls
      /\ [id |-> calls + 1, cmd |-> cmd,
          trace |-> IF cmd = "stop" THEN StopTrace ELSE t] \in Command
      /\ 0 \in 0..MaxProcs /\ <<>> \in Seq(Frame)
  BY ConstantsAssumption DEF Call, IInv, TypeOK, Command, AllTraces
<1>2. TypeOK'
  BY <1>1 DEF Call, Step, IInv, TypeOK, worker
<1> QED
  BY <1>2
  DEF Call, Step, IInv, TypeOK, LockHeld, HandleIsLastSpawned, HandleOnWire,
      StopStartsNothing, ReapStops, WrittenToCurrent, Inside, NotSpawnedYet, LiveWorkerIsCurrent,
      Alive, QueueTagged, NothingReceivedYet, FramesOfOwnProcess, worker

\* The invariant is inductive.
LEMMA NextKeeps == IInv /\ [Next]_vars => IInv'
<1> SUFFICES ASSUME IInv, [Next]_vars PROVE IInv'
  OBVIOUS
<1>1. CASE UNCHANGED vars
  BY <1>1
  DEF vars, IInv, TypeOK, LockHeld, HandleIsLastSpawned, HandleOnWire, NotSpawnedYet,
      LiveWorkerIsCurrent, Alive, StopStartsNothing, ReapStops, QueueTagged, WrittenToCurrent,
      NothingReceivedYet, FramesOfOwnProcess, Inside
<1> QED BY <1>1, CallKeeps, CallerKeeps, WorkerKeeps DEF Next

\* Initially nobody is inside, nothing was spawned, nothing received.
LEMMA InitEstablishes == Init => IInv
<1>1. StartCommand \in Command
  BY ConstantsAssumption DEF StartCommand, Command, Commands, AllTraces
<1>2. 0 \in 0..MaxProcs /\ 0 \in 0..MaxCalls /\ 0 \in 0..MaxDeltas
  BY ConstantsAssumption
<1> QED
  BY <1>1, <1>2, ConstantsAssumption
  DEF Init, IInv, TypeOK, LockHeld, HandleIsLastSpawned, HandleOnWire, NotSpawnedYet,
      LiveWorkerIsCurrent, Alive, StopStartsNothing, ReapStops, QueueTagged, WrittenToCurrent,
      NothingReceivedYet, FramesOfOwnProcess, Inside

LEMMA Invariance == Spec => []IInv
BY InitEstablishes, NextKeeps, PTL DEF Spec

\* The client's state always has its types: _JsonlWorkerProcessClient.
THEOREM TypeCorrect == Spec => []TypeOK
<1>1. IInv => TypeOK
  BY DEF IInv
<1> QED BY <1>1, Invariance, PTL

\* The lock of the client admits one caller at a time; a live worker is the one
\* the client refers to, so none is ever orphaned by this client.
THEOREM NoOrphanWorker == Spec => []LiveWorkerIsCurrent
<1>1. IInv => LiveWorkerIsCurrent
  BY DEF IInv
<1> QED BY <1>1, Invariance, PTL

\* Frames of a dead worker never reach a caller of the next one.
THEOREM FreshQueue == Spec => []FramesOfOwnProcess
<1>1. IInv => FramesOfOwnProcess
  BY DEF IInv
<1> QED BY <1>1, Invariance, PTL

\* A running worker is killed only by shutdown or after it refused to start; a
\* timeout leaves it alone.
THEOREM TimeoutSparesWorker == Spec => SlowWorkerIsNotKilled
<1> DEFINE Spared ==
      \A p \in Procs :
        status[p] = "running" /\ status'[p] = "dead" =>
          \E c \in Callers :
            /\ lock = c
            /\ \/ call[c].cmd = "stop"
               \/ phase[c] = "start" /\ Answered(c) /\ ~Front.ok
<1>1. IInv /\ [Next]_vars => [Spared]_vars
  <2> SUFFICES ASSUME IInv, Next PROVE Spared
    OBVIOUS
  <2>1. ASSUME NEW c \in Callers, CallerStep(c) PROVE Spared
    <3>1. CASE call[c].cmd = "stop" /\ Inside(c)
      BY <3>1 DEF IInv, LockHeld
    <3>2. CASE phase[c] = "start" /\ Answered(c) /\ ~Front.ok
      BY <3>2 DEF IInv, LockHeld, Inside, Answered, Receives
    <3>3. CASE Spawn(c)
      BY <3>3, ConstantsAssumption DEF Spawn, IInv, TypeOK, Procs
    <3>4. CASE SendFails(c) \/ Closed(c) \/ Timeout(c)
      BY <3>1, <3>4 DEF SendFails, Closed, Timeout, Raise, Inside
    <3>5. CASE StartRefused(c)
      BY <3>2, <3>5 DEF StartRefused
    <3>6. CASE Reap(c)
      BY <3>1, <3>6 DEF Reap, Inside, IInv, ReapStops
    <3>7. CASE \/ Acquire(c) \/ Reuse(c) \/ NothingToStop(c) \/ SpawnFails(c) \/ Send(c)
               \/ Discard(c) \/ Started(c) \/ Deliver(c) \/ StopAnswered(c)
      BY <3>7
      DEF Acquire, Reuse, NothingToStop, SpawnFails, Send, Discard, Started, Deliver,
          StopAnswered, worker
    <3> QED BY <3>3, <3>4, <3>5, <3>6, <3>7, <2>1 DEF CallerStep
  <2>2. ASSUME NEW p \in Procs, WorkerStep(p) PROVE Spared
    BY <2>2
    DEF WorkerStep, WorkerReply, WorkerDelta, WorkerFinish, WorkerRejects, Crash, Exit,
        ReaderEof, IInv, TypeOK
  <2>3. ASSUME NEW c \in Callers, NEW cmd \in Commands \ {"start"}, NEW t \in Traces,
               Call(c, cmd, t)
        PROVE  Spared
    BY <2>3 DEF Call, worker
  <2> QED BY <2>1, <2>2, <2>3 DEF Next
<1> QED BY <1>1, Invariance, PTL DEF Spec, SlowWorkerIsNotKilled

\* A stop that returns forgets the handle.
LEMMA StopForgets ==
  ASSUME IInv, [Next]_vars, NEW c \in Callers, Inside(c), call[c].cmd = "stop",
         pc'[c] = "idle"
  PROVE  process' = 0
<1>1. PICK d \in Callers : CallerStep(d)
  <2>1. ASSUME NEW d \in Callers, NEW cmd \in Commands \ {"start"}, NEW t \in Traces,
               Call(d, cmd, t)
        PROVE  FALSE
    BY <2>1 DEF Call, Step, Inside, IInv, TypeOK
  <2>2. ASSUME NEW p \in Procs, WorkerStep(p) PROVE FALSE
    BY <2>2
    DEF WorkerStep, WorkerReply, WorkerDelta, WorkerFinish, WorkerRejects, Crash, Exit,
        ReaderEof, client, Inside
  <2> QED BY <2>1, <2>2 DEF Next, vars, Inside
<1>2. d = c
  BY <1>1
  DEF CallerStep, Acquire, Reuse, NothingToStop, Spawn, SpawnFails, Send, SendFails, Discard,
      Started, StartRefused, Deliver, StopAnswered, Reap, Closed, Timeout, Step, Raise, Release,
      client, Inside, IInv, TypeOK
<1>3. CASE NothingToStop(c) \/ Reap(c)
  BY <1>3 DEF NothingToStop, Reap
<1>4. CASE SendFails(c) \/ Closed(c) \/ Timeout(c)
  BY <1>4 DEF SendFails, Closed, Timeout, Raise
<1>5. CASE \/ Acquire(c) \/ Reuse(c) \/ Spawn(c) \/ SpawnFails(c) \/ Send(c) \/ Discard(c)
           \/ Started(c) \/ StartRefused(c) \/ Deliver(c) \/ StopAnswered(c)
  BY <1>5
  DEF Acquire, Reuse, Spawn, SpawnFails, Send, Discard, Started, StartRefused, Deliver,
      StopAnswered, Step, client, Inside, IInv, TypeOK, StopStartsNothing
<1> QED BY <1>1, <1>2, <1>3, <1>4, <1>5 DEF CallerStep

\* Once shutdown returns no process of the client lives: shutdown of
\* _JsonlWorkerProcessClient, on each of its ways out.
THEOREM ShutdownEndsAll == Spec => ShutdownLeavesNone
<1>1. ASSUME IInv, IInv', [Next]_vars
      PROVE  [\A c \in Callers :
                Inside(c) /\ call[c].cmd = "stop" /\ pc'[c] = "idle" =>
                  \A p \in Procs : ~Alive(p)']_vars
  BY <1>1, StopForgets DEF IInv, LiveWorkerIsCurrent, Procs
<1> QED BY <1>1, Invariance, PTL DEF Spec, ShutdownLeavesNone

-----------------------------------------------------------------------------
(* The frames of a call                                                    *)

\* A caller of request or stream that waits for its answer.
Expects(c) == pc[c] = "await" /\ phase[c] = "main" /\ call[c].cmd # "stop"

\* Only a running worker has work, and only a stream is worked on piece by piece.
IdleWorker ==
  \A p \in Procs :
    /\ status[p] # "running" => stdin[p] = <<>>
    /\ stdin[p] = <<>> => sent[p] = 0
    /\ sent[p] # 0 => Head(stdin[p]).cmd = "stream"

\* The reader thread's end marker is the last thing in a queue, and bears a trace no
\* caller sends.
EndMarker ==
  \A p \in Procs : \A i \in DOMAIN queue[p] :
    queue[p][i].kind = "eof" =>
      /\ i = Len(queue[p]) /\ eof[p] /\ status[p] \in {"exiting", "dead"}
      /\ queue[p][i].trace = ValidationTrace

\* Each call bears a trace of its own kind: a turn's, or that of shutdown.
CallsTraced ==
  \A c \in Callers : pc[c] # "idle" =>
    /\ call[c].cmd # "start"
    /\ IF call[c].cmd = "stop" THEN call[c].trace = StopTrace ELSE call[c].trace \in Traces

\* What a waiting caller wrote is the last line of the worker's input, until finished.
LastWritten ==
  \A c \in Callers : \A p \in Procs :
    pc[c] = "await" /\ p = process /\ stdin[p] # <<>> => stdin[p][Len(stdin[p])] = Wire(c)

\* No command or frame of the trace is in the sequence.
Traceless(t, s) == \A i \in DOMAIN s : s[i].trace # t

\* Nothing of a trace is on the way to or from the worker, unless a caller waits for it
\* or a call of it was abandoned.
Clean ==
  \A p \in Procs, t \in Traces :
    /\ p = spawned /\ <<p, t>> \notin abandoned
    /\ \A c \in Callers : Expects(c) => call[c].trace # t
    => Traceless(t, stdin[p]) /\ Traceless(t, queue[p])

\* The frames of command m in queue q go on from the n-th, without a gap, up to the one
\* that ends the call, and nothing but the end marker follows or interrupts them.
Chained(m, q, n) ==
  \A i \in DOMAIN q : Matches(m, q[i]) =>
    /\ q[i].id = m.id
    /\ q[i].n = IF i > 1 /\ Matches(m, q[i - 1]) THEN q[i - 1].n + 1 ELSE n + 1
    /\ \A j \in DOMAIN q : j > i => \/ Matches(m, q[j]) /\ ~Ends(m, q[i])
                                    \/ q[j].kind = "eof"

\* The number of the last frame of m that was printed, n of which were taken.
LastN(m, q, n) == IF q # <<>> /\ Matches(m, q[Len(q)]) THEN q[Len(q)].n ELSE n

\* What the worker, k frames into the first command of s, still has to do for m: m is the
\* last of s or is finished; before its turn comes nothing of it was printed.
Remaining(m, q, s, k, n) ==
  /\ \A i \in DOMAIN s : i < Len(s) => s[i].trace # m.trace
  /\ \A i \in DOMAIN q : Matches(m, q[i]) /\ Ends(m, q[i]) => s = <<>>
  /\ Len(s) = 1 => k = LastN(m, q, n)
  /\ Len(s) > 1 => n = 0 /\ Traceless(m.trace, q)

\* The two halves of a waiting caller's answer: printed, and still to be printed.
OwnChain ==
  \A c \in Callers : \A p \in Procs :
    p = process /\ Expects(c) /\ <<p, call[c].trace>> \notin abandoned =>
      /\ Chained(call[c], queue[p], Len(got[c]))
      /\ Remaining(call[c], queue[p], stdin[p], sent[p], Len(got[c]))

\* The inductive strengthening of OwnFramesInOrder.
FInv == IdleWorker /\ EndMarker /\ CallsTraced /\ LastWritten /\ Clean /\ OwnChain
        /\ OwnFramesInOrder

\* The tail of a sequence, element by element.
LEMMA TailOf ==
  ASSUME NEW S, NEW q \in Seq(S), q # <<>>
  PROVE  /\ Tail(q) \in Seq(S) /\ Len(Tail(q)) = Len(q) - 1 /\ Len(q) \in Nat \ {0}
         /\ \A i \in DOMAIN Tail(q) : Tail(q)[i] = q[i + 1] /\ i + 1 \in DOMAIN q /\ i \in 1..Len(q)-1
         /\ Head(q) = q[1] /\ 1 \in DOMAIN q
OBVIOUS

\* A sequence is empty when its length is zero.
LEMMA EmptyOf ==
  ASSUME NEW S, NEW q \in Seq(S)
  PROVE  q = <<>> <=> Len(q) = 0
OBVIOUS

\* A sequence of one element is not empty.
LEMMA OneOf ==
  ASSUME NEW S, NEW q \in Seq(S), Len(q) = 1
  PROVE  q # <<>>
OBVIOUS

\* A sequence with one more element, element by element.
LEMMA AppendOf ==
  ASSUME NEW S, NEW q \in Seq(S), NEW f \in S
  PROVE  /\ Append(q, f) \in Seq(S) /\ Len(Append(q, f)) = Len(q) + 1 /\ Len(q) \in Nat
         /\ DOMAIN Append(q, f) = 1..Len(q) + 1 /\ DOMAIN q = 1..Len(q)
         /\ \A i \in 1..Len(q) : Append(q, f)[i] = q[i]
         /\ Append(q, f)[Len(q) + 1] = f
         /\ Append(q, f) # <<>>
OBVIOUS

\* Dropping a foreign frame leaves the chain.
LEMMA ChainDiscard ==
  ASSUME NEW m \in Command, NEW q \in Seq(Frame), q # <<>>, NEW n \in Nat,
         Chained(m, q, n), ~Matches(m, Head(q))
  PROVE  Chained(m, Tail(q), n)
BY TailOf DEF Chained

\* Taking the first own frame moves the chain on by one; after the frame that ends the
\* call only the end marker is left.
LEMMA ChainTake ==
  ASSUME NEW m \in Command, NEW q \in Seq(Frame), q # <<>>, NEW n \in Nat,
         Chained(m, q, n), Matches(m, Head(q)),
         \A i \in DOMAIN q : q[i].kind = "eof" => i = Len(q) /\ ~Matches(m, q[i])
  PROVE  /\ ~Ends(m, Head(q)) => Chained(m, Tail(q), n + 1)
         /\ Ends(m, Head(q)) => \A i \in DOMAIN Tail(q) : Tail(q)[i].kind = "eof"
         /\ Head(q).n = n + 1 /\ Head(q).id = m.id
<1>1. /\ Tail(q) \in Seq(Frame) /\ Len(Tail(q)) = Len(q) - 1 /\ Len(q) \in Nat \ {0}
      /\ \A i \in DOMAIN Tail(q) : Tail(q)[i] = q[i + 1] /\ i + 1 \in DOMAIN q /\ i \in 1..Len(q)-1
      /\ Head(q) = q[1] /\ 1 \in DOMAIN q /\ DOMAIN q = 1..Len(q)
  BY TailOf
<1>2. Head(q).n = n + 1 /\ Head(q).id = m.id
  BY <1>1 DEF Chained
<1>3. ASSUME Ends(m, Head(q)), NEW i \in DOMAIN Tail(q) PROVE Tail(q)[i].kind = "eof"
  BY <1>1, <1>3 DEF Chained
<1>4. ASSUME ~Ends(m, Head(q)) PROVE Chained(m, Tail(q), n + 1)
  <2> SUFFICES ASSUME NEW i \in DOMAIN Tail(q), Matches(m, Tail(q)[i])
               PROVE  /\ Tail(q)[i].id = m.id
                      /\ Tail(q)[i].n = IF i > 1 /\ Matches(m, Tail(q)[i - 1])
                                        THEN Tail(q)[i - 1].n + 1 ELSE (n + 1) + 1
                      /\ \A j \in DOMAIN Tail(q) : j > i =>
                           \/ Matches(m, Tail(q)[j]) /\ ~Ends(m, Tail(q)[i])
                           \/ Tail(q)[j].kind = "eof"
    BY DEF Chained
  <2>1. /\ q[i + 1].id = m.id
        /\ q[i + 1].n = IF Matches(m, q[i]) THEN q[i].n + 1 ELSE n + 1
        /\ \A j \in DOMAIN q : j > i + 1 => \/ Matches(m, q[j]) /\ ~Ends(m, q[i + 1])
                                            \/ q[j].kind = "eof"
    BY <1>1 DEF Chained
  <2>2. Matches(m, q[i])
    BY <1>1, i \in DOMAIN q DEF Chained
  <2>3. CASE i = 1
    BY <1>1, <1>2, <2>1, <2>2, <2>3
  <2>4. CASE i # 1
    BY <1>1, <2>1, <2>2, <2>4, Tail(q)[i - 1] = q[i]
  <2> QED BY <2>3, <2>4
<1> QED BY <1>2, <1>3, <1>4

\* The next own frame prolongs the chain.
LEMMA ChainOwn ==
  ASSUME NEW m \in Command, NEW q \in Seq(Frame), NEW n \in Nat, NEW f \in Frame,
         Chained(m, q, n), Matches(m, f), f.id = m.id, f.n = LastN(m, q, n) + 1,
         \A i \in DOMAIN q : q[i].kind # "eof" /\ (Matches(m, q[i]) => ~Ends(m, q[i]))
  PROVE  Chained(m, Append(q, f), n) /\ LastN(m, Append(q, f), n) = f.n
<1> DEFINE r == Append(q, f)
<1>1. /\ r \in Seq(Frame) /\ Len(r) = Len(q) + 1 /\ Len(q) \in Nat
      /\ DOMAIN r = 1..Len(q) + 1 /\ DOMAIN q = 1..Len(q)
      /\ \A i \in 1..Len(q) : r[i] = q[i]
      /\ r[Len(q) + 1] = f /\ r # <<>>
  BY AppendOf
<1> HIDE DEF r
<1>2. LastN(m, r, n) = f.n
  BY <1>1 DEF LastN
<1>3. ASSUME NEW i \in DOMAIN r, Matches(m, r[i])
      PROVE  /\ r[i].id = m.id
             /\ r[i].n = IF i > 1 /\ Matches(m, r[i - 1]) THEN r[i - 1].n + 1 ELSE n + 1
             /\ \A j \in DOMAIN r : j > i => \/ Matches(m, r[j]) /\ ~Ends(m, r[i])
                                             \/ r[j].kind = "eof"
  <2>1. CASE i \in DOMAIN q
    BY <1>1, <1>3, <2>1 DEF Chained
  <2>2. CASE i = Len(q) + 1
    <3>1. q = <<>> <=> Len(q) = 0
      BY <1>1
    <3> QED BY <1>1, <1>3, <2>2, <3>1 DEF LastN
  <2> QED BY <1>1, <2>1, <2>2
<1> QED BY <1>2, <1>3 DEF Chained, r

\* A foreign frame before the first own one, or the end marker, leaves the chain.
LEMMA ChainOther ==
  ASSUME NEW m \in Command, NEW q \in Seq(Frame), NEW n \in Nat, NEW f \in Frame,
         Chained(m, q, n), ~Matches(m, f),
         Traceless(m.trace, q) \/ f.kind = "eof"
  PROVE  Chained(m, Append(q, f), n)
<1> DEFINE r == Append(q, f)
<1>1. /\ r \in Seq(Frame) /\ Len(r) = Len(q) + 1 /\ Len(q) \in Nat
      /\ DOMAIN r = 1..Len(q) + 1 /\ DOMAIN q = 1..Len(q)
      /\ \A i \in 1..Len(q) : r[i] = q[i]
      /\ r[Len(q) + 1] = f
  BY AppendOf
<1> HIDE DEF r
<1>3. ASSUME NEW i \in DOMAIN r, Matches(m, r[i])
      PROVE  /\ r[i].id = m.id
             /\ r[i].n = IF i > 1 /\ Matches(m, r[i - 1]) THEN r[i - 1].n + 1 ELSE n + 1
             /\ \A j \in DOMAIN r : j > i => \/ Matches(m, r[j]) /\ ~Ends(m, r[i])
                                             \/ r[j].kind = "eof"
  <2>1. i \in DOMAIN q /\ f.kind = "eof"
    BY <1>1, <1>3 DEF Traceless, Matches
  <2> QED BY <1>1, <1>3, <2>1 DEF Chained
<1> QED BY <1>3 DEF Chained, r

\* A frame of another trace adds nothing of this one.
LEMMA TracelessAppend ==
  ASSUME NEW t, NEW S, NEW q \in Seq(S), NEW f \in S, Traceless(t, q), f.trace # t
  PROVE  Traceless(t, Append(q, f))
BY AppendOf DEF Traceless

\* Taking a frame adds nothing of any trace.
LEMMA TracelessTail ==
  ASSUME NEW t, NEW S, NEW q \in Seq(S), q # <<>>, Traceless(t, q)
  PROVE  Traceless(t, Tail(q))
BY TailOf DEF Traceless

\* If no frame of m has a number yet, none is in the queue.
LEMMA NoneOwn ==
  ASSUME NEW m \in Command, NEW q \in Seq(Frame), NEW n \in Nat, Chained(m, q, n),
         LastN(m, q, n) = 0, \A i \in DOMAIN q : q[i].kind # "eof"
  PROVE  Traceless(m.trace, q)
<1> SUFFICES ASSUME NEW i \in DOMAIN q, Matches(m, q[i]) PROVE FALSE
  BY DEF Traceless, Matches
<1> DEFINE z == Len(q)
<1>1. z \in DOMAIN q /\ q # <<>> /\ i \in 1..z /\ DOMAIN q = 1..z /\ z \in Nat
  OBVIOUS
<1>2. Matches(m, q[z])
  BY <1>1 DEF Chained
<1>3. q[z].n = 0
  BY <1>1, <1>2 DEF LastN
<1>4. ASSUME NEW j \in DOMAIN q PROVE q[j].n \in Nat
  <2>1. q[j] \in Frame
    BY <1>1
  <2>2. q[j].n \in 0..MaxDeltas + 1
    BY <2>1 DEF Frame
  <2> QED BY <2>2, ConstantsAssumption
<1>5. z > 1 => q[z - 1].n \in Nat
  BY <1>1, <1>4
<1>6. q[z].n = IF z > 1 /\ Matches(m, q[z - 1]) THEN q[z - 1].n + 1 ELSE n + 1
  BY <1>1, <1>2 DEF Chained
<1> QED BY <1>3, <1>5, <1>6

\* A piece of the answer to m leaves the rest of it to be printed.
LEMMA RemainOwn ==
  ASSUME NEW m \in Command, NEW q \in Seq(Frame), NEW s \in Seq(Command), NEW n \in Nat,
         NEW k \in Nat, Remaining(m, q, s, k, n), Len(s) = 1,
         NEW f \in Frame, Matches(m, f), ~Ends(m, f), f.n = k + 1
  PROVE  Remaining(m, Append(q, f), s, k + 1, n)
<1> DEFINE r == Append(q, f)
<1>1. /\ r \in Seq(Frame) /\ Len(r) = Len(q) + 1 /\ Len(q) \in Nat
      /\ DOMAIN r = 1..Len(q) + 1 /\ DOMAIN q = 1..Len(q)
      /\ \A i \in 1..Len(q) : r[i] = q[i]
      /\ r[Len(q) + 1] = f /\ r # <<>>
  BY AppendOf
<1> HIDE DEF r
<1>2. LastN(m, r, n) = k + 1
  BY <1>1 DEF LastN
<1> QED BY <1>1, <1>2 DEF Remaining, r

\* A line for an earlier command leaves all of m to be done.
LEMMA RemainOther ==
  ASSUME NEW m \in Command, NEW q \in Seq(Frame), NEW s \in Seq(Command), NEW n \in Nat,
         NEW k \in Nat, Remaining(m, q, s, k, n), Len(s) > 1,
         NEW f \in Frame, ~Matches(m, f)
  PROVE  /\ Remaining(m, Append(q, f), s, k + 1, n)
         /\ Remaining(m, Append(q, f), Tail(s), 0, n)
<1> DEFINE r == Append(q, f)
<1>1. /\ r \in Seq(Frame) /\ Len(r) = Len(q) + 1 /\ Len(q) \in Nat
      /\ DOMAIN r = 1..Len(q) + 1 /\ DOMAIN q = 1..Len(q)
      /\ \A i \in 1..Len(q) : r[i] = q[i]
      /\ r[Len(q) + 1] = f /\ r # <<>>
  BY AppendOf
<1> HIDE DEF r
<1>2. n = 0 /\ \A i \in DOMAIN r : ~Matches(m, r[i])
  BY <1>1 DEF Remaining, Traceless, Matches
<1>3. LastN(m, r, n) = 0
  BY <1>1, <1>2 DEF LastN
<1>4. s # <<>> /\ \A i \in DOMAIN Tail(s) : i < Len(Tail(s)) => Tail(s)[i].trace # m.trace
  BY TailOf DEF Remaining
<1> QED BY <1>1, <1>2, <1>3, <1>4, TailOf DEF Remaining, Traceless, Matches, r

\* A worker without work has nothing left to do for m.
LEMMA RemainDone ==
  ASSUME NEW m, NEW q, NEW k, NEW n
  PROVE  Remaining(m, q, <<>>, k, n)
BY DEF Remaining

\* Taking a foreign frame leaves the same work to do.
LEMMA RemainDiscard ==
  ASSUME NEW m \in Command, NEW q \in Seq(Frame), q # <<>>, NEW s, NEW k, NEW n \in Nat,
         Remaining(m, q, s, k, n), ~Matches(m, Head(q))
  PROVE  Remaining(m, Tail(q), s, k, n)
<1> DEFINE r == Tail(q)
<1>1. /\ r \in Seq(Frame) /\ Len(r) = Len(q) - 1 /\ Len(q) \in Nat \ {0}
      /\ \A i \in DOMAIN r : r[i] = q[i + 1] /\ i + 1 \in DOMAIN q
      /\ Head(q) = q[1] /\ DOMAIN r = 1..Len(q) - 1
  BY TailOf
<1> HIDE DEF r
<1>2. r = <<>> <=> Len(r) = 0
  BY <1>1, EmptyOf
<1>3. Len(q) # 1 => r[Len(r)] = q[Len(q)]
  BY <1>1
<1>4. LastN(m, r, n) = LastN(m, q, n)
  BY <1>1, <1>2, <1>3 DEF LastN
<1>5. Traceless(m.trace, q) => Traceless(m.trace, r)
  BY <1>1 DEF Traceless
<1> QED BY <1>1, <1>4, <1>5 DEF Remaining, r

\* Taking an own frame that does not end the call leaves the same work to do.
LEMMA RemainTake ==
  ASSUME NEW m \in Command, NEW q \in Seq(Frame), q # <<>>, NEW s \in Seq(Command), NEW k,
         NEW n \in Nat, Chained(m, q, n), s # <<>> => \A i \in DOMAIN q : q[i].kind # "eof",
         Remaining(m, q, s, k, n), Matches(m, Head(q)), Head(q).n = n + 1
  PROVE  /\ Remaining(m, Tail(q), s, k, n + 1)
         /\ Ends(m, Head(q)) => s = <<>>
<1> DEFINE r == Tail(q)
<1>1. /\ r \in Seq(Frame) /\ Len(r) = Len(q) - 1 /\ Len(q) \in Nat \ {0}
      /\ \A i \in DOMAIN r : r[i] = q[i + 1] /\ i + 1 \in DOMAIN q
      /\ Head(q) = q[1] /\ DOMAIN r = 1..Len(q) - 1 /\ 1 \in DOMAIN q
  BY TailOf
<1> HIDE DEF r
<1>2. r = <<>> <=> Len(r) = 0
  BY <1>1, EmptyOf
<1>3. Len(q) # 1 => r[Len(r)] = q[Len(q)]
  BY <1>1
<1>4. ASSUME Len(s) = 1 PROVE LastN(m, r, n + 1) = LastN(m, q, n)
  <2>1. CASE Len(q) = 1
    BY <1>1, <1>2, <2>1 DEF LastN
  <2>2. CASE Len(q) # 1
    <3>1. r # <<>> /\ r[Len(r)] = q[Len(q)]
      BY <1>1, <1>2, <1>3, <2>2
    <3>2. s # <<>>
      BY <1>4, OneOf, Zenon
    <3>3. Matches(m, q[Len(q)])
      BY <1>1, <2>2, <3>2 DEF Chained
    <3> QED BY <3>1, <3>3 DEF LastN
  <2> QED BY <2>1, <2>2
<1>5. ~Traceless(m.trace, q)
  BY <1>1 DEF Traceless, Matches
<1> QED BY <1>1, <1>4, <1>5 DEF Remaining, r

\* A worker at work.
LEMMA AtWork ==
  ASSUME IInv, FInv, NEW p \in Procs, Busy(p)
  PROVE  /\ p = process /\ p = spawned /\ stdin[p] \in Seq(Command) /\ stdin[p] # <<>>
         /\ Current(p) = stdin[p][1] /\ Current(p) \in Command /\ queue[p] \in Seq(Frame)
         /\ sent[p] \in Nat
         /\ \A i \in DOMAIN queue[p] : queue[p][i].kind # "eof"
<1>1. p = process
  BY DEF Busy, IInv, LiveWorkerIsCurrent, Alive, Procs
<1>2. p = spawned
  BY <1>1 DEF IInv, HandleIsLastSpawned, Procs
<1>3. /\ stdin[p] \in Seq(Command) /\ stdin[p] # <<>> /\ Current(p) \in Command
      /\ queue[p] \in Seq(Frame) /\ sent[p] \in Nat
  BY CurrentTyped, ConstantsAssumption DEF IInv, TypeOK, Busy
<1>4. Current(p) = stdin[p][1]
  BY <1>3 DEF Current
<1>5. \A i \in DOMAIN queue[p] : queue[p][i].kind # "eof"
  BY DEF FInv, EndMarker, Busy
<1> QED BY <1>1, <1>2, <1>3, <1>4, <1>5

\* A worker at work prints the next line of its command, and goes on with it or not.
Prints(p, f) ==
  /\ Busy(p) /\ Emit(p, f)
  /\ \/ f.trace = Current(p).trace /\ f.id = Current(p).id /\ f.n = sent[p] + 1
     \/ f.trace = ValidationTrace /\ sent[p] = 0
  /\ f.kind # "eof"
  /\ \/ stdin' = [stdin EXCEPT ![p] = Tail(@)] /\ sent' = [sent EXCEPT ![p] = 0]
     \/ stdin' = [stdin EXCEPT ![p] = <<>>] /\ sent' = [sent EXCEPT ![p] = 0]
     \/ /\ stdin' = stdin /\ sent' = [sent EXCEPT ![p] = @ + 1]
        /\ f.trace = Current(p).trace /\ ~Ends(Current(p), f)
        /\ Current(p).cmd = "stream"
  /\ \/ status' = status
     \/ status' = [status EXCEPT ![p] = "exiting"] /\ stdin' = [stdin EXCEPT ![p] = <<>>]
  /\ UNCHANGED <<client, eof, calls, history>>

\* Each line a worker prints keeps the frames in order.
LEMMA PrintsKeeps ==
  ASSUME IInv, FInv, NEW p \in Procs, NEW f \in Frame, Prints(p, f)
  PROVE  FInv'
<1>0. /\ p = process /\ p = spawned /\ stdin[p] \in Seq(Command) /\ stdin[p] # <<>>
      /\ Current(p) = stdin[p][1] /\ Current(p) \in Command /\ queue[p] \in Seq(Frame)
      /\ sent[p] \in Nat
      /\ \A i \in DOMAIN queue[p] : queue[p][i].kind # "eof"
  BY AtWork DEF Prints
<1>1. /\ queue' = [queue EXCEPT ![p] = Append(queue[p], f)]
      /\ queue'[p] = Append(queue[p], f) /\ \A q \in Procs : q # p => queue'[q] = queue[q]
  BY DEF Prints, Emit, IInv, TypeOK
<1>2. /\ stdin'[p] \in {stdin[p], Tail(stdin[p]), <<>>}
      /\ \A q \in Procs : q # p => stdin'[q] = stdin[q] /\ sent'[q] = sent[q]
      /\ (stdin'[p] = stdin[p] /\ sent'[p] = sent[p] + 1) \/ sent'[p] = 0
  BY DEF Prints, IInv, TypeOK
<1>3. IdleWorker'
  <2>1. ASSUME NEW q \in Procs, q # p
        PROVE /\ status'[q] # "running" => stdin'[q] = <<>>
              /\ stdin'[q] = <<>> => sent'[q] = 0
              /\ sent'[q] # 0 => Head(stdin'[q]).cmd = "stream"
    BY <1>2, <2>1 DEF FInv, IdleWorker, Prints, IInv, TypeOK
  <2>2. /\ status'[p] # "running" => stdin'[p] = <<>>
        /\ stdin'[p] = <<>> => sent'[p] = 0
        /\ sent'[p] # 0 => Head(stdin'[p]).cmd = "stream"
    BY <1>0, <1>2 DEF FInv, IdleWorker, Prints, IInv, TypeOK, Current, Busy
  <2> QED BY <2>1, <2>2 DEF IdleWorker
<1>4. EndMarker'
  <2>1. \A i \in DOMAIN queue'[p] : queue'[p][i].kind # "eof"
    BY <1>0, <1>1, AppendOf DEF Prints
  <2>2. \A q \in Procs : q # p => status'[q] = status[q] /\ eof' = eof
    BY DEF Prints, IInv, TypeOK
  <2> QED BY <1>1, <2>1, <2>2 DEF FInv, EndMarker
<1>5. CallsTraced' /\ OwnFramesInOrder'
  BY DEF Prints, FInv, CallsTraced, OwnFramesInOrder, client, history
<1>6. LastWritten'
  <2>1. stdin'[p] # <<>> => stdin'[p][Len(stdin'[p])] = stdin[p][Len(stdin[p])]
    <3>1. Tail(stdin[p]) # <<>> => Tail(stdin[p])[Len(Tail(stdin[p]))] = stdin[p][Len(stdin[p])]
      BY <1>0, TailOf
    <3> QED BY <1>2, <3>1
  <2> QED BY <1>0, <1>2, <2>1 DEF Prints, FInv, LastWritten, client, Wire
<1>7. Clean'
  <2> SUFFICES ASSUME NEW t \in Traces, <<p, t>> \notin abandoned,
                      \A c \in Callers : Expects(c) => call[c].trace # t
               PROVE  Traceless(t, stdin'[p]) /\ Traceless(t, queue'[p])
    BY <1>0 DEF Clean, Prints, client, history, Expects
  <2>1. Traceless(t, stdin[p]) /\ Traceless(t, queue[p])
    BY <1>0 DEF FInv, Clean
  <2>2. f.trace # t
    BY <1>0, <2>1, ConstantsAssumption DEF Prints, Traceless
  <2>3. Traceless(t, queue'[p])
    BY <1>0, <1>1, <2>1, <2>2, TracelessAppend
  <2>4. Traceless(t, Tail(stdin[p])) /\ Traceless(t, <<>>)
    BY <1>0, <2>1, TracelessTail DEF Traceless
  <2> QED BY <1>2, <2>1, <2>3, <2>4
<1>8. OwnChain'
  <2> SUFFICES ASSUME NEW c \in Callers, Expects(c), <<p, call[c].trace>> \notin abandoned
               PROVE  /\ Chained(call[c], queue'[p], Len(got[c]))
                      /\ Remaining(call[c], queue'[p], stdin'[p], sent'[p], Len(got[c]))
    BY <1>0 DEF OwnChain, Prints, client, history, Expects
  <2> DEFINE m == call[c] n == Len(got[c]) q == queue[p] s == stdin[p]
  <2>1. Chained(m, q, n) /\ Remaining(m, q, s, sent[p], n)
    BY <1>0 DEF FInv, OwnChain
  <2>2. m \in Command /\ n \in Nat /\ s[Len(s)] = m /\ m.trace \in Traces
    BY <1>0 DEF IInv, TypeOK, FInv, LastWritten, Wire, Expects, CallsTraced
  <2>3. CASE Len(s) = 1
    <3>1. Current(p) = m
      BY <1>0, <2>2, <2>3
    <3>2. sent[p] = LastN(m, q, n)
      BY <2>1, <2>3 DEF Remaining
    <3>3. \A i \in DOMAIN q : q[i].kind # "eof" /\ (Matches(m, q[i]) => ~Ends(m, q[i]))
      BY <1>0, <2>1 DEF Remaining
    <3>4. Tail(s) = <<>>
      <4>1. Tail(s) \in Seq(Command) /\ Len(Tail(s)) = 0
        BY <1>0, <2>3, TailOf
      <4> QED BY <4>1, EmptyOf
    <3>5. CASE Matches(m, f)
      <4>1. f.id = m.id /\ f.n = LastN(m, q, n) + 1
        BY <2>2, <3>1, <3>2, <3>5, ConstantsAssumption DEF Prints, Matches
      <4>2. Chained(m, queue'[p], n)
        BY <1>0, <1>1, <2>1, <2>2, <3>3, <3>5, <4>1, ChainOwn
      <4>3. CASE stdin'[p] = <<>>
        BY <4>2, <4>3, RemainDone
      <4>4. CASE stdin'[p] # <<>>
        <5>1. ~Ends(m, f) /\ stdin'[p] = s /\ sent'[p] = sent[p] + 1
          BY <1>0, <3>1, <3>4, <4>4 DEF Prints, IInv, TypeOK
        <5>2. Remaining(m, queue'[p], s, sent[p] + 1, n)
          BY <1>0, <1>1, <2>1, <2>2, <2>3, <3>2, <3>5, <4>1, <5>1, RemainOwn
        <5> QED BY <4>2, <5>1, <5>2
      <4> QED BY <4>3, <4>4
    <3>6. CASE ~Matches(m, f)
      <4>1. sent[p] = 0 /\ stdin'[p] = <<>>
        <5>1. f.trace # Current(p).trace
          BY <3>1, <3>6 DEF Matches
        <5>2. sent[p] = 0 /\ (stdin' = stdin => f.trace = Current(p).trace)
          BY <5>1, <1>0 DEF Prints, IInv, TypeOK
        <5>3. stdin'[p] \in {Tail(stdin[p]), <<>>}
          BY <1>0, <5>1 DEF Prints, IInv, TypeOK
        <5> QED BY <3>4, <5>2, <5>3
      <4>2. Traceless(m.trace, q)
        BY <1>0, <2>1, <2>2, <3>2, <4>1, NoneOwn
      <4>3. Chained(m, queue'[p], n)
        BY <1>0, <1>1, <2>1, <2>2, <3>6, <4>2, ChainOther
      <4> QED BY <4>1, <4>3, RemainDone
    <3> QED BY <3>5, <3>6
  <2>4. CASE Len(s) > 1
    <3>1. ~Matches(m, f)
      BY <1>0, <2>1, <2>2, <2>4, ConstantsAssumption DEF Prints, Matches, Remaining
    <3>2. Chained(m, queue'[p], n)
      BY <1>0, <1>1, <2>1, <2>2, <2>4, <3>1, ChainOther DEF Remaining
    <3>3. /\ Remaining(m, queue'[p], s, sent[p] + 1, n)
          /\ Remaining(m, queue'[p], Tail(s), 0, n)
      BY <1>0, <1>1, <2>1, <2>2, <2>4, <3>1, RemainOther
    <3>4. Remaining(m, queue'[p], <<>>, 0, n)
      BY RemainDone
    <3>5. \/ stdin'[p] = s /\ sent'[p] = sent[p] + 1
          \/ stdin'[p] \in {Tail(s), <<>>} /\ sent'[p] = 0
      BY <1>0 DEF Prints, IInv, TypeOK
    <3> QED BY <3>2, <3>3, <3>4, <3>5
  <2>5. Len(s) \in Nat /\ Len(s) # 0
    BY <1>0, EmptyOf
  <2>6. Len(s) = 1 \/ Len(s) > 1
    BY <2>5, \A k \in Nat : k # 0 => k = 1 \/ k > 1
  <2> QED BY <2>3, <2>4, <2>6
<1> QED BY <1>3, <1>4, <1>5, <1>6, <1>7, <1>8 DEF FInv

\* A step of the worker or of its reader thread keeps the frames in order.
LEMMA WorkerFrames ==
  ASSUME IInv, FInv, NEW p \in Procs, WorkerStep(p)
  PROVE  FInv'
<1>0. 0 \in 0..MaxDeltas /\ 1 \in 0..MaxDeltas + 1 /\ sent[p] + 1 \in 0..MaxDeltas + 1
      /\ 0 \in 0..MaxCalls /\ 0 \in 0..MaxDeltas + 1
  BY ConstantsAssumption DEF IInv, TypeOK
<1>1. CASE WorkerReply(p)
  <2>1. PICK ok \in BOOLEAN : Emit(p, Reply(p, Current(p), 1, "result", ok))
    BY <1>1 DEF WorkerReply
  <2> DEFINE f == Reply(p, Current(p), 1, "result", ok)
  <2>2. f \in Frame
    BY <1>0, <1>1, CurrentTyped DEF IInv, WorkerReply, Reply, Frame, Command, Kinds
  <2>3. sent[p] = 0 /\ Busy(p)
    BY <1>1, CurrentTyped DEF WorkerReply, FInv, IdleWorker, Current
  <2>4. f.trace = Current(p).trace /\ f.id = Current(p).id /\ f.n = sent[p] + 1
        /\ f.kind # "eof"
    BY <2>3 DEF Reply
  <2>5. Prints(p, f)
    BY <1>1, <2>1, <2>3, <2>4 DEF WorkerReply, Prints, NextLine
  <2> QED BY <2>2, <2>5, PrintsKeeps
<1>2. CASE WorkerDelta(p)
  <2> DEFINE f == Reply(p, Current(p), sent[p] + 1, "delta", TRUE)
  <2>1. f \in Frame
    BY <1>0, <1>2, CurrentTyped DEF IInv, WorkerDelta, Reply, Frame, Command, Kinds
  <2>2. f.trace = Current(p).trace /\ f.id = Current(p).id /\ f.n = sent[p] + 1
        /\ f.kind = "delta" /\ Emit(p, f)
    BY <1>2 DEF Reply, WorkerDelta
  <2> HIDE DEF f
  <2>3. /\ Busy(p) /\ sent' = [sent EXCEPT ![p] = @ + 1] /\ stdin' = stdin
        /\ status' = status /\ UNCHANGED <<client, eof, calls, history>>
        /\ Current(p).cmd = "stream"
    BY <1>2 DEF WorkerDelta
  <2>4. ~Ends(Current(p), f)
    BY <2>2, <2>3 DEF Ends
  <2>5. Prints(p, f)
    BY <2>2, <2>3, <2>4 DEF Prints
  <2> QED BY <2>1, <2>5, PrintsKeeps
<1>3. CASE WorkerFinish(p)
  <2>1. PICK kind \in {"final", "error"} :
          Emit(p, Reply(p, Current(p), sent[p] + 1, kind, TRUE))
    BY <1>3 DEF WorkerFinish
  <2> DEFINE f == Reply(p, Current(p), sent[p] + 1, kind, TRUE)
  <2>2. f \in Frame
    BY <1>0, <1>3, CurrentTyped DEF IInv, WorkerFinish, Reply, Frame, Command, Kinds
  <2>3. f.trace = Current(p).trace /\ f.id = Current(p).id /\ f.n = sent[p] + 1
        /\ f.kind # "eof" /\ Emit(p, f)
    BY <2>1 DEF Reply
  <2> HIDE DEF f
  <2>4. /\ Busy(p) /\ sent' = [sent EXCEPT ![p] = 0] /\ stdin' = [stdin EXCEPT ![p] = Tail(@)]
        /\ status' = status /\ UNCHANGED <<client, eof, calls, history>>
    BY <1>3 DEF WorkerFinish, NextLine
  <2>5. Prints(p, f)
    BY <2>3, <2>4 DEF Prints
  <2> QED BY <2>2, <2>5, PrintsKeeps
<1>4. CASE WorkerRejects(p)
  <2> DEFINE f == [Reply(p, Current(p), 1, "error", FALSE) EXCEPT !.trace = ValidationTrace]
  <2>1. f \in Frame
    BY <1>0, <1>4, CurrentTyped
    DEF IInv, WorkerRejects, Reply, Frame, Command, Kinds, AllTraces
  <2>2. f.trace = ValidationTrace /\ f.kind # "eof"
    BY DEF Reply
  <2>3. Prints(p, f)
    BY <1>4, <2>2 DEF WorkerRejects, Prints, NextLine
  <2> QED BY <2>1, <2>3, PrintsKeeps
<1>5. CASE Crash(p)
  <2>1. /\ stdin'[p] = <<>> /\ sent'[p] = 0 /\ status'[p] = "exiting" /\ status[p] = "running"
        /\ \A q \in Procs : q # p => /\ stdin'[q] = stdin[q] /\ sent'[q] = sent[q]
                                     /\ status'[q] = status[q]
        /\ UNCHANGED <<client, queue, eof, history>>
    BY <1>5 DEF Crash, IInv, TypeOK
  <2>2. IdleWorker' /\ EndMarker' /\ CallsTraced' /\ LastWritten' /\ OwnFramesInOrder'
    BY <2>1 DEF FInv, IdleWorker, EndMarker, CallsTraced, LastWritten, OwnFramesInOrder,
                client, history, Wire
  <2>3. Clean'
    BY <2>1 DEF FInv, Clean, Traceless, Expects, client, history
  <2>4. OwnChain'
    BY <2>1, RemainDone DEF FInv, OwnChain, Expects, client, history
  <2> QED BY <2>2, <2>3, <2>4 DEF FInv
<1>6. CASE Exit(p)
  <2>1. status[p] = "exiting" /\ status'[p] = "dead"
        /\ \A q \in Procs : q # p => status'[q] = status[q]
    BY <1>6 DEF Exit, IInv, TypeOK
  <2> QED
    BY <1>6, <2>1 DEF Exit, FInv, IdleWorker, EndMarker, CallsTraced, LastWritten,
                  OwnFramesInOrder, Clean, OwnChain, Expects, client, history, Wire
<1>7. CASE ReaderEof(p)
  <2> DEFINE f == EofFrame(p)
  <2>1. f \in Frame /\ f.kind = "eof" /\ f.trace = ValidationTrace
    BY <1>0 DEF EofFrame, Frame, Kinds, AllTraces
  <2>2. /\ queue'[p] = Append(queue[p], f) /\ queue[p] \in Seq(Frame)
        /\ \A q \in Procs : q # p => queue'[q] = queue[q] /\ eof'[q] = eof[q]
        /\ eof'[p] /\ ~eof[p]
        /\ stdin[p] = <<>> /\ status[p] \in {"exiting", "dead"} /\ sent[p] = 0
    BY <1>7 DEF ReaderEof, Emit, IInv, TypeOK, FInv, IdleWorker
  <2>3. \A i \in DOMAIN queue[p] : queue[p][i].kind # "eof"
    BY <2>2 DEF FInv, EndMarker
  <2>4. EndMarker'
    <3>1. \A i \in DOMAIN queue'[p] : queue'[p][i].kind = "eof" =>
            i = Len(queue'[p]) /\ queue'[p][i].trace = ValidationTrace
      BY <2>1, <2>2, <2>3, AppendOf
    <3> QED BY <1>7, <2>2, <3>1 DEF ReaderEof, FInv, EndMarker
  <2>5. IdleWorker' /\ CallsTraced' /\ LastWritten' /\ OwnFramesInOrder'
    BY <1>7 DEF ReaderEof, FInv, IdleWorker, CallsTraced, LastWritten, OwnFramesInOrder,
                client, history, Wire
  <2>6. Clean'
    <3>1. \A t \in Traces : Traceless(t, queue[p]) => Traceless(t, queue'[p])
      BY <2>1, <2>2, TracelessAppend, ConstantsAssumption
    <3> QED BY <1>7, <3>1 DEF ReaderEof, FInv, Clean, Expects, client, history
  <2>7. OwnChain'
    <3> SUFFICES ASSUME NEW c \in Callers, Expects(c), p = process,
                        <<p, call[c].trace>> \notin abandoned
                 PROVE  /\ Chained(call[c], queue'[p], Len(got[c]))
                        /\ Remaining(call[c], queue'[p], <<>>, sent[p], Len(got[c]))
      BY <1>7, <2>2 DEF ReaderEof, FInv, OwnChain, Expects, client, history
    <3>1. Chained(call[c], queue[p], Len(got[c]))
      BY DEF FInv, OwnChain
    <3>2. call[c] \in Command /\ Len(got[c]) \in Nat /\ call[c].trace \in Traces
      BY DEF IInv, TypeOK, FInv, CallsTraced, Expects
    <3>3. ~Matches(call[c], f)
      BY <2>1, <3>2, ConstantsAssumption DEF Matches
    <3> QED BY <2>1, <2>2, <3>1, <3>2, <3>3, ChainOther, RemainDone
  <2> QED BY <2>4, <2>5, <2>6, <2>7 DEF FInv
<1> QED
  BY <1>1, <1>2, <1>3, <1>4, <1>5, <1>6, <1>7 DEF WorkerStep

\* While a caller is inside the lock no other caller waits for an answer.
LEMMA NoOtherInside ==
  ASSUME IInv, NEW c \in Callers, Inside(c), NEW d \in Callers, d # c
  PROVE  pc[d] # "await" /\ ~Expects(d) /\ pc[d] \in {"idle", "want"}
BY DEF IInv, TypeOK, LockHeld, Inside, Expects

\* What taking the first frame does to the queue of the process on the wire.
LEMMA TakeFacts ==
  ASSUME IInv, NEW c \in Callers, pc[c] = "await", Inbox # <<>>, TakeFrame
  PROVE  /\ process = spawned /\ spawned \in Procs
         /\ Inbox = queue[spawned] /\ Inbox \in Seq(Frame) /\ Front = Head(Inbox)
         /\ queue'[spawned] = Tail(Inbox)
         /\ \A p \in Procs : p # spawned => queue'[p] = queue[p]
BY FrontIsCurrent DEF IInv, TypeOK, Inbox, TakeFrame, Front

\* Taking a frame keeps the end marker last, and takes no trace into a queue.
LEMMA TakeMarker ==
  ASSUME IInv, FInv, NEW c \in Callers, pc[c] = "await", Inbox # <<>>, TakeFrame,
         eof' = eof,
         \A p \in Procs : status'[p] = status[p] \/ status'[p] = "dead"
  PROVE  /\ EndMarker'
         /\ \A p \in Procs, t \in Traces : Traceless(t, queue[p]) => Traceless(t, queue'[p])
<1>1. /\ spawned \in Procs
      /\ Inbox = queue[spawned] /\ Inbox \in Seq(Frame)
      /\ queue'[spawned] = Tail(Inbox)
      /\ \A p \in Procs : p # spawned => queue'[p] = queue[p]
  BY TakeFacts
<1>2. \A p \in Procs : \A i \in DOMAIN queue[p] : queue[p][i].kind = "eof" =>
        /\ i = Len(queue[p]) /\ eof[p] /\ status'[p] \in {"exiting", "dead"}
        /\ queue[p][i].trace = ValidationTrace
  BY DEF FInv, EndMarker
<1>3. ASSUME NEW i \in DOMAIN queue'[spawned], queue'[spawned][i].kind = "eof"
      PROVE  /\ i = Len(queue'[spawned]) /\ eof[spawned]
             /\ status'[spawned] \in {"exiting", "dead"}
             /\ queue'[spawned][i].trace = ValidationTrace
  <2>1. queue'[spawned][i] = Inbox[i + 1] /\ i + 1 \in DOMAIN Inbox /\ i \in Nat
        /\ Len(Tail(Inbox)) = Len(Inbox) - 1 /\ Len(Inbox) \in Nat
    BY <1>1, <1>3, TailOf
  <2> QED BY <1>1, <1>2, <1>3, <2>1
<1>4. EndMarker'
  <2>1. ASSUME NEW p \in Procs, NEW i \in DOMAIN queue'[p], queue'[p][i].kind = "eof"
        PROVE  /\ i = Len(queue'[p]) /\ eof'[p] /\ status'[p] \in {"exiting", "dead"}
               /\ queue'[p][i].trace = ValidationTrace
    <3>1. CASE p = spawned
      BY <1>3, <2>1, <3>1
    <3>2. CASE p # spawned
      BY <1>1, <1>2, <2>1, <3>2
    <3> QED BY <3>1, <3>2
  <2> QED BY <2>1 DEF EndMarker
<1>5. \A p \in Procs, t \in Traces : Traceless(t, queue[p]) => Traceless(t, queue'[p])
  BY <1>1, TracelessTail
<1> QED BY <1>4, <1>5

\* What becomes of the worker when a caller leaves: nothing, or it is killed.
Spares == UNCHANGED <<status, stdin, sent>>
SparesOrKills == Spares \/ (process # 0 /\ Kill(process))

\* Leaving the lock keeps all but the last part of the invariant, when nothing of
\* the caller's trace is left behind under a trace that is not abandoned.
LEMMA LeaveKeeps ==
  ASSUME IInv, FInv, NEW c \in Callers, Inside(c), NEW how, Release(c, how),
         SparesOrKills, eof' = eof, abandoned \subseteq abandoned',
         queue' = queue \/ (pc[c] = "await" /\ Inbox # <<>> /\ TakeFrame),
         Expects(c) /\ <<spawned, call[c].trace>> \notin abandoned' /\ spawned # 0 =>
           /\ Traceless(call[c].trace, stdin'[spawned])
           /\ Traceless(call[c].trace, queue'[spawned])
  PROVE  /\ IdleWorker' /\ EndMarker' /\ CallsTraced' /\ LastWritten' /\ Clean'
         /\ OwnChain'
<1>1. \A d \in Callers : pc'[d] # "await" /\ ~Expects(d)'
  BY NoOtherInside DEF Release, IInv, TypeOK, Expects
<1>2. spawned' = spawned /\ call' = call
  BY DEF Release
<1>3. LastWritten' /\ OwnChain'
  BY <1>1 DEF LastWritten, OwnChain
<1>4. CallsTraced'
  BY <1>2 DEF Release, FInv, CallsTraced, IInv, TypeOK
<1>5. \A p \in Procs : \/ stdin'[p] = stdin[p] /\ sent'[p] = sent[p] /\ status'[p] = status[p]
                       \/ stdin'[p] = <<>> /\ sent'[p] = 0 /\ status'[p] = "dead"
  <2>1. CASE Spares
    BY <2>1 DEF Spares
  <2>2. CASE process # 0 /\ Kill(process)
    BY <2>2 DEF Kill, IInv, TypeOK
  <2> QED BY <2>1, <2>2 DEF SparesOrKills
<1>6. IdleWorker'
  BY <1>5 DEF FInv, IdleWorker
<1>7. EndMarker'
      /\ \A p \in Procs, t \in Traces : Traceless(t, queue[p]) => Traceless(t, queue'[p])
  <2>1. CASE queue' = queue
    BY <1>5, <2>1 DEF FInv, EndMarker
  <2>2. CASE pc[c] = "await" /\ Inbox # <<>> /\ TakeFrame
    BY <1>5, <2>2, TakeMarker
  <2> QED BY <2>1, <2>2
<1>8. Clean'
  <2> SUFFICES ASSUME NEW p \in Procs, NEW t \in Traces, p = spawned,
                      <<p, t>> \notin abandoned'
               PROVE  Traceless(t, stdin'[p]) /\ Traceless(t, queue'[p])
    BY <1>2 DEF Clean
  <2>1. spawned # 0
    BY DEF Procs
  <2>2. CASE Expects(c) /\ call[c].trace = t
    BY <2>1, <2>2
  <2>3. CASE ~(Expects(c) /\ call[c].trace = t)
    <3>1. \A d \in Callers : Expects(d) => call[d].trace # t
      BY <2>3, NoOtherInside
    <3>2. Traceless(t, stdin[p]) /\ Traceless(t, queue[p])
      BY <3>1 DEF FInv, Clean
    <3>3. Traceless(t, <<>>)
      BY DEF Traceless
    <3> QED BY <1>5, <1>7, <3>2, <3>3
  <2> QED BY <2>2, <2>3
<1> QED BY <1>3, <1>4, <1>6, <1>7, <1>8

\* Raising releases the lock, and spares the worker or kills it.
LEMMA RaiseLeaves ==
  ASSUME NEW c \in Callers, process # 0, Raise(c)
  PROVE  SparesOrKills /\ \E how : Release(c, how)
BY DEF Raise, SparesOrKills, Spares

\* A command put on the wire finds no answer to an earlier one of its trace.
LEMMA SendFrames ==
  ASSUME IInv, FInv, NEW c \in Callers, Send(c)
  PROVE  FInv'
<1> DEFINE s == stdin[process]
<1>1. /\ process = spawned /\ process \in Procs /\ Inside(c)
  BY DEF Send, Step, IInv, TypeOK, HandleOnWire, HandleIsLastSpawned, Procs, Inside
<1>2. /\ s \in Seq(Command) /\ Wire(c) \in Command /\ pc'[c] = "await" /\ pc[c] = "send"
      /\ \A d \in Callers : d # c => pc'[d] = pc[d]
      /\ stdin'[process] = Append(s, Wire(c))
      /\ \A p \in Procs : p # process => stdin'[p] = stdin[p]
      /\ status[process] = "running" /\ call[c] \in Command
      /\ UNCHANGED <<status, sent, eof, queue, got, abandoned, phase, call, process, spawned>>
  BY <1>1, WireTyped DEF Send, Step, IInv, TypeOK
<1>3. \A d \in Callers : ~Expects(d) /\ (d # c => ~Expects(d)')
  BY <1>1, <1>2, NoOtherInside DEF Expects
<1>4. IdleWorker'
  <2>1. sent[process] # 0 => Head(stdin'[process]).cmd = "stream"
    BY <1>1, <1>2 DEF FInv, IdleWorker
  <2>2. stdin'[process] # <<>>
    BY <1>2, AppendOf
  <2> QED BY <1>1, <1>2, <2>1, <2>2 DEF FInv, IdleWorker
<1>5. EndMarker' /\ CallsTraced'
  BY <1>2 DEF FInv, EndMarker, CallsTraced
<1>6. LastWritten'
  <2>1. stdin'[process][Len(stdin'[process])] = Wire(c)
    BY <1>2, AppendOf
  <2> QED BY <1>1, <1>2, <2>1, NoOtherInside DEF LastWritten, Wire
<1>7. got[c] = <<>> /\ OwnFramesInOrder'
  <2>1. got[c] = <<>>
    BY <1>2 DEF IInv, NothingReceivedYet
  <2>2. \A d \in Callers : d # c => via'[d] = via[d]
    BY DEF Send, IInv, TypeOK
  <2>3. \A i \in DOMAIN got[c] : FALSE
    BY <2>1
  <2> QED BY <1>2, <2>1, <2>2, <2>3 DEF FInv, OwnFramesInOrder
<1>8. ASSUME NEW t \in Traces, <<process, t>> \notin abandoned
      PROVE  /\ Traceless(t, s) /\ Traceless(t, queue[process])
  BY <1>1, <1>3, <1>8 DEF FInv, Clean
<1>9. Expects(c)' \/ Wire(c).trace \notin Traces
  BY <1>2, ConstantsAssumption
  DEF FInv, CallsTraced, Expects, Wire, StartCommand, IInv, TypeOK
<1>10. Clean'
  <2> SUFFICES ASSUME NEW t \in Traces, <<process, t>> \notin abandoned,
                      Expects(c)' => call[c].trace # t
               PROVE  Traceless(t, stdin'[process]) /\ Traceless(t, queue[process])
    BY <1>1, <1>2 DEF Clean
  <2>1. Wire(c).trace # t
    BY <1>2, <1>9 DEF Expects, Wire
  <2> QED BY <1>2, <1>8, <2>1, TracelessAppend
<1>11. OwnChain'
  <2> SUFFICES ASSUME Expects(c)', <<process, call[c].trace>> \notin abandoned
               PROVE  /\ Chained(call[c], queue[process], Len(got[c]))
                      /\ Remaining(call[c], queue[process], stdin'[process], sent[process],
                                   Len(got[c]))
    BY <1>1, <1>2, <1>3 DEF OwnChain
  <2> DEFINE t == call[c].trace q == queue[process] r == Append(s, Wire(c))
  <2>1. t \in Traces /\ Wire(c) = call[c]
    BY <1>2 DEF FInv, CallsTraced, Expects, Wire
  <2>2. Traceless(t, s) /\ Traceless(t, q)
    BY <1>8, <2>1
  <2>3. /\ Len(r) = Len(s) + 1 /\ Len(s) \in Nat /\ \A i \in 1..Len(s) : r[i] = s[i]
        /\ DOMAIN r = 1..Len(s) + 1 /\ DOMAIN s = 1..Len(s)
    BY <1>2, AppendOf
  <2>4. Len(r) = 1 => sent[process] = 0
    BY <1>1, <1>2, <2>3, EmptyOf DEF FInv, IdleWorker
  <2>5. \A i \in DOMAIN q : ~Matches(call[c], q[i])
    BY <2>2 DEF Traceless, Matches
  <2>6. q \in Seq(Frame)
    BY <1>1 DEF IInv, TypeOK
  <2>7. LastN(call[c], q, 0) = 0
    BY <2>5, <2>6, EmptyOf DEF LastN
  <2>8. \A i \in DOMAIN r : i < Len(r) => r[i].trace # t
    BY <2>2, <2>3 DEF Traceless
  <2>9. Len(got[c]) = 0
    BY <1>7
  <2> HIDE DEF r
  <2> QED BY <1>2, <2>2, <2>4, <2>5, <2>7, <2>8, <2>9 DEF Chained, Remaining, r
<1> QED BY <1>4, <1>5, <1>6, <1>7, <1>10, <1>11 DEF FInv

\* Dropping a foreign frame, or the answer to the start or to a stop.
LEMMA TakeKeeps ==
  ASSUME IInv, FInv, NEW c \in Callers, pc[c] = "await", Inbox # <<>>, TakeFrame,
         UNCHANGED <<call, process, spawned, status, stdin, sent, eof, history>>,
         \/ pc' = pc /\ phase' = phase
         \/ ~Expects(c) /\ (\E to \in {"send", "reap"} : pc' = [pc EXCEPT ![c] = to])
            /\ (\A d \in Callers : d # c => phase'[d] = phase[d]),
         Expects(c) => ~Matches(call[c], Front)
  PROVE  FInv'
<1>1. /\ process = spawned /\ spawned \in Procs
      /\ Inbox = queue[spawned] /\ Inbox \in Seq(Frame) /\ Front = Head(Inbox)
      /\ queue'[spawned] = Tail(Inbox)
      /\ \A p \in Procs : p # spawned => queue'[p] = queue[p]
  BY TakeFacts
<1>2. \A d \in Callers : /\ Expects(d)' <=> Expects(d)
                         /\ pc'[d] = "await" => pc[d] = "await" /\ Wire(d)' = Wire(d)
                         /\ pc'[d] # "idle" => pc[d] # "idle"
  BY NoOtherInside DEF Expects, Wire, IInv, TypeOK, Inside
<1>3. EndMarker'
      /\ \A p \in Procs, t \in Traces : Traceless(t, queue[p]) => Traceless(t, queue'[p])
  BY TakeMarker
<1>4. IdleWorker' /\ OwnFramesInOrder'
  BY DEF FInv, IdleWorker, OwnFramesInOrder, history
<1>7. CallsTraced'
  BY <1>2 DEF FInv, CallsTraced
<1>8. LastWritten'
  BY <1>2 DEF FInv, LastWritten
<1>5. Clean'
  <2>1. abandoned' = abandoned
    BY DEF history
  <2>2. ASSUME NEW p \in Procs, NEW t \in Traces, p = spawned, <<p, t>> \notin abandoned,
               \A d \in Callers : Expects(d)' => call[d].trace # t
        PROVE  Traceless(t, stdin[p]) /\ Traceless(t, queue'[p])
    <3>1. \A d \in Callers : Expects(d) => call[d].trace # t
      BY <1>2, <2>2
    <3>2. Traceless(t, stdin[p]) /\ Traceless(t, queue[p])
      BY <2>2, <3>1 DEF FInv, Clean
    <3> QED BY <1>3, <3>2
  <2> QED BY <2>1, <2>2 DEF Clean
<1>6. OwnChain'
  <2> SUFFICES ASSUME Expects(c), <<spawned, call[c].trace>> \notin abandoned
               PROVE  /\ Chained(call[c], Tail(Inbox), Len(got[c]))
                      /\ Remaining(call[c], Tail(Inbox), stdin[spawned], sent[spawned],
                                   Len(got[c]))
    <3>1. \A d \in Callers : Expects(d)' => d = c /\ Expects(c)
      BY <1>2, NoOtherInside DEF Inside
    <3>2. abandoned' = abandoned /\ got' = got
      BY DEF history
    <3> QED BY <1>1, <3>1, <3>2 DEF OwnChain
  <2> DEFINE m == call[c] n == Len(got[c]) q == Inbox s == stdin[spawned]
  <2>1. Chained(m, q, n) /\ Remaining(m, q, s, sent[spawned], n)
    BY <1>1 DEF FInv, OwnChain
  <2>2. m \in Command /\ n \in Nat
    BY DEF IInv, TypeOK
  <2>3. Chained(m, Tail(q), n)
    BY <1>1, <2>1, <2>2, ChainDiscard
  <2> HIDE DEF m, n, q, s
  <2> QED BY <1>1, <2>1, <2>2, <2>3, RemainDiscard DEF m, n, q, s
<1> QED BY <1>3, <1>4, <1>5, <1>6, <1>7, <1>8 DEF FInv

\* The frame handed to a caller is the next one of its own command.
LEMMA DeliverFrames ==
  ASSUME IInv, FInv, NEW c \in Callers, Deliver(c)
  PROVE  FInv'
<1> DEFINE m == call[c] n == Len(got[c]) q == Inbox s == stdin[spawned]
           live == <<spawned, call[c].trace>> \notin abandoned
<1>1. /\ process = spawned /\ spawned \in Procs
      /\ Inbox = queue[spawned] /\ Inbox \in Seq(Frame) /\ Front = Head(Inbox)
      /\ queue'[spawned] = Tail(Inbox)
      /\ \A p \in Procs : p # spawned => queue'[p] = queue[p]
  BY TakeFacts DEF Deliver, Answered, Receives
<1>2. /\ pc[c] = "await" /\ Inbox # <<>> /\ TakeFrame /\ Matches(m, Front) /\ Expects(c)
      /\ Front.kind # "eof" /\ Inside(c) /\ got' = [got EXCEPT ![c] = Append(@, Front)]
      /\ UNCHANGED <<process, status, stdin, sent, eof, via, abandoned>>
  BY DEF Deliver, Answered, Receives, Wire, IInv, TypeOK, Expects, Inside
<1>3. m \in Command /\ n \in Nat /\ got[c] \in Seq(Frame) /\ m.trace \in Traces /\ Front \in Frame
      /\ via[c] = process /\ s \in Seq(Command)
  BY <1>1, <1>2, TailOf DEF IInv, TypeOK, FInv, CallsTraced, Expects, WrittenToCurrent
<1>4. \A i \in DOMAIN q : q[i].kind = "eof" => i = Len(q) /\ ~Matches(m, q[i]) /\ s = <<>>
  BY <1>1, <1>3, ConstantsAssumption DEF FInv, EndMarker, IdleWorker, Matches
<1>5. live => Chained(m, q, n) /\ Remaining(m, q, s, sent[spawned], n)
  BY <1>1, <1>2 DEF FInv, OwnChain
<1> HIDE DEF m, n, q, s
<1>6. ASSUME live
      PROVE  /\ ~Ends(m, Front) => Chained(m, Tail(q), n + 1)
             /\ Ends(m, Front) => \A i \in DOMAIN Tail(q) : Tail(q)[i].kind = "eof"
             /\ Front.n = n + 1 /\ Front.id = m.id
  BY <1>1, <1>2, <1>3, <1>4, <1>5, <1>6, ChainTake DEF q
<1>7. ASSUME live
      PROVE  /\ Remaining(m, Tail(q), s, sent[spawned], n + 1)
             /\ Ends(m, Front) => s = <<>>
  BY <1>1, <1>2, <1>3, <1>4, <1>5, <1>6, <1>7, RemainTake DEF q
<1>8. /\ Len(got'[c]) = n + 1 /\ DOMAIN got'[c] = 1..n + 1 /\ DOMAIN got[c] = 1..n
      /\ got'[c][n + 1] = Front /\ \A i \in 1..n : got'[c][i] = got[c][i]
      /\ \A d \in Callers : d # c => got'[d] = got[d]
  <2>1. got'[c] = Append(got[c], Front) /\ \A d \in Callers : d # c => got'[d] = got[d]
    BY <1>2 DEF IInv, TypeOK
  <2> QED BY <1>3, <2>1, AppendOf DEF n
<1>9. call' = call /\ spawned' = spawned
  BY DEF Deliver, Release
<1>10. OwnFramesInOrder'
  <2>1. ASSUME live, NEW i \in DOMAIN got'[c]
        PROVE  got'[c][i].id = m.id /\ got'[c][i].n = i
    <3>1. \A j \in 1..n : got[c][j].id = m.id /\ got[c][j].n = j
      BY <1>1, <1>3, <1>8, <2>1 DEF FInv, OwnFramesInOrder, m
    <3>2. CASE i = n + 1
      BY <1>6, <1>8, <2>1, <3>2
    <3>3. CASE i # n + 1
      <4>1. i \in 1..n
        BY <1>3, <1>8, <3>3
      <4> QED BY <1>8, <3>1, <4>1
    <3> QED BY <3>2, <3>3
  <2>2. ASSUME NEW d \in Callers, <<via'[d], call'[d].trace>> \notin abandoned',
               NEW i \in DOMAIN got'[d]
        PROVE  got'[d][i].id = call'[d].id /\ got'[d][i].n = i
    <3>1. CASE d = c
      <4>1. live
        BY <1>1, <1>2, <1>3, <1>9, <2>2, <3>1
      <4> QED BY <1>9, <2>1, <2>2, <3>1, <4>1 DEF m
    <3>2. CASE d # c
      BY <1>2, <1>8, <1>9, <2>2, <3>2 DEF FInv, OwnFramesInOrder
    <3> QED BY <3>1, <3>2
  <2> QED BY <2>2 DEF OwnFramesInOrder
<1>11. CASE Ends(m, Front)
  <2>1. Release(c, "returned")
    BY <1>11 DEF Deliver, m
  <2>2. ASSUME live
        PROVE  Traceless(m.trace, stdin'[spawned]) /\ Traceless(m.trace, queue'[spawned])
    <3>1. stdin'[spawned] = <<>>
      BY <1>2, <1>7, <1>11, <2>2 DEF s
    <3>2. \A i \in DOMAIN queue'[spawned] : queue'[spawned][i].trace # m.trace
      <4>1. EndMarker'
        BY <1>2, TakeMarker
      <4>2. ValidationTrace # m.trace
        BY <1>3, ConstantsAssumption
      <4>3. \A i \in DOMAIN queue'[spawned] : queue'[spawned][i].kind = "eof"
        BY <1>1, <1>6, <1>11, <2>2 DEF q
      <4>4. \A i \in DOMAIN queue'[spawned] : queue'[spawned][i].trace = ValidationTrace
        BY <1>1, <4>1, <4>3 DEF EndMarker
      <4> QED BY <4>2, <4>4
    <3> QED BY <3>1, <3>2 DEF Traceless
  <2> QED
    BY <1>2, <1>10, <2>1, <2>2, LeaveKeeps DEF FInv, SparesOrKills, Spares, m
<1>12. CASE ~Ends(m, Front)
  <2>1. UNCHANGED <<lock, pc, call, phase, spawned, outcome>>
    BY <1>12 DEF Deliver, m
  <2>2. EndMarker'
        /\ \A p \in Procs, t \in Traces : Traceless(t, queue[p]) => Traceless(t, queue'[p])
    BY <1>2, TakeMarker
  <2>3. IdleWorker' /\ CallsTraced' /\ LastWritten'
    BY <1>2, <2>1 DEF FInv, IdleWorker, CallsTraced, LastWritten, Wire
  <2>4. Clean'
    BY <1>2, <2>1, <2>2 DEF FInv, Clean, Expects
  <2>5. \A d \in Callers : Expects(d)' => d = c
    BY <1>2, <2>1, NoOtherInside DEF Expects
  <2>6. OwnChain'
    BY <1>1, <1>2, <1>6, <1>7, <1>8, <1>12, <2>1, <2>5 DEF OwnChain, m, q, s
  <2> QED BY <1>10, <2>2, <2>3, <2>4, <2>6 DEF FInv
<1> QED BY <1>11, <1>12

\* A new call starts with nothing received.
LEMMA CallFrames ==
  ASSUME IInv, FInv, NEW c \in Callers, NEW cmd \in Commands \ {"start"}, NEW t \in Traces,
         Call(c, cmd, t)
  PROVE  FInv'
<1>1. /\ pc[c] = "idle" /\ pc'[c] = "want" /\ got'[c] = <<>>
      /\ call'[c].cmd = cmd /\ call'[c].trace = IF cmd = "stop" THEN StopTrace ELSE t
      /\ \A d \in Callers : d # c => /\ pc'[d] = pc[d] /\ call'[d] = call[d]
                                     /\ got'[d] = got[d] /\ via'[d] = via[d]
      /\ UNCHANGED <<status, stdin, sent, queue, eof, phase, process, spawned, abandoned>>
  BY DEF Call, Step, IInv, TypeOK, worker
<1>2. \A d \in Callers : /\ Expects(d)' => Expects(d) /\ d # c
                         /\ Expects(d) => Expects(d)' /\ d # c
                         /\ pc'[d] = "await" => d # c
  BY <1>1 DEF Expects
<1>3. IdleWorker' /\ EndMarker' /\ CallsTraced' /\ OwnFramesInOrder'
  BY <1>1 DEF FInv, IdleWorker, EndMarker, CallsTraced, OwnFramesInOrder, Commands
<1>4. LastWritten' /\ Clean' /\ OwnChain'
  BY <1>1, <1>2 DEF FInv, LastWritten, Wire, Clean, OwnChain
<1> QED BY <1>3, <1>4 DEF FInv

\* A caller's step keeps the frames in order.
LEMMA CallerFrames ==
  ASSUME IInv, FInv, NEW c \in Callers, CallerStep(c)
  PROVE  FInv'
<1>0. \A d \in Callers : d # c /\ Inside(c) => pc[d] # "await" /\ ~Expects(d)
  BY NoOtherInside
<1>1. CASE Acquire(c)
  <2>1. \A d \in Callers : /\ Expects(d)' <=> Expects(d)
                           /\ pc'[d] = "await" => pc[d] = "await"
                           /\ pc'[d] # "idle" => pc[d] # "idle"
    BY <1>1 DEF Acquire, Step, Expects, IInv, TypeOK
  <2> QED
    BY <1>1, <2>1 DEF Acquire, FInv, IdleWorker, EndMarker, CallsTraced, LastWritten, Clean,
         OwnChain, OwnFramesInOrder, worker, history, Wire
<1>2. CASE Reuse(c)
  <2>1. \A d \in Callers : /\ Expects(d)' <=> Expects(d)
                           /\ pc'[d] = "await" => pc[d] = "await" /\ Wire(d)' = Wire(d)
                           /\ pc'[d] # "idle" => pc[d] # "idle"
    BY <1>2 DEF Reuse, Step, Expects, Wire, IInv, TypeOK
  <2> QED
    BY <1>2, <2>1 DEF Reuse, FInv, IdleWorker, EndMarker, CallsTraced, LastWritten, Clean,
         OwnChain, OwnFramesInOrder, worker, history
<1>3. CASE NothingToStop(c)
  <2>1. Inside(c) /\ ~Expects(c) /\ OwnFramesInOrder'
    BY <1>3 DEF NothingToStop, Inside, Expects, Release, FInv, OwnFramesInOrder
  <2> QED
    BY <1>3, <2>1, LeaveKeeps
    DEF NothingToStop, FInv, SparesOrKills, Spares, worker
<1>4. CASE Spawn(c)
  <2>1. /\ spawned + 1 \in Procs /\ spawned' = spawned + 1 /\ status[spawned + 1] = "none"
        /\ stdin'[spawned + 1] = <<>> /\ sent'[spawned + 1] = 0
        /\ queue'[spawned + 1] = <<>>
        /\ \A p \in Procs : p # spawned + 1 => /\ status'[p] = status[p]
                                               /\ queue'[p] = queue[p]
        /\ UNCHANGED <<stdin, sent, eof, call, got, via, abandoned>>
    BY <1>4, ConstantsAssumption
    DEF Spawn, IInv, TypeOK, NotSpawnedYet, FInv, IdleWorker, NewQueue, history, Procs
  <2>2. \A d \in Callers : /\ pc'[d] # "await" /\ ~Expects(d)'
                           /\ pc'[d] # "idle" => pc[d] # "idle"
    BY <1>0, <1>4 DEF Spawn, Step, Inside, IInv, TypeOK, Expects
  <2>3. IdleWorker' /\ EndMarker'
    BY <2>1 DEF FInv, IdleWorker, EndMarker
  <2>4. CallsTraced' /\ LastWritten' /\ OwnChain' /\ OwnFramesInOrder'
    BY <2>1, <2>2 DEF FInv, CallsTraced, LastWritten, OwnChain, OwnFramesInOrder
  <2>5. Clean'
    BY <2>1 DEF Clean, Traceless
  <2> QED BY <2>3, <2>4, <2>5 DEF FInv
<1>5. CASE SpawnFails(c)
  <2>1. Inside(c) /\ ~Expects(c) /\ OwnFramesInOrder'
    BY <1>5 DEF SpawnFails, Inside, Expects, Release, FInv, OwnFramesInOrder
  <2> QED
    BY <1>5, <2>1, LeaveKeeps
    DEF SpawnFails, FInv, SparesOrKills, Spares, worker
<1>6. CASE Send(c)
  BY <1>6, SendFrames
<1>7. CASE SendFails(c)
  <2>1. Inside(c) /\ ~Expects(c) /\ process # 0
    BY <1>7 DEF SendFails, Inside, Expects, IInv, HandleOnWire
  <2>2. SparesOrKills /\ \E how : Release(c, how)
    BY <1>7, <2>1, RaiseLeaves DEF SendFails
  <2>3. OwnFramesInOrder'
    BY <1>7, <2>2 DEF SendFails, Release, FInv, OwnFramesInOrder
  <2> QED
    BY <1>7, <2>1, <2>2, <2>3, LeaveKeeps DEF SendFails, FInv
<1>8. CASE Discard(c)
  BY <1>8, TakeKeeps DEF Discard, Receives, client, Expects, Wire
<1>9. CASE Started(c)
  BY <1>9, TakeKeeps DEF Started, Answered, Receives, Step, Expects, IInv, TypeOK
<1>10. CASE StartRefused(c)
  <2>1. Inside(c) /\ ~Expects(c) /\ process # 0 /\ OwnFramesInOrder'
    BY <1>10 DEF StartRefused, Answered, Receives, Inside, Expects, IInv, HandleOnWire,
                 Release, FInv, OwnFramesInOrder
  <2> QED
    BY <1>10, <2>1, LeaveKeeps
    DEF StartRefused, Answered, Receives, FInv, SparesOrKills
<1>11. CASE Deliver(c)
  BY <1>11, DeliverFrames
<1>12. CASE StopAnswered(c)
  BY <1>12, TakeKeeps DEF StopAnswered, Answered, Receives, Step, Expects
<1>13. CASE Reap(c)
  <2>1. Inside(c) /\ ~Expects(c) /\ process # 0 /\ OwnFramesInOrder'
    BY <1>13 DEF Reap, Inside, Expects, IInv, HandleOnWire, Release, FInv, OwnFramesInOrder
  <2> QED
    BY <1>13, <2>1, LeaveKeeps DEF Reap, FInv, SparesOrKills
<1>14. CASE Closed(c)
  <2>1. Inside(c) /\ process # 0 /\ Inbox # <<>> /\ TakeFrame /\ pc[c] = "await"
    BY <1>14 DEF Closed, Inside, IInv, HandleOnWire
  <2>2. SparesOrKills /\ \E how : Release(c, how)
    BY <1>14, <2>1, RaiseLeaves DEF Closed
  <2>3. OwnFramesInOrder'
    BY <1>14, <2>2 DEF Closed, Release, FInv, OwnFramesInOrder
  <2>4. /\ spawned \in Procs /\ Inbox = queue[spawned] /\ Inbox \in Seq(Frame)
        /\ Front = Head(Inbox) /\ queue'[spawned] = Tail(Inbox) /\ process = spawned
    BY <2>1, TakeFacts
  <2>5. Len(Inbox) = 1 /\ status[spawned] # "running"
    BY <1>14, <2>1, <2>4, TailOf DEF Closed, FInv, EndMarker
  <2>6. queue'[spawned] = <<>>
    BY <2>1, <2>4, <2>5, TailOf, EmptyOf
  <2>7. stdin'[spawned] = <<>>
    BY <2>2, <2>4, <2>5 DEF FInv, IdleWorker, SparesOrKills, Spares, Kill, IInv, TypeOK
  <2>8. \A t : Traceless(t, stdin'[spawned]) /\ Traceless(t, queue'[spawned])
    BY <2>6, <2>7 DEF Traceless
  <2> QED
    BY <1>14, <2>1, <2>2, <2>3, <2>8, LeaveKeeps DEF Closed, FInv
<1>15. CASE Timeout(c)
  <2>1. Inside(c) /\ process # 0 /\ process = spawned
    BY <1>15 DEF Timeout, Inside, IInv, HandleOnWire, HandleIsLastSpawned
  <2>2. SparesOrKills /\ \E how : Release(c, how)
    BY <1>15, <2>1, RaiseLeaves DEF Timeout
  <2>3. OwnFramesInOrder'
    BY <1>15, <2>2 DEF Timeout, Release, FInv, OwnFramesInOrder
  <2>4. Expects(c) => <<spawned, call[c].trace>> \in abandoned'
    BY <1>15, <2>1 DEF Timeout, Expects, Wire
  <2> QED
    BY <1>15, <2>1, <2>2, <2>3, <2>4, LeaveKeeps DEF Timeout, FInv
<1> QED
  BY <1>1, <1>2, <1>3, <1>4, <1>5, <1>6, <1>7, <1>8, <1>9, <1>10, <1>11, <1>12, <1>13,
     <1>14, <1>15 DEF CallerStep

\* The frames handed to a caller are those of its own command, in order.
LEMMA FramesInvariant == Spec => []FInv
<1>1. Init => FInv
  BY DEF Init, FInv, IdleWorker, EndMarker, CallsTraced, LastWritten, Clean, OwnChain,
         OwnFramesInOrder, Traceless, Expects, Procs
<1>2. IInv /\ FInv /\ [Next]_vars => FInv'
  <2> SUFFICES ASSUME IInv, FInv, [Next]_vars PROVE FInv'
    OBVIOUS
  <2>1. CASE \E c \in Callers, cmd \in Commands \ {"start"}, t \in Traces : Call(c, cmd, t)
    BY <2>1, CallFrames
  <2>2. CASE \E c \in Callers : CallerStep(c)
    BY <2>2, CallerFrames
  <2>3. CASE \E p \in Procs : WorkerStep(p)
    BY <2>3, WorkerFrames
  <2>4. CASE UNCHANGED vars
    BY <2>4 DEF vars, FInv, IdleWorker, EndMarker, CallsTraced, LastWritten, Clean, OwnChain,
         OwnFramesInOrder, Expects, Wire
  <2> QED BY <2>1, <2>2, <2>3, <2>4 DEF Next
<1> QED BY <1>1, <1>2, Invariance, PTL DEF Spec

\* As long as no call of the same trace has timed out on the process, a caller of request
\* or stream receives the frames of its own command, in order and without a gap, whatever
\* the other callers, the handshakes and the worker do.
THEOREM FramesInOrder == Spec => []OwnFramesInOrder
<1>1. FInv => OwnFramesInOrder
  BY DEF FInv
<1> QED BY <1>1, FramesInvariant, PTL

\* A frame that is handed over makes the answer longer; the caller leaves with the frame
\* that ends it.
LEMMA DeliverWhole ==
  ASSUME IInv, FInv, WholeAnswers, NEW d \in Callers, Deliver(d)
  PROVE  WholeAnswers'
<1>1. /\ pc[d] = "await" /\ phase[d] = "main"
      /\ call[d].cmd \notin {"start", "stop"} /\ call' = call
      /\ Front.trace = call[d].trace
  BY DEF Deliver, Answered, Receives, Matches, Wire, Release, FInv, CallsTraced
<1>2. /\ got[d] \in Seq(Frame) /\ Front \in Frame
      /\ got'[d] = Append(got[d], Front)
      /\ \A c \in Callers \ {d} : got'[c] = got[c]
  BY <1>1, FrontIsCurrent DEF Deliver, Answered, Receives, IInv, TypeOK
<1>3. /\ \A c \in Callers \ {d} : pc'[c] = pc[c] /\ outcome'[c] = outcome[c]
      /\ IF Ends(call[d], Front) THEN pc'[d] = "idle" /\ outcome'[d] = "returned"
                                 ELSE pc'[d] = "await"
  BY <1>1 DEF Deliver, Release, IInv, TypeOK
<1>4. /\ Len(got'[d]) = Len(got[d]) + 1 /\ got'[d][Len(got[d]) + 1] = Front
      /\ DOMAIN got'[d] = 1..Len(got[d]) + 1 /\ Len(got[d]) \in Nat
      /\ \A i \in 1..Len(got[d]) : got'[d][i] = got[d][i] /\ i \in DOMAIN got[d]
  BY <1>2
<1>5. \A i \in DOMAIN got[d] : ~Ends(call[d], got[d][i]) /\ got[d][i].trace = call[d].trace
  BY <1>1 DEF WholeAnswers, WholeAnswer
<1>6. /\ \A i \in DOMAIN got'[d] : got'[d][i].trace = call'[d].trace
      /\ \A i \in DOMAIN got'[d] :
           Ends(call'[d], got'[d][i]) =>
             i = Len(got'[d]) /\ pc'[d] = "idle" /\ outcome'[d] = "returned"
      /\ pc'[d] = "idle" => got'[d] # <<>> /\ Ends(call'[d], got'[d][Len(got'[d])])
  <2>1. \A i \in DOMAIN got'[d] : i \in DOMAIN got[d] \/ i = Len(got[d]) + 1
    BY <1>4
  <2> QED BY <1>1, <1>3, <1>4, <1>5, <2>1
<1>7. WholeAnswer(d)'
  BY <1>1, <1>6 DEF WholeAnswer
<1>8. \A c \in Callers \ {d} : WholeAnswer(c)'
  BY <1>1, <1>2, <1>3 DEF WholeAnswers, WholeAnswer, Ends
<1> QED BY <1>7, <1>8 DEF WholeAnswers

\* No other step of a caller hands anything over, or returns from request or stream.
LEMMA OthersHandNothing ==
  ASSUME IInv, NEW d \in Callers, CallerStep(d), ~Deliver(d)
  PROVE  /\ UNCHANGED <<got, call>> /\ pc[d] # "idle"
         /\ \A c \in Callers \ {d} : pc'[c] = pc[c] /\ outcome'[c] = outcome[c]
         /\ pc'[d] # "idle" \/ outcome'[d] # "returned" \/ call[d].cmd = "stop"
<1> USE DEF client, history, IInv, TypeOK
<1>1. CASE NothingToStop(d) \/ SpawnFails(d) \/ Reap(d) \/ StartRefused(d)
  BY <1>1 DEF NothingToStop, SpawnFails, Reap, StartRefused, Answered, Receives, Release,
       ReapStops
<1>2. CASE SendFails(d) \/ Closed(d) \/ Timeout(d)
  BY <1>2 DEF SendFails, Closed, Timeout, Raise, Release
<1>3. CASE \/ Acquire(d) \/ Reuse(d) \/ Spawn(d) \/ Send(d) \/ Discard(d) \/ Started(d)
           \/ StopAnswered(d)
  BY <1>3 DEF Acquire, Reuse, Spawn, Send, Discard, Started, StopAnswered, Answered, Receives,
       Step
<1> QED BY <1>1, <1>2, <1>3 DEF CallerStep

\* A call that returns has its whole answer and nothing else: request, stream and shutdown
\* of _JsonlWorkerProcessClient.
THEOREM AnswersAreWhole == Spec => []WholeAnswers
<1>1. Init => WholeAnswers
  <2> SUFFICES ASSUME Init, NEW c \in Callers PROVE WholeAnswer(c)
    BY DEF WholeAnswers
  <2>1. got[c] = <<>> /\ call[c].cmd = "start"
    BY DEF Init, StartCommand
  <2> QED BY <2>1 DEF WholeAnswer
<1>2. IInv /\ FInv /\ WholeAnswers /\ [Next]_vars => WholeAnswers'
  <2> SUFFICES ASSUME IInv, FInv, WholeAnswers, [Next]_vars PROVE WholeAnswers'
    OBVIOUS
  <2>1. ASSUME NEW d \in Callers, CallerStep(d), ~Deliver(d) PROVE WholeAnswers'
    BY <2>1, OthersHandNothing DEF WholeAnswers, WholeAnswer, Ends
  <2>2. ASSUME NEW d \in Callers, NEW cmd \in Commands \ {"start"}, NEW t \in Traces,
               Call(d, cmd, t)
        PROVE  WholeAnswers'
    BY <2>2 DEF Call, Step, WholeAnswers, WholeAnswer, Ends, IInv, TypeOK
  <2>3. CASE \/ \E p \in Procs : WorkerStep(p)
             \/ UNCHANGED vars
    <3>1. UNCHANGED <<pc, call, got, outcome>>
      BY <2>3 DEF WorkerStep, WorkerReply, WorkerDelta, WorkerFinish, WorkerRejects, Crash,
           Exit, ReaderEof, client, history, vars
    <3> QED BY <3>1 DEF WholeAnswers, WholeAnswer, Ends
  <2> QED BY <2>1, <2>2, <2>3, DeliverWhole DEF Next
<1> QED BY <1>1, <1>2, Invariance, FramesInvariant, PTL DEF Spec

-----------------------------------------------------------------------------
(* The client implements RpcService                                        *)

\* The variables of the service, as the client's state shows them.
StageBar == [c \in Callers |-> CASE pc[c] = "idle" -> "idle"
                                 [] pc[c] = "want" -> "queued"
                                 [] OTHER -> "served"]
RequestBar == [c \in Callers |-> [cmd |-> call[c].cmd, trace |-> call[c].trace]]
DeliveredBar == [c \in Callers |-> [i \in DOMAIN got[c] |->
                                     [kind |-> got[c][i].kind, trace |-> got[c][i].trace]]]

\* What the service's caller sees of the frames it got.
Seen(g) == [i \in DOMAIN g |-> [kind |-> g[i].kind, trace |-> g[i].trace]]

\* No frame, nothing seen.
LEMMA SeenEmpty == Seen(<<>>) = <<>>
BY DEF Seen

\* One more frame is seen as one more.
LEMMA SeenAppend ==
  ASSUME NEW q \in Seq(Frame), NEW f \in Frame
  PROVE  Seen(Append(q, f)) = Append(Seen(q), [kind |-> f.kind, trace |-> f.trace])
<1> DEFINE F(h) == [kind |-> h.kind, trace |-> h.trace]
           g == Append(q, f)
           u == Seen(q)
           v == Seen(g)
<1>1. /\ DOMAIN g = 1..Len(q) + 1 /\ DOMAIN q = 1..Len(q) /\ Len(q) \in Nat
      /\ \A i \in 1..Len(q) : g[i] = q[i] /\ q[i] \in Frame
      /\ g[Len(q) + 1] = f
  BY AppendOf
<1> HIDE DEF g
<1>2. /\ u \in Seq({F(h) : h \in Frame}) /\ Len(u) = Len(q)
      /\ \A i \in 1..Len(q) : u[i] = F(q[i])
  BY <1>1 DEF Seen
<1>3. /\ v \in Seq({F(h) : h \in Frame}) /\ Len(v) = Len(q) + 1
      /\ \A i \in 1..Len(q) + 1 : v[i] = F(g[i])
  BY <1>1 DEF Seen
<1> HIDE DEF u, v
<1>4. /\ Append(u, F(f)) \in Seq({F(h) : h \in Frame})
      /\ Len(Append(u, F(f))) = Len(q) + 1
      /\ \A i \in 1..Len(q) : Append(u, F(f))[i] = u[i]
      /\ Append(u, F(f))[Len(q) + 1] = F(f)
  BY <1>1, <1>2, AppendOf
<1>5. \A i \in 1..Len(q) + 1 : v[i] = Append(u, F(f))[i]
  BY <1>1, <1>2, <1>3, <1>4
<1>6. v = Append(u, F(f))
  BY <1>1, <1>3, <1>4, <1>5
<1> QED BY <1>6 DEF u, v, g

\* The stage tells the three parts of a call apart.
LEMMA StageOf ==
  /\ StageBar \in [Callers -> {"idle", "queued", "served"}]
  /\ \A c \in Callers : /\ StageBar[c] = "idle" <=> pc[c] = "idle"
                        /\ StageBar[c] = "queued" <=> pc[c] = "want"
                        /\ StageBar[c] = "served" <=> pc[c] \notin {"idle", "want"}
BY DEF StageBar

\* The stage a place of the client's code belongs to.
StageName(x) == CASE x = "idle" -> "idle" [] x = "want" -> "queued" [] OTHER -> "served"

\* Moving one caller moves its stage.
LEMMA StageMoves ==
  ASSUME IInv, NEW c \in Callers, NEW x, pc' = [pc EXCEPT ![c] = x]
  PROVE  StageBar' = [StageBar EXCEPT ![c] = StageName(x)]
<1>1. pc \in [Callers -> {"idle", "want", "begin", "send", "await", "reap"}]
  BY DEF IInv, TypeOK
<1>2. \A d \in Callers : pc'[d] = IF d = c THEN x ELSE pc[d]
  BY <1>1
<1> QED BY <1>2 DEF StageBar, StageName

\* The service's variables stay when the client's do.
LEMMA BarsStay ==
  /\ pc' = pc => StageBar' = StageBar
  /\ call' = call => RequestBar' = RequestBar
  /\ got' = got => DeliveredBar' = DeliveredBar
BY DEF StageBar, RequestBar, DeliveredBar

\* The service's variables, named.
LEMMA BarVars ==
  /\ Service!vars = <<lock, StageBar, RequestBar, DeliveredBar, outcome>>
  /\ Service!vars' = <<lock', StageBar', RequestBar', DeliveredBar', outcome'>>
BY DEF Service!vars, StageBar, RequestBar, DeliveredBar

\* A step inside the lock that neither hands over a frame nor leaves it is invisible.
LEMMA InsideStutters ==
  ASSUME IInv, NEW c \in Callers, Inside(c), NEW x \in {"begin", "send", "await", "reap"},
         pc' = [pc EXCEPT ![c] = x], UNCHANGED <<lock, call, got, outcome>>
  PROVE  UNCHANGED Service!vars
<1>1. StageBar' = StageBar
  <2>1. pc[c] \notin {"idle", "want"} /\ pc \in [Callers -> {"idle", "want", "begin", "send", "await", "reap"}]
    BY DEF IInv, TypeOK, Inside
  <2> QED BY <2>1 DEF StageBar
<1> QED BY <1>1, BarsStay, BarVars

\* Leaving the lock leaves the service.
LEMMA LeaveService ==
  ASSUME IInv, NEW c \in Callers, Inside(c), NEW how, Release(c, how)
  PROVE  Service!Leave(c, how) /\ lock = c /\ RequestBar' = RequestBar
<1>1. StageBar' = [StageBar EXCEPT ![c] = "idle"]
  BY StageMoves DEF Release, StageName
<1>2. RequestBar' = RequestBar
  BY BarsStay DEF Release
<1> QED
  BY <1>1, <1>2 DEF Release, Service!Leave, StageBar, RequestBar, IInv, LockHeld

\* Raising: shutdown returns, the others fail.
LEMMA RaiseServes ==
  ASSUME IInv, NEW c \in Callers, Inside(c), Raise(c), UNCHANGED got
  PROVE  Service!Next
<1>1. DeliveredBar' = DeliveredBar
  BY BarsStay
<1>2. RequestBar[c].cmd = call[c].cmd
  BY DEF RequestBar
<1>3. CASE call[c].cmd = "stop"
  <2>1. Service!Leave(c, "returned") /\ lock = c
    BY <1>3, LeaveService DEF Raise
  <2>2. Service!Stopped(c)
    BY <1>1, <1>2, <1>3, <2>1 DEF Service!Stopped, RequestBar, DeliveredBar
  <2> QED BY <2>2 DEF Service!Next
<1>4. CASE call[c].cmd # "stop"
  <2>1. Service!Leave(c, "raised") /\ lock = c
    BY <1>4, LeaveService DEF Raise
  <2>2. Service!Fail(c)
    BY <1>1, <1>2, <1>4, <2>1 DEF Service!Fail, RequestBar, DeliveredBar
  <2> QED BY <2>2 DEF Service!Next
<1> QED BY <1>3, <1>4

\* A call is submitted.
LEMMA CallSubmits ==
  ASSUME IInv, NEW c \in Callers, NEW cmd \in Commands \ {"start"}, NEW t \in Traces,
         Call(c, cmd, t)
  PROVE  Service!Submit(c)
<1> DEFINE u == IF cmd = "stop" THEN StopTrace ELSE t
<1>1. /\ call' = [call EXCEPT ![c] = [id |-> calls + 1, cmd |-> cmd, trace |-> u]]
      /\ pc[c] = "idle" /\ pc' = [pc EXCEPT ![c] = "want"]
      /\ got' = [got EXCEPT ![c] = <<>>] /\ UNCHANGED <<lock, outcome>>
  BY DEF Call, Step
<1>2. cmd \in {"stop", "request", "stream"} /\ u \in Traces \cup {StopTrace}
      /\ (cmd = "stop" <=> u = StopTrace)
  BY ConstantsAssumption DEF Commands
<1> HIDE DEF u
<1>3. RequestBar' = [RequestBar EXCEPT ![c] = [cmd |-> cmd, trace |-> u]]
  BY <1>1 DEF RequestBar, IInv, TypeOK
<1>4. DeliveredBar' = [DeliveredBar EXCEPT ![c] = <<>>]
  <2>1. got'[c] = <<>> /\ \A d \in Callers : d # c => got'[d] = got[d]
    BY <1>1 DEF IInv, TypeOK
  <2>2. [i \in DOMAIN got'[c] |->
          [kind |-> got'[c][i].kind, trace |-> got'[c][i].trace]] = <<>>
    BY <2>1, SeenEmpty DEF Seen
  <2> QED BY <2>1, <2>2 DEF DeliveredBar
<1>5. StageBar' = [StageBar EXCEPT ![c] = "queued"] /\ StageBar[c] = "idle"
  BY <1>1, StageMoves, StageOf DEF StageName
<1> QED
  BY <1>1, <1>2, <1>3, <1>4, <1>5
  DEF Service!Submit, Service!Commands, StageBar, RequestBar, DeliveredBar

\* A frame handed over answers the call, or is one more of a stream.
LEMMA DeliverServes ==
  ASSUME IInv, CallsTraced, NEW c \in Callers, Deliver(c)
  PROVE  Service!Next
<1>1. /\ Front \in Frame /\ Front.kind # "eof" /\ Inside(c) /\ lock = c /\ call[c].cmd # "stop"
      /\ Front.trace = call[c].trace /\ call[c].trace \in Traces
      /\ got' = [got EXCEPT ![c] = Append(got[c], Front)] /\ got[c] \in Seq(Frame)
  BY FrontIsCurrent
  DEF Deliver, Answered, Receives, Matches, Wire, Inside, IInv, TypeOK, LockHeld, CallsTraced
<1> DEFINE f == [kind |-> Front.kind, trace |-> Front.trace]
<1>2. DeliveredBar' = [DeliveredBar EXCEPT ![c] = Append(DeliveredBar[c], f)]
  <2>1. got'[c] = Append(got[c], Front) /\ \A d \in Callers : d # c => got'[d] = got[d]
    BY <1>1 DEF IInv, TypeOK
  <2>2. [i \in DOMAIN got'[c] |->
          [kind |-> got'[c][i].kind, trace |-> got'[c][i].trace]]
          = Append(DeliveredBar[c], f)
    <3>1. Seen(Append(got[c], Front)) = Append(Seen(got[c]), f)
      BY <1>1, SeenAppend
    <3> QED BY <2>1, <3>1 DEF DeliveredBar, Seen
  <2> QED BY <2>1, <2>2 DEF DeliveredBar
<1>3. f \in Service!Frames /\ f.trace = RequestBar[c].trace /\ RequestBar[c].cmd = call[c].cmd
  BY <1>1 DEF Service!Frames, Frame, Kinds, RequestBar
<1>4. CASE Ends(call[c], Front)
  <2>1. Service!Leave(c, "returned")
    BY <1>1, <1>4, LeaveService DEF Deliver
  <2>2. RequestBar[c].cmd = "stream" => f.kind \in Service!Terminal
    BY <1>3, <1>4 DEF Ends, Service!Terminal
  <2> HIDE DEF f
  <2>3. Service!Answer(c)
    BY <1>1, <1>2, <1>3, <2>1, <2>2 DEF Service!Answer, RequestBar, DeliveredBar
  <2> QED BY <2>3 DEF Service!Next
<1>5. CASE ~Ends(call[c], Front)
  <2>1. UNCHANGED <<lock, pc, call, outcome>>
    BY <1>5 DEF Deliver
  <2>2. RequestBar[c].cmd = "stream" /\ f.kind \notin Service!Terminal
    BY <1>3, <1>5 DEF Ends, Service!Terminal
  <2>3. StageBar' = StageBar /\ RequestBar' = RequestBar
    BY <2>1, BarsStay
  <2> HIDE DEF f
  <2>4. Service!Progress(c)
    BY <1>1, <1>2, <1>3, <2>1, <2>2, <2>3
    DEF Service!Progress, RequestBar, DeliveredBar, StageBar
  <2> QED BY <2>4 DEF Service!Next
<1> QED BY <1>4, <1>5

\* A caller's step is a step of the service, or invisible to it.
LEMMA CallerServes ==
  ASSUME IInv, FInv, NEW c \in Callers, CallerStep(c)
  PROVE  Service!Next \/ UNCHANGED Service!vars
<1>0. ASSUME Inside(c), NEW how, Release(c, how), UNCHANGED got, how = "raised" \/ how = "returned",
             call[c].cmd = "stop" <=> how = "returned"
      PROVE  Service!Next
  <2>1. Service!Leave(c, how) /\ lock = c
    BY <1>0, LeaveService
  <2>2. DeliveredBar' = DeliveredBar /\ RequestBar[c].cmd = call[c].cmd
    BY <1>0, BarsStay DEF RequestBar
  <2>3. CASE how = "returned"
    <3>1. Service!Stopped(c)
      BY <1>0, <2>1, <2>2, <2>3 DEF Service!Stopped, RequestBar, DeliveredBar
    <3> QED BY <3>1 DEF Service!Next
  <2>4. CASE how = "raised"
    <3>1. Service!Fail(c)
      BY <1>0, <2>1, <2>2, <2>4 DEF Service!Fail, RequestBar, DeliveredBar
    <3> QED BY <3>1 DEF Service!Next
  <2> QED BY <1>0, <2>3, <2>4
<1>1. CASE Acquire(c)
  <2>1. StageBar' = [StageBar EXCEPT ![c] = "served"] /\ StageBar[c] = "queued"
    <3>1. pc' = [pc EXCEPT ![c] = "begin"] /\ pc[c] = "want"
      BY <1>1 DEF Acquire, Step
    <3>2. StageName("begin") = "served"
      BY DEF StageName
    <3>3. StageBar' = [StageBar EXCEPT ![c] = StageName("begin")]
      BY <3>1, StageMoves
    <3>4. StageBar[c] = "queued"
      BY <3>1, StageOf
    <3> QED BY <3>2, <3>3, <3>4
  <2>2. RequestBar' = RequestBar /\ DeliveredBar' = DeliveredBar
    BY <1>1, BarsStay DEF Acquire, history
  <2>3. Service!Serve(c)
    BY <1>1, <2>1, <2>2
    DEF Acquire, history, Service!Serve, StageBar, RequestBar, DeliveredBar
  <2> QED BY <2>3 DEF Service!Next
<1>2. CASE Reuse(c)
  BY <1>2, InsideStutters DEF Reuse, Step, Inside, history
<1>3. CASE NothingToStop(c)
  BY <1>0, <1>3 DEF NothingToStop, Inside
<1>4. CASE Spawn(c)
  BY <1>4, InsideStutters DEF Spawn, Step, Inside, history
<1>5. CASE SpawnFails(c)
  BY <1>0, <1>5 DEF SpawnFails, Inside
<1>6. CASE Send(c)
  BY <1>6, InsideStutters DEF Send, Step, Inside
<1>7. CASE SendFails(c)
  BY <1>7, RaiseServes DEF SendFails, Inside
<1>8. CASE Discard(c)
  BY <1>8, BarsStay, BarVars DEF Discard, client, history
<1>9. CASE Started(c)
  BY <1>9, InsideStutters DEF Started, Answered, Receives, Step, Inside, history
<1>10. CASE StartRefused(c)
  <2>1. call[c].cmd # "stop" /\ Inside(c)
    BY <1>10 DEF StartRefused, IInv, StopStartsNothing, Answered, Receives, Inside
  <2> QED BY <1>0, <1>10, <2>1 DEF StartRefused
<1>11. CASE Deliver(c)
  BY <1>11, DeliverServes DEF FInv
<1>12. CASE StopAnswered(c)
  BY <1>12, InsideStutters DEF StopAnswered, Answered, Receives, Step, Inside, history
<1>13. CASE Reap(c)
  <2>1. call[c].cmd = "stop" /\ Inside(c)
    BY <1>13 DEF Reap, IInv, ReapStops, Inside
  <2> QED BY <1>0, <1>13, <2>1 DEF Reap
<1>14. CASE Closed(c)
  BY <1>14, RaiseServes DEF Closed, Inside
<1>15. CASE Timeout(c)
  BY <1>15, RaiseServes DEF Timeout, Inside
<1> QED
  BY <1>1, <1>2, <1>3, <1>4, <1>5, <1>6, <1>7, <1>8, <1>9, <1>10, <1>11, <1>12, <1>13,
     <1>14, <1>15 DEF CallerStep

\* The client with its lock, its worker and all that can go wrong implements RpcService:
\* calls are served one at a time, a call that returns has received one frame of its own
\* trace, or a stream up to the frame that ends it, and shutdown never raises.
THEOREM Refinement == Spec => ImplementsService
<1>1. Init => Service!Init
  <2> SUFFICES ASSUME Init PROVE Service!Init
    OBVIOUS
  <2>1. RequestBar \in [Callers -> [cmd : {"start"}, trace : {"trace-start"}]]
    BY DEF Init, RequestBar, StartCommand, StartTrace
  <2>2. StageBar = [c \in Callers |-> "idle"]
    BY DEF Init, StageBar
  <2>3. DeliveredBar = [c \in Callers |-> <<>>]
    BY SeenEmpty DEF Init, DeliveredBar, Seen
  <2> QED BY <2>1, <2>2, <2>3 DEF Init, Service!Init, StageBar, RequestBar, DeliveredBar
<1>2. IInv /\ FInv /\ [Next]_vars => [Service!Next]_(Service!vars)
  <2> SUFFICES ASSUME IInv, FInv, [Next]_vars
               PROVE  Service!Next \/ UNCHANGED Service!vars
    OBVIOUS
  <2>1. CASE \E c \in Callers, cmd \in Commands \ {"start"}, t \in Traces : Call(c, cmd, t)
    BY <2>1, CallSubmits DEF Service!Next
  <2>2. CASE \E c \in Callers : CallerStep(c)
    BY <2>2, CallerServes
  <2>3. CASE \E p \in Procs : WorkerStep(p)
    <3>1. UNCHANGED <<client, history>>
      BY <2>3 DEF WorkerStep, WorkerReply, WorkerDelta, WorkerFinish, WorkerRejects, Crash,
                  Exit, ReaderEof
    <3> QED BY <3>1, BarsStay, BarVars DEF client, history
  <2>4. CASE UNCHANGED vars
    BY <2>4, BarsStay, BarVars DEF vars
  <2> QED BY <2>1, <2>2, <2>3, <2>4 DEF Next
<1> QED
  BY <1>1, <1>2, Invariance, FramesInvariant, PTL DEF Spec, ImplementsService, Service!Spec
=============================================================================
