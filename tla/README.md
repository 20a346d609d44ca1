# Marvex in TLA+

A verification project for Marvex, a desktop assistant: TLA+ models of the
places where several threads, processes and windows of it meet, TLC
configurations that check them on small instances, and proofs of the main
invariants for every value of the constants.  Paths below are relative to the
repository root; `main.py` without a path is `services/core/main.py`.

## 1. The system

| Component | State it keeps | Operations | Talks to |
|---|---|---|---|
| Core Service, turn pipeline (`main.py`) | the current provider, `_pending_automation`, status | `submit_turn`, `stream_turn`, `configure_provider`, `shutdown` | workers (JSON lines), the local API, the state bus |
| Worker client (`main.py` 409-626) | lock, process handle, reader thread and queue | `request`, `stream`, `shutdown` | one worker process each |
| Provider, intent and tool workers (`services/*_worker`) | controller state, one command at a time | `start`, `stop`, `health`, `send`, `stream`, `execute` | stdin and stdout |
| Agentic tool loop (`packages/core/orchestration/agentic_tools.py`, `main.py` 1424-1874) | messages, steps, retries, pending call | `run_tool_loop`, `execute_tool_calls`, `_retry_model_after_approved_tool_failure` | provider worker, tool worker |
| Approval path (`main.py` 3405-3638, `services/core/safe_state.py`, `packages/control_plane_api/approvals.py`) | the stash, its file, the store of pending requests | stash, ask, approve, deny, run, save, load | tool worker, chat window, island, control-plane page |
| Approval surfaces (`ChatApp.tsx`, `overlay.tsx`, `ApprovalCard.tsx`, `apps/control_plane_web`) | card of each turn, island card, pending flag | decide, dismiss | local API and control-plane API |
| Typed turns in the chat window (`apps/shell/src/surfaces/ChatApp.tsx`, `lib/shellCommands.ts`, `src-tauri/src/lib.rs` 231-384) | transcript, session, anchors of the provider's conversation, pending flag, active cancels | send, stop, delete, edit, retry, open, create and remove a chat | the streaming endpoint of the Core Service |
| Voice in the chat window (`ChatApp.tsx` 564-795, `lib/voiceTurnSpeech.ts`, `lib/voiceTargetSwitch.ts`) | generation, capture target, listening and dictation flags, last event used, lines to be spoken | dictation, hands-free session, poll of the bridge, progress, filler and reply of a turn | voice commands of the control plane, `send` |
| Voice worker (`control.py`, `controller.py` and `continuous_capture.py` in `packages/voice_worker_runtime`; its commands come by `packages/control_plane_api/voice.py`) | facade lock, loop thread and stop event, lifecycle, queued listen, playback flags | start, stop, pause, resume, reload, listen, speak, the wake loop | microphone, loudspeaker, recognisers |
| Provider choice (`packages/control_plane_api/providers.py`, `main.py` 1222-1300, 2150-2200) | catalog, secrets, their two files; the executor's client, name, link, model | select, connect, set and remove a secret, `configure_provider`, the swap of a turn | worker clients |
| Shell supervisor and Windows service (`supervisor.rs`, `service.rs` and `lib.rs` in `apps/shell/src-tauri/src`) | three flags, the virtual environment, the marker of the wheel in it, child processes, status | start, retry, install, launch, supervise, stop | Core Service and voice worker processes |
| State bus and state stream (`packages/state_bus/bus.py`, `packages/control_plane_api/asgi_app.py`, `src-tauri/src/state_stream.rs`) | latest event, subscribers, a queue for each stream | publish, subscribe, read, connect again | shell, overlay |
| Connector scheduler (`packages/adapters/connectors/scheduler.py`) | cursor, hashes of what was seen | `tick` | connectors, memory |
| Sessions, memory, telemetry, prompts, contracts, control-plane pages | files and records | single calls | Core Service |

Hard behaviours, by component, and what makes the component correct:

* **Worker client.** Turn threads share one process.  Answers are matched by a
  trace id that a whole turn shares; a timeout leaves the answer on its way;
  a worker may die at any point, and its pipes close before its exit status is
  known; the client respawns.  It is correct when no process is lost, when
  frames reach the caller whose command they answer, and when every call ends.
* **Approvals.** The stash is shared by threads of concurrent turns, by the
  event loop that serves resumes, and by a file that is written without a lock
  and without an atomic rename.  Two windows can decide.  The service may crash
  anywhere and loads the file on its start.  The model writes the arguments of a call,
  and with them may answer a question meant for the user.  It is correct when an approved
  call runs at most once, when nothing runs without its approvals, and when
  the file tells the truth after a restart.
* **Agentic loop.** A model that asks for calls, bounded by a step cap, under
  retries.  It is correct when the retries are bounded, when every call is answered
  to the model, when nothing risky runs inside the loop, and when an answer does
  not pass for an action.
* **Typed turns.** The result of a turn comes twice, by an event and by the
  return of the command, in any order and over a body that may break; the
  transcript it is written to may meanwhile be cut, edited or replaced by that
  of another chat.  Correct: a result is never lost, an answer stands under its
  question and stays whole, a turn continues from a response that exists.
* **Voice in the window.** Callbacks await commands that take as long as
  somebody speaks, while the user stops and starts sessions; a turn speaks its
  progress, line by line, a filler, and its reply.  Correct: an
  utterance is used once, a stopped session neither listens nor speaks, the
  buttons come back.
* **Voice worker.** Commands and the wake loop contend for one lock; a stop gives
  up on a slow loop after two seconds and forgets it; a listen is queued in one
  slot for a loop that may be about to end.  Correct: a stop quiets every
  loop, a queued listen is served, commands return.
* **Provider choice.** A choice is applied field by field, without a lock, while
  turns read the fields, replace the client themselves, and call it; two
  files are written one after the other.  Correct: the executor ends with
  the choice, calls use it, a replaced worker stops, a restart finds it.
* **Supervisor.** Several installations may be on their way; each may be broken off
  by a crash, an error or a stop, and leaves its traces on the disk, where hosts of
  several versions use one environment, and a tool may go on without the host that
  started it.  Correct: a
  service runs from a whole installation, one thread looks after it, and what
  ended is started again.
* **State bus and stream.** Subscribers are called outside the lock, queues drop,
  subscriptions are refused, streams break.  Correct: the windows end with the
  last state.

Behaviours that were read and are no hazard of a property here, for lack of a
statement to check: a cancel waits for the lock of the very stream it would
cancel (`main.py` 838); a provider error in a repair attempt sends the write
route to an approval without a call (`main.py` 1663); the island is told of an approval before
the store lists it and shows the oldest (`main.py` 1703, `overlay.tsx` 147); the grounding check reads the
messages of one step (`agentic_tools.py` 263); a shutdown during a backoff is seen
after it (`supervisor.rs` 941); `ignoreNextVoiceTranscript` stays set and swallows
the next command (`ChatApp.tsx` 652); the finally of a stopped turn clears
`pendingRef` of the next (`ChatApp.tsx` 417); a stream that fails to open leaves
`_continuous_active` set (`controller.py` 825); the read timeout of the state
stream is its heartbeat, five seconds each (`state_stream.rs` 64); a secret that cannot
be decrypted is gone with the next save (`providers.py` 494).

## 2. Modules

| Module | What it is |
|---|---|
| `WorkerClient` | the worker client with its worker process and reader thread |
| `RpcService` | what the callers of a worker client rely on; `WorkerClient` is shown to implement it |
| `WorkerClient_proofs` | proofs about `WorkerClient` |
| `Approvals` | the approval protocol: handlers, stash, file, store, tool worker, windows, crashes |
| `ApprovedRuns` | what the user is promised of risky calls; `Approvals` is shown to implement it |
| `Approvals_proofs` | proofs about `Approvals` |
| `AgenticLoop` | one turn that drives the model: the tool loop, its retries, its fallbacks, approved calls |
| `AgenticLoop_proofs` | proofs about `AgenticLoop` |
| `ProviderSwitch` | the control plane's catalog, the executor that follows it, turns that use it |
| `ProviderSwitch_proofs` | proofs about `ProviderSwitch` |
| `ChatWindow` | typed turns: the chat window, the shell's command, the frames of a stream |
| `ChatWindow_proofs` | proofs about `ChatWindow` |
| `VoiceSession` | dictation, hands-free session and bridge of the chat window |
| `VoiceSession_proofs` | proofs about `VoiceSession` |
| `VoiceWorker` | the facade of the voice worker and its wake loops |
| `VoiceWorker_proofs` | proofs about `VoiceWorker` |
| `Supervisor` | installation, launch and supervision, over successive host processes |
| `Supervisor_proofs` | proofs about `Supervisor`, and about `StateStream`, of which it takes an instance |
| `StateStream` | the state bus, the streams of the control plane, the reader of the shell |
| `MCWorkerClient`, `MCApprovals` | symmetry sets for TLC |

They compose by what each says of the next: `WorkerClient` implements
`RpcService`, and `ProviderSwitch` uses a client as `RpcService` describes it (calls and
shutdowns exclude each other, a call starts a worker, a shutdown leaves none, which is
`WorkerClient_proofs!ShutdownEndsAll`);
`Approvals` continues where `AgenticLoop` pauses; `VoiceSession` uses a worker
whose listens are queued, served or given up as in `VoiceWorker`; `ChatWindow` reads the frames
of a turn that `AgenticLoop` and `Approvals` end.

Definitions whose name is that of another with a suffix (`ReplyWithoutOk`,
`PopUnsaved`, ...), or that are marked "Wrong", stand next to it and are
deliberately wrong: each is a bug
somebody could write there.  No specification uses them; putting one in the
place of the definition it follows makes TLC violate the property paired with
it under `mutants` in `PROJECT.json`, which shows that the property is sensitive to
that code.

### 2.1 WorkerClient

`lock`, `process` and `spawned` are `self._lock`, `self._process` and the
identity of the process the reader queue belongs to.  `pc` is the line a thread
is at: `want` (at the `with`), `begin` (inside it), `send` (about to write a
line), `await` (in `_await_response_locked`), `reap` (in `process.wait`).
`status`, `stdin`, `sent`, `queue` and `eof` describe each process, its input,
the progress of its current stream, its reader queue and the marker that the
reader thread puts at the end of its output.  `via`, `got`, `outcome` and
`abandoned` are history.

| Action | Code |
|---|---|
| `Call`, `Acquire` | a turn thread enters `request`, `stream` or `shutdown` |
| `Reuse`, `Spawn`, `SpawnFails`, `Started`, `StartRefused` | `_ensure_started_locked` |
| `NothingToStop`, `StopAnswered`, `Reap` | `shutdown` |
| `Send`, `SendFails` | `_send_locked`, and its failures |
| `Discard`, `Deliver`, `Closed`, `Timeout` | `_await_response_locked`: another trace, a match, the end marker, `queue.Empty` |
| `WorkerReply`, `WorkerDelta`, `WorkerFinish`, `WorkerRejects` | `services/provider_worker/main.py` and `controller.py` |
| `Crash`, `Exit`, `ReaderEof` | the process dies, `poll()` sees it, the reader thread sees it |

A line the worker prints is in the queue at once: one that is still in the pipe
is, to the client, one that was not printed yet.  A timeout is possible whenever
the queue is empty, since the model has no clock and the worker may be slow.
The queue of an earlier process is out of reach of every caller (`queue.Queue()`
is replaced), so the marker of its reader thread is not modelled.

### 2.2 Approvals

A *handler* is a thread that runs a streamed turn, or the event loop, which
serves resumes one at a time because `POST /v1/turns` calls the turn handler on
the loop (`packages/local_api/asgi_app.py` 71-88).  `pc` and `after` give the
handler's place.  `autoMarvex` is the policy, fixed for a behaviour.  `stash` is `_pending_automation`; `disk` is what loading its
file would give (a file that does not parse loads as nothing); `store` is the
in-memory approval store, an ordered dict.  `snap`, `disturbed` and `held` are
a handler's unfinished save, the fact that the dict it iterates over changed size,
and the call it popped.  `chat`, `busy`, `listening`, `island`, `deciding` and
`alert` are the windows.  `calls`, `asked`, `runs`, `approved`, `denied` and
`unsaved` are history.

| Action | Code |
|---|---|
| `Send`, `Stop`, `ChatDecide` | `ChatApp.tsx`: send, stop, `decideChatApproval` |
| `IslandShow`, `IslandDecide`, `IslandResume`, `IslandDismiss` | `overlay.tsx`, `ApprovalCard.tsx`: the card, its two requests |
| `WebDecide` | `apps/control_plane_web/src/views/Approvals.tsx` |
| `Author`, `LoopEnds`, `Alert`, `Ask` | the end of `_run_agentic_tool_loop` (`main.py` 1664-1760) |
| `Snapshot`, `SnapshotRaises`, `Truncate`, `Write`, `SaveFails` | `save_pending_automation_state`, `save_json_state` |
| `Accept`, `Refuse`, `Divert` | the dispatch of a resume: approved, denied, or not an approval at all |
| `Pop`, `Missing`, `NeedsSecond`, `Run`, `RunRefused`, `RunRaises` | `_run_approval_path` |
| `CrashAndRestart` | the process dies; `__init__` loads the file (`main.py` 1181-1184) |

A tool call is its number in `calls`; what matters of it is its turn, whether it is one that
the tool worker asks about twice (`destructive`), whether the save drops some of its
arguments (`lossy`), and whether the model has written `destructive_action_decision: "approve"`
among them (`preset`), which nothing on the way to the stash removes when the name it called is not in
the registry of its turn (`agentic_tools.py` 134-136, 225-232).  An entry is `confirmed` when that
argument is there, from the model or from the first approval; `AsksTwice` are the destructive
calls without it, the ones for which the worker asks (`controller.py` 182-187).
An approval id is a function of its turn, as in the code.

Simplified: a cancel is a denial; the decision to approve a `memory.*` call is
not modelled; the check that a resume names the approval it answers is left out
(the windows always name it); an island card never replaces one whose decision
is in flight; the time a resume spends in the intent worker is a single step.

### 2.3 AgenticLoop

One turn, from the call of `_run_agentic_tool_loop` to its end, through any
number of approvals.  `autoMarvex` is the policy and `route` is the route of `submit_turn`; `origin` says
whether the loop was entered by the turn, with the result of an approved call
(`continue`), or with the failure of one (`retry`, numbered by `attempt`).  `pc`
is where the thread is: about to call the provider (`send`), in
`execute_tool_calls` (`call`), past `run_tool_loop` (`judge`), running an approved call
(`run`), in the continuation loop of the default route (`fallback`).  `step`, `tools`,
`repaired`, `executed`, `text`, `status` are locals of `run_tool_loop` and its
`LoopResult`; `mode` and `tries` are `metadata_retry_note` and
`required_tool_attempts`; `asked` is the response that `previous_response_id`
names; `pending` is the call in the stash with the response it came from.  `depth` counts the
approvals by the mode that are on the stack.  `sends` and `loops` are history.

| Action | Code |
|---|---|
| `Enter` | the call of the route in `submit_turn` |
| `ProviderFails`, `ProviderAnswers`, `ProviderOnlyThinks`, `ProviderCalls` | `send` and what `run_tool_loop` does with a `ProviderStep` |
| `CallTools` | `execute_tool_calls`, and the order in which its outcome is looked at |
| `RetryAfterError`, `RetryFails`, `RequireCall` | the repair attempts of `_run_agentic_tool_loop` |
| `Pause`, `AskUser`, `Blocked`, `Answer` | the results it returns |
| `FallBackToProvider`, `FallBackToAnswer`, `FallBackToApproval` | it returns `None`: what the caller does |
| `FallbackContinues`, `FallbackRaises` | the continuation loop of the default route |
| `Approve`, `Reject` | the user decides |
| `RunWantsSecond`, `RunApproved`, `RunRaises`, `RetryApproved` | `_run_approval_path`, `_continue_model_after_approved_tool`, `_retry_model_after_approved_tool_failure` |

The provider answers anything and the tools return anything: a call is one of
five kinds, and its kind says which outcomes `execute_tool_calls` can give it.  A
tool message is the call it answers, and whether it lists the sources of a search.

Simplified: `memory.*` calls count as safe, which is how they run in the loop; the
agentic tools are enabled; a response always has an id; the route of a web
question counts only the calls of its loop, not those of the grounded path that may follow;
what follows an approved call that neither continues nor retries is its result.
Routes that drive no model loop belong to the turn pipeline.  A response holds several
calls although the request asks for one at a time (`parallel_tool_calls`), because
that is the provider's to keep and the code handles batches.

### 2.4 ProviderSwitch

`active`, `rows` and `secrets` are `InMemoryProviderControl`; `catalogFile` and
`secretFile` what loading its two files would give.  `ctl` is the control thread
with the choice it carries; `clients` are the worker clients made, `live` those
whose worker may run, and `current`, `setting`, `model`, `candidate` the fields of
the executor that `configure_provider` and `submit_turn` write one by one.  `turn`
holds the place of each turn thread with the client and model it has read.  The
rest is bounds and history.

| Action | Code |
|---|---|
| `SetActiveProvider`, `SetActiveModel`, `RefreshModels`, `SetConnection`, `RefuseConnection`, `SetOther`, `SetSecret`, `RemoveSecret` | the requests of `providers.py` |
| `OpenSecrets`, `WriteSecrets`, `OpenCatalog`, `WriteCatalog`, `SaveFails` | the saves: a file that is open for writing and not yet written loads as nothing |
| `CompareChoice`, `IgnoreChoice`, `StopOld`, `ReplaceClient`, `SetName`, `SetLink`, `SetModel`, `RebuildSelection` | `_apply_provider_control` and `configure_provider` |
| `Select`, `Compare`, `StopSelected`, `ReplaceSelected`, `NameSelected`, `ModelSelected` | the selection of `submit_turn` (`main.py` 2148-2164) |
| `Build`, `Send`, `Call`, `CallEnds` | a call of the turn: the client and the model are read before its lock is taken |
| `CrashAndRestart` | the process dies; `__init__` loads the files and configures the executor |

Simplified: secrets from the environment, the special URL of Google AI Studio,
reasoning effort and the automation fields (one request, `SetOther`, that the executor does
not follow), a secret that cannot be decrypted, crashes of the worker (they are
in `WorkerClient`); a selection over one candidate always succeeds.

### 2.5 VoiceWorker

`lock`, `tickStop` and `tickThread` are the facade's lock, event and thread
handle; `life`, `enabled`, `continuous`, `manual`, `playing` and `cooling` the
flags of the controller; `loop` is the place of each thread that the facade
started, forgotten ones included, and `echo` says in whose queue there are frames with
Marvex's voice.  `ctl` is the control thread with its command.

| Action | Code |
|---|---|
| `Ask`, `Serve`, `Finish` | a command is asked for, takes the lock and is handled (`handle`), gives it back |
| `HandleLife`, `HandleReload`, `QueueListen`, `Speak`, `SpeakWithBargeIn`, `SpeakFails`, `TestTts`, `DirectListen`, `Hold` and the ends of the long ones | the handlers of `controller.py` |
| `Ensure`, `Close`, `Join`, `JoinTimesOut` | `_ensure_tick_thread`, `_stop_tick_thread` (`control.py` 116-144) |
| `Refuse`, `Start`, `Leave`, `ReadFrame`, `TakeListen`, `Grab`, `Gate`, `Match`, `Miss`, `Detect`, `EndCapture` | `run_wake_listen_loop` and `_capture_utterance` |
| `CoolEnds` | the time of `_capture_resume_at` comes |

Not modelled: the mode without a microphone, the debug dump and the second decode of
the wake word, the counters of `WakewordWorkerSupervisor`, the JSON-lines front end, and
`VoiceWorkerProcessSupervisor`, which only tests use.  `test_mic` and `test_stt`
read the microphone beside the loop and are commands that hold the lock.

### 2.6 VoiceSession

`ui` holds the refs and the state of the component (generation, capture target,
listening, dictation, pending, the last event used); `tasks` are the awaits under
way, each with what its callback closed over, and the lines that wait for the one being
spoken; `slot` and `events` are the worker's
queued listen and its transcription events; `epoch` counts the activations of the
poll effect.

| Action | Code |
|---|---|
| `ToggleDictation`, `StartSession`, `StopSession`, `Type`, `StopTurn` | the buttons and the composer |
| `RequestListen`, `CueEnds`, `ListenAnswered`, `RequestFails` | `requestVoiceListen` |
| `DictateAnswered` | `toggleDictation` after its await |
| `Poll`, `PollAnswered`, `Consume` | the effect of the bridge and `consumeVoiceTranscript` |
| `ReportProgress`, `SpeakFiller`, `NextLine`, `LineEnds` | `reportProgress` with its chain of promises, the timer of the filler (`voiceTurnSpeech.ts` 30-50) |
| `TurnEnds`, `Reply`, `SpeakEnds` | the end of `send` in a voice turn, the lines it then awaits, the spoken reply, and the next listen (51-69, `handleVoiceTranscript`) |
| `TypedEnds` | `send` for what was typed |
| `SayWakeWord`, `CaptureQueued`, `LoopChanges`, `ServeRequest` | the worker and the control plane |

Whether to speak is asked when a line is queued, when the filler's time has come, and before
the reply, and not when a queued line comes to be spoken.  A line that cannot be
spoken ends like one that was.

Simplified: the window is not reloaded; the wake cue, partial transcripts and the
notice about other languages change nothing here; the time after which the filler is due has no
length; a turn reports at most `MaxLines` lines; events stay in the worker's window of twenty;
their ids do not start again with the Core Service; `pending` is not held by an
approval at the same time.

### 2.7 Supervisor

`shutdown`, `launched` and `bootstrapping` are the three flags; `ctl` and `thr` the
controller threads and the supervising threads they launch, with their child;
`venv` is the environment on the disk: the wheel that is installed in it to the end, if one is
(`pkg`), whether the command is there (`script`), and the wheel whose fingerprint the marker
file holds (`marker`).  The file is beside the environment and no installation
removes it before it begins, so that it may speak of another wheel than the one there, or of none that
is whole.  `bundle` is the wheel that comes with the host; `strays` are the tools that the end of a
host left running, by the wheel they install; `torn` is history, below.
`host` is the process, shell or Windows service, with the place of its main thread; `status` is what `SupervisorStatus` reports.

| Action | Code |
|---|---|
| `Check`, `Create`, `Begin`, `Install`, `Record`, `WriteManifest`, `Clear`, `TestShutdown`, `Launch` | `spawn_controller`, `ensure_runtime` and the installation |
| `AskRetry`, `Retry` | `retry_setup`, whose test and start are two steps |
| `Test`, `Spawn`, `SpawnFails`, `StillRuns`, `SeesEnd`, `SeesShutdown`, `SeesNone`, `WatchFails`, `Kill`, `Wake` | `supervise_service` |
| `ChildEnds` | a backend process ends |
| `Stop`, `WaitBegins`, `NothingToWaitFor`, `WaitEnds`, `WaitTimesOut`, `Quit` | `service.rs` and the exit of the shell (`lib.rs`) |
| `Crash`, `Restart` | the host dies and another starts, perhaps with another wheel; the disk is as it was |
| `StrayWorks` | a `uv` that no host waits for any more goes on changing the environment, and may end |

The first host finds any disk that an earlier one can have left (`Init`): an environment
that is missing, broken or whole, with no marker, its own, or that of another wheel.

`torn` says that what the marker vouches for was disturbed: beside the marker of an earlier
installation one failed or was broken off, or a stray tool changed the environment, or the
marker could not be written (`let _ = record_installed_runtime_wheel`).  It is lowered when an
installation is recorded.  `RunsWhole` excepts it, and section 5 says what the code does then.

Not modelled: the attach mode, in which the shell supervises nothing; two
hosts at a time; what becomes of backend processes whose host is gone; the token broker.  The
console-script check does not see services that are started by `python -m`.

### 2.8 StateStream

`snapshot` and `subscribers` are the bus; `pub` is, for each publishing thread,
its event and whom it has yet to call; `stream` is `iter_state_sse_frames` with the
callbacks posted to its event loop, its queue and whether its client is there; `wire` are
frames on their way, `reads` the stream the shell reads, `shown` what it emitted.

| Action | Code |
|---|---|
| `Publish`, `Call` | `publish`: the snapshot under the lock, the calls outside it |
| `Enqueue` | `call_soon_threadsafe` and `put_nowait`, which drops when the queue is full |
| `SendEvent`, `Heartbeat`, `End` | the generator: an event, a timeout, a client that is gone |
| `Connect`, `ReadFrame`, `SeeEnd`, `GiveUp` | `state_stream.rs` |
| `Crash`, `Restart` | the Core Service |

An event is the number of its publication.  Not modelled: the shutdown flag of the
shell, the WSGI variant (`state.py` 46-103), the listeners of the windows
(`ChatApp.tsx` 218, `overlay.tsx` 136).

### 2.9 ChatWindow

`session`, `chats`, `anchor`, `listed` and `pending` are `sessionIdRef`, the
messages on the screen with the cached ones, `previousResponseIdsRef`, the side bar and
`pendingRef`; `phase` and `sent` are each `send` with its arguments, and `streamed`
whether it has a delta.  `shell`, `cancels`, `result` are
`submit_chat_turn_stream`, `active_chat_cancels` and `final_result`; `told` is what the
Core Service has sent; `events` and `invoke` are the two ways on which a result comes.
`deleted`, `strayed` are history.

| Action | Code |
|---|---|
| `Send`, `SessionReady`, `SessionFails` | `send` up to its await, `ensureBackendSession` |
| `Deliver`, `InvokeReturns` | the listener and the race of `submitChatTurnStream`, and what follows in `send` |
| `Stop` | `stopChatTurn`, `cancel_active_chat_turn` |
| `DeleteMessage`, `EditUserMessage`, `RetryAssistantMessage` | the functions of these names, with `syncSessionResponseAnchor` |
| `OpenSession`, `StartNewSession`, `RemoveSession` | the functions of these names |
| `ShellStarts`, `ShellOpens`, `ShellReads`, `StreamEnds`, `ShellCancelled` | `submit_chat_turn_stream`, against `_stream_turn_events` |

A patch of a bubble replaces the fields it names (`Patched`, and what some patches add to
it): the spread of `updateLastAssistant` keeps what the patch leaves out, `streaming` for
one.  `Written` is the filter of `stopChatTurn`, as a recursive function: the prover knows
nothing of `SelectSeq`, and nothing of the empty string, in the place of which the text of a
message is `"empty"`.

Simplified: a turn has one response id; tool, status and commentary frames are
deltas; events of different turns are not ordered; `ensureBackendSession` is one step;
a chat is not renamed; approval cards are left out, and with them the bubble that
`decideChatApproval` adds when its request fails (`ChatApp.tsx` 480), perhaps below that
of a turn under way; the Core Service does not restart; the anchor in the cached index
is that of `previousResponseIdsRef`; Retry and Delete of an answer are offered, as on the
screen, when the bubble does not stream.


## 3. What is checked

Every bound below is a constant of the module.  Deadlock is never checked: the counters of the
models run out, and a turn, a window or a service that nobody uses any more stops.

### WorkerClient

| Run | Bounds | Properties |
|---|---|---|
| `worker_calls` | 2 threads, 2 traces, 2 calls, 2 processes, 1 delta | `TypeOK`, `LiveWorkerIsCurrent`, `OwnFramesInOrder`, `ImplementsService`, `EveryCallReturns` |

It shows that no worker process is lost, what a caller receives, that the client
implements `RpcService`, and that every call ends.  Two threads make every
contention for the lock there is, since a third only waits; two processes give
one respawn and with it frames of a dead worker; two calls are one that fails and
one that inherits what it left, a shutdown included; two traces are two turns.

`OwnFramesInOrder` is conditional on purpose: it says what holds *unless* an
earlier call of the same trace timed out on the same process.  What happens then is
`StaleFramesDiscarded` in section 5.

*Fairness.*  Weak fairness of each caller's steps: a thread that can go on does, and a
wait on the queue ends with a frame or with the timeout that
`queue.get(timeout=...)` guarantees.  Nothing is assumed of the worker: it may
hang, crash, or answer under a foreign trace.  The lock is not fair in the code; a
bounded number of calls keeps that from mattering, so the run does not speak
about starvation by an endless stream of other calls.

### Approvals

| Run | Bounds | Properties |
|---|---|---|
| `approvals_core` | 1 turn, 2 calls, 2 decisions, 1 crash, both policies | `TypeOK`, `AtMostOnce`, `RunsAreApproved`, `ImplementsPromise` |
| `approvals_two` | 2 turns, 2 calls, 1 decision, 1 crash, both policies | `FileIsCurrent` |

The first shows that a call runs once and with its approvals (two, if the worker asks twice), and that the protocol implements
`ApprovedRuns`, which knows nothing of stash, file, handlers and windows; the second that the
file follows a stash that two turns share.  Two decisions are what a destructive call needs, and
what the chat and the island can give at once; two turns are two threads in one
save; two calls are a call and the one the model makes after it; one crash
separates a history with one from a history without, which is what the properties tell apart.

`AtMostOnce` holds in two circumstances that the code must both get right:
without a crash, always, because the pop claims the call; with crashes, as long
as no save was lost, because the pop is saved before the call runs.  `unsaved`
says that a save raised, failed or wrote a stash that had changed meanwhile: the
code swallows all three, and after one of them a restart may bring back a call that ran.

### AgenticLoop

| Run | Bounds | Properties |
|---|---|---|
| `loop_turn` | 2 steps, 3 attempts, 2 calls in a response, depth 1, both policies | `TypeOK`, `AnswersFit`, `FirstRiskyWaits`, `RequiredToolRan`, `ProviderCallsBounded`, `RiskyCallPauses` |

It shows what the provider is told, what waits, what counts as an answer, and that the
retries are counted: the loops of a submission (`LoopsBounded`) and the calls in them
(`SendsBounded`), which together are `ProviderCallsBounded`.  Two steps are a call and what follows it, or a call and
the cap; two calls are a risky one before or after another; three attempts are
a first, a middle and a last one.  The code has five; the proofs hold for any number.
Under Auto Marvex an approval by the mode recurses, and what bounds it is the stack of
Python, not a count: `MaxDepth` stands for that (`RunRaises`), and depth 1 is an
approval by the mode inside the turn.

### ProviderSwitch

| Run | Bounds | Properties |
|---|---|---|
| `provider_switch` | 2 providers, 1 model, URL and secret, 2 requests, 1 turn thread with 2 calls, 1 crash | `TypeOK`, `ExecutorFollowsCatalog`, `ReplacedWorkersStop`, `CallsUseChoice`, `RestartKeepsChoice`, `NobodyHangs` |

After any sequence of requests, turns and restarts the executor holds the choice and
calls use it, unless it was applied while a turn was selecting (section 5); the only
replaced client whose worker still runs is one that a turn had hold of and started again;
a restart finds the choice in the two files, unless a save failed or the crash fell
between the opening of a file and its writing; no request and no turn waits for ever.
Two requests are a choice and one that undoes it, or one that
fails between its two files; the control plane serves them one at a time, so that one
control thread is all there is.  One turn thread meets a choice at each of its steps; two calls
are one before and one after it.  Each field has one value beside its absence, because all that the code asks is
whether it differs.

*Fairness.*  Weak fairness of the control thread and of the turn threads: they are
straight-line code, and a call ends because `WorkerClient` ends it (`EveryCallReturns`).

### ChatWindow

| Run | Bounds | Properties |
|---|---|---|
| `chat_window` | 2 sessions, 2 turns, 1 delta, 2 other clicks | `TypeOK`, `AnswersInPlace`, `ResultIsShown`, `SendContinuesFromLive` |
| `chat_question` | 1 session, 3 turns, no delta, 2 clicks | `UnderItsQuestion`, violated: section 5 |

A result that the shell has read is shown, whichever of its two ways it comes and
wherever the body breaks; answers stay whole and under their questions through edits,
deletions and late events; a question continues from a response that was not
deleted.  Two turns are one that is stopped or edited and one whose transcript the other's
late events could reach; two sessions are one to leave and one to come to.
`AnswersInPlace` excepts turns that went on after the user stopped or left them and turns that are
retried, `SendContinuesFromLive` the former: section 5 says what happens to those.
No fairness: these are safety properties.

### VoiceWorker

| Run | Bounds | Properties |
|---|---|---|
| `voice_loop` | 2 loops, 4 commands | `TypeOK`, `StopQuiets`, `ListenIsServed`, `CommandsTakeEffect` |

A stop quiets every loop, also one it did not wait for, but for a capture under
way; a queued listen is captured unless a later one takes its slot or the loop is stopped;
every command returns and has its effect.  Two loops are one that is stopped and
forgotten and the one that a later start makes; four commands are start, stop, start and a
listen, or a second stop.

*Fairness.*  Threads run, sounds, captures and decodes end, and the microphone delivers
frames: all of them are calls with an end.  The facade's lock needs strong
fairness: a loop takes it again for every frame, so that a command that waits for
it is enabled again and again but not continuously; the lock is free for the
time of a frame, about a tenth of a second, in which a waiting thread gets it.  The time after a sound
in which nothing is captured (`CoolEnds`) ends once each loop has had it to empty its queue of
that sound, unless it was kept from reading by the lock, a decode or a capture: this is an assumption about timing, and
no property but `NoSelfCapture` (section 5) is sensitive to it.

### VoiceSession

| Run | Bounds | Properties |
|---|---|---|
| `voice_window` | 3 clicks, 1 utterance, 3 polls, 2 lines | `TypeOK`, `UsedOnce`, `QuietAfterStop`, `ButtonsComeBack` |
| `session_dictation` | 1 click, 1 utterance, 1 poll, 1 line | `DictationStays`, violated: section 5 |

An utterance is used once though many polls see it; a session that was stopped
neither listens nor begins to speak, but for the progress that was queued by then (section 5);
the microphone buttons come back.  Two lines are one that is spoken and one that waits for it.  Three clicks
are start, stop and start, which is a stopped session whose awaits end under
its successor; three polls are two that overlap in successive activations and one that sees what they left.

*Fairness.*  What the window awaits ends: each request of the control plane is
answered or fails (`CommandsTakeEffect` for the commands of the worker), a turn ends, and so does
each line that is spoken.

### Supervisor

| Run | Bounds | Properties |
|---|---|---|
| `supervisor_host` | 1 service, 2 wheels, 2 controllers for each host, 2 hosts | `TypeOK`, `OneThreadPerService`, `RunsWhole`, `ComesBack` |

Two controllers are the first installation and a retry, which is the race for
`launched`; two hosts are one that dies in the middle of an installation and one that finds what it left;
two wheels are the one that a host comes with and the one of an earlier host, whose marker may
still be there.  The threads of different services have nothing to do with each other but the flag
`shutdown`, which they only read, and the wait for all of them, and every action looks at one of them, so that
one service has the interleavings that matter; the theorems of section 4 are for any number.
`RunsWhole` says that no service is spawned from an environment without the host's own wheel, installed to
the end, unless what the marker vouches for was disturbed, `ComesBack` that what ended is started again unless the host is stopped.

*Fairness.*  Weak fairness of the threads; tools and processes end by
themselves or are killed.  A stray tool is not assumed to end.  Stopping is never forced, and `WaitTimesOut` may happen at any
point of the wait.

### StateStream

| Run | Bounds | Properties |
|---|---|---|
| `state_stream` | 2 publishers, 3 events, 2 streams, 1 subscriber, a queue and a wire of 1, 1 crash, 2 breaks | `CallsStreams`, `ShownFollows` |

The bus calls only streams that are there, within its limit, so that a stream that ended makes
room for the next; and once the publications cease the windows end with the last state.  The limits of the code
(64 subscribers, a queue of 128) are set to one so that both are met; two
publishers are what it takes to call a subscriber in the wrong order; a third
event is one that finds the queue full.

*Fairness.*  Publishing threads, the event loop and the reader run, and the Core
Service is started again (`Supervisor!ComesBack`).  Nobody has to publish.  Breaks
are bounded: with heartbeat and read timeout both at five seconds nothing in the
code keeps a quiet stream from timing out each time, and a stream that breaks for ever
shows nothing.

## 4. What is proved

| Theorem | Property | For |
|---|---|---|
| `WorkerClient_proofs!TypeCorrect` | `TypeOK` | any callers, traces and bounds |
| `WorkerClient_proofs!NoOrphanWorker` | `LiveWorkerIsCurrent` | |
| `WorkerClient_proofs!FreshQueue` | a caller receives frames of one process only (`FramesOfOwnProcess`) | |
| `WorkerClient_proofs!TimeoutSparesWorker` | only a shutdown or a refused start kills a worker (`SlowWorkerIsNotKilled`) | |
| `WorkerClient_proofs!FramesInOrder` | `OwnFramesInOrder` | |
| `WorkerClient_proofs!Refinement` | `ImplementsService` | |
| `WorkerClient_proofs!AnswersAreWhole` | a call returns with its whole answer and nothing else (`WholeAnswers`) | |
| `WorkerClient_proofs!ShutdownEndsAll` | a shutdown leaves no worker alive (`ShutdownLeavesNone`) | |
| `Approvals_proofs!TypeCorrect` | `TypeOK` | any turns and bounds, both policies |
| `Approvals_proofs!RunsAtMostOnce` | `AtMostOnce` | |
| `Approvals_proofs!FileFollowsStash` | `FileIsCurrent` | |
| `Approvals_proofs!RunsNeedApproval` | `RunsAreApproved` | |
| `Approvals_proofs!PromiseKept` | `ImplementsPromise` | |
| `Approvals_proofs!RestartOffers` | a restart offers the calls that were waiting (`RestartOffersWaiting`) | |
| `AgenticLoop_proofs!TypeCorrect` | `TypeOK` | any cap, attempts, batch, depth, both policies |
| `AgenticLoop_proofs!RetriesBounded` | the loops of a submission are accounted for (`LoopsBounded`) | |
| `AgenticLoop_proofs!CallsBounded` | `ProviderCallsBounded` | |
| `AgenticLoop_proofs!RequiredCallsAreMade` | `RequiredToolRan` | |
| `AgenticLoop_proofs!EveryCallAnswered` | `AnswersFit` | |
| `AgenticLoop_proofs!OnlyRiskyWaits` | `FirstRiskyWaits` | |
| `AgenticLoop_proofs!RiskyPauses` | `RiskyCallPauses` | |
| `AgenticLoop_proofs!TurnsAdvance` | every step of a turn leaves less to do (`TurnAdvances`) | |
| `ProviderSwitch_proofs!TypeCorrect` | `TypeOK` | any providers, models, secrets, turns and bounds |
| `ProviderSwitch_proofs!ExecutorFollows` | `ExecutorFollowsCatalog` | |
| `ProviderSwitch_proofs!ReplacedStop` | `ReplacedWorkersStop` | |
| `ProviderSwitch_proofs!CallsUse` | `CallsUseChoice` | |
| `ProviderSwitch_proofs!RestartKeeps` | `RestartKeepsChoice` | |
| `ChatWindow_proofs!TypeCorrect` | `TypeOK` | any sessions, turns, deltas and clicks |
| `ChatWindow_proofs!ResultShown` | `ResultIsShown` | |
| `ChatWindow_proofs!ComposerContinues` | `SendContinuesFromLive` | |
| `ChatWindow_proofs!AnswersStay` | `AnswersInPlace` | |
| `VoiceWorker_proofs!TypeCorrect` | `TypeOK` | any number of loops and of commands |
| `VoiceWorker_proofs!StopsQuietly` | `StopQuiets` | |
| `VoiceWorker_proofs!ListensServedOnce` | a listen is captured once (`ListenOnce`) | |
| `VoiceWorker_proofs!ListensWait` | a queued listen is not lost (`ListenNotLost`) | |
| `VoiceSession_proofs!TypeCorrect` | `TypeOK` | any clicks, utterances and polls |
| `VoiceSession_proofs!UsedButOnce` | `UsedOnce` | |
| `VoiceSession_proofs!StoppedIsQuiet` | `QuietAfterStop` | |
| `Supervisor_proofs!TypeCorrect` | `TypeOK` | any finite set of services, any controllers and hosts |
| `Supervisor_proofs!OneThread` | `OneThreadPerService` | |
| `Supervisor_proofs!SpawnsWhole` | `RunsWhole` | |
| `Supervisor_proofs!NoneLeftBehind` | a stop that saw all services stopped leaves no process behind (`StopLeavesNone`) | |
| `Supervisor_proofs!CallsOnlyStreams` | `CallsStreams` of `StateStream` | any publishers, any finite set of streams, any sizes |

The properties in words have no run of their own: TLC was run on each of them, with the constants
of its component's run, before the proof.  Each theorem assumes only `ConstantsAssumption` of its module (that of
`StateStream` is the hypothesis `StreamConstants`): the markers that stand for no thread, no
turn, no session, no model and so on are none of these; the bounds are natural numbers (the step cap,
the batch, the controllers, the hosts and the loops at least one, the attempts at least two); the first
provider and the defaults exist; there is a session.  Before it was proved, each inductive
invariant was checked by TLC on instances of about the size of those in section 3.

*Worker client.*  That a live worker is the current one is not inductive: a
spawn must know that no earlier process lives.  `IInv` adds that the lock is held
by exactly the thread inside the `with` (`LockHeld`), that the handle is empty
or the last process spawned (`HandleIsLastSpawned`), that later processes do not
exist yet (`NotSpawnedYet`), that a thread on the wire has a handle
(`HandleOnWire`), and that a shutdown never starts a worker
(`StopStartsNothing`, `ReapStops`).  For `FramesOfOwnProcess`, frames in a queue are
marked with the process of that queue (`QueueTagged`), a thread that waits wrote to the
current process (`WrittenToCurrent`), and it has received nothing before its
command is sent (`NothingReceivedYet`).

The order of a caller's frames (`FInv`) depends on what is still on its way.  `Clean` says that
nothing of a trace is in the input or the queue of the current process unless a caller of that trace waits or a
call of it was abandoned; hence a command is written where nothing can be mistaken for its answer.  From then on
`OwnChain` holds the answer together: the frames in the queue go on from the last
one taken, without a gap (`Chained`), and what the worker has yet to print goes on from
the last one in the queue (`Remaining`).  `EndMarker` and `IdleWorker` say what a dead or an
idle worker leaves.  The refinement maps the place of a caller
to its stage (`StageBar`), its command and trace to its request, and what it got, without
the numbers, to what was delivered; each action is a step of `RpcService` or a stutter.

Whether an answer is whole does not depend on what was abandoned: a frame is taken by a thread
that waits, ends its wait if it ends the answer, and is of its trace (`DeliverWhole`), so
`WholeAnswers` is inductive with `IInv`.  That a shutdown leaves no worker follows
from `IInv` and from its last step, which forgets the process after it was reaped or had never started (`StopForgets`).

*Approvals.*  That a call runs at most once follows from where its entry can be.
`EntriesOfTurn` ties every entry to the turn it was authored in; `HeldOnce` says
that a popped call has left the stash and is in no other handler's hands; `HeldIsSaved` that,
with no save lost, no unfinished save and, once the save is written, not the
file either still holds it; `RanIsGone` that a call that ran is
nowhere it could run from.  The file needs `SavesAreCurrent`: a save under way
writes the present stash, or is already known to be lost.  The interleavings
enter through `Put`, which marks the saves of other handlers that it overtakes;
the lemmas about `Put` and `Sanitized` carry that part of every proof, and one
lemma per group of conjuncts shows that each action preserves them.

That a call that ran was approved is a count of decisions.  `AInv` says that a decision on
its way has been used by no call (`DecisionsFresh`), that an entry marked as confirmed, in memory, in
the file or in an unfinished save, has an approval already (`EntriesMarked`), which is what a crash between the
two questions must not forge, and that only the event loop pops (`LoopPops`).  Approvals only grow,
so that what they cleared stays cleared.  A call whose arguments were confirmed by the model is marked with
no approval behind it: `EntriesMarked` is about the calls that are asked about twice, and so are
the two theorems.

`PromiseKept` is the refinement.  `ApprovedRuns` sees the calls that were authored, the
decisions that let one go on, and the calls that ran, with `AsksTwice` as the number of
decisions that a call needs; `Author`, `Pop` and the steps that run a call are its
three actions, every other action a stutter.  `Run` of the promise asks that a call has not run before, which is
`HeldOnce` and `RanIsGone`, and that as many decisions as it needs stand behind
it, which is `AInv`; `Decide` asks that a decision has served no other call (`DecisionsFresh`).  Its flag `lost` rises with the
first crash that goes by a file that a save left behind, from when on a call may come back.
`RestartOffers` is the other half: what a crash brings back is `FileIsCurrent` at that moment.

*Agentic loop.*  `CountInv` keeps an account of the provider calls: every loop
but the last has made at most `MaxSteps` of them and the last one `step` (`Budget`), which
needs to know where in the turn a loop exists and that an error is retried only in the
first (`Places`).  `AnswerInv` adds to `RequiredToolRan` that nothing has been answered before the
end.  `DataInv` says that a call that is about to run, or whose failure is retried,
is still known (`CallKept`), which types the messages that resume a turn; `AnswersFit`
and `FirstRiskyWaits` are inductive with it.  `RiskyCallPauses` is an action property: from the place where
calls are executed each action is excluded but `CallTools`, which pauses.

That a turn ends is liveness, but what it rests on is not: `Measure` is five naturals, compared
lexicographically (what may still be recursed into, tried again, left, called and done within a step),
and `StepFalls` shows for each action which of them it makes smaller.  No sequence of answers of the provider keeps
a turn going.

*Provider choice.*  All is said for behaviours in which no choice was applied while a turn was
selecting (`Unraced`); without that, TLC refutes it (section 5, 8).  While the control thread
configures, fields of the executor are of two choices: `InForce` says, by the place of that
thread, which are of which.  `Apart` keeps configuration and selection from overlapping, so
that a turn that selects finds the last choice and replaces no client (`SelectsChoice`).  `Workers` and
`FreshCalls` follow the clients and the turns from there.  For a restart, `SavedSecrets` and
`SavedCatalog` say at each place of a request which of the two files is behind
the memory, by what; and `Normal`, that to load what was saved gives it back,
which a refused connection breaks and is excepted for.

*Chat window.*  A result comes by an event and by the return: `ResultKept` says of each turn
that an event of a result is on its way only if the shell still has that result or has returned with it, and an
error only if it has none, so that whichever the window takes first, it is the same ending.  `Calm` is what holds of
transcripts until a turn is stopped or left: one turn is under way, in the chat on the screen (`OneLive`);
the responses in a chat are of its own turns, each in one message, none deleted, that of the
turn under way in the last bubble (`Owned`); and a session continues from one that is still there (`Anchored`).
`AnswersInPlace` needs, beyond that, that every bubble stands directly below
its question (`Placed`) and the turn under way has the last message of all (`Current`, `Leads`): a
transcript that is cut by a deletion or an edit keeps this only because a question goes with its
answer.  The types hold whatever is stopped or left (`TypedWindow`).

*Voice worker.*  The lock is held by the command that is served, or by the loop that
decodes or captures (`LockHeld`).  `Handled` says that a loop that is alive is the one
the facade has a handle of, or one that a stop gave up on; `Quiet`, that after a stop it can only be the
latter; `Opens`, that a command that starts a loop has ended that quiet.  A loop looks at its stop event
after every capture, so that one on its way to a capture has begun none since the stop (`LateCleared`): this
is why `late` cannot exceed one, for any number of forgotten loops.

Where a listen is (`OnceInv`): in the slot, with one loop, or captured.  `Numbered` says that a command which
has yet to fill the slot brings a number that is nowhere; each step then has one of a few effects on the
listens (nothing, a new one, one taken, one captured, one given up), and these effects alone keep `ListenOnce` and
`ListenNotLost`.

*Voice in the window.*  Tasks outlive the session that began them.  `TasksFit` says that a
task is of an earlier generation, or of the session that is on; and that a poll under way in
this activation has a status no older than the event last seen.  With one poll, turn or speech at a
time in each activation (`OneBusy`), and what was used not newer than the event last seen (`Seen`), an
utterance that a late poll brings again is refused.  `Session` ties the session
that is on to the one the user wanted, of which every line, filler, reply and listen asks when it
begins; a line that was queued becomes the line that is spoken, and asks no more.

*Supervisor.*  `OneInstaller` says that the flag `bootstrapping` is up just while one controller installs;
`OneLauncher`, that the threads that supervise are all of the controller that won the swap of
`launched`.  For the environment, `MarkerTrue` says that
the marker beside the script is that of the wheel installed, unless something is installing or the
environment is torn; `ReadyStays`, that what a controller found or made ready stays so: with one
installer at a time, a later one finds it current and changes nothing; `DeadIdle`, that
a host that has ended installs no more, so that what its successor brings, another wheel
perhaps, meets no controller of it.  Crashes at any
place of an installation, and strays, are steps like any other.  `StopInv` says that a thread has its
process only at the places where it watches it (`Watched`), and that a service which is stopped has no thread that goes
on (`StoppedIsOver`), whichever of the controllers made it.

*State stream.*  `StreamInv` adds to the types that a subscriber is a stream past its subscription
(`SubscribersServed`), and what the shell reads: only its stream has a client, a
closed one has none, and frames are on the wire of no other (`ReaderKnown`).

Lemmas that several proofs share: `LastPosition` (a set of positions has a last one, which gives the meaning of
the searches from the end), `UpTo` (what holds at zero and goes from each number to the
next holds up to n: induction over a set, in the place of the library's rule, which takes an
operator), `WrittenIs` on top of it (a recursive filter exists and yields a transcript), and
in `ChatWindow_proofs` what patching, cutting, appending to and restoring a transcript do to
its messages and their responses.

Only model-checked:

* the liveness properties, which are out of the prover's reach, with the fairness they need: `EveryCallReturns`,
  `NobodyHangs`, `ListenIsServed`, `CommandsTakeEffect`, `ButtonsComeBack`, `ComesBack` and
  `ShownFollows`.

`CallsOnlyStreams` states the invariant of `StateStream` as the instance of `Supervisor_proofs` has it.

The two properties of section 5 that have a run are refuted by it, and are no theorems.

## 5. Where the code and what is written about it disagree

Two runs end in a violation; their traces are the scenario.

1. **The answer to a retry** (`chat_question`).  "Replace the last (in-progress) assistant
   bubble" (`ChatApp.tsx` 277-278), yet what is replaced is the last one, in progress or not.  A retry
   of the second answer cuts the transcript before it (556) and sends without a
   question, so that the placeholder (321) takes the place of the first answer.
2. **Dictation beside the wake word** (`session_dictation`).  "routes a queued composer
   dictation transcript into the input instead of submitting it" (`ChatApp.test.tsx` 465).  `manualListenQueued`
   (`ChatApp.tsx` 75) reads `recent_events` at the top of the answer; the control
   plane puts them under `status`.  The dictation is given up, and the bridge submits its transcript as a turn.

The following are stated in the modules, without a run, and TLC finds them violated
when they are put in a configuration:

3. **Late answers of the same turn** (`WorkerClient!StaleFramesDiscarded`).  The docstring of `stream`
   says that matching by trace discards stale frames (`main.py` 451).  A turn
   sends all its commands under one trace, for example the plain request after a failed stream
   (`main.py` 735-744): the late answer to the first is taken as the answer to
   the second.  The unit test of this
   (`tests/core/test_core_jsonl_worker_process_client.py` 121-149) uses distinct traces.
4. **Denied calls** (`Approvals!DeniedCallsNeverRun`).  "Capability execution blocked by approval
   decision." (`main.py` 3612), yet the stash keeps the call, and an approval of
   that turn from the other card runs it.
5. **Exact arguments** (`Approvals!ExactCallRuns`).  "execute the EXACT capability + args
   the model requested" (`main.py` 3441).  The save drops lists and several keys
   (`safe_state.py` 105-118), and what a restart loads is run under the same approval.
6. **Second approval** (`Approvals!SecondApprovalFollowsPrompt`).  A destructive call is to pause "so the
   user must approve once more" (`main.py` 3499-3503).  Both questions have the same
   approval id: an answer to the first one, given in the other window, is taken as the second.
7. **The fallback of the default route** (`AgenticLoop!FallbackAnswers`).  "Any failure or the flag
   being off falls through to the historical bounded continuation loop below - no
   regression." (`main.py` 2523-2524).  That path reads `memory_service_projection`
   (2603) and `final_text` (2620), which `submit_turn` does not assign, after the
   provider has answered.
8. **A choice made during a selection** (`ProviderSwitch!ChoiceSticks`).  The comment of
   `configure_provider` (`main.py` 1283-1291) says that the selection "actually stick[s]".  A turn
   whose selection overlaps it leaves the client of one choice under the name of another, or one without its
   mode (2156 does not pass it); a later turn that runs alone finds the name it selects and calls that client.
9. **Marvex hears itself** (`VoiceWorker!NoSelfCapture`).  The wake loop stands down during
   speech "and never re-captures its own TTS" (`controller.py` 198-200).  The gate looks at the
   time when a frame is handled, not when it was recorded: frames that queued up while the loop
   waited for the lock or decoded are taken for the user's once the gate is open.
10. **Two turns in flight** (`ChatWindow!SingleInFlight`).  "Single in-flight turn is assumed (the UI gates on
    `pending`)" (`shellCommands.ts` 135-137).  The `finally` of a stopped send clears the flag of the
    turn that has followed it, and a third may then be sent.
11. **Deleted responses** (`ChatWindow!ContinuesFromLive`, `ContinuesOwnSession`).  An edit or a retry after an
    earlier pair was deleted continues from a response that the window has had deleted; a turn that
    answers after its chat was left writes its response id into the session that is open.
12. **A second decision from the model** (`Approvals!DestructiveRunsTwiceApproved`).  A destructive action "is gated
    behind a SECOND, explicit approval" (`main.py` 3500).  The worker takes
    `destructive_action_decision` in the arguments for the second approval (`controller.py` 186), and the model may have
    written it there.  The schema of `builtin.computer_use` forbids keys it does not know, but
    arguments are checked only when the registry of the turn has the name (`agentic_tools.py` 134-136): under the bare
    name `computer_use`, or a `builtin.` name that a restricted registry lacks
    (`main.py` 1960-2019, 2438), the call is stashed as it was written, and runs after one decision.
13. **The marker of another wheel** (`Supervisor!SpawnsCurrent`).  The marker is compared so that a host does not run
    from an environment with another wheel in it (`supervisor.rs` 466-479).  No installation removes it: wheel A is
    marked, the installation of B is broken off, fails, or is not recorded, and a host that comes with A
    finds the environment current and starts its services from what is there.
14. **Speech after a stop** (`VoiceSession!SilentAfterStop`).  "does not speak filler or final audio after the voice
    session is cancelled" (`voiceTurnSpeech.test.ts` 30).  Filler and reply are indeed not spoken; a line of progress
    that was queued behind another is, since `shouldSpeak` is asked when it is queued (`voiceTurnSpeech.ts` 31) and
    not when it is spoken (39).

The models and the reading behind them also meet the following, for which no property is stated:

* *Approvals and the loop.*  After the first approval of a destructive call the chat marks its
  card approved and drops the request of the second question (`ChatApp.tsx`
  464-473), and the island is not told: no card can answer "Approve once more to
  proceed." (`main.py` 3518).  "The loop has a hard max-step cap"
  (`docs/VALIDATION_GATES.md` 854) holds in each `run_tool_loop`; a turn that must call a
  tool runs up to five of them.  The test
  `test_web_search_then_file_write_requires_source_in_written_content` writes in the
  step after a short search: with a result that is cut (`agentic_tools.py` 317), or with another call
  in between, the write needs no source.  If a repair attempt meets a provider
  error, or the last answer is blank, the turn pauses for an approval that no call
  stands behind (`main.py` 1663, 2334).
* *Chat window.*  The final patch of a bubble does not clear `streaming` (the comment is at `ChatApp.tsx` 63-64): Retry and
  Delete appear only after the chat is opened again, and `stopChatTurn` may cancel the response of an older
  bubble.  A Stop before the turn is registered, or while its session is made, cancels nothing.  The rejection of a
  stopped turn is written over the answer before it.  A chat that was removed comes back when its turn ends.
  `from_utf8_lossy` on each chunk (`lib.rs`) garbles a character that two chunks share.
* *Voice.*  A `reload_config` after a stop starts the wake loop again.  Handlers that read the microphone
  "stand down" while the loop owns it (`controller.py` 208-210), but those of
  `test_mic` and `test_stt` (1282, 1329) do not.
* *Supervisor.*  A child whose `try_wait` raises is left running beside its successor
  (`supervisor.rs` 933).  "Shut Marvex down cleanly: stop the locally-supervised backend" (`lib.rs` 623) sets a flag and exits at
  once (627-635): the threads that would kill the children may not see it.
* *Provider choice.*  A refused connection leaves its URL in the row (`providers.py` 223), and the next request saves it.
* *Connectors.*  `_run_connector_path` (`main.py` 3134) looks at `self._resume_approval` alone, so that an
  approved sync asks again; `merged_memory_tree` adds its documents again with
  each sync (`main.py` 1094-1102, 3196); the cursor is saved before the items are ingested
  (`scheduler.py` 274), in a store that is in memory (`main.py` 1024) although a comment says that restarts are harmless
  (`scheduler.py` 17-18); a fetch that fails counts toward neither the budget nor the
  interval.

## 6. Not modelled

What a component does not expose to another thread, process or restart is left out: prompts,
intent classification, capability policy, memory ranking, telemetry, contracts,
user-interface layout, audio and HTTP.  `PROJECT.json` lists every component with
the reason, and section 2 says for each module what it simplifies.  The connector
scheduler is disabled unless it is configured, runs on a single thread and keeps its
state in memory: what could go wrong in it is listed above, and a model would
only repeat it.  Of `WorkerClient`: a write that blocks on a full pipe, a command
whose trace is not a string, and the log handle.

The models cover a small share of the repository's lines, because most of its lines are data
types, prompts, adapters and single request handlers; they cover the places where
its threads, processes and windows meet.

## 7. Plan

1. Proofs: which loops are still told to stop when a command waits (`VoiceWorker`), and measures
   like that of `AgenticLoop` for a poll of the window and for an installation, as safety facts that
   the liveness properties rest on.
2. `StreamTurn`: the order and completeness of the events of a streamed turn,
   the fallback from the stream to a plain request.
3. The capability sessions and the memory candidates of the Core Service, if more
   than one thread comes to write them.
