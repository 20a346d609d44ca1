----------------------------- MODULE Approvals -----------------------------
(***************************************************************************)
(* A risky tool call the model authors is not run: the agentic turn stashes *)
(* it under the approval id of its turn, saves the stash to a JSON file and *)
(* asks the user.  The chat card and the dynamic island card both show the  *)
(* approval; a decision comes back as a resume of the same turn, which pops *)
(* the stash, saves, and runs the call in the tool worker.                  *)
(*                                                                         *)
(* Handlers of the Core Service run concurrently: one thread for each       *)
(* streamed turn, and the event loop, which serves resumes one at a time    *)
(* (POST /v1/turns calls the turn handler on the loop).  The control plane  *)
(* serves the approval store from a second event loop.  The process may     *)
(* crash between any two steps and restart from the file.                   *)
(***************************************************************************)
EXTENDS Naturals, Sequences, FiniteSets

CONSTANTS
  Turns,       \* turn ids; the approval id is a function of the turn id
  EventLoop,   \* the handler of resumes
  NoTurn,
  MaxCalls,    \* bound on the risky calls the model authors
  MaxClicks,   \* bound on the decisions sent by the user
  MaxCrashes   \* bound on the crashes of the Core Service

ASSUME ConstantsAssumption ==
  /\ EventLoop \notin Turns
  /\ NoTurn \notin Turns
  /\ MaxCalls \in Nat
  /\ MaxClicks \in Nat
  /\ MaxCrashes \in Nat

VARIABLES
  stash,    \* self._pending_automation, a call for each turn or Empty
  disk,     \* what loading pending_automation.json would give
  store,    \* InMemoryApprovalStore._pending: a dict, in insertion order
  pc,       \* where each handler is
  after,    \* where each handler goes when its save is done
  snap,     \* each handler: the payload of the save it is writing
  disturbed,\* handlers that iterate over a stash whose keys have changed
  held,     \* each handler: the call it popped
  job,      \* the resume the event loop serves
  inbox,    \* resumes sent and not yet served
  chat,     \* the approval card of each turn in the chat window
  busy,     \* the chat window is pending: its send and decide buttons are off
  listening,\* the turn whose stream the chat window follows, or NoTurn
  island,   \* the turn of the approval card on the island, or NoTurn
  deciding, \* the island card: idle, its decision recorded, its resume sent
  alert,    \* the status bus says needs_approval and the island has not asked
  clicks, crashes,
  autoMarvex,\* the policy is Auto Marvex: calls are approved by the mode
  calls,    \* history: the risky calls the model authored
  asked,    \* history: the call each turn last asked the user to approve
  runs,     \* history: the calls the tool worker ran
  approved, \* history: <<call, click>> of the approvals that popped a call
  denied,   \* history: calls stashed when a denial of their turn was served
  unsaved   \* history: a save failed, or wrote a stash that had changed since

core == <<stash, pc, after, snap, disturbed, held, job>>
surfaces == <<chat, busy, listening, island, deciding>>
history == <<calls, asked, runs, approved, denied, unsaved>>
vars == <<stash, disk, store, pc, after, snap, disturbed, held, job, inbox,
          chat, busy, listening, island, deciding, alert, clicks, crashes,
          autoMarvex, calls, asked, runs, approved, denied, unsaved>>

Handlers == Turns \cup {EventLoop}
CallIds == 1..MaxCalls

\* A stash entry.  exact: the arguments are the model's own.  confirmed: the
\* arguments carry destructive_action_decision = "approve".
Entry == [call : 0..MaxCalls, exact : BOOLEAN, confirmed : BOOLEAN]
Empty == [call |-> 0, exact |-> TRUE, confirmed |-> FALSE]
Nothing == [t \in Turns |-> Empty]

Decisions == {"approve", "deny"}
Resume == [turn : Turns, decision : Decisions, from : {"chat", "island"},
           click : 0..MaxClicks, about : Entry]
NoJob == [turn |-> NoTurn]

\* A call the model authored: the worker asks twice for a destructive one, but not
\* for a preset one, whose arguments had the second decision from the model; the
\* arguments of a lossy one have lists, or keys such as "prompt" or "token".
Call == [turn : Turns, destructive : BOOLEAN, preset : BOOLEAN, lossy : BOOLEAN]
AsksTwice(m) == m.destructive /\ ~m.preset

TypeOK ==
  /\ stash \in [Turns -> Entry]
  /\ disk \in [Turns -> Entry]
  /\ store \in Seq(Turns)
  /\ pc \in [Handlers -> {"new", "idle", "loop", "save", "truncate", "write",
                          "alert", "ask", "pop", "run"}]
  /\ after \in [Handlers -> {"alert", "ask", "pop", "run"}]
  /\ snap \in [Handlers -> [Turns -> Entry]]
  /\ disturbed \subseteq Handlers
  /\ held \in [Handlers -> Entry]
  /\ job \in Resume \cup {NoJob}
  /\ inbox \subseteq Resume
  /\ chat \in [Turns -> {"none", "pending", "approve", "deny"}]
  /\ busy \in BOOLEAN
  /\ listening \in Turns \cup {NoTurn}
  /\ island \in Turns \cup {NoTurn}
  /\ deciding \in {"idle", "approve", "deny", "sent"}
  /\ alert \in BOOLEAN
  /\ clicks \in 0..MaxClicks
  /\ crashes \in 0..MaxCrashes
  /\ autoMarvex \in BOOLEAN
  /\ calls \in Seq(Call) /\ Len(calls) <= MaxCalls
  /\ asked \in [Turns -> Entry]
  /\ runs \in Seq([entry : Entry, about : Entry])
  /\ approved \subseteq CallIds \X (0..MaxClicks)
  /\ denied \subseteq CallIds
  /\ unsaved \in BOOLEAN

Init ==
  /\ stash = Nothing
  /\ disk = Nothing
  /\ store = <<>>
  /\ pc = [h \in Handlers |-> IF h = EventLoop THEN "idle" ELSE "new"]
  /\ after = [h \in Handlers |-> "ask"]
  /\ snap = [h \in Handlers |-> Nothing]
  /\ disturbed = {}
  /\ held = [h \in Handlers |-> Empty]
  /\ job = NoJob
  /\ inbox = {}
  /\ chat = [t \in Turns |-> "none"]
  /\ busy = FALSE
  /\ listening = NoTurn
  /\ island = NoTurn
  /\ deciding = "idle"
  /\ alert = FALSE
  /\ clicks = 0
  /\ crashes = 0
  /\ autoMarvex \in BOOLEAN
  /\ calls = <<>>
  /\ asked = Nothing
  /\ runs = <<>>
  /\ approved = {}
  /\ denied = {}
  /\ unsaved = FALSE

-----------------------------------------------------------------------------
(* Helpers                                                                 *)

Serving(h) == IF h = EventLoop THEN job.turn ELSE h
Others(h) == Handlers \ {h}
Listed == {store[i] : i \in DOMAIN store}

\* del self._pending[t]: a dict lists a turn once.
Unlist(t) ==
  \E i \in DOMAIN store :
    /\ store[i] = t
    /\ store' = SubSeq(store, 1, i - 1) \o SubSeq(store, i + 1, Len(store))

SanitizedWithoutDecision(e) == [call |-> e.call, exact |-> e.exact]

\* _sanitize_pending_automation: lists and keys like "prompt" are dropped.
Sanitized(e) == [e EXCEPT !.exact = @ /\ ~(e.call # 0 /\ calls[e.call].lossy)]

\* The payload of a save: the stash as it is written to the file.
Payload == [t \in Turns |-> Sanitized(stash[t])]

\* self._pending_automation[t] = e, or its pop when e is Empty.
Put(h, t, e) ==
  /\ stash' = [stash EXCEPT ![t] = e]
  /\ disturbed' = IF (stash[t].call = 0) # (e.call = 0)
                  THEN disturbed \cup {g \in Others(h) : pc[g] = "save"}
                  ELSE disturbed
  /\ unsaved' = \/ unsaved
                \/ /\ stash[t] # e
                   /\ \E g \in Others(h) : pc[g] \in {"truncate", "write"}

GoTo(h, label) == pc' = [pc EXCEPT ![h] = label]

SaveThen(h, label) ==
  /\ GoTo(h, "save")
  /\ after' = [after EXCEPT ![h] = label]

WantsNoSecond(e) == FALSE

\* The worker wants a second approval before it runs a destructive call.
WantsSecond(e) == calls[e.call].destructive /\ ~e.confirmed /\ ~autoMarvex

\* The stream of turn t ends in the chat window; a stopped one is ignored.
Streamed(t, paused) ==
  /\ IF listening = t
     THEN /\ chat' = IF paused THEN [chat EXCEPT ![t] = "pending"] ELSE chat
          /\ busy' = FALSE
          /\ listening' = NoTurn
     ELSE UNCHANGED <<chat, busy, listening>>
  /\ UNCHANGED <<island, deciding>>

\* The response to a resume reaches the card that sent it.
Answered(r, ok) ==
  IF r.from = "chat"
  THEN /\ chat' = IF ok THEN [chat EXCEPT ![r.turn] = r.decision] ELSE chat
       /\ busy' = FALSE
       /\ UNCHANGED <<listening, island, deciding>>
  ELSE /\ island' = IF ok THEN NoTurn ELSE island
       /\ deciding' = "idle"
       /\ UNCHANGED <<chat, busy, listening>>

\* The handler returns: a pause for approval, an answer or error result, or an
\* exception, which the API reports as a failed request.
Return(h, how) ==
  /\ GoTo(h, "idle")
  /\ held' = [held EXCEPT ![h] = Empty]
  /\ IF h = EventLoop
     THEN Answered(job, how # "raised") /\ job' = NoJob
     ELSE Streamed(h, how = "paused") /\ UNCHANGED job

-----------------------------------------------------------------------------
(* The turn handlers of the Core Service                                   *)

\* The agentic loop ends with a risky call, which is stashed as the model wrote it:
\* a name that the registry of the turn does not have, such as "computer_use", is
\* paused for as well, and its arguments are checked against no schema.  The worker
\* looks for the second decision in a destructive call alone.
Author(h, destructive, preset, lossy) ==
  /\ pc[h] = "loop"
  /\ Len(calls) < MaxCalls
  /\ preset => destructive
  /\ calls' = Append(calls, [turn |-> Serving(h), destructive |-> destructive,
                             preset |-> preset, lossy |-> lossy])
  /\ Put(h, Serving(h), [call |-> Len(calls) + 1, exact |-> TRUE, confirmed |-> preset])
  /\ SaveThen(h, IF autoMarvex THEN "pop" ELSE "alert")
  /\ UNCHANGED <<disk, store, snap, held, job, inbox, surfaces, alert, clicks,
                 crashes, autoMarvex, asked, runs, approved, denied>>

\* It ends with an answer, a question or a limit, or a step of the turn raises.
LoopEnds(h) ==
  /\ pc[h] = "loop"
  /\ \E how \in {"answered", "raised"} : Return(h, how)
  /\ UNCHANGED <<stash, disk, store, after, snap, disturbed, inbox, alert,
                 clicks, crashes, autoMarvex, history>>

\* save_pending_automation_state: the payload is built from the live dict ...
Snapshot(h) ==
  /\ pc[h] = "save"
  /\ snap' = [snap EXCEPT ![h] = Payload]
  /\ GoTo(h, "truncate")
  /\ disturbed' = disturbed \ {h}
  /\ UNCHANGED <<stash, disk, store, after, held, job, inbox, surfaces, alert,
                 clicks, crashes, autoMarvex, history>>

\* ... which raises when the dict changes size during the iteration.
SnapshotRaises(h) ==
  /\ pc[h] = "save"
  /\ h \in disturbed
  /\ disturbed' = disturbed \ {h}
  /\ unsaved' = TRUE
  /\ Return(h, "raised")
  /\ UNCHANGED <<stash, disk, store, after, snap, inbox, alert, clicks, crashes, autoMarvex,
                 calls, asked, runs, approved, denied>>

\* write_text empties the file first; an unreadable file loads as nothing.
Truncate(h) ==
  /\ pc[h] = "truncate"
  /\ disk' = Nothing
  /\ GoTo(h, "write")
  /\ UNCHANGED <<stash, store, after, snap, disturbed, held, job, inbox,
                 surfaces, alert, clicks, crashes, autoMarvex, history>>

\* Two writes that overlap may leave a file that does not parse.
Write(h) ==
  /\ pc[h] = "write"
  /\ disk' \in {snap[h]} \cup (IF disk = Nothing THEN {} ELSE {Nothing})
  /\ unsaved' = (unsaved \/ disk # Nothing)
  /\ snap' = [snap EXCEPT ![h] = Nothing]
  /\ GoTo(h, after[h])
  /\ UNCHANGED <<stash, store, after, disturbed, held, job, inbox, surfaces,
                 alert, clicks, crashes, autoMarvex, calls, asked, runs, approved, denied>>

\* save_json_state swallows every error: the turn goes on as if saved.
SaveFails(h) ==
  /\ pc[h] = "truncate"
  /\ unsaved' = TRUE
  /\ snap' = [snap EXCEPT ![h] = Nothing]
  /\ GoTo(h, after[h])
  /\ UNCHANGED <<stash, disk, store, after, disturbed, held, job, inbox,
                 surfaces, alert, clicks, crashes, autoMarvex, calls, asked, runs, approved,
                 denied>>

\* The status bus says needs_approval before the store lists the request.
Alert(h) ==
  /\ pc[h] = "alert"
  /\ alert' = TRUE
  /\ GoTo(h, "ask")
  /\ UNCHANGED <<stash, disk, store, after, snap, disturbed, held, job, inbox,
                 surfaces, clicks, crashes, autoMarvex, history>>

\* add_pending, and the turn ends paused.
Ask(h) ==
  /\ pc[h] = "ask"
  /\ store' = IF Serving(h) \in Listed THEN store ELSE Append(store, Serving(h))
  /\ asked' = [asked EXCEPT ![Serving(h)] = stash[Serving(h)]]
  /\ Return(h, "paused")
  /\ UNCHANGED <<stash, disk, after, snap, disturbed, inbox, alert, clicks,
                 crashes, autoMarvex, calls, runs, approved, denied, unsaved>>

\* The event loop takes a resume that approves.
Accept(r) ==
  /\ pc[EventLoop] = "idle"
  /\ r \in inbox /\ r.decision = "approve"
  /\ inbox' = inbox \ {r}
  /\ job' = r
  /\ GoTo(EventLoop, "pop")
  /\ UNCHANGED <<stash, disk, store, after, snap, disturbed, held, surfaces,
                 alert, clicks, crashes, autoMarvex, history>>

\* A denial (or a cancel) ends in an error result; the stash is left alone.
Refuse(r) ==
  /\ pc[EventLoop] = "idle"
  /\ r \in inbox /\ r.decision = "deny"
  /\ inbox' = inbox \ {r}
  /\ denied' = denied \cup ({stash[r.turn].call} \ {0})
  /\ Answered(r, TRUE)
  /\ UNCHANGED <<core, disk, store, alert, clicks, crashes, autoMarvex, calls, asked, runs,
                 approved, unsaved>>

\* The resume does not reach the approval path: the intent worker is down, or
\* the text of the resume is classified as a connector request.
Divert(r) ==
  /\ pc[EventLoop] = "idle"
  /\ r \in inbox
  /\ inbox' = inbox \ {r}
  /\ Answered(r, TRUE)
  /\ UNCHANGED <<core, disk, store, alert, clicks, crashes, autoMarvex, history>>

PopUnsaved(h) ==
  /\ pc[h] = "pop"
  /\ held' = [held EXCEPT ![h] = stash[Serving(h)]]
  /\ Put(h, Serving(h), Empty)
  /\ GoTo(h, "run")
  /\ approved' = IF stash[Serving(h)].call = 0 THEN approved
                 ELSE approved \cup {<<stash[Serving(h)].call,
                                       IF h = EventLoop THEN job.click ELSE 0>>}
  /\ UNCHANGED <<disk, store, after, snap, job, inbox, surfaces, alert, clicks,
                 crashes, autoMarvex, calls, asked, runs, denied>>

\* The approval path pops the call, if there is one, and saves.
Pop(h) ==
  /\ pc[h] = "pop"
  /\ held' = [held EXCEPT ![h] = stash[Serving(h)]]
  /\ Put(h, Serving(h), Empty)
  /\ SaveThen(h, "run")
  /\ approved' = IF stash[Serving(h)].call = 0 THEN approved
                 ELSE approved \cup {<<stash[Serving(h)].call,
                                       IF h = EventLoop THEN job.click ELSE 0>>}
  /\ UNCHANGED <<disk, store, snap, job, inbox, surfaces, alert, clicks, crashes, autoMarvex,
                 calls, asked, runs, denied>>

\* "Core has no model-authored tool call to resume."
Missing(h) ==
  /\ pc[h] = "run"
  /\ held[h].call = 0
  /\ Return(h, "answered")
  /\ UNCHANGED <<stash, disk, store, after, snap, disturbed, inbox, alert,
                 clicks, crashes, autoMarvex, history>>

\* The worker asks for a second approval: the call is stashed again.
NeedsSecond(h) ==
  /\ pc[h] = "run"
  /\ held[h].call # 0 /\ WantsSecond(held[h])
  /\ Put(h, Serving(h), [held[h] EXCEPT !.confirmed = TRUE])
  /\ held' = [held EXCEPT ![h] = Empty]
  /\ SaveThen(h, "ask")
  /\ UNCHANGED <<disk, store, snap, job, inbox, surfaces, alert, clicks, crashes, autoMarvex,
                 calls, asked, runs, approved, denied>>

RunOf(h) == [entry |-> held[h],
             about |-> IF h = EventLoop THEN job.about ELSE held[h]]

\* The worker runs the call; the model goes on with the result.
Run(h) ==
  /\ pc[h] = "run"
  /\ held[h].call # 0 /\ ~WantsSecond(held[h])
  /\ runs' = Append(runs, RunOf(h))
  /\ held' = [held EXCEPT ![h] = Empty]
  /\ GoTo(h, "loop")
  /\ UNCHANGED <<stash, disk, store, after, snap, disturbed, job, inbox,
                 surfaces, alert, clicks, crashes, autoMarvex, calls, asked, approved, denied,
                 unsaved>>

\* The worker refuses or fails without running it; the model is asked again.
RunRefused(h) ==
  /\ pc[h] = "run"
  /\ held[h].call # 0 /\ ~WantsSecond(held[h])
  /\ held' = [held EXCEPT ![h] = Empty]
  /\ GoTo(h, "loop")
  /\ UNCHANGED <<stash, disk, store, after, snap, disturbed, job, inbox,
                 surfaces, alert, clicks, crashes, autoMarvex, history>>

RunSentAgain(h) ==
  /\ pc[h] = "run"
  /\ held[h].call # 0 /\ ~WantsSecond(held[h])
  /\ runs' = Append(runs, RunOf(h))
  /\ UNCHANGED <<core, disk, store, inbox, surfaces, alert, clicks, crashes, autoMarvex,
                 calls, asked, approved, denied, unsaved>>

\* The request to the worker times out or its pipe breaks, before or after the
\* worker ran the call.
RunRaises(h) ==
  /\ pc[h] = "run"
  /\ held[h].call # 0
  /\ \/ UNCHANGED runs
     \/ ~WantsSecond(held[h]) /\ runs' = Append(runs, RunOf(h))
  /\ Return(h, "raised")
  /\ UNCHANGED <<stash, disk, store, after, snap, disturbed, inbox, alert,
                 clicks, crashes, autoMarvex, calls, asked, approved, denied, unsaved>>

\* The process dies and is started again: memory is lost, the file is loaded.
CrashAndRestart ==
  /\ crashes < MaxCrashes
  /\ crashes' = crashes + 1
  /\ stash' = [t \in Turns |-> Sanitized(disk[t])]
  /\ store' = <<>>
  /\ pc' = [h \in Handlers |-> IF pc[h] = "new" THEN "new" ELSE "idle"]
  /\ snap' = [h \in Handlers |-> Nothing]
  /\ held' = [h \in Handlers |-> Empty]
  /\ disturbed' = {}
  /\ job' = NoJob
  /\ inbox' = {}
  /\ busy' = FALSE
  /\ listening' = NoTurn
  /\ deciding' = "idle"
  /\ alert' = FALSE
  /\ UNCHANGED <<disk, after, chat, island, clicks, autoMarvex, history>>

-----------------------------------------------------------------------------
(* The chat window, the island and the control-plane page                  *)

Send(t) ==
  /\ pc[t] = "new"
  /\ ~busy /\ listening = NoTurn
  /\ GoTo(t, "loop")
  /\ busy' = TRUE
  /\ listening' = t
  /\ UNCHANGED <<stash, disk, store, after, snap, disturbed, held, job, inbox,
                 chat, island, deciding, alert, clicks, crashes, autoMarvex, history>>

\* The stop button frees the window; the turn goes on in its thread.
Stop ==
  /\ busy
  /\ busy' = FALSE
  /\ listening' = NoTurn
  /\ UNCHANGED <<core, disk, store, inbox, chat, island, deciding, alert, clicks,
                 crashes, autoMarvex, history>>

Click(t, d, from) ==
  /\ clicks < MaxClicks
  /\ clicks' = clicks + 1
  /\ inbox' = inbox \cup {[turn |-> t, decision |-> d, from |-> from,
                           click |-> clicks + 1, about |-> asked[t]]}

\* decideChatApproval: only the turn is resumed, the store is not told.
ChatDecide(t, d) ==
  /\ ~busy
  /\ chat[t] = "pending"
  /\ Click(t, d, "chat")
  /\ busy' = TRUE
  /\ UNCHANGED <<core, disk, store, chat, listening, island, deciding, alert,
                 crashes, autoMarvex, history>>

\* The island learns of needs_approval and shows the first pending request.
IslandShow ==
  /\ alert /\ deciding = "idle"
  /\ alert' = FALSE
  /\ island' = IF store = <<>> THEN island ELSE Head(store)
  /\ UNCHANGED <<core, disk, store, inbox, chat, busy, listening, deciding,
                 clicks, crashes, autoMarvex, history>>

\* The island posts its decision to the store; the store knows the request ...
IslandDecide(d) ==
  /\ deciding = "idle"
  /\ island \in Listed
  /\ Unlist(island)
  /\ deciding' = d
  /\ UNCHANGED <<core, disk, inbox, chat, busy, listening, island, alert, clicks,
                 crashes, autoMarvex, history>>

\* ... and the turn is resumed by a second request.
IslandResume ==
  /\ deciding \in Decisions
  /\ Click(island, deciding, "island")
  /\ deciding' = "sent"
  /\ UNCHANGED <<core, disk, store, chat, busy, listening, island, alert,
                 crashes, autoMarvex, history>>

IslandDismiss ==
  /\ deciding = "idle"
  /\ island # NoTurn
  /\ island' = NoTurn
  /\ UNCHANGED <<core, disk, store, inbox, chat, busy, listening, deciding,
                 alert, clicks, crashes, autoMarvex, history>>

\* The control-plane page records a decision and resumes nothing.
WebDecide(t) ==
  /\ t \in Listed
  /\ Unlist(t)
  /\ UNCHANGED <<core, disk, inbox, surfaces, alert, clicks, crashes, autoMarvex, history>>

-----------------------------------------------------------------------------
HandlerStep(h) ==
  \/ \E destructive, preset, lossy \in BOOLEAN : Author(h, destructive, preset, lossy)
  \/ LoopEnds(h)
  \/ Snapshot(h) \/ SnapshotRaises(h) \/ Truncate(h) \/ Write(h) \/ SaveFails(h)
  \/ Alert(h) \/ Ask(h)
  \/ Pop(h) \/ Missing(h) \/ NeedsSecond(h)
  \/ Run(h) \/ RunRefused(h) \/ RunRaises(h)

Next ==
  \/ \E h \in Handlers : HandlerStep(h)
  \/ \E r \in inbox : Accept(r) \/ Refuse(r) \/ Divert(r)
  \/ CrashAndRestart
  \/ \E t \in Turns : Send(t) \/ WebDecide(t)
  \/ Stop
  \/ \E t \in Turns, d \in Decisions : ChatDecide(t, d)
  \/ IslandShow \/ IslandResume \/ IslandDismiss
  \/ \E d \in Decisions : IslandDecide(d)

Spec == Init /\ [][Next]_vars
-----------------------------------------------------------------------------
(* Properties                                                              *)

Ran == {runs[i].entry.call : i \in DOMAIN runs}
Saving == {h \in Handlers : pc[h] \in {"save", "truncate", "write"}}
Clicks(c) == {n \in 1..MaxClicks : <<c, n>> \in approved}

\* The tool worker runs a call at most once: however resumes, turns and saves
\* interleave, popping the stash claims the call, and a restart brings it back
\* only if some save failed or was overtaken by another (_run_approval_path).
AtMostOnce ==
  (crashes = 0 \/ ~unsaved) =>
    \A i, j \in DOMAIN runs : runs[i].entry.call = runs[j].entry.call => i = j

\* Unless the policy is Auto Marvex, a call runs only after a decision of the user
\* popped it, after two when it is destructive and the model did not write the
\* second decision into its arguments (DestructiveRunsTwiceApproved, below), and
\* a decision pops one call: what the model authors after a resume needs a
\* decision of its own, also when a crash, a lost save, a denial or a second
\* card comes in between (_run_approval_path, and the worker's controller).
RunsAreApproved ==
  ~autoMarvex =>
    /\ \A i \in DOMAIN runs :
         LET c == runs[i].entry.call
         IN  Cardinality(Clicks(c)) >= IF AsksTwice(calls[c]) THEN 2 ELSE 1
    /\ \A a, b \in approved : a[2] = b[2] => a[1] = b[1]

\* When no save is under way, and none failed, the file holds what the stash
\* holds, so that a restart offers the calls still waiting and no other one
\* (every change of _pending_automation is followed by a save).
FileIsCurrent == Saving = {} /\ ~unsaved => disk = Payload

\* The handlers, the file and the surfaces together keep the promise that the user
\* is made of risky calls, where the calls that need two decisions are the
\* destructive ones whose second decision is not the model's own: no step of any
\* of them approves or runs a call otherwise
\* (_run_approval_path, _run_agentic_tool_loop, save_pending_automation_state).
Promise == INSTANCE ApprovedRuns WITH
  authored <- [c \in DOMAIN calls |-> AsksTwice(calls[c])],
  decided <- approved,
  ran <- [i \in DOMAIN runs |-> runs[i].entry.call],
  byMode <- autoMarvex,
  lost <- crashes > 0 /\ unsaved

ImplementsPromise == Promise!Spec

\* A restart while nothing was being saved, and after no save failed, offers the
\* calls that were waiting, with what the file keeps of their arguments, and no
\* other call (load_pending_automation_state).
RestartOffersWaiting ==
  [][crashes' # crashes /\ Saving = {} /\ ~unsaved => stash' = Payload]_vars

\* The entries kept for a turn are calls that the model authored in that turn.
OfTurn(t, e) == e.call # 0 => e.call <= Len(calls) /\ calls[e.call].turn = t

EntriesOfTurn ==
  /\ \A t \in Turns : OfTurn(t, stash[t]) /\ OfTurn(t, disk[t])
  /\ \A t \in Turns, h \in Handlers : OfTurn(t, snap[h][t])
  /\ \A h \in Handlers : OfTurn(Serving(h), held[h])
  /\ \A i \in DOMAIN runs : runs[i].entry.call \in 1..Len(calls)

\* A handler with a claimed call is on its way to run it; the call is neither
\* in the stash nor claimed by another.
HeldOnce ==
  \A h \in Handlers :
    held[h].call # 0 =>
      /\ pc[h] = "run" \/ (pc[h] \in {"save", "truncate", "write"} /\ after[h] = "run")
      /\ stash[Serving(h)].call # held[h].call
      /\ \A g \in Others(h) : held[g].call # held[h].call

\* While no save was lost, the pop of a claimed call reaches the file before the
\* worker is asked to run it.
HeldIsSaved ==
  ~unsaved =>
    \A h \in Handlers :
      held[h].call # 0 =>
        /\ \A g \in Handlers : snap[g][Serving(h)].call # held[h].call
        /\ pc[h] \in {"write", "run"} => disk[Serving(h)].call # held[h].call

\* A call that ran is in no place from which it could run again.
RanIsGone ==
  \A i \in DOMAIN runs :
    LET c == runs[i].entry.call
        t == calls[c].turn
    IN  /\ crashes = 0 \/ ~unsaved =>
             stash[t].call # c /\ \A h \in Handlers : held[h].call # c
        /\ ~unsaved =>
             disk[t].call # c /\ \A h \in Handlers : snap[h][t].call # c

NoSpareSnapshot ==
  \A h \in Handlers : pc[h] \notin {"truncate", "write"} => snap[h] = Nothing

\* A save under way writes the stash as it is, unless the save is known as lost.
SavesAreCurrent ==
  /\ \A t \in Turns : Sanitized(disk[t]) = disk[t]
  /\ \A h \in Handlers, t \in Turns : Sanitized(snap[h][t]) = snap[h][t]
  /\ ~unsaved =>
       \A h \in Handlers : pc[h] \in {"truncate", "write"} => snap[h] = Payload

\* The event loop works on a resume or waits for one, and a decision is that of
\* the card on the island.
JobAndCard ==
  /\ pc[EventLoop] # "new" /\ (pc[EventLoop] # "idle" => job # NoJob)
  /\ deciding # "idle" => island # NoTurn

Claims ==
  /\ EntriesOfTurn /\ HeldOnce /\ HeldIsSaved /\ RanIsGone
  /\ NoSpareSnapshot /\ SavesAreCurrent
  /\ AtMostOnce /\ FileIsCurrent

\* The inductive invariant of AtMostOnce and FileIsCurrent.
IInv == TypeOK /\ JobAndCard /\ Claims

-----------------------------------------------------------------------------
(* What comments and docs say, and the code does not do                    *)

\* "Capability execution blocked by approval decision.": a call that was waiting
\* when the user denied it never runs.  A denial leaves the stash as it was, so
\* that a later approval of the same turn runs the call.
DeniedCallsNeverRun == Ran \cap denied = {}

\* "A destructive desktop action (delete/shutdown/registry/PowerShell) is gated
\* behind a SECOND, explicit approval": a call whose arguments have
\* destructive_action_decision = "approve" from the model runs after one decision.
DestructiveRunsTwiceApproved ==
  ~autoMarvex =>
    \A i \in DOMAIN runs :
      LET c == runs[i].entry.call
      IN  calls[c].destructive => Cardinality(Clicks(c)) >= 2

\* "execute the EXACT capability + args the model requested": a call restored
\* from the file lacks the arguments that the save dropped.
ExactCallRuns == \A i \in DOMAIN runs : runs[i].entry.exact

\* "pause again so the user must approve once more before it runs": the decision
\* that lets a destructive call run answers the second question.  The card on
\* the island and the card in the chat may both have answered the first one.
SecondApprovalFollowsPrompt ==
  ~autoMarvex =>
    \A i \in DOMAIN runs :
      calls[runs[i].entry.call].destructive => runs[i].about.confirmed
=============================================================================
