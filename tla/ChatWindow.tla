------------------------------ MODULE ChatWindow ------------------------------
(***************************************************************************)
(* A turn that is typed in the chat window.  The window opens the request,  *)
(* the shell posts it to the Core Service, passes each frame of the answer   *)
(* on as an event and returns the result as well: the window takes the one   *)
(* that arrives first.  What a turn brings is written into the last bubble   *)
(* of the assistant in the chat that is shown.  Meanwhile the user may stop  *)
(* the turn, send another, or leave the chat.                               *)
(*                                                                         *)
(* A turn stands for its request id, its turn id and the provider response  *)
(* that it ends with.  Approval cards are in module Approvals.              *)
(***************************************************************************)
EXTENDS Naturals, SequencesExt

CONSTANTS
  Sessions,     \* session ids
  NoSession,
  MaxTurns,     \* bound on the turns
  MaxDeltas,    \* bound on the deltas of a turn
  MaxClicks     \* bound on what else the user does: stop a turn, delete, edit or
                \* retry a message, open, create or remove a chat

ASSUME ConstantsAssumption ==
  /\ Sessions # {} /\ NoSession \notin Sessions
  /\ MaxTurns \in Nat /\ MaxDeltas \in Nat /\ MaxClicks \in Nat

VARIABLES
  session,   \* sessionIdRef
  chats,     \* the messages: on the screen those of session, the others cached
  anchor,    \* previousResponseIdsRef
  backend,   \* the sessions that the Core Service lists
  listed,    \* the sessions in the side bar
  pending,   \* pendingRef
  phase,     \* where the send of a turn is
  sent,      \* its arguments
  streamed,  \* turns with a delta
  shell,     \* where submit_chat_turn_stream is
  cancels,   \* active_chat_cancels
  cancelled, \* turns whose cancel was sent
  told,      \* what the Core Service sent: a response id, deltas, an error
  result,    \* final_result: with the id of its response, or plain
  events,    \* chat-stream events on their way to the window
  invoke,    \* what the command returned, and the send has not taken
  deleted,   \* provider responses that the window had deleted
  strayed,   \* history: turns that were under way when the user pressed Stop or
             \* left for another chat
  clicks

window == <<session, chats, anchor, backend, listed, pending, phase, sent, streamed>>
request == <<shell, cancels, cancelled, told, result, events, invoke>>
vars == <<window, request, deleted, strayed, clicks>>

Turns == 1..MaxTurns
NoTurn == 0

NoFrames == [response |-> FALSE, deltas |-> 0, error |-> FALSE]

\* of: the turn the text is from; a text that is "empty" is none.  A streaming bubble
\* has no Retry and no Delete.
Message == [who : {"user", "assistant"}, of : Turns, text : {"empty", "part", "answer", "error"},
            response : Turns \cup {NoTurn}, previous : Turns \cup {NoTurn},
            streaming : BOOLEAN]

TypeOK ==
  /\ session \in Sessions \cup {NoSession}
  /\ chats \in [Sessions \cup {NoSession} -> Seq(Message)]
  /\ anchor \in [Sessions -> Turns \cup {NoTurn}]
  /\ backend \subseteq Sessions /\ listed \subseteq Sessions
  /\ pending \in BOOLEAN
  /\ phase \in [Turns -> {"new", "session", "stream", "answered", "failed"}]
  /\ sent \in [Turns -> [home : Sessions \cup {NoSession}, adds : BOOLEAN,
                         question : Turns \cup {NoTurn}, previous : Turns \cup {NoTurn}]]
  /\ streamed \subseteq Turns
  /\ shell \in [Turns -> {"none", "invoked", "posting", "reading", "over"}]
  /\ cancels \subseteq Turns /\ cancelled \subseteq Turns
  /\ told \in [Turns -> [response : BOOLEAN, deltas : 0..MaxDeltas, error : BOOLEAN]]
  /\ result \in [Turns -> {"none", "plain", "id"}]
  /\ events \in [Turns -> Seq({"response", "delta", "plain", "id", "error"})]
  /\ invoke \in [Turns -> {"open", "plain", "id", "failed", "cancelled"}]
  /\ deleted \subseteq Turns /\ strayed \subseteq Turns
  /\ clicks \in 0..MaxClicks

\* The window has found, or created, its first session.
Init ==
  /\ session = CHOOSE s \in Sessions : TRUE
  /\ chats = [s \in Sessions \cup {NoSession} |-> <<>>]
  /\ anchor = [s \in Sessions |-> NoTurn]
  /\ backend = {session} /\ listed = {session}
  /\ pending = FALSE
  /\ phase = [t \in Turns |-> "new"]
  /\ sent = [t \in Turns |-> [home |-> NoSession, adds |-> TRUE,
                              question |-> NoTurn, previous |-> NoTurn]]
  /\ streamed = {}
  /\ shell = [t \in Turns |-> "none"]
  /\ cancels = {} /\ cancelled = {}
  /\ told = [t \in Turns |-> NoFrames]
  /\ result = [t \in Turns |-> "none"]
  /\ events = [t \in Turns |-> <<>>]
  /\ invoke = [t \in Turns |-> "open"]
  /\ deleted = {} /\ strayed = {} /\ clicks = 0

-----------------------------------------------------------------------------
(* The transcript                                                          *)

Live == {t \in Turns : phase[t] \in {"session", "stream"}}

Question(t, previous) ==
  [who |-> "user", of |-> t, text |-> "empty", response |-> NoTurn,
   previous |-> previous, streaming |-> FALSE]

LastAssistant(ms) == SelectLastInSeq(ms, LAMBDA m : m.who = "assistant")

\* The last bubble of the assistant, or the one that is pushed if there is none.
LastBubble(ms) ==
  IF LastAssistant(ms) = 0
  THEN [who |-> "assistant", of |-> NoTurn, text |-> "empty", response |-> NoTurn,
        previous |-> NoTurn, streaming |-> FALSE]
  ELSE ms[LastAssistant(ms)]

\* The fields of it that a patch of turn t replaces; some replace more.
Patched(ms, t, text, previous) ==
  [LastBubble(ms) EXCEPT !.of = t, !.text = text, !.previous = previous]

\* updateLastAssistant
UpdateLastAssistant(ms, bubble) ==
  IF LastAssistant(ms) = 0 THEN Append(ms, bubble)
                           ELSE [ms EXCEPT ![LastAssistant(ms)] = bubble]

\* appendTurnPlaceholder
Placeholder(ms, t, args) ==
  IF args.adds
  THEN ms \o <<Question(t, args.previous),
               [Patched(<<>>, t, "empty", args.previous) EXCEPT !.streaming = TRUE]>>
  ELSE UpdateLastAssistant(ms,
         [Patched(ms, t, "empty", args.previous) EXCEPT !.streaming = TRUE])

\* The arguments of a send, once it knows its session.
AtHome(args, s, as) ==
  [args EXCEPT !.home = s, !.previous = IF @ # NoTurn THEN @ ELSE as[s]]

\* restoreMessages: an interrupted turn is settled when its chat is loaded.
Restored(ms) == [i \in DOMAIN ms |-> [ms[i] EXCEPT !.streaming = FALSE]]

\* lastProviderResponseId
LastResponse(ms) ==
  LET i == SelectLastInSeq(ms, LAMBDA m : m.response # NoTurn)
  IN IF i = 0 THEN NoTurn ELSE ms[i].response

\* Wrong: a message without a response is not passed over.
AllResponses(ms) == {ms[i].response : i \in DOMAIN ms}

\* The responses that the window has the Core Service delete with its messages.
Responses(ms) == {ms[i].response : i \in DOMAIN ms} \ {NoTurn}

Shows(ms) == chats' = [chats EXCEPT ![session] = ms]

\* Another chat is put on the screen; what no session had is gone.
ShowsChat(s, ms) ==
  /\ session' = s
  /\ chats' = [chats EXCEPT ![s] = ms, ![NoSession] = <<>>]

Clicks == clicks < MaxClicks /\ clicks' = clicks + 1

\* The turns under way go on without their chat, or without their bubble.
Strays == strayed' = strayed \cup Live

-----------------------------------------------------------------------------
(* send                                                                    *)

\* The send of a turn, over the transcript that an edit has left, which
\* anchors its session at the responses in as.
Begins(t, ms, as, args) ==
  /\ ~pending
  /\ t \in Turns /\ phase[t] = "new" /\ \A u \in 1..t - 1 : phase[u] # "new"
  /\ pending' = TRUE
  /\ anchor' = as
  /\ IF session = NoSession
     THEN /\ phase' = [phase EXCEPT ![t] = "session"]
          /\ sent' = [sent EXCEPT ![t] = args]
          /\ Shows(ms)
          /\ UNCHANGED shell
     ELSE /\ phase' = [phase EXCEPT ![t] = "stream"]
          /\ sent' = [sent EXCEPT ![t] = AtHome(args, session, as)]
          /\ Shows(Placeholder(ms, t, AtHome(args, session, as)))
          /\ shell' = [shell EXCEPT ![t] = "invoked"]
  /\ UNCHANGED <<session, backend, listed, streamed, cancels, cancelled, told, result,
                 events, invoke>>

\* The composer, an answer to a question of the turn, or a voice transcript.
Send(t) ==
  /\ Begins(t, chats[session], anchor,
            [home |-> NoSession, adds |-> TRUE, question |-> t, previous |-> NoTurn])
  /\ UNCHANGED <<deleted, strayed, clicks>>

\* ensureBackendSession, when there is none: the first session of the Core
\* Service, or a new one, is activated.
SessionReady(t) ==
  /\ phase[t] = "session"
  /\ \E s \in IF backend # {} THEN backend ELSE {u \in Sessions : chats[u] = <<>>} :
       /\ sent' = [sent EXCEPT ![t] = AtHome(@, s, anchor)]
       /\ ShowsChat(s, Placeholder(Restored(chats[s]), t, AtHome(sent[t], s, anchor)))
       /\ backend' = backend \cup {s} /\ listed' = listed \cup {s}
  /\ phase' = [phase EXCEPT ![t] = "stream"]
  /\ shell' = [shell EXCEPT ![t] = "invoked"]
  /\ UNCHANGED <<anchor, pending, streamed, cancels, cancelled, told, result, events,
                 invoke, deleted, strayed, clicks>>

Listens(t) == phase[t] = "stream"

\* Wrong: the listener stays.
KeepsListening(t) ==
  /\ events' = [events EXCEPT ![t] = IF @ = <<>> THEN @ ELSE Tail(@)]
  /\ invoke' = [invoke EXCEPT ![t] = "open"]

\* The race is over: unlisten, and the other answer is not waited for.
Settles(t) ==
  /\ events' = [events EXCEPT ![t] = <<>>]
  /\ invoke' = [invoke EXCEPT ![t] = "open"]

Ends(t, how) ==
  /\ phase' = [phase EXCEPT ![t] = how]
  /\ pending' = FALSE
  /\ streamed' = streamed \ {t}
  /\ Settles(t)

\* The result: the text is final, the session continues from its response.
Finishes(t, final) ==
  /\ Ends(t, "answered")
  /\ anchor' = IF final = "id" THEN [anchor EXCEPT ![sent[t].home] = t] ELSE anchor
  /\ listed' = listed \cup {sent[t].home}
  /\ Shows(UpdateLastAssistant(chats[session],
             [Patched(chats[session], t, "answer", sent[t].previous)
                EXCEPT !.response = IF final = "id" THEN t ELSE NoTurn]))

\* An error: its text, or none for a turn that was cancelled.
Fails(t, ms, text) ==
  /\ Ends(t, "failed")
  /\ Shows(UpdateLastAssistant(ms, Patched(ms, t, text, sent[t].previous)))
  /\ UNCHANGED <<anchor, listed>>

SessionFails(t) ==
  /\ phase[t] = "session"
  /\ Fails(t, Placeholder(chats[session], t, sent[t]), "error")
  /\ UNCHANGED <<session, backend, sent, shell, cancels, cancelled, told, result,
                 deleted, strayed, clicks>>

\* An event reaches the window.
Deliver(t) ==
  /\ events[t] # <<>>
  /\ LET e == Head(events[t])
         Shown(text) ==
           /\ Shows(UpdateLastAssistant(chats[session],
                      [Patched(chats[session], t, text, sent[t].previous)
                         EXCEPT !.streaming = TRUE,
                                !.response = IF e = "response" THEN t ELSE @]))
           /\ events' = [events EXCEPT ![t] = Tail(@)]
           /\ UNCHANGED <<anchor, listed, pending, phase, invoke>>
     IN \/ /\ e = "response"
           /\ Shown(IF t \in streamed THEN "part" ELSE "empty")
           /\ UNCHANGED streamed
        \/ /\ e = "delta"
           /\ streamed' = streamed \cup {t}
           /\ Shown("part")
        \/ e \in {"plain", "id"} /\ Finishes(t, e)
        \/ e = "error" /\ Fails(t, chats[session], "error")
  /\ UNCHANGED <<session, backend, sent, shell, cancels, cancelled, told, result,
                 deleted, strayed, clicks>>

\* The command has returned: a result, an error, or that it was cancelled.
InvokeReturns(t) ==
  /\ \/ invoke[t] \in {"plain", "id"} /\ Finishes(t, invoke[t])
     \/ invoke[t] = "failed" /\ Fails(t, chats[session], "error")
     \/ invoke[t] = "cancelled" /\ Fails(t, chats[session], "empty")
  /\ UNCHANGED <<session, backend, sent, shell, cancels, cancelled, told, result,
                 deleted, strayed, clicks>>

-----------------------------------------------------------------------------
(* What else the user does                                                 *)

\* The transcript without the bubbles that have no text yet.
Written(ms) ==
  LET upTo[n \in 0..Len(ms)] ==
        IF n = 0 THEN <<>>
        ELSE IF ms[n].who = "assistant" /\ ms[n].text = "empty" /\ ms[n].streaming
             THEN upTo[n - 1] ELSE Append(upTo[n - 1], ms[n])
  IN upTo[Len(ms)]

\* stopChatTurn and cancel_active_chat_turn: the button is back at once, and a
\* bubble that has no text yet is taken away.
Stop ==
  /\ pending
  /\ Clicks
  /\ pending' = FALSE
  /\ Shows(Written(chats[session]))
  /\ cancelled' = cancelled \cup cancels
  /\ cancels' = {}
  /\ Strays
  /\ UNCHANGED <<session, anchor, backend, listed, phase, sent, streamed, shell, told,
                 result, events, invoke, deleted>>

\* Wrong: the anchor of the session is left as it was.
Unsynced(ms) == anchor

\* syncSessionResponseAnchor
Synced(ms) ==
  IF session = NoSession THEN anchor
                         ELSE [anchor EXCEPT ![session] = LastResponse(ms)]

CanEdit == ~pending /\ Clicks

\* deleteMessage: a question goes with its answer.
DeleteMessage(i) ==
  LET ms == chats[session]
      through == IF /\ ms[i].who = "user"
                    /\ i < Len(ms) /\ ms[i + 1].who = "assistant"
                 THEN i + 1 ELSE i
      kept == SubSeq(ms, 1, i - 1) \o SubSeq(ms, through + 1, Len(ms))
  IN /\ CanEdit /\ i \in DOMAIN ms /\ ~ms[i].streaming
     /\ Shows(kept)
     /\ anchor' = Synced(kept)
     /\ deleted' = deleted \cup Responses(SubSeq(ms, i, through))
     /\ UNCHANGED <<session, backend, listed, pending, phase, sent, streamed, request,
                    strayed>>

\* editUserMessage: the question and all that followed are replaced.
EditUserMessage(t, i) ==
  LET ms == chats[session]
      kept == SubSeq(ms, 1, i - 1)
  IN /\ CanEdit /\ i \in DOMAIN ms /\ ms[i].who = "user"
     /\ deleted' = deleted \cup Responses(SubSeq(ms, i, Len(ms)))
     /\ Begins(t, kept, Synced(kept),
               [home |-> NoSession, adds |-> TRUE, question |-> t,
                previous |-> ms[i].previous])
     /\ UNCHANGED strayed

\* retryAssistantMessage: the question before the answer is asked again.
RetryAssistantMessage(t, i) ==
  LET ms == chats[session]
      kept == SubSeq(ms, 1, i - 1)
      asked == SelectLastInSeq(kept, LAMBDA m : m.who = "user")
  IN /\ CanEdit /\ i \in DOMAIN ms /\ ms[i].who = "assistant" /\ ~ms[i].streaming
     /\ asked # 0
     /\ deleted' = deleted \cup Responses(SubSeq(ms, i, Len(ms)))
     /\ Begins(t, kept, Synced(kept),
               [home |-> NoSession, adds |-> FALSE, question |-> ms[asked].of,
                previous |-> ms[asked].previous])
     /\ UNCHANGED strayed

OpenSession(s) ==
  /\ Clicks
  /\ s \in listed
  /\ ShowsChat(s, Restored(chats[s]))
  /\ Strays
  /\ UNCHANGED <<anchor, backend, listed, pending, phase, sent, streamed, request,
                 deleted>>

\* startNewSession, when the Core Service has answered.
StartNewSession(s) ==
  /\ Clicks
  /\ s \notin backend \cup listed /\ chats[s] = <<>>
  /\ ShowsChat(s, <<>>)
  /\ anchor' = [anchor EXCEPT ![s] = NoTurn]
  /\ backend' = backend \cup {s} /\ listed' = listed \cup {s}
  /\ Strays
  /\ UNCHANGED <<pending, phase, sent, streamed, request, deleted>>

\* removeSession; the Core Service may fail to delete it.
RemoveSession(s) ==
  /\ Clicks
  /\ s \in listed
  /\ listed' = listed \ {s}
  /\ backend' \in {backend, backend \ {s}}
  /\ session' = IF s = session THEN NoSession ELSE session
  /\ chats' = [chats EXCEPT ![s] = <<>>]
  /\ Strays
  /\ UNCHANGED <<anchor, pending, phase, sent, streamed, request, deleted>>

-----------------------------------------------------------------------------
(* submit_chat_turn_stream                                                 *)

\* It enters its cancel and opens the stream.
ShellStarts(t) ==
  /\ shell[t] = "invoked"
  /\ shell' = [shell EXCEPT ![t] = "posting"]
  /\ cancels' = cancels \cup {t}
  /\ UNCHANGED <<window, cancelled, told, result, events, invoke, deleted, strayed, clicks>>

Emits(t, e) ==
  events' = IF Listens(t) THEN [events EXCEPT ![t] = Append(@, e)] ELSE events

Returns(t, what) ==
  /\ shell' = [shell EXCEPT ![t] = "over"]
  /\ cancels' = cancels \ {t}
  /\ cancelled' = cancelled \ {t}
  /\ invoke' = [invoke EXCEPT ![t] = IF Listens(t) THEN what ELSE @]
  /\ told' = [told EXCEPT ![t] = NoFrames]
  /\ result' = [result EXCEPT ![t] = "none"]

\* The Core Service accepts the request, or does not.
ShellOpens(t) ==
  /\ shell[t] = "posting"
  /\ \/ /\ shell' = [shell EXCEPT ![t] = "reading"]
        /\ UNCHANGED <<cancels, cancelled, invoke, told, result>>
     \/ Returns(t, "failed")
  /\ UNCHANGED <<window, events, deleted, strayed, clicks>>

\* The next frame of _stream_turn_events is passed on.
ShellReads(t) ==
  /\ shell[t] = "reading"
  /\ result[t] = "none" /\ ~told[t].error
  /\ \E e \in {"response", "delta", "plain", "id", "error"} :
       /\ e = "response" => ~told[t].response
       /\ e = "delta" => told[t].deltas < MaxDeltas
       /\ Emits(t, e)
       /\ result' = [result EXCEPT ![t] = IF e \in {"plain", "id"} THEN e ELSE @]
       /\ told' = [told EXCEPT ![t] =
            [response |-> @.response \/ e = "response",
             deltas |-> IF e = "delta" THEN @.deltas + 1 ELSE @.deltas,
             error |-> e = "error"]]
  /\ UNCHANGED <<window, shell, cancels, cancelled, invoke, deleted, strayed, clicks>>

\* Wrong: the command fails, whatever it has read.
EndLosesResult(t) ==
  /\ shell[t] = "reading"
  /\ Returns(t, "failed")
  /\ UNCHANGED <<window, events, deleted, strayed, clicks>>

\* The body ends, or breaks at any frame: with the result read the turn is
\* complete.
StreamEnds(t) ==
  /\ shell[t] = "reading"
  /\ Returns(t, IF result[t] # "none" THEN result[t] ELSE "failed")
  /\ UNCHANGED <<window, events, deleted, strayed, clicks>>

\* cancel_active_chat_turn has been heard.
ShellCancelled(t) ==
  /\ shell[t] \in {"posting", "reading"} /\ t \in cancelled
  /\ Emits(t, "error")
  /\ Returns(t, "cancelled")
  /\ UNCHANGED <<window, deleted, strayed, clicks>>

-----------------------------------------------------------------------------
\* The turn goes on by itself.
Progress(t) ==
  \/ SessionReady(t) \/ SessionFails(t)
  \/ Deliver(t) \/ InvokeReturns(t)
  \/ ShellStarts(t) \/ ShellOpens(t) \/ ShellReads(t)
  \/ StreamEnds(t) \/ ShellCancelled(t)

User ==
  \/ \E t \in Turns : Send(t)
  \/ Stop
  \/ \E i \in DOMAIN chats[session] :
       \/ DeleteMessage(i)
       \/ \E t \in Turns : EditUserMessage(t, i) \/ RetryAssistantMessage(t, i)
  \/ \E s \in Sessions : OpenSession(s) \/ StartNewSession(s) \/ RemoveSession(s)

Next == User \/ \E t \in Turns : Progress(t)

Spec == Init /\ [][Next]_vars

-----------------------------------------------------------------------------
(* Properties                                                              *)

\* The shell has read the result of a turn.
ResultRead(t) ==
  result[t] # "none" \/ (ToSet(events[t]) \cup {invoke[t]}) \cap {"plain", "id"} # {}

\* A result that the shell has read is not lost, whatever breaks after it and
\* whichever of the event and the return is first: unless it was cancelled the
\* turn ends answered (the race of submitChatTurnStream, its error paths, and
\* final_result of submit_chat_turn_stream).
ResultIsShown ==
  [][\A t \in Turns :
       (phase[t] = "stream" /\ phase'[t] # "stream" /\ ResultRead(t) /\ invoke[t] # "cancelled")
         => phase'[t] = "answered"]_vars

\* An answer stands under the question that it answers.
InPlace(ms, i) ==
  LET asked == SelectLastInSubSeq(ms, 1, i - 1, LAMBDA m : m.who = "user")
  IN asked # 0 /\ ms[asked].of = sent[ms[i].of].question

\* While the user waits for a turn before leaving its chat, and retries none,
\* every answer stands under its question, edits and deletions notwithstanding,
\* and that of a turn that was answered is whole: no late event has cut it
\* (updateLastAssistant, appendTurnPlaceholder, unlisten).
AnswersInPlace ==
  (strayed = {} /\ \A t \in Turns : sent[t].adds) =>
    \A s \in Sessions \cup {NoSession} : \A i \in DOMAIN chats[s] :
      chats[s][i].who = "assistant" =>
        /\ InPlace(chats[s], i)
        /\ phase[chats[s][i].of] = "answered" => chats[s][i].text = "answer"

\* A question from the composer continues from a response that the window has
\* not had deleted, unless a turn went on after the user had stopped or left it
\* (syncSessionResponseAnchor).
SendContinuesFromLive ==
  [][\A t \in Turns :
       (phase[t] = "new" /\ phase'[t] = "stream" /\ clicks' = clicks /\ strayed = {})
         => sent'[t].previous \notin deleted]_vars

-----------------------------------------------------------------------------
(* What comments of the repository say                                     *)

\* apps/shell/src/surfaces/ChatApp.tsx: "Replace the last (in-progress) assistant
\* bubble": with nobody stopping a turn or leaving it, what a turn brings stands
\* under its own question.
UnderItsQuestion ==
  strayed = {} =>
    \A s \in Sessions \cup {NoSession} : \A i \in DOMAIN chats[s] :
      chats[s][i].who = "assistant" => InPlace(chats[s], i)

\* apps/shell/src/lib/shellCommands.ts: "Single in-flight turn is assumed (the UI
\* gates on `pending`)": of the turns that nobody stopped one is under way.
SingleInFlight ==
  \A t, u \in Live \ strayed : t = u

\* A turn continues from a response that still exists.
ContinuesFromLive ==
  [][\A t \in Turns : phase[t] # "stream" /\ phase'[t] = "stream" =>
       sent'[t].previous \notin deleted']_vars

\* A turn continues the conversation of its own session.
ContinuesOwnSession ==
  \A t \in Turns : phase[t] = "stream" /\ sent[t].previous # NoTurn =>
    sent[sent[t].previous].home = sent[t].home
=============================================================================
