----------------------------- MODULE AgenticLoop -----------------------------
(***************************************************************************)
(* One turn of the Core Service drives the model: run_tool_loop sends the  *)
(* conversation to the provider, runs the safe tool calls of the answer,   *)
(* sends their results, and stops at a text, a question, a risky call, an  *)
(* error or its step cap.  _run_agentic_tool_loop decides what follows: a  *)
(* repair attempt, a result, a pause for approval, or None, on which the   *)
(* caller takes the fallback of its route.  An approved call is run and    *)
(* the loop is entered again with its result.                              *)
(*                                                                         *)
(* The provider and the tools are the environment: any answer, any error.  *)
(* A successful answer has a response id, as with the Responses API.  The  *)
(* stash, its file and the surfaces are in module Approvals.               *)
(***************************************************************************)
EXTENDS Naturals, Sequences

CONSTANTS
  MaxSteps,     \* the resolved step cap of a turn
  MaxAttempts,  \* attempts at a required call, retries after a failed one: 5
  MaxBatch,     \* bound on the calls in one response
  MaxDepth      \* nesting of auto-approved calls that the stack has room for

ASSUME ConstantsAssumption ==
  /\ MaxSteps \in Nat \ {0}
  /\ MaxAttempts \in Nat /\ MaxAttempts > 1
  /\ MaxBatch \in Nat \ {0}
  /\ MaxDepth \in Nat

VARIABLES
  autoMarvex, \* the policy is Auto Marvex: risky calls are approved by mode
  route,    \* the route the intents of the turn select
  origin,   \* who called _run_agentic_tool_loop: the turn, or an approved call
  attempt,  \* the number of the retry after an approved call that failed
  pc,       \* where the turn is
  mode,     \* which run_tool_loop this is: first, after an error, or required
  tries,    \* required_tool_attempts
  step,     \* provider calls of this run_tool_loop
  tools,    \* the tool messages of the next send
  asked,    \* the calls in the response that previous_response_id names
  repaired, \* reasoning_only_retry_used
  executed, \* executed_tool_ids is not empty
  text,     \* last_text is not blank
  status,   \* the status of the LoopResult
  pending,  \* the call that waits for approval
  depth,    \* auto-approved calls under way
  outcome,  \* how the turn ended
  sends,    \* history: provider calls since the turn was entered or resumed
  loops     \* history: run_tool_loop calls since the turn was entered or resumed

loopState == <<step, tools, asked, repaired, executed, text>>
turnState == <<autoMarvex, route, origin, attempt, mode, tries, pending, depth>>
counters == <<sends, loops>>
vars == <<autoMarvex, route, origin, attempt, pc, mode, tries, step, tools, asked, repaired,
          executed, text, status, pending, depth, outcome, sends, loops>>

Routes == {"chat", "file", "write", "browser", "web"}

\* clarify; a safe tool, web.search among them; a risky tool; a file write that names
\* no source; a call that is unknown, invalid or cannot be prepared.
Calls == {"clarify", "safe", "risky", "bare", "bad"}
Batches == UNION {[1..n -> Calls] : n \in 0..MaxBatch}

\* The echo and the results of calls: which calls of `asked`, and whether a
\* result lists the sources of a web search.
NoTools == [answers |-> <<>>, sources |-> FALSE]
ToolMessages == [answers : Seq(1..MaxBatch), sources : BOOLEAN]

Pending == [call : 1..MaxBatch, batch : Batches, confirmed : BOOLEAN]
NoPending == [call |-> 0]

TypeOK ==
  /\ autoMarvex \in BOOLEAN
  /\ route \in Routes
  /\ origin \in {"turn", "continue", "retry"}
  /\ attempt \in 0..MaxAttempts
  /\ pc \in {"enter", "send", "call", "judge", "run", "paused", "fallback", "done"}
  /\ mode \in {"first", "error_retry", "required"}
  /\ tries \in 1..MaxAttempts
  /\ step \in 0..MaxSteps
  /\ tools \in ToolMessages
  /\ asked \in Batches
  /\ repaired \in BOOLEAN
  /\ executed \in BOOLEAN
  /\ text \in BOOLEAN
  /\ status \in {"none", "final", "needs_approval", "needs_clarification",
                 "error", "max_steps"}
  /\ pending \in Pending \cup {NoPending}
  /\ depth \in 0..MaxDepth
  /\ outcome \in {"none", "answered", "asked", "blocked", "denied", "raised"}
  /\ sends \in Nat
  /\ loops \in Nat

Init ==
  /\ autoMarvex \in BOOLEAN
  /\ route \in Routes
  /\ origin = "turn" /\ attempt = 0
  /\ pc = "enter"
  /\ mode = "first" /\ tries = 1
  /\ step = 0
  /\ tools = NoTools /\ asked = <<>>
  /\ repaired = FALSE /\ executed = FALSE /\ text = FALSE
  /\ status = "none"
  /\ pending = NoPending
  /\ depth = 0
  /\ outcome = "none"
  /\ sends = 0 /\ loops = 0

-----------------------------------------------------------------------------
(* run_tool_loop                                                           *)

\* The arguments of _run_agentic_tool_loop.
RequiresTool == origin = "turn" /\ route \in {"write", "browser"}
Grounded == origin = "turn" /\ route = "web"
FallsBackWithoutTools == origin = "turn" /\ route = "file"

\* allowed_tool_ids: the browser route offers clarify and automation tools only.
Known(k) ==
  k # "bad" /\ (origin = "turn" /\ route = "browser" => k \in {"clarify", "risky"})

\* A run_tool_loop starts with messages m about the calls of a response.
StartLoop(m, calls) ==
  /\ pc' = "send"
  /\ step' = 0
  /\ tools' = m
  /\ asked' = calls
  /\ repaired' = FALSE
  /\ executed' = FALSE
  /\ text' = FALSE
  /\ status' = "none"
  /\ loops' = loops + 1

LoopEnds(s) == pc' = "judge" /\ status' = s

NextStepPastCap ==
  IF step' <= MaxSteps THEN pc' = "send" /\ UNCHANGED status
                       ELSE LoopEnds("max_steps")

\* The step is over without a result: the next one, or the cap.
NextStep ==
  IF step' < MaxSteps THEN pc' = "send" /\ UNCHANGED status
                      ELSE LoopEnds("max_steps")

Sent == step' = step + 1 /\ sends' = sends + 1

\* The turn enters the loop of its route.
Enter ==
  /\ pc = "enter"
  /\ StartLoop(NoTools, <<>>)
  /\ UNCHANGED <<turnState, outcome, sends>>

\* The provider raises or reports an error.
ProviderFails ==
  /\ pc = "send"
  /\ Sent
  /\ LoopEnds("error")
  /\ UNCHANGED <<turnState, tools, asked, repaired, executed, text,
                 outcome, loops>>

\* It answers in text, without calls; white space alone replaces a text only
\* after the repair, nothing at all never does.
ProviderAnswers ==
  /\ pc = "send"
  /\ Sent
  /\ asked' = <<>>
  /\ text' \in BOOLEAN
  /\ text /\ ~text' => repaired
  /\ LoopEnds("final")
  /\ UNCHANGED <<turnState, tools, repaired, executed, outcome, loops>>

\* Only hidden reasoning, or white space: once in a loop the model is asked for
\* its answer.
ProviderOnlyThinks ==
  /\ pc = "send"
  /\ ~repaired
  /\ Sent
  /\ asked' = <<>>
  /\ tools' = NoTools
  /\ repaired' = TRUE
  /\ text' \in BOOLEAN
  /\ NextStep
  /\ UNCHANGED <<turnState, executed, outcome, loops>>

\* It asks for tool calls.
ProviderCalls ==
  /\ pc = "send"
  /\ Sent
  /\ asked' \in Batches \ {<<>>}
  /\ text' \in BOOLEAN
  /\ pc' = "call"
  /\ UNCHANGED <<turnState, tools, repaired, executed, status, outcome,
                 loops>>

\* What execute_tool_calls may make of a call.
RiskyRunAsSafe(k) ==
  CASE k = "clarify" -> {"clarification"}
    [] ~Known(k) \/ (k = "bare" /\ tools.sources) -> {"error"}
    [] OTHER -> {"succeeded", "error"}

Results(k) ==
  CASE k = "clarify" -> {"clarification"}
    [] ~Known(k) \/ (k = "bare" /\ tools.sources) -> {"error"}
    [] k \in {"risky", "bare"} -> {"approval"}
    [] OTHER -> {"succeeded", "error"}

IsLast(i, s, k) == s[i] = k /\ \A j \in i + 1..Len(s) : s[j] # k

IsFirst(i, s, k) == s[i] = k /\ \A j \in 1..i - 1 : s[j] # k

AnswersSkippingErrors(results) ==
  SelectSeq([i \in DOMAIN results |-> i], LAMBDA i : results[i] # "error")

\* Every call gets a tool message, in order.
Answers(results) == [i \in DOMAIN results |-> i]

\* The batch is executed; a question goes before an approval, the first risky
\* call is the one that waits, and safe calls run in any case.  The next
\* step knows the sources of a search that found some and whose result fits in a
\* tool message; a longer one is cut off, which leaves nothing to parse.
CallTools ==
  /\ pc = "call"
  /\ UNCHANGED <<autoMarvex, route, origin, attempt, mode, tries, depth, step, asked, repaired,
                 text, outcome, counters>>
  /\ \E results \in [DOMAIN asked -> {"clarification", "error", "approval", "succeeded"}],
        fits \in BOOLEAN :
       /\ \A i \in DOMAIN asked : results[i] \in Results(asked[i])
       /\ fits => \E i \in DOMAIN asked : results[i] = "succeeded" /\ asked[i] = "safe"
       /\ executed' = (executed \/ \E i \in DOMAIN asked : results[i] = "succeeded")
       /\ \/ /\ \E i \in DOMAIN asked : results[i] = "clarification"
             /\ LoopEnds("needs_clarification")
             /\ UNCHANGED <<tools, pending>>
          \/ /\ \A i \in DOMAIN asked : results[i] # "clarification"
             /\ LoopEnds("needs_approval")
             /\ \E c \in DOMAIN asked :
                  /\ IsFirst(c, results, "approval")
                  /\ pending' = [call |-> c, batch |-> asked, confirmed |-> FALSE]
             /\ UNCHANGED tools
          \/ /\ \A i \in DOMAIN asked : results[i] \in {"error", "succeeded"}
             /\ tools' = [answers |-> Answers(results), sources |-> fits]
             /\ NextStep
             /\ UNCHANGED pending

-----------------------------------------------------------------------------
(* _run_agentic_tool_loop: what follows a LoopResult                       *)

Done(how) == pc' = "done" /\ outcome' = how

\* A turn that requires a call and met a provider error is tried once more.
RetriesError == status = "error" /\ RequiresTool /\ mode = "first"

RetryAfterError ==
  /\ pc = "judge"
  /\ RetriesError
  /\ mode' = "error_retry"
  /\ tries' = 2
  /\ StartLoop(NoTools, <<>>)
  /\ UNCHANGED <<autoMarvex, route, origin, attempt, pending, depth, outcome, sends>>

RetryFails ==
  /\ pc = "judge"
  /\ status = "error" /\ mode = "error_retry"
  /\ Done("blocked")
  /\ UNCHANGED <<turnState, loopState, status, counters>>

\* An answer without any executed call is repaired, up to five attempts.
LacksCall == RequiresTool /\ status = "final" /\ ~executed

RequireCallOnceMore ==
  /\ pc = "judge"
  /\ LacksCall /\ tries <= MaxAttempts
  /\ mode' = "required"
  /\ tries' = tries + 1
  /\ StartLoop(NoTools, <<>>)
  /\ UNCHANGED <<autoMarvex, route, origin, attempt, pending, depth, outcome, sends>>

RequireCallUncounted ==
  /\ pc = "judge"
  /\ LacksCall /\ tries < MaxAttempts
  /\ mode' = "required"
  /\ StartLoop(NoTools, <<>>)
  /\ UNCHANGED <<autoMarvex, route, origin, attempt, tries, pending, depth, outcome, sends>>

RequireCall ==
  /\ pc = "judge"
  /\ LacksCall /\ tries < MaxAttempts
  /\ mode' = "required"
  /\ tries' = tries + 1
  /\ StartLoop(NoTools, <<>>)
  /\ UNCHANGED <<autoMarvex, route, origin, attempt, pending, depth, outcome, sends>>

LacksCallForGood == LacksCall /\ tries = MaxAttempts

\* None is returned to the caller.
ReturnsNone ==
  \/ status = "error" /\ ~RetriesError /\ mode # "error_retry"
  \/ Grounded /\ status = "max_steps"
  \/ /\ status = "final" /\ ~executed /\ ~Grounded
     /\ LacksCall => LacksCallForGood
     /\ FallsBackWithoutTools \/ ~text

\* The default route falls back to the bounded continuation loop.
FallBackToProvider ==
  /\ pc = "judge"
  /\ ReturnsNone /\ origin = "turn" /\ route = "chat"
  /\ pc' = "fallback"
  /\ step' = 0
  /\ UNCHANGED <<turnState, tools, asked, repaired, executed, text,
                 status, outcome, counters>>

\* The file route runs its own search, the web route its grounded path, the
\* browser route reports that no call was made, and a run that continues after an
\* approved call ends with the result of that call.
FallBackToAnswer ==
  /\ pc = "judge"
  /\ ReturnsNone
  /\ \/ origin = "turn" /\ route \in {"file", "web"} /\ Done("answered")
     \/ origin = "turn" /\ route = "browser" /\ Done("blocked")
     \/ origin = "continue" /\ Done("answered")
     \/ origin = "retry" /\ attempt = MaxAttempts /\ Done("answered")
  /\ UNCHANGED <<turnState, loopState, status, counters>>

\* The write route asks for the approval of the user's own request.
FallBackToApproval ==
  /\ pc = "judge"
  /\ ReturnsNone /\ origin = "turn" /\ route = "write"
  /\ pc' = "paused"
  /\ UNCHANGED <<turnState, loopState, status, outcome, counters>>

\* _retry_model_after_approved_tool_failure: the next attempt.
RetryApproved ==
  /\ pc = "judge"
  /\ ReturnsNone /\ origin = "retry" /\ attempt < MaxAttempts
  /\ attempt' = attempt + 1
  /\ mode' = "first" /\ tries' = 1
  /\ StartLoop([NoTools EXCEPT !.answers = <<pending.call>>], pending.batch)
  /\ UNCHANGED <<autoMarvex, route, origin, pending, depth, outcome, sends>>

\* The call waits for the user, or is approved by the mode.
Pause ==
  /\ pc = "judge"
  /\ status = "needs_approval"
  /\ pc' = IF autoMarvex THEN "run" ELSE "paused"
  /\ UNCHANGED <<turnState, loopState, status, outcome, counters>>

AskUser ==
  /\ pc = "judge"
  /\ status = "needs_clarification"
  /\ Done("asked")
  /\ UNCHANGED <<turnState, loopState, status, counters>>

\* The required call was never made.
Blocked ==
  /\ pc = "judge"
  /\ LacksCallForGood /\ ~ReturnsNone
  /\ Done("blocked")
  /\ UNCHANGED <<turnState, loopState, status, counters>>

AnswerWithoutCall ==
  /\ pc = "judge"
  /\ status \in {"final", "max_steps"}
  /\ ~ReturnsNone
  /\ Done("answered")
  /\ UNCHANGED <<turnState, loopState, status, counters>>

\* _finalize_agentic_turn: the answer, or that the step cap was reached.
Answer ==
  /\ pc = "judge"
  /\ status \in {"final", "max_steps"}
  /\ ~ReturnsNone /\ ~LacksCall
  /\ Done("answered")
  /\ UNCHANGED <<turnState, loopState, status, counters>>

-----------------------------------------------------------------------------
(* Around the loop: the fallback of the default route, the approval path   *)

\* A truncated answer is continued within the cap.
FallbackContinues ==
  /\ pc = "fallback"
  /\ step + 1 < MaxSteps
  /\ Sent
  /\ UNCHANGED <<turnState, pc, tools, asked, repaired, executed, text,
                 status, outcome, loops>>

\* After the last answer the handler reads two names that it never assigns.
FallbackRaises ==
  /\ pc = "fallback"
  /\ Sent
  /\ Done("raised")
  /\ UNCHANGED <<turnState, tools, asked, repaired, executed, text,
                 status, loops>>

\* The user approves or denies: the turn is submitted again.
Approve ==
  /\ pc = "paused"
  /\ pending # NoPending
  /\ pc' = "run"
  /\ sends' = 0 /\ loops' = 0
  /\ UNCHANGED <<turnState, loopState, status, outcome>>

\* Denied, or there is no model-authored call to resume.
Reject ==
  /\ pc = "paused"
  /\ Done("denied")
  /\ UNCHANGED <<turnState, loopState, status, counters>>

\* A destructive action on the desktop asks the user a second time.
RunWantsSecond ==
  /\ pc = "run"
  /\ ~autoMarvex /\ ~pending.confirmed
  /\ pending.batch[pending.call] = "risky"
  /\ pending' = [pending EXCEPT !.confirmed = TRUE]
  /\ pc' = "paused"
  /\ UNCHANGED <<autoMarvex, route, origin, attempt, mode, tries, depth, loopState, status,
                 outcome, counters>>

\* The call ran, or failed: the loop is entered with the result, for an approval
\* by the mode one level deeper in the stack.
RunApproved ==
  /\ pc = "run"
  /\ autoMarvex => depth < MaxDepth
  /\ depth' = IF autoMarvex THEN depth + 1 ELSE depth
  /\ \/ origin' = "continue" /\ attempt' = 0
     \/ origin' = "retry" /\ attempt' = 1
  /\ mode' = "first" /\ tries' = 1
  /\ StartLoop([NoTools EXCEPT !.answers = <<pending.call>>], pending.batch)
  /\ UNCHANGED <<autoMarvex, route, pending, outcome, sends>>

\* The tool worker does not answer, or the stack is exhausted.
RunRaises ==
  /\ pc = "run"
  /\ Done("raised")
  /\ UNCHANGED <<turnState, loopState, status, counters>>

-----------------------------------------------------------------------------
Judge ==
  \/ RetryAfterError \/ RetryFails \/ RequireCall
  \/ FallBackToProvider \/ FallBackToAnswer \/ FallBackToApproval \/ RetryApproved
  \/ Pause \/ AskUser \/ Blocked \/ Answer

TurnStep ==
  \/ Enter
  \/ ProviderFails \/ ProviderAnswers \/ ProviderOnlyThinks \/ ProviderCalls
  \/ CallTools
  \/ Judge
  \/ FallbackContinues \/ FallbackRaises
  \/ RunWantsSecond \/ RunApproved \/ RunRaises

Next == TurnStep \/ Approve \/ Reject

Spec == Init /\ [][Next]_vars

-----------------------------------------------------------------------------
(* Properties                                                              *)

\* The provider gets a result for every call of the response it continues, in
\* their order; after an approval, for the call that was approved
\* (run_tool_loop, _approved_tool_continuation_messages).
AnswersFit ==
  pc = "send" /\ tools # NoTools =>
    tools.answers = IF step = 0 THEN <<pending.call>>
                                ELSE [i \in DOMAIN asked |-> i]

\* What waits for an approval is the first risky call of its response, and a
\* response that asks the user a question waits for nothing else
\* (pending_tool_calls[0], and needs_clarification before needs_approval).
FirstRiskyWaits ==
  pending # NoPending =>
    /\ pending.batch[pending.call] \in {"risky", "bare"}
    /\ \A i \in DOMAIN pending.batch :
         /\ pending.batch[i] # "clarify"
         /\ pending.batch[i] = "risky" => pending.call <= i

\* A risky call is never passed over: no response with one is followed by
\* another provider call, nor by an answer, before the user or the mode decided
\* (execute_tool_calls and the two pauses of run_tool_loop).
RiskyCallPauses ==
  [][pc = "call" /\ (\E i \in DOMAIN asked : asked[i] = "risky") =>
       pc' = "judge" /\ status' \in {"needs_approval", "needs_clarification"}]_vars

\* The loops that a turn, or the resume of one, may run: one for each attempt at
\* a required call or after a failed one, and as many for each call that the
\* mode approved on the way.
LoopsAllowed ==
  IF origin = "turn" THEN tries
  ELSE MaxAttempts * depth + (IF origin = "retry" THEN attempt ELSE 1)

\* The retries are counted, and the cap holds in every loop they start: no
\* provider, however it answers, draws more calls from one submission
\* (max_required_tool_attempts, max_attempts, _resolve_agentic_max_steps).
LoopsBounded == loops <= LoopsAllowed

SendsBounded ==
  sends <= MaxSteps * (IF origin = "turn" /\ route = "chat" THEN loops + 1 ELSE loops)

ProviderCallsBounded == LoopsBounded /\ SendsBounded

\* A turn that must call a tool never ends with an answer of the model alone:
\* when it was answered, at least one call had run, unless the step cap was
\* reached (the required-call repair and the blocked result).
RequiredToolRan ==
  outcome = "answered" /\ origin = "turn" /\ route \in {"write", "browser"}
    /\ status = "final" => executed

\* What a turn may still do before it ends or waits for the user, the weightiest
\* first: go one level deeper, try again, leave the loop, call the provider, and
\* get through the step.
Measure ==
  <<IF autoMarvex THEN MaxDepth - depth ELSE IF pc = "run" THEN 1 ELSE 0,
    IF pc = "enter" THEN MaxAttempts
                    ELSE MaxAttempts - (IF origin = "turn" THEN tries ELSE attempt),
    IF pc \in {"fallback", "paused", "done"} THEN 0 ELSE 1,
    MaxSteps - step,
    CASE pc = "call" -> 3 [] pc \in {"send", "judge"} -> 2 [] pc = "run" -> 1 [] OTHER -> 0>>

Below(m, n) == \E i \in 1..5 : m[i] < n[i] /\ \A j \in 1..i - 1 : m[j] = n[j]

\* A turn ends, or waits for the user, after finitely many steps, whatever the
\* provider and the tools answer: every step of its own, each of the retries, the
\* repairs, the fallback and the calls that the mode approves among them, leaves
\* less to do (submit_turn, _run_agentic_tool_loop, run_tool_loop).
TurnAdvances == [][pc # "paused" => Measure' \in [1..5 -> Nat] /\ Below(Measure', Measure)]_vars

-----------------------------------------------------------------------------
(* What a comment of the repository says                                   *)

\* services/core/main.py: "Any failure or the flag being off falls through to the
\* historical bounded continuation loop below - no regression."
FallbackAnswers == ~(route = "chat" /\ origin = "turn" /\ outcome = "raised")
=============================================================================
