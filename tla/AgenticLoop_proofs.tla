------------------------- MODULE AgenticLoop_proofs -------------------------
(***************************************************************************)
(* The retries of a turn are bounded for every cap, number of attempts and *)
(* depth, and a turn that must call a tool is not answered without.        *)
(***************************************************************************)
EXTENDS AgenticLoop, TLAPS

USE DEF turnState, loopState, counters

-----------------------------------------------------------------------------
(* The inductive invariant of the counters                                 *)

CountsTyped ==
  /\ autoMarvex \in BOOLEAN
  /\ route \in Routes
  /\ origin \in {"turn", "continue", "retry"}
  /\ pc \in {"enter", "send", "call", "judge", "run", "paused", "fallback", "done"}
  /\ attempt \in 0..MaxAttempts
  /\ tries \in 1..MaxAttempts
  /\ step \in 0..MaxSteps
  /\ depth \in 0..MaxDepth
  /\ sends \in Nat
  /\ loops \in Nat

\* Where the counters stand at each place of the turn.
Places ==
  /\ pc = "enter" => origin = "turn" /\ loops = 0
  /\ pc = "send" => step < MaxSteps
  /\ pc = "call" => step > 0
  /\ pc \in {"send", "call", "judge", "fallback"} => loops > 0
  /\ pc = "run" /\ ~autoMarvex => loops = 0
  /\ pc = "fallback" => origin = "turn" /\ route = "chat" /\ step < MaxSteps
  /\ mode = "first" => tries = 1

\* Every loop but the last has made at most MaxSteps calls, the last one step.
Budget ==
  /\ loops = 0 => sends = 0
  /\ pc \in {"send", "call", "judge", "run", "paused"} /\ loops > 0 =>
       sends + MaxSteps <= MaxSteps * loops + step
  /\ pc = "fallback" => sends <= MaxSteps * loops + step
  /\ pc = "done" => SendsBounded

CountInv == CountsTyped /\ Places /\ LoopsBounded /\ Budget

\* Products with a successor, which the solver is spared.
LEMMA Successor ==
  ASSUME NEW a \in Nat, NEW b \in Nat
  PROVE  /\ a * (b + 1) = a * b + a
         /\ a * b \in Nat
         /\ a * 0 = 0
         /\ b > 0 => a <= a * b
  OBVIOUS

\* The counters start in order.
LEMMA CountInit == Init => CountInv
  BY ConstantsAssumption, Successor
  DEF Init, CountInv, CountsTyped, Places, LoopsBounded, LoopsAllowed, Budget,
      SendsBounded, Routes, ConstantsAssumption

Resumed ==
  /\ pc = "run" /\ pc' = "send"
  /\ step' = 0 /\ loops' = loops + 1
  /\ route' = route /\ sends' = sends /\ autoMarvex' = autoMarvex
  /\ mode' = "first" /\ tries' = 1
  /\ \/ origin' = "continue" /\ attempt' = 0
     \/ origin' = "retry" /\ attempt' = 1
  /\ autoMarvex => depth < MaxDepth /\ depth' = depth + 1
  /\ ~autoMarvex => depth' = depth

\* What RunApproved does to the counters.
LEMMA ResumedLoop == RunApproved => Resumed
  BY ConstantsAssumption DEF RunApproved, StartLoop, Resumed, ConstantsAssumption

\* Every step keeps them in order.
LEMMA CountStep == CountInv /\ [Next]_vars => CountInv'
<1> SUFFICES ASSUME CountInv, [Next]_vars PROVE CountInv'
  OBVIOUS
<1> DEFINE made == MaxSteps * loops
<1>a. /\ MaxSteps * (loops + 1) = made + MaxSteps
      /\ made \in Nat
      /\ MaxSteps * 0 = 0
      /\ loops > 0 => MaxSteps <= made
      /\ MaxAttempts * (depth + 1) = MaxAttempts * depth + MaxAttempts
      /\ MaxAttempts * depth \in Nat
      /\ MaxAttempts * 0 = 0
  BY ConstantsAssumption, Successor DEF CountInv, CountsTyped, ConstantsAssumption
<1> USE <1>a, ConstantsAssumption
    DEF ConstantsAssumption, CountInv, CountsTyped, Places, LoopsBounded,
        LoopsAllowed, Budget, SendsBounded
<1>1. CASE Enter
  BY <1>1 DEF Enter, StartLoop
<1>2. CASE ProviderFails
  BY <1>2 DEF ProviderFails, Sent, LoopEnds
<1>3. CASE ProviderAnswers
  BY <1>3 DEF ProviderAnswers, Sent, LoopEnds
<1>4. CASE ProviderOnlyThinks
  BY <1>4 DEF ProviderOnlyThinks, Sent, NextStep, LoopEnds
<1>5. CASE ProviderCalls
  BY <1>5 DEF ProviderCalls, Sent
<1>6. CASE CallTools
  BY <1>6 DEF CallTools, NextStep, LoopEnds
<1>7. CASE RetryAfterError
  BY <1>7 DEF RetryAfterError, StartLoop, RetriesError, RequiresTool
<1>8. CASE RetryFails
  BY <1>8 DEF RetryFails, Done
<1>9. CASE RequireCall
  BY <1>9 DEF RequireCall, StartLoop, LacksCall, RequiresTool
<1>10. CASE FallBackToProvider
  BY <1>10 DEF FallBackToProvider
<1>11. CASE FallBackToAnswer
  BY <1>11 DEF FallBackToAnswer, Done
<1>12. CASE FallBackToApproval
  BY <1>12 DEF FallBackToApproval
<1>13. CASE RetryApproved
  BY <1>13 DEF RetryApproved, StartLoop
<1>14. CASE Pause
  BY <1>14 DEF Pause
<1>15. CASE AskUser
  BY <1>15 DEF AskUser, Done
<1>16. CASE Blocked
  BY <1>16 DEF Blocked, Done
<1>17. CASE Answer
  BY <1>17 DEF Answer, Done
<1>18. CASE FallbackContinues
  BY <1>18 DEF FallbackContinues, Sent
<1>19. CASE FallbackRaises
  BY <1>19 DEF FallbackRaises, Sent, Done
<1>20. CASE RunWantsSecond
  BY <1>20 DEF RunWantsSecond
<1>21. CASE RunApproved
  <2>1. Resumed
    BY <1>21, ResumedLoop
  <2> USE DEF Resumed
  <2>2. CASE autoMarvex
    <3>1. depth' = depth + 1 /\ depth < MaxDepth
      BY <2>1, <2>2
    <3>2. MaxAttempts * depth' = MaxAttempts * depth + MaxAttempts
      BY <3>1
    <3>3. loops <= MaxAttempts * depth + MaxAttempts
      OBVIOUS
    <3>. QED
      BY <2>1, <2>2, <3>1, <3>2, <3>3
  <2>3. CASE ~autoMarvex
    <3>1. depth' = depth /\ loops = 0
      BY <2>1, <2>3
    <3>. QED
      BY <2>1, <2>3, <3>1
  <2>. QED
    BY <2>2, <2>3
<1>22. CASE RunRaises
  BY <1>22 DEF RunRaises, Done
<1>23. CASE Approve
  BY <1>23 DEF Approve
<1>24. CASE Reject
  BY <1>24 DEF Reject, Done
<1>25. CASE UNCHANGED vars
  BY <1>25 DEF vars
<1>26. QED
  BY <1>1, <1>2, <1>3, <1>4, <1>5, <1>6, <1>7, <1>8, <1>9,
     <1>10, <1>11, <1>12, <1>13, <1>14, <1>15, <1>16, <1>17, <1>18,
     <1>19, <1>20, <1>21, <1>22, <1>23, <1>24, <1>25
  DEF Next, TurnStep, Judge

\* The counters stay in order.
LEMMA Counted == Spec => []CountInv
<1>1. Init => CountInv
  BY CountInit
<1>2. CountInv /\ [Next]_vars => CountInv'
  BY CountStep
<1>. QED
  BY <1>1, <1>2, PTL DEF Spec

\* The retries are counted in every turn: no loop is run without an attempt of
\* the turn, of the approved call or of a deeper one to account for it.
THEOREM RetriesBounded == Spec => []LoopsBounded
<1>1. CountInv => LoopsBounded
  BY DEF CountInv
<1>. QED
  BY <1>1, Counted, PTL

\* The calls that the accounting of the loops adds up to.
LEMMA BudgetSuffices == CountInv => SendsBounded
<1> SUFFICES ASSUME CountInv PROVE SendsBounded
  OBVIOUS
<1> DEFINE made == MaxSteps * loops
<1>1. /\ MaxSteps * (loops + 1) = made + MaxSteps
      /\ made \in Nat
      /\ MaxSteps * 0 = 0
  BY ConstantsAssumption, Successor DEF CountInv, CountsTyped, ConstantsAssumption
<1>. QED
  BY <1>1, ConstantsAssumption
  DEF CountInv, CountsTyped, Places, Budget, SendsBounded, ConstantsAssumption

\* No loop is run unaccounted for, and no provider draws more calls from a submission
\* than the cap for each loop, and once more for the fallback of the default route.
THEOREM CallsBounded == Spec => []ProviderCallsBounded
<1>1. CountInv => ProviderCallsBounded
  BY BudgetSuffices DEF CountInv, ProviderCallsBounded
<1>. QED
  BY <1>1, Counted, PTL

-----------------------------------------------------------------------------
(* A turn that must call a tool                                            *)

\* Nothing is answered before the turn is over.
AnswerInv == (pc # "done" => outcome = "none") /\ RequiredToolRan

\* It starts so, and a step that ends the turn with an answer of the model has
\* passed the repair of LacksCall.
LEMMA AnswerInit == Init => AnswerInv
  BY DEF Init, AnswerInv, RequiredToolRan

LEMMA AnswerStep == AnswerInv /\ [Next]_vars => AnswerInv'
<1> SUFFICES ASSUME AnswerInv, [Next]_vars PROVE AnswerInv'
  OBVIOUS
<1> USE DEF AnswerInv, RequiredToolRan, Done
<1>1. CASE Enter
  BY <1>1 DEF Enter, StartLoop
<1>2. CASE ProviderFails
  BY <1>2 DEF ProviderFails, LoopEnds
<1>3. CASE ProviderAnswers
  BY <1>3 DEF ProviderAnswers, LoopEnds
<1>4. CASE ProviderOnlyThinks
  BY <1>4 DEF ProviderOnlyThinks, NextStep, LoopEnds
<1>5. CASE ProviderCalls
  BY <1>5 DEF ProviderCalls
<1>6. CASE CallTools
  BY <1>6 DEF CallTools, NextStep, LoopEnds
<1>7. CASE RetryAfterError
  BY <1>7 DEF RetryAfterError, StartLoop
<1>8. CASE RetryFails
  BY <1>8 DEF RetryFails
<1>9. CASE RequireCall
  BY <1>9 DEF RequireCall, StartLoop
<1>10. CASE FallBackToProvider
  BY <1>10 DEF FallBackToProvider
<1>11. CASE FallBackToAnswer
  BY <1>11 DEF FallBackToAnswer
<1>12. CASE FallBackToApproval
  BY <1>12 DEF FallBackToApproval
<1>13. CASE RetryApproved
  BY <1>13 DEF RetryApproved, StartLoop
<1>14. CASE Pause
  BY <1>14 DEF Pause
<1>15. CASE AskUser
  BY <1>15 DEF AskUser
<1>16. CASE Blocked
  BY <1>16 DEF Blocked
<1>17. CASE Answer
  BY <1>17 DEF Answer, LacksCall, RequiresTool
<1>18. CASE FallbackContinues
  BY <1>18 DEF FallbackContinues
<1>19. CASE FallbackRaises
  BY <1>19 DEF FallbackRaises
<1>20. CASE RunWantsSecond
  BY <1>20 DEF RunWantsSecond
<1>21. CASE RunApproved
  BY <1>21 DEF RunApproved, StartLoop
<1>22. CASE RunRaises
  BY <1>22 DEF RunRaises
<1>23. CASE Approve
  BY <1>23 DEF Approve
<1>24. CASE Reject
  BY <1>24 DEF Reject
<1>25. CASE UNCHANGED vars
  BY <1>25 DEF vars
<1>26. QED
  BY <1>1, <1>2, <1>3, <1>4, <1>5, <1>6, <1>7, <1>8, <1>9,
     <1>10, <1>11, <1>12, <1>13, <1>14, <1>15, <1>16, <1>17, <1>18,
     <1>19, <1>20, <1>21, <1>22, <1>23, <1>24, <1>25
  DEF Next, TurnStep, Judge

\* A turn that must call a tool is never answered by the model alone.
THEOREM RequiredCallsAreMade == Spec => []RequiredToolRan
<1>1. AnswerInv => RequiredToolRan
  BY DEF AnswerInv
<1>. QED
  BY <1>1, AnswerInit, AnswerStep, PTL DEF Spec
-----------------------------------------------------------------------------
(* Messages, responses and the call that waits                             *)

DataTyped ==
  /\ mode \in {"first", "error_retry", "required"}
  /\ tools \in ToolMessages
  /\ asked \in Batches
  /\ repaired \in BOOLEAN
  /\ executed \in BOOLEAN
  /\ text \in BOOLEAN
  /\ status \in {"none", "final", "needs_approval", "needs_clarification",
                 "error", "max_steps"}
  /\ pending \in Pending \cup {NoPending}
  /\ outcome \in {"none", "answered", "asked", "blocked", "denied", "raised"}

\* Where the turn relies on a call that waits, or waited.
CallKept ==
  origin = "retry" \/ pc = "run" \/ (pc = "judge" /\ status = "needs_approval") =>
    pending \in Pending

DataInv == DataTyped /\ CallKept /\ AnswersFit /\ FirstRiskyWaits

\* The messages and batches that the actions write.
LEMMA Written ==
  /\ NoTools \in ToolMessages
  /\ <<>> \in Batches
  /\ \A b \in Batches : DOMAIN b \subseteq 1..MaxBatch
  /\ \A p \in Pending :
       /\ p.call \in 1..MaxBatch /\ p.batch \in Batches
       /\ [NoTools EXCEPT !.answers = <<p.call>>] \in ToolMessages
       /\ [NoTools EXCEPT !.answers = <<p.call>>].answers = <<p.call>>
       /\ [p EXCEPT !.confirmed = TRUE] \in Pending
       /\ [p EXCEPT !.confirmed = TRUE].call = p.call
       /\ [p EXCEPT !.confirmed = TRUE].batch = p.batch
       /\ p # NoPending
<1>1. NoTools \in ToolMessages
  BY DEF NoTools, ToolMessages
<1>2. <<>> \in Batches
  <2>1. <<>> \in [1..0 -> Calls] /\ 0 \in 0..MaxBatch
    BY ConstantsAssumption DEF ConstantsAssumption
  <2>. QED
    BY <2>1 DEF Batches
<1>3. \A b \in Batches : DOMAIN b \subseteq 1..MaxBatch
  BY ConstantsAssumption DEF Batches, ConstantsAssumption
<1>4. ASSUME NEW p \in Pending
      PROVE  /\ p.call \in 1..MaxBatch /\ p.batch \in Batches
             /\ [NoTools EXCEPT !.answers = <<p.call>>] \in ToolMessages
             /\ [NoTools EXCEPT !.answers = <<p.call>>].answers = <<p.call>>
             /\ [p EXCEPT !.confirmed = TRUE] \in Pending
             /\ [p EXCEPT !.confirmed = TRUE].call = p.call
             /\ [p EXCEPT !.confirmed = TRUE].batch = p.batch
             /\ p # NoPending
  <2>1. p.call \in 1..MaxBatch /\ p.batch \in Batches
    BY DEF Pending
  <2>2. <<p.call>> \in Seq(1..MaxBatch)
    BY <2>1
  <2>3. p.call # 0 /\ NoPending.call = 0
    BY <2>1, ConstantsAssumption DEF ConstantsAssumption, NoPending
  <2>. QED
    BY <2>1, <2>2, <2>3 DEF NoTools, ToolMessages, Pending
<1>. QED
  BY <1>1, <1>2, <1>3, <1>4
\* The environment's answers start out empty.
LEMMA DataInit == Init => DataInv
  BY Written
  DEF Init, DataInv, DataTyped, CallKept, AnswersFit, FirstRiskyWaits

\* execute_tool_calls and what run_tool_loop makes of its outcome.
LEMMA DataCallTools == CountInv /\ DataInv /\ CallTools => DataInv'
<1> SUFFICES ASSUME CountInv, DataInv, CallTools PROVE DataInv'
  OBVIOUS
<1>1. PICK results \in [DOMAIN asked -> {"clarification", "error", "approval", "succeeded"}],
           fits \in BOOLEAN : CallTools!3!(results, fits)
  BY DEF CallTools
<1>2. /\ origin # "retry" \/ pending \in Pending
      /\ UNCHANGED <<origin, mode, step, asked, repaired, text, outcome>>
      /\ pc = "call" /\ step > 0
  BY DEF CallTools, DataInv, CallKept, CountInv, Places
<1>3. /\ executed' \in BOOLEAN
      /\ mode' \in {"first", "error_retry", "required"}
      /\ asked' \in Batches /\ repaired' \in BOOLEAN /\ text' \in BOOLEAN
      /\ outcome' \in {"none", "answered", "asked", "blocked", "denied", "raised"}
  BY <1>1, <1>2 DEF DataInv, DataTyped
<1>4. CASE /\ LoopEnds("needs_clarification")
           /\ UNCHANGED <<tools, pending>>
  BY <1>2, <1>3, <1>4 DEF DataInv, DataTyped, CallKept, AnswersFit, FirstRiskyWaits, LoopEnds
<1>5. CASE /\ \A i \in DOMAIN asked : results[i] # "clarification"
           /\ LoopEnds("needs_approval")
           /\ \E c \in DOMAIN asked :
                /\ IsFirst(c, results, "approval")
                /\ pending' = [call |-> c, batch |-> asked, confirmed |-> FALSE]
           /\ UNCHANGED tools
  <2>1. PICK c \in DOMAIN asked :
          /\ IsFirst(c, results, "approval")
          /\ pending' = [call |-> c, batch |-> asked, confirmed |-> FALSE]
    BY <1>5
  <2>2. pending' \in Pending
    BY <2>1, <1>3, Written DEF Pending, DataInv, DataTyped
  <2>3. pending'.call = c /\ pending'.batch = asked
    BY <2>1
  <2>4. asked[c] \in {"risky", "bare"}
    BY <1>1, <2>1 DEF IsFirst, Results
  <2>5. \A i \in DOMAIN asked : asked[i] # "clarify"
    BY <1>1, <1>5 DEF Results, Known
  <2>6. \A i \in DOMAIN asked : asked[i] = "risky" => results[i] = "approval"
    BY <1>1 DEF Results, Known
  <2>7. DOMAIN asked \subseteq Nat
    BY Written, ConstantsAssumption DEF DataInv, DataTyped, ConstantsAssumption
  <2>8. \A i \in DOMAIN asked : asked[i] = "risky" => c <= i
    <3> SUFFICES ASSUME NEW i \in DOMAIN asked, results[i] = "approval", i < c
                 PROVE  FALSE
      BY <2>6, <2>7
    <3>1. i \in 1..c - 1
      BY <2>7, Written DEF DataInv, DataTyped
    <3>. QED
      BY <2>1, <3>1 DEF IsFirst
  <2>9. FirstRiskyWaits'
    BY <2>3, <2>4, <2>5, <2>8 DEF FirstRiskyWaits
  <2>. QED
    BY <1>2, <1>3, <1>5, <2>2, <2>9
    DEF DataInv, DataTyped, CallKept, AnswersFit, LoopEnds
<1>6. CASE /\ tools' = [answers |-> Answers(results), sources |-> fits]
           /\ NextStep
           /\ UNCHANGED pending
  <2>1. Answers(results) \in Seq(1..MaxBatch)
    <3>1. PICK n \in 0..MaxBatch : asked \in [1..n -> Calls]
      BY DEF DataInv, DataTyped, Batches
    <3>2. Answers(results) = [i \in 1..n |-> i]
      BY <3>1 DEF Answers
    <3>3. n \in Nat /\ \A i \in 1..n : i \in 1..MaxBatch
      BY <3>1, ConstantsAssumption DEF ConstantsAssumption
    <3>. QED
      BY <3>2, <3>3
  <2>2. tools' \in ToolMessages /\ tools'.answers = [i \in DOMAIN asked |-> i]
    BY <1>6, <2>1 DEF ToolMessages, Answers
  <2>3. AnswersFit'
    BY <1>2, <2>2, <1>3 DEF AnswersFit, CountInv, CountsTyped
  <2>4. status' \in {"none", "final", "needs_approval", "needs_clarification",
                     "error", "max_steps"}
        /\ pc' \in {"send", "judge"} /\ (pc' = "judge" => status' = "max_steps")
    BY <1>6 DEF NextStep, LoopEnds, DataInv, DataTyped
  <2>. QED
    BY <1>2, <1>3, <1>6, <2>2, <2>3, <2>4
    DEF DataInv, DataTyped, CallKept, FirstRiskyWaits
<1>. QED
  BY <1>1, <1>4, <1>5, <1>6

\* Every step keeps messages, responses and the call that waits in order.
LEMMA DataStep == CountInv /\ DataInv /\ [Next]_vars => DataInv'
<1> SUFFICES ASSUME CountInv, DataInv, [Next]_vars PROVE DataInv'
  OBVIOUS
<1> USE Written DEF DataInv, DataTyped, CallKept, AnswersFit, FirstRiskyWaits, Done
<1>1. CASE Enter
  BY <1>1 DEF Enter, StartLoop
<1>2. CASE ProviderFails
  BY <1>2 DEF ProviderFails, LoopEnds
<1>3. CASE ProviderAnswers
  BY <1>3 DEF ProviderAnswers, LoopEnds
<1>4. CASE ProviderOnlyThinks
  BY <1>4 DEF ProviderOnlyThinks, NextStep, LoopEnds
<1>5. CASE ProviderCalls
  BY <1>5 DEF ProviderCalls
<1>6. CASE CallTools
  BY <1>6, DataCallTools
<1>7. CASE RetryAfterError
  BY <1>7 DEF RetryAfterError, StartLoop
<1>8. CASE RetryFails
  BY <1>8 DEF RetryFails
<1>9. CASE RequireCall
  BY <1>9 DEF RequireCall, StartLoop
<1>10. CASE FallBackToProvider
  BY <1>10 DEF FallBackToProvider
<1>11. CASE FallBackToAnswer
  BY <1>11 DEF FallBackToAnswer
<1>12. CASE FallBackToApproval
  BY <1>12 DEF FallBackToApproval
<1>13. CASE RetryApproved
  BY <1>13 DEF RetryApproved, StartLoop
<1>14. CASE Pause
  BY <1>14 DEF Pause
<1>15. CASE AskUser
  BY <1>15 DEF AskUser
<1>16. CASE Blocked
  BY <1>16 DEF Blocked
<1>17. CASE Answer
  BY <1>17 DEF Answer
<1>18. CASE FallbackContinues
  BY <1>18 DEF FallbackContinues
<1>19. CASE FallbackRaises
  BY <1>19 DEF FallbackRaises
<1>20. CASE RunWantsSecond
  <2>1. pending \in Pending /\ pending' = [pending EXCEPT !.confirmed = TRUE]
    BY <1>20 DEF RunWantsSecond
  <2>2. /\ pending' \in Pending
        /\ pending'.call = pending.call /\ pending'.batch = pending.batch
    BY <2>1
  <2>3. FirstRiskyWaits'
    BY <2>1, <2>2
  <2>4. pc' = "paused" /\ UNCHANGED <<origin, attempt, mode, loopState, status, outcome>>
    BY <1>20 DEF RunWantsSecond
  <2>. QED
    BY <2>2, <2>3, <2>4
<1>21. CASE RunApproved
  BY <1>21 DEF RunApproved, StartLoop
<1>22. CASE RunRaises
  BY <1>22 DEF RunRaises
<1>23. CASE Approve
  BY <1>23 DEF Approve
<1>24. CASE Reject
  BY <1>24 DEF Reject
<1>25. CASE UNCHANGED vars
  BY <1>25 DEF vars
<1>26. QED
  BY <1>1, <1>2, <1>3, <1>4, <1>5, <1>6, <1>7, <1>8, <1>9,
     <1>10, <1>11, <1>12, <1>13, <1>14, <1>15, <1>16, <1>17, <1>18,
     <1>19, <1>20, <1>21, <1>22, <1>23, <1>24, <1>25
  DEF Next, TurnStep, Judge

\* They stay in order.
LEMMA DataKept == Spec => []DataInv
  BY DataInit, DataStep, Counted, PTL DEF Spec

\* Every reachable state is well typed.
THEOREM TypeCorrect == Spec => []TypeOK
<1>1. CountInv /\ DataInv => TypeOK
  BY DEF CountInv, CountsTyped, DataInv, DataTyped, TypeOK
<1>. QED
  BY <1>1, Counted, DataKept, PTL

\* Every call of a response gets its result, and after an approval the approved
\* call does.
THEOREM EveryCallAnswered == Spec => []AnswersFit
<1>1. DataInv => AnswersFit
  BY DEF DataInv
<1>. QED
  BY <1>1, DataKept, PTL

\* Only a risky call waits, and no earlier one of its response was passed over.
THEOREM OnlyRiskyWaits == Spec => []FirstRiskyWaits
<1>1. DataInv => FirstRiskyWaits
  BY DEF DataInv
<1>. QED
  BY <1>1, DataKept, PTL
-----------------------------------------------------------------------------
(* A risky call is not passed over                                          *)

Risky == \E i \in DOMAIN asked : asked[i] = "risky"

Pauses == pc' = "judge" /\ status' \in {"needs_approval", "needs_clarification"}

\* Where the calls of a response are to be executed, nothing else can happen.
LEMMA OnlyCallTools ==
  ASSUME Next, pc = "call"
  PROVE  CallTools
<1>1. ~Judge
  BY DEF Judge, RetryAfterError, RetryFails, RequireCall, FallBackToProvider,
         FallBackToAnswer, FallBackToApproval, RetryApproved, Pause, AskUser,
         Blocked, Answer
<1>2. /\ ~Enter /\ ~ProviderFails /\ ~ProviderAnswers /\ ~ProviderOnlyThinks
      /\ ~ProviderCalls
  BY DEF Enter, ProviderFails, ProviderAnswers, ProviderOnlyThinks, ProviderCalls
<1>3. /\ ~FallbackContinues /\ ~FallbackRaises /\ ~RunWantsSecond
      /\ ~RunApproved /\ ~RunRaises /\ ~Approve /\ ~Reject
  BY DEF FallbackContinues, FallbackRaises, RunWantsSecond, RunApproved, RunRaises,
         Approve, Reject
<1>. QED
  BY <1>1, <1>2, <1>3 DEF Next, TurnStep

\* On every route a risky call is a known one, so that its only result is to wait.
LEMMA RiskyWaits ==
  ASSUME CallTools, Risky
  PROVE  Pauses
<1>1. PICK results \in [DOMAIN asked -> {"clarification", "error", "approval", "succeeded"}],
           fits \in BOOLEAN : CallTools!3!(results, fits)
  BY DEF CallTools
<1>2. PICK i \in DOMAIN asked : asked[i] = "risky"
  BY DEF Risky
<1>3. results[i] = "approval"
  BY <1>1, <1>2 DEF Results, Known
<1>4. ~(\A j \in DOMAIN asked : results[j] \in {"error", "succeeded"})
  BY <1>3
<1>. QED
  BY <1>1, <1>4 DEF LoopEnds, Pauses

\* No response with a risky call is followed by another provider call or by an
\* answer before the user, or the mode, decided (execute_tool_calls, run_tool_loop).
THEOREM RiskyPauses == Spec => RiskyCallPauses
<1>1. [Next]_vars => [pc = "call" /\ Risky => Pauses]_vars
  BY OnlyCallTools, RiskyWaits
<1>2. ASSUME [pc = "call" /\ Risky => Pauses]_vars
      PROVE  [pc = "call" /\ (\E i \in DOMAIN asked : asked[i] = "risky") =>
                pc' = "judge" /\ status' \in {"needs_approval", "needs_clarification"}]_vars
  BY <1>2 DEF Risky, Pauses
<1>. QED
  BY <1>1, <1>2, PTL DEF Spec, RiskyCallPauses

-----------------------------------------------------------------------------
(* A turn comes to its end                                                 *)

\* The parts of the measure.
Deeper == IF autoMarvex THEN MaxDepth - depth ELSE IF pc = "run" THEN 1 ELSE 0
Again == IF pc = "enter" THEN MaxAttempts
         ELSE MaxAttempts - (IF origin = "turn" THEN tries ELSE attempt)
InLoop == IF pc \in {"fallback", "paused", "done"} THEN 0 ELSE 1
Provider == MaxSteps - step
InStep == CASE pc = "call" -> 3 [] pc \in {"send", "judge"} -> 2 [] pc = "run" -> 1
            [] OTHER -> 0

\* The weightiest part that changed is the one that counts.
LEMMA BelowAt ==
  ASSUME NEW a, NEW b, NEW c, NEW d, NEW e, NEW k, NEW l, NEW m, NEW n, NEW o,
         \/ a < k
         \/ a = k /\ b < l
         \/ a = k /\ b = l /\ c < m
         \/ a = k /\ b = l /\ c = m /\ d < n
         \/ a = k /\ b = l /\ c = m /\ d = n /\ e < o
  PROVE  Below(<<a, b, c, d, e>>, <<k, l, m, n, o>>)
<1> DEFINE x == <<a, b, c, d, e>>
           y == <<k, l, m, n, o>>
<1>1. /\ x[1] = a /\ x[2] = b /\ x[3] = c /\ x[4] = d /\ x[5] = e
      /\ y[1] = k /\ y[2] = l /\ y[3] = m /\ y[4] = n /\ y[5] = o
  OBVIOUS
<1> HIDE DEF x, y
<1>2. CASE a < k
  BY <1>1, <1>2 DEF Below
<1>3. CASE a = k /\ b < l
  <2>1. x[2] < y[2] /\ \A j \in 1..2 - 1 : x[j] = y[j]
    BY <1>1, <1>3
  <2> QED BY <2>1 DEF Below
<1>4. CASE a = k /\ b = l /\ c < m
  <2>1. x[3] < y[3] /\ \A j \in 1..3 - 1 : x[j] = y[j]
    BY <1>1, <1>4
  <2> QED BY <2>1 DEF Below
<1>5. CASE a = k /\ b = l /\ c = m /\ d < n
  <2>1. x[4] < y[4] /\ \A j \in 1..4 - 1 : x[j] = y[j]
    BY <1>1, <1>5
  <2> QED BY <2>1 DEF Below
<1>6. CASE a = k /\ b = l /\ c = m /\ d = n /\ e < o
  <2>1. x[5] < y[5] /\ \A j \in 1..5 - 1 : x[j] = y[j]
    BY <1>1, <1>6
  <2> QED BY <2>1 DEF Below
<1> QED BY <1>2, <1>3, <1>4, <1>5, <1>6

Falls ==
  \/ Deeper' < Deeper
  \/ Deeper' = Deeper /\ Again' < Again
  \/ Deeper' = Deeper /\ Again' = Again /\ InLoop' < InLoop
  \/ Deeper' = Deeper /\ Again' = Again /\ InLoop' = InLoop /\ Provider' < Provider
  \/ /\ Deeper' = Deeper /\ Again' = Again /\ InLoop' = InLoop /\ Provider' = Provider
     /\ InStep' < InStep

\* Every step of the turn itself leaves less to do.
LEMMA StepFalls == CountInv /\ TurnStep => Falls
<1> SUFFICES ASSUME CountInv, TurnStep PROVE Falls
  OBVIOUS
<1> USE ConstantsAssumption
    DEF ConstantsAssumption, CountInv, CountsTyped, Places, Falls, Deeper, Again, InLoop,
        Provider, InStep
<1>1. CASE Enter
  BY <1>1 DEF Enter, StartLoop
<1>2. CASE ProviderFails
  BY <1>2 DEF ProviderFails, Sent, LoopEnds
<1>3. CASE ProviderAnswers
  BY <1>3 DEF ProviderAnswers, Sent, LoopEnds
<1>4. CASE ProviderOnlyThinks
  BY <1>4 DEF ProviderOnlyThinks, Sent, NextStep, LoopEnds
<1>5. CASE ProviderCalls
  BY <1>5 DEF ProviderCalls, Sent
<1>6. CASE CallTools
  BY <1>6 DEF CallTools, NextStep, LoopEnds
<1>7. CASE RetryAfterError
  BY <1>7 DEF RetryAfterError, StartLoop, RetriesError, RequiresTool
<1>8. CASE RequireCall
  BY <1>8 DEF RequireCall, StartLoop, LacksCall, RequiresTool
<1>9. CASE RetryApproved
  BY <1>9 DEF RetryApproved, StartLoop
<1>10. CASE Pause
  BY <1>10 DEF Pause
<1>11. CASE FallBackToProvider
  BY <1>11 DEF FallBackToProvider
<1>12. CASE RetryFails \/ FallBackToAnswer \/ FallBackToApproval \/ AskUser \/ Blocked \/ Answer
  <2>1. pc = "judge" /\ pc' \in {"paused", "done"} /\ UNCHANGED <<turnState, step>>
    BY <1>12 DEF RetryFails, FallBackToAnswer, FallBackToApproval, AskUser, Blocked, Answer,
         Done
  <2> QED BY <2>1
<1>13. CASE FallbackContinues
  BY <1>13 DEF FallbackContinues, Sent
<1>14. CASE FallbackRaises
  BY <1>14 DEF FallbackRaises, Sent, Done
<1>15. CASE RunWantsSecond
  BY <1>15 DEF RunWantsSecond
<1>16. CASE RunApproved
  <2>1. Resumed
    BY <1>16, ResumedLoop
  <2> QED BY <2>1 DEF Resumed
<1>17. CASE RunRaises
  BY <1>17 DEF RunRaises, Done
<1> QED BY <1>1, <1>2, <1>3, <1>4, <1>5, <1>6, <1>7, <1>8, <1>9, <1>10, <1>11, <1>12, <1>13,
       <1>14, <1>15, <1>16, <1>17 DEF TurnStep, Judge

\* A turn ends, or waits for the user, after finitely many steps, for every cap, number of
\* attempts and depth, whatever the provider and the tools answer.
THEOREM TurnsAdvance == Spec => TurnAdvances
<1>1. ASSUME CountInv, CountInv', [Next]_vars
      PROVE  [pc # "paused" => Measure' \in [1..5 -> Nat] /\ Below(Measure', Measure)]_vars
  <2>1. CASE TurnStep
    <3>1. Measure = <<Deeper, Again, InLoop, Provider, InStep>>
      BY DEF Measure, Deeper, Again, InLoop, Provider, InStep
    <3>2. Measure' = <<Deeper', Again', InLoop', Provider', InStep'>>
      BY DEF Measure, Deeper, Again, InLoop, Provider, InStep
    <3>3. Below(Measure', Measure)
      BY <1>1, <2>1, <3>1, <3>2, StepFalls, BelowAt DEF Falls
    <3>4. /\ Deeper' \in Nat /\ Again' \in Nat /\ InLoop' \in Nat /\ Provider' \in Nat
          /\ InStep' \in Nat
      BY <1>1, ConstantsAssumption
      DEF ConstantsAssumption, CountInv, CountsTyped, Deeper, Again, InLoop, Provider, InStep
    <3>5. Measure' \in [1..5 -> Nat]
      BY <3>2, <3>4
    <3> QED BY <3>3, <3>5
  <2>2. CASE Approve \/ Reject
    BY <1>1, <2>2 DEF Approve, Reject
  <2> QED BY <1>1, <2>1, <2>2 DEF Next
<1> QED BY <1>1, Counted, PTL DEF Spec, TurnAdvances
=============================================================================
