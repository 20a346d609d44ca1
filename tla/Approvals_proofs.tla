--------------------------- MODULE Approvals_proofs ---------------------------
(***************************************************************************)
(* For any turns, policy and bounds: the file follows the stash, the tool   *)
(* worker runs a call at most once unless a save was lost, and runs none    *)
(* that the decisions do not back: those of the user, and the second one of *)
(* a destructive call also when it came from the model.                     *)
(***************************************************************************)
EXTENDS Approvals, SequenceTheorems, FiniteSetTheorems, TLAPS

PCs == {"new", "idle", "loop", "save", "truncate", "write", "alert", "ask", "pop", "run"}

LEMMA EmptyTyped == Empty \in Entry /\ Nothing \in [Turns -> Entry] /\ Empty.call = 0
BY ConstantsAssumption DEF Empty, Nothing, Entry

\* Sanitizing an entry changes nothing but its exactness, and is idempotent.
LEMMA SanitizedTyped ==
  ASSUME NEW e \in Entry
  PROVE  /\ Sanitized(e) \in Entry
         /\ Sanitized(e).call = e.call
         /\ Sanitized(Sanitized(e)) = Sanitized(e)
BY DEF Sanitized, Entry

\* The payload of a save has the calls of the stash, sanitized.
LEMMA PayloadTyped ==
  ASSUME TypeOK
  PROVE  /\ Payload \in [Turns -> Entry]
         /\ \A t \in Turns : /\ Payload[t].call = stash[t].call
                             /\ Sanitized(Payload[t]) = Payload[t]
BY SanitizedTyped DEF TypeOK, Payload

\* A handler that works serves a turn.
LEMMA ServingTyped ==
  ASSUME TypeOK, JobAndCard, NEW h \in Handlers, pc[h] # "idle"
  PROVE  Serving(h) \in Turns
<1>1. CASE h = EventLoop
  <2>1. job \in Resume
    BY <1>1 DEF JobAndCard, TypeOK
  <2> QED BY <1>1, <2>1 DEF Serving, Resume
<1>2. CASE h # EventLoop
  BY <1>2 DEF Serving, Handlers
<1> QED BY <1>1, <1>2

\* What a handler's return leaves is well typed.
LEMMA ReturnTyped ==
  ASSUME TypeOK, JobAndCard, NEW h \in Handlers, pc[h] # "idle",
         NEW how, Return(h, how)
  PROVE  /\ pc' \in [Handlers -> PCs]
         /\ held' \in [Handlers -> Entry]
         /\ job' \in Resume \cup {NoJob}
         /\ chat' \in [Turns -> {"none", "pending", "approve", "deny"}]
         /\ busy' \in BOOLEAN
         /\ listening' \in Turns \cup {NoTurn}
         /\ island' \in Turns \cup {NoTurn}
         /\ deciding' \in {"idle", "approve", "deny", "sent"}
         /\ JobAndCard'
<1>1. pc' \in [Handlers -> PCs] /\ held' \in [Handlers -> Entry]
  BY EmptyTyped DEF Return, GoTo, TypeOK, PCs
<1>2. CASE h = EventLoop
  <2>1. job \in Resume
    BY <1>2 DEF JobAndCard, TypeOK
  <2>2. job.decision \in {"approve", "deny"} /\ job.turn \in Turns
    BY <2>1 DEF Resume, Decisions
  <2>3. pc'[EventLoop] = "idle" /\ job' = NoJob /\ Answered(job, how # "raised")
    BY <1>2 DEF Return, GoTo, TypeOK
  <2> QED BY <1>1, <2>2, <2>3 DEF Answered, TypeOK, JobAndCard
<1>3. CASE h # EventLoop
  <2>1. job' = job /\ pc'[EventLoop] = pc[EventLoop] /\ Streamed(h, how = "paused")
    BY <1>3 DEF Return, GoTo, TypeOK, Handlers
  <2> QED BY <1>1, <2>1 DEF Streamed, TypeOK, JobAndCard
<1> QED BY <1>2, <1>3
\* Changing an entry of the stash keeps it well typed.
LEMMA PutTyped ==
  ASSUME TypeOK, NEW h \in Handlers, NEW t \in Turns, NEW e \in Entry, Put(h, t, e)
  PROVE  /\ stash' \in [Turns -> Entry]
         /\ disturbed' \subseteq Handlers
         /\ unsaved' \in BOOLEAN
BY DEF Put, TypeOK, Others

\* A handler's step keeps every variable well typed.
LEMMA HandlerTyped ==
  ASSUME TypeOK, JobAndCard, NEW h \in Handlers, HandlerStep(h)
  PROVE  TypeOK' /\ JobAndCard'
<1>0. pc[h] # "idle" /\ Serving(h) \in Turns /\ pc \in [Handlers -> PCs]
  <2>1. pc[h] # "idle"
    BY DEF HandlerStep, Author, LoopEnds, Snapshot, SnapshotRaises, Truncate, Write,
           SaveFails, Alert, Ask, Pop, Missing, NeedsSecond, Run, RunRefused, RunRaises
  <2> QED BY <2>1, ServingTyped DEF TypeOK, PCs
<1> USE <1>0 DEF TypeOK, JobAndCard, PCs, core, surfaces, history
<1>1. ASSUME NEW destructive \in BOOLEAN, NEW preset \in BOOLEAN, NEW lossy \in BOOLEAN,
             Author(h, destructive, preset, lossy)
      PROVE  TypeOK' /\ JobAndCard'
  <2> DEFINE e == [call |-> Len(calls) + 1, exact |-> TRUE, confirmed |-> preset]
             m == [turn |-> Serving(h), destructive |-> destructive, preset |-> preset,
                   lossy |-> lossy]
  <2>1. e \in Entry /\ Len(calls) \in Nat
    <3>1. Len(calls) \in Nat /\ Len(calls) + 1 \in 0..MaxCalls
      BY <1>1, ConstantsAssumption DEF Author
    <3> QED BY <3>1 DEF Empty, Entry
  <2>2. Put(h, Serving(h), e)
    BY <1>1 DEF Author
  <2>3. stash' \in [Turns -> Entry] /\ disturbed' \subseteq Handlers /\ unsaved' \in BOOLEAN
    BY <2>1, <2>2, PutTyped
  <2>4. m \in Call
    BY DEF Call
  <2>5. calls' \in Seq(Call) /\ Len(calls') <= MaxCalls
    BY <1>1, <2>1, <2>4, ConstantsAssumption DEF Author
  <2>6. pc' \in [Handlers -> PCs] /\ JobAndCard'
    BY <1>1 DEF Author, SaveThen, GoTo
  <2>7. after' \in [Handlers -> {"alert", "ask", "pop", "run"}]
    BY <1>1 DEF Author, SaveThen
  <2> QED BY <1>1, <2>3, <2>5, <2>6, <2>7 DEF Author
<1>2. CASE LoopEnds(h)
  <2>1. PICK how : Return(h, how)
    BY <1>2 DEF LoopEnds
  <2> QED BY <1>2, <2>1, ReturnTyped DEF LoopEnds
<1>3. CASE Snapshot(h)
  <2>1. snap' \in [Handlers -> [Turns -> Entry]]
    BY <1>3, PayloadTyped DEF Snapshot
  <2> QED BY <1>3, <2>1 DEF Snapshot, GoTo
<1>4. CASE SnapshotRaises(h)
  BY <1>4, ReturnTyped DEF SnapshotRaises
<1>5. CASE Truncate(h)
  BY <1>5, EmptyTyped DEF Truncate, GoTo
<1>6. CASE Write(h)
  <2>1. disk' \in [Turns -> Entry] /\ snap' \in [Handlers -> [Turns -> Entry]]
    BY <1>6, EmptyTyped DEF Write
  <2>2. pc' \in [Handlers -> PCs] /\ JobAndCard'
    BY <1>6 DEF Write, GoTo
  <2> QED BY <1>6, <2>1, <2>2 DEF Write
<1>7. CASE SaveFails(h)
  <2>1. snap' \in [Handlers -> [Turns -> Entry]]
    BY <1>7, EmptyTyped DEF SaveFails
  <2>2. pc' \in [Handlers -> PCs] /\ JobAndCard'
    BY <1>7 DEF SaveFails, GoTo
  <2> QED BY <1>7, <2>1, <2>2 DEF SaveFails
<1>8. CASE Alert(h)
  BY <1>8 DEF Alert, GoTo
<1>9. CASE Ask(h)
  <2>1. store' \in Seq(Turns) /\ asked' \in [Turns -> Entry]
    BY <1>9 DEF Ask
  <2> QED BY <1>9, <2>1, ReturnTyped DEF Ask
<1>10. CASE Pop(h)
  <2>1. stash[Serving(h)] \in Entry /\ Put(h, Serving(h), Empty)
    BY <1>10 DEF Pop
  <2>2. stash' \in [Turns -> Entry] /\ disturbed' \subseteq Handlers /\ unsaved' \in BOOLEAN
    BY <2>1, EmptyTyped, PutTyped
  <2>3. held' \in [Handlers -> Entry]
    BY <1>10, <2>1 DEF Pop
  <2>4. IF h = EventLoop THEN job.click \in 0..MaxClicks ELSE TRUE
    BY DEF Resume
  <2>5. approved' \subseteq CallIds \X (0..MaxClicks)
    <3>1. stash[Serving(h)].call # 0 => stash[Serving(h)].call \in CallIds
      BY <2>1, ConstantsAssumption DEF Entry, CallIds
    <3>2. 0 \in 0..MaxClicks
      BY ConstantsAssumption
    <3> QED BY <1>10, <2>4, <3>1, <3>2 DEF Pop
  <2>6. pc' \in [Handlers -> PCs] /\ JobAndCard'
    BY <1>10 DEF Pop, SaveThen, GoTo
  <2>7. after' \in [Handlers -> {"alert", "ask", "pop", "run"}]
    BY <1>10 DEF Pop, SaveThen
  <2> QED BY <1>10, <2>2, <2>3, <2>5, <2>6, <2>7 DEF Pop
<1>11. CASE Missing(h)
  BY <1>11, ReturnTyped DEF Missing
<1>12. CASE NeedsSecond(h)
  <2>1. [held[h] EXCEPT !.confirmed = TRUE] \in Entry
    <3>1. held[h] \in Entry
      OBVIOUS
    <3> QED BY <3>1 DEF Entry
  <2>2. stash' \in [Turns -> Entry] /\ disturbed' \subseteq Handlers /\ unsaved' \in BOOLEAN
    BY <1>12, <2>1, PutTyped DEF NeedsSecond
  <2>3. held' \in [Handlers -> Entry]
    BY <1>12, EmptyTyped DEF NeedsSecond
  <2>4. pc' \in [Handlers -> PCs] /\ JobAndCard'
    BY <1>12 DEF NeedsSecond, SaveThen, GoTo
  <2>5. after' \in [Handlers -> {"alert", "ask", "pop", "run"}]
    BY <1>12 DEF NeedsSecond, SaveThen
  <2> QED BY <1>12, <2>2, <2>3, <2>4, <2>5 DEF NeedsSecond
<1>13. RunOf(h) \in [entry : Entry, about : Entry]
  BY DEF RunOf, Resume
<1>14. CASE Run(h)
  <2>1. runs' \in Seq([entry : Entry, about : Entry])
    BY <1>13, <1>14 DEF Run
  <2>2. held' \in [Handlers -> Entry]
    BY <1>14, EmptyTyped DEF Run
  <2> QED BY <1>14, <2>1, <2>2 DEF Run, GoTo
<1>15. CASE RunRefused(h)
  <2>1. held' \in [Handlers -> Entry]
    BY <1>15, EmptyTyped DEF RunRefused
  <2> QED BY <1>15, <2>1 DEF RunRefused, GoTo
<1>16. CASE RunRaises(h)
  <2>1. runs' = runs \/ runs' = Append(runs, RunOf(h))
    BY <1>16 DEF RunRaises
  <2>2. runs' \in Seq([entry : Entry, about : Entry])
    <3>1. Append(runs, RunOf(h)) \in Seq([entry : Entry, about : Entry])
      BY <1>13
    <3> QED BY <2>1, <3>1
  <2> QED BY <1>16, <2>2, ReturnTyped DEF RunRaises
<1> QED
  BY <1>1, <1>2, <1>3, <1>4, <1>5, <1>6, <1>7, <1>8, <1>9, <1>10, <1>11, <1>12,
     <1>14, <1>15, <1>16 DEF HandlerStep
\* A step of another part of the system keeps every variable well typed.
LEMMA RestTyped ==
  ASSUME TypeOK, JobAndCard, [Next]_vars, \A h \in Handlers : ~HandlerStep(h)
  PROVE  TypeOK' /\ JobAndCard'
<1> USE DEF TypeOK, JobAndCard, PCs, core, surfaces, history
<1>1. ASSUME NEW r \in inbox, Accept(r)
      PROVE  TypeOK' /\ JobAndCard'
  <2>1. r \in Resume /\ r # NoJob
    <3>1. r \in Resume
      BY <1>1
    <3> QED BY <3>1, ConstantsAssumption DEF Resume, NoJob
  <2> QED BY <1>1, <2>1 DEF Accept, GoTo, Handlers
<1>2. ASSUME NEW r \in inbox, Answered(r, TRUE)
      PROVE  /\ chat' \in [Turns -> {"none", "pending", "approve", "deny"}]
             /\ busy' \in BOOLEAN
             /\ listening' \in Turns \cup {NoTurn}
             /\ island' \in Turns \cup {NoTurn}
             /\ deciding' \in {"idle", "approve", "deny", "sent"}
             /\ deciding' # "idle" => island' # NoTurn
  <2>1. r \in Resume
    OBVIOUS
  <2>2. r.decision \in {"approve", "deny"} /\ r.turn \in Turns
    BY <2>1 DEF Resume, Decisions
  <2> QED BY <1>2, <2>2 DEF Answered
<1>3. ASSUME NEW r \in inbox, Refuse(r)
      PROVE  TypeOK' /\ JobAndCard'
  <2>1. r.turn \in Turns
    <3>1. r \in Resume
      OBVIOUS
    <3> QED BY <3>1 DEF Resume
  <2>2. stash[r.turn].call \in 0..MaxCalls
    <3>1. stash[r.turn] \in Entry
      BY <2>1
    <3> QED BY <3>1 DEF Entry
  <2>3. denied' \subseteq CallIds
    <3>1. {stash[r.turn].call} \ {0} \subseteq CallIds
      BY <2>2, ConstantsAssumption DEF CallIds
    <3> QED BY <1>3, <3>1 DEF Refuse
  <2> QED BY <1>2, <1>3, <2>3 DEF Refuse
<1>4. ASSUME NEW r \in inbox, Divert(r)
      PROVE  TypeOK' /\ JobAndCard'
  BY <1>2, <1>4 DEF Divert
<1>5. CASE CrashAndRestart
  <2>1. stash' \in [Turns -> Entry]
    BY <1>5, SanitizedTyped DEF CrashAndRestart
  <2>2. snap' \in [Handlers -> [Turns -> Entry]] /\ held' \in [Handlers -> Entry]
    BY <1>5, EmptyTyped DEF CrashAndRestart
  <2>3. pc' \in [Handlers -> PCs]
    BY <1>5 DEF CrashAndRestart
  <2>4. store' \in Seq(Turns)
    BY <1>5 DEF CrashAndRestart
  <2>5. crashes' \in 0..MaxCrashes
    BY <1>5, ConstantsAssumption DEF CrashAndRestart
  <2>6. JobAndCard'
    BY <1>5 DEF CrashAndRestart, Handlers
  <2> QED BY <1>5, <2>1, <2>2, <2>3, <2>4, <2>5, <2>6 DEF CrashAndRestart
<1>6. ASSUME NEW t \in Turns, Send(t)
      PROVE  TypeOK' /\ JobAndCard'
  BY <1>6, ConstantsAssumption DEF Send, GoTo, Handlers
<1>7. ASSUME NEW t \in Turns, Unlist(t)
      PROVE  store' \in Seq(Turns)
  <2>1. PICK i \in DOMAIN store :
          store' = SubSeq(store, 1, i - 1) \o SubSeq(store, i + 1, Len(store))
    BY <1>7 DEF Unlist
  <2>2. store \in Seq(Turns) /\ i \in 1..Len(store) /\ Len(store) \in Nat
    OBVIOUS
  <2>3. SubSeq(store, 1, i - 1) \in Seq(Turns)
    BY <2>2, SubSeqProperties
  <2>4. SubSeq(store, i + 1, Len(store)) \in Seq(Turns)
    BY <2>2, SubSeqProperties
  <2> QED BY <2>1, <2>3, <2>4, ConcatProperties
<1>8. ASSUME NEW t \in Turns, WebDecide(t)
      PROVE  TypeOK' /\ JobAndCard'
  BY <1>7, <1>8 DEF WebDecide
<1>9. CASE Stop
  BY <1>9 DEF Stop
<1>10. ASSUME NEW t \in Turns, NEW d \in Decisions, NEW from \in {"chat", "island"},
              Click(t, d, from)
       PROVE  clicks' \in 0..MaxClicks /\ inbox' \subseteq Resume
  <2>1. clicks + 1 \in 0..MaxClicks /\ asked[t] \in Entry
    BY <1>10, ConstantsAssumption DEF Click
  <2> QED BY <1>10, <2>1 DEF Click, Resume
<1>11. ASSUME NEW t \in Turns, NEW d \in Decisions, ChatDecide(t, d)
       PROVE  TypeOK' /\ JobAndCard'
  BY <1>10, <1>11 DEF ChatDecide
<1>12. CASE IslandShow
  <2>1. store # <<>> => Head(store) \in Turns
    OBVIOUS
  <2> QED BY <1>12, <2>1 DEF IslandShow
<1>13. CASE IslandResume
  <2>1. island \in Turns
    BY <1>13 DEF IslandResume, Decisions
  <2> QED BY <1>10, <1>13, <2>1 DEF IslandResume, Decisions
<1>14. CASE IslandDismiss
  BY <1>14 DEF IslandDismiss
<1>15. ASSUME NEW d \in Decisions, IslandDecide(d)
       PROVE  TypeOK' /\ JobAndCard'
  <2>1. island \in Turns
    BY <1>15 DEF IslandDecide, Listed
  <2>2. island # NoTurn
    BY <2>1, ConstantsAssumption
  <2> QED BY <1>7, <1>15, <2>1, <2>2 DEF IslandDecide, Decisions
<1>16. CASE UNCHANGED vars
  BY <1>16 DEF vars
<1> QED
  BY <1>1, <1>3, <1>4, <1>5, <1>6, <1>8, <1>9, <1>11, <1>12, <1>13, <1>14, <1>15,
     <1>16 DEF Next
LEMMA NothingSanitized == \A t \in Turns : Nothing[t] = Empty /\ Sanitized(Nothing[t]) = Nothing[t]
BY DEF Nothing, Sanitized, Empty

\* A call that ran is a call the model authored in some turn.
LEMMA RanCallTyped ==
  ASSUME TypeOK, EntriesOfTurn, NEW j \in DOMAIN runs
  PROVE  /\ runs[j].entry.call \in 1..Len(calls) /\ runs[j].entry.call # 0
         /\ calls[runs[j].entry.call].turn \in Turns
<1>1. runs[j].entry.call \in 1..Len(calls)
  BY DEF EntriesOfTurn
<1>2. calls[runs[j].entry.call] \in Call
  BY <1>1 DEF TypeOK
<1> QED BY <1>1, <1>2 DEF TypeOK, Call

\* A handler that gives up the call it held, or held none, and stands where it
\* saves nothing keeps the claims; it may have run the call.
LEMMA ClearKeeps ==
  ASSUME IInv, TypeOK', NEW h \in Handlers, NEW l \in {"idle", "loop", "ask", "pop"},
         GoTo(h, l), pc[h] \notin {"truncate", "write"},
         held'[h].call = 0, \A g \in Others(h) : held'[g] = held[g],
         \A g \in Others(h) : Serving(g)' = Serving(g),
         UNCHANGED <<stash, disk, after, snap, calls, crashes>>,
         unsaved' = unsaved \/ unsaved' = TRUE,
         pc[h] = "save" => unsaved',
         runs' = runs \/ (/\ pc[h] = "run" /\ held[h].call # 0
                          /\ runs' = Append(runs, RunOf(h)))
  PROVE  Claims'
<1> USE DEF IInv, Claims
<1>0. pc' = [pc EXCEPT ![h] = l] /\ pc \in [Handlers -> PCs]
  BY DEF GoTo, TypeOK, PCs
<1>1. EntriesOfTurn'
  <2>1. \A g \in Handlers : OfTurn(Serving(g), held[g])'
    <3>1. OfTurn(Serving(h), held[h])'
      BY DEF OfTurn
    <3>2. \A g \in Others(h) : OfTurn(Serving(g), held[g])'
      BY DEF EntriesOfTurn, OfTurn, Others
    <3> QED BY <3>1, <3>2 DEF Others
  <2>2. \A j \in DOMAIN runs' : runs'[j].entry.call \in 1..Len(calls)
    <3>1. CASE runs' = runs
      BY <3>1 DEF EntriesOfTurn
    <3>2. CASE held[h].call # 0 /\ runs' = Append(runs, RunOf(h))
      <4>1. held[h].call \in 1..Len(calls)
        BY <3>2 DEF EntriesOfTurn, OfTurn, TypeOK, Entry
      <4>2. RunOf(h).entry.call \in 1..Len(calls)
        BY <4>1 DEF RunOf
      <4> QED BY <3>2, <4>2 DEF EntriesOfTurn, TypeOK
    <3> QED BY <3>1, <3>2
  <2> QED BY <2>1, <2>2 DEF EntriesOfTurn, OfTurn
<1>2. HeldOnce'
  BY <1>0 DEF HeldOnce, Others
<1>3. HeldIsSaved'
  BY <1>0 DEF HeldIsSaved, Others
<1>a. (~unsaved' => ~unsaved) /\ (pc[h] = "save" => unsaved')
  OBVIOUS
<1>b. \A g \in Handlers : held'[g].call # 0 => g # h /\ held'[g] = held[g]
  BY DEF Others
<1>4. RanIsGone' /\ AtMostOnce'
  <2>1. CASE runs' = runs
    <3>1. AtMostOnce'
      BY <1>a, <2>1 DEF AtMostOnce
    <3>2. \A j \in DOMAIN runs : runs[j].entry.call # 0
      BY DEF EntriesOfTurn, TypeOK
    <3>3. RanIsGone'
      BY <1>a, <1>b, <2>1, <3>2 DEF RanIsGone
    <3> QED BY <3>1, <3>3
  <2>2. CASE pc[h] = "run" /\ held[h].call # 0 /\ runs' = Append(runs, RunOf(h))
    <3>0. PICK n \in Nat, c \in Nat : n = Len(runs) + 1 /\ c = held[h].call
      BY DEF TypeOK, Entry
    <3>1. /\ DOMAIN runs' = DOMAIN runs \cup {n} /\ n \notin DOMAIN runs
          /\ \A j \in DOMAIN runs : runs'[j] = runs[j]
          /\ runs'[n].entry.call = c
      BY <2>2, <3>0 DEF TypeOK, RunOf
    <3>2. calls[c].turn = Serving(h)
      BY <2>2, <3>0 DEF EntriesOfTurn, OfTurn
    <3>3. /\ stash[Serving(h)].call # c
          /\ \A g \in Others(h) : held[g].call # c
          /\ ~unsaved => /\ disk[Serving(h)].call # c
                         /\ \A g \in Handlers : snap[g][Serving(h)].call # c
      BY <2>2, <3>0 DEF HeldOnce, HeldIsSaved
    <3>4. \A g \in Handlers : held'[g].call # c
      BY <1>b, <2>2, <3>0, <3>3 DEF Others
    <3>5. \A j \in DOMAIN runs : crashes = 0 \/ ~unsaved => runs[j].entry.call # c
      BY <3>0 DEF RanIsGone
    <3>6. AtMostOnce'
      BY <1>a, <3>1, <3>5 DEF AtMostOnce
    <3>7. \A j \in DOMAIN runs : runs[j].entry.call # 0
      BY DEF EntriesOfTurn, TypeOK
    <3>8. RanIsGone'
      <4> DEFINE Gone(d) ==
            LET t == calls[d].turn
            IN  /\ crashes = 0 \/ ~unsaved =>
                     stash[t].call # d /\ \A g \in Handlers : held[g].call # d
                /\ ~unsaved =>
                     disk[t].call # d /\ \A g \in Handlers : snap[g][t].call # d
      <4>1. \A j \in DOMAIN runs : Gone(runs[j].entry.call)
        BY DEF RanIsGone
      <4>2. \A j \in DOMAIN runs : Gone(runs[j].entry.call)'
        BY <1>a, <1>b, <3>1, <3>7, <4>1
      <4>3. Gone(runs[n].entry.call)'
        BY <1>a, <3>1, <3>2, <3>3, <3>4
      <4>4. \A j \in DOMAIN runs' : Gone(runs[j].entry.call)'
        BY <3>1, <4>2, <4>3
      <4> QED BY <4>4 DEF RanIsGone
    <3> QED BY <3>6, <3>8
  <2> QED BY <2>1, <2>2
<1>5. NoSpareSnapshot'
  BY <1>0 DEF NoSpareSnapshot
<1>c. Payload' = Payload /\ \A e : Sanitized(e)' = Sanitized(e)
  BY DEF Payload, Sanitized
<1>6. SavesAreCurrent'
  <2>1. \A t \in Turns : Sanitized(disk[t])' = disk[t]'
    BY DEF SavesAreCurrent, Sanitized
  <2>2. \A g \in Handlers, t \in Turns : Sanitized(snap[g][t])' = snap[g][t]'
    BY DEF SavesAreCurrent, Sanitized
  <2>3. ~unsaved' => \A g \in Handlers : pc'[g] \in {"truncate", "write"} => snap'[g] = Payload'
    BY <1>0, <1>a, <1>c DEF SavesAreCurrent
  <2> QED BY <2>1, <2>2, <2>3 DEF SavesAreCurrent
<1>7. FileIsCurrent'
  <2>1. ~unsaved' => Saving' = Saving
    BY <1>0 DEF Saving
  <2> QED BY <1>a, <1>c, <2>1 DEF FileIsCurrent
<1> QED BY <1>1, <1>2, <1>3, <1>4, <1>5, <1>6, <1>7
\* A step of a save keeps the claims: the payload has no claimed call, and the
\* file is what the stash holds once the last save ends.
LEMMA SaveKeeps ==
  ASSUME IInv, TypeOK', NEW h \in Handlers,
         Snapshot(h) \/ Truncate(h) \/ Write(h) \/ SaveFails(h)
  PROVE  Claims'
<1> USE DEF IInv, Claims
<1>0. /\ UNCHANGED <<stash, held, job, calls, runs, crashes, after>>
      /\ \A g \in Others(h) : pc'[g] = pc[g] /\ snap'[g] = snap[g]
      /\ ~unsaved' => ~unsaved
  BY DEF Snapshot, Truncate, Write, SaveFails, GoTo, TypeOK, Others, history
<1>1. /\ Payload' = Payload
      /\ \A g \in Handlers : Serving(g)' = Serving(g)
      /\ \A e : Sanitized(e)' = Sanitized(e)
  BY <1>0 DEF Payload, Sanitized, Serving
<1>2. snap'[h] = snap[h] \/ snap'[h] = Payload \/ snap'[h] = Nothing
  BY DEF Snapshot, Truncate, Write, SaveFails, TypeOK
<1>3. disk' = disk \/ disk' = Nothing \/ \E g \in Handlers : disk' = snap[g]
  BY DEF Snapshot, Truncate, Write, SaveFails
<1>4. pc[h] \in {"save", "truncate", "write"}
      /\ (pc'[h] \in {"save", "truncate", "write"} \/ pc'[h] = after[h])
  BY DEF Snapshot, Truncate, Write, SaveFails, GoTo, TypeOK
<1>5. EntriesOfTurn'
  <2>1. \A t \in Turns : \A e : OfTurn(t, e)' = OfTurn(t, e)
    BY <1>0 DEF OfTurn
  <2>2. \A t \in Turns : OfTurn(t, Nothing[t]) /\ OfTurn(t, Payload[t])
    BY PayloadTyped, EmptyTyped, NothingSanitized DEF EntriesOfTurn, OfTurn
  <2>3. \A t \in Turns : OfTurn(t, disk'[t])
    BY <1>3, <2>2 DEF EntriesOfTurn
  <2>4. \A t \in Turns, g \in Handlers : OfTurn(t, snap'[g][t])
    BY <1>0, <1>2, <2>2 DEF EntriesOfTurn, Others
  <2>5. \A g \in Handlers : OfTurn(Serving(g), held[g])'
    BY <1>0, <1>1 DEF EntriesOfTurn, OfTurn
  <2> QED BY <1>0, <2>1, <2>3, <2>4, <2>5 DEF EntriesOfTurn
<1>6. HeldOnce'
  BY <1>0, <1>1, <1>4 DEF HeldOnce, Others
<1>7. \A g \in Handlers : held[g].call # 0 =>
        /\ held[g].call # Payload[Serving(g)].call
        /\ held[g].call # Nothing[Serving(g)].call
  <2> SUFFICES ASSUME NEW g \in Handlers, held[g].call # 0
               PROVE  /\ held[g].call # Payload[Serving(g)].call
                      /\ held[g].call # Nothing[Serving(g)].call
    OBVIOUS
  <2>1. pc[g] # "idle"
    BY DEF HeldOnce
  <2>2. Serving(g) \in Turns
    BY <2>1, ServingTyped
  <2> QED BY <2>2, PayloadTyped, NothingSanitized, EmptyTyped DEF HeldOnce
<1>8. HeldIsSaved'
  <2> SUFFICES ASSUME ~unsaved', NEW g \in Handlers, held[g].call # 0
               PROVE  /\ \A k \in Handlers : snap'[k][Serving(g)].call # held[g].call
                      /\ pc'[g] \in {"write", "run"} => disk'[Serving(g)].call # held[g].call
    BY <1>0, <1>1 DEF HeldIsSaved
  <2>1. \A k \in Handlers : snap[k][Serving(g)].call # held[g].call
    BY <1>0 DEF HeldIsSaved
  <2>2. \A k \in Handlers : snap'[k][Serving(g)].call # held[g].call
    BY <1>0, <1>2, <1>7, <2>1 DEF Others
  <2>3. ASSUME pc'[g] \in {"write", "run"}
        PROVE  disk'[Serving(g)].call # held[g].call
    <3>1. CASE disk' # disk
      BY <1>3, <1>7, <2>1, <3>1
    <3>2. CASE disk' = disk /\ pc[g] \in {"write", "run"}
      BY <1>0, <3>2 DEF HeldIsSaved
    <3>3. CASE disk' = disk /\ pc[g] \notin {"write", "run"}
      <4>1. g = h
        BY <1>0, <2>3, <3>3 DEF Others
      <4>2. CASE Truncate(h)
        BY <1>7, <4>2 DEF Truncate
      <4>3. CASE ~Truncate(h)
        BY <2>3, <3>3, <4>1, <4>3 DEF Snapshot, Write, SaveFails, GoTo, TypeOK
      <4> QED BY <4>2, <4>3
    <3> QED BY <3>1, <3>2, <3>3
  <2> QED BY <2>2, <2>3
<1>9. AtMostOnce'
  BY <1>0 DEF AtMostOnce
<1>10. RanIsGone'
  <2> SUFFICES ASSUME NEW j \in DOMAIN runs,
                      NEW c, c = runs[j].entry.call, NEW t, t = calls[c].turn
               PROVE  /\ crashes = 0 \/ ~unsaved' =>
                           stash[t].call # c /\ \A g \in Handlers : held[g].call # c
                      /\ ~unsaved' =>
                           disk'[t].call # c /\ \A g \in Handlers : snap'[g][t].call # c
    BY <1>0 DEF RanIsGone
  <2>1. c # 0 /\ t \in Turns
    BY RanCallTyped
  <2>2. /\ crashes = 0 \/ ~unsaved =>
             stash[t].call # c /\ \A g \in Handlers : held[g].call # c
        /\ ~unsaved =>
             disk[t].call # c /\ \A g \in Handlers : snap[g][t].call # c
    BY DEF RanIsGone
  <2>3. ~unsaved => Payload[t].call # c /\ Nothing[t].call # c
    BY <2>1, <2>2, PayloadTyped, NothingSanitized, EmptyTyped
  <2>4. ~unsaved => disk'[t].call # c /\ \A g \in Handlers : snap'[g][t].call # c
    BY <1>0, <1>2, <1>3, <2>2, <2>3 DEF Others
  <2> QED BY <1>0, <2>2, <2>4
<1>11. NoSpareSnapshot'
  <2>1. pc'[h] \notin {"truncate", "write"} => snap'[h] = Nothing
    BY DEF Snapshot, Truncate, Write, SaveFails, GoTo, TypeOK
  <2> QED BY <1>0, <2>1 DEF NoSpareSnapshot, Others
<1>12. SavesAreCurrent'
  <2>1. \A t \in Turns : Sanitized(disk'[t]) = disk'[t]
    BY <1>3, NothingSanitized DEF SavesAreCurrent
  <2>2. \A g \in Handlers, t \in Turns : Sanitized(snap'[g][t]) = snap'[g][t]
    BY <1>0, <1>2, NothingSanitized, PayloadTyped DEF SavesAreCurrent, Others
  <2>3. ~unsaved' /\ pc'[h] \in {"truncate", "write"} => snap'[h] = Payload
    BY <1>0 DEF Snapshot, Truncate, Write, SaveFails, GoTo, TypeOK, SavesAreCurrent
  <2>4. ~unsaved' => \A g \in Handlers : pc'[g] \in {"truncate", "write"} => snap'[g] = Payload
    BY <1>0, <2>3 DEF SavesAreCurrent, Others
  <2> QED BY <1>1, <2>1, <2>2, <2>4 DEF SavesAreCurrent
<1>13. FileIsCurrent'
  <2>1. CASE Snapshot(h) \/ Truncate(h)
    BY <1>4, <2>1 DEF FileIsCurrent, Saving, Snapshot, Truncate, GoTo, TypeOK
  <2>2. CASE Write(h)
    <3>1. ~unsaved' => disk' = snap[h] /\ snap[h] = Payload
      BY <2>2 DEF Write, SavesAreCurrent
    <3> QED BY <1>1, <3>1 DEF FileIsCurrent
  <2>3. CASE SaveFails(h)
    BY <2>3 DEF FileIsCurrent, SaveFails
  <2> QED BY <2>1, <2>2, <2>3
<1> QED
  BY <1>5, <1>6, <1>8, <1>9, <1>10, <1>11, <1>12, <1>13
\* A change of the stash that a save follows keeps the claims: the new entry is
\* empty, the call the handler held, or a new call, and the handler claims
\* nothing but what it takes out of the stash.
LEMMA StashKeeps ==
  ASSUME IInv, TypeOK', NEW h \in Handlers, NEW t \in Turns, NEW e \in Entry,
         t = Serving(h), pc[h] \in {"loop", "pop", "run"}, pc' = [pc EXCEPT ![h] = "save"],
         Put(h, t, e),
         UNCHANGED <<disk, snap, runs, crashes, job>>,
         \A g \in Others(h) : held'[g] = held[g] /\ after'[g] = after[g],
         calls' = calls \/ (Len(calls') = Len(calls) + 1
                            /\ \A c \in 1..Len(calls) : calls'[c] = calls[c]),
         e.call # 0 => e.call <= Len(calls') /\ calls'[e.call].turn = t,
         \/ held'[h].call = 0
         \/ after'[h] = "run" /\ e.call = 0 /\ held'[h].call = stash[t].call,
         e.call = 0 \/ e.call = held[h].call \/ e.call > Len(calls)
  PROVE  Claims'
<1> USE DEF IInv, Claims
<1>0. /\ stash' = [stash EXCEPT ![t] = e]
      /\ ~unsaved' => /\ ~unsaved
                      /\ stash[t] # e => \A g \in Others(h) : pc[g] \notin {"truncate", "write"}
      /\ \A g \in Others(h) : pc'[g] = pc[g]
      /\ pc'[h] = "save"
      /\ \A g \in Handlers : Serving(g)' = Serving(g)
  BY DEF Put, TypeOK, Others, Serving
<1>1. /\ Len(calls) \in Nat /\ Len(calls') \in Nat /\ Len(calls) <= Len(calls')
      /\ \A c \in 1..Len(calls) : calls'[c] = calls[c]
  BY DEF TypeOK
<1>2. \A x \in Entry : x.call <= Len(calls) => Sanitized(x)' = Sanitized(x)
  BY <1>1 DEF Sanitized, Entry
<1>3. \A u \in Turns, x \in Entry : OfTurn(u, x) => OfTurn(u, x)' /\ Sanitized(x)' = Sanitized(x)
  <2> SUFFICES ASSUME NEW u \in Turns, NEW x \in Entry, OfTurn(u, x)
               PROVE  OfTurn(u, x)' /\ Sanitized(x)' = Sanitized(x)
    OBVIOUS
  <2>1. x.call \in Nat /\ x.call <= Len(calls)
    BY <1>1 DEF OfTurn, Entry
  <2> QED BY <1>1, <1>2, <2>1 DEF OfTurn
<1>4. held'[h].call # 0 => /\ held'[h].call = stash[t].call /\ after'[h] = "run"
                           /\ e.call = 0 /\ stash[t] # e
  OBVIOUS
<1>5. EntriesOfTurn'
  <2>1. \A u \in Turns : OfTurn(u, stash[u])' /\ OfTurn(u, disk[u])'
    <3>1. OfTurn(t, e)'
      BY DEF OfTurn
    <3> QED BY <1>0, <1>3, <3>1 DEF EntriesOfTurn, TypeOK
  <2>2. \A u \in Turns, g \in Handlers : OfTurn(u, snap[g][u])'
    BY <1>3 DEF EntriesOfTurn, TypeOK
  <2>3. \A g \in Handlers : OfTurn(Serving(g), held[g])'
    <3> SUFFICES ASSUME NEW g \in Handlers PROVE OfTurn(Serving(g), held[g])'
      OBVIOUS
    <3>1. CASE g = h
      <4>2. held'[h].call # 0 => held'[h].call <= Len(calls) /\ calls[held'[h].call].turn = t
        BY <1>4 DEF EntriesOfTurn, OfTurn
      <4>3. held'[h].call # 0 => held'[h].call \in 1..Len(calls)
        BY <4>2, <1>1 DEF TypeOK, Entry
      <4> QED BY <1>0, <1>1, <3>1, <4>2, <4>3 DEF OfTurn
    <3>2. CASE g # h
      <4>1. held'[g] = held[g] /\ held[g] \in Entry /\ OfTurn(Serving(g), held[g])
        BY <3>2 DEF EntriesOfTurn, Others, TypeOK
      <4>2. held[g].call # 0 => held[g].call \in 1..Len(calls)
        BY <4>1, <1>1 DEF OfTurn, Entry
      <4> QED BY <1>0, <1>1, <4>1, <4>2 DEF OfTurn
    <3> QED BY <3>1, <3>2
  <2>4. \A j \in DOMAIN runs : runs[j].entry.call \in 1..Len(calls')
    BY <1>1 DEF EntriesOfTurn
  <2> QED BY <2>1, <2>2, <2>3, <2>4 DEF EntriesOfTurn
<1>6. \A g \in Others(h) : held[g].call # 0 =>
         /\ held[g].call # stash[t].call
         /\ held[g].call # e.call
         /\ stash'[Serving(g)].call # held[g].call
  <2> SUFFICES ASSUME NEW g \in Others(h), held[g].call # 0
               PROVE  /\ held[g].call # stash[t].call
                      /\ held[g].call # e.call
                      /\ stash'[Serving(g)].call # held[g].call
    OBVIOUS
  <2>1. g \in Handlers /\ pc[g] # "idle" /\ stash[Serving(g)].call # held[g].call
    BY DEF HeldOnce, Others
  <2>2. Serving(g) \in Turns
    BY <2>1, ServingTyped
  <2>3. held[g].call \in Nat /\ held[g].call <= Len(calls) /\ calls[held[g].call].turn = Serving(g)
    BY <2>1 DEF EntriesOfTurn, OfTurn, TypeOK, Entry
  <2>4. held[g].call # stash[t].call
    BY <2>1, <2>3 DEF EntriesOfTurn, OfTurn
  <2>5. held[g].call # e.call
    BY <1>1, <2>1, <2>3 DEF HeldOnce, Others, Entry
  <2> QED BY <1>0, <2>1, <2>2, <2>4, <2>5 DEF TypeOK
<1>7. HeldOnce'
  <2> SUFFICES ASSUME NEW g \in Handlers, held'[g].call # 0
               PROVE  /\ \/ pc'[g] = "run"
                         \/ pc'[g] \in {"save", "truncate", "write"} /\ after'[g] = "run"
                      /\ stash'[Serving(g)].call # held'[g].call
                      /\ \A k \in Others(g) : held'[k].call # held'[g].call
    BY <1>0 DEF HeldOnce, Others
  <2>1. CASE g = h
    <3>1. stash'[t].call = 0
      BY <1>0, <1>4, <2>1 DEF TypeOK
    <3> QED BY <1>0, <1>4, <1>6, <2>1, <3>1 DEF Others
  <2>2. CASE g # h
    <3>1. g \in Others(h) /\ held'[g] = held[g] /\ held[g].call # 0
      BY <2>2 DEF Others
    <3>2. held'[h].call # held[g].call
      BY <1>4, <1>6, <3>1
    <3> QED BY <1>0, <1>6, <3>1, <3>2 DEF HeldOnce, Others
  <2> QED BY <2>1, <2>2
<1>8. HeldIsSaved'
  <2> SUFFICES ASSUME ~unsaved', NEW g \in Handlers, held'[g].call # 0
               PROVE  /\ \A k \in Handlers : snap[k][Serving(g)].call # held'[g].call
                      /\ pc'[g] \in {"write", "run"} => disk[Serving(g)].call # held'[g].call
    BY <1>0 DEF HeldIsSaved
  <2>1. CASE g = h
    <3>1. \A k \in Handlers : snap[k] = Nothing
      BY <1>0, <1>4, <2>1 DEF NoSpareSnapshot, Others
    <3> QED BY <1>0, <2>1, <3>1, NothingSanitized, EmptyTyped
  <2>2. CASE g # h
    BY <1>0, <2>2 DEF HeldIsSaved, Others
  <2> QED BY <2>1, <2>2
<1>9. AtMostOnce'
  BY <1>0 DEF AtMostOnce
<1>10. RanIsGone'
  <2> SUFFICES ASSUME NEW j \in DOMAIN runs,
                      NEW c, c = runs[j].entry.call, NEW u, u = calls[c].turn
               PROVE  /\ crashes = 0 \/ ~unsaved' =>
                           stash'[u].call # c /\ \A g \in Handlers : held'[g].call # c
                      /\ ~unsaved' =>
                           disk[u].call # c /\ \A g \in Handlers : snap[g][u].call # c
    <3>1. \A j \in DOMAIN runs : calls'[runs[j].entry.call] = calls[runs[j].entry.call]
      BY <1>1, RanCallTyped
    <3> QED BY <3>1 DEF RanIsGone
  <2>1. c \in 1..Len(calls) /\ u \in Turns
    BY RanCallTyped
  <2>2. /\ crashes = 0 \/ ~unsaved =>
             stash[u].call # c /\ \A g \in Handlers : held[g].call # c
        /\ ~unsaved =>
             disk[u].call # c /\ \A g \in Handlers : snap[g][u].call # c
    BY DEF RanIsGone
  <2>3. ASSUME crashes = 0 \/ ~unsaved
        PROVE  stash'[u].call # c /\ held'[h].call # c
    <3>1. e.call # c
      BY <1>1, <2>1, <2>2, <2>3 DEF Entry
    <3>2. stash[t].call # c
      BY <2>1, <2>2, <2>3 DEF EntriesOfTurn, OfTurn
    <3>3. held'[h].call # c
      BY <1>4, <2>1, <3>2
    <3> QED BY <1>0, <2>1, <2>2, <2>3, <3>1, <3>3 DEF TypeOK
  <2> QED BY <1>0, <2>2, <2>3 DEF Others
<1>11. NoSpareSnapshot'
  BY <1>0 DEF NoSpareSnapshot, Others
<1>12. SavesAreCurrent'
  <2>1. \A u \in Turns : Sanitized(disk[u])' = disk[u]
    BY <1>3 DEF SavesAreCurrent, EntriesOfTurn, TypeOK
  <2>2. \A g \in Handlers, u \in Turns : Sanitized(snap[g][u])' = snap[g][u]
    BY <1>3 DEF SavesAreCurrent, EntriesOfTurn, TypeOK
  <2>3. ASSUME ~unsaved', NEW g \in Handlers, pc'[g] \in {"truncate", "write"}
        PROVE  snap[g] = Payload'
    <3>1. g \in Others(h) /\ pc[g] \in {"truncate", "write"} /\ ~unsaved
      BY <1>0, <2>3 DEF Others
    <3>2. stash' = stash
      BY <1>0, <2>3, <3>1 DEF TypeOK
    <3>3. \A u \in Turns : Sanitized(stash[u])' = Sanitized(stash[u])
      BY <1>3, <3>2 DEF EntriesOfTurn, TypeOK
    <3>4. Payload' = Payload
      BY <3>3 DEF Payload
    <3> QED BY <3>1, <3>4 DEF SavesAreCurrent
  <2> QED BY <2>1, <2>2, <2>3 DEF SavesAreCurrent
<1>13. FileIsCurrent'
  BY <1>0 DEF FileIsCurrent, Saving
<1> QED
  BY <1>5, <1>7, <1>8, <1>9, <1>10, <1>11, <1>12, <1>13
\* A restart brings back the calls of the file, and nothing is claimed.
LEMMA CrashKeeps ==
  ASSUME IInv, TypeOK', CrashAndRestart
  PROVE  Claims'
<1> USE DEF IInv, Claims
<1>0. /\ stash' = [t \in Turns |-> Sanitized(disk[t])]
      /\ \A t \in Turns : stash'[t] = disk[t]
      /\ \A h \in Handlers : /\ pc'[h] \in {"new", "idle"}
                             /\ snap'[h] = Nothing
                             /\ held'[h].call = 0
      /\ UNCHANGED <<disk, calls, runs, unsaved>>
      /\ crashes' # 0
  BY EmptyTyped DEF CrashAndRestart, SavesAreCurrent, history, TypeOK
<1>1. EntriesOfTurn'
  BY <1>0, NothingSanitized, EmptyTyped DEF EntriesOfTurn, OfTurn
<1>2. HeldOnce' /\ HeldIsSaved'
  BY <1>0 DEF HeldOnce, HeldIsSaved
<1>3. AtMostOnce'
  BY <1>0 DEF AtMostOnce
<1>4. RanIsGone'
  <2> SUFFICES ASSUME ~unsaved, NEW j \in DOMAIN runs,
                      NEW c, c = runs[j].entry.call, NEW u, u = calls[c].turn
               PROVE  /\ stash'[u].call # c /\ \A g \in Handlers : held'[g].call # c
                      /\ disk[u].call # c /\ \A g \in Handlers : snap'[g][u].call # c
    BY <1>0 DEF RanIsGone
  <2>1. c # 0 /\ u \in Turns
    BY RanCallTyped
  <2>2. disk[u].call # c
    BY DEF RanIsGone
  <2> QED BY <1>0, <2>1, <2>2, NothingSanitized, EmptyTyped
<1>5. NoSpareSnapshot'
  BY <1>0 DEF NoSpareSnapshot
<1>6. \A e : Sanitized(e)' = Sanitized(e)
  BY <1>0 DEF Sanitized
<1>7. SavesAreCurrent'
  BY <1>0, <1>6, NothingSanitized DEF SavesAreCurrent
<1>8. FileIsCurrent'
  <2>1. Payload' = disk
    BY <1>0, <1>6 DEF Payload, SavesAreCurrent, TypeOK
  <2> QED BY <1>0, <2>1 DEF FileIsCurrent
<1> QED
  BY <1>1, <1>2, <1>3, <1>4, <1>5, <1>7, <1>8

\* A step that leaves the handlers, the stash and the file alone.
LEMMA SurfaceKeeps ==
  ASSUME IInv, UNCHANGED <<core, disk, calls, runs, crashes, unsaved>>
  PROVE  Claims'
<1>1. UNCHANGED <<stash, disk, pc, after, snap, held, job, calls, runs, crashes, unsaved>>
  BY DEF core
<1>2. /\ \A h \in Handlers : Serving(h)' = Serving(h)
      /\ Payload' = Payload /\ Saving' = Saving
  BY <1>1 DEF Serving, Payload, Sanitized, Saving
<1>3. EntriesOfTurn'
  BY <1>1, <1>2 DEF IInv, Claims, EntriesOfTurn, OfTurn
<1>4. HeldOnce' /\ HeldIsSaved'
  BY <1>1, <1>2 DEF IInv, Claims, HeldOnce, HeldIsSaved, Others
<1>5. RanIsGone' /\ AtMostOnce' /\ NoSpareSnapshot' /\ FileIsCurrent'
  BY <1>1, <1>2 DEF IInv, Claims, RanIsGone, AtMostOnce, NoSpareSnapshot, FileIsCurrent
<1>6. SavesAreCurrent'
  BY <1>1, <1>2 DEF IInv, Claims, SavesAreCurrent, Sanitized
<1> QED BY <1>3, <1>4, <1>5, <1>6 DEF Claims

\* What the handler does after Return, and whom the others serve.
LEMMA ReturnClears ==
  ASSUME TypeOK, NEW h \in Handlers, NEW how, Return(h, how)
  PROVE  /\ GoTo(h, "idle")
         /\ held'[h].call = 0 /\ \A g \in Others(h) : held'[g] = held[g]
         /\ \A g \in Others(h) : Serving(g)' = Serving(g)
<1>1. GoTo(h, "idle") /\ held' = [held EXCEPT ![h] = Empty]
      /\ (h # EventLoop => job' = job)
  BY DEF Return
<1> QED BY <1>1, EmptyTyped DEF TypeOK, Others, Serving
\* A handler's step keeps the claims.
LEMMA HandlerKeeps ==
  ASSUME IInv, TypeOK', NEW h \in Handlers, HandlerStep(h)
  PROVE  Claims'
<1>0. TypeOK /\ JobAndCard /\ Others(h) \subseteq Handlers /\ h \notin Others(h)
  BY DEF IInv, Others
<1>a. pc[h] \notin {"save", "truncate", "write", "run"} => held[h].call = 0
  BY DEF IInv, Claims, HeldOnce
<1> USE <1>0 DEF history, surfaces
<1>1. ASSUME NEW destructive \in BOOLEAN, NEW preset \in BOOLEAN, NEW lossy \in BOOLEAN,
             Author(h, destructive, preset, lossy)
      PROVE  Claims'
  <2> DEFINE m == [turn |-> Serving(h), destructive |-> destructive, preset |-> preset,
                   lossy |-> lossy]
  <2>1. Serving(h) \in Turns /\ held[h].call = 0
    BY <1>1, <1>a, ServingTyped DEF Author
  <2>2. PICK e \in Entry : e = [call |-> Len(calls) + 1, exact |-> TRUE,
                                     confirmed |-> preset]
    <3>1. Len(calls) + 1 \in 0..MaxCalls
      BY <1>1, ConstantsAssumption DEF Author, TypeOK
    <3> QED BY <3>1 DEF Entry
  <2>3. /\ calls' = Append(calls, m) /\ m \in Call
        /\ Put(h, Serving(h), e) /\ SaveThen(h, IF autoMarvex THEN "pop" ELSE "alert")
        /\ UNCHANGED <<disk, snap, runs, crashes, job, held>>
    <3>1. m \in Call
      BY <2>1 DEF Call
    <3>2. Put(h, Serving(h), [call |-> Len(calls) + 1, exact |-> TRUE, confirmed |-> preset])
      BY <1>1 DEF Author
    <3>3. Put(h, Serving(h), e)
      BY <2>2, <3>2
    <3>4. calls' = Append(calls, m) /\ UNCHANGED <<disk, snap, runs, crashes, job, held>>
      BY <1>1 DEF Author
    <3>5. SaveThen(h, IF autoMarvex THEN "pop" ELSE "alert")
      BY <1>1 DEF Author
    <3> QED BY <3>1, <3>3, <3>4, <3>5
  <2>4. /\ Len(calls') = Len(calls) + 1
        /\ \A c \in 1..Len(calls) : calls'[c] = calls[c]
        /\ calls'[Len(calls) + 1].turn = Serving(h)
        /\ e.call = Len(calls) + 1 /\ Len(calls) \in Nat
    BY <2>2, <2>3 DEF TypeOK, Empty
  <2>5. /\ pc[h] \in {"loop", "pop", "run"} /\ pc' = [pc EXCEPT ![h] = "save"]
        /\ \A g \in Others(h) : held'[g] = held[g] /\ after'[g] = after[g]
    BY <1>1, <2>3 DEF Author, SaveThen, GoTo, TypeOK
  <2>6. held'[h].call = 0 /\ e.call > Len(calls) /\ e.call <= Len(calls')
    BY <2>1, <2>3, <2>4
  <2> QED BY <2>1, <2>3, <2>4, <2>5, <2>6, StashKeeps
<1>2. CASE LoopEnds(h)
  <2>1. PICK how : Return(h, how)
    BY <1>2 DEF LoopEnds
  <2> QED BY <1>2, <2>1, ReturnClears, ClearKeeps DEF LoopEnds
<1>3. CASE Snapshot(h) \/ Truncate(h) \/ Write(h) \/ SaveFails(h)
  BY <1>3, SaveKeeps
<1>4. CASE SnapshotRaises(h)
  BY <1>4, ReturnClears, ClearKeeps DEF SnapshotRaises
<1>5. CASE Alert(h)
  <2>1. \A g \in Others(h) : Serving(g)' = Serving(g)
    BY <1>5 DEF Alert, Serving
  <2> QED BY <1>5, <1>a, <2>1, ClearKeeps DEF Alert
<1>6. CASE Ask(h)
  BY <1>6, ReturnClears, ClearKeeps DEF Ask
<1>7. CASE Pop(h)
  <2>1. Serving(h) \in Turns /\ Empty \in Entry /\ Empty.call = 0
    BY <1>7, ServingTyped, EmptyTyped DEF Pop
  <2>2. held'[h] = stash[Serving(h)]
    BY <1>7 DEF Pop, TypeOK
  <2>3. /\ pc[h] \in {"loop", "pop", "run"} /\ pc' = [pc EXCEPT ![h] = "save"]
        /\ \A g \in Others(h) : held'[g] = held[g] /\ after'[g] = after[g]
        /\ after'[h] = "run"
    BY <1>7 DEF Pop, SaveThen, GoTo, TypeOK
  <2>4. Put(h, Serving(h), Empty) /\ UNCHANGED <<disk, snap, runs, crashes, job, calls>>
    BY <1>7 DEF Pop
  <2> QED BY <2>1, <2>2, <2>3, <2>4, StashKeeps
<1>8. CASE Missing(h)
  BY <1>8, ReturnClears, ClearKeeps DEF Missing
<1>9. CASE NeedsSecond(h)
  <2>1. PICK e \in Entry : e = [held[h] EXCEPT !.confirmed = TRUE] /\ e.call = held[h].call
    <3>1. held[h] \in Entry
      BY DEF TypeOK
    <3>2. /\ [held[h] EXCEPT !.confirmed = TRUE] \in Entry
          /\ [held[h] EXCEPT !.confirmed = TRUE].call = held[h].call
      BY <3>1 DEF Entry
    <3> QED BY <3>2
  <2>2. Serving(h) \in Turns /\ held'[h].call = 0
    BY <1>9, ServingTyped, EmptyTyped DEF NeedsSecond, TypeOK
  <2>3. e.call # 0 => e.call <= Len(calls) /\ calls[e.call].turn = Serving(h)
    BY <2>1 DEF IInv, Claims, EntriesOfTurn, OfTurn
  <2>4. /\ pc[h] \in {"loop", "pop", "run"} /\ pc' = [pc EXCEPT ![h] = "save"]
        /\ \A g \in Others(h) : held'[g] = held[g] /\ after'[g] = after[g]
    BY <1>9 DEF NeedsSecond, SaveThen, GoTo, TypeOK
  <2>5. Put(h, Serving(h), e) /\ UNCHANGED <<disk, snap, runs, crashes, job, calls>>
    BY <1>9, <2>1 DEF NeedsSecond
  <2> QED BY <2>1, <2>2, <2>3, <2>4, <2>5, StashKeeps
<1>10. CASE Run(h) \/ RunRefused(h)
  <2>1. held'[h].call = 0 /\ \A g \in Others(h) : held'[g] = held[g]
    BY <1>10, EmptyTyped DEF Run, RunRefused, TypeOK, Others
  <2>2. \A g \in Others(h) : Serving(g)' = Serving(g)
    BY <1>10 DEF Run, RunRefused, Serving
  <2> QED BY <1>10, <2>1, <2>2, ClearKeeps DEF Run, RunRefused
<1>11. CASE RunRaises(h)
  BY <1>11, ReturnClears, ClearKeeps DEF RunRaises
<1> QED
  BY <1>1, <1>2, <1>3, <1>4, <1>5, <1>6, <1>7, <1>8, <1>9, <1>10, <1>11 DEF HandlerStep

\* Every step keeps the inductive invariant.
LEMMA NextKeeps == IInv /\ [Next]_vars => IInv'
<1> SUFFICES ASSUME IInv, [Next]_vars PROVE IInv'
  OBVIOUS
<1>1. TypeOK' /\ JobAndCard'
  BY HandlerTyped, RestTyped DEF IInv
<1> USE <1>1 DEF history, surfaces
<1>2. CASE \E h \in Handlers : HandlerStep(h)
  BY <1>2, HandlerKeeps DEF IInv
<1>3. ASSUME NEW r \in inbox, Accept(r)
      PROVE  Claims'
  <2>1. /\ EventLoop \in Handlers /\ held[EventLoop].call = 0
        /\ \A g \in Others(EventLoop) : Serving(g)' = Serving(g)
    BY <1>3 DEF Accept, Handlers, Others, Serving, IInv, Claims, HeldOnce
  <2> QED BY <1>3, <2>1, ClearKeeps DEF Accept
<1>4. ASSUME NEW t \in Turns, Send(t)
      PROVE  Claims'
  <2>1. t \in Handlers /\ held[t].call = 0
    BY <1>4 DEF Send, Handlers, IInv, Claims, HeldOnce
  <2>2. \A g \in Others(t) : Serving(g)' = Serving(g)
    BY <1>4 DEF Send, Serving
  <2> QED BY <1>4, <2>1, <2>2, ClearKeeps DEF Send
<1>5. CASE CrashAndRestart
  BY <1>5, CrashKeeps DEF IInv
<1>6. ASSUME \/ \E r \in inbox : Refuse(r) \/ Divert(r)
             \/ \E t \in Turns : WebDecide(t)
             \/ Stop \/ IslandShow \/ IslandResume \/ IslandDismiss
             \/ \E t \in Turns, d \in Decisions : ChatDecide(t, d)
             \/ \E d \in Decisions : IslandDecide(d)
             \/ UNCHANGED vars
      PROVE  Claims'
  <2>1. UNCHANGED <<core, disk, calls, runs, crashes, unsaved>>
    BY <1>6 DEF Refuse, Divert, WebDecide, Stop, IslandShow, IslandResume,
                IslandDismiss, ChatDecide, IslandDecide, vars, core
  <2> QED BY <2>1, SurfaceKeeps
<1> QED BY <1>1, <1>2, <1>3, <1>4, <1>5, <1>6 DEF Next, IInv

LEMMA InitEstablishes == Init => IInv
<1> SUFFICES ASSUME Init PROVE IInv
  OBVIOUS
<1> USE EmptyTyped, ConstantsAssumption DEF Init
<1>1. TypeOK
  <2>1. /\ stash \in [Turns -> Entry] /\ disk \in [Turns -> Entry]
        /\ asked \in [Turns -> Entry] /\ snap \in [Handlers -> [Turns -> Entry]]
        /\ held \in [Handlers -> Entry]
    OBVIOUS
  <2>2. /\ store \in Seq(Turns) /\ calls \in Seq(Call) /\ Len(calls) <= MaxCalls
        /\ runs \in Seq([entry : Entry, about : Entry])
    OBVIOUS
  <2>3. clicks \in 0..MaxClicks /\ crashes \in 0..MaxCrashes
    OBVIOUS
  <2> QED BY <2>1, <2>2, <2>3 DEF TypeOK
<1>2. JobAndCard
  BY DEF JobAndCard, Handlers
<1>3. EntriesOfTurn /\ HeldOnce /\ HeldIsSaved /\ RanIsGone /\ NoSpareSnapshot /\ AtMostOnce
  BY NothingSanitized
  DEF EntriesOfTurn, OfTurn, HeldOnce, HeldIsSaved, RanIsGone, NoSpareSnapshot, AtMostOnce
<1>4. SavesAreCurrent /\ FileIsCurrent
  <2>1. Payload = Nothing
    BY NothingSanitized DEF Payload, Nothing
  <2> QED BY <2>1, NothingSanitized DEF SavesAreCurrent, FileIsCurrent, Handlers
<1> QED BY <1>1, <1>2, <1>3, <1>4 DEF IInv, Claims

LEMMA Invariance == Spec => []IInv
BY InitEstablishes, NextKeeps, PTL DEF Spec

\* The variables of the agentic turns, the stash, its file and the approval
\* surfaces hold what their comments say.
THEOREM TypeCorrect == Spec => []TypeOK
<1>1. IInv => TypeOK
  BY DEF IInv
<1> QED BY <1>1, Invariance, PTL

\* However turns, resumes, saves and crashes interleave, the tool worker runs a
\* call at most once, unless a save was lost before a crash
\* (_run_approval_path pops the stash and saves it before it asks the worker).
THEOREM RunsAtMostOnce == Spec => []AtMostOnce
<1>1. IInv => AtMostOnce
  BY DEF IInv, Claims
<1> QED BY <1>1, Invariance, PTL

\* When no save is under way and none was lost, a restart finds in the file the
\* calls that were waiting, and no other one (save_pending_automation_state).
THEOREM FileFollowsStash == Spec => []FileIsCurrent
<1>1. IInv => FileIsCurrent
  BY DEF IInv, Claims
<1> QED BY <1>1, Invariance, PTL

-----------------------------------------------------------------------------
(* The approvals behind a run                                              *)

\* By the approvals in A: some decision popped call c; two decisions did.
Once(A, c) == \E n \in 1..MaxClicks : <<c, n>> \in A
Twice(A, c) == \E m, n \in 1..MaxClicks : m # n /\ <<c, m>> \in A /\ <<c, n>> \in A

\* The decisions behind the calls; what the model wrote itself is decision 0.
Preset == {c \in DOMAIN calls : calls[c].preset}
Behind == approved \cup (Preset \X {0})

\* Some decision of A, the model's included, is for call c; two are.
Given(A, c) == \E n \in 0..MaxClicks : <<c, n>> \in A
Both(A, c) == \E m, n \in 0..MaxClicks : m # n /\ <<c, m>> \in A /\ <<c, n>> \in A

\* An entry whose arguments carry the approval was popped before, or authored so.
Marked(A, e) == e.confirmed => Given(A, e.call)

\* What a claimed entry has behind it.
Cleared(A, e) == Once(A, e.call) /\ (e.confirmed => Both(A, e.call))

\* Outside Auto Marvex only the event loop pops, for a decision.
LoopPops ==
  \A h \in Handlers :
    /\ after[h] # "pop"
    /\ pc[h] = "pop" => h = EventLoop

\* A decision is on its way, or being served, or has popped its one call.
DecisionsFresh ==
  /\ \A r \in inbox : /\ r.click \in 1..clicks
                      /\ \A s \in inbox : s.click = r.click => s = r
                      /\ \A a \in approved : a[2] # r.click
                      /\ pc[EventLoop] = "pop" => job.click # r.click
  /\ pc[EventLoop] = "pop" => /\ job.click \in 1..clicks
                              /\ \A a \in approved : a[2] # job.click
  /\ \A a \in approved : a[2] \in 1..clicks
  /\ \A a, b \in approved : a[2] = b[2] => a[1] = b[1]

\* The entries in memory, in the file and in the saves under way.
EntriesMarked ==
  /\ \A t \in Turns : Marked(Behind, stash[t]) /\ Marked(Behind, disk[t])
  /\ \A h \in Handlers, t \in Turns : Marked(Behind, snap[h][t])
  /\ \A h \in Handlers : held[h].call # 0 => Cleared(Behind, held[h])

\* Each call that ran was popped by a decision, one that asks twice by two.
RunsCleared ==
  \A i \in DOMAIN runs :
    LET c == runs[i].entry.call
    IN  Once(approved, c) /\ (AsksTwice(calls[c]) => Twice(approved, c))

\* The inductive strengthening of RunsAreApproved.
AInv == ~autoMarvex => LoopPops /\ DecisionsFresh /\ EntriesMarked /\ RunsCleared

\* More approvals clear no less.
LEMMA ClearedGrows ==
  ASSUME NEW A, NEW B, A \subseteq B, NEW e
  PROVE  /\ Marked(A, e) => Marked(B, e)
         /\ Cleared(A, e) => Cleared(B, e)
         /\ Once(A, e) => Once(B, e)
         /\ Twice(A, e) => Twice(B, e)
BY DEF Marked, Cleared, Once, Twice, Given, Both

\* Where nothing is authored or approved, the same decisions are behind the calls.
LEMMA BehindStays == UNCHANGED <<calls, approved>> => Behind' = Behind
BY DEF Behind, Preset

\* Sanitizing leaves the approval in the arguments.
LEMMA SanitizedMarked ==
  ASSUME NEW A, NEW e \in Entry, Marked(A, e)
  PROVE  Marked(A, Sanitized(e))
BY DEF Marked, Sanitized, Entry

\* No entry, no approval in it.
LEMMA EmptyMarked ==
  ASSUME NEW A
  PROVE  Marked(A, Empty) /\ \A t \in Turns : Marked(A, Nothing[t])
BY DEF Marked, Empty, Nothing

\* A step that serves no decision and approves nothing keeps decisions fresh.
LEMMA FreshStays ==
  ASSUME DecisionsFresh, inbox' \subseteq inbox, UNCHANGED <<clicks, approved>>,
         pc'[EventLoop] = "pop" => pc[EventLoop] = "pop" /\ job' = job
  PROVE  DecisionsFresh'
BY DEF DecisionsFresh

\* Runs stay cleared as calls and approvals are added.
LEMMA RunsStay ==
  ASSUME IInv, RunsCleared, approved \subseteq approved', UNCHANGED runs,
         \A c \in 1..Len(calls) : calls'[c] = calls[c]
  PROVE  RunsCleared'
<1>1. \A i \in DOMAIN runs : runs[i].entry.call \in 1..Len(calls)
  BY DEF IInv, Claims, EntriesOfTurn
<1>2. ASSUME NEW i \in DOMAIN runs
      PROVE  LET c == runs[i].entry.call
             IN  Once(approved', c) /\ (AsksTwice(calls'[c]) => Twice(approved', c))
  <2> DEFINE c == runs[i].entry.call
  <2>1. Once(approved, c) /\ (AsksTwice(calls[c]) => Twice(approved, c)) /\ calls'[c] = calls[c]
    BY <1>1 DEF RunsCleared
  <2>2. Once(approved', c) /\ (Twice(approved, c) => Twice(approved', c))
    BY <2>1 DEF Once, Twice
  <2> QED BY <2>1, <2>2
<1> QED BY <1>2 DEF RunsCleared

\* What Return leaves to a handler.
LEMMA ReturnFresh ==
  ASSUME IInv, NEW h \in Handlers, NEW how, Return(h, how), DecisionsFresh, LoopPops, EntriesMarked,
         UNCHANGED <<inbox, clicks, calls, approved, after, stash, disk, snap>>
  PROVE  DecisionsFresh' /\ LoopPops' /\ EntriesMarked'
<1>1. /\ pc'[h] = "idle" /\ \A g \in Handlers : g # h => pc'[g] = pc[g] /\ held'[g] = held[g]
      /\ held'[h] = Empty /\ (h = EventLoop \/ job' = job)
  BY DEF Return, GoTo, IInv, TypeOK
<1>2. DecisionsFresh'
  BY <1>1, FreshStays DEF Handlers
<1>3. LoopPops'
  BY <1>1 DEF LoopPops
<1>4. EntriesMarked'
  BY <1>1, BehindStays DEF EntriesMarked, Empty
<1> QED BY <1>2, <1>3, <1>4

\* Putting a marked entry back keeps the entries marked.
LEMMA PutMarked ==
  ASSUME IInv, NEW h, NEW t \in Turns, NEW e, Put(h, t, e), EntriesMarked, Behind \subseteq Behind',
         Marked(Behind', e), UNCHANGED <<disk, snap>>
  PROVE  /\ \A u \in Turns : Marked(Behind', stash'[u]) /\ Marked(Behind', disk'[u])
         /\ \A g \in Handlers, u \in Turns : Marked(Behind', snap'[g][u])
<1>1. stash'[t] = e /\ \A u \in Turns : u # t => stash'[u] = stash[u]
  BY DEF Put, IInv, TypeOK
<1> QED BY <1>1, ClearedGrows DEF EntriesMarked

\* A handler's step other than a pop, a second question and a run.
LEMMA PlainApproved ==
  ASSUME IInv, ~autoMarvex, LoopPops, DecisionsFresh, EntriesMarked, NEW h \in Handlers,
         \/ \E destructive, preset, lossy \in BOOLEAN : Author(h, destructive, preset, lossy)
         \/ LoopEnds(h) \/ Snapshot(h) \/ SnapshotRaises(h) \/ Truncate(h) \/ Write(h)
         \/ SaveFails(h) \/ Alert(h) \/ Ask(h) \/ Missing(h) \/ RunRefused(h)
  PROVE  LoopPops' /\ DecisionsFresh' /\ EntriesMarked'
<1> USE DEF IInv
<1>1. CASE \E destructive, preset, lossy \in BOOLEAN : Author(h, destructive, preset, lossy)
  <2>0. PICK destructive \in BOOLEAN, preset \in BOOLEAN, lossy \in BOOLEAN :
          Author(h, destructive, preset, lossy)
    BY <1>1
  <2> DEFINE z == Len(calls) + 1
             e == [call |-> z, exact |-> TRUE, confirmed |-> preset]
  <2>1. Put(h, Serving(h), e) /\ UNCHANGED <<approved, disk, snap, held>> /\ pc[h] = "loop"
    BY <2>0 DEF Author
  <2>a. /\ DOMAIN calls \subseteq DOMAIN calls' /\ z \in DOMAIN calls'
        /\ \A c \in DOMAIN calls : calls'[c] = calls[c]
        /\ calls'[z].preset = preset
    BY <2>0 DEF Author, TypeOK
  <2>b. Behind \subseteq Behind' /\ (preset => <<z, 0>> \in Behind')
    BY <2>1, <2>a DEF Behind, Preset
  <2>2. Marked(Behind', e)
    BY <2>b, ConstantsAssumption DEF Marked, Given
  <2>c. \A g \in Handlers : held[g].call # 0 => Cleared(Behind', held[g])
    BY <2>b, ClearedGrows DEF EntriesMarked
  <2>3. EntriesMarked'
    BY <2>1, <2>2, <2>b, <2>c, PutMarked, ServingTyped DEF EntriesMarked
  <2>4. /\ after' = [after EXCEPT ![h] = "alert"] /\ pc' = [pc EXCEPT ![h] = "save"]
        /\ UNCHANGED <<inbox, clicks, approved, job>>
    BY <1>1 DEF Author, SaveThen, GoTo
  <2>5. LoopPops' /\ (pc'[EventLoop] = "pop" => pc[EventLoop] = "pop")
    BY <2>4 DEF LoopPops, TypeOK, Handlers
  <2> QED BY <2>3, <2>4, <2>5, FreshStays
<1>2. CASE LoopEnds(h)
  BY <1>2, ReturnFresh DEF LoopEnds, history
<1>3. CASE Snapshot(h)
  <2>1. LoopPops' /\ DecisionsFresh'
    BY <1>3, FreshStays DEF Snapshot, GoTo, LoopPops, TypeOK, Handlers, history
  <2>2. \A t \in Turns : Marked(Behind, Payload[t])
    BY SanitizedMarked DEF Payload, EntriesMarked, TypeOK
  <2>3. \A g \in Handlers : snap'[g] = IF g = h THEN Payload ELSE snap[g]
    BY <1>3 DEF Snapshot, TypeOK
  <2>4. EntriesMarked'
    BY <1>3, <2>2, <2>3, BehindStays DEF Snapshot, EntriesMarked, history
  <2> QED BY <2>1, <2>4
<1>4. CASE SnapshotRaises(h)
  BY <1>4, ReturnFresh DEF SnapshotRaises
<1>5. CASE Truncate(h)
  <2>1. LoopPops' /\ DecisionsFresh'
    BY <1>5, FreshStays DEF Truncate, GoTo, LoopPops, TypeOK, Handlers, history
  <2>2. EntriesMarked'
    BY <1>5, EmptyMarked, BehindStays DEF Truncate, EntriesMarked, history
  <2> QED BY <2>1, <2>2
<1>6. CASE Write(h) \/ SaveFails(h)
  <2>1. /\ snap' = [snap EXCEPT ![h] = Nothing] /\ pc' = [pc EXCEPT ![h] = after[h]]
        /\ UNCHANGED <<stash, after, held, job, inbox, clicks, calls, approved>>
    BY <1>6 DEF Write, SaveFails, GoTo
  <2>2. LoopPops' /\ DecisionsFresh'
    BY <2>1, FreshStays DEF LoopPops, TypeOK, Handlers
  <2>3. disk' \in {disk, snap[h], Nothing}
    BY <1>6 DEF Write, SaveFails
  <2>4. \A t \in Turns : Marked(Behind, disk'[t])
    BY <2>3, EmptyMarked DEF EntriesMarked
  <2>5. \A g \in Handlers, t \in Turns : Marked(Behind, snap'[g][t])
    BY <2>1, EmptyMarked DEF EntriesMarked, TypeOK
  <2> QED BY <2>1, <2>2, <2>4, <2>5, BehindStays DEF EntriesMarked
<1>7. CASE Alert(h)
  BY <1>7, FreshStays, BehindStays
  DEF Alert, GoTo, LoopPops, TypeOK, Handlers, EntriesMarked, history
<1>8. CASE Ask(h)
  BY <1>8, ReturnFresh DEF Ask
<1>9. CASE Missing(h)
  BY <1>9, ReturnFresh DEF Missing, history
<1>10. CASE RunRefused(h)
  <2>1. LoopPops' /\ DecisionsFresh'
    BY <1>10, FreshStays DEF RunRefused, GoTo, LoopPops, TypeOK, Handlers, history
  <2>2. EntriesMarked'
    BY <1>10, BehindStays DEF RunRefused, EntriesMarked, TypeOK, Empty, history
  <2> QED BY <2>1, <2>2
<1> QED
  BY <1>1, <1>2, <1>3, <1>4, <1>5, <1>6, <1>7, <1>8, <1>9, <1>10

\* A pop spends its decision on the call it claims.
LEMMA PopApproved ==
  ASSUME IInv, AInv, ~autoMarvex, NEW h \in Handlers, Pop(h)
  PROVE  AInv'
<1> DEFINE t == Serving(h) e == stash[t] n == job.click
<1>1. /\ pc[h] = "pop" /\ h = EventLoop /\ t \in Turns /\ e \in Entry
      /\ n \in 1..clicks /\ n \in 1..MaxClicks
      /\ \A a \in approved : a[2] # n
      /\ LoopPops /\ DecisionsFresh /\ EntriesMarked /\ RunsCleared
  <2>1. pc[h] = "pop" /\ LoopPops /\ DecisionsFresh /\ EntriesMarked /\ RunsCleared
    BY DEF Pop, AInv
  <2>2. h = EventLoop /\ t \in Turns /\ e \in Entry
    BY <2>1, ServingTyped DEF LoopPops, IInv, TypeOK
  <2>3. n \in 1..clicks /\ \A a \in approved : a[2] # n
    BY <2>1, <2>2 DEF DecisionsFresh
  <2>4. n \in 1..MaxClicks
    BY <2>3, ConstantsAssumption DEF IInv, TypeOK
  <2> QED BY <2>1, <2>2, <2>3, <2>4
<1>2. /\ Put(h, t, Empty) /\ held' = [held EXCEPT ![h] = e]
      /\ pc' = [pc EXCEPT ![h] = "save"] /\ after' = [after EXCEPT ![h] = "run"]
      /\ approved' = IF e.call = 0 THEN approved ELSE approved \cup {<<e.call, n>>}
      /\ UNCHANGED <<disk, snap, job, inbox, clicks, calls, runs>>
  BY <1>1 DEF Pop, SaveThen, GoTo
<1> HIDE DEF n
<1>3. approved \subseteq approved' /\ Behind \subseteq Behind'
  BY <1>2 DEF Behind, Preset
<1>4. LoopPops'
  BY <1>1, <1>2 DEF LoopPops, IInv, TypeOK
<1>5. DecisionsFresh'
  <2>1. pc'[EventLoop] # "pop"
    BY <1>1, <1>2 DEF IInv, TypeOK
  <2>2. \A r \in inbox : r.click # n
    BY <1>1 DEF DecisionsFresh, n
  <2>3. \A a \in approved' : a \in approved \/ a = <<e.call, n>>
    BY <1>2
  <2> QED BY <1>1, <1>2, <2>1, <2>2, <2>3 DEF DecisionsFresh
<1>6. e.call # 0 => Cleared(Behind', e)
  <2> SUFFICES ASSUME e.call # 0 PROVE Cleared(Behind', e)
    OBVIOUS
  <2>1. <<e.call, n>> \in Behind' /\ <<e.call, n>> \notin Behind
    BY <1>1, <1>2 DEF Behind
  <2>2. e.confirmed => \E m \in 0..MaxClicks : <<e.call, m>> \in Behind
    BY <1>1 DEF EntriesMarked, Marked, Given
  <2>3. n \in 0..MaxClicks
    BY <1>1
  <2> QED BY <1>1, <1>3, <2>1, <2>2, <2>3 DEF Cleared, Once, Both
<1>7. EntriesMarked'
  <2>1. /\ \A u \in Turns : Marked(Behind', stash'[u]) /\ Marked(Behind', disk'[u])
        /\ \A g \in Handlers, u \in Turns : Marked(Behind', snap'[g][u])
    BY <1>1, <1>2, <1>3, EmptyMarked, PutMarked
  <2>2. \A g \in Handlers : held'[g] = IF g = h THEN e ELSE held[g]
    BY <1>2 DEF IInv, TypeOK
  <2>3. \A g \in Handlers : held'[g].call # 0 => Cleared(Behind', held'[g])
    BY <1>1, <1>3, <1>6, <2>2, ClearedGrows DEF EntriesMarked
  <2> QED BY <2>1, <2>3 DEF EntriesMarked
<1>8. RunsCleared'
  BY <1>1, <1>2, <1>3, RunsStay
<1> QED BY <1>4, <1>5, <1>7, <1>8 DEF AInv

\* A second question marks the entry of a call that one decision popped.
LEMMA SecondApproved ==
  ASSUME IInv, AInv, ~autoMarvex, NEW h \in Handlers, NeedsSecond(h)
  PROVE  AInv'
<1> DEFINE t == Serving(h) e == [held[h] EXCEPT !.confirmed = TRUE]
<1>1. /\ LoopPops /\ DecisionsFresh /\ EntriesMarked /\ RunsCleared
      /\ t \in Turns /\ held[h] \in Entry /\ Cleared(Behind, held[h])
  BY ServingTyped DEF NeedsSecond, AInv, IInv, TypeOK, EntriesMarked
<1>2. /\ Put(h, t, e) /\ held' = [held EXCEPT ![h] = Empty]
      /\ pc' = [pc EXCEPT ![h] = "save"] /\ after' = [after EXCEPT ![h] = "ask"]
      /\ UNCHANGED <<disk, snap, job, inbox, clicks, calls, runs, approved>>
  BY DEF NeedsSecond, SaveThen, GoTo
<1>3. LoopPops' /\ DecisionsFresh'
  BY <1>1, <1>2, FreshStays DEF LoopPops, IInv, TypeOK, Handlers
<1>4. Marked(Behind, e)
  BY <1>1 DEF Marked, Cleared, Entry, Given, Once
<1>a. Behind' = Behind
  BY <1>2, BehindStays
<1>5. EntriesMarked'
  <2>1. \A g \in Handlers : held'[g].call # 0 => Cleared(Behind, held'[g])
    BY <1>1, <1>2 DEF EntriesMarked, IInv, TypeOK, Empty
  <2> QED BY <1>1, <1>2, <1>4, <1>a, <2>1, PutMarked DEF EntriesMarked
<1>6. RunsCleared'
  BY <1>1, <1>2, RunsStay
<1> QED BY <1>3, <1>5, <1>6 DEF AInv

\* The decisions of the user behind a call that the worker does not ask about.
LEMMA HeldBacked ==
  ASSUME IInv, ~autoMarvex, DecisionsFresh, EntriesMarked, NEW h \in Handlers,
         held[h].call # 0, ~WantsSecond(held[h])
  PROVE  /\ Once(approved, held[h].call)
         /\ AsksTwice(calls[held[h].call]) => Twice(approved, held[h].call)
<1> DEFINE c == held[h].call
<1>1. Cleared(Behind, held[h])
  BY DEF EntriesMarked
<1>2. \A n \in 0..MaxClicks :
        <<c, n>> \in Behind => <<c, n>> \in approved \/ (n = 0 /\ c \in Preset)
  BY DEF Behind
<1>3. \A n \in 0..MaxClicks : <<c, n>> \in approved => n \in 1..MaxClicks
  BY ConstantsAssumption DEF DecisionsFresh, IInv, TypeOK
<1>4. Once(approved, c)
  <2>1. PICK n \in 1..MaxClicks : <<c, n>> \in Behind
    BY <1>1 DEF Cleared, Once
  <2>2. <<c, n>> \in approved
    BY <1>2, <2>1
  <2> QED BY <2>2 DEF Once
<1>5. ASSUME AsksTwice(calls[c]) PROVE Twice(approved, c)
  <2>1. held[h].confirmed /\ c \notin Preset
    BY <1>5 DEF AsksTwice, WantsSecond, Preset
  <2>2. PICK m, n \in 0..MaxClicks : m # n /\ <<c, m>> \in Behind /\ <<c, n>> \in Behind
    BY <1>1, <2>1 DEF Cleared, Both
  <2>3. <<c, m>> \in approved /\ <<c, n>> \in approved
    BY <1>2, <2>1, <2>2
  <2> QED BY <1>3, <2>2, <2>3 DEF Twice
<1> QED BY <1>4, <1>5

\* One more run of a cleared call.
LEMMA RunCleared ==
  ASSUME IInv, ~autoMarvex, DecisionsFresh, EntriesMarked, RunsCleared, NEW h \in Handlers,
         pc[h] = "run", held[h].call # 0, ~WantsSecond(held[h]),
         runs' = Append(runs, RunOf(h)), UNCHANGED <<calls, approved>>
  PROVE  RunsCleared'
<1> DEFINE c == held[h].call z == Len(runs) + 1
<1>1. runs \in Seq([entry : Entry, about : Entry])
  BY DEF IInv, TypeOK
<1>2. RunOf(h).entry = held[h]
  BY DEF RunOf
<1>3. /\ DOMAIN runs' = 1..z /\ DOMAIN runs = 1..Len(runs) /\ Len(runs) \in Nat
      /\ runs'[z] = RunOf(h) /\ \A i \in 1..Len(runs) : runs'[i] = runs[i]
  BY <1>1
<1>4. Once(approved, c) /\ (AsksTwice(calls[c]) => Twice(approved, c))
  BY HeldBacked
<1>5. ASSUME NEW i \in DOMAIN runs'
      PROVE  LET k == runs'[i].entry.call
             IN  Once(approved, k) /\ (AsksTwice(calls[k]) => Twice(approved, k))
  <2>1. CASE i = z
    BY <1>2, <1>3, <1>4, <2>1
  <2>2. CASE i # z
    BY <1>3, <1>5, <2>2 DEF RunsCleared
  <2> QED BY <2>1, <2>2
<1> QED BY <1>5 DEF RunsCleared

\* A handler's step keeps what the approvals back.
LEMMA HandlerApproved ==
  ASSUME IInv, AInv, ~autoMarvex, NEW h \in Handlers, HandlerStep(h)
  PROVE  AInv'
<1>0. LoopPops /\ DecisionsFresh /\ EntriesMarked /\ RunsCleared
  BY DEF AInv
<1>1. CASE \/ \E destructive, preset, lossy \in BOOLEAN : Author(h, destructive, preset, lossy)
           \/ LoopEnds(h) \/ Snapshot(h) \/ SnapshotRaises(h) \/ Truncate(h) \/ Write(h)
           \/ SaveFails(h) \/ Alert(h) \/ Ask(h) \/ Missing(h) \/ RunRefused(h)
  <2>1. LoopPops' /\ DecisionsFresh' /\ EntriesMarked'
    BY <1>0, <1>1, PlainApproved
  <2>2. UNCHANGED <<runs, approved>>
    BY <1>1 DEF Author, LoopEnds, Snapshot, SnapshotRaises, Truncate, Write, SaveFails, Alert,
                Ask, Missing, RunRefused, history
  <2>3. \A c \in 1..Len(calls) : calls'[c] = calls[c]
    <3>1. calls \in Seq(Call)
      BY DEF IInv, TypeOK
    <3>2. calls' = calls \/ \E d, q, l \in BOOLEAN : calls' = Append(calls,
             [turn |-> Serving(h), destructive |-> d, preset |-> q, lossy |-> l])
      BY <1>1 DEF Author, LoopEnds, Snapshot, SnapshotRaises, Truncate, Write, SaveFails,
                  Alert, Ask, Missing, RunRefused, history
    <3>3. ASSUME NEW x, calls' = Append(calls, x), NEW c \in 1..Len(calls)
          PROVE  calls'[c] = calls[c]
      BY <3>1, <3>3
    <3> QED BY <3>2, <3>3
  <2> QED BY <1>0, <2>1, <2>2, <2>3, RunsStay DEF AInv
<1>2. CASE Pop(h)
  BY <1>2, PopApproved
<1>3. CASE NeedsSecond(h)
  BY <1>3, SecondApproved
<1>4. CASE Run(h)
  <2>1. RunsCleared'
    BY <1>0, <1>4, RunCleared DEF Run
  <2>2. LoopPops' /\ DecisionsFresh'
    BY <1>0, <1>4, FreshStays DEF Run, GoTo, LoopPops, IInv, TypeOK, Handlers
  <2>3. EntriesMarked'
    BY <1>0, <1>4, BehindStays DEF Run, EntriesMarked, IInv, TypeOK, Empty
  <2> QED BY <2>1, <2>2, <2>3 DEF AInv
<1>5. CASE RunRaises(h)
  <2>1. LoopPops' /\ DecisionsFresh' /\ EntriesMarked'
    BY <1>0, <1>5, ReturnFresh DEF RunRaises
  <2>2. RunsCleared'
    BY <1>0, <1>5, RunCleared, RunsStay DEF RunRaises
  <2> QED BY <2>1, <2>2 DEF AInv
<1> QED BY <1>1, <1>2, <1>3, <1>4, <1>5 DEF HandlerStep

\* A click is a decision of its own.
LEMMA ClickFresh ==
  ASSUME IInv, DecisionsFresh, NEW t, NEW d, NEW from, Click(t, d, from),
         UNCHANGED <<approved, pc, job>>
  PROVE  DecisionsFresh'
<1> DEFINE r == [turn |-> t, decision |-> d, from |-> from, click |-> clicks + 1,
                 about |-> asked[t]]
<1>1. /\ inbox' = inbox \cup {r} /\ r.click = clicks + 1
      /\ clicks' = clicks + 1 /\ clicks \in Nat
  BY ConstantsAssumption DEF Click, IInv, TypeOK
<1> HIDE DEF r
<1>2. \A n \in 1..clicks : n \in 1..clicks' /\ n # r.click
  BY <1>1
<1>3. r.click \in 1..clicks'
  BY <1>1
<1> QED BY <1>1, <1>2, <1>3 DEF DecisionsFresh

\* The other steps keep what the approvals back.
LEMMA RestApproved ==
  ASSUME IInv, AInv, ~autoMarvex, Next, ~\E h \in Handlers : HandlerStep(h)
  PROVE  AInv'
<1>0. LoopPops /\ DecisionsFresh /\ EntriesMarked /\ RunsCleared
  BY DEF AInv
<1>1. ASSUME NEW r \in inbox, Accept(r) PROVE AInv'
  <2>1. /\ pc' = [pc EXCEPT ![EventLoop] = "pop"] /\ job' = r /\ inbox' = inbox \ {r}
        /\ UNCHANGED <<stash, disk, snap, held, after, clicks, calls, runs, approved>>
    BY <1>1 DEF Accept, GoTo, history
  <2>2. LoopPops' /\ EntriesMarked' /\ RunsCleared'
    BY <1>0, <2>1, BehindStays
    DEF LoopPops, EntriesMarked, RunsCleared, IInv, TypeOK
  <2>3. DecisionsFresh'
    BY <1>0, <2>1 DEF DecisionsFresh
  <2> QED BY <2>2, <2>3 DEF AInv
<1>2. ASSUME NEW r \in inbox, Refuse(r) \/ Divert(r) PROVE AInv'
  <2>1. inbox' \subseteq inbox /\ UNCHANGED <<core, disk, clicks, calls, runs, approved>>
    BY <1>2 DEF Refuse, Divert, history
  <2> QED
    BY <1>0, <2>1, FreshStays, BehindStays
    DEF AInv, core, LoopPops, EntriesMarked, RunsCleared
<1>3. CASE CrashAndRestart
  <2>1. /\ \A h \in Handlers : pc'[h] # "pop" /\ held'[h] = Empty /\ snap'[h] = Nothing
        /\ inbox' = {} /\ stash' = [t \in Turns |-> Sanitized(disk[t])]
        /\ UNCHANGED <<disk, after, clicks, calls, runs, approved>>
    BY <1>3 DEF CrashAndRestart, history
  <2>2. \A t \in Turns : Marked(Behind, stash'[t])
    BY <1>0, <2>1, SanitizedMarked DEF EntriesMarked, IInv, TypeOK
  <2>3. EntriesMarked'
    BY <1>0, <2>1, <2>2, EmptyMarked, BehindStays DEF EntriesMarked, Empty
  <2>4. LoopPops' /\ DecisionsFresh' /\ RunsCleared'
    BY <1>0, <2>1 DEF LoopPops, DecisionsFresh, RunsCleared, Handlers
  <2> QED BY <2>3, <2>4 DEF AInv
<1>4. ASSUME NEW t \in Turns, Send(t) PROVE AInv'
  <2>1. /\ pc' = [pc EXCEPT ![t] = "loop"]
        /\ UNCHANGED <<stash, disk, snap, held, after, job, inbox, clicks, calls, runs, approved>>
    BY <1>4 DEF Send, GoTo, history
  <2> QED
    BY <1>0, <2>1, FreshStays, BehindStays
    DEF AInv, LoopPops, EntriesMarked, RunsCleared, IInv, TypeOK, Handlers
<1>5. CASE \/ \E t \in Turns, d \in Decisions : ChatDecide(t, d)
           \/ IslandResume
  <2>1. /\ \E t, d, from : Click(t, d, from)
        /\ UNCHANGED <<core, disk, calls, runs, approved>>
    BY <1>5 DEF ChatDecide, IslandResume, history
  <2>2. DecisionsFresh'
    BY <1>0, <2>1, ClickFresh DEF core
  <2> QED
    BY <1>0, <2>1, <2>2, BehindStays
    DEF AInv, core, LoopPops, EntriesMarked, RunsCleared
<1>6. CASE \/ \E t \in Turns : WebDecide(t)
           \/ Stop \/ IslandShow \/ IslandDismiss \/ \E d \in Decisions : IslandDecide(d)
  <2>1. UNCHANGED <<core, disk, inbox, clicks, calls, runs, approved>>
    BY <1>6 DEF WebDecide, Stop, IslandShow, IslandDismiss, IslandDecide, history
  <2> QED
    BY <1>0, <2>1, FreshStays, BehindStays
    DEF AInv, core, LoopPops, EntriesMarked, RunsCleared
<1> QED BY <1>1, <1>2, <1>3, <1>4, <1>5, <1>6 DEF Next

\* Decisions that are witnessed, counted.
LEMMA DecisionsCounted ==
  ASSUME NEW c
  PROVE  /\ Once(approved, c) => Cardinality(Clicks(c)) >= 1
         /\ Twice(approved, c) => Cardinality(Clicks(c)) >= 2
<1>1. IsFiniteSet(Clicks(c))
  <2>1. IsFiniteSet(1..MaxClicks) /\ Clicks(c) \subseteq 1..MaxClicks
    BY FS_Interval, ConstantsAssumption DEF Clicks
  <2> QED BY <2>1, FS_Subset
<1>2. ASSUME Once(approved, c) PROVE Cardinality(Clicks(c)) >= 1
  <2>1. Clicks(c) # {}
    BY <1>2 DEF Once, Clicks
  <2> QED BY <1>1, <2>1, FS_EmptySet, FS_CardinalityType
<1>3. ASSUME Twice(approved, c) PROVE Cardinality(Clicks(c)) >= 2
  <2>1. PICK m, n \in 1..MaxClicks : m # n /\ <<c, m>> \in approved /\ <<c, n>> \in approved
    BY <1>3 DEF Twice
  <2>2. {m, n} \subseteq Clicks(c)
    BY <2>1 DEF Clicks
  <2>3. Cardinality({m, n}) = 2
    <3>1. /\ Cardinality({m}) = 1 /\ IsFiniteSet({m}) /\ {m, n} = {m} \cup {n}
          /\ n \notin {m}
      BY <2>1, FS_Singleton
    <3>2. Cardinality({m} \cup {n}) = Cardinality({m}) + 1
      BY <3>1, FS_AddElement
    <3> QED BY <3>1, <3>2
  <2>4. Cardinality({m, n}) <= Cardinality(Clicks(c)) /\ Cardinality(Clicks(c)) \in Nat
    BY <1>1, <2>2, FS_Subset, FS_CardinalityType
  <2> QED BY <2>3, <2>4
<1> QED BY <1>2, <1>3

\* What an invariant says of witnesses, RunsAreApproved says of numbers.
LEMMA ApprovedCounts ==
  ASSUME AInv
  PROVE  RunsAreApproved
BY DecisionsCounted DEF AInv, DecisionsFresh, RunsCleared, RunsAreApproved

\* The policy stays what it was when the process started.
LEMMA PolicyStays == [Next]_vars => autoMarvex' = autoMarvex
BY DEF vars, Next, HandlerStep, Author, LoopEnds, Snapshot, SnapshotRaises, Truncate,
       Write, SaveFails, Alert, Ask, Pop, Missing, NeedsSecond, Run, RunRefused, RunRaises,
       Accept, Refuse, Divert, CrashAndRestart, Send, WebDecide, Stop, ChatDecide,
       IslandShow, IslandResume, IslandDismiss, IslandDecide

\* The approvals behind what runs, in every reachable state.
LEMMA ApprovalsBack == Spec => []AInv
<1>1. Init => AInv
  BY DEF Init, AInv, LoopPops, DecisionsFresh, EntriesMarked, RunsCleared, Marked, Empty,
         Nothing, Handlers
<1>2. IInv /\ AInv /\ [Next]_vars => AInv'
  <2> SUFFICES ASSUME IInv, AInv, [Next]_vars PROVE AInv'
    OBVIOUS
  <2>1. CASE UNCHANGED vars
    BY <2>1, BehindStays
    DEF vars, AInv, LoopPops, DecisionsFresh, EntriesMarked, RunsCleared
  <2>2. CASE Next /\ autoMarvex
    BY <2>2, PolicyStays DEF AInv
  <2>3. CASE Next /\ ~autoMarvex
    BY <2>3, HandlerApproved, RestApproved
  <2> QED BY <2>1, <2>2, <2>3
<1> QED BY <1>1, <1>2, Invariance, PTL DEF Spec

\* Unless the policy is Auto Marvex, a call that runs was popped by a decision of the user,
\* a destructive one by two if the model did not write the second into its arguments, and
\* no decision pops two calls (_run_approval_path), whatever order resumes, saves, crashes
\* and restarts come in.
THEOREM RunsNeedApproval == Spec => []RunsAreApproved
<1>1. AInv => RunsAreApproved
  BY ApprovedCounts
<1> QED BY <1>1, ApprovalsBack, PTL

-----------------------------------------------------------------------------
(* The promise to the user, step by step                                    *)

Authored == [c \in DOMAIN calls |-> AsksTwice(calls[c])]
RanCalls == [i \in DOMAIN runs |-> runs[i].entry.call]
Lost == crashes > 0 /\ unsaved

\* A function on an initial part of the numbers is a sequence.
LEMMA SequenceOf ==
  ASSUME NEW S, NEW n \in Nat, NEW f \in [1..n -> S]
  PROVE  f \in Seq(S) /\ Len(f) = n
OBVIOUS

\* What was lost stays lost.
LEMMA LostStays == IInv /\ [Next]_vars => Lost' \in {Lost, TRUE}
<1> SUFFICES ASSUME IInv, [Next]_vars, Lost PROVE Lost'
  BY DEF Lost
<1>0. unsaved
  BY DEF Lost
<1>1. crashes' = crashes \/ crashes' = crashes + 1
  BY DEF vars, Next, HandlerStep, Author, LoopEnds, Snapshot, SnapshotRaises, Truncate,
         Write, SaveFails, Alert, Ask, Pop, Missing, NeedsSecond, Run, RunRefused, RunRaises,
         Accept, Refuse, Divert, CrashAndRestart, Send, WebDecide, Stop, ChatDecide,
         IslandShow, IslandResume, IslandDismiss, IslandDecide
<1>a. ASSUME NEW h, NEW t, NEW e, Put(h, t, e) PROVE unsaved'
  BY <1>0, <1>a DEF Put
<1>2. ASSUME NEW h \in Handlers, HandlerStep(h) PROVE unsaved'
  <2>1. CASE \/ \E d, q, l \in BOOLEAN : Author(h, d, q, l)
             \/ Pop(h) \/ NeedsSecond(h)
    BY <1>a, <2>1 DEF Author, Pop, NeedsSecond
  <2>2. CASE \/ LoopEnds(h) \/ Snapshot(h) \/ SnapshotRaises(h) \/ Truncate(h) \/ Write(h)
             \/ SaveFails(h) \/ Alert(h) \/ Ask(h) \/ Missing(h) \/ Run(h)
             \/ RunRefused(h) \/ RunRaises(h)
    BY <1>0, <2>2 DEF history, LoopEnds, Snapshot, SnapshotRaises, Truncate, Write, SaveFails,
         Alert, Ask, Missing, Run, RunRefused, RunRaises
  <2> QED BY <1>2, <2>1, <2>2 DEF HandlerStep
<1>3. ASSUME ~\E h \in Handlers : HandlerStep(h) PROVE unsaved'
  <2>1. UNCHANGED unsaved
    BY <1>3 DEF vars, history, Next, Accept, Refuse, Divert, CrashAndRestart, Send, WebDecide,
         Stop, ChatDecide, IslandShow, IslandResume, IslandDismiss, IslandDecide
  <2> QED BY <1>0, <2>1
<1> QED BY <1>1, <1>2, <1>3 DEF Lost, IInv, TypeOK

\* A call that ran is nowhere, unless a restart went by a save that failed.
LEMMA PromiseRan ==
  ASSUME IInv, NEW c \in DOMAIN calls, Promise!HasRun(c),
         \/ stash[calls[c].turn].call = c
         \/ \E h \in Handlers : held[h].call = c
  PROVE  Lost
<1>1. PICK i \in DOMAIN runs : runs[i].entry.call = c
  BY DEF Promise!HasRun
<1>2. ~(crashes = 0 \/ ~unsaved)
  BY <1>1 DEF IInv, Claims, RanIsGone
<1> QED BY <1>2 DEF Lost, IInv, TypeOK

\* The decisions behind a call, as the promise has them.
LEMMA PromiseBacked ==
  ASSUME NEW c \in DOMAIN calls, Once(approved, c), AsksTwice(calls[c]) => Twice(approved, c)
  PROVE  Promise!Backed(c)
BY DEF Promise!Backed, Promise!Backing, Once, Twice

\* To author a call is to author one.
LEMMA AuthorPromised ==
  ASSUME IInv, NEW h \in Handlers, NEW destructive \in BOOLEAN, NEW preset \in BOOLEAN,
         NEW lossy \in BOOLEAN, Author(h, destructive, preset, lossy)
  PROVE  Promise!Author
<1> DEFINE m == [turn |-> Serving(h), destructive |-> destructive, preset |-> preset,
                 lossy |-> lossy]
<1>1. calls \in Seq(Call) /\ calls' = Append(calls, m) /\ UNCHANGED <<approved, runs>>
  BY DEF Author, IInv, TypeOK
<1>2. Authored' = Append(Authored, destructive /\ ~preset)
  <2>1. /\ Len(calls) \in Nat /\ DOMAIN calls = 1..Len(calls)
        /\ DOMAIN calls' = 1..Len(calls) + 1 /\ calls'[Len(calls) + 1] = m
        /\ \A c \in 1..Len(calls) : calls'[c] = calls[c]
    BY <1>1
  <2>2. Authored \in Seq(BOOLEAN) /\ Len(Authored) = Len(calls)
    <3>1. Authored \in [1..Len(calls) -> BOOLEAN]
      <4>1. \A c \in 1..Len(calls) : calls[c] \in Call
        BY <1>1, ElementOfSeq
      <4> QED BY <2>1, <4>1 DEF Authored, AsksTwice, Call
    <3> QED BY <2>1, <3>1, SequenceOf
  <2>3. /\ DOMAIN Authored' = 1..Len(calls) + 1
        /\ Authored'[Len(calls) + 1] = (destructive /\ ~preset)
        /\ \A c \in 1..Len(calls) : Authored'[c] = Authored[c]
    BY <2>1 DEF Authored, AsksTwice
  <2>4. Authored' = [c \in 1..Len(calls) + 1 |-> Authored'[c]]
    BY <2>3 DEF Authored
  <2> QED BY <2>1, <2>2, <2>3, <2>4
<1> QED BY <1>1, <1>2 DEF Promise!Author, Authored

\* A pop is a decision for the call, if there is one, which has not run.
LEMMA PopPromised ==
  ASSUME IInv, AInv, NEW h \in Handlers, Pop(h)
  PROVE  \/ \E c \in DOMAIN Authored, n \in 0..MaxClicks : Promise!Decide(c, n)
         \/ UNCHANGED <<Authored, approved, RanCalls>>
<1> DEFINE t == Serving(h)
           c == stash[t].call
           n == IF h = EventLoop THEN job.click ELSE 0
<1>1. /\ UNCHANGED <<calls, runs>> /\ pc[h] = "pop" /\ t \in Turns
      /\ approved' = IF c = 0 THEN approved ELSE approved \cup {<<c, n>>}
  BY ServingTyped DEF Pop, IInv
<1>2. CASE c = 0
  BY <1>1, <1>2 DEF Authored, RanCalls
<1>3. CASE c # 0
  <2>1. c \in DOMAIN calls /\ calls[c].turn = t
    <3>1. c <= Len(calls) /\ calls[c].turn = t /\ c \in 0..MaxCalls
      BY <1>1, <1>3 DEF IInv, Claims, EntriesOfTurn, OfTurn, TypeOK, Entry
    <3> QED BY <1>3, <3>1, ConstantsAssumption DEF IInv, TypeOK
  <2>2. Promise!HasRun(c) => Lost
    BY <1>1, <2>1, PromiseRan
  <2>3. n \in 0..MaxClicks
    BY <1>1, ConstantsAssumption DEF IInv, TypeOK, JobAndCard, Resume
  <2>4. autoMarvex \/ (n # 0 /\ \A d \in approved : d[2] # n)
    BY <1>1 DEF AInv, LoopPops, DecisionsFresh, IInv, TypeOK
  <2>5. Promise!Decide(c, n)
    BY <1>1, <1>3, <2>2, <2>4 DEF Promise!Decide, Lost
  <2> QED BY <2>1, <2>3, <2>5 DEF Authored
<1> QED BY <1>2, <1>3

\* The worker runs a call that has not run, and that enough decisions back.
LEMMA RunPromised ==
  ASSUME IInv, AInv, NEW h \in Handlers, pc[h] = "run", held[h].call # 0,
         ~WantsSecond(held[h]), runs' = Append(runs, RunOf(h)), UNCHANGED <<calls, approved>>
  PROVE  \E c \in DOMAIN Authored : Promise!Run(c)
<1>0. PICK c : c = held[h].call
  OBVIOUS
<1>1. c \in DOMAIN calls /\ calls[c].turn = Serving(h)
  <2>1. c <= Len(calls) /\ calls[c].turn = Serving(h) /\ c \in 0..MaxCalls
    BY <1>0 DEF IInv, Claims, EntriesOfTurn, OfTurn, TypeOK, Entry
  <2> QED BY <1>0, <2>1, ConstantsAssumption DEF IInv, TypeOK
<1>2. Promise!HasRun(c) => Lost
  BY <1>0, <1>1, PromiseRan
<1>3. autoMarvex \/ Promise!Backed(c)
  BY <1>0, <1>1, HeldBacked, PromiseBacked DEF AInv
<1>4. RanCalls' = Append(RanCalls, c)
  <2>1. /\ runs \in Seq([entry : Entry, about : Entry]) /\ RunOf(h).entry = held[h]
    BY DEF IInv, TypeOK, RunOf
  <2>2. /\ Len(runs) \in Nat /\ DOMAIN runs = 1..Len(runs)
        /\ DOMAIN runs' = 1..Len(runs) + 1 /\ runs'[Len(runs) + 1].entry.call = c
        /\ \A i \in 1..Len(runs) : runs'[i] = runs[i]
    BY <1>0, <2>1
  <2>3. RanCalls \in Seq(Nat) /\ Len(RanCalls) = Len(runs)
    <3>1. RanCalls \in [1..Len(runs) -> Nat]
      <4>1. \A i \in 1..Len(runs) : runs[i] \in [entry : Entry, about : Entry]
        BY <2>1, ElementOfSeq
      <4>2. \A i \in 1..Len(runs) : runs[i].entry \in Entry
        BY <4>1
      <4> QED BY <2>2, <4>2 DEF RanCalls, Entry
    <3> QED BY <2>2, <3>1, SequenceOf
  <2>4. /\ DOMAIN RanCalls' = 1..Len(runs) + 1 /\ RanCalls'[Len(runs) + 1] = c
        /\ \A i \in 1..Len(runs) : RanCalls'[i] = RanCalls[i]
    BY <2>2 DEF RanCalls
  <2>5. RanCalls' = [i \in 1..Len(runs) + 1 |-> RanCalls'[i]]
    BY <2>4 DEF RanCalls
  <2> QED BY <2>2, <2>3, <2>4, <2>5
<1>5. Promise!Run(c)
  BY <1>2, <1>3, <1>4 DEF Promise!Run, Lost, RanCalls
<1> QED BY <1>1, <1>5 DEF Authored

\* Every step keeps the promise: it authors, decides, runs, or does none of these.
LEMMA StepPromised == IInv /\ AInv /\ [Next]_vars => [Promise!Next]_(Promise!vars)
<1> SUFFICES ASSUME IInv, AInv, [Next]_vars PROVE Promise!Next
  BY DEF Promise!vars
<1>1. Lost' \in {Lost, TRUE} /\ autoMarvex' = autoMarvex
  BY LostStays, PolicyStays
<1> DEFINE Kept == UNCHANGED <<Authored, approved, RanCalls>>
           Keeps == \/ Promise!Author
                    \/ \E c \in DOMAIN Authored :
                          Promise!Run(c) \/ \E n \in 0..MaxClicks : Promise!Decide(c, n)
                    \/ Kept
<1>2. ASSUME UNCHANGED <<calls, approved, runs>> PROVE Keeps
  BY <1>2 DEF Authored, RanCalls
<1>3. ASSUME NEW h \in Handlers, HandlerStep(h) PROVE Keeps
  <2>1. CASE \E destructive, preset, lossy \in BOOLEAN : Author(h, destructive, preset, lossy)
    BY <2>1, AuthorPromised
  <2>2. CASE Pop(h)
    BY <2>2, PopPromised
  <2>3. CASE Run(h)
    <3>1. \E c \in DOMAIN Authored : Promise!Run(c)
      BY <2>3, RunPromised DEF Run
    <3> QED BY <3>1
  <2>4. CASE RunRaises(h) /\ runs' # runs
    <3>1. \E c \in DOMAIN Authored : Promise!Run(c)
      BY <2>4, RunPromised DEF RunRaises
    <3> QED BY <3>1
  <2>5. CASE \/ LoopEnds(h) \/ Snapshot(h) \/ SnapshotRaises(h) \/ Truncate(h) \/ Write(h)
             \/ SaveFails(h) \/ Alert(h) \/ Ask(h) \/ Missing(h) \/ NeedsSecond(h)
             \/ RunRefused(h) \/ (RunRaises(h) /\ runs' = runs)
    <3>1. UNCHANGED <<calls, approved, runs>>
      BY <2>5 DEF history, LoopEnds, Snapshot, SnapshotRaises, Truncate, Write, SaveFails,
           Alert, Ask, Missing, NeedsSecond, RunRefused, RunRaises
    <3> QED BY <3>1 DEF Authored, RanCalls
  <2> QED BY <1>3, <2>1, <2>2, <2>3, <2>4, <2>5 DEF HandlerStep
<1>4. ASSUME ~\E h \in Handlers : HandlerStep(h) PROVE Keeps
  <2>1. UNCHANGED <<calls, approved, runs>>
    BY <1>4 DEF vars, history, Next, Accept, Refuse, Divert, CrashAndRestart, Send, WebDecide,
         Stop, ChatDecide, IslandShow, IslandResume, IslandDismiss, IslandDecide
  <2> QED BY <1>2, <2>1
<1>5. Keeps
  BY <1>2, <1>3, <1>4 DEF Authored, RanCalls
<1> QED BY <1>1, <1>5 DEF Promise!Next, Authored, RanCalls, Lost

\* Whatever the handlers, the file, the surfaces, crashes and restarts do, of the calls
\* the model authors they approve and run only what the promise to the user allows.
THEOREM PromiseKept == Spec => ImplementsPromise
<1>1. Init => Promise!Init
  <2> SUFFICES ASSUME Init PROVE Promise!Init
    OBVIOUS
  <2>1. Authored = <<>> /\ RanCalls = <<>>
    BY DEF Init, Authored, RanCalls
  <2> QED BY <2>1 DEF Init, Promise!Init, Authored, RanCalls
<1> QED BY <1>1, StepPromised, Invariance, ApprovalsBack, PTL
  DEF Spec, ImplementsPromise, Promise!Spec

-----------------------------------------------------------------------------
(* A restart                                                                *)

\* After a crash between two saves the calls that were waiting are offered again, and no
\* other, unless a save had failed or was overtaken (load_pending_automation_state).
THEOREM RestartOffers == Spec => RestartOffersWaiting
<1>1. ASSUME IInv, [Next]_vars
      PROVE  crashes' # crashes /\ Saving = {} /\ ~unsaved => stash' = Payload
  <2> SUFFICES ASSUME crashes' # crashes, Saving = {}, ~unsaved PROVE stash' = Payload
    OBVIOUS
  <2>1. CrashAndRestart
    BY <1>1 DEF vars, Next, HandlerStep, Author, LoopEnds, Snapshot, SnapshotRaises, Truncate,
         Write, SaveFails, Alert, Ask, Pop, Missing, NeedsSecond, Run, RunRefused, RunRaises,
         Accept, Refuse, Divert, Send, WebDecide, Stop, ChatDecide,
         IslandShow, IslandResume, IslandDismiss, IslandDecide
  <2>2. disk = Payload
    BY <1>1 DEF IInv, Claims, FileIsCurrent
  <2>3. stash' = [t \in Turns |-> Sanitized(Payload[t])]
    BY <2>1, <2>2 DEF CrashAndRestart
  <2>4. Payload \in [Turns -> Entry] /\ \A t \in Turns : Sanitized(Payload[t]) = Payload[t]
    BY <1>1, PayloadTyped DEF IInv
  <2> QED BY <2>3, <2>4
<1> QED BY <1>1, Invariance, PTL DEF Spec, RestartOffersWaiting
=============================================================================
