------------------------- MODULE ChatWindow_proofs -------------------------
(***************************************************************************)
(* A result that was read is shown, and a window whose turns are neither    *)
(* stopped nor left keeps its transcripts and their anchors in order, for   *)
(* every number of sessions, turns, deltas and clicks.                      *)
(***************************************************************************)
EXTENDS ChatWindow, TLAPS, WellFoundedInduction, SequenceTheorems

USE DEF NoTurn

-----------------------------------------------------------------------------
(* Transcripts                                                             *)

\* A set of positions has a last one.
LEMMA LastPosition ==
  ASSUME NEW n \in Nat, NEW S \in SUBSET (1..n), S # {}
  PROVE  Max(S) \in S /\ \A i \in S : i <= Max(S)
<1> DEFINE T == {n - i : i \in S}
           R == OpToRel(<, Nat)
<1>1. T \subseteq Nat /\ T # {}
  OBVIOUS
<1>2. PICK x \in T : \A y \in T : <<y, x>> \notin R
  BY <1>1, NatLessThanWellFounded, WFMin
<1>3. \A y \in T : ~(y < x)
  BY <1>1, <1>2 DEF OpToRel
<1>4. PICK i \in S : x = n - i
  OBVIOUS
<1>5. \A j \in S : j <= i
  <2> SUFFICES ASSUME NEW j \in S PROVE j <= i
    OBVIOUS
  <2>1. ~(n - j < n - i)
    BY <1>3, <1>4
  <2>. QED
    BY <2>1
<1>6. \E m \in S : \A j \in S : m >= j
  BY <1>5
<1>. QED
  BY <1>6 DEF Max

\* The last bubble of the assistant, if there is one.
LEMMA LastAssistantIs ==
  ASSUME NEW ms, ms \in Seq(Message)
  PROVE  /\ LastAssistant(ms) \in 0..Len(ms)
         /\ LastAssistant(ms) # 0 => ms[LastAssistant(ms)].who = "assistant"
         /\ \A i \in 1..Len(ms) : ms[i].who = "assistant" => i <= LastAssistant(ms)
<1> DEFINE I == {i \in 1..Len(ms) : ms[i].who = "assistant"}
<1>1. LastAssistant(ms) = IF I # {} THEN Max(I) ELSE 0
  BY DEF LastAssistant, SelectLastInSeq
<1>2. Len(ms) \in Nat /\ I \in SUBSET (1..Len(ms))
  OBVIOUS
<1>3. CASE I # {}
  <2>1. Max(I) \in I /\ \A i \in I : i <= Max(I)
    BY <1>2, <1>3, LastPosition
  <2>. QED
    BY <1>1, <1>3, <2>1
<1>4. CASE I = {}
  BY <1>1, <1>4
<1>. QED
  BY <1>3, <1>4

\* The only position that is last.
LEMMA LastAssistantAt ==
  ASSUME NEW ms, ms \in Seq(Message), NEW k \in 1..Len(ms), ms[k].who = "assistant",
         \A i \in 1..Len(ms) : i > k => ms[i].who # "assistant"
  PROVE  LastAssistant(ms) = k
<1>1. /\ LastAssistant(ms) \in 0..Len(ms)
      /\ LastAssistant(ms) # 0 => ms[LastAssistant(ms)].who = "assistant"
      /\ k <= LastAssistant(ms)
  BY LastAssistantIs
<1>. QED
  BY <1>1

\* The last provider response is one of the transcript's.
LEMMA LastResponseIs ==
  ASSUME NEW ms, ms \in Seq(Message)
  PROVE  LastResponse(ms) \in Responses(ms) \cup {0}
<1> DEFINE I == {i \in 1..Len(ms) : ms[i].response # 0}
           last == SelectLastInSeq(ms, LAMBDA m : m.response # 0)
<1>1. last = IF I # {} THEN Max(I) ELSE 0
  BY DEF SelectLastInSeq
<1>2. Len(ms) \in Nat /\ I \in SUBSET (1..Len(ms))
  OBVIOUS
<1>3. LastResponse(ms) = IF last = 0 THEN 0 ELSE ms[last].response
  BY DEF LastResponse
<1> HIDE DEF last
<1>4. CASE I # {}
  <2>1. last \in I
    BY <1>1, <1>2, <1>4, LastPosition
  <2>2. last \in DOMAIN ms /\ ms[last].response # 0 /\ last # 0
    BY <2>1
  <2>. QED
    BY <1>3, <2>2 DEF Responses
<1>5. CASE I = {}
  BY <1>1, <1>3, <1>5
<1>. QED
  BY <1>4, <1>5

\* The bubble that a patch is made of, and what stays of it.
LEMMA PatchedIs ==
  ASSUME NEW ms, ms \in Seq(Message), NEW t \in Turns,
         NEW text \in {"empty", "part", "answer", "error"}, NEW previous \in Turns \cup {0}
  PROVE  LET b == Patched(ms, t, text, previous)
         IN /\ b \in Message /\ b.who = "assistant" /\ b.of = t /\ b.text = text
            /\ b.response = LastBubble(ms).response
            /\ b.response \in Turns \cup {0}
<1>1. /\ LastAssistant(ms) \in 0..Len(ms)
      /\ LastAssistant(ms) # 0 => ms[LastAssistant(ms)].who = "assistant"
  BY LastAssistantIs
<1>2. /\ LastBubble(ms) \in [who : {"user", "assistant"}, of : Turns \cup {0},
                             text : {"empty", "part", "answer", "error"},
                             response : Turns \cup {0}, previous : Turns \cup {0},
                             streaming : BOOLEAN]
      /\ LastBubble(ms).who = "assistant"
  <2>1. CASE LastAssistant(ms) = 0
    BY <2>1 DEF LastBubble
  <2>2. CASE LastAssistant(ms) # 0
    <3> DEFINE m == ms[LastAssistant(ms)]
    <3>1. LastAssistant(ms) \in 1..Len(ms)
      BY <1>1, <2>2
    <3>2. m \in Message
      BY <3>1, ElementOfSeq
    <3>3. LastBubble(ms) = m /\ m.who = "assistant"
      BY <1>1, <2>2 DEF LastBubble
    <3> HIDE DEF m
    <3>. QED
      BY <3>2, <3>3 DEF Message
  <2>. QED
    BY <2>1, <2>2
<1> DEFINE m == LastBubble(ms)
<1> HIDE DEF m
<1>3. Patched(ms, t, text, previous) =
        [m EXCEPT !.of = t, !.text = text, !.previous = previous]
  BY DEF Patched, m
<1>. QED
  BY <1>2, <1>3 DEF Message, m

\* The response of the last bubble, none if there is no bubble.
LEMMA LastBubbleIs ==
  ASSUME NEW ms, ms \in Seq(Message)
  PROVE  LastBubble(ms).response =
           IF LastAssistant(ms) = 0 THEN 0 ELSE ms[LastAssistant(ms)].response
  BY DEF LastBubble

\* What updateLastAssistant does to a transcript.
LEMMA UpdateIs ==
  ASSUME NEW ms, ms \in Seq(Message), NEW b \in Message, b.who = "assistant"
  PROVE  LET ns == UpdateLastAssistant(ms, b)
             k == IF LastAssistant(ms) = 0 THEN Len(ms) + 1 ELSE LastAssistant(ms)
         IN /\ ns \in Seq(Message) /\ k \in 1..Len(ns) /\ ns[k] = b
            /\ Len(ns) = IF LastAssistant(ms) = 0 THEN Len(ms) + 1 ELSE Len(ms)
            /\ \A i \in 1..Len(ns) : i # k => i \in 1..Len(ms) /\ ns[i] = ms[i]
            /\ LastAssistant(ns) = k
<1> DEFINE ns == UpdateLastAssistant(ms, b)
           k == IF LastAssistant(ms) = 0 THEN Len(ms) + 1 ELSE LastAssistant(ms)
<1>1. /\ LastAssistant(ms) \in 0..Len(ms)
      /\ \A i \in 1..Len(ms) : ms[i].who = "assistant" => i <= LastAssistant(ms)
  BY LastAssistantIs
<1>2. /\ ns \in Seq(Message) /\ k \in 1..Len(ns) /\ ns[k] = b
      /\ Len(ns) = IF LastAssistant(ms) = 0 THEN Len(ms) + 1 ELSE Len(ms)
      /\ \A i \in 1..Len(ns) : i # k => i \in 1..Len(ms) /\ ns[i] = ms[i]
  <2>1. CASE LastAssistant(ms) = 0
    BY <2>1 DEF UpdateLastAssistant
  <2>2. CASE LastAssistant(ms) # 0
    <3>1. ns = [ms EXCEPT ![LastAssistant(ms)] = b] /\ k = LastAssistant(ms)
      BY <2>2 DEF UpdateLastAssistant
    <3>2. ns \in Seq(Message) /\ Len(ns) = Len(ms)
      BY <1>1, <2>2, <3>1, ExceptSeq
    <3>. QED
      BY <1>1, <2>2, <3>1, <3>2
  <2>. QED
    BY <2>1, <2>2
<1>3. \A i \in 1..Len(ns) : i > k => ns[i].who # "assistant"
  BY <1>1, <1>2
<1> HIDE DEF ns, k
<1>4. LastAssistant(ns) = k
  BY <1>2, <1>3, LastAssistantAt
<1>. QED
  BY <1>2, <1>4 DEF ns, k

\* No response is that of two messages.
Unique(ms) ==
  \A i, j \in 1..Len(ms) : ms[i].response # 0 /\ ms[i].response = ms[j].response => i = j

\* A bubble that is patched keeps its response, loses it, or gets a new one.
LEMMA UpdateUnique ==
  ASSUME NEW ms, ms \in Seq(Message), Unique(ms), NEW b \in Message, b.who = "assistant",
         b.response \in {0, LastBubble(ms).response} \/ b.response \notin Responses(ms)
  PROVE  LET ns == UpdateLastAssistant(ms, b)
         IN /\ Unique(ns)
            /\ Responses(ns) \subseteq Responses(ms) \cup ({b.response} \ {0})
<1> DEFINE ns == UpdateLastAssistant(ms, b)
           k == IF LastAssistant(ms) = 0 THEN Len(ms) + 1 ELSE LastAssistant(ms)
<1>1. /\ ns \in Seq(Message) /\ k \in 1..Len(ns) /\ ns[k] = b
      /\ \A i \in 1..Len(ns) : i # k => i \in 1..Len(ms) /\ ns[i] = ms[i]
  BY UpdateIs
<1>2. \A i \in 1..Len(ms) : i # k /\ ms[i].response # 0 => ms[i].response # b.response
  <2> SUFFICES ASSUME NEW i \in 1..Len(ms), i # k, ms[i].response # 0,
                      ms[i].response = b.response
               PROVE  FALSE
    OBVIOUS
  <2>1. b.response \in Responses(ms)
    BY DEF Responses
  <2>2. b.response = LastBubble(ms).response
    BY <2>1
  <2>3. LastAssistant(ms) # 0 /\ ms[LastAssistant(ms)].response = ms[i].response
    BY <2>2, LastBubbleIs
  <2>4. LastAssistant(ms) \in 1..Len(ms)
    BY <2>3, LastAssistantIs
  <2>5. LastAssistant(ms) = i
    BY <2>3, <2>4 DEF Unique
  <2>. QED
    BY <2>3, <2>5
<1>3. Unique(ns)
  <2> HIDE DEF ns, k
  <2> SUFFICES ASSUME NEW i \in 1..Len(ns), NEW j \in 1..Len(ns), ns[i].response # 0,
                      ns[i].response = ns[j].response
               PROVE  i = j
    BY DEF Unique
  <2>. QED
    BY <1>1, <1>2 DEF Unique
<1>4. Responses(ns) \subseteq Responses(ms) \cup ({b.response} \ {0})
  <2> HIDE DEF ns, k
  <2>. QED
    BY <1>1 DEF Responses
<1>. QED
  BY <1>3, <1>4

\* What becomes of a transcript when a turn ends or goes on.
LEMMA UpdateLast ==
  ASSUME NEW ms, ms \in Seq(Message), NEW b \in Message, b.who = "assistant"
  PROVE  LastBubble(UpdateLastAssistant(ms, b)) = b
<1> DEFINE ns == UpdateLastAssistant(ms, b)
           k == IF LastAssistant(ms) = 0 THEN Len(ms) + 1 ELSE LastAssistant(ms)
<1>1. ns \in Seq(Message) /\ k \in 1..Len(ns) /\ ns[k] = b /\ LastAssistant(ns) = k
  BY UpdateIs
<1> HIDE DEF ns, k
<1>2. LastAssistant(ns) # 0 /\ ns[LastAssistant(ns)] = b
  BY <1>1
<1>3. LastBubble(ns) = b
  BY <1>2 DEF LastBubble
<1>. QED
  BY <1>3 DEF ns

Arguments == [home : Sessions \cup {NoSession}, adds : BOOLEAN,
              question : Turns \cup {NoTurn}, previous : Turns \cup {NoTurn}]

\* The question and the bubble of a turn are new, or the bubble is patched.
LEMMA PlaceholderAdds ==
  ASSUME NEW ms, ms \in Seq(Message), NEW t \in Turns, NEW args \in Arguments, args.adds
  PROVE  LET ns == Placeholder(ms, t, args)
         IN /\ ns \in Seq(Message) /\ Len(ns) = Len(ms) + 2
            /\ \A i \in 1..Len(ms) : ns[i] = ms[i]
            /\ ns[Len(ms) + 1].who = "user" /\ ns[Len(ms) + 1].of = t
            /\ ns[Len(ms) + 1].response = 0
            /\ ns[Len(ms) + 2].who = "assistant" /\ ns[Len(ms) + 2].of = t
            /\ ns[Len(ms) + 2].response = 0
            /\ LastAssistant(ns) = Len(ms) + 2
<1>1. PICK none : none \in Seq(Message) /\ none = <<>>
  <2>1. <<>> \in Seq(Message) /\ \E none : none = <<>>
    OBVIOUS
  <2>. QED
    BY <2>1
<1>2. none \in Seq(Message)
  BY <1>1
<1> DEFINE q == Question(t, args.previous)
           p == Patched(none, t, "empty", args.previous)
           b == [p EXCEPT !.streaming = TRUE]
           ns == Placeholder(ms, t, args)
<1>3. q \in Message /\ q.who = "user" /\ q.of = t /\ q.response = 0
  BY DEF Question, Message, Arguments
<1>4. LastBubble(none).response = 0
  <2>1. LastAssistant(none) \in 0..Len(none)
    BY <1>1, LastAssistantIs
  <2>2. Len(none) = 0
    BY <1>1
  <2>3. LastAssistant(none) = 0
    BY <2>1, <2>2
  <2>. QED
    BY <1>1, <2>3, LastBubbleIs
<1>5. p \in Message /\ p.who = "assistant" /\ p.of = t /\ p.response = 0
  <2>1. args.previous \in Turns \cup {0}
    BY DEF Arguments
  <2> HIDE DEF q, b, ns
  <2>2. /\ p \in Message /\ p.who = "assistant" /\ p.of = t
        /\ p.response = LastBubble(none).response
    BY <1>2, <2>1, PatchedIs
  <2> HIDE DEF p
  <2>. QED
    BY <1>4, <2>2
<1> HIDE DEF p, q
<1>6. b \in Message /\ b.who = "assistant" /\ b.of = t /\ b.response = 0
  BY <1>5 DEF Message
<1>7. ns = ms \o <<q, b>>
  BY <1>1 DEF Placeholder, p, q
<1> HIDE DEF b, ns
<1>8. <<q, b>> \in Seq(Message) /\ Len(<<q, b>>) = 2
  BY <1>3, <1>6
<1>9. /\ ns \in Seq(Message) /\ Len(ns) = Len(ms) + 2
      /\ \A i \in 1..Len(ms) : ns[i] = ms[i]
      /\ ns[Len(ms) + 1] = q /\ ns[Len(ms) + 2] = b
  BY <1>7, <1>8
<1>10. LastAssistant(ns) = Len(ms) + 2
  <2> DEFINE k == Len(ms) + 2
  <2>1. k \in 1..Len(ns) /\ ns[k].who = "assistant"
    BY <1>6, <1>9
  <2>2. \A i \in 1..Len(ns) : i > k => ns[i].who # "assistant"
    BY <1>9
  <2> HIDE DEF k
  <2>3. LastAssistant(ns) = k
    BY <1>9, <2>1, <2>2, LastAssistantAt
  <2>. QED
    BY <2>3 DEF k
<1>. QED
  BY <1>3, <1>6, <1>9, <1>10 DEF ns

LEMMA PlaceholderIs ==
  ASSUME NEW ms, ms \in Seq(Message), Unique(ms), NEW t \in Turns, NEW args \in Arguments
  PROVE  LET ns == Placeholder(ms, t, args)
         IN ns \in Seq(Message) /\ Unique(ns) /\ Responses(ns) \subseteq Responses(ms)
<1> DEFINE ns == Placeholder(ms, t, args)
<1>1. CASE args.adds
  <2>1. /\ ns \in Seq(Message) /\ Len(ns) = Len(ms) + 2
        /\ \A i \in 1..Len(ms) : ns[i] = ms[i]
        /\ ns[Len(ms) + 1].response = 0 /\ ns[Len(ms) + 2].response = 0
    BY <1>1, PlaceholderAdds
  <2> HIDE DEF ns
  <2>2. \A i \in 1..Len(ns) : ns[i].response # 0 => i \in 1..Len(ms)
    <3>1. \A i \in 1..Len(ns) : i \in 1..Len(ms) \/ i = Len(ms) + 1 \/ i = Len(ms) + 2
      BY <2>1
    <3>. QED
      BY <2>1, <3>1
  <2>3. Unique(ns)
    BY <2>1, <2>2 DEF Unique
  <2>4. Responses(ns) \subseteq Responses(ms)
    BY <2>1, <2>2 DEF Responses
  <2>. QED
    BY <2>1, <2>3, <2>4 DEF ns
<1>2. CASE ~args.adds
  <2> DEFINE p == Patched(ms, t, "empty", args.previous)
             b == [p EXCEPT !.streaming = TRUE]
  <2>1. args.previous \in Turns \cup {0}
    BY DEF Arguments
  <2>2. p \in Message /\ p.who = "assistant" /\ p.response = LastBubble(ms).response
    BY <2>1, PatchedIs
  <2> HIDE DEF p
  <2>3. b \in Message /\ b.who = "assistant" /\ b.response = LastBubble(ms).response
    BY <2>2 DEF Message
  <2>4. ns = UpdateLastAssistant(ms, b)
    BY <1>2 DEF Placeholder, p
  <2>5. b.response = 0 \/ b.response \in Responses(ms)
    <3>1. LastAssistant(ms) # 0 => LastAssistant(ms) \in DOMAIN ms
      BY LastAssistantIs
    <3>. QED
      BY <2>3, <3>1, LastBubbleIs DEF Responses
  <2> HIDE DEF b, ns
  <2>6. ns \in Seq(Message)
    BY <2>3, <2>4, UpdateIs
  <2>7. Unique(ns) /\ Responses(ns) \subseteq Responses(ms) \cup ({b.response} \ {0})
    BY <2>3, <2>4, UpdateUnique
  <2>. QED
    BY <2>5, <2>6, <2>7 DEF ns
<1>. QED
  BY <1>1, <1>2

\* A chat that is loaded is the one that was left.
LEMMA RestoredIs ==
  ASSUME NEW ms, ms \in Seq(Message)
  PROVE  LET ns == Restored(ms)
         IN /\ ns \in Seq(Message) /\ Len(ns) = Len(ms)
            /\ \A i \in 1..Len(ms) :
                 /\ ns[i].who = ms[i].who /\ ns[i].of = ms[i].of /\ ns[i].text = ms[i].text
                 /\ ns[i].response = ms[i].response
            /\ Responses(ns) = Responses(ms)
            /\ Unique(ms) => Unique(ns)
<1> DEFINE ns == Restored(ms)
<1>1. ns = [i \in 1..Len(ms) |-> [ms[i] EXCEPT !.streaming = FALSE]]
  BY DEF Restored
<1>2. ASSUME NEW i \in 1..Len(ms)
      PROVE  LET m == [ms[i] EXCEPT !.streaming = FALSE]
             IN /\ m \in Message /\ m.who = ms[i].who /\ m.of = ms[i].of
                /\ m.text = ms[i].text /\ m.response = ms[i].response
  <2> DEFINE m == ms[i]
  <2>1. m \in Message
    BY ElementOfSeq
  <2> HIDE DEF m
  <2>. QED
    BY <2>1 DEF Message, m
<1>3. ns \in Seq(Message) /\ Len(ns) = Len(ms)
  <2>1. ns \in [1..Len(ms) -> Message]
    BY <1>1, <1>2
  <2>2. Len(ms) \in Nat
    OBVIOUS
  <2>. QED
    BY <1>1, <2>1, <2>2
<1>4. \A i \in 1..Len(ms) :
        /\ ns[i].who = ms[i].who /\ ns[i].of = ms[i].of /\ ns[i].text = ms[i].text
        /\ ns[i].response = ms[i].response
  BY <1>1, <1>2
<1> HIDE DEF ns
<1>5. Responses(ns) = Responses(ms) /\ (Unique(ms) => Unique(ns))
  BY <1>3, <1>4 DEF Responses, Unique
<1>. QED
  BY <1>3, <1>4, <1>5 DEF ns

\* What is left of a transcript when the messages from i to j are cut.
Cut(ms, i, j) == SubSeq(ms, 1, i - 1) \o SubSeq(ms, j + 1, Len(ms))

LEMMA CutIs ==
  ASSUME NEW ms, ms \in Seq(Message), NEW i \in 1..Len(ms), NEW j \in i..Len(ms)
  PROVE  LET ns == Cut(ms, i, j)
         IN /\ ns \in Seq(Message) /\ Len(ns) = Len(ms) - (j - i + 1)
            /\ \A k \in 1..i - 1 : ns[k] = ms[k]
            /\ \A k \in i..Len(ns) : ns[k] = ms[k + (j - i + 1)]
<1> DEFINE xs == SubSeq(ms, 1, i - 1)
           ys == SubSeq(ms, j + 1, Len(ms))
<1>1. /\ xs \in Seq(Message) /\ Len(xs) = i - 1
      /\ \A k \in 1..i - 1 : xs[k] = ms[k]
  BY SubSeqProperties
<1>2. /\ ys \in Seq(Message) /\ Len(ys) = Len(ms) - j
      /\ \A k \in 1..Len(ms) - j : ys[k] = ms[j + k]
  BY SubSeqProperties
<1> HIDE DEF xs, ys
<1>3. /\ xs \o ys \in Seq(Message) /\ Len(xs \o ys) = Len(xs) + Len(ys)
      /\ \A k \in 1..Len(xs) + Len(ys) :
           (xs \o ys)[k] = IF k <= Len(xs) THEN xs[k] ELSE ys[k - Len(xs)]
  BY <1>1, <1>2, ConcatProperties
<1>4. \A k \in i..(Len(ms) - (j - i + 1)) : (xs \o ys)[k] = ms[k + (j - i + 1)]
  <2> SUFFICES ASSUME NEW k \in i..(Len(ms) - (j - i + 1))
               PROVE  (xs \o ys)[k] = ms[k + (j - i + 1)]
    OBVIOUS
  <2>1. k \in 1..Len(xs) + Len(ys) /\ k > Len(xs)
    BY <1>1, <1>2
  <2>2. (xs \o ys)[k] = ys[k - Len(xs)]
    BY <1>1, <1>3, <2>1
  <2>3. k - Len(xs) \in 1..Len(ms) - j /\ j + (k - Len(xs)) = k + (j - i + 1)
    BY <1>1
  <2>. QED
    BY <1>2, <2>2, <2>3
<1>5. Len(xs) + Len(ys) = Len(ms) - (j - i + 1)
  BY <1>1, <1>2
<1>6. \A k \in 1..i - 1 : (xs \o ys)[k] = ms[k]
  BY <1>1, <1>2, <1>3
<1>. QED
  BY <1>3, <1>4, <1>5, <1>6 DEF Cut, xs, ys

\* Nothing of what is cut remains.
LEMMA CutUnique ==
  ASSUME NEW ms, ms \in Seq(Message), Unique(ms),
         NEW i \in 1..Len(ms), NEW j \in i..Len(ms)
  PROVE  LET ns == Cut(ms, i, j)
         IN /\ ns \in Seq(Message) /\ Unique(ns)
            /\ Responses(ns) \subseteq Responses(ms) \ Responses(SubSeq(ms, i, j))
            /\ Responses(SubSeq(ms, i, j)) \subseteq Responses(ms)
<1> DEFINE ns == Cut(ms, i, j)
           d == j - i + 1
           old(k) == IF k < i THEN k ELSE k + d
<1>1. /\ ns \in Seq(Message) /\ Len(ns) = Len(ms) - d
      /\ \A k \in 1..i - 1 : ns[k] = ms[k]
      /\ \A k \in i..Len(ns) : ns[k] = ms[k + d]
  BY CutIs
<1> HIDE DEF ns
<1>2. \A k \in 1..Len(ns) : /\ old(k) \in 1..Len(ms) /\ old(k) \notin i..j
                            /\ ns[k] = ms[old(k)]
  BY <1>1
<1>3. \A k, l \in 1..Len(ns) : old(k) = old(l) => k = l
  BY <1>1
<1> HIDE DEF old
<1>4. Unique(ns)
  <2> SUFFICES ASSUME NEW k \in 1..Len(ns), NEW l \in 1..Len(ns), ns[k].response # 0,
                      ns[k].response = ns[l].response
               PROVE  k = l
    BY DEF Unique
  <2>1. old(k) = old(l)
    BY <1>2 DEF Unique
  <2>. QED
    BY <1>3, <2>1
<1>5. /\ Len(SubSeq(ms, i, j)) = d /\ d \in Nat
      /\ DOMAIN SubSeq(ms, i, j) = 1..d
      /\ \A k \in 1..d : SubSeq(ms, i, j)[k] = ms[i + k - 1]
  BY SubSeqProperties
<1>6. ASSUME NEW r \in Responses(SubSeq(ms, i, j))
      PROVE  r # 0 /\ \E k \in i..j : ms[k].response = r
  <2>1. PICK l \in 1..d : r = ms[i + l - 1].response
    BY <1>5 DEF Responses
  <2>2. i + l - 1 \in i..j
    OBVIOUS
  <2>. QED
    BY <2>1, <2>2 DEF Responses
<1>7. Responses(SubSeq(ms, i, j)) \subseteq Responses(ms)
  BY <1>6 DEF Responses
<1>8. ASSUME NEW r \in Responses(ns)
      PROVE  r \in Responses(ms) \ Responses(SubSeq(ms, i, j))
  <2>1. PICK k \in 1..Len(ns) : r = ns[k].response /\ r # 0
    BY <1>1 DEF Responses
  <2>2. ms[old(k)].response = r /\ old(k) \in 1..Len(ms) /\ old(k) \notin i..j
    BY <1>2, <2>1
  <2>3. r \in Responses(ms)
    BY <2>1, <2>2 DEF Responses
  <2>4. \A l \in i..j : ms[l].response # r
    BY <2>1, <2>2 DEF Unique
  <2>. QED
    BY <1>6, <2>3, <2>4
<1>. QED
  BY <1>1, <1>4, <1>7, <1>8 DEF ns

\* A set that has 0, and with each number the next up to n, has them all.
LEMMA UpTo ==
  ASSUME NEW n \in Nat, NEW S, 0 \in S, \A k \in 1..n : k - 1 \in S => k \in S
  PROVE  \A k \in 0..n : k \in S
<1> DEFINE T == {k \in 0..n : k \notin S}
<1> SUFFICES ASSUME T # {} PROVE FALSE
  OBVIOUS
<1>1. T \subseteq Nat
  OBVIOUS
<1>2. PICK k \in T : \A m \in T : <<m, k>> \notin OpToRel(<, Nat)
  BY <1>1, NatLessThanWellFounded, WFMin
<1>3. k - 1 \in Nat /\ k - 1 < k /\ k \in 1..n
  OBVIOUS
<1>4. k - 1 \notin T
  BY <1>1, <1>2, <1>3 DEF OpToRel
<1>. QED
  BY <1>3, <1>4

\* What is left of a transcript is one.
LEMMA WrittenIs ==
  ASSUME NEW ms, ms \in Seq(Message)
  PROVE  Written(ms) \in Seq(Message)
<1> DEFINE Waits(m) == m.who = "assistant" /\ m.text = "empty" /\ m.streaming
           Step(f, n) == IF n = 0 THEN <<>>
                         ELSE IF Waits(ms[n]) THEN f[n - 1] ELSE Append(f[n - 1], ms[n])
           Is(f, k) == \A n \in 0..k : f[n] = Step(f, n) /\ f[n] \in Seq(Message)
           Found(k) == \E f \in [0..k -> Seq(Message)] : Is(f, k)
           Reached == {k \in 0..Len(ms) : Found(k)}
<1>1. Len(ms) \in Nat /\ \A n \in 1..Len(ms) : ms[n] \in Message
  OBVIOUS
<1>2. Found(0)
  <2> DEFINE f == [n \in 0..0 |-> <<>>]
  <2>1. f \in [0..0 -> Seq(Message)] /\ Is(f, 0)
    OBVIOUS
  <2>. QED
    BY <2>1
<1>3. ASSUME NEW k \in 1..Len(ms), Found(k - 1)
      PROVE  Found(k)
  <2>1. PICK f \in [0..k - 1 -> Seq(Message)] : Is(f, k - 1)
    BY <1>3
  <2> DEFINE g == [n \in 0..k |-> IF n = k THEN Step(f, k) ELSE f[n]]
  <2>2. f[k - 1] \in Seq(Message)
    OBVIOUS
  <2>3. Step(f, k) \in Seq(Message)
    BY <1>1, <2>2
  <2>4. g \in [0..k -> Seq(Message)]
    BY <2>3
  <2>5. ASSUME NEW n \in 0..k
        PROVE  g[n] = Step(g, n)
    <3>1. CASE n = k
      <4>1. g[n - 1] = f[n - 1]
        BY <3>1
      <4>. QED
        BY <3>1, <4>1
    <3>2. CASE n = 0
      BY <2>1, <3>2
    <3>3. CASE n \in 1..k - 1
      <4>1. n # k /\ n - 1 # k /\ n # 0 /\ n \in 0..k - 1 /\ n - 1 \in 0..k
        BY <3>3
      <4>2. g[n - 1] = f[n - 1] /\ g[n] = f[n]
        BY <4>1
      <4>3. f[n] = Step(f, n)
        BY <2>1, <4>1
      <4> HIDE DEF g
      <4>. QED
        BY <4>1, <4>2, <4>3
    <3>. QED
      BY <3>1, <3>2, <3>3
  <2>. QED
    BY <2>4, <2>5
<1>4. Len(ms) \in Reached
  <2> HIDE DEF Found
  <2>1. 0 \in Reached
    BY <1>1, <1>2
  <2>2. ASSUME NEW k \in 1..Len(ms), k - 1 \in Reached
        PROVE  k \in Reached
    <3>1. Found(k - 1)
      BY <2>2
    <3>. QED
      BY <1>1, <1>3, <3>1
  <2> HIDE DEF Reached
  <2>3. \A k \in 0..Len(ms) : k \in Reached
    BY <1>1, <2>1, <2>2, UpTo
  <2>. QED
    BY <1>1, <2>3
<1> DEFINE Whole(f) == f = [n \in 0..Len(ms) |-> Step(f, n)]
           w == CHOOSE f : Whole(f)
<1>5. Whole(w)
  <2>1. PICK f \in [0..Len(ms) -> Seq(Message)] : Is(f, Len(ms))
    BY <1>4
  <2>2. Whole(f)
    BY <2>1
  <2> HIDE DEF Whole
  <2>. QED
    BY <2>2
<1>6. Written(ms) = w[Len(ms)]
  BY DEF Written
<1>7. \A n \in 0..Len(ms) : w[n] = Step(w, n)
  <2> HIDE DEF w
  <2>. QED
    BY <1>5
<1> HIDE DEF w
<1> DEFINE Right == {n \in 0..Len(ms) : w[n] \in Seq(Message)}
<1>8. 0 \in Right
  <2>1. 0 \in 0..Len(ms)
    BY <1>1
  <2>2. w[0] = <<>>
    BY <1>7, <2>1
  <2>3. <<>> \in Seq(Message)
    OBVIOUS
  <2>. QED
    BY <2>1, <2>2, <2>3
<1>9. ASSUME NEW n \in 1..Len(ms), n - 1 \in Right
      PROVE  n \in Right
  <2>1. n \in 0..Len(ms) /\ n # 0 /\ ms[n] \in Message
    BY <1>1
  <2>2. w[n] = IF Waits(ms[n]) THEN w[n - 1] ELSE Append(w[n - 1], ms[n])
    BY <1>7, <2>1
  <2>3. w[n - 1] \in Seq(Message)
    BY <1>9
  <2>4. Append(w[n - 1], ms[n]) \in Seq(Message)
    BY <2>1, <2>3
  <2>5. w[n] \in {w[n - 1], Append(w[n - 1], ms[n])}
    BY <2>2
  <2>. QED
    BY <2>1, <2>3, <2>4, <2>5
<1>10. Len(ms) \in Right
  <2> HIDE DEF Right
  <2>1. \A n \in 0..Len(ms) : n \in Right
    BY <1>1, <1>8, <1>9, UpTo
  <2>. QED
    BY <1>1, <2>1
<1>. QED
  BY <1>6, <1>10

-----------------------------------------------------------------------------
(* The result of a turn                                                    *)

\* An event more, and an event less.
LEMMA ToSetAppend ==
  ASSUME NEW S, NEW seq \in Seq(S), NEW e \in S
  PROVE  ToSet(Append(seq, e)) = ToSet(seq) \cup {e}
<1>1. ToSet(Append(seq, e)) \subseteq ToSet(seq) \cup {e}
  BY DEF ToSet
<1>2. \A i \in 1..Len(seq) : Append(seq, e)[i] = seq[i]
  OBVIOUS
<1>3. ToSet(seq) \subseteq ToSet(Append(seq, e))
  BY <1>2 DEF ToSet
<1>4. e = Append(seq, e)[Len(seq) + 1] /\ Len(seq) + 1 \in DOMAIN Append(seq, e)
  OBVIOUS
<1>5. e \in ToSet(Append(seq, e))
  BY <1>4 DEF ToSet
<1>. QED
  BY <1>1, <1>3, <1>5

LEMMA ToSetTail ==
  ASSUME NEW S, NEW seq \in Seq(S), seq # <<>>
  PROVE  ToSet(Tail(seq)) \subseteq ToSet(seq) /\ Head(seq) \in ToSet(seq)
<1>1. \A i \in DOMAIN Tail(seq) : i + 1 \in DOMAIN seq /\ Tail(seq)[i] = seq[i + 1]
  OBVIOUS
<1>2. ToSet(Tail(seq)) \subseteq ToSet(seq)
  BY <1>1 DEF ToSet
<1>3. 1 \in DOMAIN seq /\ Head(seq) = seq[1]
  OBVIOUS
<1>4. Head(seq) \in ToSet(seq)
  BY <1>3 DEF ToSet
<1>. QED
  BY <1>2, <1>4

Phases == {"new", "session", "stream", "answered", "failed"}
Events == {"response", "delta", "plain", "id", "error"}
Read == {"plain", "id"}

\* The request of a turn has its type; of the window, what it depends on.
TypedRequest ==
  /\ phase \in [Turns -> Phases]
  /\ shell \in [Turns -> {"none", "invoked", "posting", "reading", "over"}]
  /\ told \in [Turns -> [response : BOOLEAN, deltas : Nat, error : BOOLEAN]]
  /\ result \in [Turns -> {"none", "plain", "id"}]
  /\ events \in [Turns -> Seq(Events)]
  /\ invoke \in [Turns -> {"open", "plain", "id", "failed", "cancelled"}]

\* Nobody listens to a turn that is over or not begun; a result event has been
\* sent by a shell that still has the result, or has returned with it, and an error
\* by one that has none.
ResultKept(t) ==
  /\ phase[t] \in {"new", "session"} => shell[t] = "none"
  /\ phase[t] # "stream" => ToSet(events[t]) = {} /\ invoke[t] = "open"
  /\ result[t] # "none" => shell[t] = "reading" /\ ~told[t].error
  /\ invoke[t] # "open" => shell[t] = "over"
  /\ ToSet(events[t]) \cap Read # {} =>
       result[t] # "none" \/ invoke[t] \in Read \cup {"cancelled"}
  /\ "error" \in ToSet(events[t]) =>
       \/ invoke[t] \in {"failed", "cancelled"}
       \/ shell[t] = "reading" /\ told[t].error

RequestInv == TypedRequest /\ \A t \in Turns : ResultKept(t)

\* What the window does to the request of a turn when its send is over.
LEMMA EndKeepsRequest ==
  ASSUME RequestInv, NEW t \in Turns, NEW how \in {"answered", "failed"}, Ends(t, how),
         UNCHANGED <<shell, told, result>>
  PROVE  RequestInv'
<1> USE DEF Ends, Settles, RequestInv, TypedRequest
<1>1. TypedRequest'
  BY DEF Phases
<1>2. \A u \in Turns : ResultKept(u)'
  <2> SUFFICES ASSUME NEW u \in Turns PROVE ResultKept(u)'
    OBVIOUS
  <2>1. CASE u = t
    <3>1. events'[t] = <<>> /\ invoke'[t] = "open" /\ phase'[t] = how
      OBVIOUS
    <3>2. ToSet(events'[t]) = {}
      BY <3>1 DEF ToSet
    <3>. QED
      BY <2>1, <3>1, <3>2 DEF ResultKept
  <2>2. CASE u # t
    <3>1. events'[u] = events[u] /\ invoke'[u] = invoke[u] /\ phase'[u] = phase[u]
      BY <2>2
    <3>. QED
      BY <3>1 DEF ResultKept
  <2>. QED
    BY <2>1, <2>2
<1>. QED
  BY <1>1, <1>2

LEMMA RequestInitially == Init => RequestInv
<1> SUFFICES ASSUME Init PROVE RequestInv
  OBVIOUS
<1>1. TypedRequest
  BY DEF Init, TypedRequest, Phases, Events, NoFrames
<1>2. \A t \in Turns : events[t] = <<>> /\ ToSet(events[t]) = {}
  BY DEF Init, ToSet
<1>. QED
  BY <1>1, <1>2 DEF Init, RequestInv, ResultKept

LEMMA BeginsKeepsRequest ==
  ASSUME RequestInv, NEW t, NEW ms, NEW as, NEW args, Begins(t, ms, as, args)
  PROVE  RequestInv'
<1> USE DEF Begins, RequestInv, TypedRequest
<1>1. TypedRequest'
  BY DEF Phases
<1>2. ASSUME NEW u \in Turns PROVE ResultKept(u)'
  <2>1. CASE u = t
    <3>1. phase[t] = "new" /\ phase'[t] \in {"session", "stream"}
      OBVIOUS
    <3>2. phase'[t] = "session" => shell'[t] = shell[t]
      OBVIOUS
    <3>3. events'[t] = events[t] /\ invoke'[t] = invoke[t]
          /\ told'[t] = told[t] /\ result'[t] = result[t]
      OBVIOUS
    <3>. QED
      BY <2>1, <3>1, <3>2, <3>3 DEF ResultKept
  <2>2. CASE u # t
    <3>1. events'[u] = events[u] /\ invoke'[u] = invoke[u] /\ shell'[u] = shell[u]
          /\ told'[u] = told[u] /\ result'[u] = result[u] /\ phase'[u] = phase[u]
      BY <2>2
    <3>. QED
      BY <3>1 DEF ResultKept
  <2>. QED
    BY <2>1, <2>2
<1>. QED
  BY <1>1, <1>2

LEMMA ReturnsKeepsRequest ==
  ASSUME RequestInv, NEW t \in Turns, shell[t] \in {"posting", "reading"},
         NEW what \in {"plain", "id", "failed", "cancelled"}, Returns(t, what),
         result[t] # "none" => what \in Read \cup {"cancelled"},
         "error" \in ToSet(events'[t]) => what \in {"failed", "cancelled"},
         \/ events' = events
         \/ what = "cancelled" /\ Emits(t, "error"),
         phase' = phase
  PROVE  RequestInv'
<1> USE DEF Returns, RequestInv, TypedRequest, Listens
<1>1. TypedRequest'
  <2>1. events' \in [Turns -> Seq(Events)]
    <3>1. Append(events[t], "error") \in Seq(Events)
      BY DEF Events
    <3>. QED
      BY <3>1 DEF Emits
  <2>. QED
    BY <2>1 DEF NoFrames
<1>2. ASSUME NEW u \in Turns PROVE ResultKept(u)'
  <2>1. CASE u = t
    <3>1. shell'[t] = "over" /\ result'[t] = "none"
          /\ invoke'[t] = IF phase[t] = "stream" THEN what ELSE invoke[t]
      OBVIOUS
    <3>2. \/ events'[t] = events[t]
          \/ what = "cancelled" /\ phase[t] = "stream"
      BY DEF Emits
    <3>3. phase[t] \notin {"new", "session"}
      BY DEF ResultKept
    <3>4. ToSet(events[t]) \cap Read # {} /\ phase[t] = "stream" =>
            what \in Read \cup {"cancelled"}
      BY DEF ResultKept, Read
    <3>5. "error" \in ToSet(events'[t]) /\ phase[t] = "stream" =>
            what \in {"failed", "cancelled"}
      OBVIOUS
    <3>. QED
      BY <2>1, <3>1, <3>2, <3>3, <3>4, <3>5 DEF ResultKept
  <2>2. CASE u # t
    <3>1. events'[u] = events[u] /\ invoke'[u] = invoke[u] /\ shell'[u] = shell[u]
          /\ told'[u] = told[u] /\ result'[u] = result[u]
      BY <2>2 DEF Emits
    <3>. QED
      BY <3>1 DEF ResultKept
  <2>. QED
    BY <2>1, <2>2
<1>. QED
  BY <1>1, <1>2

\* The request of a turn as it was, or that of another turn.
LEMMA RequestUnchanged ==
  ASSUME RequestInv, UNCHANGED <<phase, shell, told, result, events, invoke>>
  PROVE  RequestInv'
BY DEF RequestInv, TypedRequest, ResultKept

LEMMA RequestKept ==
  ASSUME RequestInv, [Next]_vars
  PROVE  RequestInv'
<1> USE DEF Begins, window, request
<1>1. CASE UNCHANGED vars
  BY <1>1, RequestUnchanged DEF vars
<1>2. ASSUME NEW t \in Turns, Send(t) PROVE RequestInv'
  BY <1>2, BeginsKeepsRequest DEF Send
<1>3. CASE Stop
  BY <1>3, RequestUnchanged DEF Stop
<1>4. ASSUME NEW i, DeleteMessage(i) PROVE RequestInv'
  BY <1>4, RequestUnchanged DEF DeleteMessage
<1>5. ASSUME NEW t \in Turns, NEW i, EditUserMessage(t, i) PROVE RequestInv'
  BY <1>5, BeginsKeepsRequest DEF EditUserMessage
<1>6. ASSUME NEW t \in Turns, NEW i, RetryAssistantMessage(t, i) PROVE RequestInv'
  BY <1>6, BeginsKeepsRequest DEF RetryAssistantMessage
<1>7. ASSUME NEW s, OpenSession(s) PROVE RequestInv'
  BY <1>7, RequestUnchanged DEF OpenSession
<1>8. ASSUME NEW s, StartNewSession(s) PROVE RequestInv'
  BY <1>8, RequestUnchanged DEF StartNewSession
<1>9. ASSUME NEW s, RemoveSession(s) PROVE RequestInv'
  BY <1>9, RequestUnchanged DEF RemoveSession
<1>10. ASSUME NEW t \in Turns, SessionReady(t) PROVE RequestInv'
  <2>1. TypedRequest'
    BY <1>10 DEF SessionReady, RequestInv, TypedRequest, Phases
  <2>2. ASSUME NEW u \in Turns PROVE ResultKept(u)'
    BY <1>10 DEF SessionReady, RequestInv, TypedRequest, ResultKept
  <2>. QED
    BY <2>1, <2>2 DEF RequestInv
<1>11. ASSUME NEW t \in Turns, SessionFails(t) PROVE RequestInv'
  BY <1>11, EndKeepsRequest DEF SessionFails, Fails
<1>12. ASSUME NEW t \in Turns, Deliver(t) PROVE RequestInv'
  <2>1. CASE /\ events[t] # <<>> /\ events' = [events EXCEPT ![t] = Tail(@)]
             /\ UNCHANGED <<phase, shell, told, result, invoke>>
    <3>1. /\ Tail(events[t]) \in Seq(Events)
          /\ ToSet(Tail(events[t])) \subseteq ToSet(events[t])
      BY <2>1, ToSetTail DEF RequestInv, TypedRequest
    <3>2. TypedRequest'
      BY <2>1, <3>1 DEF RequestInv, TypedRequest
    <3>3. ASSUME NEW u \in Turns PROVE ResultKept(u)'
      <4>1. ToSet(events'[u]) \subseteq ToSet(events[u])
        BY <2>1, <3>1 DEF RequestInv, TypedRequest
      <4>. QED
        BY <2>1, <4>1 DEF RequestInv, ResultKept
    <3>. QED
      BY <3>2, <3>3 DEF RequestInv
  <2>2. ASSUME NEW final, Finishes(t, final) PROVE RequestInv'
    BY <1>12, <2>2, EndKeepsRequest DEF Deliver, Finishes
  <2>3. ASSUME NEW ms, NEW text, Fails(t, ms, text) PROVE RequestInv'
    BY <1>12, <2>3, EndKeepsRequest DEF Deliver, Fails
  <2>. QED
    BY <1>12, <2>1, <2>2, <2>3 DEF Deliver
<1>13. ASSUME NEW t \in Turns, InvokeReturns(t) PROVE RequestInv'
  BY <1>13, EndKeepsRequest DEF InvokeReturns, Finishes, Fails
<1>14. ASSUME NEW t \in Turns, ShellStarts(t) PROVE RequestInv'
  <2>1. TypedRequest'
    BY <1>14 DEF ShellStarts, RequestInv, TypedRequest
  <2>2. ASSUME NEW u \in Turns PROVE ResultKept(u)'
    BY <1>14 DEF ShellStarts, RequestInv, TypedRequest, ResultKept
  <2>. QED
    BY <2>1, <2>2 DEF RequestInv
<1>15. ASSUME NEW t \in Turns, ShellOpens(t) PROVE RequestInv'
  <2>1. CASE Returns(t, "failed")
    <3>1. result[t] = "none" /\ ToSet(events[t]) \cap Read = {}
      BY <1>15 DEF ShellOpens, RequestInv, TypedRequest, ResultKept, Read
    <3>. QED
      BY <1>15, <2>1, <3>1, ReturnsKeepsRequest DEF ShellOpens
  <2>2. CASE ~Returns(t, "failed")
    <3>1. TypedRequest'
      BY <1>15, <2>2 DEF ShellOpens, RequestInv, TypedRequest
    <3>2. ASSUME NEW u \in Turns PROVE ResultKept(u)'
      BY <1>15, <2>2 DEF ShellOpens, RequestInv, TypedRequest, ResultKept
    <3>. QED
      BY <3>1, <3>2 DEF RequestInv
  <2>. QED
    BY <2>1, <2>2
<1>16. ASSUME NEW t \in Turns, ShellReads(t) PROVE RequestInv'
  <2>1. PICK e \in Events :
          /\ Emits(t, e)
          /\ result' = [result EXCEPT ![t] = IF e \in Read THEN e ELSE @]
          /\ told' = [told EXCEPT ![t] =
               [response |-> @.response \/ e = "response",
                deltas |-> IF e = "delta" THEN @.deltas + 1 ELSE @.deltas,
                error |-> e = "error"]]
    BY <1>16 DEF ShellReads, Events, Read
  <2>2. /\ shell[t] = "reading" /\ result[t] = "none" /\ ~told[t].error
        /\ UNCHANGED <<phase, shell, invoke>>
    BY <1>16 DEF ShellReads
  <2>3. /\ Append(events[t], e) \in Seq(Events)
        /\ ToSet(Append(events[t], e)) = ToSet(events[t]) \cup {e}
    BY ToSetAppend DEF RequestInv, TypedRequest
  <2>4. TypedRequest'
    BY <2>1, <2>2, <2>3 DEF RequestInv, TypedRequest, Emits, Read
  <2>5. ASSUME NEW u \in Turns PROVE ResultKept(u)'
    <3>1. CASE u = t
      <4>1. /\ result'[t] = IF e \in Read THEN e ELSE "none"
            /\ told'[t].error = (e = "error")
        BY <2>1, <2>2 DEF RequestInv, TypedRequest
      <4>2. ToSet(events'[t]) = IF phase[t] = "stream" THEN ToSet(events[t]) \cup {e}
                                                       ELSE ToSet(events[t])
        BY <2>1, <2>3 DEF RequestInv, TypedRequest, Emits, Listens
      <4>. QED
        BY <2>2, <3>1, <4>1, <4>2 DEF RequestInv, ResultKept, Read
    <3>2. CASE u # t
      <4>1. events'[u] = events[u] /\ told'[u] = told[u] /\ result'[u] = result[u]
        BY <2>1, <3>2 DEF RequestInv, TypedRequest, Emits
      <4>. QED
        BY <2>2, <4>1 DEF RequestInv, ResultKept
    <3>. QED
      BY <3>1, <3>2
  <2>. QED
    BY <2>4, <2>5 DEF RequestInv
<1>17. ASSUME NEW t \in Turns, StreamEnds(t) PROVE RequestInv'
  <2>1. result[t] \in {"none", "plain", "id"} /\ shell[t] = "reading"
    BY <1>17 DEF StreamEnds, RequestInv, TypedRequest
  <2>2. "error" \in ToSet(events[t]) => result[t] = "none"
    BY <2>1 DEF RequestInv, ResultKept
  <2>. QED
    BY <1>17, <2>1, <2>2, ReturnsKeepsRequest DEF StreamEnds, Read
<1>18. ASSUME NEW t \in Turns, ShellCancelled(t) PROVE RequestInv'
  BY <1>18, ReturnsKeepsRequest DEF ShellCancelled
<1>. QED
  BY <1>1, <1>2, <1>3, <1>4, <1>5, <1>6, <1>7, <1>8, <1>9, <1>10, <1>11, <1>12, <1>13,
     <1>14, <1>15, <1>16, <1>17, <1>18 DEF Next, User, Progress

\* A result that submit_chat_turn_stream has read is shown by submitChatTurnStream,
\* whichever of the event and the return comes first and whatever breaks after it.
THEOREM ResultShown == Spec => ResultIsShown
<1> DEFINE Leaves(t) == phase[t] = "stream" /\ phase'[t] # "stream"
<1>1. ASSUME RequestInv, [Next]_vars, NEW t \in Turns, Leaves(t),
             ResultRead(t), invoke[t] # "cancelled"
      PROVE  phase'[t] = "answered"
  <2> USE DEF window, request, RequestInv, TypedRequest
  <2>1. ~UNCHANGED phase
    BY <1>1
  <2>2. ASSUME NEW u, NEW ms, NEW as, NEW args, Begins(u, ms, as, args) PROVE FALSE
    <3>1. u \in Turns /\ phase[u] = "new" /\ phase' \in {[phase EXCEPT ![u] = "session"],
                                                        [phase EXCEPT ![u] = "stream"]}
      BY <2>2 DEF Begins
    <3>. QED
      BY <1>1, <3>1
  <2>3. ASSUME NEW u \in Turns, NEW how, Ends(u, how) PROVE u = t /\ phase'[t] = how
    BY <1>1, <2>3 DEF Ends
  <2>4. PICK u \in Turns : \/ SessionReady(u) \/ SessionFails(u) \/ Deliver(u)
                           \/ InvokeReturns(u)
    BY <1>1, <2>1, <2>2 DEF Next, User, Progress, vars, Send, Stop, DeleteMessage,
       EditUserMessage, RetryAssistantMessage, OpenSession, StartNewSession, RemoveSession,
       ShellStarts, ShellOpens, ShellReads, StreamEnds, ShellCancelled, Returns
  <2>5. CASE SessionReady(u)
    BY <1>1, <2>5 DEF SessionReady
  <2>6. CASE SessionFails(u)
    BY <1>1, <2>3, <2>6 DEF SessionFails, Fails
  <2>7. ~("error" \in ToSet(events[t])) /\ invoke[t] # "failed"
    BY <1>1 DEF ResultRead, ResultKept, Read
  <2>8. CASE Deliver(u)
    <3>1. \/ \E final : Finishes(u, final)
          \/ Head(events[u]) = "error" /\ events[u] # <<>> /\ \E ms, text : Fails(u, ms, text)
      BY <2>1, <2>8 DEF Deliver
    <3>2. events[u] \in Seq(Events)
      BY <1>1
    <3>3. events[u] # <<>> => Head(events[u]) \in ToSet(events[u])
      BY <3>2, ToSetTail
    <3>. QED
      BY <2>3, <2>7, <3>1, <3>3 DEF Finishes, Fails
  <2>9. CASE InvokeReturns(u)
    BY <1>1, <2>3, <2>7, <2>9 DEF InvokeReturns, Finishes, Fails
  <2>. QED
    BY <2>4, <2>5, <2>6, <2>8, <2>9
<1>2. RequestInv /\ [Next]_vars => [\A t \in Turns :
        (phase[t] = "stream" /\ phase'[t] # "stream" /\ ResultRead(t) /\ invoke[t] # "cancelled")
          => phase'[t] = "answered"]_vars
  BY <1>1
<1>. QED
  BY <1>2, RequestInitially, RequestKept, PTL DEF Spec, ResultIsShown

-----------------------------------------------------------------------------
(* A window whose turns are neither stopped nor left                       *)

Chats == Sessions \cup {NoSession}
Begun == {t \in Turns : phase[t] \in {"stream", "answered", "failed"}}
Over == {t \in Turns : phase[t] \in {"answered", "failed"}}

TypedChats ==
  /\ session \in Chats
  /\ chats \in [Chats -> Seq(Message)]
  /\ anchor \in [Sessions -> Turns \cup {NoTurn}]
  /\ backend \subseteq Sessions /\ listed \subseteq Sessions
  /\ sent \in [Turns -> Arguments]

\* One turn is under way while the window waits, and in the chat that is shown.
OneLive ==
  /\ pending \in BOOLEAN
  /\ pending <=> Live # {}
  /\ \A t, u \in Live : t = u
  /\ \A t \in Turns : /\ phase[t] = "session" => session = NoSession
                      /\ phase[t] = "stream" => session \in Sessions /\ sent[t].home = session

\* The responses of a chat are of its turns, each of one message and none deleted; that
\* of the turn under way is in the last bubble.
Owned(s) ==
  /\ Unique(chats[s])
  /\ \A r \in Responses(chats[s]) :
       /\ r \in Begun \ deleted /\ sent[r].home = s
       /\ phase[r] = "stream" => r = LastBubble(chats[s]).response

\* A session continues from a response of its own that is still there.
Anchored ==
  \A s \in Sessions : anchor[s] # NoTurn =>
    anchor[s] \in Over \ deleted /\ sent[anchor[s]].home = s

Calm ==
  /\ TypedChats
  /\ OneLive
  /\ \A s \in Chats : Owned(s)
  /\ Anchored
  /\ deleted \subseteq Over

\* Once a turn goes on without its chat, none of this need be so.
CalmInv == strayed = {} => Calm

\* What the window does to its anchors and its deletions when messages are cut.
CutsTo(ms, gone) ==
  /\ ms \in Seq(Message) /\ Unique(ms)
  /\ gone \subseteq Responses(chats[session])
  /\ Responses(ms) \subseteq Responses(chats[session]) \ gone

AnchorsAt(as, gone) ==
  /\ as \in [Sessions -> Turns \cup {NoTurn}]
  /\ \A s \in Sessions : as[s] # NoTurn =>
       as[s] \in Over \ (deleted \cup gone) /\ sent[as[s]].home = s

LEMMA SyncedIs ==
  ASSUME TypedRequest, Calm, ~pending, NEW ms, NEW gone, CutsTo(ms, gone)
  PROVE  AnchorsAt(Synced(ms), gone)
<1> USE DEF Calm, TypedChats, TypedRequest
<1>1. Live = {}
  BY DEF OneLive
<1>2. \A r \in Responses(chats[session]) : r \in Over \ deleted /\ sent[r].home = session
  BY <1>1 DEF Owned, Begun, Over, Live
<1>3. CASE session = NoSession
  <2>1. Synced(ms) = anchor
    BY <1>3 DEF Synced
  <2>2. \A s \in Sessions : s # session
    BY <1>3, ConstantsAssumption
  <2>. QED
    BY <1>2, <2>1, <2>2 DEF CutsTo, AnchorsAt, Anchored
<1>4. CASE session # NoSession
  <2> DEFINE last == LastResponse(ms)
  <2>1. last \in Responses(ms) \cup {0}
    BY LastResponseIs DEF CutsTo
  <2>2. Synced(ms) = [anchor EXCEPT ![session] = last] /\ session \in Sessions
    BY <1>4 DEF Synced, Chats
  <2> HIDE DEF last
  <2>3. last # 0 => last \in Over \ (deleted \cup gone) /\ sent[last].home = session
    BY <1>2, <2>1 DEF CutsTo
  <2>4. last \in Turns \cup {0}
    BY <2>3 DEF Over
  <2>5. \A s \in Sessions : s # session => Synced(ms)[s] = anchor[s]
    BY <2>2
  <2>6. ASSUME NEW s \in Sessions, Synced(ms)[s] # 0
        PROVE  Synced(ms)[s] \in Over \ (deleted \cup gone) /\ sent[Synced(ms)[s]].home = s
    <3>1. CASE s = session
      BY <2>2, <2>3, <2>6, <3>1
    <3>2. CASE s # session
      BY <1>2, <2>5, <2>6, <3>2 DEF CutsTo, Anchored
    <3>. QED
      BY <3>1, <3>2
  <2>. QED
    BY <2>2, <2>4, <2>6 DEF AnchorsAt
<1>. QED
  BY <1>3, <1>4

\* Without a cut.
LEMMA NoCut ==
  ASSUME Calm
  PROVE  CutsTo(chats[session], {}) /\ AnchorsAt(anchor, {})
BY DEF Calm, TypedChats, CutsTo, AnchorsAt, Owned, Anchored

\* The arguments of a send.
LEMMA AtHomeIs ==
  ASSUME NEW args \in Arguments, NEW s \in Sessions,
         NEW as \in [Sessions -> Turns \cup {NoTurn}]
  PROVE  LET a == AtHome(args, s, as)
         IN /\ a \in Arguments /\ a.home = s /\ a.adds = args.adds
            /\ a.question = args.question
            /\ a.previous = IF args.previous # 0 THEN args.previous ELSE as[s]
BY DEF AtHome, Arguments

\* A turn begins, over what a cut has left.
LEMMA BeginsCalm ==
  ASSUME TypedRequest, Calm, NEW t, NEW ms, NEW as, NEW gone, NEW args \in Arguments,
         CutsTo(ms, gone), AnchorsAt(as, gone), Begins(t, ms, as, args),
         deleted' = deleted \cup gone, args.home = NoSession
  PROVE  Calm'
<1> USE DEF Calm, TypedChats, TypedRequest
<1>1. Live = {} /\ t \in Turns /\ phase[t] = "new" /\ pending' = TRUE
  BY DEF Begins, OneLive
<1>2. \A s \in Chats : \A r \in Responses(chats[s]) : r \in Over \ deleted /\ sent[r].home = s
  BY <1>1 DEF Owned, Begun, Over, Live
<1>3. PICK now \in {"session", "stream"}, a \in Arguments, ns \in Seq(Message) :
         /\ phase' = [phase EXCEPT ![t] = now]
         /\ sent' = [sent EXCEPT ![t] = a]
         /\ chats' = [chats EXCEPT ![session] = ns]
         /\ Unique(ns) /\ Responses(ns) \subseteq Responses(ms)
         /\ now = "session" => session = NoSession
         /\ now = "stream" => session \in Sessions /\ a.home = session
  <2>1. CASE session = NoSession
    BY <2>1 DEF Begins, Shows, CutsTo
  <2>2. CASE session # NoSession
    <3> DEFINE a == AtHome(args, session, as)
               ns == Placeholder(ms, t, a)
    <3>1. session \in Sessions /\ as \in [Sessions -> Turns \cup {NoTurn}]
      BY <2>2 DEF AnchorsAt, Chats
    <3>2. session \in Sessions /\ a \in Arguments /\ a.home = session
      BY <3>1 DEF AtHome, Arguments, Chats
    <3>3. ns \in Seq(Message) /\ Unique(ns) /\ Responses(ns) \subseteq Responses(ms)
      BY <1>1, <3>2, PlaceholderIs DEF CutsTo
    <3>4. /\ phase' = [phase EXCEPT ![t] = "stream"]
          /\ sent' = [sent EXCEPT ![t] = a]
          /\ chats' = [chats EXCEPT ![session] = ns]
      BY <2>2 DEF Begins, Shows
    <3> HIDE DEF a, ns
    <3>. QED
      BY <2>2, <3>2, <3>3, <3>4
  <2>. QED
    BY <2>1, <2>2
<1>4. anchor' = as /\ UNCHANGED <<session, backend, listed>>
  BY DEF Begins
<1>5. TypedChats'
  BY <1>1, <1>3, <1>4 DEF AnchorsAt, Chats
<1>6. OneLive'
  <2>1. \A u \in Turns : phase'[u] \in {"session", "stream"} <=> u = t
    BY <1>1, <1>3 DEF Live
  <2>2. phase'[t] = now /\ sent'[t] = a
    BY <1>1, <1>3
  <2>. QED
    BY <1>1, <1>3, <1>4, <2>1, <2>2 DEF OneLive, Live
<1>7. \A r \in Over : r \in Over' /\ sent'[r] = sent[r] /\ phase'[r] = phase[r]
  BY <1>1, <1>3 DEF Over
<1>8. ASSUME NEW s \in Chats PROVE Owned(s)'
  <2>1. /\ chats'[s] \in Seq(Message) /\ Unique(chats'[s])
        /\ Responses(chats'[s]) \subseteq Responses(chats[s]) \ gone
    <3>1. CASE s = session
      BY <1>3, <3>1 DEF CutsTo
    <3>2. CASE s # session
      <4>1. chats'[s] = chats[s]
        BY <1>3, <3>2
      <4>2. \A r \in Responses(chats[s]) : r \notin gone
        <5>1. session \in Chats /\ gone \subseteq Responses(chats[session])
          BY DEF CutsTo
        <5> HIDE DEF Calm, TypedChats, TypedRequest
        <5>. QED
          BY <1>2, <3>2, <5>1
      <4>3. chats[s] \in Seq(Message) /\ Unique(chats[s])
        BY DEF Owned
      <4>. QED
        BY <4>1, <4>2, <4>3
    <3>. QED
      BY <3>1, <3>2
  <2>2. \A r \in Responses(chats'[s]) : r \in Over' \ deleted' /\ sent'[r].home = s
    BY <1>2, <1>7, <2>1
  <2>. QED
    BY <2>1, <2>2 DEF Owned, Begun, Over
<1>9. Anchored' /\ (deleted \subseteq Over)'
  <2>1. gone \subseteq Over
    BY <1>2 DEF CutsTo
  <2>. QED
    BY <1>4, <1>7, <2>1 DEF AnchorsAt, Anchored
<1>. QED
  BY <1>5, <1>6, <1>8, <1>9

\* What a turn that is under way writes into the chat that is shown.
LEMMA PatchIs ==
  ASSUME TypedRequest, Calm, NEW t \in Turns, phase[t] = "stream",
         NEW b \in Message, b.who = "assistant",
         b.response \in {0, t, LastBubble(chats[session]).response}
  PROVE  LET ns == UpdateLastAssistant(chats[session], b)
         IN /\ ns \in Seq(Message) /\ Unique(ns)
            /\ \A r \in Responses(ns) : r = t \/ r \in Responses(chats[session])
            /\ b.response \in {t, LastBubble(chats[session]).response} =>
                 (t \in Responses(ns) => t = LastBubble(ns).response)
<1> DEFINE ms == chats[session]
           ns == UpdateLastAssistant(ms, b)
<1>1. ms \in Seq(Message) /\ Unique(ms)
  BY DEF Calm, TypedChats, Owned
<1>2. t \in Responses(ms) => t = LastBubble(ms).response
  BY DEF Calm, TypedChats, Owned
<1> HIDE DEF ms
<1>3. ns \in Seq(Message)
  BY <1>1, UpdateIs
<1>4. LastBubble(ns) = b
  BY <1>1, UpdateLast
<1>5. b.response \in {0, LastBubble(ms).response} \/ b.response \notin Responses(ms)
  BY <1>2 DEF ms
<1>6. Unique(ns) /\ Responses(ns) \subseteq Responses(ms) \cup ({b.response} \ {0})
  BY <1>1, <1>5, UpdateUnique
<1>7. LastAssistant(ms) # 0 => LastAssistant(ms) \in DOMAIN ms
  BY <1>1, LastAssistantIs
<1>8. LastBubble(ms).response = 0 \/ LastBubble(ms).response \in Responses(ms)
  BY <1>1, <1>7, LastBubbleIs DEF Responses
<1>9. b.response \in {0, t} \/ b.response \in Responses(ms)
  BY <1>8 DEF ms
<1> HIDE DEF ns
<1>10. \A r \in Responses(ns) : r = t \/ r \in Responses(ms)
  BY <1>6, <1>9
<1>11. b.response \in {t, LastBubble(ms).response} => (t \in Responses(ns) => t = b.response)
  BY <1>2, <1>6
<1>. QED
  BY <1>3, <1>4, <1>6, <1>10, <1>11 DEF ns, ms

\* A turn ends.
LEMMA EndsCalm ==
  ASSUME TypedRequest, Calm, NEW t \in Live, NEW how \in {"answered", "failed"},
         Ends(t, how), NEW ns, ns \in Seq(Message), Unique(ns), Shows(ns),
         \A r \in Responses(ns) : \/ r = t /\ sent[t].home = session
                                  \/ r \in Responses(chats[session]),
         \/ anchor' = anchor
         \/ anchor' = [anchor EXCEPT ![sent[t].home] = t] /\ phase[t] = "stream",
         \/ listed' = listed
         \/ listed' = listed \cup {sent[t].home} /\ phase[t] = "stream",
         UNCHANGED <<session, backend, sent, deleted>>
  PROVE  Calm'
<1> USE DEF TypedRequest
<1>1. /\ t \in Turns /\ phase[t] \in {"session", "stream"}
      /\ session \in Chats
      /\ phase[t] = "stream" => session \in Sessions /\ sent[t].home = session
      /\ \A u \in Turns : phase[u] \in {"session", "stream"} => u = t
      /\ t \notin deleted
  BY DEF Calm, TypedChats, OneLive, Live, Over
<1>2. phase' = [phase EXCEPT ![t] = how] /\ pending' = FALSE
      /\ chats' = [chats EXCEPT ![session] = ns]
  BY DEF Ends, Shows
<1>3. TypedChats'
  <2>1. anchor \in [Sessions -> Turns \cup {0}] /\ listed \subseteq Sessions
    BY DEF Calm, TypedChats
  <2>2. anchor' \in [Sessions -> Turns \cup {0}] /\ listed' \subseteq Sessions
    BY <1>1, <2>1
  <2>3. chats' \in [Chats -> Seq(Message)]
    BY <1>2 DEF Calm, TypedChats
  <2>. QED
    BY <2>3, <2>2 DEF Calm, TypedChats
<1>4. \A u \in Turns : phase'[u] \notin {"session", "stream"}
  BY <1>1, <1>2
<1>5. OneLive'
  BY <1>2, <1>4 DEF OneLive, Live
<1>6. /\ \A r \in Over : r \in Over'
      /\ t \in Over'
      /\ \A r \in Begun : r \in Over'
  BY <1>1, <1>2, <1>4 DEF Over, Begun
<1>7. \A s \in Chats : \A r \in Responses(chats[s]) : r \in Over' \ deleted /\ sent[r].home = s
  BY <1>6 DEF Calm, Owned
<1>8. ASSUME NEW s \in Chats PROVE Owned(s)'
  <2>1. /\ Unique(chats'[s])
        /\ \A r \in Responses(chats'[s]) : \/ r = t /\ sent[t].home = s
                                           \/ r \in Responses(chats[s])
    <3>1. CASE s = session
      <4>1. chats'[s] = ns
        BY <1>1, <1>2, <3>1 DEF Calm, TypedChats
      <4>. QED
        BY <3>1, <4>1
    <3>2. CASE s # session
      <4>1. chats'[s] = chats[s] /\ Unique(chats[s])
        BY <1>2, <3>2 DEF Calm, TypedChats, Owned
      <4>. QED
        BY <4>1
    <3>. QED
      BY <3>1, <3>2
  <2>2. \A r \in Responses(chats'[s]) : r \in Over' \ deleted' /\ sent'[r].home = s
    BY <1>1, <1>6, <1>7, <2>1
  <2>. QED
    BY <2>1, <2>2 DEF Owned, Begun, Over
<1>9. Anchored'
  <2>1. \A s \in Sessions : anchor'[s] = anchor[s] \/ (anchor'[s] = t /\ sent[t].home = s)
    <3>1. anchor \in [Sessions -> Turns \cup {0}]
      BY DEF Calm, TypedChats
    <3>. QED
      BY <3>1
  <2>. QED
    BY <1>1, <1>6, <2>1 DEF Calm, Anchored
<1>10. (deleted \subseteq Over)'
  BY <1>6 DEF Calm
<1>. QED
  BY <1>3, <1>5, <1>8, <1>9, <1>10 DEF Calm

\* A turn goes on: an event is shown.
LEMMA ShownCalm ==
  ASSUME TypedRequest, Calm, NEW t \in Turns, phase[t] = "stream",
         NEW b \in Message, b.who = "assistant",
         b.response \in {t, LastBubble(chats[session]).response},
         Shows(UpdateLastAssistant(chats[session], b)),
         UNCHANGED <<session, anchor, backend, listed, pending, phase, sent, deleted>>
  PROVE  Calm'
<1> DEFINE ns == UpdateLastAssistant(chats[session], b)
<1>1. /\ session \in Sessions /\ sent[t].home = session
      /\ \A u \in Turns : phase[u] = "stream" => u = t
      /\ t \in Begun \ deleted
  BY DEF Calm, OneLive, Live, Begun, Over
<1>2. /\ ns \in Seq(Message) /\ Unique(ns)
      /\ \A r \in Responses(ns) : r = t \/ r \in Responses(chats[session])
      /\ t \in Responses(ns) => t = LastBubble(ns).response
  <2>1. b.response \in {0, t, LastBubble(chats[session]).response}
    OBVIOUS
  <2>. QED
    BY <2>1, PatchIs
<1> HIDE DEF ns
<1>3. chats' = [chats EXCEPT ![session] = ns]
  BY DEF Shows, ns
<1>4. TypedChats'
  BY <1>2, <1>3 DEF Calm, TypedChats
<1>5. ASSUME NEW s \in Chats PROVE Owned(s)'
  <2>1. CASE s = session
    <3>1. chats'[s] = ns
      BY <1>3, <2>1 DEF Calm, TypedChats
    <3>2. \A r \in Responses(ns) : /\ r \in Begun \ deleted /\ sent[r].home = s
                                   /\ phase[r] = "stream" => r = t
      BY <1>1, <1>2, <2>1 DEF Calm, Owned, Begun
    <3>. QED
      BY <1>2, <3>1, <3>2 DEF Owned, Begun
  <2>2. CASE s # session
    <3>1. chats'[s] = chats[s]
      BY <1>3, <2>2 DEF Calm, TypedChats
    <3>. QED
      BY <3>1 DEF Calm, Owned, Begun
  <2>. QED
    BY <2>1, <2>2
<1>6. OneLive' /\ Anchored' /\ (deleted \subseteq Over)'
  BY DEF Calm, OneLive, Live, Anchored, Over
<1>. QED
  BY <1>4, <1>5, <1>6 DEF Calm

\* The user is in another chat, and no turn is under way.
LEMMA NavigatesCalm ==
  ASSUME TypedRequest, Calm, Live = {},
         session' \in Chats, chats' \in [Chats -> Seq(Message)],
         \A s \in Chats : Unique(chats'[s]) /\ Responses(chats'[s]) \subseteq Responses(chats[s]),
         anchor' \in [Sessions -> Turns \cup {NoTurn}],
         \A s \in Sessions : anchor'[s] \in {NoTurn, anchor[s]},
         backend' \subseteq Sessions, listed' \subseteq Sessions,
         UNCHANGED <<pending, phase, sent, deleted>>
  PROVE  Calm'
<1>1. TypedChats'
  BY DEF Calm, TypedChats, Chats
<1>2. OneLive'
  BY DEF Calm, OneLive, Live
<1>3. ASSUME NEW s \in Chats PROVE Owned(s)'
  <2>1. \A r \in Responses(chats'[s]) :
          r \in Begun \ deleted /\ sent[r].home = s /\ phase[r] # "stream"
    BY DEF Calm, Owned, Begun, Live
  <2>. QED
    BY <2>1 DEF Owned, Begun
<1>4. Anchored' /\ (deleted \subseteq Over)'
  BY DEF Calm, Anchored, Over
<1>. QED
  BY <1>1, <1>2, <1>3, <1>4 DEF Calm, Chats

\* The chat of a turn is ready.
LEMMA ReadyCalm ==
  ASSUME TypedRequest, Calm, NEW t \in Turns, SessionReady(t)
  PROVE  Calm'
<1> USE DEF TypedRequest
<1>1. PICK s \in Sessions :
        /\ sent' = [sent EXCEPT ![t] = AtHome(@, s, anchor)]
        /\ ShowsChat(s, Placeholder(Restored(chats[s]), t, AtHome(sent[t], s, anchor)))
        /\ backend' = backend \cup {s} /\ listed' = listed \cup {s}
  <2>1. backend \subseteq Sessions
    BY DEF Calm, TypedChats
  <2>. QED
    BY <2>1 DEF SessionReady
<1>2. /\ phase[t] = "session" /\ phase' = [phase EXCEPT ![t] = "stream"]
      /\ UNCHANGED <<anchor, pending, deleted>>
  BY DEF SessionReady
<1>3. /\ \A u \in Turns : phase[u] \in {"session", "stream"} => u = t
      /\ pending
  BY <1>2 DEF Calm, OneLive, Live
<1>4. \A c \in Chats : \A r \in Responses(chats[c]) : r \in Over \ deleted /\ sent[r].home = c
  BY <1>2, <1>3 DEF Calm, Owned, Begun, Over
<1> DEFINE a == AtHome(sent[t], s, anchor)
           ns == Placeholder(Restored(chats[s]), t, a)
<1>5. a \in Arguments /\ a.home = s
  <2>1. sent[t] \in Arguments /\ anchor \in [Sessions -> Turns \cup {0}]
    BY DEF Calm, TypedChats
  <2>. QED
    BY <2>1 DEF AtHome, Arguments
<1>6. ns \in Seq(Message) /\ Unique(ns) /\ Responses(ns) \subseteq Responses(chats[s])
  <2>1. chats[s] \in Seq(Message) /\ Unique(chats[s])
    BY DEF Calm, TypedChats, Owned, Chats
  <2>2. /\ Restored(chats[s]) \in Seq(Message) /\ Unique(Restored(chats[s]))
        /\ Responses(Restored(chats[s])) = Responses(chats[s])
    BY <2>1, RestoredIs
  <2>. QED
    BY <1>5, <2>2, PlaceholderIs
<1>7. /\ sent' = [sent EXCEPT ![t] = a] /\ session' = s
      /\ chats' = [chats EXCEPT ![s] = ns, ![NoSession] = <<>>]
  BY <1>1 DEF ShowsChat, Calm, TypedChats
<1> HIDE DEF a, ns
<1>8. s # NoSession /\ s \in Chats
  BY ConstantsAssumption DEF Chats
<1>9. chats' \in [Chats -> Seq(Message)]
  <2>1. <<>> \in Seq(Message)
    OBVIOUS
  <2>. QED
    BY <1>6, <1>7, <1>8, <2>1 DEF Calm, TypedChats
<1>10. TypedChats'
  <2>1. /\ anchor \in [Sessions -> Turns \cup {0}] /\ sent \in [Turns -> Arguments]
        /\ backend \subseteq Sessions /\ listed \subseteq Sessions
    BY DEF Calm, TypedChats
  <2>2. backend' \subseteq Sessions /\ listed' \subseteq Sessions
    BY <1>1, <2>1
  <2>3. sent' \in [Turns -> Arguments]
    BY <1>5, <1>7, <2>1
  <2>. QED
    BY <1>2, <1>7, <1>8, <1>9, <2>1, <2>2, <2>3 DEF TypedChats
<1>11. OneLive'
  <2>1. \A u \in Turns : phase'[u] \in {"session", "stream"} <=> u = t
    BY <1>2, <1>3
  <2>2. phase'[t] = "stream" /\ sent'[t] = a
    BY <1>2, <1>7 DEF Calm, TypedChats
  <2>. QED
    BY <1>2, <1>3, <1>5, <1>7, <2>1, <2>2 DEF OneLive, Live
<1>12. \A r \in Over : r \in Over' /\ phase'[r] = phase[r] /\ sent'[r] = sent[r]
  BY <1>2, <1>7 DEF Over, Calm, TypedChats
<1>13. ASSUME NEW c \in Chats PROVE Owned(c)'
  <2>1. Unique(chats'[c]) /\ Responses(chats'[c]) \subseteq Responses(chats[c])
    <3>1. CASE c = s
      <4>1. chats'[c] = ns
        BY <1>7, <1>8, <3>1 DEF Calm, TypedChats
      <4>. QED
        BY <1>6, <3>1, <4>1
    <3>2. CASE c = NoSession
      <4>1. chats'[c] = <<>>
        BY <1>7, <1>8, <3>2 DEF Calm, TypedChats
      <4>. QED
        BY <4>1 DEF Unique, Responses
    <3>3. CASE c \notin {s, NoSession}
      <4>1. chats'[c] = chats[c] /\ Unique(chats[c])
        BY <1>7, <3>3 DEF Calm, TypedChats, Owned
      <4>. QED
        BY <4>1
    <3>. QED
      BY <3>1, <3>2, <3>3
  <2>2. \A r \in Responses(chats'[c]) :
          r \in Over' \ deleted' /\ sent'[r].home = c
    BY <1>2, <1>4, <1>12, <2>1
  <2>. QED
    BY <2>1, <2>2 DEF Owned, Begun, Over
<1>14. Anchored' /\ (deleted \subseteq Over)'
  BY <1>2, <1>12 DEF Calm, Anchored
<1>. QED
  BY <1>10, <1>11, <1>13, <1>14 DEF Calm

\* A turn that has no chat fails.
LEMMA SessionFailsCalm ==
  ASSUME TypedRequest, Calm, NEW t \in Turns, SessionFails(t)
  PROVE  Calm'
<1> DEFINE ns == Placeholder(chats[session], t, sent[t])
           b == Patched(ns, t, "error", sent[t].previous)
           us == UpdateLastAssistant(ns, b)
<1>1. /\ Ends(t, "failed") /\ Shows(us)
      /\ UNCHANGED <<anchor, listed, session, backend, sent, deleted>>
      /\ t \in Live
  BY DEF SessionFails, Fails, Live
<1>2. /\ chats[session] \in Seq(Message) /\ Unique(chats[session])
      /\ sent[t] \in Arguments
  BY DEF Calm, TypedChats, Owned
<1>3. ns \in Seq(Message) /\ Unique(ns) /\ Responses(ns) \subseteq Responses(chats[session])
  BY <1>2, PlaceholderIs
<1> HIDE DEF ns
<1>4. b \in Message /\ b.who = "assistant" /\ b.response = LastBubble(ns).response
  <2>1. sent[t].previous \in Turns \cup {0}
    BY <1>2 DEF Arguments
  <2>. QED
    BY <1>3, <2>1, PatchedIs
<1> HIDE DEF b
<1>5. b.response = 0 \/ b.response \in Responses(ns)
  <2>1. LastAssistant(ns) # 0 => LastAssistant(ns) \in DOMAIN ns
    BY <1>3, LastAssistantIs
  <2>. QED
    BY <1>3, <1>4, <2>1, LastBubbleIs DEF Responses
<1>6. us \in Seq(Message)
  BY <1>3, <1>4, UpdateIs
<1>7. Unique(us) /\ Responses(us) \subseteq Responses(ns) \cup ({b.response} \ {0})
  BY <1>3, <1>4, UpdateUnique
<1>8. \A r \in Responses(us) : r \in Responses(chats[session])
  BY <1>3, <1>5, <1>7
<1> HIDE DEF us
<1>. QED
  BY <1>1, <1>6, <1>7, <1>8, EndsCalm

\* A result, or an error, is shown.
LEMMA FinishesCalm ==
  ASSUME TypedRequest, Calm, NEW t \in Turns, phase[t] = "stream",
         NEW final, Finishes(t, final),
         UNCHANGED <<session, backend, sent, deleted>>
  PROVE  Calm'
<1> DEFINE p == Patched(chats[session], t, "answer", sent[t].previous)
           b == [p EXCEPT !.response = IF final = "id" THEN t ELSE NoTurn]
           ns == UpdateLastAssistant(chats[session], b)
<1>1. /\ chats[session] \in Seq(Message) /\ sent[t].previous \in Turns \cup {0}
      /\ sent[t].home = session
  BY DEF Calm, TypedChats, OneLive, Arguments
<1>2. p \in Message /\ p.who = "assistant"
  BY <1>1, PatchedIs
<1>3. /\ Ends(t, "answered") /\ Shows(ns) /\ listed' = listed \cup {sent[t].home}
      /\ \/ anchor' = anchor
         \/ anchor' = [anchor EXCEPT ![sent[t].home] = t]
  BY DEF Finishes
<1> HIDE DEF p
<1>4. b \in Message /\ b.who = "assistant" /\ b.response \in {0, t}
  BY <1>2 DEF Message
<1> HIDE DEF b
<1>5. /\ ns \in Seq(Message) /\ Unique(ns)
      /\ \A r \in Responses(ns) : r = t \/ r \in Responses(chats[session])
  BY <1>4, PatchIs
<1> HIDE DEF ns
<1>6. t \in Live
  BY DEF Live
<1>. QED
  BY <1>1, <1>3, <1>5, <1>6, EndsCalm

LEMMA FailsCalm ==
  ASSUME TypedRequest, Calm, NEW t \in Turns, phase[t] = "stream",
         NEW text \in {"empty", "error"}, Fails(t, chats[session], text),
         UNCHANGED <<session, backend, sent, deleted>>
  PROVE  Calm'
<1> DEFINE b == Patched(chats[session], t, text, sent[t].previous)
           ns == UpdateLastAssistant(chats[session], b)
<1>1. /\ chats[session] \in Seq(Message) /\ sent[t].previous \in Turns \cup {0}
      /\ sent[t].home = session
  BY DEF Calm, TypedChats, OneLive, Arguments
<1>2. b \in Message /\ b.who = "assistant" /\ b.response = LastBubble(chats[session]).response
  BY <1>1, PatchedIs
<1>3. Ends(t, "failed") /\ Shows(ns) /\ UNCHANGED <<anchor, listed>>
  BY DEF Fails
<1> HIDE DEF b
<1>4. /\ ns \in Seq(Message) /\ Unique(ns)
      /\ \A r \in Responses(ns) : r = t \/ r \in Responses(chats[session])
  BY <1>2, PatchIs
<1> HIDE DEF ns
<1>5. t \in Live
  BY DEF Live
<1>. QED
  BY <1>1, <1>3, <1>4, <1>5, EndsCalm

LEMMA DeliverCalm ==
  ASSUME RequestInv, Calm, NEW t \in Turns, Deliver(t)
  PROVE  Calm'
<1>1. TypedRequest
  BY DEF RequestInv
<1>2. phase[t] = "stream"
  <2>1. events[t] \in Seq(Events) /\ events[t] # <<>>
    BY DEF RequestInv, TypedRequest, Deliver
  <2>2. Head(events[t]) \in ToSet(events[t])
    BY <2>1, ToSetTail
  <2>. QED
    BY <2>2 DEF RequestInv, ResultKept
<1>3. CASE \E final : Finishes(t, final)
  BY <1>1, <1>2, <1>3, FinishesCalm DEF Deliver
<1>4. CASE Fails(t, chats[session], "error")
  BY <1>1, <1>2, <1>4, FailsCalm DEF Deliver
<1>5. ASSUME NEW text \in {"empty", "part"}, NEW response \in BOOLEAN,
             Shows(UpdateLastAssistant(chats[session],
               [Patched(chats[session], t, text, sent[t].previous)
                  EXCEPT !.streaming = TRUE, !.response = IF response THEN t ELSE @])),
             UNCHANGED <<anchor, listed, pending, phase>>
      PROVE  Calm'
  <2> DEFINE p == Patched(chats[session], t, text, sent[t].previous)
             b == [p EXCEPT !.streaming = TRUE, !.response = IF response THEN t ELSE @]
  <2>1. chats[session] \in Seq(Message) /\ sent[t].previous \in Turns \cup {0}
    BY DEF Calm, TypedChats, Arguments
  <2>2. /\ p \in Message /\ p.who = "assistant"
        /\ p.response = LastBubble(chats[session]).response
    BY <2>1, PatchedIs
  <2>3. Shows(UpdateLastAssistant(chats[session], b))
    BY <1>5
  <2> HIDE DEF p
  <2>4. /\ b \in Message /\ b.who = "assistant"
        /\ b.response \in {t, LastBubble(chats[session]).response}
    BY <2>2 DEF Message
  <2> HIDE DEF b
  <2>5. UNCHANGED <<session, anchor, backend, listed, pending, phase, sent, deleted>>
    BY <1>5 DEF Deliver
  <2>. QED
    BY <1>1, <1>2, <2>3, <2>4, <2>5, ShownCalm
<1>6. \/ \E final : Finishes(t, final)
      \/ Fails(t, chats[session], "error")
      \/ \E text \in {"empty", "part"}, response \in BOOLEAN :
           /\ Shows(UpdateLastAssistant(chats[session],
                [Patched(chats[session], t, text, sent[t].previous)
                   EXCEPT !.streaming = TRUE, !.response = IF response THEN t ELSE @]))
           /\ UNCHANGED <<anchor, listed, pending, phase>>
  BY DEF Deliver
<1>. QED
  BY <1>3, <1>4, <1>5, <1>6

\* A cut to the end is a prefix.
LEMMA PrefixIs ==
  ASSUME NEW ms, ms \in Seq(Message), NEW i \in 1..Len(ms)
  PROVE  SubSeq(ms, 1, i - 1) = Cut(ms, i, Len(ms))
<1> DEFINE xs == SubSeq(ms, 1, i - 1)
           ys == SubSeq(ms, Len(ms) + 1, Len(ms))
<1>1. xs \in Seq(Message)
  BY SubSeqProperties
<1>2. ys \in Seq(Message) /\ Len(ys) = 0
  BY SubSeqProperties
<1> HIDE DEF xs, ys
<1>3. ys = <<>>
  BY <1>2, EmptySeq
<1>4. xs \o <<>> = xs
  BY <1>1
<1>. QED
  BY <1>3, <1>4 DEF Cut, xs, ys

LEMMA CutCalm ==
  ASSUME Calm, NEW i \in 1..Len(chats[session]), NEW j \in i..Len(chats[session])
  PROVE  CutsTo(Cut(chats[session], i, j), Responses(SubSeq(chats[session], i, j)))
<1>1. chats[session] \in Seq(Message) /\ Unique(chats[session])
  BY DEF Calm, TypedChats, Owned
<1>. QED
  BY <1>1, CutUnique DEF CutsTo

LEMMA CalmInitially == Init => Calm
<1> SUFFICES ASSUME Init PROVE Calm
  OBVIOUS
<1>1. session \in Sessions
  BY ConstantsAssumption DEF Init
<1>2. <<>> \in Seq(Message) /\ Unique(<<>>) /\ Responses(<<>>) = {}
  BY DEF Unique, Responses
<1>3. TypedChats
  BY <1>1, <1>2 DEF Init, TypedChats, Chats, Arguments
<1>4. OneLive
  BY DEF Init, OneLive, Live
<1>5. ASSUME NEW s \in Chats PROVE Owned(s)
  BY <1>2 DEF Init, Owned, Chats
<1>6. Anchored /\ deleted \subseteq Over
  BY DEF Init, Anchored
<1>. QED
  BY <1>3, <1>4, <1>5, <1>6 DEF Calm

\* Only what the calm depends on.
LEMMA CalmUnchanged ==
  ASSUME Calm,
         UNCHANGED <<session, chats, anchor, backend, listed, pending, phase, sent, deleted>>
  PROVE  Calm'
BY DEF Calm, TypedChats, OneLive, Live, Owned, Anchored, Begun, Over

\* The chat of one session is shown, or removed, and what no session had goes.
LEMMA ChatCalm ==
  ASSUME TypedRequest, Calm, NEW s \in Sessions,
         NEW ms, ms \in Seq(Message), Unique(ms), Responses(ms) \subseteq Responses(chats[s]),
         Live = {},
         \/ chats' = [chats EXCEPT ![s] = ms, ![NoSession] = <<>>]
         \/ chats' = [chats EXCEPT ![s] = ms],
         session' \in {s, session, NoSession},
         anchor' = anchor \/ anchor' = [anchor EXCEPT ![s] = NoTurn],
         backend' \subseteq backend \cup {s}, listed' \subseteq listed \cup {s},
         UNCHANGED <<pending, phase, sent, deleted>>
  PROVE  Calm'
<1>1. /\ <<>> \in Seq(Message) /\ Unique(<<>>) /\ Responses(<<>>) = {}
      /\ s \in Chats /\ NoSession \in Chats
  BY DEF Unique, Responses, Chats
<1>2. chats \in [Chats -> Seq(Message)] /\ \A c \in Chats : Unique(chats[c])
  BY DEF Calm, TypedChats, Owned
<1>3. chats' \in [Chats -> Seq(Message)]
  BY <1>1, <1>2
<1>4. ASSUME NEW c \in Chats
      PROVE  Unique(chats'[c]) /\ Responses(chats'[c]) \subseteq Responses(chats[c])
  <2>1. \/ chats'[c] = chats[c]
        \/ c = s /\ chats'[c] = ms
        \/ chats'[c] = <<>>
    BY <1>2
  <2>. QED
    BY <1>1, <1>2, <2>1
<1>5. anchor' \in [Sessions -> Turns \cup {0}]
      /\ \A c \in Sessions : anchor'[c] \in {0, anchor[c]}
  <2>1. anchor \in [Sessions -> Turns \cup {0}]
    BY DEF Calm, TypedChats
  <2>. QED
    BY <2>1
<1>6. session' \in Chats /\ backend' \subseteq Sessions /\ listed' \subseteq Sessions
  BY <1>1 DEF Calm, TypedChats
<1>. QED
  BY <1>3, <1>4, <1>5, <1>6, NavigatesCalm

\* A message is deleted.
LEMMA DeleteCalm ==
  ASSUME TypedRequest, Calm, NEW i, DeleteMessage(i)
  PROVE  Calm'
<1> DEFINE ms == chats[session]
<1>1. /\ ms \in Seq(Message) /\ i \in 1..Len(ms) /\ ~pending
      /\ session \in Chats
  BY DEF DeleteMessage, CanEdit, Calm, TypedChats
<1>2. PICK j \in i..Len(ms) :
        /\ Shows(Cut(ms, i, j)) /\ anchor' = Synced(Cut(ms, i, j))
        /\ deleted' = deleted \cup Responses(SubSeq(ms, i, j))
        /\ UNCHANGED <<session, backend, listed, pending, phase, sent>>
  <2> DEFINE j == IF /\ ms[i].who = "user"
                     /\ i < Len(ms) /\ ms[i + 1].who = "assistant"
                  THEN i + 1 ELSE i
  <2>1. /\ Shows(Cut(ms, i, j)) /\ anchor' = Synced(Cut(ms, i, j))
        /\ deleted' = deleted \cup Responses(SubSeq(ms, i, j))
        /\ UNCHANGED <<session, backend, listed, pending, phase, sent>>
    BY DEF DeleteMessage, Cut
  <2>2. j \in i..Len(ms)
    BY <1>1
  <2> HIDE DEF j
  <2>. QED
    BY <2>1, <2>2
<1> DEFINE kept == Cut(ms, i, j)
           gone == Responses(SubSeq(ms, i, j))
<1>3. CutsTo(kept, gone)
  BY <1>1, CutCalm
<1>4. Shows(kept) /\ anchor' = Synced(kept) /\ deleted' = deleted \cup gone
  BY <1>2
<1> HIDE DEF ms, kept, gone
<1>5. AnchorsAt(anchor', gone)
  BY <1>1, <1>3, <1>4, SyncedIs
<1>6. Live = {}
  BY <1>1 DEF Calm, OneLive
<1>7. \A s \in Chats : \A r \in Responses(chats[s]) : r \in Over \ deleted /\ sent[r].home = s
  BY <1>6 DEF Calm, Owned, Begun, Over, Live
<1>8. chats' = [chats EXCEPT ![session] = kept]
  BY <1>4 DEF Shows
<1>9. TypedChats'
  BY <1>2, <1>3, <1>5, <1>8 DEF Calm, TypedChats, CutsTo, AnchorsAt
<1>10. OneLive'
  BY <1>2 DEF Calm, OneLive, Live
<1>11. ASSUME NEW s \in Chats PROVE Owned(s)'
  <2>1. Unique(chats'[s]) /\ Responses(chats'[s]) \subseteq Responses(chats[s]) \ gone
    <3>1. CASE s = session
      BY <1>3, <1>8, <3>1 DEF Calm, TypedChats, CutsTo
    <3>2. CASE s # session
      <4>1. chats'[s] = chats[s] /\ Unique(chats[s])
        BY <1>8, <3>2 DEF Calm, TypedChats, Owned
      <4>2. \A r \in Responses(chats[s]) : r \notin gone
        BY <1>1, <1>3, <1>7, <3>2 DEF CutsTo
      <4>. QED
        BY <4>1, <4>2
    <3>. QED
      BY <3>1, <3>2
  <2>2. \A r \in Responses(chats'[s]) :
          r \in Over \ deleted' /\ sent[r].home = s
    BY <1>4, <1>7, <2>1
  <2>. QED
    BY <1>2, <2>1, <2>2 DEF Owned, Begun, Over
<1>12. Anchored'
  BY <1>2, <1>4, <1>5 DEF AnchorsAt, Anchored, Over
<1>13. (deleted \subseteq Over)'
  BY <1>1, <1>2, <1>3, <1>4, <1>7 DEF Calm, CutsTo, Over
<1>. QED
  BY <1>9, <1>10, <1>11, <1>12, <1>13 DEF Calm

LEMMA CalmKept ==
  ASSUME RequestInv, CalmInv, [Next]_vars
  PROVE  CalmInv'
<1> SUFFICES ASSUME strayed' = {} PROVE Calm'
  BY DEF CalmInv
<1>1. TypedRequest
  BY DEF RequestInv
<1>2. strayed = {}
  BY DEF Next, User, Progress, vars, Send, Stop, DeleteMessage, EditUserMessage,
     RetryAssistantMessage, OpenSession, StartNewSession, RemoveSession, SessionReady,
     SessionFails, Deliver, InvokeReturns, ShellStarts, ShellOpens, ShellReads,
     StreamEnds, ShellCancelled, Strays
<1>3. Calm
  BY <1>2 DEF CalmInv
<1>4. CASE UNCHANGED vars
  BY <1>3, <1>4, CalmUnchanged DEF vars, window
<1>5. ASSUME NEW t \in Turns, Send(t) PROVE Calm'
  <2> DEFINE args == [home |-> NoSession, adds |-> TRUE, question |-> t, previous |-> NoTurn]
  <2>1. args \in Arguments /\ args.home = NoSession
    BY DEF Arguments
  <2>2. Begins(t, chats[session], anchor, args) /\ deleted' = deleted \cup {}
    BY <1>5 DEF Send
  <2> HIDE DEF args
  <2>. QED
    BY <1>1, <1>3, <2>1, <2>2, NoCut, BeginsCalm
<1>6. CASE Stop
  <2>1. pending /\ Live = {}
    BY <1>6 DEF Stop, Strays
  <2>. QED
    BY <1>3, <2>1 DEF Calm, OneLive
<1>7. ASSUME NEW i, DeleteMessage(i) PROVE Calm'
  BY <1>1, <1>3, <1>7, DeleteCalm
<1>8. ASSUME NEW t \in Turns, NEW i, EditUserMessage(t, i) PROVE Calm'
  <2> DEFINE ms == chats[session]
             kept == SubSeq(ms, 1, i - 1)
             gone == Responses(SubSeq(ms, i, Len(ms)))
             args == [home |-> NoSession, adds |-> TRUE, question |-> t,
                      previous |-> ms[i].previous]
  <2>1. ms \in Seq(Message) /\ i \in 1..Len(ms) /\ ~pending
    BY <1>3, <1>8 DEF EditUserMessage, CanEdit, Calm, TypedChats
  <2>2. args \in Arguments /\ args.home = NoSession
    <3>1. ms[i] \in Message
      BY <2>1, ElementOfSeq
    <3>. QED
      BY <3>1 DEF Arguments, Message
  <2>3. CutsTo(kept, gone)
    <3>1. Len(ms) \in i..Len(ms)
      BY <2>1
    <3>. QED
      BY <1>3, <2>1, <3>1, PrefixIs, CutCalm
  <2>4. Begins(t, kept, Synced(kept), args) /\ deleted' = deleted \cup gone
    BY <1>8 DEF EditUserMessage
  <2> HIDE DEF kept, gone, args
  <2>5. AnchorsAt(Synced(kept), gone)
    BY <1>1, <1>3, <2>1, <2>3, SyncedIs
  <2>. QED
    BY <1>1, <1>3, <2>2, <2>3, <2>4, <2>5, BeginsCalm
<1>9. ASSUME NEW t \in Turns, NEW i, RetryAssistantMessage(t, i) PROVE Calm'
  <2> DEFINE ms == chats[session]
             kept == SubSeq(ms, 1, i - 1)
             gone == Responses(SubSeq(ms, i, Len(ms)))
             asked == SelectLastInSeq(kept, LAMBDA m : m.who = "user")
             args == [home |-> NoSession, adds |-> FALSE, question |-> ms[asked].of,
                      previous |-> ms[asked].previous]
  <2>1. ms \in Seq(Message) /\ i \in 1..Len(ms) /\ ~pending
    BY <1>3, <1>9 DEF RetryAssistantMessage, CanEdit, Calm, TypedChats
  <2>2. CutsTo(kept, gone)
    <3>1. Len(ms) \in i..Len(ms)
      BY <2>1
    <3>. QED
      BY <1>3, <2>1, <3>1, PrefixIs, CutCalm
  <2>3. asked # 0 /\ Begins(t, kept, Synced(kept), args) /\ deleted' = deleted \cup gone
    BY <1>9 DEF RetryAssistantMessage
  <2>4. kept \in Seq(Message) /\ Len(kept) <= Len(ms)
    BY <2>1, SubSeqProperties
  <2> HIDE DEF kept, gone
  <2>5. asked \in 1..Len(ms)
    <3> DEFINE I == {k \in 1..Len(kept) : kept[k].who = "user"}
    <3>1. asked = IF I # {} THEN Max(I) ELSE 0
      BY DEF SelectLastInSeq
    <3>2. Len(kept) \in Nat /\ I \in SUBSET (1..Len(kept))
      BY <2>4
    <3>3. I # {} => Max(I) \in I
      BY <3>2, LastPosition
    <3> HIDE DEF asked
    <3>. QED
      BY <2>1, <2>3, <2>4, <3>1, <3>3
  <2> HIDE DEF asked
  <2>6. args \in Arguments /\ args.home = NoSession
    <3>1. ms[asked] \in Message
      BY <2>1, <2>5, ElementOfSeq
    <3>. QED
      BY <3>1 DEF Arguments, Message
  <2> HIDE DEF args
  <2>7. AnchorsAt(Synced(kept), gone)
    BY <1>1, <1>3, <2>1, <2>2, SyncedIs
  <2>. QED
    BY <1>1, <1>3, <2>2, <2>3, <2>6, <2>7, BeginsCalm
<1>10. ASSUME NEW s \in Sessions, OpenSession(s) PROVE Calm'
  <2>1. /\ Live = {} /\ session' = s
        /\ chats' = [chats EXCEPT ![s] = Restored(chats[s]), ![NoSession] = <<>>]
        /\ UNCHANGED <<anchor, backend, listed, pending, phase, sent, deleted>>
    BY <1>10 DEF OpenSession, Strays, ShowsChat
  <2>2. chats[s] \in Seq(Message) /\ Unique(chats[s])
    BY <1>3 DEF Calm, TypedChats, Owned, Chats
  <2>3. /\ Restored(chats[s]) \in Seq(Message) /\ Unique(Restored(chats[s]))
        /\ Responses(Restored(chats[s])) = Responses(chats[s])
    BY <2>2, RestoredIs
  <2>. QED
    BY <1>1, <1>3, <2>1, <2>3, ChatCalm
<1>11. ASSUME NEW s \in Sessions, StartNewSession(s) \/ RemoveSession(s) PROVE Calm'
  <2>1. /\ Live = {} /\ session' \in {s, session, NoSession}
        /\ \/ chats' = [chats EXCEPT ![s] = <<>>, ![NoSession] = <<>>]
           \/ chats' = [chats EXCEPT ![s] = <<>>]
        /\ anchor' = anchor \/ anchor' = [anchor EXCEPT ![s] = NoTurn]
        /\ backend' \subseteq backend \cup {s} /\ listed' \subseteq listed \cup {s}
        /\ UNCHANGED <<pending, phase, sent, deleted>>
    BY <1>11 DEF StartNewSession, RemoveSession, Strays, ShowsChat
  <2>2. /\ <<>> \in Seq(Message) /\ Unique(<<>>)
        /\ Responses(<<>>) \subseteq Responses(chats[s])
    BY DEF Unique, Responses
  <2>. QED
    BY <1>1, <1>3, <2>1, <2>2, ChatCalm
<1>12. ASSUME NEW t \in Turns, SessionReady(t) PROVE Calm'
  BY <1>1, <1>3, <1>12, ReadyCalm
<1>13. ASSUME NEW t \in Turns, SessionFails(t) PROVE Calm'
  BY <1>1, <1>3, <1>13, SessionFailsCalm
<1>14. ASSUME NEW t \in Turns, Deliver(t) PROVE Calm'
  BY <1>3, <1>14, DeliverCalm
<1>15. ASSUME NEW t \in Turns, InvokeReturns(t) PROVE Calm'
  <2>1. phase[t] = "stream"
    BY <1>15 DEF InvokeReturns, RequestInv, ResultKept
  <2>. QED
    BY <1>1, <1>3, <1>15, <2>1, FinishesCalm, FailsCalm DEF InvokeReturns
<1>16. ASSUME NEW t \in Turns,
              \/ ShellStarts(t) \/ ShellOpens(t) \/ ShellReads(t)
              \/ StreamEnds(t) \/ ShellCancelled(t)
       PROVE  Calm'
  BY <1>3, <1>16, CalmUnchanged DEF ShellStarts, ShellOpens, ShellReads, StreamEnds,
     ShellCancelled, window
<1>. QED
  BY <1>4, <1>5, <1>6, <1>7, <1>8, <1>9, <1>10, <1>11, <1>12, <1>13, <1>14, <1>15,
     <1>16 DEF Next, User, Progress

\* A click is one of a bounded number.
LEMMA ClicksInitially == Init => clicks \in Nat
BY DEF Init

LEMMA ClicksKept ==
  ASSUME clicks \in Nat, [Next]_vars
  PROVE  clicks' \in Nat
<1>1. clicks' = clicks \/ Clicks \/ CanEdit
  BY DEF Next, User, Progress, vars, Send, Stop, DeleteMessage, EditUserMessage,
     RetryAssistantMessage, OpenSession, StartNewSession, RemoveSession, SessionReady,
     SessionFails, Deliver, InvokeReturns, ShellStarts, ShellOpens, ShellReads,
     StreamEnds, ShellCancelled
<1>. QED
  BY <1>1 DEF CanEdit, Clicks

\* A question from the composer continues from a response that the window has not had
\* deleted (syncSessionResponseAnchor, previousResponseIdsRef).
THEOREM ComposerContinues == Spec => SendContinuesFromLive
<1>1. ASSUME RequestInv, CalmInv, clicks \in Nat, [Next]_vars, NEW t \in Turns,
             phase[t] = "new", phase'[t] = "stream", clicks' = clicks, strayed = {}
      PROVE  sent'[t].previous \notin deleted
  <2> USE DEF RequestInv, TypedRequest
  <2>1. Calm
    BY <1>1 DEF CalmInv
  <2>2. ASSUME NEW u, NEW ms, NEW as, NEW args, Begins(u, ms, as, args)
        PROVE  u = t /\ session # NoSession /\ sent'[u] = AtHome(args, session, as)
    <3>1. u \in Turns /\ sent \in [Turns -> Arguments]
      BY <2>1, <2>2 DEF Begins, Calm, TypedChats
    <3>2. u = t /\ session # NoSession
      BY <1>1, <2>2, <3>1 DEF Begins
    <3>. QED
      BY <2>2, <3>1, <3>2 DEF Begins
  <2>3. ASSUME NEW u \in Turns, NEW how \in {"answered", "failed"}, Ends(u, how) PROVE FALSE
    BY <1>1, <2>3 DEF Ends
  <2>4. \E u \in Turns : Send(u)
    <3>1. ~Stop /\ \A i : ~DeleteMessage(i)
      BY <1>1 DEF Stop, DeleteMessage, CanEdit, Clicks
    <3>2. \A u, i : ~EditUserMessage(u, i) /\ ~RetryAssistantMessage(u, i)
      BY <1>1 DEF EditUserMessage, RetryAssistantMessage, CanEdit, Clicks
    <3>3. \A s : ~OpenSession(s) /\ ~StartNewSession(s) /\ ~RemoveSession(s)
      BY <1>1 DEF OpenSession, StartNewSession, RemoveSession, Clicks
    <3>4. \A u \in Turns : ~SessionReady(u) /\ ~SessionFails(u)
      BY <1>1, <2>3 DEF SessionReady, SessionFails, Fails
    <3>5. \A u \in Turns : ~Deliver(u) /\ ~InvokeReturns(u)
      BY <1>1, <2>3 DEF Deliver, InvokeReturns, Fails, Finishes
    <3>6. ~UNCHANGED vars
      BY <1>1 DEF vars, window
    <3>7. \A u \in Turns : /\ ~ShellStarts(u) /\ ~ShellOpens(u) /\ ~ShellReads(u)
                           /\ ~StreamEnds(u) /\ ~ShellCancelled(u)
      BY <1>1 DEF ShellStarts, ShellOpens, ShellReads, StreamEnds, ShellCancelled, window
    <3>. QED
      BY <1>1, <3>1, <3>2, <3>3, <3>4, <3>5, <3>6, <3>7 DEF Next, User, Progress
  <2>5. PICK u \in Turns : Send(u)
    BY <2>4
  <2> DEFINE args == [home |-> NoSession, adds |-> TRUE, question |-> u, previous |-> NoTurn]
  <2>6. u = t /\ session # NoSession /\ sent'[t] = AtHome(args, session, anchor)
    BY <2>2, <2>5 DEF Send
  <2>7. session \in Sessions /\ sent'[t].previous = anchor[session]
    BY <2>1, <2>6 DEF AtHome, Calm, TypedChats, Chats
  <2>8. anchor[session] = 0 \/ anchor[session] \notin deleted
    BY <2>1, <2>7 DEF Calm, Anchored
  <2>9. 0 \notin deleted
    BY <2>1, ConstantsAssumption DEF Calm, Over, Turns
  <2>. QED
    BY <2>7, <2>8, <2>9
<1>2. RequestInv /\ CalmInv /\ clicks \in Nat /\ [Next]_vars => [\A t \in Turns :
        (phase[t] = "new" /\ phase'[t] = "stream" /\ clicks' = clicks /\ strayed = {})
          => sent'[t].previous \notin deleted]_vars
  BY <1>1
<1>3. Init => RequestInv /\ CalmInv /\ clicks \in Nat
  BY RequestInitially, CalmInitially, ClicksInitially DEF CalmInv
<1>4. RequestInv /\ CalmInv /\ clicks \in Nat /\ [Next]_vars =>
        (RequestInv /\ CalmInv /\ clicks \in Nat)'
  BY RequestKept, CalmKept, ClicksKept
<1>. QED
  BY <1>2, <1>3, <1>4, PTL DEF Spec, SendContinuesFromLive

-----------------------------------------------------------------------------
(* The place of an answer                                                  *)

\* A bubble and the message above it, of turns with arguments sn and phases ph.
Answers(q, a, sn, ph) ==
  /\ q.who = "user" /\ q.of = sn[a.of].question
  /\ ph[a.of] \in {"stream", "answered", "failed"}
  /\ ph[a.of] = "answered" => a.text = "answer"

Placed(ms, sn, ph) ==
  \A k \in 1..Len(ms) : ms[k].who = "assistant" => k > 1 /\ Answers(ms[k - 1], ms[k], sn, ph)

LEMMA OfTurn ==
  ASSUME NEW ms, ms \in Seq(Message), NEW k \in 1..Len(ms)
  PROVE  ms[k].of \in Turns
<1>1. ms[k] \in Message
  BY ElementOfSeq
<1>. QED
  BY <1>1 DEF Message

\* Other turns may begin and end.
LEMMA PlacedStays ==
  ASSUME NEW ms, ms \in Seq(Message), NEW sn, NEW ph, NEW sn2, NEW ph2, Placed(ms, sn, ph),
         \A u \in Turns : ph[u] \in {"stream", "answered", "failed"} =>
           /\ sn2[u] = sn[u] /\ ph2[u] \in {"stream", "answered", "failed"}
           /\ ph2[u] = "answered" => ph[u] = "answered"
  PROVE  Placed(ms, sn2, ph2)
<1> SUFFICES ASSUME NEW k \in 1..Len(ms), ms[k].who = "assistant"
             PROVE  k > 1 /\ Answers(ms[k - 1], ms[k], sn2, ph2)
  BY DEF Placed
<1>1. k > 1 /\ Answers(ms[k - 1], ms[k], sn, ph)
  BY DEF Placed
<1>2. ms[k].of \in Turns
  <2>1. ms[k] \in Message
    BY ElementOfSeq
  <2>. QED
    BY <2>1 DEF Message
<1>. QED
  BY <1>1, <1>2 DEF Answers

\* An answer goes with its question.
LEMMA CutPlaced ==
  ASSUME NEW ms, ms \in Seq(Message), NEW sn, NEW ph, Placed(ms, sn, ph),
         NEW i \in 1..Len(ms), NEW j \in i..Len(ms),
         j < Len(ms) => ms[j + 1].who # "assistant"
  PROVE  Placed(Cut(ms, i, j), sn, ph)
<1> DEFINE ns == Cut(ms, i, j)
           d == j - i + 1
<1>1. /\ Len(ns) = Len(ms) - d /\ d \in Nat
      /\ \A k \in 1..i - 1 : ns[k] = ms[k]
      /\ \A k \in i..Len(ns) : ns[k] = ms[k + d]
  BY CutIs
<1> HIDE DEF ns
<1>2. SUFFICES ASSUME NEW k \in 1..Len(ns), ns[k].who = "assistant"
               PROVE  k > 1 /\ Answers(ns[k - 1], ns[k], sn, ph)
  BY DEF Placed, ns
<1>3. CASE k < i
  <2>1. k \in 1..Len(ms) /\ ns[k] = ms[k]
    BY <1>1, <1>3
  <2>2. k > 1 /\ Answers(ms[k - 1], ms[k], sn, ph)
    BY <1>2, <2>1 DEF Placed
  <2>3. ns[k - 1] = ms[k - 1]
    BY <1>1, <1>3, <2>2
  <2>. QED
    BY <2>1, <2>2, <2>3
<1>4. CASE k = i
  <2>1. ns[i] = ms[j + 1] /\ j < Len(ms)
    BY <1>1, <1>4
  <2>. QED
    BY <1>2, <1>4, <2>1
<1>5. CASE k > i
  <2>1. /\ k + d \in 1..Len(ms) /\ ns[k] = ms[k + d]
        /\ ns[k - 1] = ms[k + d - 1]
    BY <1>1, <1>5
  <2>2. Answers(ms[k + d - 1], ms[k + d], sn, ph)
    BY <1>2, <2>1 DEF Placed
  <2>. QED
    BY <1>5, <2>1, <2>2
<1>. QED
  BY <1>3, <1>4, <1>5

LEMMA RestoredPlaced ==
  ASSUME NEW ms, ms \in Seq(Message), NEW sn, NEW ph, Placed(ms, sn, ph)
  PROVE  Placed(Restored(ms), sn, ph)
<1> DEFINE ns == Restored(ms)
<1>1. /\ Len(ns) = Len(ms)
      /\ \A k \in 1..Len(ms) : /\ ns[k].who = ms[k].who /\ ns[k].of = ms[k].of
                               /\ ns[k].text = ms[k].text
  BY RestoredIs
<1> HIDE DEF ns
<1>2. ASSUME NEW k \in 1..Len(ns), ns[k].who = "assistant"
      PROVE  k > 1 /\ Answers(ns[k - 1], ns[k], sn, ph)
  <2>1. k > 1 /\ Answers(ms[k - 1], ms[k], sn, ph)
    BY <1>1, <1>2 DEF Placed
  <2>2. k - 1 \in 1..Len(ms)
    BY <1>1, <2>1
  <2>. QED
    BY <1>1, <2>1, <2>2 DEF Answers
<1>. QED
  BY <1>2 DEF Placed, ns

\* The bubble of a turn stands under the question that comes with it.
LEMMA PlaceholderPlaced ==
  ASSUME NEW ms, ms \in Seq(Message), NEW sn, NEW ph, Placed(ms, sn, ph),
         NEW t \in Turns, NEW args \in Arguments, args.adds,
         sn[t].question = t, ph[t] \in {"stream", "failed"}
  PROVE  Placed(Placeholder(ms, t, args), sn, ph)
<1> DEFINE ns == Placeholder(ms, t, args)
<1>1. /\ ns \in Seq(Message) /\ Len(ns) = Len(ms) + 2
      /\ \A k \in 1..Len(ms) : ns[k] = ms[k]
      /\ ns[Len(ms) + 1].who = "user" /\ ns[Len(ms) + 1].of = t
      /\ ns[Len(ms) + 2].who = "assistant" /\ ns[Len(ms) + 2].of = t
  BY PlaceholderAdds
<1> HIDE DEF ns
<1>2. ASSUME NEW k \in 1..Len(ns), ns[k].who = "assistant"
      PROVE  k > 1 /\ Answers(ns[k - 1], ns[k], sn, ph)
  <2>1. CASE k \in 1..Len(ms)
    <3>1. k > 1 /\ Answers(ms[k - 1], ms[k], sn, ph)
      BY <1>1, <1>2, <2>1 DEF Placed
    <3>2. ns[k - 1] = ms[k - 1] /\ ns[k] = ms[k]
      BY <1>1, <2>1, <3>1
    <3>. QED
      BY <3>1, <3>2
  <2>2. CASE k = Len(ms) + 2
    <3>1. k > 1 /\ k - 1 = Len(ms) + 1
      BY <2>2
    <3>. QED
      BY <1>1, <2>2, <3>1 DEF Answers
  <2>3. k # Len(ms) + 1
    BY <1>1, <1>2
  <2>. QED
    BY <1>1, <2>1, <2>2, <2>3
<1>. QED
  BY <1>2 DEF Placed, ns

\* What a turn brings goes into its own bubble.
LEMMA PatchPlaced ==
  ASSUME NEW ms, ms \in Seq(Message), NEW sn, NEW ph, NEW ph2, Placed(ms, sn, ph),
         NEW t \in Turns, NEW b \in Message, b.who = "assistant", b.of = t,
         LastAssistant(ms) = Len(ms), Len(ms) # 0, ms[Len(ms)].of = t,
         \A k \in 1..Len(ms) : ms[k].who = "assistant" /\ ms[k].of = t => k = Len(ms),
         \A u \in Turns : u # t => ph2[u] = ph[u],
         ph2[t] \in {"stream", "answered", "failed"},
         ph2[t] = "answered" => b.text = "answer"
  PROVE  Placed(UpdateLastAssistant(ms, b), sn, ph2)
<1> DEFINE ns == UpdateLastAssistant(ms, b)
<1>1. /\ ns \in Seq(Message) /\ Len(ns) = Len(ms) /\ ns[Len(ms)] = b
      /\ \A k \in 1..Len(ns) : k # Len(ms) => ns[k] = ms[k]
      /\ ms[Len(ms)].who = "assistant"
  <2>1. LastAssistant(ms) # 0
    OBVIOUS
  <2>. QED
    BY <2>1, UpdateIs, LastAssistantIs
<1> HIDE DEF ns
<1>2. ASSUME NEW k \in 1..Len(ns), ns[k].who = "assistant"
      PROVE  k > 1 /\ Answers(ns[k - 1], ns[k], sn, ph2)
  <2>1. ms[k].who = "assistant" /\ k \in 1..Len(ms)
    BY <1>1, <1>2
  <2>2. k > 1 /\ Answers(ms[k - 1], ms[k], sn, ph)
    BY <2>1 DEF Placed
  <2>3. ns[k - 1] = ms[k - 1]
    BY <1>1, <2>1, <2>2
  <2>4. CASE k = Len(ms)
    BY <1>1, <2>2, <2>3, <2>4 DEF Answers
  <2>5. CASE k # Len(ms)
    <3>1. ms[k].of \in Turns /\ ms[k].of # t /\ ns[k] = ms[k]
      <4>1. ms[k] \in Message
        BY <2>1, ElementOfSeq
      <4>. QED
        BY <1>1, <2>1, <2>5, <4>1 DEF Message
    <3>. QED
      BY <2>2, <2>3, <3>1 DEF Answers
  <2>. QED
    BY <2>4, <2>5
<1>. QED
  BY <1>2 DEF Placed, ns

\* A turn that begins has no other bubble.
LEMMA PlaceholderLast ==
  ASSUME NEW ms, ms \in Seq(Message), NEW sn, NEW ph, Placed(ms, sn, ph),
         NEW t \in Turns, NEW args \in Arguments, args.adds,
         ph[t] \notin {"stream", "answered", "failed"}
  PROVE  LET ns == Placeholder(ms, t, args)
         IN /\ ns \in Seq(Message) /\ Len(ns) # 0 /\ LastAssistant(ns) = Len(ns)
            /\ ns[Len(ns)].of = t
            /\ \A k \in 1..Len(ns) : ns[k].who = "assistant" =>
                 IF k = Len(ns) THEN ns[k].of = t
                                ELSE k \in 1..Len(ms) /\ ns[k] = ms[k] /\ ns[k].of # t
<1> DEFINE ns == Placeholder(ms, t, args)
<1>1. /\ ns \in Seq(Message) /\ Len(ns) = Len(ms) + 2
      /\ \A k \in 1..Len(ms) : ns[k] = ms[k]
      /\ ns[Len(ms) + 1].who = "user"
      /\ ns[Len(ms) + 2].of = t
      /\ LastAssistant(ns) = Len(ms) + 2
  BY PlaceholderAdds
<1> HIDE DEF ns
<1>2. ASSUME NEW k \in 1..Len(ns), ns[k].who = "assistant", k # Len(ns)
      PROVE  k \in 1..Len(ms) /\ ns[k] = ms[k] /\ ns[k].of # t
  <2>1. k # Len(ms) + 1
    BY <1>1, <1>2
  <2>2. k \in 1..Len(ms) /\ ns[k] = ms[k]
    BY <1>1, <1>2, <2>1
  <2>. QED
    BY <1>2, <2>2 DEF Placed, Answers
<1>. QED
  BY <1>1, <1>2 DEF ns

AllAdd == \A t \in Turns : sent[t].adds

\* A turn that is not a retry asks its own question.
Asked ==
  \A t \in Turns : /\ phase[t] = "new" => sent[t].adds
                   /\ phase[t] # "new" /\ sent[t].adds => sent[t].question = t

\* The turn under way has the last message of the chat that is shown, and no other bubble.
Current(s) ==
  \A k \in 1..Len(chats[s]) :
    chats[s][k].who = "assistant" /\ phase[chats[s][k].of] = "stream" =>
      s = session /\ k = Len(chats[s])

Leads(t) ==
  LET ms == chats[session]
  IN Len(ms) # 0 /\ LastAssistant(ms) = Len(ms) /\ ms[Len(ms)].of = t

Places ==
  /\ \A s \in Chats : Placed(chats[s], sent, phase) /\ Current(s)
  /\ \A t \in Turns : phase[t] = "stream" => Leads(t)

PlaceInv == strayed = {} => Asked /\ (AllAdd => Places)

LEMMA PlacesQuietly ==
  ASSUME TypedChats', \A s \in Chats : Placed(chats'[s], sent', phase'),
         \A u \in Turns : phase'[u] # "stream"
  PROVE  Places'
<1>1. ASSUME NEW s \in Chats PROVE Current(s)'
  <2>1. chats'[s] \in Seq(Message)
    BY DEF TypedChats, Chats
  <2>2. ASSUME NEW k \in 1..Len(chats'[s]) PROVE chats'[s][k].of \in Turns
    <3>1. chats'[s][k] \in Message
      BY <2>1, ElementOfSeq
    <3>. QED
      BY <3>1 DEF Message
  <2>. QED
    BY <2>2 DEF Current
<1>. QED
  BY <1>1 DEF Places, Chats

\* What a turn that is under way brings.
LEMMA PatchPlaces ==
  ASSUME TypedRequest, Calm, TypedChats', Places, NEW t \in Turns, phase[t] = "stream",
         NEW b \in Message, b.who = "assistant", b.of = t,
         Shows(UpdateLastAssistant(chats[session], b)),
         session' = session, sent' = sent,
         \A u \in Turns : u # t => phase'[u] = phase[u],
         phase'[t] \in {"stream", "answered", "failed"},
         phase'[t] = "answered" => b.text = "answer"
  PROVE  Places'
<1> DEFINE ms == chats[session]
           ns == UpdateLastAssistant(ms, b)
<1>1. /\ ms \in Seq(Message) /\ session \in Chats
      /\ \A u \in Turns : phase[u] = "stream" => u = t
  BY DEF Calm, TypedChats, OneLive, Live
<1>2. /\ Len(ms) # 0 /\ LastAssistant(ms) = Len(ms) /\ ms[Len(ms)].of = t
      /\ Placed(ms, sent, phase)
      /\ \A k \in 1..Len(ms) : ms[k].who = "assistant" /\ ms[k].of = t => k = Len(ms)
  BY <1>1 DEF Places, Leads, Current
<1> HIDE DEF ms
<1>3. Placed(ns, sent, phase')
  BY <1>1, <1>2, PatchPlaced
<1>4. /\ ns \in Seq(Message) /\ Len(ns) = Len(ms) /\ ns[Len(ms)] = b
      /\ \A k \in 1..Len(ns) : k # Len(ms) => ns[k] = ms[k]
      /\ LastAssistant(ns) = Len(ms)
  BY <1>1, <1>2, UpdateIs
<1> HIDE DEF ns
<1>5. /\ chats' = [chats EXCEPT ![session] = ns]
      /\ chats'[session] = ns
  <2>1. chats' = [chats EXCEPT ![session] = ns]
    BY DEF Shows, ns, ms
  <2>. QED
    BY <1>1, <2>1 DEF Calm, TypedChats
<1>6. ASSUME NEW s \in Chats PROVE Placed(chats'[s], sent', phase') /\ Current(s)'
  <2>1. CASE s = session
    <3>1. Placed(chats'[s], sent', phase')
      BY <1>3, <1>5, <2>1
    <3>2. ASSUME NEW k \in 1..Len(ns), ns[k].who = "assistant", k # Len(ms)
          PROVE  phase'[ns[k].of] # "stream"
      <4>1. ns[k] = ms[k] /\ k \in 1..Len(ms) /\ ms[k].of # t
        BY <1>2, <1>4, <3>2
      <4>2. ms[k].of \in Turns
        <5>1. ms[k] \in Message
          BY <1>1, <4>1, ElementOfSeq
        <5>. QED
          BY <5>1 DEF Message
      <4>. QED
        BY <1>1, <4>1, <4>2
    <3>3. Current(s)'
      BY <1>4, <1>5, <2>1, <3>2 DEF Current
    <3>. QED
      BY <3>1, <3>3
  <2>2. CASE s # session
    <3> DEFINE cs == chats[s]
    <3>1. chats'[s] = cs /\ cs \in Seq(Message)
      BY <1>5, <2>2 DEF Calm, TypedChats
    <3>2. Placed(cs, sent, phase)
      BY DEF Places
    <3>3. \A k \in 1..Len(cs) : cs[k].who = "assistant" => phase[cs[k].of] # "stream"
      BY <2>2 DEF Places, Current
    <3> HIDE DEF cs
    <3>4. ASSUME NEW k \in 1..Len(cs), cs[k].who = "assistant"
          PROVE  cs[k].of \in Turns /\ cs[k].of # t
      <4>1. cs[k] \in Message
        BY <3>1, ElementOfSeq
      <4>. QED
        BY <3>3, <3>4, <4>1 DEF Message
    <3>5. Placed(cs, sent, phase')
      BY <3>2, <3>4 DEF Placed, Answers
    <3>6. Current(s)'
      BY <3>1, <3>3, <3>4 DEF Current
    <3>. QED
      BY <3>1, <3>5, <3>6
  <2>. QED
    BY <2>1, <2>2
<1>7. ASSUME NEW u \in Turns, phase'[u] = "stream" PROVE Leads(u)'
  <2>1. u = t
    BY <1>1, <1>7
  <2>2. b.of = t /\ session' = session
    OBVIOUS
  <2>. QED
    BY <1>2, <1>4, <1>5, <2>1, <2>2 DEF Leads
<1>. QED
  BY <1>6, <1>7 DEF Places, Chats

\* A turn gets its bubble, in chat s, which is then the one that is shown.
LEMMA PlaceholderPlaces ==
  ASSUME Calm, TypedChats', Places, NEW t \in Turns, NEW s \in Chats,
         NEW ms, ms \in Seq(Message), Placed(ms, sent, phase), NEW a \in Arguments,
         a.adds, a.question = t, phase[t] \notin {"stream", "answered", "failed"},
         \A u \in Turns : phase[u] # "stream",
         phase' = [phase EXCEPT ![t] = "stream"], sent' = [sent EXCEPT ![t] = a],
         phase \in [Turns -> Phases],
         session' = s, chats'[s] = Placeholder(ms, t, a),
         \A c \in Chats : c # s => chats'[c] = chats[c] \/ chats'[c] = <<>>
  PROVE  Places'
<1> DEFINE ns == Placeholder(ms, t, a)
<1>1. /\ sent \in [Turns -> Arguments] /\ chats \in [Chats -> Seq(Message)]
  BY DEF Calm, TypedChats
<1>2. /\ sent'[t].question = t /\ phase'[t] = "stream"
      /\ \A u \in Turns : u # t => phase'[u] = phase[u] /\ sent'[u] = sent[u]
  BY <1>1
<1>3. \A u \in Turns : phase[u] \in {"stream", "answered", "failed"} =>
        /\ sent'[u] = sent[u] /\ phase'[u] \in {"stream", "answered", "failed"}
        /\ phase'[u] = "answered" => phase[u] = "answered"
  BY <1>2
<1>4. Placed(ms, sent', phase')
  <2>1. \A k \in 1..Len(ms) : ms[k].of \in Turns
    BY OfTurn
  <2>. QED
    BY <1>3, <2>1 DEF Placed, Answers
<1>5. Placed(ns, sent', phase')
  BY <1>2, <1>4, PlaceholderPlaced
<1>6. /\ ns \in Seq(Message) /\ Len(ns) # 0 /\ LastAssistant(ns) = Len(ns)
      /\ ns[Len(ns)].of = t
      /\ \A k \in 1..Len(ns) : ns[k].who = "assistant" =>
           IF k = Len(ns) THEN ns[k].of = t
                          ELSE k \in 1..Len(ms) /\ ns[k] = ms[k] /\ ns[k].of # t
  BY PlaceholderLast
<1>7. chats'[s] = ns
  OBVIOUS
<1> HIDE DEF ns
<1>8. ASSUME NEW c \in Chats PROVE Placed(chats'[c], sent', phase') /\ Current(c)'
  <2>1. CASE c = s
    <3>1. ASSUME NEW k \in 1..Len(ns), ns[k].who = "assistant", k # Len(ns)
          PROVE  phase'[ns[k].of] # "stream"
      <4>1. ns[k].of # t /\ ns[k].of \in Turns
        <5>1. ns[k] \in Message
          BY <1>6, <3>1, ElementOfSeq
        <5>. QED
          BY <1>6, <3>1, <5>1 DEF Message
      <4>. QED
        BY <1>2, <4>1
    <3>. QED
      BY <1>5, <1>7, <2>1, <3>1 DEF Current
  <2>2. CASE c # s /\ chats'[c] = chats[c]
    <3> DEFINE cs == chats[c]
    <3>1. chats'[c] = cs /\ cs \in Seq(Message) /\ Placed(cs, sent, phase)
      BY <1>1, <2>2 DEF Places
    <3> HIDE DEF cs
    <3>2. Placed(cs, sent', phase')
      <4>1. \A k \in 1..Len(cs) : cs[k].of \in Turns
        BY <3>1, OfTurn
      <4>. QED
        BY <1>3, <3>1, <4>1 DEF Placed, Answers
    <3>3. ASSUME NEW k \in 1..Len(cs), cs[k].who = "assistant"
          PROVE  phase'[cs[k].of] # "stream"
      <4>1. cs[k].of \in Turns
        <5>1. cs[k] \in Message
          BY <3>1, ElementOfSeq
        <5>. QED
          BY <5>1 DEF Message
      <4>2. cs[k].of # t
        BY <3>1, <3>3 DEF Placed, Answers
      <4>. QED
        BY <1>2, <4>1, <4>2
    <3>. QED
      BY <3>1, <3>2, <3>3 DEF Current
  <2>3. CASE c # s /\ chats'[c] = <<>>
    BY <2>3 DEF Placed, Current
  <2>. QED
    BY <2>1, <2>2, <2>3
<1>9. ASSUME NEW u \in Turns, phase'[u] = "stream" PROVE Leads(u)'
  <2>1. u = t
    BY <1>2, <1>9
  <2>. QED
    BY <1>6, <1>7, <2>1 DEF Leads
<1>. QED
  BY <1>8, <1>9 DEF Places, Chats

\* What a turn asks is settled when it begins.
LEMMA AskedUnchanged ==
  ASSUME Asked, sent' = sent,
         \A t \in Turns : phase'[t] = "new" <=> phase[t] = "new"
  PROVE  Asked' /\ (AllAdd' => AllAdd)
BY DEF Asked, AllAdd

LEMMA BeginsPlaces ==
  ASSUME TypedRequest, Calm, TypedChats', Asked, AllAdd => Places,
         NEW t, NEW ms, NEW as, NEW gone, NEW args \in Arguments,
         CutsTo(ms, gone), AnchorsAt(as, gone), Begins(t, ms, as, args),
         args.adds => args.question = t,
         AllAdd /\ args.adds => Placed(ms, sent, phase)
  PROVE  Asked' /\ (AllAdd' => Places')
<1> USE DEF TypedRequest
<1>1. /\ Live = {} /\ t \in Turns /\ phase[t] = "new" /\ session' = session
      /\ session \in Chats /\ ms \in Seq(Message) /\ sent \in [Turns -> Arguments]
      /\ chats \in [Chats -> Seq(Message)]
  BY DEF Begins, Calm, OneLive, TypedChats, CutsTo
<1>2. PICK now \in {"session", "stream"}, a \in Arguments :
        /\ phase' = [phase EXCEPT ![t] = now]
        /\ sent' = [sent EXCEPT ![t] = a]
        /\ a.adds = args.adds /\ a.question = args.question
        /\ now = "session" => chats' = [chats EXCEPT ![session] = ms]
        /\ now = "stream" => chats' = [chats EXCEPT ![session] = Placeholder(ms, t, a)]
  <2>1. CASE session = NoSession
    BY <2>1 DEF Begins, Shows
  <2>2. CASE session # NoSession
    <3> DEFINE a == AtHome(args, session, as)
    <3>1. a \in Arguments /\ a.adds = args.adds /\ a.question = args.question
      <4>1. session \in Sessions /\ as \in [Sessions -> Turns \cup {NoTurn}]
        BY <1>1, <2>2 DEF AnchorsAt, Chats
      <4>. QED
        BY <4>1 DEF AtHome, Arguments, Chats
    <3>2. /\ phase' = [phase EXCEPT ![t] = "stream"]
          /\ sent' = [sent EXCEPT ![t] = a]
          /\ chats' = [chats EXCEPT ![session] = Placeholder(ms, t, a)]
      BY <2>2 DEF Begins, Shows
    <3> HIDE DEF a
    <3>. QED
      BY <3>1, <3>2
  <2>. QED
    BY <2>1, <2>2
<1>3. Asked'
  BY <1>1, <1>2 DEF Asked
<1>4. ASSUME AllAdd' PROVE AllAdd /\ args.adds
  <2>1. sent'[t].adds /\ sent'[t] = a /\ sent[t].adds
    BY <1>1, <1>2, <1>4 DEF AllAdd, Asked
  <2>2. \A u \in Turns : u # t => sent'[u] = sent[u]
    BY <1>1, <1>2
  <2>. QED
    BY <1>2, <1>4, <2>1, <2>2 DEF AllAdd
<1>5. ASSUME AllAdd' PROVE Places'
  <2>1. Places /\ Placed(ms, sent, phase) /\ a.adds /\ a.question = t
    BY <1>2, <1>4, <1>5
  <2>2. \A u \in Turns : phase[u] # "stream"
    BY <1>1 DEF Live
  <2>3. CASE now = "session"
    <3>1. \A u \in Turns : phase[u] \in {"stream", "answered", "failed"} =>
            /\ sent'[u] = sent[u] /\ phase'[u] \in {"stream", "answered", "failed"}
            /\ phase'[u] = "answered" => phase[u] = "answered"
      BY <1>1, <1>2, <2>3
    <3>2. ASSUME NEW c \in Chats PROVE Placed(chats'[c], sent', phase')
      <4>1. chats'[c] \in Seq(Message) /\ Placed(chats'[c], sent, phase)
        <5>1. chats'[c] = IF c = session THEN ms ELSE chats[c]
          BY <1>1, <1>2, <2>3
        <5>. QED
          BY <1>1, <2>1, <5>1 DEF Places
      <4>. QED
        BY <3>1, <4>1, PlacedStays
    <3>3. \A u \in Turns : phase'[u] # "stream"
      BY <1>1, <1>2, <2>2, <2>3
    <3>. QED
      BY <3>2, <3>3, PlacesQuietly
  <2>4. CASE now = "stream"
    <3>1. /\ chats'[session] = Placeholder(ms, t, a)
          /\ \A c \in Chats : c # session => chats'[c] = chats[c]
      BY <1>1, <1>2, <2>4
    <3>2. /\ phase \in [Turns -> Phases]
          /\ phase' = [phase EXCEPT ![t] = "stream"] /\ sent' = [sent EXCEPT ![t] = a]
      BY <1>2, <2>4
    <3>3. phase[t] \notin {"stream", "answered", "failed"}
      BY <1>1
    <3>4. session' = session /\ session \in Chats /\ ms \in Seq(Message) /\ t \in Turns
      BY <1>1
    <3> HIDE DEF TypedRequest
    <3>. QED
      BY <2>1, <2>2, <3>1, <3>2, <3>3, <3>4, PlaceholderPlaces
  <2>. QED
    BY <2>3, <2>4
<1>. QED
  BY <1>3, <1>5

LEMMA ReadyPlaces ==
  ASSUME TypedRequest, Calm, TypedChats', Asked, AllAdd => Places,
         NEW t \in Turns, SessionReady(t)
  PROVE  Asked' /\ (AllAdd' => Places')
<1> USE DEF TypedRequest
<1>1. PICK s \in Sessions :
        /\ sent' = [sent EXCEPT ![t] = AtHome(@, s, anchor)]
        /\ ShowsChat(s, Placeholder(Restored(chats[s]), t, AtHome(sent[t], s, anchor)))
  <2>1. backend \subseteq Sessions
    BY DEF Calm, TypedChats
  <2>. QED
    BY <2>1 DEF SessionReady
<1>2. /\ phase[t] = "session" /\ phase' = [phase EXCEPT ![t] = "stream"]
      /\ sent \in [Turns -> Arguments] /\ chats \in [Chats -> Seq(Message)]
      /\ \A u \in Turns : phase[u] # "stream"
  BY DEF SessionReady, Calm, TypedChats, OneLive, Live
<1> DEFINE a == AtHome(sent[t], s, anchor)
           ms == Restored(chats[s])
<1>3. a \in Arguments /\ a.adds = sent[t].adds /\ a.question = sent[t].question
  <2>1. sent[t] \in Arguments /\ anchor \in [Sessions -> Turns \cup {0}]
    BY DEF Calm, TypedChats
  <2>. QED
    BY <2>1 DEF AtHome, Arguments
<1>4. /\ sent' = [sent EXCEPT ![t] = a] /\ session' = s
      /\ chats' = [chats EXCEPT ![s] = Placeholder(ms, t, a), ![NoSession] = <<>>]
  BY <1>1, <1>2 DEF ShowsChat
<1> HIDE DEF a
<1>5. s # NoSession /\ s \in Chats
  BY ConstantsAssumption DEF Chats
<1>6. sent'[t] = a /\ \A u \in Turns : u # t => sent'[u] = sent[u] /\ phase'[u] = phase[u]
  BY <1>2, <1>4
<1>7. Asked' /\ (AllAdd' => AllAdd)
  BY <1>2, <1>3, <1>6 DEF Asked, AllAdd
<1>8. ASSUME AllAdd' PROVE Places'
  <2>1. Places /\ a.adds /\ a.question = t
    BY <1>2, <1>3, <1>7, <1>8 DEF Asked, AllAdd
  <2>2. ms \in Seq(Message) /\ Placed(ms, sent, phase)
    <3>1. chats[s] \in Seq(Message) /\ Placed(chats[s], sent, phase)
      BY <1>2, <1>5, <2>1 DEF Places
    <3>. QED
      BY <3>1, RestoredIs, RestoredPlaced
  <2> HIDE DEF ms
  <2>3. chats'[s] = Placeholder(ms, t, a)
    BY <1>2, <1>4, <1>5
  <2>4. \A c \in Chats : c # s => chats'[c] = chats[c] \/ chats'[c] = <<>>
    BY <1>2, <1>4, <1>5
  <2>5. phase[t] \notin {"stream", "answered", "failed"} /\ phase \in [Turns -> Phases]
    BY <1>2
  <2>. QED
    BY <1>2, <1>3, <1>4, <1>5, <2>1, <2>2, <2>3, <2>4, <2>5, PlaceholderPlaces
<1>. QED
  BY <1>7, <1>8

LEMMA SessionFailsPlaces ==
  ASSUME TypedRequest, Calm, TypedChats', Asked, AllAdd => Places,
         NEW t \in Turns, SessionFails(t)
  PROVE  Asked' /\ (AllAdd' => Places')
<1> DEFINE ms == chats[session]
           ns == Placeholder(ms, t, sent[t])
           b == Patched(ns, t, "error", sent[t].previous)
           us == UpdateLastAssistant(ns, b)
<1>1. /\ phase[t] = "session" /\ phase' = [phase EXCEPT ![t] = "failed"]
      /\ chats' = [chats EXCEPT ![session] = us]
      /\ UNCHANGED <<session, sent>>
      /\ phase \in [Turns -> Phases]
  BY DEF SessionFails, Fails, Ends, Shows, TypedRequest
<1>2. /\ ms \in Seq(Message) /\ sent[t] \in Arguments
      /\ chats \in [Chats -> Seq(Message)] /\ session \in Chats
      /\ \A u \in Turns : phase[u] # "stream"
  BY <1>1 DEF Calm, TypedChats, OneLive, Live
<1>3. /\ phase'[t] = "failed" /\ \A u \in Turns : u # t => phase'[u] = phase[u]
  BY <1>1
<1>4. Asked' /\ (AllAdd' => AllAdd)
  BY <1>1, <1>3, AskedUnchanged
<1>5. ASSUME AllAdd' PROVE Places'
  <2>1. Places /\ sent[t].adds /\ sent[t].question = t
    BY <1>1, <1>4, <1>5 DEF Asked, AllAdd
  <2>2. \A u \in Turns : phase[u] \in {"stream", "answered", "failed"} =>
          /\ sent[u] = sent[u] /\ phase'[u] \in {"stream", "answered", "failed"}
          /\ phase'[u] = "answered" => phase[u] = "answered"
    BY <1>1, <1>3
  <2>3. ASSUME NEW c \in Chats PROVE Placed(chats[c], sent, phase')
    <3>1. chats[c] \in Seq(Message) /\ Placed(chats[c], sent, phase)
      BY <1>2, <2>1 DEF Places
    <3>. QED
      BY <2>2, <3>1, PlacedStays
  <2>4. Placed(ms, sent, phase) /\ Placed(ms, sent, phase')
    BY <1>2, <2>1, <2>3 DEF Places
  <2> HIDE DEF ms
  <2>5. Placed(ns, sent, phase')
    BY <1>2, <1>3, <2>1, <2>4, PlaceholderPlaced
  <2>6. phase[t] \notin {"stream", "answered", "failed"}
    BY <1>1
  <2>7. /\ ns \in Seq(Message) /\ Len(ns) # 0 /\ LastAssistant(ns) = Len(ns)
        /\ ns[Len(ns)].of = t
        /\ \A k \in 1..Len(ns) : ns[k].who = "assistant" =>
             IF k = Len(ns) THEN ns[k].of = t
                            ELSE k \in 1..Len(ms) /\ ns[k] = ms[k] /\ ns[k].of # t
    BY <1>2, <2>1, <2>4, <2>6, PlaceholderLast
  <2> HIDE DEF ns
  <2>8. b \in Message /\ b.who = "assistant" /\ b.of = t
    <3>1. sent[t].previous \in Turns \cup {0}
      BY <1>2 DEF Arguments
    <3>. QED
      BY <2>7, <3>1, PatchedIs
  <2> HIDE DEF b
  <2>9. Placed(us, sent, phase')
    <3>1. \A k \in 1..Len(ns) : ns[k].who = "assistant" /\ ns[k].of = t => k = Len(ns)
      BY <2>7
    <3>. QED
      BY <1>3, <2>5, <2>7, <2>8, <3>1, PatchPlaced
  <2> HIDE DEF us
  <2>10. ASSUME NEW c \in Chats PROVE Placed(chats'[c], sent', phase')
    <3>1. chats'[c] = us \/ chats'[c] = chats[c]
      BY <1>1, <1>2
    <3>. QED
      BY <1>1, <2>3, <2>9, <3>1
  <2>. QED
    BY <1>2, <1>3, <2>10, PlacesQuietly
<1>. QED
  BY <1>4, <1>5

\* What comes of a turn under way.
LEMMA FinishesPlaces ==
  ASSUME TypedRequest, Calm, TypedChats', Places, NEW t \in Turns, phase[t] = "stream",
         NEW final, Finishes(t, final), UNCHANGED <<session, sent>>
  PROVE  Places'
<1> DEFINE p == Patched(chats[session], t, "answer", sent[t].previous)
           b == [p EXCEPT !.response = IF final = "id" THEN t ELSE NoTurn]
<1>1. chats[session] \in Seq(Message) /\ sent[t].previous \in Turns \cup {0}
  BY DEF Calm, TypedChats, Arguments
<1>2. p \in Message /\ p.who = "assistant" /\ p.of = t /\ p.text = "answer"
  BY <1>1, PatchedIs
<1>3. Shows(UpdateLastAssistant(chats[session], b)) /\ phase' = [phase EXCEPT ![t] = "answered"]
  BY DEF Finishes, Ends
<1> HIDE DEF p
<1>4. b \in Message /\ b.who = "assistant" /\ b.of = t /\ b.text = "answer"
  BY <1>2 DEF Message
<1> HIDE DEF b
<1>5. phase'[t] = "answered" /\ \A u \in Turns : u # t => phase'[u] = phase[u]
  BY <1>3 DEF TypedRequest
<1>. QED
  BY <1>3, <1>4, <1>5, PatchPlaces

LEMMA FailsPlaces ==
  ASSUME TypedRequest, Calm, TypedChats', Places, NEW t \in Turns, phase[t] = "stream",
         NEW text \in {"empty", "error"}, Fails(t, chats[session], text),
         UNCHANGED <<session, sent>>
  PROVE  Places'
<1> DEFINE b == Patched(chats[session], t, text, sent[t].previous)
<1>1. chats[session] \in Seq(Message) /\ sent[t].previous \in Turns \cup {0}
  BY DEF Calm, TypedChats, Arguments
<1>2. b \in Message /\ b.who = "assistant" /\ b.of = t
  BY <1>1, PatchedIs
<1>3. Shows(UpdateLastAssistant(chats[session], b)) /\ phase' = [phase EXCEPT ![t] = "failed"]
  BY DEF Fails, Ends
<1> HIDE DEF b
<1>4. phase'[t] = "failed" /\ \A u \in Turns : u # t => phase'[u] = phase[u]
  BY <1>3 DEF TypedRequest
<1>. QED
  BY <1>2, <1>3, <1>4, PatchPlaces

LEMMA DeliverPlaces ==
  ASSUME TypedRequest, Calm, TypedChats', Places, NEW t \in Turns, phase[t] = "stream",
         Deliver(t)
  PROVE  Places'
<1>1. UNCHANGED <<session, sent>>
  BY DEF Deliver
<1>2. CASE \E final : Finishes(t, final)
  BY <1>1, <1>2, FinishesPlaces
<1>3. CASE Fails(t, chats[session], "error")
  BY <1>1, <1>3, FailsPlaces
<1>4. ASSUME NEW text \in {"empty", "part"}, NEW response \in BOOLEAN,
             Shows(UpdateLastAssistant(chats[session],
               [Patched(chats[session], t, text, sent[t].previous)
                  EXCEPT !.streaming = TRUE, !.response = IF response THEN t ELSE @])),
             phase' = phase
      PROVE  Places'
  <2> DEFINE p == Patched(chats[session], t, text, sent[t].previous)
             b == [p EXCEPT !.streaming = TRUE, !.response = IF response THEN t ELSE @]
  <2>1. chats[session] \in Seq(Message) /\ sent[t].previous \in Turns \cup {0}
    BY DEF Calm, TypedChats, Arguments
  <2>2. p \in Message /\ p.who = "assistant" /\ p.of = t
    BY <2>1, PatchedIs
  <2>3. Shows(UpdateLastAssistant(chats[session], b))
    BY <1>4
  <2> HIDE DEF p
  <2>4. b \in Message /\ b.who = "assistant" /\ b.of = t
    BY <2>2 DEF Message
  <2> HIDE DEF b
  <2>. QED
    BY <1>1, <1>4, <2>3, <2>4, PatchPlaces
<1>5. \/ \E final : Finishes(t, final)
      \/ Fails(t, chats[session], "error")
      \/ \E text \in {"empty", "part"}, response \in BOOLEAN :
           /\ Shows(UpdateLastAssistant(chats[session],
                [Patched(chats[session], t, text, sent[t].previous)
                   EXCEPT !.streaming = TRUE, !.response = IF response THEN t ELSE @]))
           /\ phase' = phase
  BY DEF Deliver
<1>. QED
  BY <1>2, <1>3, <1>4, <1>5

\* What comes of a window in which no turn is under way.
LEMMA QuietPlaces ==
  ASSUME Live = {}, TypedChats', Places, UNCHANGED <<phase, sent>>,
         \A s \in Chats : Placed(chats'[s], sent, phase)
  PROVE  Places'
<1>1. \A u \in Turns : phase'[u] # "stream"
  BY DEF Live
<1>2. \A s \in Chats : Placed(chats'[s], sent', phase')
  OBVIOUS
<1>. QED
  BY <1>1, <1>2, PlacesQuietly

LEMMA DeletePlaces ==
  ASSUME Calm, TypedChats', Places, NEW i, DeleteMessage(i)
  PROVE  Places'
<1> DEFINE ms == chats[session]
           j == IF /\ ms[i].who = "user"
                   /\ i < Len(ms) /\ ms[i + 1].who = "assistant"
                THEN i + 1 ELSE i
<1>1. /\ ms \in Seq(Message) /\ i \in 1..Len(ms) /\ Live = {}
      /\ session \in Chats /\ chats \in [Chats -> Seq(Message)]
      /\ Placed(ms, sent, phase)
  BY DEF DeleteMessage, CanEdit, Calm, TypedChats, OneLive, Places
<1>2. chats' = [chats EXCEPT ![session] = Cut(ms, i, j)] /\ UNCHANGED <<phase, sent>>
  BY DEF DeleteMessage, Cut, Shows
<1> HIDE DEF ms
<1>3. j \in i..Len(ms)
  BY <1>1
<1>4. j < Len(ms) => ms[j + 1].who # "assistant"
  <2>1. ASSUME j < Len(ms), ms[j + 1].who = "assistant" PROVE FALSE
    <3> HIDE DEF j
    <3>1. j + 1 \in 1..Len(ms) /\ (j + 1) - 1 = j
      BY <1>1, <1>3, <2>1
    <3>2. Answers(ms[(j + 1) - 1], ms[j + 1], sent, phase)
      BY <1>1, <2>1, <3>1 DEF Placed
    <3>3. ms[j].who = "user"
      BY <3>1, <3>2 DEF Answers
    <3>4. j = i
      BY <3>3 DEF j
    <3>. QED
      BY <2>1, <3>3, <3>4 DEF j
  <2>. QED
    BY <2>1
<1> HIDE DEF j
<1>5. Placed(Cut(ms, i, j), sent, phase)
  BY <1>1, <1>3, <1>4, CutPlaced
<1>6. ASSUME NEW s \in Chats PROVE Placed(chats'[s], sent, phase)
  <2>1. chats'[s] = IF s = session THEN Cut(ms, i, j) ELSE chats[s]
    BY <1>1, <1>2
  <2>. QED
    BY <1>5, <2>1 DEF Places
<1>. QED
  BY <1>1, <1>2, <1>6, QuietPlaces

\* Another chat is shown.
LEMMA ChatPlaces ==
  ASSUME Calm, TypedChats', Places, Live = {}, UNCHANGED <<phase, sent>>,
         \A c \in Chats : chats'[c] \in {chats[c], Restored(chats[c]), <<>>}
  PROVE  Places'
<1>1. ASSUME NEW s \in Chats PROVE Placed(chats'[s], sent, phase)
  <2>1. chats[s] \in Seq(Message) /\ Placed(chats[s], sent, phase)
    BY DEF Places, Calm, TypedChats
  <2>2. Placed(Restored(chats[s]), sent, phase)
    BY <2>1, RestoredPlaced
  <2>3. Placed(<<>>, sent, phase)
    BY DEF Placed
  <2>. QED
    BY <2>1, <2>2, <2>3
<1>. QED
  BY <1>1, QuietPlaces

LEMMA PlaceInitially == Init => PlaceInv
<1> SUFFICES ASSUME Init PROVE Asked /\ Places
  BY DEF PlaceInv
<1>1. Asked
  BY DEF Init, Asked
<1>2. \A s \in Chats : chats[s] = <<>>
  BY DEF Init, Chats
<1>3. Places
  BY <1>2 DEF Init, Places, Placed, Current
<1>. QED
  BY <1>1, <1>3

LEMMA PlaceKept ==
  ASSUME RequestInv, CalmInv, PlaceInv, [Next]_vars
  PROVE  PlaceInv'
<1> SUFFICES ASSUME strayed' = {} PROVE Asked' /\ (AllAdd' => Places')
  BY DEF PlaceInv
<1>1. strayed = {}
  BY DEF Next, User, Progress, vars, Send, Stop, DeleteMessage, EditUserMessage,
     RetryAssistantMessage, OpenSession, StartNewSession, RemoveSession, SessionReady,
     SessionFails, Deliver, InvokeReturns, ShellStarts, ShellOpens, ShellReads,
     StreamEnds, ShellCancelled, Strays
<1>2. Calm /\ TypedChats' /\ TypedRequest /\ Asked /\ (AllAdd => Places)
  BY <1>1, CalmKept DEF CalmInv, Calm, PlaceInv, RequestInv
<1> DEFINE Done == Asked' /\ (AllAdd' => Places')
<1>3. ASSUME UNCHANGED <<session, chats, phase, sent>> PROVE Done
  BY <1>2, <1>3 DEF Asked, AllAdd, Places, Current, Leads
<1>4. ASSUME UNCHANGED <<phase, sent>>, Places => Places' PROVE Done
  BY <1>2, <1>4 DEF Asked, AllAdd
<1>5. ASSUME NEW t \in Turns, Send(t) PROVE Done
  <2> DEFINE args == [home |-> NoSession, adds |-> TRUE, question |-> t, previous |-> NoTurn]
  <2>1. args \in Arguments /\ args.question = t
    BY DEF Arguments
  <2>2. Begins(t, chats[session], anchor, args)
    BY <1>5 DEF Send
  <2>3. AllAdd => Placed(chats[session], sent, phase)
    BY <1>2 DEF Places, Calm, TypedChats
  <2> HIDE DEF args
  <2>. QED
    BY <1>2, <2>1, <2>2, <2>3, NoCut, BeginsPlaces
<1>6. CASE Stop
  <2>1. pending /\ Live = {}
    BY <1>6 DEF Stop, Strays
  <2>. QED
    BY <1>2, <2>1 DEF Calm, OneLive
<1>7. ASSUME NEW i, DeleteMessage(i) PROVE Done
  <2>1. UNCHANGED <<phase, sent>>
    BY <1>7 DEF DeleteMessage
  <2>. QED
    BY <1>2, <1>4, <1>7, <2>1, DeletePlaces
<1>8. ASSUME NEW t \in Turns, NEW i, EditUserMessage(t, i) PROVE Done
  <2> DEFINE ms == chats[session]
             kept == SubSeq(ms, 1, i - 1)
             gone == Responses(SubSeq(ms, i, Len(ms)))
             args == [home |-> NoSession, adds |-> TRUE, question |-> t,
                      previous |-> ms[i].previous]
  <2>1. ms \in Seq(Message) /\ i \in 1..Len(ms) /\ ~pending /\ session \in Chats
    BY <1>2, <1>8 DEF EditUserMessage, CanEdit, Calm, TypedChats
  <2>2. args \in Arguments /\ args.question = t
    <3>1. ms[i] \in Message
      BY <2>1, ElementOfSeq
    <3>. QED
      BY <3>1 DEF Arguments, Message
  <2>3. Len(ms) \in i..Len(ms)
    BY <2>1
  <2>4. CutsTo(kept, gone)
    BY <1>2, <2>1, <2>3, PrefixIs, CutCalm
  <2>5. AllAdd => Placed(kept, sent, phase)
    <3>1. ASSUME Placed(ms, sent, phase) PROVE Placed(Cut(ms, i, Len(ms)), sent, phase)
      BY <2>1, <2>3, <3>1, CutPlaced
    <3>. QED
      BY <1>2, <2>1, <3>1, PrefixIs DEF Places
  <2>6. Begins(t, kept, Synced(kept), args)
    BY <1>8 DEF EditUserMessage
  <2> HIDE DEF kept, gone, args
  <2>7. AnchorsAt(Synced(kept), gone)
    BY <1>2, <2>1, <2>4, SyncedIs
  <2>. QED
    BY <1>2, <2>2, <2>4, <2>5, <2>6, <2>7, BeginsPlaces
<1>9. ASSUME NEW t \in Turns, NEW i, RetryAssistantMessage(t, i) PROVE Done
  <2>1. /\ t \in Turns /\ phase[t] = "new" /\ phase'[t] # "new"
        /\ sent'[t].adds = FALSE
        /\ \A u \in Turns : u # t => phase'[u] = phase[u] /\ sent'[u] = sent[u]
    <3>1. PICK kept, q, p :
            Begins(t, kept, Synced(kept), [home |-> NoSession, adds |-> FALSE,
                                           question |-> q, previous |-> p])
      BY <1>9 DEF RetryAssistantMessage
    <3>2. PICK now, a :
            /\ now \in {"session", "stream"} /\ a.adds = FALSE
            /\ phase' = [phase EXCEPT ![t] = now] /\ sent' = [sent EXCEPT ![t] = a]
      BY <3>1 DEF Begins, AtHome
    <3>3. /\ phase[t] = "new" /\ phase \in [Turns -> Phases] /\ sent \in [Turns -> Arguments]
      BY <1>2, <3>1 DEF Begins, Calm, TypedChats, TypedRequest
    <3>. QED
      BY <3>2, <3>3
  <2>. QED
    BY <1>2, <2>1 DEF Asked, AllAdd
<1>10. ASSUME NEW s \in Sessions, OpenSession(s) \/ StartNewSession(s) \/ RemoveSession(s)
       PROVE  Done
  <2>1. /\ Live = {} /\ UNCHANGED <<phase, sent>>
        /\ \A c \in Chats : chats'[c] \in {chats[c], Restored(chats[c]), <<>>}
    BY <1>2, <1>10 DEF OpenSession, StartNewSession, RemoveSession, Strays, ShowsChat,
       Calm, TypedChats
  <2>. QED
    BY <1>2, <1>4, <2>1, ChatPlaces
<1>11. ASSUME NEW t \in Turns, SessionReady(t) PROVE Done
  BY <1>2, <1>11, ReadyPlaces
<1>12. ASSUME NEW t \in Turns, SessionFails(t) PROVE Done
  BY <1>2, <1>12, SessionFailsPlaces
<1>13. ASSUME NEW t \in Turns, Deliver(t) \/ InvokeReturns(t) PROVE Done
  <2>1. phase[t] = "stream"
    <3>1. CASE InvokeReturns(t)
      BY <3>1 DEF InvokeReturns, RequestInv, ResultKept
    <3>2. CASE Deliver(t)
      <4>1. events[t] \in Seq(Events) /\ events[t] # <<>>
        BY <3>2 DEF RequestInv, TypedRequest, Deliver
      <4>2. Head(events[t]) \in ToSet(events[t])
        BY <4>1, ToSetTail
      <4>. QED
        BY <4>2 DEF RequestInv, ResultKept
    <3>. QED
      BY <1>13, <3>1, <3>2
  <2>2. Places => Places'
    BY <1>2, <1>13, <2>1, DeliverPlaces, FinishesPlaces, FailsPlaces DEF InvokeReturns
  <2>3. sent' = sent /\ \A u \in Turns : phase'[u] = "new" <=> phase[u] = "new"
    BY <1>2, <1>13, <2>1 DEF Deliver, InvokeReturns, Finishes, Fails, Ends, TypedRequest
  <2>. QED
    BY <1>2, <2>2, <2>3, AskedUnchanged
<1>14. ASSUME NEW t \in Turns,
              \/ ShellStarts(t) \/ ShellOpens(t) \/ ShellReads(t)
              \/ StreamEnds(t) \/ ShellCancelled(t)
       PROVE  Done
  BY <1>3, <1>14 DEF ShellStarts, ShellOpens, ShellReads, StreamEnds, ShellCancelled, window
<1>15. CASE UNCHANGED vars
  BY <1>3, <1>15 DEF vars, window
<1>. QED
  BY <1>5, <1>6, <1>7, <1>8, <1>9, <1>10, <1>11, <1>12, <1>13, <1>14, <1>15
     DEF Next, User, Progress

\* While no turn is stopped, left or retried, answers stand under their questions and
\* those of turns that were answered are whole (updateLastAssistant,
\* appendTurnPlaceholder, deleteMessage, editUserMessage).
THEOREM AnswersStay == Spec => []AnswersInPlace
<1>1. Calm /\ Places => AnswersInPlace
  <2> SUFFICES ASSUME Calm, Places, NEW s \in Chats, NEW i \in DOMAIN chats[s],
                      chats[s][i].who = "assistant"
               PROVE  /\ InPlace(chats[s], i)
                      /\ phase[chats[s][i].of] = "answered" => chats[s][i].text = "answer"
    BY DEF AnswersInPlace, Chats
  <2> DEFINE ms == chats[s]
  <2>1. ms \in Seq(Message) /\ i \in 1..Len(ms) /\ ms[i].who = "assistant"
    BY DEF Calm, TypedChats
  <2>2. i > 1 /\ Answers(ms[i - 1], ms[i], sent, phase)
    BY <2>1 DEF Places, Placed
  <2> HIDE DEF ms
  <2> DEFINE I == {k \in 1..i - 1 : ms[k].who = "user"}
             asked == SelectLastInSubSeq(ms, 1, i - 1, LAMBDA m : m.who = "user")
  <2>3. asked = IF I # {} THEN Max(I) ELSE 0
    BY DEF SelectLastInSubSeq
  <2>4. i - 1 \in I /\ i - 1 \in Nat /\ I \in SUBSET (1..i - 1)
    BY <2>1, <2>2 DEF Answers
  <2>5. Max(I) \in I /\ \A k \in I : k <= Max(I)
    <3> HIDE DEF I
    <3>. QED
      BY <2>4, LastPosition
  <2>6. asked = i - 1
    BY <2>3, <2>4, <2>5
  <2>7. InPlace(ms, i) <=> asked # 0 /\ ms[asked].of = sent[ms[i].of].question
    BY DEF InPlace
  <2> HIDE DEF asked
  <2>8. InPlace(ms, i)
    BY <2>2, <2>6, <2>7 DEF Answers
  <2>. QED
    BY <2>2, <2>8 DEF Answers, ms
<1>2. CalmInv /\ PlaceInv => AnswersInPlace
  BY <1>1 DEF CalmInv, PlaceInv, AllAdd, AnswersInPlace
<1>3. Init => RequestInv /\ CalmInv /\ PlaceInv
  BY RequestInitially, CalmInitially, PlaceInitially DEF CalmInv
<1>4. RequestInv /\ CalmInv /\ PlaceInv /\ [Next]_vars => (RequestInv /\ CalmInv /\ PlaceInv)'
  BY RequestKept, CalmKept, PlaceKept
<1>. QED
  BY <1>2, <1>3, <1>4, PTL DEF Spec

-----------------------------------------------------------------------------
(* The types, whatever the user does                                       *)

\* The window, and the session that a turn under way was sent in.
TypedWindow ==
  /\ TypedChats
  /\ pending \in BOOLEAN /\ streamed \subseteq Turns
  /\ deleted \subseteq Turns /\ strayed \subseteq Turns
  /\ clicks \in 0..MaxClicks
  /\ \A t \in Turns : phase[t] = "stream" => sent[t].home \in Sessions

TypedCancels ==
  /\ cancels \subseteq Turns /\ cancelled \subseteq Turns
  /\ \A t \in Turns : told[t].deltas <= MaxDeltas

LEMMA ResponsesAre ==
  ASSUME NEW ms, ms \in Seq(Message)
  PROVE  Responses(ms) \subseteq Turns
<1>1. \A m \in Message : m.response \in Turns \cup {0}
  BY DEF Message
<1>2. \A i \in 1..Len(ms) : ms[i] \in Message
  BY ElementOfSeq
<1>. QED
  BY <1>1, <1>2 DEF Responses

LEMMA PlaceholderTyped ==
  ASSUME NEW ms, ms \in Seq(Message), NEW t \in Turns, NEW args \in Arguments
  PROVE  Placeholder(ms, t, args) \in Seq(Message)
<1>1. CASE args.adds
  BY <1>1, PlaceholderAdds
<1>2. CASE ~args.adds
  <2> DEFINE p == Patched(ms, t, "empty", args.previous)
             b == [p EXCEPT !.streaming = TRUE]
  <2>1. args.previous \in Turns \cup {0}
    BY DEF Arguments
  <2>2. p \in Message /\ p.who = "assistant"
    BY <2>1, PatchedIs
  <2>3. Placeholder(ms, t, args) = UpdateLastAssistant(ms, b)
    BY <1>2 DEF Placeholder
  <2> HIDE DEF p
  <2>4. b \in Message /\ b.who = "assistant"
    BY <2>2 DEF Message
  <2> HIDE DEF b
  <2>. QED
    BY <2>3, <2>4, UpdateIs
<1>. QED
  BY <1>1, <1>2

\* A send that begins.
LEMMA BeginsTyped ==
  ASSUME TypedRequest, TypedWindow, NEW t, NEW ms, ms \in Seq(Message),
         NEW as \in [Sessions -> Turns \cup {NoTurn}], NEW args \in Arguments,
         Begins(t, ms, as, args),
         deleted' \subseteq Turns, strayed' \subseteq Turns, clicks' \in 0..MaxClicks
  PROVE  TypedWindow'
<1> USE DEF TypedRequest, TypedWindow, TypedChats
<1>1. /\ t \in Turns /\ pending' = TRUE /\ anchor' = as
      /\ UNCHANGED <<session, backend, listed, streamed>>
  BY DEF Begins
<1>2. CASE session = NoSession
  <2>1. /\ phase' = [phase EXCEPT ![t] = "session"] /\ sent' = [sent EXCEPT ![t] = args]
        /\ chats' = [chats EXCEPT ![session] = ms]
    BY <1>2 DEF Begins, Shows
  <2>. QED
    BY <1>1, <2>1
<1>3. CASE session # NoSession
  <2> DEFINE a == AtHome(args, session, as)
             ns == Placeholder(ms, t, a)
  <2>1. session \in Sessions
    BY <1>3 DEF Chats
  <2>2. a \in Arguments /\ a.home = session
    BY <2>1, AtHomeIs
  <2>3. /\ phase' = [phase EXCEPT ![t] = "stream"] /\ sent' = [sent EXCEPT ![t] = a]
        /\ chats' = [chats EXCEPT ![session] = ns]
    BY <1>3 DEF Begins, Shows
  <2> HIDE DEF a
  <2>4. ns \in Seq(Message)
    BY <1>1, <2>2, PlaceholderTyped
  <2> HIDE DEF ns
  <2>. QED
    BY <1>1, <2>1, <2>2, <2>3, <2>4
<1>. QED
  BY <1>2, <1>3

\* A turn that finds its session.
LEMMA ReadyTyped ==
  ASSUME TypedRequest, TypedWindow, NEW t \in Turns, SessionReady(t)
  PROVE  TypedWindow'
<1> USE DEF TypedRequest, TypedWindow, TypedChats
<1>1. PICK s \in Sessions :
        /\ sent' = [sent EXCEPT ![t] = AtHome(sent[t], s, anchor)]
        /\ ShowsChat(s, Placeholder(Restored(chats[s]), t, AtHome(sent[t], s, anchor)))
        /\ backend' = backend \cup {s} /\ listed' = listed \cup {s}
  BY DEF SessionReady
<1>2. /\ phase' = [phase EXCEPT ![t] = "stream"]
      /\ UNCHANGED <<anchor, pending, streamed, deleted, strayed, clicks>>
  BY DEF SessionReady
<1> DEFINE a == AtHome(sent[t], s, anchor)
           ns == Placeholder(Restored(chats[s]), t, a)
<1>3. a \in Arguments /\ a.home = s
  BY AtHomeIs
<1>4. /\ sent' = [sent EXCEPT ![t] = a] /\ session' = s
      /\ chats' = [chats EXCEPT ![s] = ns, ![NoSession] = <<>>]
  BY <1>1 DEF ShowsChat
<1> HIDE DEF a
<1>5. ns \in Seq(Message) /\ <<>> \in Seq(Message)
  <2>1. chats[s] \in Seq(Message)
    BY DEF Chats
  <2>2. Restored(chats[s]) \in Seq(Message)
    BY <2>1, RestoredIs
  <2>. QED
    BY <1>3, <2>2, PlaceholderTyped
<1> HIDE DEF ns
<1>6. chats' \in [Chats -> Seq(Message)]
  BY <1>4, <1>5
<1>7. sent' \in [Turns -> Arguments] /\ session' \in Chats
  BY <1>3, <1>4 DEF Chats
<1>8. \A u \in Turns : phase'[u] = "stream" => sent'[u].home \in Sessions
  BY <1>2, <1>3, <1>4
<1>. QED
  BY <1>1, <1>2, <1>6, <1>7, <1>8

\* The chat that is shown is written to, while the turn goes on or ends.
LEMMA ShowsTyped ==
  ASSUME TypedRequest, TypedWindow, NEW t \in Turns, NEW ns, ns \in Seq(Message), Shows(ns),
         anchor' = anchor \/ (anchor' = [anchor EXCEPT ![sent[t].home] = t]),
         listed' = listed \/ (listed' = listed \cup {sent[t].home} /\ phase[t] = "stream"),
         pending' \in BOOLEAN, streamed' \subseteq streamed \cup {t},
         phase' = phase \/ \E how \in {"answered", "failed"} : phase' = [phase EXCEPT ![t] = how],
         UNCHANGED <<session, backend, sent, deleted, strayed, clicks>>
  PROVE  TypedWindow'
<1> USE DEF TypedRequest, TypedWindow, TypedChats
<1>1. chats' \in [Chats -> Seq(Message)]
  BY DEF Shows
<1>2. anchor' \in [Sessions -> Turns \cup {0}]
  OBVIOUS
<1>3. listed' \subseteq Sessions
  OBVIOUS
<1>4. \A u \in Turns : phase'[u] = "stream" => phase[u] = "stream"
  OBVIOUS
<1>. QED
  BY <1>1, <1>2, <1>3, <1>4

LEMMA FinishesTyped ==
  ASSUME TypedRequest, TypedWindow, NEW t \in Turns, phase[t] = "stream",
         NEW final, Finishes(t, final),
         UNCHANGED <<session, backend, sent, deleted, strayed, clicks>>
  PROVE  TypedWindow'
<1> DEFINE p == Patched(chats[session], t, "answer", sent[t].previous)
           b == [p EXCEPT !.response = IF final = "id" THEN t ELSE NoTurn]
           ns == UpdateLastAssistant(chats[session], b)
<1>1. chats[session] \in Seq(Message) /\ sent[t].previous \in Turns \cup {0}
  BY DEF TypedWindow, TypedChats, Arguments
<1>2. p \in Message /\ p.who = "assistant"
  BY <1>1, PatchedIs
<1>3. /\ Ends(t, "answered") /\ Shows(ns) /\ listed' = listed \cup {sent[t].home}
      /\ \/ anchor' = anchor
         \/ anchor' = [anchor EXCEPT ![sent[t].home] = t]
  BY DEF Finishes
<1> HIDE DEF p
<1>4. b \in Message /\ b.who = "assistant"
  BY <1>2 DEF Message
<1> HIDE DEF b
<1>5. ns \in Seq(Message)
  BY <1>1, <1>4, UpdateIs
<1> HIDE DEF ns
<1>. QED
  BY <1>3, <1>5, ShowsTyped DEF Ends

LEMMA FailsTyped ==
  ASSUME TypedRequest, TypedWindow, NEW t \in Turns, NEW ms, ms \in Seq(Message),
         NEW text \in {"empty", "error"}, Fails(t, ms, text),
         UNCHANGED <<session, backend, sent, deleted, strayed, clicks>>
  PROVE  TypedWindow'
<1> DEFINE b == Patched(ms, t, text, sent[t].previous)
           ns == UpdateLastAssistant(ms, b)
<1>1. sent[t].previous \in Turns \cup {0}
  BY DEF TypedWindow, TypedChats, Arguments
<1>2. b \in Message /\ b.who = "assistant"
  BY <1>1, PatchedIs
<1>3. Ends(t, "failed") /\ Shows(ns) /\ UNCHANGED <<anchor, listed>>
  BY DEF Fails
<1> HIDE DEF b
<1>4. ns \in Seq(Message)
  BY <1>2, UpdateIs
<1> HIDE DEF ns
<1>. QED
  BY <1>3, <1>4, ShowsTyped DEF Ends

LEMMA DeliverTyped ==
  ASSUME RequestInv, TypedWindow, NEW t \in Turns, Deliver(t)
  PROVE  TypedWindow'
<1>1. TypedRequest
  BY DEF RequestInv
<1>2. phase[t] = "stream"
  <2>1. events[t] \in Seq(Events) /\ events[t] # <<>>
    BY DEF RequestInv, TypedRequest, Deliver
  <2>2. Head(events[t]) \in ToSet(events[t])
    BY <2>1, ToSetTail
  <2>. QED
    BY <2>2 DEF RequestInv, ResultKept
<1>3. chats[session] \in Seq(Message) /\ sent[t].previous \in Turns \cup {0}
  BY DEF TypedWindow, TypedChats, Arguments
<1>4. UNCHANGED <<session, backend, sent, deleted, strayed, clicks>>
  BY DEF Deliver
<1>5. CASE \E final : Finishes(t, final)
  BY <1>1, <1>2, <1>4, <1>5, FinishesTyped
<1>6. CASE Fails(t, chats[session], "error")
  BY <1>1, <1>3, <1>4, <1>6, FailsTyped
<1>7. ASSUME NEW text \in {"empty", "part"}, NEW response \in BOOLEAN,
             Shows(UpdateLastAssistant(chats[session],
               [Patched(chats[session], t, text, sent[t].previous)
                  EXCEPT !.streaming = TRUE, !.response = IF response THEN t ELSE @])),
             streamed' \subseteq streamed \cup {t},
             UNCHANGED <<anchor, listed, pending, phase>>
      PROVE  TypedWindow'
  <2> DEFINE p == Patched(chats[session], t, text, sent[t].previous)
             b == [p EXCEPT !.streaming = TRUE, !.response = IF response THEN t ELSE @]
             ns == UpdateLastAssistant(chats[session], b)
  <2>1. p \in Message /\ p.who = "assistant"
    BY <1>3, PatchedIs
  <2>2. Shows(ns)
    BY <1>7
  <2> HIDE DEF p
  <2>3. b \in Message /\ b.who = "assistant"
    BY <2>1 DEF Message
  <2> HIDE DEF b
  <2>4. ns \in Seq(Message)
    BY <1>3, <2>3, UpdateIs
  <2> HIDE DEF ns
  <2>5. pending' \in BOOLEAN
    BY <1>7 DEF TypedWindow
  <2>. QED
    BY <1>1, <1>4, <1>7, <2>2, <2>4, <2>5, ShowsTyped
<1>8. \/ \E final : Finishes(t, final)
      \/ Fails(t, chats[session], "error")
      \/ \E text \in {"empty", "part"}, response \in BOOLEAN :
           /\ Shows(UpdateLastAssistant(chats[session],
                [Patched(chats[session], t, text, sent[t].previous)
                   EXCEPT !.streaming = TRUE, !.response = IF response THEN t ELSE @]))
           /\ streamed' \subseteq streamed \cup {t}
           /\ UNCHANGED <<anchor, listed, pending, phase>>
  BY DEF Deliver
<1>. QED
  BY <1>5, <1>6, <1>7, <1>8

\* What is left when messages are cut, and what an edit or a retry begins with.
LEMMA CutTyped ==
  ASSUME TypedWindow, NEW i \in 1..Len(chats[session]), NEW j \in i..Len(chats[session])
  PROVE  LET ms == chats[session]
             kept == SubSeq(ms, 1, i - 1)
         IN /\ ms \in Seq(Message) /\ ms[i] \in Message
            /\ kept \in Seq(Message) /\ Len(kept) <= Len(ms)
            /\ Cut(ms, i, j) \in Seq(Message)
            /\ Responses(SubSeq(ms, i, j)) \subseteq Turns
            /\ \A ns \in Seq(Message) : Synced(ns) \in [Sessions -> Turns \cup {NoTurn}]
<1> DEFINE ms == chats[session]
           kept == SubSeq(ms, 1, i - 1)
<1>1. ms \in Seq(Message)
  BY DEF TypedWindow, TypedChats
<1> HIDE DEF ms
<1>2. ms[i] \in Message
  BY <1>1, ElementOfSeq DEF ms
<1>3. kept \in Seq(Message) /\ Len(kept) <= Len(ms)
  BY <1>1, SubSeqProperties DEF ms
<1>4. Cut(ms, i, j) \in Seq(Message)
  BY <1>1, CutIs DEF ms
<1>5. SubSeq(ms, i, j) \in Seq(Message)
  BY <1>1, SubSeqProperties DEF ms
<1>6. Responses(SubSeq(ms, i, j)) \subseteq Turns
  BY <1>5, ResponsesAre
<1>7. ASSUME NEW ns, ns \in Seq(Message)
      PROVE  Synced(ns) \in [Sessions -> Turns \cup {NoTurn}]
  <2>1. LastResponse(ns) \in Turns \cup {NoTurn}
    BY <1>7, LastResponseIs, ResponsesAre
  <2>. QED
    BY <2>1 DEF Synced, TypedWindow, TypedChats
<1>. QED
  BY <1>1, <1>2, <1>3, <1>4, <1>6, <1>7 DEF ms

\* Another chat is shown, or one is removed.
LEMMA ChatTyped ==
  ASSUME TypedWindow, NEW s \in Sessions, NEW ms, ms \in Seq(Message),
         \/ chats' = [chats EXCEPT ![s] = ms, ![NoSession] = <<>>]
         \/ chats' = [chats EXCEPT ![s] = ms],
         session' \in {s, session, NoSession},
         anchor' = anchor \/ anchor' = [anchor EXCEPT ![s] = NoTurn],
         backend' \subseteq backend \cup {s}, listed' \subseteq listed \cup {s},
         Clicks, strayed' = strayed \cup Live,
         UNCHANGED <<pending, phase, sent, streamed, deleted>>
  PROVE  TypedWindow'
<1> USE DEF TypedWindow, TypedChats
<1>1. chats' \in [Chats -> Seq(Message)]
  <2>1. <<>> \in Seq(Message)
    OBVIOUS
  <2>. QED
    BY <2>1
<1>2. session' \in Chats
  BY DEF Chats
<1>3. clicks' \in 0..MaxClicks
  BY ConstantsAssumption DEF Clicks
<1>4. strayed' \subseteq Turns
  BY DEF Live
<1>5. anchor' \in [Sessions -> Turns \cup {0}]
  OBVIOUS
<1>. QED
  BY <1>1, <1>2, <1>3, <1>4, <1>5

LEMMA WindowInitially == Init => TypedWindow /\ TypedCancels
<1> SUFFICES ASSUME Init PROVE TypedWindow /\ TypedCancels
  OBVIOUS
<1>1. session \in Sessions
  <2>1. \E s : s \in Sessions
    BY ConstantsAssumption
  <2>. QED
    BY <2>1 DEF Init
<1>2. <<>> \in Seq(Message)
  OBVIOUS
<1>3. TypedChats
  BY <1>1, <1>2 DEF Init, TypedChats, Chats, Arguments
<1>4. TypedCancels
  BY ConstantsAssumption DEF Init, TypedCancels, NoFrames
<1>5. \A t \in Turns : phase[t] # "stream"
  BY DEF Init
<1>6. /\ pending \in BOOLEAN /\ streamed \subseteq Turns
      /\ deleted \subseteq Turns /\ strayed \subseteq Turns
  BY DEF Init
<1>7. clicks \in 0..MaxClicks
  <2>1. clicks = 0
    BY DEF Init
  <2>. QED
    BY <2>1, ConstantsAssumption
<1>. QED
  BY <1>3, <1>4, <1>5, <1>6, <1>7 DEF TypedWindow

LEMMA CancelsKept ==
  ASSUME TypedRequest, TypedCancels, [Next]_vars
  PROVE  TypedCancels'
<1> USE DEF TypedRequest, TypedCancels
<1>1. CASE UNCHANGED <<cancels, cancelled, told>>
  BY <1>1
<1>2. CASE Stop
  BY <1>2 DEF Stop
<1>3. ASSUME NEW t \in Turns, NEW what, Returns(t, what)
      PROVE  TypedCancels'
  BY <1>3, ConstantsAssumption DEF Returns, NoFrames
<1>4. ASSUME NEW t \in Turns, ShellStarts(t)
      PROVE  TypedCancels'
  BY <1>4 DEF ShellStarts
<1>5. ASSUME NEW t \in Turns, ShellReads(t)
      PROVE  TypedCancels'
  <2>1. PICK e \in {"response", "delta", "plain", "id", "error"} :
          /\ e = "delta" => told[t].deltas < MaxDeltas
          /\ told' = [told EXCEPT ![t] =
                       [response |-> told[t].response \/ e = "response",
                        deltas |-> IF e = "delta" THEN told[t].deltas + 1
                                                  ELSE told[t].deltas,
                        error |-> e = "error"]]
    BY <1>5 DEF ShellReads
  <2>2. UNCHANGED <<cancels, cancelled>>
    BY <1>5 DEF ShellReads
  <2>3. told'[t].deltas <= MaxDeltas
    BY <2>1, ConstantsAssumption
  <2>4. \A u \in Turns : u # t => told'[u] = told[u]
    BY <2>1
  <2>. QED
    BY <2>2, <2>3, <2>4
<1>6. ASSUME User, ~Stop
      PROVE  UNCHANGED <<cancels, cancelled, told>>
  <2>1. \A t, ms, as, args : Begins(t, ms, as, args) => UNCHANGED <<cancels, cancelled, told>>
    BY DEF Begins
  <2>2. \A t : Send(t) => UNCHANGED <<cancels, cancelled, told>>
    BY <2>1 DEF Send
  <2>3. \A t, i : EditUserMessage(t, i) \/ RetryAssistantMessage(t, i)
                   => UNCHANGED <<cancels, cancelled, told>>
    BY <2>1 DEF EditUserMessage, RetryAssistantMessage
  <2>4. \A i : DeleteMessage(i) => UNCHANGED <<cancels, cancelled, told>>
    BY DEF DeleteMessage, request
  <2>5. \A s : OpenSession(s) \/ StartNewSession(s) \/ RemoveSession(s)
                => UNCHANGED <<cancels, cancelled, told>>
    BY DEF OpenSession, StartNewSession, RemoveSession, request
  <2>. QED
    BY <1>6, <2>2, <2>3, <2>4, <2>5 DEF User
<1>7. ASSUME NEW t \in Turns, SessionReady(t) \/ SessionFails(t) \/ Deliver(t) \/ InvokeReturns(t)
      PROVE  UNCHANGED <<cancels, cancelled, told>>
  BY <1>7 DEF SessionReady, SessionFails, Deliver, InvokeReturns
<1>8. ASSUME NEW t \in Turns, ShellOpens(t) \/ StreamEnds(t) \/ ShellCancelled(t)
      PROVE  UNCHANGED <<cancels, cancelled, told>> \/ \E what : Returns(t, what)
  BY <1>8 DEF ShellOpens, StreamEnds, ShellCancelled
<1>9. UNCHANGED vars => UNCHANGED <<cancels, cancelled, told>>
  BY DEF vars, request
<1>. QED
  BY <1>1, <1>2, <1>3, <1>4, <1>5, <1>6, <1>7, <1>8, <1>9 DEF Next, Progress

LEMMA WindowKept ==
  ASSUME RequestInv, TypedWindow, [Next]_vars
  PROVE  TypedWindow'
<1> DEFINE ms == chats[session]
<1>1. TypedRequest /\ ms \in Seq(Message)
  BY DEF RequestInv, TypedWindow, TypedChats
<1>2. CASE UNCHANGED vars
  BY <1>2 DEF vars, window, TypedWindow, TypedChats
<1>3. ASSUME NEW t \in Turns, Send(t) PROVE TypedWindow'
  <2> DEFINE args == [home |-> NoSession, adds |-> TRUE, question |-> t, previous |-> NoTurn]
  <2>1. args \in Arguments
    BY DEF Arguments
  <2>2. /\ anchor \in [Sessions -> Turns \cup {NoTurn}]
        /\ deleted' \subseteq Turns /\ strayed' \subseteq Turns /\ clicks' \in 0..MaxClicks
    BY <1>3 DEF Send, TypedWindow, TypedChats
  <2>3. Begins(t, ms, anchor, args)
    BY <1>3 DEF Send
  <2> HIDE DEF args, ms
  <2>. QED
    BY <1>1, <2>1, <2>2, <2>3, BeginsTyped
<1>4. CASE Stop
  <2>1. Written(ms) \in Seq(Message)
    BY <1>1, WrittenIs
  <2>2. chats' \in [Chats -> Seq(Message)]
    BY <1>4, <2>1 DEF Stop, Shows, TypedWindow, TypedChats
  <2>3. clicks' \in 0..MaxClicks
    BY <1>4, ConstantsAssumption DEF Stop, Clicks, TypedWindow
  <2>4. strayed' \subseteq Turns /\ pending' \in BOOLEAN
    BY <1>4 DEF Stop, Strays, Live, TypedWindow
  <2>. QED
    BY <1>4, <2>2, <2>3, <2>4 DEF Stop, TypedWindow, TypedChats
<1>5. ASSUME NEW i, CanEdit, i \in DOMAIN ms
      PROVE  i \in 1..Len(ms) /\ Len(ms) \in i..Len(ms) /\ clicks' \in 0..MaxClicks
  BY <1>1, <1>5, ConstantsAssumption DEF CanEdit, Clicks, TypedWindow
<1>6. ASSUME NEW i, DeleteMessage(i) PROVE TypedWindow'
  <2>1. i \in 1..Len(ms) /\ clicks' \in 0..MaxClicks
    BY <1>5, <1>6 DEF DeleteMessage
  <2>2. PICK j \in i..Len(ms) :
          /\ Shows(Cut(ms, i, j)) /\ anchor' = Synced(Cut(ms, i, j))
          /\ deleted' = deleted \cup Responses(SubSeq(ms, i, j))
          /\ UNCHANGED <<session, backend, listed, pending, phase, sent, streamed, strayed>>
    <3> DEFINE j == IF /\ ms[i].who = "user"
                       /\ i < Len(ms) /\ ms[i + 1].who = "assistant"
                    THEN i + 1 ELSE i
    <3>1. /\ Shows(Cut(ms, i, j)) /\ anchor' = Synced(Cut(ms, i, j))
          /\ deleted' = deleted \cup Responses(SubSeq(ms, i, j))
          /\ UNCHANGED <<session, backend, listed, pending, phase, sent, streamed, strayed>>
      BY <1>6 DEF DeleteMessage, Cut
    <3>2. j \in i..Len(ms)
      BY <1>1, <2>1
    <3> HIDE DEF j
    <3>. QED
      BY <3>1, <3>2
  <2> DEFINE kept == Cut(ms, i, j)
             gone == Responses(SubSeq(ms, i, j))
  <2>3. /\ kept \in Seq(Message) /\ gone \subseteq Turns
        /\ Synced(kept) \in [Sessions -> Turns \cup {NoTurn}]
    BY <2>1, CutTyped
  <2>4. Shows(kept) /\ anchor' = Synced(kept) /\ deleted' = deleted \cup gone
    BY <2>2
  <2> HIDE DEF kept, gone
  <2>5. chats' \in [Chats -> Seq(Message)]
    BY <2>3, <2>4 DEF Shows, TypedWindow, TypedChats
  <2>. QED
    BY <2>1, <2>2, <2>3, <2>4, <2>5 DEF TypedWindow, TypedChats
<1>7. ASSUME NEW t \in Turns, NEW i, EditUserMessage(t, i) PROVE TypedWindow'
  <2> DEFINE kept == SubSeq(ms, 1, i - 1)
             gone == Responses(SubSeq(ms, i, Len(ms)))
             args == [home |-> NoSession, adds |-> TRUE, question |-> t,
                      previous |-> ms[i].previous]
  <2>1. i \in 1..Len(ms) /\ Len(ms) \in i..Len(ms) /\ clicks' \in 0..MaxClicks
    BY <1>5, <1>7 DEF EditUserMessage
  <2>2. /\ ms[i] \in Message /\ kept \in Seq(Message) /\ gone \subseteq Turns
        /\ Synced(kept) \in [Sessions -> Turns \cup {NoTurn}]
    BY <2>1, CutTyped
  <2>3. args \in Arguments
    BY <2>2 DEF Arguments, Message
  <2>4. /\ Begins(t, kept, Synced(kept), args)
        /\ deleted' = deleted \cup gone /\ strayed' = strayed
    BY <1>7 DEF EditUserMessage
  <2> HIDE DEF kept, gone, args
  <2>5. deleted' \subseteq Turns /\ strayed' \subseteq Turns
    BY <2>2, <2>4 DEF TypedWindow
  <2>. QED
    BY <1>1, <2>1, <2>2, <2>3, <2>4, <2>5, BeginsTyped
<1>8. ASSUME NEW t \in Turns, NEW i, RetryAssistantMessage(t, i) PROVE TypedWindow'
  <2> DEFINE kept == SubSeq(ms, 1, i - 1)
             gone == Responses(SubSeq(ms, i, Len(ms)))
             asked == SelectLastInSeq(kept, LAMBDA m : m.who = "user")
             args == [home |-> NoSession, adds |-> FALSE, question |-> ms[asked].of,
                      previous |-> ms[asked].previous]
  <2>1. i \in 1..Len(ms) /\ Len(ms) \in i..Len(ms) /\ clicks' \in 0..MaxClicks
    BY <1>5, <1>8 DEF RetryAssistantMessage
  <2>2. /\ kept \in Seq(Message) /\ Len(kept) <= Len(ms) /\ gone \subseteq Turns
        /\ Synced(kept) \in [Sessions -> Turns \cup {NoTurn}]
    BY <2>1, CutTyped
  <2>3. /\ asked # 0 /\ Begins(t, kept, Synced(kept), args)
        /\ deleted' = deleted \cup gone /\ strayed' = strayed
    BY <1>8 DEF RetryAssistantMessage
  <2> HIDE DEF kept, gone
  <2>4. asked \in 1..Len(ms)
    <3> DEFINE I == {k \in 1..Len(kept) : kept[k].who = "user"}
    <3>1. asked = IF I # {} THEN Max(I) ELSE 0
      BY DEF SelectLastInSeq
    <3>2. Len(kept) \in Nat /\ I \in SUBSET (1..Len(kept))
      BY <2>2
    <3>3. I # {} => Max(I) \in I
      BY <3>2, LastPosition
    <3> HIDE DEF asked
    <3>. QED
      BY <1>1, <2>2, <2>3, <3>1, <3>3
  <2> HIDE DEF asked
  <2>5. args \in Arguments
    <3>1. ms[asked] \in Message
      BY <1>1, <2>4, ElementOfSeq
    <3>. QED
      BY <3>1 DEF Arguments, Message
  <2> HIDE DEF args
  <2>6. deleted' \subseteq Turns /\ strayed' \subseteq Turns
    BY <2>2, <2>3 DEF TypedWindow
  <2>. QED
    BY <1>1, <2>1, <2>2, <2>3, <2>5, <2>6, BeginsTyped
<1>9. ASSUME NEW s \in Sessions, OpenSession(s) PROVE TypedWindow'
  <2>1. Restored(chats[s]) \in Seq(Message)
    BY RestoredIs DEF TypedWindow, TypedChats, Chats
  <2>. QED
    BY <1>9, <2>1, ChatTyped DEF OpenSession, Strays, ShowsChat
<1>10. ASSUME NEW s \in Sessions, StartNewSession(s) \/ RemoveSession(s) PROVE TypedWindow'
  <2>1. /\ session' \in {s, session, NoSession}
        /\ \/ chats' = [chats EXCEPT ![s] = <<>>, ![NoSession] = <<>>]
           \/ chats' = [chats EXCEPT ![s] = <<>>]
        /\ anchor' = anchor \/ anchor' = [anchor EXCEPT ![s] = NoTurn]
        /\ backend' \subseteq backend \cup {s} /\ listed' \subseteq listed \cup {s}
        /\ Clicks /\ strayed' = strayed \cup Live
        /\ UNCHANGED <<pending, phase, sent, streamed, deleted>>
    BY <1>10 DEF StartNewSession, RemoveSession, Strays, ShowsChat
  <2>2. <<>> \in Seq(Message)
    OBVIOUS
  <2>. QED
    BY <2>1, <2>2, ChatTyped
<1>11. ASSUME NEW t \in Turns, SessionReady(t) PROVE TypedWindow'
  BY <1>1, <1>11, ReadyTyped
<1>12. ASSUME NEW t \in Turns, SessionFails(t) PROVE TypedWindow'
  <2>1. Placeholder(ms, t, sent[t]) \in Seq(Message)
    BY <1>1, PlaceholderTyped DEF TypedWindow, TypedChats
  <2>. QED
    BY <1>1, <1>12, <2>1, FailsTyped DEF SessionFails
<1>13. ASSUME NEW t \in Turns, Deliver(t) PROVE TypedWindow'
  BY <1>13, DeliverTyped
<1>14. ASSUME NEW t \in Turns, InvokeReturns(t) PROVE TypedWindow'
  <2>1. phase[t] = "stream"
    BY <1>14 DEF InvokeReturns, RequestInv, ResultKept
  <2>. QED
    BY <1>1, <1>14, <2>1, FinishesTyped, FailsTyped DEF InvokeReturns
<1>15. ASSUME NEW t \in Turns,
              \/ ShellStarts(t) \/ ShellOpens(t) \/ ShellReads(t)
              \/ StreamEnds(t) \/ ShellCancelled(t)
       PROVE  TypedWindow'
  BY <1>15 DEF ShellStarts, ShellOpens, ShellReads, StreamEnds, ShellCancelled, window,
     TypedWindow, TypedChats
<1>. QED
  BY <1>2, <1>3, <1>4, <1>6, <1>7, <1>8, <1>9, <1>10, <1>11, <1>12, <1>13, <1>14,
     <1>15 DEF Next, User, Progress

\* Every reachable state is well typed: the transcripts hold messages of turns, whatever
\* was stopped, left, cut or deleted, and a session that is listed or continued exists.
THEOREM TypeCorrect == Spec => []TypeOK
<1>1. RequestInv /\ TypedWindow /\ TypedCancels => TypeOK
  <2> SUFFICES ASSUME RequestInv, TypedWindow, TypedCancels PROVE TypeOK
    OBVIOUS
  <2>1. \A t \in Turns : told[t] \in [response : BOOLEAN, deltas : 0..MaxDeltas, error : BOOLEAN]
    <3> SUFFICES ASSUME NEW t \in Turns
                 PROVE  told[t] \in [response : BOOLEAN, deltas : 0..MaxDeltas, error : BOOLEAN]
      OBVIOUS
    <3>1. told[t] \in [response : BOOLEAN, deltas : Nat, error : BOOLEAN]
      BY DEF RequestInv, TypedRequest
    <3>2. told[t].deltas \in 0..MaxDeltas
      BY <3>1, ConstantsAssumption DEF TypedCancels
    <3>. QED
      BY <3>1, <3>2
  <2>2. told \in [Turns -> [response : BOOLEAN, deltas : 0..MaxDeltas, error : BOOLEAN]]
    BY <2>1 DEF RequestInv, TypedRequest
  <2>. QED
    BY <2>2 DEF RequestInv, TypedRequest, TypedWindow, TypedChats, TypedCancels, TypeOK,
       Chats, Arguments, Phases, Events
<1>2. Init => RequestInv /\ TypedWindow /\ TypedCancels
  BY RequestInitially, WindowInitially
<1>3. RequestInv /\ TypedWindow /\ TypedCancels /\ [Next]_vars =>
        (RequestInv /\ TypedWindow /\ TypedCancels)'
  <2> SUFFICES ASSUME RequestInv, TypedWindow, TypedCancels, [Next]_vars
               PROVE  (RequestInv /\ TypedWindow /\ TypedCancels)'
    OBVIOUS
  <2>1. TypedRequest
    BY DEF RequestInv
  <2>. QED
    BY <2>1, RequestKept, WindowKept, CancelsKept
<1>. QED
  BY <1>1, <1>2, <1>3, PTL DEF Spec
=============================================================================
