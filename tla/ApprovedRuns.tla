---------------------------- MODULE ApprovedRuns ----------------------------
(***************************************************************************)
(* What the user is promised of the risky calls that the model authors: a   *)
(* call runs when enough decisions of its own stand behind it, a decision   *)
(* counts for one call, and what ran is neither approved nor run again.     *)
(* The last holds unless what was saved of the calls that wait was lost,    *)
(* and a restart had to go by it.                                          *)
(***************************************************************************)
EXTENDS Naturals, Sequences

CONSTANTS MaxClicks  \* decisions are numbered; 0 stands for one by the mode

VARIABLES
  authored,  \* of each call: whether it needs two decisions
  decided,   \* <<call, decision>>: the decisions that let a call go on
  ran,       \* the calls that ran, in order
  byMode,    \* the policy approves for the user
  lost       \* a restart went by a file that a save had failed to bring up to date

vars == <<authored, decided, ran, byMode, lost>>

Init ==
  /\ authored = <<>>
  /\ decided = {}
  /\ ran = <<>>
  /\ byMode \in BOOLEAN
  /\ lost = FALSE

\* The decisions of the user for call c.
Backing(c) == {n \in 1..MaxClicks : <<c, n>> \in decided}

\* One decision, or two when the call needs two.
Backed(c) ==
  /\ Backing(c) # {}
  /\ authored[c] => \E m, n \in Backing(c) : m # n

HasRun(c) == \E i \in DOMAIN ran : ran[i] = c

Author ==
  /\ \E twice \in BOOLEAN : authored' = Append(authored, twice)
  /\ UNCHANGED <<decided, ran>>

Decide(c, n) ==
  /\ HasRun(c) => lost
  /\ byMode \/ (n # 0 /\ \A d \in decided : d[2] # n)
  /\ decided' = decided \cup {<<c, n>>}
  /\ UNCHANGED <<authored, ran>>

Run(c) ==
  /\ HasRun(c) => lost
  /\ byMode \/ Backed(c)
  /\ ran' = Append(ran, c)
  /\ UNCHANGED <<authored, decided>>

Next ==
  /\ \/ Author
     \/ \E c \in DOMAIN authored : Run(c) \/ \E n \in 0..MaxClicks : Decide(c, n)
     \/ UNCHANGED <<authored, decided, ran>>
  /\ lost' \in {lost, TRUE}
  /\ UNCHANGED byMode

Spec == Init /\ [][Next]_vars
=============================================================================
