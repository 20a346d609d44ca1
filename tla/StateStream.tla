---------------------------- MODULE StateStream ----------------------------
(***************************************************************************)
(* How the status of the assistant reaches the windows.  Threads of the Core *)
(* Service publish on a bus, which keeps the latest event and calls its      *)
(* subscribers outside its lock.  Each stream of the control plane is such a *)
(* subscriber: it passes the events through a bounded queue to one HTTP      *)
(* response, and sends the bus's latest event when none came for a while.    *)
(* The shell reads one stream, and connects again when it breaks.            *)
(*                                                                         *)
(* An event is the number of its publication; 0 is the idle event of a new   *)
(* bus.                                                                    *)
(***************************************************************************)
EXTENDS Naturals, FiniteSets, Sequences

CONSTANTS
  Publishers,      \* threads that publish
  Streams,         \* the streams that may be open at a time
  MaxSubscribers,  \* _MAX_SUBSCRIBERS
  QueueSize,       \* maxsize of the queue of a stream
  WireSize,        \* bound on the frames sent and not yet read: then a send blocks
  MaxEvents,       \* bound on the publications
  MaxCrashes,      \* bound on the crashes of the Core Service
  MaxBreaks        \* bound on the times the shell gives a stream up

ASSUME ConstantsAssumption ==
  /\ IsFiniteSet(Publishers) /\ IsFiniteSet(Streams)
  /\ \A n \in {MaxSubscribers, QueueSize, WireSize} : n \in Nat \ {0}
  /\ \A n \in {MaxEvents, MaxCrashes, MaxBreaks} : n \in Nat

VARIABLES
  up,           \* the Core Service runs
  snapshot,     \* AssistantStateBus: the latest event
  subscribers,  \* and the streams that are to be called
  pub,          \* the publishers: their event, and whom they have yet to call
  stream,       \* iter_state_sse_frames: place, callbacks posted, queue, client there
  wire,         \* the frames of a stream that are sent and not yet read
  reads,        \* the stream the shell reads, or none
  shown,        \* what the shell emitted last
  made, crashes, breaks  \* counters of the three bounds

bus == <<snapshot, subscribers>>
shell == <<reads, shown>>
counts == <<made, crashes, breaks>>
vars == <<up, bus, pub, stream, wire, shell, counts>>

Events == 0..MaxEvents
NoCall == [event |-> 0, to |-> {}]
Closed == [pc |-> "closed", posted |-> <<>>, queue |-> <<>>, client |-> FALSE]

TypeOK ==
  /\ up \in BOOLEAN
  /\ snapshot \in Events
  /\ pub \in [Publishers -> [event : Events, to : SUBSET Streams]]
  /\ DOMAIN stream = Streams
  /\ \A s \in Streams :
       /\ stream[s].pc \in {"closed", "open", "first", "wait"}
       /\ stream[s].client \in BOOLEAN
       /\ Len(stream[s].queue) <= QueueSize /\ Len(wire[s]) <= WireSize
  /\ reads \subseteq Streams /\ Cardinality(reads) <= 1
  /\ shown \in Events
  /\ subscribers \subseteq Streams

Init ==
  /\ up = TRUE
  /\ snapshot = 0 /\ subscribers = {}
  /\ pub = [p \in Publishers |-> NoCall]
  /\ stream = [s \in Streams |-> Closed]
  /\ wire = [s \in Streams |-> <<>>]
  /\ reads = {} /\ shown = 0
  /\ made = 0 /\ crashes = 0 /\ breaks = 0

-----------------------------------------------------------------------------
(* The bus                                                                 *)

\* publish, up to the release of the lock
Publish(p) ==
  /\ up /\ pub[p].to = {} /\ made < MaxEvents
  /\ made' = made + 1
  /\ snapshot' = made'
  /\ pub' = [pub EXCEPT ![p] = [event |-> made', to |-> subscribers]]
  /\ UNCHANGED <<up, subscribers, stream, wire, shell, crashes, breaks>>

\* One subscriber is called: it posts a callback to the event loop.
Call(p, s) ==
  /\ s \in pub[p].to
  /\ pub' = [pub EXCEPT ![p].to = @ \ {s}]
  /\ stream' = [stream EXCEPT ![s].posted = Append(@, pub[p].event)]
  /\ UNCHANGED <<up, bus, wire, shell, counts>>

-----------------------------------------------------------------------------
(* A stream of the control plane                                           *)

\* The subscription is silently refused when there are too many.
Subscribe(s) ==
  /\ stream[s].pc = "open"
  /\ stream' = [stream EXCEPT ![s].pc = "first"]
  /\ subscribers' = IF Cardinality(subscribers) < MaxSubscribers
                    THEN subscribers \cup {s} ELSE subscribers
  /\ UNCHANGED <<up, snapshot, pub, wire, shell, counts>>

Sends(s, event) ==
  /\ stream[s].client /\ Len(wire[s]) < WireSize
  /\ wire' = [wire EXCEPT ![s] = Append(@, event)]

First(s) ==
  /\ stream[s].pc = "first"
  /\ Sends(s, snapshot)
  /\ stream' = [stream EXCEPT ![s].pc = "wait"]
  /\ UNCHANGED <<up, bus, pub, shell, counts>>

\* _enqueue, on the event loop: an event that finds the queue full is dropped.
Enqueue(s) ==
  /\ stream[s].posted # <<>>
  /\ stream' = [stream EXCEPT ![s].posted = Tail(@),
                              ![s].queue = IF Len(@) = QueueSize THEN @
                                           ELSE Append(@, Head(stream[s].posted))]
  /\ UNCHANGED <<up, bus, pub, wire, shell, counts>>

SendEvent(s) ==
  /\ stream[s].pc = "wait" /\ stream[s].queue # <<>>
  /\ Sends(s, Head(stream[s].queue))
  /\ stream' = [stream EXCEPT ![s].queue = Tail(@)]
  /\ UNCHANGED <<up, bus, pub, shell, counts>>

\* Wrong: the heartbeat repeats what was sent last.
LastSent(s) == IF wire[s] = <<>> THEN shown ELSE wire[s][Len(wire[s])]

BeatOf(s) == snapshot

\* No event for the time of a heartbeat
Heartbeat(s) ==
  /\ stream[s].pc = "wait" /\ stream[s].queue = <<>>
  /\ Sends(s, BeatOf(s))
  /\ UNCHANGED <<up, bus, pub, stream, shell, counts>>

\* Wrong: the subscription outlives the stream.
NotUnsubscribed(s) == subscribers

Unsubscribed(s) == subscribers \ {s}

\* The server sees that the client has gone: unsubscribe.  A call that is still to
\* come changes nothing any more.
End(s) ==
  /\ stream[s].pc # "closed" /\ ~stream[s].client
  /\ subscribers' = Unsubscribed(s)
  /\ stream' = [stream EXCEPT ![s] = Closed]
  /\ pub' = [p \in Publishers |-> [pub[p] EXCEPT !.to = @ \ {s}]]
  /\ UNCHANGED <<up, snapshot, wire, shell, counts>>

Serves(s) ==
  \/ Subscribe(s) \/ First(s) \/ SendEvent(s) \/ Heartbeat(s) \/ End(s)

-----------------------------------------------------------------------------
(* The shell                                                               *)

Connect(s) ==
  /\ up /\ reads = {} /\ stream[s].pc = "closed"
  /\ stream' = [stream EXCEPT ![s] = [Closed EXCEPT !.pc = "open", !.client = TRUE]]
  /\ reads' = {s}
  /\ UNCHANGED <<up, bus, pub, wire, shown, counts>>

ReadFrame(s) ==
  /\ s \in reads /\ wire[s] # <<>>
  /\ shown' = Head(wire[s])
  /\ wire' = [wire EXCEPT ![s] = Tail(@)]
  /\ UNCHANGED <<up, bus, pub, stream, reads, counts>>

\* The read times out, as it does when a heartbeat is late, or an error ends it.
GiveUp(s) ==
  /\ s \in reads /\ breaks < MaxBreaks
  /\ breaks' = breaks + 1
  /\ reads' = {}
  /\ stream' = [stream EXCEPT ![s].client = FALSE]
  /\ wire' = [wire EXCEPT ![s] = <<>>]
  /\ UNCHANGED <<up, bus, pub, shown, made, crashes>>

\* The server has gone.
SeeEnd(s) ==
  /\ s \in reads /\ stream[s].pc = "closed" /\ wire[s] = <<>>
  /\ reads' = {}
  /\ UNCHANGED <<up, bus, pub, stream, wire, shown, counts>>

-----------------------------------------------------------------------------

\* The frames that were sent may still arrive, or some of them.
Crash ==
  /\ up /\ crashes < MaxCrashes
  /\ crashes' = crashes + 1
  /\ up' = FALSE
  /\ snapshot' = 0 /\ subscribers' = {}
  /\ pub' = [p \in Publishers |-> NoCall]
  /\ stream' = [s \in Streams |-> Closed]
  /\ \E n \in 0..WireSize :
       wire' = [s \in Streams |-> IF s \in reads /\ n <= Len(wire[s])
                                  THEN SubSeq(wire[s], 1, n) ELSE <<>>]
  /\ UNCHANGED <<shell, made, breaks>>

Restart ==
  /\ ~up /\ up' = TRUE
  /\ UNCHANGED <<bus, pub, stream, wire, shell, counts>>

Next ==
  \/ Crash \/ Restart
  \/ \E p \in Publishers : Publish(p) \/ \E s \in Streams : Call(p, s)
  \/ \E s \in Streams :
       Enqueue(s) \/ Serves(s) \/ Connect(s) \/ ReadFrame(s) \/ GiveUp(s) \/ SeeEnd(s)

Spec == Init /\ [][Next]_vars

\* Threads, the event loop and the reader of the shell run; the Core Service is
\* started again.  Nobody has to publish, and nothing has to break.
Fairness ==
  /\ WF_vars(Restart)
  /\ \A p \in Publishers : WF_vars(\E s \in Streams : Call(p, s))
  /\ \A s \in Streams : WF_vars(Enqueue(s)) /\ WF_vars(Serves(s))
  /\ WF_vars(\E s \in Streams : Connect(s) \/ ReadFrame(s) \/ SeeEnd(s))

FairSpec == Spec /\ Fairness

-----------------------------------------------------------------------------
(* Properties                                                              *)

\* The bus calls only streams that are still there, and no more than it may: a
\* stream that ends, at whatever place its client leaves it, is off the list, and so
\* makes room for the next (subscribe, unsubscribe, iter_state_sse_frames).
CallsStreams ==
  /\ TypeOK
  /\ subscribers \subseteq {s \in Streams : stream[s].pc \in {"first", "wait"}}
  /\ Cardinality(subscribers) <= MaxSubscribers

\* Once the publications cease, what the windows show becomes the latest event of
\* the bus and stays so, although two publishers may call a subscriber in the
\* other order, the queue may drop the last event, the subscription may have been
\* refused, and the stream may break (publish, iter_state_sse_frames,
\* read_state_stream_once).
ShownFollows == <>[](shown = snapshot)
=============================================================================
