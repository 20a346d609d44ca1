----------------------------- MODULE RpcService -----------------------------
(***************************************************************************)
(* What a shared worker client promises to the threads that call it: calls *)
(* are served one at a time; what reaches a caller carries the trace of    *)
(* its command; a call that returns normally has received exactly one      *)
(* frame, or for a stream the frames up to and including one that ends it; *)
(* a stop returns whatever happens to the worker.                          *)
(***************************************************************************)
EXTENDS Naturals, Sequences

CONSTANTS Callers, Traces, NoCaller, StopTrace

VARIABLES
  server,    \* the caller being served, or NoCaller
  stage,     \* each caller: idle, queued or served
  request,   \* each caller's command and trace
  delivered, \* the frames handed over in the caller's current call
  outcome    \* how the caller's last call ended

vars == <<server, stage, request, delivered, outcome>>

Commands == {"stop", "request", "stream"}
Frames == [kind : {"result", "delta", "final", "error"}, trace : Traces]
Terminal == {"final", "error"}

Init ==
  /\ server = NoCaller
  /\ stage = [c \in Callers |-> "idle"]
  /\ request \in [Callers -> [cmd : {"start"}, trace : {"trace-start"}]]
  /\ delivered = [c \in Callers |-> <<>>]
  /\ outcome = [c \in Callers |-> "none"]

Submit(c) ==
  /\ stage[c] = "idle"
  /\ stage' = [stage EXCEPT ![c] = "queued"]
  /\ \E cmd \in Commands, t \in Traces \cup {StopTrace} :
       /\ cmd = "stop" <=> t = StopTrace
       /\ request' = [request EXCEPT ![c] = [cmd |-> cmd, trace |-> t]]
  /\ delivered' = [delivered EXCEPT ![c] = <<>>]
  /\ UNCHANGED <<server, outcome>>

Serve(c) ==
  /\ server = NoCaller
  /\ stage[c] = "queued"
  /\ server' = c
  /\ stage' = [stage EXCEPT ![c] = "served"]
  /\ UNCHANGED <<request, delivered, outcome>>

Leave(c, how) ==
  /\ server' = NoCaller
  /\ stage' = [stage EXCEPT ![c] = "idle"]
  /\ outcome' = [outcome EXCEPT ![c] = how]
  /\ UNCHANGED request

\* One more frame of a stream; the caller goes on waiting.
Progress(c) ==
  /\ server = c
  /\ request[c].cmd = "stream"
  /\ \E f \in Frames :
       /\ f.trace = request[c].trace /\ f.kind \notin Terminal
       /\ delivered' = [delivered EXCEPT ![c] = Append(@, f)]
  /\ UNCHANGED <<server, stage, request, outcome>>

\* The frame that ends the call.
Answer(c) ==
  /\ server = c
  /\ request[c].cmd # "stop"
  /\ \E f \in Frames :
       /\ f.trace = request[c].trace
       /\ request[c].cmd = "stream" => f.kind \in Terminal
       /\ delivered' = [delivered EXCEPT ![c] = Append(@, f)]
  /\ Leave(c, "returned")

\* request and stream may raise at any point; stop never does.
Fail(c) ==
  /\ server = c
  /\ request[c].cmd # "stop"
  /\ Leave(c, "raised")
  /\ UNCHANGED delivered

Stopped(c) ==
  /\ server = c
  /\ request[c].cmd = "stop"
  /\ Leave(c, "returned")
  /\ UNCHANGED delivered

Next == \E c \in Callers :
  Submit(c) \/ Serve(c) \/ Progress(c) \/ Answer(c) \/ Fail(c) \/ Stopped(c)

Spec == Init /\ [][Next]_vars
=============================================================================
