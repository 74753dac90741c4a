------------------------------- MODULE Daemon -------------------------------
(***************************************************************************)
(* cmd/spandreld with the sampler as its sink: the export handlers of      *)
(* internal/ingest, the two servers of serve, the order in which           *)
(* serveSampled stops them and flushes the sampler, and the exit of run.   *)
(* The sampler's own steps are those of module Sampler.                    *)
(***************************************************************************)
EXTENDS Sampler

CONSTANTS
  DrainMayTimeOut,  \* whether exports may outlast the drain timeout
  LastArrival       \* bound: exports arrive and are answered up to this time

ASSUME DaemonAssumption == DrainMayTimeOut \in BOOLEAN /\ LastArrival \in 0..MaxClock

VARIABLES
  phase,    \* where run is: serving, draining, flushing or exited
  request   \* the spans of the export each handler is serving, {} if none

daemonVars == <<vars, phase, request>>

DaemonInit ==
  /\ Init
  /\ phase = "serving"
  /\ request = [h \in Handler |-> {}]

Running == phase # "exited"
InRequests == UNION {request[h] : h \in Handler}

\* A server hands an export to a handler, which reads and translates it.
Export(h, b) ==
  /\ phase = "serving" /\ clock <= LastArrival
  /\ request[h] = {} /\ b # {}
  /\ request' = [request EXCEPT ![h] = b]
  /\ UNCHANGED <<vars, phase>>

\* The handler calls the sink.
CallSink(h) ==
  /\ Running /\ request[h] # {} /\ batch[h] = {}
  /\ AcceptCall(h, request[h])
  /\ UNCHANGED <<phase, request>>

\* The sink returns and the handler answers the client.
Respond(h) ==
  /\ Running /\ request[h] # {}
  /\ \/ batch[h] = {} /\ AcceptTooLarge(request[h])
     \/ AcceptRefuse(h)
     \/ AcceptLocked(h)
  /\ request' = [request EXCEPT ![h] = {}]
  /\ UNCHANGED phase

\* A signal, or a server that failed, ends serve's first wait.
Shutdown ==
  /\ phase = "serving"
  /\ phase' = "draining"
  /\ UNCHANGED <<vars, request>>

\* Mutant of StopSweeping: the flush begins when the shutdown does.
StopSweepingAtOnce ==
  /\ phase = "draining"
  /\ Stop
  /\ phase' = "flushing"
  /\ UNCHANGED request

\* serve returns, once the exports have drained or the timeout has passed, and
\* serveSampled cancels the context of the sampler's Run.
StopSweeping ==
  /\ phase = "draining"
  /\ InRequests = {} \/ DrainMayTimeOut
  /\ Stop
  /\ phase' = "flushing"
  /\ UNCHANGED request

\* Run has returned: serveSampled returns, run closes the store and the process ends.
Exit ==
  /\ phase = "flushing" /\ pc = "stopped"
  /\ phase' = "exited"
  /\ UNCHANGED <<vars, request>>

Sweeping == Running /\ Run /\ UNCHANGED <<phase, request>>

\* Bound: an export that arrived by LastArrival is answered before the clock
\* goes past it, so that the clock has room left for what it started.
Time ==
  /\ Running /\ Tick
  /\ clock < LastArrival \/ InRequests = {}
  /\ UNCHANGED <<phase, request>>

DaemonNext ==
  \/ \E h \in Handler : CallSink(h) \/ Respond(h)
                        \/ \E b \in SUBSET (Having("client") \ InRequests) : Export(h, b)
  \/ Shutdown \/ StopSweeping \/ Exit \/ Sweeping \/ Time

\* Every goroutine that can run does: the handlers, Run (its ticker keeps
\* firing) and serveSampled.  Time passes, however busy the handlers are.
\* Run's select picks at random when both its channels are ready, so it does
\* not ignore a done context forever.
DaemonSpec ==
  /\ DaemonInit /\ [][DaemonNext]_daemonVars
  /\ \A h \in Handler : WF_daemonVars(CallSink(h) \/ Respond(h))
  /\ WF_daemonVars(Sweeping) /\ SF_daemonVars(Time)
  /\ SF_daemonVars(Running /\ FlushStart /\ UNCHANGED <<phase, request>>)
  /\ WF_daemonVars(StopSweeping) /\ WF_daemonVars(Exit)

\* When the process exits, every span a client was told was accepted has been
\* written, dropped by its verdict or counted as lost: none sits in the buffer,
\* because serveSampled flushes only after the exports have drained.
NothingLeftBehind == phase = "exited" => Having("held") = {}

\* Every accepted span is eventually judged: written, dropped or counted as
\* lost, whether the daemon keeps running or shuts down.
EverySpanIsSettled ==
  \A s \in Span : fate[s] = "held" ~> fate[s] \in {"written", "dropped", "lost"}

\* Once a shutdown has begun the process exits.
ShutdownCompletes == phase = "draining" ~> phase = "exited"
=============================================================================
