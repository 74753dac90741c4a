---------------------------- MODULE DaemonProofs ----------------------------
(***************************************************************************)
(* Proofs about the daemon and about the verdicts of its sampler, for any  *)
(* number of handlers and any configuration New accepts.  The daemon only  *)
(* ever takes steps of the sampler, so it implements Sampling too, and     *)
(* when it exits no span is left behind.  The verdicts remembered are      *)
(* followed, found and forgotten in order.                                 *)
(***************************************************************************)
EXTENDS Daemon, SamplerProofs

(***************************************************************************)
(* The daemon's inductive invariant.  The flush leaves nothing only        *)
(* because nothing is accepted after its judge: that rests on serve having *)
(* drained the exports before serveSampled cancels the context of Run.     *)
(***************************************************************************)

\* An export's spans are the client's until the handler calls the sink, then
\* the Accept's, and belong to one handler.
RequestsApart ==
  /\ request \in [Handler -> SUBSET Span]
  /\ \A g, h \in Handler : g # h => request[g] \cap request[h] = {}
  /\ \A h \in Handler : IF batch[h] = {} THEN request[h] \subseteq Having("client") ELSE batch[h] = request[h]

\* Run flushes only after the exports have drained; what judge took out of the
\* buffer and writeLate out of s.late is then all there was.
Drained ==
  /\ stopping => \A h \in Handler : request[h] = {}
  /\ flushing \/ pc = "stopped" => stopping
  /\ phase \in {"flushing", "exited"} <=> stopping
  /\ phase = "exited" => pc = "stopped"
  /\ flushing /\ pc \in {"decide", "settle", "late", "writeLate"} => pending = NoSpans
  /\ flushing /\ pc = "writeLate" => late = NoSpans
  /\ pc = "stopped" => pending = NoSpans /\ late = NoSpans

HandlersInv == PlacesInv /\ RequestsApart
DaemonInv == HandlersInv /\ Drained

\* The sweep takes no span from a client.
LEMMA RunLeavesClients ==
  ASSUME PlacesInv, Run, NEW s \in Span, fate[s] = "client"
  PROVE  fate'[s] = "client" /\ batch' = batch
<1> USE DEF tables, accepting, sweeper
<1>1. s \notin pending[TraceOf[s]] \cup ready[TraceOf[s]] \cup waiting[TraceOf[s]] \cup late[TraceOf[s]] \cup lateBatch[TraceOf[s]]
  BY DEF PlacesInv, AllInOneMap, InOneMap
<1>2. \A t \in Trace : s \notin ready[t] \cup waiting[t] \cup lateBatch[t]
  BY <1>1, Zenon DEF PlacesInv, Filed
<1>3. CASE SweepStart \/ FlushStart \/ Judge \/ Forget \/ TakeLate \/ SweepDone
  BY <1>3 DEF SweepStart, FlushStart, Judge, Forget, TakeLate, SweepDone
<1>4. ASSUME NEW t \in Trace, NEW keep \in BOOLEAN, NEW ok \in BOOLEAN, Decide(t, keep, ok)
      PROVE fate'[s] = "client" /\ batch' = batch
  <2>1. fate' = (IF ok THEN Become(ready[t], "written") ELSE fate) /\ batch' = batch
    BY <1>4 DEF Decide
  <2> QED
    BY <1>2, <2>1 DEF Become
<1>5. CASE Settle
  <2>1. /\ fate' = IF cur.ok THEN fate
                   ELSE IF cur.keep THEN Become(ready[cur.id], "lost")
                   ELSE Become(ready[cur.id] \cup waiting[cur.id], "dropped")
        /\ batch' = batch /\ cur.id \in Trace
    BY <1>5 DEF Settle, PlacesInv, SettlesATrace
  <2> QED
    BY <1>2, <2>1 DEF Become
<1>6. ASSUME NEW t \in Trace, NEW ok \in BOOLEAN, WriteLate(t, ok)
      PROVE fate'[s] = "client" /\ batch' = batch
  <2>1. fate' = Become(lateBatch[t], IF ok THEN "written" ELSE "lost") /\ batch' = batch
    BY <1>6 DEF WriteLate
  <2> QED
    BY <1>2, <2>1 DEF Become
<1> QED
  BY <1>3, <1>4, <1>5, <1>6 DEF Run, Deciding, WritingLate

\* Every step of the daemon is a step of the sampler, or changes nothing of it.
LEMMA DaemonStepsAreSamplerSteps == HandlersInv /\ [DaemonNext]_daemonVars => [Next]_vars
<1> SUFFICES ASSUME HandlersInv, [DaemonNext]_daemonVars PROVE [Next]_vars
  OBVIOUS
<1>0. \A h \in Handler : batch[h] = {} => request[h] \in SUBSET Having("client")
  BY DEF HandlersInv, RequestsApart
<1>1. ASSUME NEW h \in Handler, CallSink(h) PROVE Exports
  BY <1>0, <1>1 DEF CallSink, Exports
<1>2. ASSUME NEW h \in Handler, Respond(h) PROVE Exports \/ Accepts
  BY <1>0, <1>2 DEF Respond, Exports, Accepts
<1>3. ASSUME NEW h \in Handler, NEW b, Export(h, b) PROVE UNCHANGED vars
  BY <1>3 DEF Export
<1>4. CASE Shutdown \/ Exit
  BY <1>4 DEF Shutdown, Exit
<1>5. CASE StopSweeping \/ Sweeping \/ Time
  BY <1>5 DEF StopSweeping, Sweeping, Time, Next
<1>6. CASE UNCHANGED daemonVars
  BY <1>6 DEF daemonVars
<1> QED
  BY <1>1, <1>2, <1>3, <1>4, <1>5, <1>6 DEF DaemonNext, Next

\* Every step of the daemon keeps the exports' spans apart.
LEMMA RequestStep == HandlersInv /\ [DaemonNext]_daemonVars => RequestsApart'
<1> SUFFICES ASSUME HandlersInv, [DaemonNext]_daemonVars PROVE RequestsApart'
  OBVIOUS
<1> USE DEF tables, accepting, sweeper
<1>t. /\ request \in [Handler -> SUBSET Span] /\ batch \in [Handler -> SUBSET Span] /\ fate \in [Span -> Fates]
      /\ \A g, h \in Handler : g # h => request[g] \cap request[h] = {}
      /\ \A h \in Handler : IF batch[h] = {} THEN request[h] \subseteq Having("client") ELSE batch[h] = request[h]
  BY Zenon DEF HandlersInv, RequestsApart, PlacesInv, TypeOK
<1>1. ASSUME NEW h \in Handler, CallSink(h) PROVE RequestsApart'
  <2>1. /\ request' = request /\ batch[h] = {} /\ request[h] # {} /\ batch' = [batch EXCEPT ![h] = request[h]]
        /\ fate' = Become(request[h], "export")
    BY <1>1, Zenon DEF CallSink, AcceptCall
  <2>2. ASSUME NEW g \in Handler
        PROVE  IF batch'[g] = {} THEN request'[g] \subseteq Having("client")' ELSE batch'[g] = request'[g]
    <3>1. CASE g = h
      BY <1>t, <2>1, <3>1
    <3>2. CASE g # h
      <4>1. batch'[g] = batch[g] /\ request[g] \cap request[h] = {}
        BY <1>t, <2>1, <3>2
      <4>2. \A s \in request[g] : s \in Span /\ fate'[s] = fate[s]
        BY <1>t, <2>1, <4>1 DEF Become
      <4> QED
        BY <1>t, <2>1, <4>1, <4>2 DEF Having
    <3> QED
      BY <3>1, <3>2
  <2> QED
    BY <1>t, <2>1, <2>2 DEF RequestsApart
<1>2. ASSUME NEW h \in Handler, Respond(h) PROVE RequestsApart'
  <2>1. request' = [request EXCEPT ![h] = {}]
    BY <1>2 DEF Respond
  <2>2. /\ batch' = [batch EXCEPT ![h] = {}]
        /\ \A s \in Span : s \notin request[h] => fate'[s] = fate[s]
    <3>1. CASE batch[h] = {} /\ AcceptTooLarge(request[h])
      <4>1. batch' = batch /\ fate' = Become(request[h], "rejected")
        BY <3>1 DEF AcceptTooLarge
      <4>2. batch' = [batch EXCEPT ![h] = {}]
        BY <1>t, <3>1, <4>1
      <4> QED
        BY <4>1, <4>2, Zenon DEF Become
    <3>2. CASE AcceptRefuse(h)
      <4>1. /\ batch[h] = request[h] /\ batch' = [batch EXCEPT ![h] = {}]
            /\ fate' = Become(batch[h], "client")
        BY <1>t, <3>2 DEF AcceptRefuse, AcceptReturn
      <4> QED
        BY <4>1 DEF Become
    <3>3. CASE AcceptLocked(h)
      <4>1. batch[h] = request[h] /\ batch' = [batch EXCEPT ![h] = {}]
        BY <1>t, <3>3 DEF AcceptLocked, AcceptReturn
      <4>2. \A s \in Span : s \notin batch[h] => fate'[s] = fate[s]
        BY <3>3 DEF AcceptLocked
      <4> QED
        BY <4>1, <4>2
    <3> QED
      BY <1>2, <3>1, <3>2, <3>3 DEF Respond
  <2>3. ASSUME NEW g \in Handler
        PROVE  IF batch'[g] = {} THEN request'[g] \subseteq Having("client")' ELSE batch'[g] = request'[g]
    <3>1. CASE g = h
      BY <1>t, <2>1, <2>2, <3>1
    <3>2. CASE g # h
      <4>1. batch'[g] = batch[g] /\ request'[g] = request[g] /\ request[g] \cap request[h] = {}
        BY <1>t, <2>1, <2>2, <3>2
      <4>2. \A s \in request[g] : s \in Span /\ fate'[s] = fate[s]
        BY <1>t, <2>2, <4>1
      <4> QED
        BY <1>t, <4>1, <4>2 DEF Having
    <3> QED
      BY <3>1, <3>2
  <2>4. request' \in [Handler -> SUBSET Span] /\ \A f, g \in Handler : f # g => request'[f] \cap request'[g] = {}
    BY <1>t, <2>1
  <2> QED
    BY <2>3, <2>4 DEF RequestsApart
<1>3. ASSUME NEW h \in Handler, NEW b \in SUBSET (Having("client") \ InRequests), Export(h, b) PROVE RequestsApart'
  <2>1. request' = [request EXCEPT ![h] = b] /\ batch' = batch /\ fate' = fate /\ request[h] = {}
    BY <1>3 DEF Export, vars
  <2>2. \A g \in Handler : b \cap request[g] = {}
    BY DEF InRequests
  <2>3. b \in SUBSET Span /\ b \subseteq Having("client") /\ batch[h] = {}
    BY <1>t, <2>1 DEF Having
  <2>4. Having("client")' = Having("client")
    BY <2>1 DEF Having
  <2> QED
    BY <1>t, <2>1, <2>2, <2>3, <2>4 DEF RequestsApart
<1>4. CASE Sweeping
  <2>1. Run /\ request' = request /\ PlacesInv
    BY <1>4 DEF Sweeping, HandlersInv
  <2>2. Having("client") \subseteq Having("client")'
    BY <2>1, RunLeavesClients DEF Having
  <2>3. batch' = batch
    BY <2>1, Zenon DEF Run, SweepStart, FlushStart, Judge, Forget, TakeLate, SweepDone, Deciding, Decide, Settle, WritingLate, WriteLate
  <2> QED
    BY <1>t, <2>1, <2>2, <2>3 DEF RequestsApart
<1>5. CASE Shutdown \/ Exit \/ StopSweeping \/ Time \/ UNCHANGED daemonVars
  <2>1. request' = request /\ batch' = batch /\ fate' = fate
    BY <1>5, Zenon DEF Shutdown, Exit, StopSweeping, Time, Stop, Tick, daemonVars, vars
  <2> QED
    BY <1>t, <2>1 DEF RequestsApart, Having
<1> QED
  BY <1>1, <1>2, <1>3, <1>4, <1>5 DEF DaemonNext

\* The initial state satisfies it, and every step preserves it.
LEMMA HandlersHold == DaemonSpec => []HandlersInv
<1>1. DaemonInit => HandlersInv
  <2> SUFFICES ASSUME DaemonInit PROVE HandlersInv
    OBVIOUS
  <2>1. Init /\ request = [h \in Handler |-> {}]
    BY DEF DaemonInit
  <2>2. PlacesInv
    BY <2>1, PlacesInit
  <2>3. RequestsApart
    BY <2>1 DEF RequestsApart, Init
  <2> QED
    BY <2>2, <2>3 DEF HandlersInv
<1>2. HandlersInv /\ [DaemonNext]_daemonVars => HandlersInv'
  <2> SUFFICES ASSUME HandlersInv, [DaemonNext]_daemonVars PROVE HandlersInv'
    OBVIOUS
  <2>1. PlacesInv /\ [Next]_vars
    BY DaemonStepsAreSamplerSteps DEF HandlersInv
  <2>2. PlacesInv'
    BY <2>1, PlacesStep
  <2>3. RequestsApart'
    BY RequestStep
  <2> QED
    BY <2>2, <2>3 DEF HandlersInv
<1> QED
  BY <1>1, <1>2, PTL DEF DaemonSpec

\* The daemon runs the sampler as module Sampler has it: its handlers call
\* Accept, and serveSampled stops Run, only in ways that module allows.  So
\* whatever is proved of Spec holds of the whole daemon, drain timeout or not.
THEOREM DaemonRunsTheSampler == DaemonSpec => Spec
<1>1. DaemonInit => Init
  BY DEF DaemonInit
<1>2. HandlersInv /\ [DaemonNext]_daemonVars => [Next]_vars
  BY DaemonStepsAreSamplerSteps
<1> QED
  BY <1>1, <1>2, HandlersHold, PTL DEF DaemonSpec, Spec

\* The daemon implements the abstract sampler.
THEOREM DaemonImplementsSampling == DaemonSpec => ImplementsSampling
  BY DaemonRunsTheSampler, SamplerImplementsSampling, PTL

\* Draining first keeps the flush complete.
LEMMA DrainStep ==
  ~DrainMayTimeOut /\ DaemonInv /\ [DaemonNext]_daemonVars => Drained'
<1> SUFFICES ASSUME ~DrainMayTimeOut, DaemonInv, [DaemonNext]_daemonVars PROVE Drained'
  OBVIOUS
<1> USE DEF tables, accepting, sweeper
<1>d. /\ stopping => \A h \in Handler : request[h] = {}
      /\ flushing \/ pc = "stopped" => stopping
      /\ phase \in {"flushing", "exited"} <=> stopping
      /\ phase = "exited" => pc = "stopped"
      /\ flushing /\ pc \in {"decide", "settle", "late", "writeLate"} => pending = NoSpans
      /\ flushing /\ pc = "writeLate" => late = NoSpans
      /\ pc = "stopped" => pending = NoSpans /\ late = NoSpans
  BY DEF DaemonInv, Drained
<1>1. ASSUME NEW h \in Handler, CallSink(h) \/ Respond(h) PROVE Drained'
  <2>1. request[h] # {} /\ ~stopping /\ ~flushing /\ pc # "stopped"
    BY <1>1, <1>d DEF CallSink, Respond
  <2>2. UNCHANGED <<phase, stopping, flushing, pc>>
    BY <1>1 DEF CallSink, Respond, AcceptCall, AcceptTooLarge, AcceptRefuse, AcceptLocked
  <2> QED
    BY <1>d, <2>1, <2>2 DEF Drained
<1>2. ASSUME NEW h \in Handler, NEW b, Export(h, b) PROVE Drained'
  <2>1. phase = "serving" /\ UNCHANGED <<phase, stopping, flushing, pc, pending, late>>
    BY <1>2 DEF Export, vars
  <2>2. ~stopping
    BY <1>d, <2>1
  <2> QED
    BY <1>d, <2>1, <2>2 DEF Drained
<1>3. CASE Shutdown
  <2>1. phase = "serving" /\ phase' = "draining" /\ UNCHANGED <<request, stopping, flushing, pc, pending, late>>
    BY <1>3 DEF Shutdown, vars
  <2> QED
    BY <1>d, <2>1 DEF Drained
<1>4. CASE StopSweeping
  <2>1. /\ phase' = "flushing" /\ ~stopping /\ stopping' = TRUE
        /\ UNCHANGED <<request, flushing, pc, pending, late>> /\ InRequests = {}
    BY <1>4 DEF StopSweeping, Stop
  <2>2. \A h \in Handler : request[h] = {}
    BY <2>1 DEF InRequests
  <2> QED
    BY <1>d, <2>1, <2>2 DEF Drained
<1>5. CASE Exit
  <2>1. /\ phase = "flushing" /\ pc = "stopped" /\ phase' = "exited"
        /\ UNCHANGED <<request, stopping, flushing, pc, pending, late>>
    BY <1>5 DEF Exit, vars
  <2> QED
    BY <1>d, <2>1 DEF Drained
<1>6. CASE Time \/ UNCHANGED daemonVars
  <2>1. UNCHANGED <<phase, request, stopping, flushing, pc, pending, late>>
    BY <1>6 DEF Time, Tick, daemonVars, vars
  <2> QED
    BY <1>d, <2>1 DEF Drained
<1>7. CASE Sweeping
  <2>0. Run /\ UNCHANGED <<phase, request>> /\ phase # "exited"
    BY <1>7 DEF Sweeping, Running
  <2>1. CASE SweepStart \/ FlushStart
    <3>1. pc = "idle" /\ pc' = "judge" /\ stopping' = stopping /\ (flushing' => stopping)
      BY <2>1 DEF SweepStart, FlushStart
    <3> QED
      BY <1>d, <2>0, <3>1 DEF Drained
  <2>2. CASE Judge
    <3>1. /\ pc = "judge" /\ pc' = "decide" /\ UNCHANGED <<stopping, flushing>>
          /\ pending' = [t \in Trace |-> IF t \in {u \in Trace : Due(u)} THEN {} ELSE pending[t]]
      BY <2>2 DEF Judge
    <3>2. flushing => \A t \in Trace : pending[t] = {} \/ Due(t)
      BY DEF Due
    <3>3. flushing => pending' = NoSpans
      BY <3>1, <3>2 DEF NoSpans
    <3> QED
      BY <1>d, <2>0, <3>1, <3>3 DEF Drained
  <2>3. CASE Deciding \/ Settle \/ Forget
    <3>1. /\ pc \in {"decide", "settle"} /\ pc' \in {"decide", "settle", "late"}
          /\ UNCHANGED <<stopping, flushing, pending>>
      BY <2>3 DEF Deciding, Decide, Settle, Forget
    <3> QED
      BY <1>d, <2>0, <3>1 DEF Drained
  <2>4. CASE TakeLate
    <3>1. /\ pc \in {"late", "decide"} /\ pc' = "writeLate" /\ late' = NoSpans
          /\ UNCHANGED <<stopping, flushing, pending>>
      BY <2>4 DEF TakeLate
    <3> QED
      BY <1>d, <2>0, <3>1 DEF Drained
  <2>5. CASE WritingLate
    <3>1. UNCHANGED <<stopping, flushing, pending, late, pc>>
      BY <2>5 DEF WritingLate, WriteLate
    <3> QED
      BY <1>d, <2>0, <3>1 DEF Drained
  <2>6. CASE SweepDone
    <3>1. /\ pc = "writeLate" /\ pc' = (IF flushing THEN "stopped" ELSE "idle") /\ flushing' = FALSE
          /\ UNCHANGED <<stopping, pending, late>>
      BY <2>6 DEF SweepDone
    <3> QED
      BY <1>d, <2>0, <3>1 DEF Drained
  <2> QED
    BY <2>0, <2>1, <2>2, <2>3, <2>4, <2>5, <2>6 DEF Run
<1> QED
  BY <1>1, <1>2, <1>3, <1>4, <1>5, <1>6, <1>7 DEF DaemonNext

\* If serve waits for the exports in flight, the process ends with nothing in
\* the sampler's maps: every span a client was told was accepted has been
\* written, dropped by its verdict or counted as lost.  With the drain timeout
\* it does not hold: the run daemon_drain_timeout shows how it fails.
THEOREM NothingLeftBehindAlways ==
  ASSUME ~DrainMayTimeOut
  PROVE  DaemonSpec => []NothingLeftBehind
<1>1. DaemonInit => Drained
  BY DEF DaemonInit, Init, Drained
<1>2. HandlersInv /\ Drained /\ [DaemonNext]_daemonVars => Drained'
  BY DrainStep DEF DaemonInv
<1>3. HandlersInv /\ Drained => NothingLeftBehind
  <2> SUFFICES ASSUME HandlersInv, Drained, phase = "exited", NEW s \in Span, fate[s] = "held" PROVE FALSE
    BY DEF NothingLeftBehind, Having
  <2>1. pc = "stopped" /\ pending = NoSpans /\ late = NoSpans
    BY Zenon DEF Drained
  <2>2. TraceOf[s] \in Trace
    BY ConfigAssumption
  <2>3. ready[TraceOf[s]] = {} /\ waiting[TraceOf[s]] = {} /\ lateBatch[TraceOf[s]] = {}
    BY <2>1, <2>2 DEF HandlersInv, PlacesInv, JudgedApart, Remaining, LateRemaining
  <2>4. s \in pending[TraceOf[s]] \cup ready[TraceOf[s]] \cup waiting[TraceOf[s]] \cup late[TraceOf[s]] \cup lateBatch[TraceOf[s]]
    BY DEF HandlersInv, PlacesInv, AllInOneMap, InOneMap
  <2> QED
    BY <2>1, <2>2, <2>3, <2>4 DEF NoSpans
<1> QED
  BY <1>1, <1>2, <1>3, HandlersHold, PTL DEF DaemonSpec

(***************************************************************************)
(* The queue of verdicts.  order is read by two loops that only ever look  *)
(* at its head, so everything rests on its order and on each verdict       *)
(* having its entry.                                                       *)
(***************************************************************************)

Entry == [id : Trace, at : 0..MaxClock]

\* What the queue q, the verdicts d and their times at have to do with each
\* other when the clock reads now: every verdict has its entry, an entry is of
\* a trace with a verdict and no younger than it, the entries are in the order
\* of their times, and those of one trace have different times.
Queue(q, d, at, now) ==
  /\ \A t \in Trace : d[t] # "none" => \E i \in DOMAIN q : q[i] = [id |-> t, at |-> at[t]]
  /\ \A i \in DOMAIN q : d[q[i].id] # "none" /\ q[i].at <= at[q[i].id] /\ q[i].at <= now
  /\ \A i, j \in DOMAIN q : i < j => q[i].at <= q[j].at
  /\ \A i, j \in DOMAIN q : i < j /\ q[i].id = q[j].id => q[i].at < q[j].at

\* What is left when the first k entries of q are forgotten.
LeavesTheTail(q, d, at, k) ==
  /\ order' \in Seq(Entry) /\ Len(order') = Len(q) - k
  /\ \A i \in 1..Len(order') : order'[i] = q[i + k] /\ i + k \in 1..Len(q)
  /\ \A i \in (k + 1)..Len(q) : order'[i - k] = q[i] /\ i - k \in 1..Len(order')
  /\ \A t \in Trace : /\ decided'[t] = IF t \in Forgotten(q, at, k) THEN "none" ELSE d[t]
                      /\ t \notin Forgotten(q, at, k) => decidedAt'[t] = at[t]

\* forgetOldest, as often as it is called, leaves a tail of the queue, with the
\* verdicts that have their entry in it.
LEMMA ForgettingTakesTheHead ==
  ASSUME NEW q \in Seq(Entry), NEW d \in [Trace -> {"none", "keep", "drop"}], NEW at \in [Trace -> 0..MaxClock],
         NEW now \in Int, NEW k \in 0..Len(q), Queue(q, d, at, now), ForgetOldest(q, d, at, k)
  PROVE  LeavesTheTail(q, d, at, k) /\ Queue(order', decided', decidedAt', now)
<1> DEFINE gone == Forgotten(q, at, k)
<1>1. Len(q) \in Nat /\ DOMAIN q = 1..Len(q) /\ k \in Int
  BY SeqLen
<1>2. \A i \in 1..Len(q) : q[i] \in Entry
  BY SeqElement
<1>3. order' = SubSeq(q, k + 1, Len(q))
  BY DEF ForgetOldest
<1>4. /\ order' \in Seq(Entry) /\ Len(order') = Len(q) - k
      /\ \A i \in 1..Len(order') : order'[i] = q[i + k] /\ i + k \in 1..Len(q)
  <2>1. \A i \in (k + 1)..Len(q) : q[i] \in Entry
    BY <1>1, <1>2
  <2>2. k + 1 \in Int /\ Len(q) \in Int /\ k + 1 <= Len(q) + 1
    BY <1>1
  <2>3. /\ SubSeq(q, k + 1, Len(q)) \in Seq(Entry)
        /\ Len(SubSeq(q, k + 1, Len(q))) = IF k + 1 <= Len(q) THEN Len(q) - (k + 1) + 1 ELSE 0
        /\ \A i \in 1..Len(q) - (k + 1) + 1 : SubSeq(q, k + 1, Len(q))[i] = q[k + 1 + i - 1]
    BY <2>1, <2>2, SeqSub
  <2>4. Len(order') = Len(q) - k
    <3>1. Len(order') = IF k + 1 <= Len(q) THEN Len(q) - (k + 1) + 1 ELSE 0
      BY <1>3, <2>3
    <3>2. (IF k + 1 <= Len(q) THEN Len(q) - (k + 1) + 1 ELSE 0) = Len(q) - k
      <4>1. \A n \in Nat : \A m \in 0..n : (IF m + 1 <= n THEN n - (m + 1) + 1 ELSE 0) = n - m
        OBVIOUS
      <4> QED
        BY <1>1, <4>1, Zenon
    <3> QED
      BY <3>1, <3>2
  <2>5. ASSUME NEW i \in 1..Len(order') PROVE order'[i] = q[i + k] /\ i + k \in 1..Len(q)
    <3>1. i \in 1..Len(q) - (k + 1) + 1 /\ k + 1 + i - 1 = i + k /\ i + k \in 1..Len(q)
      BY <1>1, <2>4
    <3> QED
      BY <1>3, <2>3, <3>1
  <2> QED
    BY <1>3, <2>3, <2>4, <2>5
<1>5. ASSUME NEW i \in (k + 1)..Len(q) PROVE order'[i - k] = q[i] /\ i - k \in 1..Len(order')
  <2>1. i - k \in 1..Len(order') /\ (i - k) + k = i
    BY <1>1, <1>4
  <2> QED
    BY <1>4, <2>1
<1>6. ASSUME NEW t \in Trace
      PROVE  decided'[t] = (IF t \in gone THEN "none" ELSE d[t]) /\ (t \notin gone => decidedAt'[t] = at[t])
  BY DEF ForgetOldest
<1>7. \A t \in Trace : t \in gone <=> \E i \in 1..k : q[i].id = t /\ q[i].at = at[t]
  BY Zenon DEF Forgotten
<1>8. DOMAIN order' = 1..Len(order') /\ Len(order') \in Nat
  BY <1>4, SeqLen
<1> HIDE DEF gone
<1>9. \A t \in Trace : decided'[t] # "none" => \E i \in DOMAIN order' : order'[i] = [id |-> t, at |-> decidedAt'[t]]
  <2> SUFFICES ASSUME NEW t \in Trace, decided'[t] # "none"
               PROVE  \E i \in DOMAIN order' : order'[i] = [id |-> t, at |-> decidedAt'[t]]
    OBVIOUS
  <2>1. t \notin gone /\ d[t] # "none" /\ decidedAt'[t] = at[t]
    BY <1>6
  <2>2. PICK i \in DOMAIN q : q[i] = [id |-> t, at |-> at[t]]
    BY <2>1 DEF Queue
  <2>3. i \in (k + 1)..Len(q)
    BY <1>1, <1>7, <2>1, <2>2
  <2> QED
    BY <1>5, <1>8, <2>1, <2>2, <2>3
<1>10. ASSUME NEW i \in DOMAIN order'
       PROVE  /\ decided'[order'[i].id] # "none" /\ order'[i].at <= decidedAt'[order'[i].id] /\ order'[i].at <= now
  <2> DEFINE j == i + k
             u == q[j].id
  <2>1. order'[i] = q[j] /\ j \in DOMAIN q /\ k < j /\ u \in Trace
    <3>1. i \in 1..Len(order') /\ i \in Int /\ i > 0
      BY <1>8
    <3>2. order'[i] = q[j] /\ j \in 1..Len(q) /\ k < j
      BY <1>1, <1>4, <3>1
    <3> QED
      BY <1>1, <1>2, <3>2 DEF Entry
  <2>2. d[u] # "none" /\ q[j].at <= at[u] /\ q[j].at <= now
    BY <2>1 DEF Queue
  <2>3. u \notin gone
    <3> SUFFICES ASSUME u \in gone PROVE FALSE
      OBVIOUS
    <3>1. PICK m \in 1..k : q[m].id = u /\ q[m].at = at[u]
      BY <1>7, <2>1, Zenon
    <3>2. m \in DOMAIN q /\ m < j
      BY <1>1, <2>1
    <3>3. q[m].at < q[j].at
      BY <2>1, <3>1, <3>2 DEF Queue
    <3>4. q[m].at \in Int /\ q[j].at \in Int
      BY <1>1, <1>2, <2>1, <3>2 DEF Entry
    <3> QED
      BY <2>2, <3>1, <3>3, <3>4
  <2> QED
    BY <1>6, <2>1, <2>2, <2>3
<1>11. ASSUME NEW i \in DOMAIN order', NEW j \in DOMAIN order', i < j
       PROVE  order'[i].at <= order'[j].at /\ (order'[i].id = order'[j].id => order'[i].at < order'[j].at)
  <2>1. order'[i] = q[i + k] /\ order'[j] = q[j + k] /\ i + k \in DOMAIN q /\ j + k \in DOMAIN q
    BY <1>1, <1>4, <1>8
  <2>2. i + k < j + k
    BY <1>1, <1>8, <1>11
  <2> QED
    BY <2>1, <2>2 DEF Queue
<1>12. Queue(order', decided', decidedAt', now)
  BY <1>9, <1>10, <1>11 DEF Queue
<1> QED
  BY <1>4, <1>5, <1>6, <1>12 DEF gone, LeavesTheTail

\* The entry settle appends belongs at the end, if the trace's former verdict
\* is older than the clock.
LEMMA RememberingAppends ==
  ASSUME NEW q \in Seq(Entry), NEW d \in [Trace -> {"none", "keep", "drop"}], NEW at \in [Trace -> 0..MaxClock],
         NEW now \in 0..MaxClock, Queue(q, d, at, now),
         NEW t \in Trace, NEW v \in {"keep", "drop"}, d[t] # "none" => at[t] < now
  PROVE  /\ Append(q, [id |-> t, at |-> now]) \in Seq(Entry)
         /\ Queue(Append(q, [id |-> t, at |-> now]), [d EXCEPT ![t] = v], [at EXCEPT ![t] = now], now)
<1> DEFINE e == [id |-> t, at |-> now]
           p == Append(q, e)
           dd == [d EXCEPT ![t] = v]
           aa == [at EXCEPT ![t] = now]
<1>1. e \in Entry /\ e.id = t /\ e.at = now
  BY DEF Entry
<1> HIDE DEF e
<1>2. /\ p \in Seq(Entry) /\ Len(p) = Len(q) + 1 /\ \A i \in 1..Len(q) : p[i] = q[i]
      /\ p[Len(q) + 1] = e
  BY <1>1, SeqAppend
<1>3. Len(q) \in Nat /\ DOMAIN q = 1..Len(q) /\ DOMAIN p = 1..Len(q) + 1
  BY <1>2, SeqLen
<1>4. \A i \in 1..Len(q) : q[i] \in Entry /\ q[i].id \in Trace /\ q[i].at \in 0..MaxClock
  <2>1. \A i \in 1..Len(q) : q[i] \in Entry
    BY SeqElement
  <2> QED
    BY <2>1 DEF Entry
<1>5. \A u \in Trace : dd[u] = (IF u = t THEN v ELSE d[u]) /\ aa[u] = (IF u = t THEN now ELSE at[u])
  OBVIOUS
<1>6. \A i \in DOMAIN p : i \in DOMAIN q \/ i = Len(q) + 1
  BY <1>3
<1> HIDE DEF p, dd, aa
<1>7. ASSUME NEW u \in Trace, dd[u] # "none"
      PROVE  \E i \in DOMAIN p : p[i] = [id |-> u, at |-> aa[u]]
  <2>1. CASE u = t
    <3>1. p[Len(q) + 1] = [id |-> u, at |-> aa[u]]
      BY <1>2, <1>5, <2>1 DEF e
    <3> QED
      <4>1. Len(q) + 1 \in DOMAIN p
        BY <1>3
      <4> QED
        BY <3>1, <4>1, Zenon
  <2>2. CASE u # t
    <3>1. PICK i \in DOMAIN q : q[i] = [id |-> u, at |-> at[u]]
      BY <1>5, <1>7, <2>2 DEF Queue
    <3> QED
      BY <1>2, <1>3, <1>5, <2>2, <3>1
  <2> QED
    BY <2>1, <2>2
<1>8. ASSUME NEW i \in DOMAIN p
      PROVE  dd[p[i].id] # "none" /\ p[i].at <= aa[p[i].id] /\ p[i].at <= now
  <2>1. CASE i = Len(q) + 1
    BY <1>1, <1>2, <1>5, <2>1
  <2>2. CASE i \in DOMAIN q
    <3>1. p[i] = q[i] /\ q[i].id \in Trace
      BY <1>2, <1>3, <1>4, <2>2
    <3>2. d[q[i].id] # "none" /\ q[i].at <= at[q[i].id] /\ q[i].at <= now
      BY <2>2 DEF Queue
    <3> QED
      BY <1>5, <3>1, <3>2
  <2> QED
    BY <1>6, <2>1, <2>2
<1>9. ASSUME NEW i \in DOMAIN p, NEW j \in DOMAIN p, i < j
      PROVE  p[i].at <= p[j].at /\ (p[i].id = p[j].id => p[i].at < p[j].at)
  <2>1. i \in DOMAIN q /\ p[i] = q[i]
    BY <1>2, <1>3, <1>9
  <2>2. CASE j \in DOMAIN q
    <3>1. p[j] = q[j]
      BY <1>2, <1>3, <2>2
    <3> QED
      BY <1>9, <2>1, <2>2, <3>1 DEF Queue
  <2>3. CASE j = Len(q) + 1
    <3>1. d[q[i].id] # "none" /\ q[i].at <= at[q[i].id] /\ q[i].at <= now
      BY <2>1 DEF Queue
    <3>2. q[i].id \in Trace /\ q[i].at \in Int /\ at[q[i].id] \in Int
      BY <1>3, <1>4, <2>1
    <3>3. p[i] = q[i] /\ p[j].at = now /\ p[j].id = t
      BY <1>1, <1>2, <2>1, <2>3, Zenon
    <3>4. q[i].id = t => q[i].at < now
      <4>1. q[i].id = t => at[q[i].id] < now
        BY <3>1, Zenon
      <4> QED
        BY <3>1, <3>2, <4>1
    <3> QED
      BY <3>1, <3>3, <3>4, Zenon
  <2> QED
    BY <1>6, <2>2, <2>3
<1>10. Queue(p, dd, aa, now)
  BY <1>7, <1>8, <1>9 DEF Queue
<1> QED
  BY <1>2, <1>10 DEF p, dd, aa, e

(***************************************************************************)
(* The inductive invariant.  That a verdict is followed while remembered   *)
(* is inductive by itself.  That no entry outlives the sweep that makes it *)
(* stale is not: it needs the clock readings of Accept, Sweep and settle,  *)
(* which are taken outside the lock, to be in the right order.             *)
(***************************************************************************)

Remembered == {t \in Trace : decided[t] # "none"}

\* No clock reading is of the future.
ReadingsArePast ==
  /\ sweepNow <= clock
  /\ \A h \in Handler : acceptNow[h] <= clock
  /\ \A t \in Trace : first[t] <= clock /\ last[t] <= clock

\* A trace that has a verdict is buffered, or judged, again only once the
\* verdict is older than Remember, by the reading of every Accept that added to
\* it and of the Sweep that judges it.
JudgedAgainLater ==
  \A t \in Trace : decided[t] # "none" =>
    /\ pending[t] # {} => last[t] - decidedAt[t] >= Remember
    /\ pending[t] # {} \/ ready[t] # {} => first[t] - decidedAt[t] >= Remember
    /\ ready[t] # {} /\ ~flushing => sweepNow - decidedAt[t] >= Remember

\* An entry whose trace has been judged again since is old enough for the forget
\* of the sweep that judged it; Flush calls no forget, and is the last to run.
StaleOnlyInSweep ==
  \A i \in DOMAIN order : order[i].at # decidedAt[order[i].id] =>
    \/ pc = "stopped"
    \/ flushing /\ pc \in {"decide", "settle", "writeLate"}
    \/ ~flushing /\ pc \in {"decide", "settle"} /\ sweepNow - order[i].at >= Remember

VerdictInv ==
  /\ ReadingsArePast /\ JudgedAgainLater /\ StaleOnlyInSweep
  /\ Queue(order, decided, decidedAt, clock)
  /\ Cardinality(Remembered) <= MaxDecisions
  /\ Remember = 0 => order = << >>

\* Every set of traces is finite.
LEMMA TracesAreCounted == \A T \in SUBSET Trace : IsFiniteSet(T) /\ Cardinality(T) \in Nat
BY ConfigAssumption, FS_Subset, FS_CardinalityType, Zenon

\* The types the steps below use.
LEMMA VerdictTypes ==
  ASSUME PlacesInv
  PROVE  /\ clock \in 0..MaxClock /\ sweepNow \in 0..MaxClock /\ clock \in Int /\ sweepNow \in Int
         /\ pending \in [Trace -> SUBSET Span] /\ ready \in [Trace -> SUBSET Span]
         /\ first \in [Trace -> 0..MaxClock] /\ last \in [Trace -> 0..MaxClock]
         /\ decided \in [Trace -> {"none", "keep", "drop"}] /\ decidedAt \in [Trace -> 0..MaxClock]
         /\ order \in Seq(Entry) /\ acceptNow \in [Handler -> 0..MaxClock] /\ flushing \in BOOLEAN
         /\ MaxClock \in Nat /\ Remember \in Nat /\ MaxDecisions \in Nat
         /\ \A t \in Trace : first[t] \in Int /\ last[t] \in Int /\ decidedAt[t] \in Int
         /\ \A h \in Handler : acceptNow[h] \in Int
         /\ Len(order) \in Nat /\ DOMAIN order = 1..Len(order)
         /\ \A i \in DOMAIN order : order[i].id \in Trace /\ order[i].at \in Int
<1>1. order \in Seq(Entry)
  BY DEF PlacesInv, TypeOK, Entry
<1>2. Len(order) \in Nat /\ DOMAIN order = 1..Len(order) /\ \A i \in 1..Len(order) : order[i] \in Entry
  BY <1>1, SeqLen, SeqElement
<1>3. \A i \in DOMAIN order : order[i].id \in Trace /\ order[i].at \in Int
  <2>1. ASSUME NEW i \in DOMAIN order PROVE order[i].id \in Trace /\ order[i].at \in 0..MaxClock
    <3>1. order[i] \in Entry
      BY <1>2, Zenon
    <3> QED
      BY <3>1, Zenon DEF Entry
  <2>2. \A x \in 0..MaxClock : x \in Int
    OBVIOUS
  <2> QED
    BY <2>1, <2>2, Zenon
<1>4. MaxClock \in Nat /\ Remember \in Nat /\ MaxDecisions \in Nat
  BY ConfigAssumption
<1>5. /\ clock \in 0..MaxClock /\ sweepNow \in 0..MaxClock
      /\ pending \in [Trace -> SUBSET Span] /\ ready \in [Trace -> SUBSET Span]
      /\ first \in [Trace -> 0..MaxClock] /\ last \in [Trace -> 0..MaxClock]
      /\ decided \in [Trace -> {"none", "keep", "drop"}] /\ decidedAt \in [Trace -> 0..MaxClock]
      /\ acceptNow \in [Handler -> 0..MaxClock] /\ flushing \in BOOLEAN
  BY DEF PlacesInv, TypeOK
<1>6. clock \in Int /\ sweepNow \in Int
  BY <1>4, <1>5
<1>7. \A t \in Trace : first[t] \in Int /\ last[t] \in Int /\ decidedAt[t] \in Int
  BY <1>4, <1>5
<1>8. \A h \in Handler : acceptNow[h] \in Int
  BY <1>4, <1>5
<1> QED
  BY <1>1, <1>2, <1>3, <1>4, <1>5, <1>6, <1>7, <1>8

\* What settle does to the queue: at most the new entry is added, the verdicts
\* left are as they were, and no more than MaxDecisions of them are left.
LEMMA SettleQueue ==
  ASSUME PlacesInv, VerdictInv, Settle, Remember > 0
  PROVE  /\ Queue(order', decided', decidedAt', clock)
         /\ Cardinality(Remembered') <= MaxDecisions
         /\ \A i \in DOMAIN order' : \/ order'[i] = [id |-> cur.id, at |-> clock]
                                     \/ \E j \in DOMAIN order : order'[i] = order[j]
         /\ \A t \in Trace : decided'[t] # "none" =>
              IF t = cur.id THEN decidedAt'[t] = clock
              ELSE decided[t] # "none" /\ decidedAt'[t] = decidedAt[t]
         /\ \A t, u \in Trace : decided[t] # "none" /\ decided'[t] = "none" /\ decided'[u] # "none"
              => decidedAt[t] <= decidedAt'[u]
<1> DEFINE t0 == cur.id
           v == IF cur.keep THEN "keep" ELSE "drop"
           d == [decided EXCEPT ![t0] = v]
           at == [decidedAt EXCEPT ![t0] = clock]
           q == Append(order, [id |-> t0, at |-> clock])
<1>t. /\ clock \in 0..MaxClock /\ clock \in Int /\ order \in Seq(Entry)
      /\ decided \in [Trace -> {"none", "keep", "drop"}] /\ decidedAt \in [Trace -> 0..MaxClock]
      /\ \A t \in Trace : first[t] \in Int /\ decidedAt[t] \in Int
      /\ Len(order) \in Nat /\ DOMAIN order = 1..Len(order) /\ Remember \in Nat
  BY VerdictTypes
<1>1. t0 \in Trace /\ ready[t0] # {}
  BY DEF PlacesInv, SettlesATrace, Settle
<1>2. v \in {"keep", "drop"}
  OBVIOUS
<1>3. decided[t0] # "none" => decidedAt[t0] < clock
  BY <1>t, <1>1 DEF VerdictInv, JudgedAgainLater, ReadingsArePast
<1>4. /\ q \in Seq(Entry) /\ Queue(q, d, at, clock)
      /\ d \in [Trace -> {"none", "keep", "drop"}] /\ at \in [Trace -> 0..MaxClock]
  BY <1>t, <1>1, <1>2, <1>3, RememberingAppends, Zenon DEF VerdictInv
<1>5. PICK k \in 0..Len(q) : Cardinality(Left(q, d, at, k)) <= MaxDecisions /\ ForgetOldest(q, d, at, k)
  BY Zenon DEF Settle, RememberVerdict
<1>6. /\ d[t0] = v /\ at[t0] = clock
      /\ \A t \in Trace : t # t0 => d[t] = decided[t] /\ at[t] = decidedAt[t]
  BY <1>t, <1>1
<1>7. /\ Len(q) = Len(order) + 1 /\ q[Len(order) + 1] = [id |-> t0, at |-> clock]
      /\ \A j \in 1..Len(order) : q[j] = order[j]
  <2>1. [id |-> t0, at |-> clock] \in Entry
    BY <1>t, <1>1 DEF Entry
  <2> QED
    BY <1>t, <2>1, SeqAppend
<1> HIDE DEF t0, v, d, at, q
<1>8. /\ order' \in Seq(Entry) /\ Len(order') = Len(q) - k
      /\ \A i \in 1..Len(order') : order'[i] = q[i + k] /\ i + k \in 1..Len(q)
      /\ \A t \in Trace : /\ decided'[t] = IF t \in Forgotten(q, at, k) THEN "none" ELSE d[t]
                          /\ t \notin Forgotten(q, at, k) => decidedAt'[t] = at[t]
      /\ Queue(order', decided', decidedAt', clock)
  <2>1. LeavesTheTail(q, d, at, k) /\ Queue(order', decided', decidedAt', clock)
    BY <1>t, <1>4, <1>5, ForgettingTakesTheHead, Zenon
  <2> QED
    BY <2>1 DEF LeavesTheTail
<1>9. Remembered' = Left(q, d, at, k)
  BY <1>8 DEF Remembered, Left
<1>10. Cardinality(Remembered') <= MaxDecisions
  BY <1>5, <1>9
<1>11. ASSUME NEW i \in DOMAIN order'
       PROVE  order'[i] = [id |-> t0, at |-> clock] \/ \E j \in DOMAIN order : order'[i] = order[j]
  <2>1. DOMAIN order' = 1..Len(order')
    BY <1>8, SeqLen
  <2>2. order'[i] = q[i + k] /\ i + k \in 1..Len(q)
    BY <1>8, <2>1
  <2>3. i + k \in 1..Len(order) \/ i + k = Len(order) + 1
    BY <1>t, <1>7, <2>2
  <2> QED
    BY <1>t, <1>7, <2>2, <2>3
<1>12. ASSUME NEW t \in Trace, decided'[t] # "none"
       PROVE  IF t = t0 THEN decidedAt'[t] = clock ELSE decided[t] # "none" /\ decidedAt'[t] = decidedAt[t]
  BY <1>6, <1>8, <1>12
<1>13. ASSUME NEW t \in Trace, NEW u \in Trace, decided[t] # "none", decided'[t] = "none", decided'[u] # "none"
       PROVE  decidedAt[t] <= decidedAt'[u]
  <2>1. t \in Forgotten(q, at, k) /\ u \notin Forgotten(q, at, k) /\ d[u] # "none" /\ decidedAt'[u] = at[u]
    BY <1>2, <1>6, <1>8, <1>13
  <2>2. PICK i \in 1..k : q[i].id = t /\ q[i].at = at[t]
    BY <2>1 DEF Forgotten
  <2>3. PICK j \in DOMAIN q : q[j] = [id |-> u, at |-> at[u]]
    BY <1>4, <2>1 DEF Queue
  <2>4. DOMAIN q = 1..Len(q) /\ Len(q) \in Nat
    BY <1>4, SeqLen
  <2>5. j \notin 1..k
    BY <2>1, <2>3 DEF Forgotten
  <2>6. i \in DOMAIN q /\ i < j
    BY <2>4, <2>5, <1>5
  <2>7. at[t] <= at[u]
    BY <1>4, <2>2, <2>3, <2>6 DEF Queue
  <2>8. decidedAt[t] <= at[t]
    BY <1>t, <1>3, <1>6, <1>13
  <2>9. at[t] \in Int /\ at[u] \in Int
    BY <1>4
  <2> QED
    BY <1>t, <2>1, <2>7, <2>8, <2>9
<1> QED
  BY <1>8, <1>10, <1>11, <1>12, <1>13 DEF t0

\* What forget does to the queue: the entries left are the ones younger than
\* Remember by the sweep's clock, and their verdicts are as they were.
LEMMA ForgetQueue ==
  ASSUME PlacesInv, VerdictInv, Forget
  PROVE  /\ Queue(order', decided', decidedAt', clock)
         /\ Cardinality(Remembered') <= MaxDecisions
         /\ \A i \in DOMAIN order' : /\ sweepNow - order'[i].at < Remember
                                     /\ \E j \in DOMAIN order : order'[i] = order[j]
         /\ \A t \in Trace : decided'[t] # "none" => decided[t] # "none" /\ decidedAt'[t] = decidedAt[t]
         /\ \A t, u \in Trace : decided[t] # "none" /\ decided'[t] = "none" /\ decided'[u] # "none"
              => decidedAt[t] <= decidedAt'[u]
<1>t. /\ clock \in Int /\ sweepNow \in Int /\ order \in Seq(Entry)
      /\ decided \in [Trace -> {"none", "keep", "drop"}] /\ decidedAt \in [Trace -> 0..MaxClock]
      /\ \A t \in Trace : decidedAt[t] \in Int
      /\ Len(order) \in Nat /\ DOMAIN order = 1..Len(order) /\ Remember \in Nat /\ MaxDecisions \in Nat
      /\ \A i \in DOMAIN order : order[i].at \in Int
  BY VerdictTypes
<1>1. Queue(order, decided, decidedAt, clock) /\ Cardinality(Remembered) <= MaxDecisions
  BY DEF VerdictInv
<1>2. PICK k \in 0..Len(order) : /\ k < Len(order) => sweepNow - order[k + 1].at < Remember
                                 /\ ForgetOldest(order, decided, decidedAt, k)
  BY DEF Forget
<1> DEFINE gone == Forgotten(order, decidedAt, k)
<1>3. /\ order' \in Seq(Entry) /\ Len(order') = Len(order) - k
      /\ \A i \in 1..Len(order') : order'[i] = order[i + k] /\ i + k \in 1..Len(order)
      /\ \A t \in Trace : /\ decided'[t] = IF t \in gone THEN "none" ELSE decided[t]
                          /\ t \notin gone => decidedAt'[t] = decidedAt[t]
      /\ Queue(order', decided', decidedAt', clock)
  <2>1. LeavesTheTail(order, decided, decidedAt, k) /\ Queue(order', decided', decidedAt', clock)
    BY <1>t, <1>1, <1>2, ForgettingTakesTheHead
  <2> QED
    BY <2>1 DEF LeavesTheTail
<1>4. \A t \in Trace : t \in gone <=> \E i \in 1..k : order[i].id = t /\ order[i].at = decidedAt[t]
  BY DEF Forgotten
<1> HIDE DEF gone
<1>5. Cardinality(Remembered') <= MaxDecisions
  <2>1. Remembered' \subseteq Remembered /\ Remembered \in SUBSET Trace /\ Remembered' \in SUBSET Trace
    BY <1>3 DEF Remembered
  <2>2. /\ IsFiniteSet(Remembered)
        /\ Cardinality(Remembered) \in Nat /\ Cardinality(Remembered') \in Nat
    BY <2>1, TracesAreCounted
  <2>3. Cardinality(Remembered') <= Cardinality(Remembered)
    BY <2>1, <2>2, FS_Subset
  <2> QED
    BY <1>t, <1>1, <2>2, <2>3
<1>6. ASSUME NEW i \in DOMAIN order'
      PROVE  sweepNow - order'[i].at < Remember /\ \E j \in DOMAIN order : order'[i] = order[j]
  <2>1. DOMAIN order' = 1..Len(order') /\ Len(order') \in Nat
    BY <1>3, SeqLen
  <2>2. order'[i] = order[i + k] /\ i + k \in 1..Len(order) /\ k + 1 <= i + k
    BY <1>3, <2>1
  <2>3. k + 1 \in DOMAIN order /\ k < Len(order)
    BY <1>t, <2>2
  <2>4. order[k + 1].at <= order[i + k].at
    <3>1. CASE k + 1 = i + k
      BY <1>t, <2>3, <3>1
    <3>2. CASE k + 1 < i + k
      BY <1>t, <1>1, <2>2, <2>3, <3>2, Zenon DEF Queue
    <3> QED
      BY <1>t, <2>2, <3>1, <3>2
  <2>5. order[k + 1].at \in Int /\ order[i + k].at \in Int
    BY <1>t, <2>2, <2>3
  <2>6. sweepNow - order[i + k].at < Remember
    BY <1>t, <1>2, <2>3, <2>4, <2>5
  <2> QED
    BY <1>t, <2>2, <2>6
<1>7. ASSUME NEW t \in Trace, decided'[t] # "none"
      PROVE  decided[t] # "none" /\ decidedAt'[t] = decidedAt[t]
  BY <1>3, <1>7
<1>8. ASSUME NEW t \in Trace, NEW u \in Trace, decided[t] # "none", decided'[t] = "none", decided'[u] # "none"
      PROVE  decidedAt[t] <= decidedAt'[u]
  <2>1. t \in gone /\ u \notin gone /\ decided[u] # "none" /\ decidedAt'[u] = decidedAt[u]
    BY <1>3, <1>8
  <2>2. PICK i \in 1..k : order[i].id = t /\ order[i].at = decidedAt[t]
    BY <1>4, <2>1
  <2>3. PICK j \in DOMAIN order : order[j] = [id |-> u, at |-> decidedAt[u]]
    BY <1>1, <2>1 DEF Queue
  <2>4. i \in DOMAIN order /\ i < j
    BY <1>t, <1>4, <2>1, <2>3
  <2> QED
    BY <1>1, <2>1, <2>2, <2>3, <2>4 DEF Queue
<1> QED
  BY <1>3, <1>5, <1>6, <1>7, <1>8

\* A step that leaves the verdicts and the sweep alone and only reads the clock,
\* or moves it on.
LEMMA VerdictFrame ==
  ASSUME PlacesInv, VerdictInv,
         clock' \in Int, clock <= clock', sweepNow' = sweepNow,
         \A h \in Handler : acceptNow'[h] \in {acceptNow[h], clock, 0},
         UNCHANGED <<pending, first, last, decided, decidedAt, order, ready, flushing, pc>>
  PROVE  VerdictInv'
<1>t. /\ clock \in 0..MaxClock /\ clock \in Int /\ sweepNow \in Int /\ MaxClock \in Nat
      /\ \A t \in Trace : first[t] \in Int /\ last[t] \in Int
      /\ \A h \in Handler : acceptNow[h] \in Int
      /\ \A i \in DOMAIN order : order[i].at \in Int
  BY VerdictTypes
<1>1. ReadingsArePast'
  BY <1>t DEF VerdictInv, ReadingsArePast
<1>2. JudgedAgainLater' /\ StaleOnlyInSweep' /\ Remembered' = Remembered
  BY DEF VerdictInv, JudgedAgainLater, StaleOnlyInSweep, Remembered
<1>3. Queue(order, decided, decidedAt, clock')
  BY <1>t DEF VerdictInv, Queue
<1> QED
  BY <1>1, <1>2, <1>3 DEF VerdictInv

\* Every step of the sampler preserves it.
LEMMA VerdictInvStep == PlacesInv /\ VerdictInv /\ [Next]_vars => VerdictInv'
<1> SUFFICES ASSUME PlacesInv, VerdictInv, [Next]_vars PROVE VerdictInv'
  OBVIOUS
<1> USE DEF tables, accepting, sweeper
<1>t. /\ clock \in 0..MaxClock /\ sweepNow \in 0..MaxClock /\ clock \in Int /\ sweepNow \in Int
      /\ pending \in [Trace -> SUBSET Span] /\ ready \in [Trace -> SUBSET Span]
      /\ first \in [Trace -> 0..MaxClock] /\ last \in [Trace -> 0..MaxClock]
      /\ decided \in [Trace -> {"none", "keep", "drop"}] /\ decidedAt \in [Trace -> 0..MaxClock]
      /\ order \in Seq(Entry) /\ acceptNow \in [Handler -> 0..MaxClock] /\ flushing \in BOOLEAN
      /\ MaxClock \in Nat /\ Remember \in Nat /\ MaxDecisions \in Nat
      /\ \A t \in Trace : first[t] \in Int /\ last[t] \in Int /\ decidedAt[t] \in Int
      /\ \A h \in Handler : acceptNow[h] \in Int
      /\ Len(order) \in Nat /\ DOMAIN order = 1..Len(order)
      /\ \A i \in DOMAIN order : order[i].id \in Trace /\ order[i].at \in Int
  BY VerdictTypes
<1>r. sweepNow <= clock /\ (\A h \in Handler : acceptNow[h] <= clock)
      /\ (\A t \in Trace : first[t] <= clock /\ last[t] <= clock) /\ 0 <= clock
  BY <1>t DEF VerdictInv, ReadingsArePast
<1>q. /\ JudgedAgainLater /\ StaleOnlyInSweep /\ Queue(order, decided, decidedAt, clock)
      /\ Cardinality(Remembered) <= MaxDecisions /\ (Remember = 0 => order = << >>)
  BY DEF VerdictInv
<1>1. ASSUME NEW b, AcceptTooLarge(b) PROVE VerdictInv'
  <2>1. /\ clock' = clock /\ acceptNow' = acceptNow /\ sweepNow' = sweepNow
        /\ UNCHANGED <<pending, first, last, decided, decidedAt, order, ready, flushing, pc>>
    BY <1>1 DEF AcceptTooLarge
  <2>2. clock' \in Int /\ clock <= clock' /\ \A h \in Handler : acceptNow'[h] \in {acceptNow[h], clock, 0}
    BY <1>t, <2>1
  <2> QED
    BY <2>1, <2>2, VerdictFrame
<1>2. ASSUME NEW h \in Handler, NEW b, AcceptCall(h, b) PROVE VerdictInv'
  <2>1. \A g \in Handler : acceptNow'[g] \in {acceptNow[g], clock, 0}
    BY <1>2, <1>t, Zenon DEF AcceptCall
  <2> QED
    BY <1>2, <1>t, <2>1, VerdictFrame DEF AcceptCall
<1>3. ASSUME NEW h \in Handler, AcceptRefuse(h) PROVE VerdictInv'
  <2>1. \A g \in Handler : acceptNow'[g] \in {acceptNow[g], clock, 0}
    BY <1>3, <1>t, Zenon DEF AcceptRefuse, AcceptReturn
  <2> QED
    <3>1. /\ clock' = clock /\ sweepNow' = sweepNow
          /\ UNCHANGED <<pending, first, last, decided, decidedAt, order, ready, flushing, pc>>
      BY <1>3, Zenon DEF AcceptRefuse
    <3>2. clock' \in Int /\ clock <= clock'
      BY <1>t, <3>1
    <3> QED
      BY <2>1, <3>1, <3>2, VerdictFrame, Zenon
<1>4. ASSUME NEW h \in Handler, AcceptLocked(h) PROVE VerdictInv'
  <2> DEFINE now == acceptNow[h]
             new(t) == t \notin judging /\ Verdict(t, now) = "none" /\ OfTrace(batch[h], t) # {}
  <2>1. /\ UNCHANGED <<clock, sweepNow, decided, decidedAt, order, ready, flushing, pc>>
        /\ pending' = [t \in Trace |-> IF new(t) THEN pending[t] \cup OfTrace(batch[h], t) ELSE pending[t]]
        /\ first' = [t \in Trace |-> IF new(t) /\ pending[t] = {} THEN now ELSE first[t]]
        /\ last' = [t \in Trace |-> IF new(t) THEN now ELSE last[t]]
        /\ acceptNow' = [acceptNow EXCEPT ![h] = 0]
    BY <1>4 DEF AcceptLocked, AcceptReturn
  <2>2. \A t \in Trace : new(t) /\ decided[t] # "none" => now - decidedAt[t] >= Remember
    BY <1>t, Zenon DEF Verdict
  <2>3. \A t \in Trace : new(t) => ready[t] = {}
    BY DEF PlacesInv, JudgedApart, Remaining
  <2>4. now \in Int /\ now <= clock
    BY <1>t, <1>r
  <2> HIDE DEF now, new
  <2>5. ReadingsArePast'
    BY <1>t, <1>r, <2>1, <2>4, Zenon DEF ReadingsArePast
  <2>6. ASSUME NEW t \in Trace, decided'[t] # "none"
        PROVE  /\ pending'[t] # {} => last'[t] - decidedAt'[t] >= Remember
               /\ pending'[t] # {} \/ ready'[t] # {} => first'[t] - decidedAt'[t] >= Remember
               /\ ready'[t] # {} /\ ~flushing' => sweepNow' - decidedAt'[t] >= Remember
    <3>0. decided[t] # "none" /\ decidedAt'[t] = decidedAt[t] /\ ready'[t] = ready[t]
      BY <2>1, <2>6, Zenon
    <3>1. CASE new(t)
      <4>1. last'[t] = now /\ first'[t] = (IF pending[t] = {} THEN now ELSE first[t]) /\ ready[t] = {}
        BY <2>1, <2>3, <3>1, Zenon
      <4>2. now - decidedAt[t] >= Remember
        BY <2>2, <3>0, <3>1
      <4>3. pending[t] # {} => first[t] - decidedAt[t] >= Remember
        BY <1>q, <3>0 DEF JudgedAgainLater
      <4> QED
        BY <3>0, <4>1, <4>2, <4>3, Zenon
    <3>2. CASE ~new(t)
      <4>1. last'[t] = last[t] /\ first'[t] = first[t] /\ pending'[t] = pending[t]
        BY <2>1, <3>2, Zenon
      <4> QED
        BY <1>q, <2>1, <3>0, <4>1, Zenon DEF JudgedAgainLater
    <3> QED
      BY <3>1, <3>2, Zenon
  <2>7. JudgedAgainLater'
    BY <2>6 DEF JudgedAgainLater
  <2>8. StaleOnlyInSweep' /\ Remembered' = Remembered
    BY <1>q, <2>1 DEF StaleOnlyInSweep, Remembered
  <2>9. Queue(order', decided', decidedAt', clock')
    BY <1>q, <2>1, Zenon
  <2> QED
    BY <1>q, <2>1, <2>5, <2>7, <2>8, <2>9, Zenon DEF VerdictInv
<1>5. CASE SweepStart \/ FlushStart
  <2>1. /\ UNCHANGED <<clock, pending, first, last, decided, decidedAt, order, ready, acceptNow>>
        /\ pc = "idle" /\ pc' = "judge" /\ sweepNow' \in {0, clock}
    BY <1>5 DEF SweepStart, FlushStart
  <2>2. \A t \in Trace : ready[t] = {}
    BY <2>1 DEF PlacesInv, JudgedApart, Remaining
  <2>3. ReadingsArePast'
    BY <1>t, <1>r, <2>1 DEF ReadingsArePast
  <2>4. JudgedAgainLater'
    BY <1>q, <2>1, <2>2 DEF JudgedAgainLater
  <2>6. StaleOnlyInSweep' /\ Remembered' = Remembered
    BY <1>q, <2>1 DEF StaleOnlyInSweep, Remembered
  <2> QED
    BY <1>q, <2>1, <2>3, <2>4, <2>6 DEF VerdictInv
<1>6. CASE Stop
  BY <1>6, <1>t, VerdictFrame DEF Stop
<1>7. CASE Judge
  <2> DEFINE due == {t \in Trace : Due(t)}
  <2>1. /\ UNCHANGED <<clock, sweepNow, first, decided, decidedAt, order, acceptNow, flushing>>
        /\ pc = "judge" /\ pc' = "decide"
        /\ ready' = [t \in Trace |-> IF t \in due THEN pending[t] ELSE {}]
        /\ pending' = [t \in Trace |-> IF t \in due THEN {} ELSE pending[t]]
        /\ last' = [t \in Trace |-> IF t \in due THEN 0 ELSE last[t]]
    BY <1>7 DEF Judge
  <2>2. \A t \in Trace : t \in due /\ ~flushing => sweepNow >= last[t] \/ sweepNow >= first[t]
    BY <1>t, ConfigAssumption DEF Due
  <2> HIDE DEF due
  <2>3. ReadingsArePast'
    BY <1>t, <1>r, <2>1 DEF ReadingsArePast
  <2>4. ASSUME NEW t \in Trace, decided'[t] # "none"
        PROVE  /\ pending'[t] # {} => last'[t] - decidedAt'[t] >= Remember
               /\ pending'[t] # {} \/ ready'[t] # {} => first'[t] - decidedAt'[t] >= Remember
               /\ ready'[t] # {} /\ ~flushing' => sweepNow' - decidedAt'[t] >= Remember
    <3>1. decided[t] # "none"
      BY <2>1, <2>4, Zenon
    <3>2. pending[t] # {} => last[t] - decidedAt[t] >= Remember /\ first[t] - decidedAt[t] >= Remember
      BY <1>q, <3>1, Zenon DEF JudgedAgainLater
    <3>3. CASE t \in due
      <4>1. pending'[t] = {} /\ ready'[t] = pending[t] /\ first'[t] = first[t]
        BY <2>1, <3>3
      <4>2. pending[t] # {} /\ ~flushing => sweepNow - decidedAt[t] >= Remember
        BY <1>t, <2>2, <3>2, <3>3
      <4> QED
        BY <2>1, <3>2, <4>1, <4>2
    <3>4. CASE t \notin due
      <4>1. pending'[t] = pending[t] /\ ready'[t] = {} /\ first'[t] = first[t] /\ last'[t] = last[t]
        BY <2>1, <3>4
      <4> QED
        BY <2>1, <3>2, <4>1, Zenon
    <3> QED
      BY <3>3, <3>4
  <2>5. JudgedAgainLater'
    BY <2>4 DEF JudgedAgainLater
  <2>6. StaleOnlyInSweep' /\ Remembered' = Remembered
    BY <1>q, <2>1 DEF StaleOnlyInSweep, Remembered
  <2> QED
    BY <1>q, <2>1, <2>3, <2>5, <2>6 DEF VerdictInv
<1>8. ASSUME NEW t \in Trace, NEW keep \in BOOLEAN, NEW ok \in BOOLEAN, Decide(t, keep, ok) PROVE VerdictInv'
  <2>1. /\ UNCHANGED <<clock, sweepNow, pending, first, last, decided, decidedAt, order, ready, acceptNow, flushing>>
        /\ pc = "decide" /\ pc' = "settle"
    BY <1>8 DEF Decide
  <2>2. ReadingsArePast' /\ JudgedAgainLater'
    BY <1>r, <1>q, <2>1, Zenon DEF ReadingsArePast, JudgedAgainLater
  <2>3. StaleOnlyInSweep' /\ Remembered' = Remembered
    BY <1>q, <2>1, Zenon DEF StaleOnlyInSweep, Remembered
  <2> QED
    BY <1>q, <2>1, <2>2, <2>3 DEF VerdictInv
<1>9. CASE Settle
  <2> DEFINE t0 == cur.id
  <2>1. /\ UNCHANGED <<clock, sweepNow, pending, last, acceptNow, flushing>>
        /\ pc = "settle" /\ pc' = "decide" /\ t0 \in Trace /\ ready[t0] # {}
        /\ first' = [first EXCEPT ![t0] = 0] /\ ready' = [ready EXCEPT ![t0] = {}]
    BY <1>9 DEF Settle, PlacesInv, SettlesATrace
  <2>2. pending[t0] = {}
    BY <2>1, Zenon DEF PlacesInv, JudgedApart, Remaining
  <2>3. ReadingsArePast'
    BY <1>t, <1>r, <2>1, Zenon DEF ReadingsArePast
  <2>4. CASE Remember > 0
    <3>1. /\ Queue(order', decided', decidedAt', clock)
          /\ Cardinality(Remembered') <= MaxDecisions
          /\ \A i \in DOMAIN order' : \/ order'[i] = [id |-> cur.id, at |-> clock]
                                      \/ \E j \in DOMAIN order : order'[i] = order[j]
          /\ \A t \in Trace : decided'[t] # "none" =>
               IF t = cur.id THEN decidedAt'[t] = clock
               ELSE decided[t] # "none" /\ decidedAt'[t] = decidedAt[t]
      BY <1>9, <2>4, SettleQueue, Zenon
    <3>2. ASSUME NEW t \in Trace, decided'[t] # "none"
          PROVE  /\ pending'[t] # {} => last'[t] - decidedAt'[t] >= Remember
                 /\ pending'[t] # {} \/ ready'[t] # {} => first'[t] - decidedAt'[t] >= Remember
                 /\ ready'[t] # {} /\ ~flushing' => sweepNow' - decidedAt'[t] >= Remember
      <4>1. CASE t = t0
        BY <1>t, <2>1, <2>2, <4>1
      <4>2. CASE t # t0
        <5>1. /\ decided[t] # "none" /\ decidedAt'[t] = decidedAt[t]
              /\ first'[t] = first[t] /\ ready'[t] = ready[t]
          BY <1>t, <2>1, <3>1, <3>2, <4>2, Zenon
        <5> QED
          BY <1>q, <2>1, <5>1, Zenon DEF JudgedAgainLater
      <4> QED
        BY <4>1, <4>2, Zenon
    <3>3. ASSUME NEW i \in DOMAIN order', order'[i].at # decidedAt'[order'[i].id]
          PROVE  \/ flushing'
                 \/ ~flushing' /\ sweepNow' - order'[i].at >= Remember
      <4>1. decided'[order'[i].id] # "none"
        BY <3>1, Zenon DEF Queue
      <4>2. order'[i] # [id |-> t0, at |-> clock]
        <5>1. decided'[t0] # "none" => decidedAt'[t0] = clock
          BY <2>1, <3>1, Zenon
        <5> DEFINE new == [id |-> t0, at |-> clock]
        <5>2. new.id = t0 /\ new.at = clock
          OBVIOUS
        <5> HIDE DEF new
        <5>3. order'[i] # new
          BY <3>3, <4>1, <5>1, <5>2, Zenon
        <5> QED
          BY <5>3, Zenon DEF new
      <4>3. PICK j \in DOMAIN order : order'[i] = order[j]
        BY <3>1, <4>2
      <4> DEFINE u == order[j].id
      <4>4. u \in Trace /\ order[j].at \in Int /\ order[j].at <= decidedAt[u]
        BY <1>t, <1>q, Zenon DEF Queue
      <4>5. CASE u = t0
        <5>1. decided[t0] # "none"
          BY <1>q, <4>5 DEF Queue
        <5>2. ~flushing => sweepNow - decidedAt[t0] >= Remember
          BY <1>q, <2>1, <5>1, Zenon DEF JudgedAgainLater
        <5>3. ~flushing => sweepNow - order[j].at >= Remember
          BY <1>t, <4>4, <4>5, <5>2
        <5> QED
          BY <1>t, <2>1, <4>3, <5>3
      <4>6. CASE u # t0
        <5>1. decidedAt'[u] = decidedAt[u]
          BY <3>1, <4>1, <4>3, <4>4, <4>6, Zenon
        <5>2. order[j].at # decidedAt[u]
          BY <3>3, <4>3, <5>1
        <5> QED
          BY <1>q, <2>1, <4>3, <5>2 DEF StaleOnlyInSweep
      <4> QED
        BY <4>5, <4>6
    <3>4. JudgedAgainLater'
      BY <3>2 DEF JudgedAgainLater
    <3>5. StaleOnlyInSweep'
      BY <2>1, <3>3, Zenon DEF StaleOnlyInSweep
    <3>6. Queue(order, decided, decidedAt, clock)'
      BY <2>1, <3>1
    <3> QED
      <4>1. Remember' = Remember /\ MaxDecisions' = MaxDecisions /\ Remember # 0
        BY <1>t, <2>4
      <4>2. Cardinality(Remembered)' <= MaxDecisions
        BY <3>1, Zenon
      <4> QED
        BY <2>3, <3>4, <3>5, <3>6, <4>1, <4>2, Zenon DEF VerdictInv
  <2>5. CASE ~(Remember > 0)
    <3>1. order' = order /\ decided' = decided /\ decidedAt' = decidedAt /\ Remember = 0
      BY <1>9, <1>t, <2>5 DEF Settle
    <3>2. DOMAIN order = {} /\ order = << >>
      BY <1>q, <3>1
    <3>3. \A t \in Trace : decided[t] = "none"
      BY <1>q, <3>2 DEF Queue
    <3>4. JudgedAgainLater' /\ StaleOnlyInSweep' /\ Remembered' = Remembered
      BY <3>1, <3>2, <3>3 DEF JudgedAgainLater, StaleOnlyInSweep, Remembered
    <3> QED
      BY <1>q, <2>1, <2>3, <3>1, <3>4 DEF VerdictInv
  <2> QED
    BY <2>4, <2>5
<1>10. CASE Forget
  <2>1. /\ UNCHANGED <<clock, sweepNow, pending, first, last, ready, acceptNow, flushing>>
        /\ pc = "decide" /\ pc' = "late" /\ ~flushing
    BY <1>10 DEF Forget
  <2>2. /\ Queue(order', decided', decidedAt', clock)
        /\ Cardinality(Remembered') <= MaxDecisions
        /\ \A i \in DOMAIN order' : /\ sweepNow - order'[i].at < Remember
                                    /\ \E j \in DOMAIN order : order'[i] = order[j]
        /\ \A t \in Trace : decided'[t] # "none" => decided[t] # "none" /\ decidedAt'[t] = decidedAt[t]
    BY <1>10, ForgetQueue
  <2>3. ReadingsArePast'
    BY <1>r, <2>1 DEF ReadingsArePast
  <2>4. JudgedAgainLater'
    BY <1>q, <2>1, <2>2 DEF JudgedAgainLater
  <2>5. ASSUME NEW i \in DOMAIN order' PROVE order'[i].at = decidedAt'[order'[i].id]
    <3>1. PICK j \in DOMAIN order : order'[i] = order[j]
      BY <2>2, Zenon
    <3>2. sweepNow - order[j].at < Remember /\ order[j].id \in Trace /\ order[j].at \in Int
      BY <1>t, <2>2, <3>1
    <3>3. order[j].at = decidedAt[order[j].id]
      BY <1>t, <1>q, <2>1, <3>2 DEF StaleOnlyInSweep
    <3>4. decided'[order'[i].id] # "none"
      BY <2>2, Zenon DEF Queue
    <3> QED
      BY <2>2, <3>1, <3>2, <3>3, <3>4, Zenon
  <2>6. StaleOnlyInSweep'
    BY <2>5 DEF StaleOnlyInSweep
  <2>7. Remember = 0 => order' = << >>
    <3> SUFFICES ASSUME Remember = 0 PROVE order' = << >>
      OBVIOUS
    <3>1. DOMAIN order = {}
      BY <1>q
    <3>2. DOMAIN order' = {}
      BY <2>2, <3>1
    <3>3. order' \in Seq(Entry)
      BY PlacesStep, <1>10, Zenon DEF PlacesInv, TypeOK, Entry, Next, Run
    <3> QED
      BY <3>2, <3>3, SeqEmpty, SeqLen
  <2>8. Queue(order, decided, decidedAt, clock)'
    BY <2>1, <2>2
  <2> QED
    BY <2>2, <2>3, <2>4, <2>6, <2>7, <2>8 DEF VerdictInv
<1>11. CASE TakeLate
  <2>1. /\ UNCHANGED <<clock, sweepNow, pending, first, last, decided, decidedAt, order, ready, acceptNow, flushing>>
        /\ pc = "late" \/ (pc = "decide" /\ flushing)
        /\ pc' = "writeLate"
    BY <1>11 DEF TakeLate
  <2>2. ReadingsArePast' /\ JudgedAgainLater'
    BY <1>r, <1>q, <2>1 DEF ReadingsArePast, JudgedAgainLater
  <2>3. StaleOnlyInSweep' /\ Remembered' = Remembered
    BY <1>11, <1>q, <2>1 DEF StaleOnlyInSweep, Remembered, TakeLate
  <2> QED
    BY <1>q, <2>1, <2>2, <2>3 DEF VerdictInv
<1>12. ASSUME NEW t \in Trace, NEW ok \in BOOLEAN, WriteLate(t, ok) PROVE VerdictInv'
  BY <1>12, <1>t, VerdictFrame DEF WriteLate
<1>13. CASE SweepDone
  <2>1. /\ UNCHANGED <<clock, pending, first, last, decided, decidedAt, order, ready, acceptNow>>
        /\ pc = "writeLate" /\ pc' = (IF flushing THEN "stopped" ELSE "idle") /\ sweepNow' = 0
    BY <1>13 DEF SweepDone
  <2>2. \A t \in Trace : ready[t] = {}
    BY <2>1, Zenon DEF PlacesInv, JudgedApart, Remaining
  <2>3. ReadingsArePast' /\ JudgedAgainLater'
    BY <1>r, <1>q, <2>1, <2>2 DEF ReadingsArePast, JudgedAgainLater
  <2>4. StaleOnlyInSweep' /\ Remembered' = Remembered
    BY <1>q, <2>1, Zenon DEF StaleOnlyInSweep, Remembered
  <2> QED
    BY <1>q, <2>1, <2>3, <2>4 DEF VerdictInv
<1>14. CASE Tick
  BY <1>14, <1>t, VerdictFrame DEF Tick
<1>15. CASE UNCHANGED vars
  <2>1. /\ clock' = clock /\ sweepNow' = sweepNow /\ acceptNow' = acceptNow
        /\ UNCHANGED <<pending, first, last, decided, decidedAt, order, ready, flushing, pc>>
    BY <1>15, Zenon DEF vars
  <2>2. clock' \in Int /\ clock <= clock'
    BY <1>t, <2>1
  <2>3. \A h \in Handler : acceptNow'[h] \in {acceptNow[h], clock, 0}
    BY <2>1
  <2> QED
    BY <2>1, <2>2, <2>3, VerdictFrame, Zenon
<1> QED
  BY <1>1, <1>2, <1>3, <1>4, <1>5, <1>6, <1>7, <1>8, <1>9, <1>10, <1>11, <1>12, <1>13, <1>14, <1>15
  DEF Next, Exports, Accepts, Run, Deciding, WritingLate

\* The initial state satisfies it.
LEMMA VerdictInvInit == Init => VerdictInv
<1> SUFFICES ASSUME Init PROVE VerdictInv
  OBVIOUS
<1>1. /\ clock = 0 /\ sweepNow = 0 /\ order = << >> /\ pc = "idle"
      /\ \A h \in Handler : acceptNow[h] = 0
      /\ \A t \in Trace : first[t] = 0 /\ last[t] = 0 /\ decided[t] = "none"
  BY DEF Init
<1>2. DOMAIN order = {} /\ Remembered = {}
  BY <1>1 DEF Remembered
<1>3. Cardinality({}) = 0 /\ MaxDecisions \in Nat
  BY FS_EmptySet, ConfigAssumption
<1>4. ReadingsArePast /\ JudgedAgainLater /\ StaleOnlyInSweep
  BY <1>1, <1>2 DEF ReadingsArePast, JudgedAgainLater, StaleOnlyInSweep
<1>5. Queue(order, decided, decidedAt, clock)
  BY <1>1, <1>2 DEF Queue
<1> QED
  BY <1>1, <1>2, <1>3, <1>4, <1>5 DEF VerdictInv

\* Every reachable state satisfies it.
LEMMA VerdictsHold == Spec => []VerdictInv
<1>1. Init => VerdictInv
  BY VerdictInvInit
<1>2. PlacesInv /\ VerdictInv /\ [Next]_vars => VerdictInv'
  BY VerdictInvStep
<1> QED
  BY <1>1, <1>2, PlacesHold, PTL DEF Spec

\* No span is judged against the verdict of its trace while that verdict is
\* remembered, whichever clock readings Accept, Sweep and settle work with.
THEOREM VerdictIsFollowedAlways == Spec => []VerdictIsFollowed
<1>1. VerdictInv => VerdictIsFollowed
  BY DEF VerdictInv, JudgedAgainLater, VerdictIsFollowed
<1> QED
  BY <1>1, VerdictsHold, PTL

\* The queue finds every verdict and no more than MaxDecisions are remembered:
\* forget and settle's loop may stop at the first entry that is young enough.
THEOREM OrderFindsVerdictsAlways == Spec => []OrderFindsVerdicts
<1>1. VerdictInv => OrderFindsVerdicts
  BY DEF VerdictInv, Queue, OrderFindsVerdicts, Remembered
<1> QED
  BY <1>1, VerdictsHold, PTL

\* The queue is as bounded as the verdicts: whenever Run waits for its ticker,
\* every entry of s.order is the entry of a verdict in s.decided, and of one.
THEOREM NoStaleEntryAlways == Spec => []NoStaleEntryBetweenSweeps
<1>1. PlacesInv /\ VerdictInv => NoStaleEntryBetweenSweeps
  <2> SUFFICES ASSUME PlacesInv, VerdictInv, pc = "idle" PROVE Len(order) = Cardinality(Remembered)
    BY DEF NoStaleEntryBetweenSweeps, Remembered
  <2> DEFINE f == [i \in 1..Len(order) |-> order[i].id]
  <2>1. /\ Len(order) \in Nat /\ DOMAIN order = 1..Len(order)
        /\ \A i \in DOMAIN order : order[i].id \in Trace /\ order[i].at \in Int
    BY VerdictTypes
  <2>2. Queue(order, decided, decidedAt, clock) /\ \A i \in DOMAIN order : order[i].at = decidedAt[order[i].id]
    BY DEF VerdictInv, StaleOnlyInSweep
  <2>3. f \in [1..Len(order) -> Remembered]
    BY <2>1, <2>2 DEF Queue, Remembered
  <2>4. ASSUME NEW i \in 1..Len(order), NEW j \in 1..Len(order), f[i] = f[j] PROVE i = j
    <3>1. order[i].id = order[j].id /\ order[i].at = order[j].at /\ order[i].at \in Int
      BY <2>1, <2>2, <2>4, Zenon
    <3>2. ~(i < j) /\ ~(j < i)
      BY <2>1, <2>2, <3>1 DEF Queue
    <3> QED
      BY <2>1, <3>2
  <2>5. ASSUME NEW t \in Remembered PROVE \E i \in 1..Len(order) : f[i] = t
    <3>1. t \in Trace /\ decided[t] # "none"
      BY DEF Remembered
    <3>2. PICK i \in DOMAIN order : order[i] = [id |-> t, at |-> decidedAt[t]]
      BY <2>2, <3>1, Zenon DEF Queue
    <3> QED
      BY <2>1, <3>2
  <2> HIDE DEF f
  <2>6. f \in Bijection(1..Len(order), Remembered)
    BY <2>3, <2>4, <2>5 DEF Bijection, Injection, Surjection, IsInjective
  <2>7. IsFiniteSet(1..Len(order)) /\ Cardinality(1..Len(order)) = Len(order)
    <3>1. \A n \in Nat : IsFiniteSet(1..n) /\ Cardinality(1..n) = n
      BY FS_Interval
    <3> QED
      BY <2>1, <3>1
  <2>8. ExistsBijection(1..Len(order), Remembered)
    BY <2>6 DEF ExistsBijection
  <2> QED
    BY <2>7, <2>8, FS_Bijection
<1> QED
  BY <1>1, PlacesHold, VerdictsHold, PTL

\* Forgetting goes by age, in settle's loop and in forget: a verdict that is
\* forgotten is no younger than any that is left.
THEOREM OldestGoesFirstAlways == Spec => OldestVerdictGoesFirst
<1> DEFINE Aged == \A t, u \in Trace : decided[t] # "none" /\ decided'[t] = "none" /\ decided'[u] # "none"
                                         => decidedAt[t] <= decidedAt'[u]
<1>1. PlacesInv /\ VerdictInv /\ [Next]_vars => [Aged]_vars
  <2> SUFFICES ASSUME PlacesInv, VerdictInv, Next PROVE Aged
    OBVIOUS
  <2> USE DEF tables, accepting, sweeper
  <2>1. CASE decided' = decided
    BY <2>1
  <2>2. CASE Settle
    <3>1. CASE Remember > 0
      BY <2>2, <3>1, SettleQueue, Zenon
    <3>2. CASE ~(Remember > 0)
      BY <2>2, <3>2 DEF Settle
    <3> QED
      BY <3>1, <3>2
  <2>3. CASE Forget
    BY <2>3, ForgetQueue
  <2>4. Settle \/ Forget \/ decided' = decided
    <3>1. CASE Exports
      BY <3>1 DEF Exports, AcceptTooLarge, AcceptCall
    <3>2. CASE Accepts
      BY <3>2 DEF Accepts, AcceptRefuse, AcceptLocked
    <3>3. CASE Deciding
      BY <3>3, Zenon DEF Deciding, Decide
    <3>4. CASE WritingLate
      BY <3>4 DEF WritingLate, WriteLate
    <3>5. CASE SweepStart \/ FlushStart \/ Judge \/ TakeLate \/ SweepDone \/ Stop \/ Tick
      BY <3>5 DEF SweepStart, FlushStart, Judge, TakeLate, SweepDone, Stop, Tick
    <3> QED
      BY <3>1, <3>2, <3>3, <3>4, <3>5 DEF Next, Run
  <2> QED
    BY <2>1, <2>2, <2>3, <2>4
<1>2. Spec => [][Aged]_vars
  BY <1>1, PlacesHold, VerdictsHold, PTL DEF Spec
<1> QED
  BY <1>2 DEF OldestVerdictGoesFirst

(***************************************************************************)
(* One verdict for a whole trace.                                          *)
(***************************************************************************)

\* A configuration that remembers every verdict for as long as it runs.
NeverForgets == Remember > MaxClock /\ MaxDecisions >= Cardinality(Trace)

\* The verdict of a trace tells what became of all its spans.
VerdictTellsFate ==
  /\ \A s \in Span : fate[s] = "dropped" => decided[TraceOf[s]] = "drop"
  /\ \A s \in Span : fate[s] \in {"written", "lost"} /\ s \notin JustWritten => decided[TraceOf[s]] = "keep"
  /\ \A t \in Trace : late[t] # {} \/ lateBatch[t] # {} => decided[t] = "keep"

\* A trace that is buffered or being judged has no verdict yet.
LEMMA JudgedOnce ==
  ASSUME PlacesInv, VerdictInv, NeverForgets, NEW t \in Trace, ready[t] # {}
  PROVE  decided[t] = "none"
<1>1. first[t] \in 0..MaxClock /\ decidedAt[t] \in 0..MaxClock /\ MaxClock \in Nat /\ Remember \in Nat
  BY VerdictTypes, Zenon
<1>2. decided[t] # "none" => first[t] - decidedAt[t] >= Remember
  BY DEF VerdictInv, JudgedAgainLater
<1> QED
  <2>1. Remember > MaxClock
    BY DEF NeverForgets
  <2>2. ~(first[t] - decidedAt[t] >= Remember)
    BY <1>1, <2>1
  <2> QED
    BY <1>2, <2>2

\* No verdict is forgotten: settle adds the one of the trace it settles, and
\* every other step leaves them all as they are.
LEMMA NothingIsForgotten ==
  ASSUME PlacesInv, VerdictInv, NeverForgets
  PROVE  /\ Settle => decided' = [decided EXCEPT ![cur.id] = IF cur.keep THEN "keep" ELSE "drop"]
         /\ Forget => decided' = decided
<1>t. /\ sweepNow \in 0..MaxClock /\ MaxClock \in Nat /\ Remember \in Nat /\ MaxDecisions \in Nat
      /\ decided \in [Trace -> {"none", "keep", "drop"}] /\ order \in Seq(Entry)
      /\ Len(order) \in Nat
  BY VerdictTypes
<1>1. ASSUME NEW q, NEW d \in [Trace -> {"none", "keep", "drop"}], NEW at, ForgetOldest(q, d, at, 0)
      PROVE  decided' = d
  <2>1. Forgotten(q, at, 0) = {}
    <3>1. 1..0 = {}
      OBVIOUS
    <3> QED
      BY <3>1, Zenon DEF Forgotten
  <2> QED
    BY <1>1, <2>1 DEF ForgetOldest
<1>2. ASSUME Settle PROVE decided' = [decided EXCEPT ![cur.id] = IF cur.keep THEN "keep" ELSE "drop"]
  <2> DEFINE d == [decided EXCEPT ![cur.id] = IF cur.keep THEN "keep" ELSE "drop"]
             at == [decidedAt EXCEPT ![cur.id] = clock]
             q == Append(order, [id |-> cur.id, at |-> clock])
  <2>1. RememberVerdict(cur.id, cur.keep)
    BY <1>2, <1>t DEF Settle, NeverForgets
  <2>2. PICK k \in 0..Len(q) : /\ \A j \in 0..(k - 1) : ~(Cardinality(Left(q, d, at, j)) <= MaxDecisions)
                               /\ ForgetOldest(q, d, at, k)
    BY <2>1, Zenon DEF RememberVerdict
  <2>3. Left(q, d, at, 0) \in SUBSET Trace
    BY DEF Left
  <2>4. Cardinality(Left(q, d, at, 0)) <= Cardinality(Trace) /\ Cardinality(Trace) \in Nat
        /\ Cardinality(Left(q, d, at, 0)) \in Nat
    BY <2>3, TracesAreCounted, FS_Subset, Zenon
  <2>5. d \in [Trace -> {"none", "keep", "drop"}]
    BY <1>t, Zenon
  <2>6. k \in Nat
    OBVIOUS
  <2> HIDE DEF d, at, q
  <2>7. k = 0
    BY <1>t, <2>2, <2>4, <2>6 DEF NeverForgets
  <2> QED
    BY <1>1, <2>2, <2>5, <2>7, Zenon DEF d
<1>3. ASSUME Forget PROVE decided' = decided
  <2>1. PICK k \in 0..Len(order) : /\ \A i \in 1..k : sweepNow - order[i].at >= Remember
                                   /\ ForgetOldest(order, decided, decidedAt, k)
    BY <1>3, Zenon DEF Forget
  <2>2. \A i \in 1..Len(order) : order[i].at \in 0..MaxClock
    <3>1. \A i \in 1..Len(order) : order[i] \in Entry
      BY <1>t, SeqElement
    <3> QED
      BY <3>1 DEF Entry
  <2>3. k = 0
    <3> SUFFICES ASSUME k # 0 PROVE FALSE
      OBVIOUS
    <3>1. 1 \in 1..k /\ 1 \in 1..Len(order)
      BY <1>t
    <3>2. sweepNow - order[1].at >= Remember /\ order[1].at \in 0..MaxClock
      BY <2>1, <2>2, <3>1
    <3> QED
      BY <1>t, <3>2 DEF NeverForgets
  <2> QED
    BY <1>1, <1>t, <2>1, <2>3
<1> QED
  BY <1>2, <1>3

\* Every step of the sampler preserves it.
LEMMA FateStep == PlacesInv /\ VerdictInv /\ NeverForgets /\ VerdictTellsFate /\ [Next]_vars => VerdictTellsFate'
<1> SUFFICES ASSUME PlacesInv, VerdictInv, NeverForgets, VerdictTellsFate, [Next]_vars PROVE VerdictTellsFate'
  OBVIOUS
<1> USE DEF tables, accepting, sweeper
<1>t. /\ fate \in [Span -> Fates] /\ TraceOf \in [Span -> Trace] /\ batch \in [Handler -> SUBSET Span]
      /\ late \in [Trace -> SUBSET Span] /\ lateBatch \in [Trace -> SUBSET Span]
      /\ waiting \in [Trace -> SUBSET Span] /\ ready \in [Trace -> SUBSET Span]
      /\ decided \in [Trace -> {"none", "keep", "drop"}]
      /\ cur.keep \in BOOLEAN /\ cur.ok \in BOOLEAN
      /\ Filed /\ InFlight /\ SettlesATrace
  BY ConfigAssumption DEF PlacesInv, TypeOK
<1>v. /\ \A s \in Span : fate[s] = "dropped" => decided[TraceOf[s]] = "drop"
      /\ \A s \in Span : fate[s] \in {"written", "lost"} /\ s \notin JustWritten => decided[TraceOf[s]] = "keep"
      /\ \A t \in Trace : late[t] # {} \/ lateBatch[t] # {} => decided[t] = "keep"
  BY Zenon DEF VerdictTellsFate
<1>1. ASSUME NEW b \in SUBSET Having("client"), AcceptTooLarge(b) PROVE VerdictTellsFate'
  BY <1>1, <1>t, <1>v, Zenon DEF AcceptTooLarge, VerdictTellsFate, Become, Having, JustWritten
<1>2. ASSUME NEW h \in Handler, NEW b \in SUBSET Having("client"), AcceptCall(h, b) PROVE VerdictTellsFate'
  BY <1>2, <1>t, <1>v, Zenon DEF AcceptCall, VerdictTellsFate, Become, Having, JustWritten
<1>3. ASSUME NEW h \in Handler, AcceptRefuse(h) PROVE VerdictTellsFate'
  BY <1>3, <1>t, <1>v DEF AcceptRefuse, VerdictTellsFate, Become, JustWritten
<1>4. ASSUME NEW h \in Handler, AcceptLocked(h) PROVE VerdictTellsFate'
  <2> DEFINE V(t) == Verdict(t, acceptNow[h])
             toDrop == {s \in batch[h] : /\ TraceOf[s] \notin judging /\ V(TraceOf[s]) = "drop"
                                         /\ OfTrace(batch[h], TraceOf[s]) # {}}
  <2>1. /\ decided' = decided /\ lateBatch' = lateBatch /\ JustWritten' = JustWritten
        /\ fate' = [s \in Span |-> IF s \in toDrop THEN "dropped" ELSE IF s \in batch[h] THEN "held" ELSE fate[s]]
        /\ late' = [t \in Trace |-> IF t \notin judging /\ V(t) = "keep" /\ OfTrace(batch[h], t) # {}
                                    THEN late[t] \cup OfTrace(batch[h], t) ELSE late[t]]
    BY <1>4 DEF AcceptLocked, JustWritten
  <2>2. \A t \in Trace : V(t) # "none" => V(t) = decided[t]
    BY DEF Verdict
  <2>3. \A s \in Span : s \in toDrop => decided[TraceOf[s]] = "drop"
    BY <1>t, <2>2
  <2>4. \A t \in Trace : late'[t] # {} \/ lateBatch'[t] # {} => decided'[t] = "keep"
    BY <1>v, <2>1, <2>2, Zenon
  <2> HIDE DEF toDrop
  <2>5. \A s \in Span : fate'[s] = "dropped" => decided'[TraceOf[s]] = "drop"
    BY <1>v, <2>1, <2>3, Zenon
  <2>6. \A s \in Span : fate'[s] \in {"written", "lost"} /\ s \notin JustWritten' => decided'[TraceOf[s]] = "keep"
    BY <1>v, <2>1, Zenon
  <2> QED
    BY <2>4, <2>5, <2>6 DEF VerdictTellsFate
<1>5. CASE SweepStart \/ FlushStart \/ Judge
  <2>1. JustWritten = {} /\ JustWritten' = {} /\ UNCHANGED <<fate, decided, late, lateBatch>>
    BY <1>5 DEF SweepStart, FlushStart, Judge, JustWritten
  <2> QED
    BY <1>v, <2>1, Zenon DEF VerdictTellsFate
<1>6. CASE Stop \/ Tick \/ UNCHANGED vars
  <2>1. JustWritten' = JustWritten /\ UNCHANGED <<fate, decided, late, lateBatch>>
    BY <1>6, Zenon DEF Stop, Tick, vars, JustWritten
  <2> QED
    BY <1>v, <2>1 DEF VerdictTellsFate
<1>7. ASSUME NEW t \in Trace, NEW keep \in BOOLEAN, NEW ok \in BOOLEAN, Decide(t, keep, ok) PROVE VerdictTellsFate'
  <2>1. /\ UNCHANGED <<decided, late, lateBatch>> /\ JustWritten = {}
        /\ JustWritten' = (IF ok THEN ready[t] ELSE {})
        /\ fate' = IF ok THEN Become(ready[t], "written") ELSE fate
    BY <1>7, Zenon DEF Decide, JustWritten
  <2>2. \A s \in Span : fate'[s] = IF ok /\ s \in ready[t] THEN "written" ELSE fate[s]
    BY <2>1 DEF Become
  <2> QED
    BY <1>v, <2>1, <2>2, Zenon DEF VerdictTellsFate
<1>8. CASE Settle
  <2> DEFINE t0 == cur.id
  <2>1. pc = "settle" /\ pc' = "decide" /\ t0 \in Trace /\ ready[t0] # {} /\ (cur.ok => cur.keep)
    BY <1>8, <1>t DEF Settle, SettlesATrace
  <2>2. decided[t0] = "none"
    BY <2>1, JudgedOnce
  <2>3. decided' = [decided EXCEPT ![t0] = IF cur.keep THEN "keep" ELSE "drop"]
    BY <1>8, NothingIsForgotten
  <2>4. \A t \in Trace : decided'[t] = IF t = t0 THEN (IF cur.keep THEN "keep" ELSE "drop") ELSE decided[t]
    BY <1>t, <2>1, <2>3
  <2>5. /\ lateBatch' = lateBatch
        /\ late' = IF cur.keep THEN [late EXCEPT ![t0] = @ \cup waiting[t0]] ELSE late
        /\ fate' = IF cur.ok THEN fate
                   ELSE IF cur.keep THEN Become(ready[t0], "lost")
                   ELSE Become(ready[t0] \cup waiting[t0], "dropped")
    BY <1>8 DEF Settle
  <2>6. JustWritten = (IF cur.ok THEN ready[t0] ELSE {}) /\ JustWritten' = {}
    BY <2>1 DEF JustWritten
  <2>7. \A s \in Span : s \in ready[t0] \cup waiting[t0] => TraceOf[s] = t0
    BY <1>t, <2>1, Zenon DEF Filed
  <2> HIDE DEF t0
  <2>8. ASSUME NEW t \in Trace, late'[t] # {} \/ lateBatch'[t] # {} PROVE decided'[t] = "keep"
    <3>1. CASE t = t0
      <4>1. late[t] = {} /\ lateBatch[t] = {}
        BY <1>v, <2>1, <2>2, <3>1
      <4>2. cur.keep
        BY <2>5, <2>8, <4>1
      <4> QED
        BY <2>4, <3>1, <4>2
    <3>2. CASE t # t0
      <4>1. late'[t] = late[t]
        BY <1>t, <2>5, <3>2
      <4> QED
        BY <1>v, <2>4, <2>5, <2>8, <3>2, <4>1, Zenon
    <3> QED
      BY <3>1, <3>2
  <2>9. ASSUME NEW s \in Span
        PROVE  /\ fate'[s] = "dropped" => decided'[TraceOf[s]] = "drop"
               /\ fate'[s] \in {"written", "lost"} => decided'[TraceOf[s]] = "keep"
    <3>0. TraceOf[s] \in Trace
      BY <1>t
    <3>1. CASE TraceOf[s] = t0
      <4>1. fate[s] # "dropped" /\ (fate[s] \in {"written", "lost"} => s \in JustWritten)
        BY <1>v, <2>2, <3>1
      <4>2. CASE cur.ok
        BY <2>1, <2>4, <2>5, <3>0, <3>1, <4>1, <4>2
      <4>3. CASE ~cur.ok
        <5>1. fate'[s] = IF cur.keep THEN IF s \in ready[t0] THEN "lost" ELSE fate[s]
                         ELSE IF s \in ready[t0] \cup waiting[t0] THEN "dropped" ELSE fate[s]
          BY <2>5, <4>3 DEF Become
        <5> QED
          BY <2>4, <2>6, <3>0, <3>1, <4>1, <4>3, <5>1, Zenon
      <4> QED
        BY <4>2, <4>3
    <3>2. CASE TraceOf[s] # t0
      <4>1. fate'[s] = fate[s] /\ s \notin JustWritten
        BY <2>5, <2>6, <2>7, <3>2 DEF Become
      <4> QED
        BY <1>v, <2>4, <3>0, <3>2, <4>1, Zenon
    <3> QED
      BY <3>1, <3>2
  <2> QED
    BY <2>8, <2>9 DEF VerdictTellsFate
<1>9. CASE Forget
  <2>1. decided' = decided
    BY <1>9, NothingIsForgotten
  <2>2. JustWritten = {} /\ JustWritten' = {} /\ UNCHANGED <<fate, late, lateBatch>>
    BY <1>9, Zenon DEF Forget, JustWritten
  <2> QED
    BY <1>v, <2>1, <2>2 DEF VerdictTellsFate
<1>10. CASE TakeLate
  <2>1. /\ JustWritten = {} /\ JustWritten' = {} /\ UNCHANGED <<fate, decided>>
        /\ lateBatch' = late /\ late' = NoSpans
    BY <1>10 DEF TakeLate, JustWritten
  <2> QED
    BY <1>v, <2>1 DEF VerdictTellsFate, NoSpans
<1>11. ASSUME NEW t \in Trace, NEW ok \in BOOLEAN, WriteLate(t, ok) PROVE VerdictTellsFate'
  <2>1. /\ JustWritten = {} /\ JustWritten' = {} /\ UNCHANGED <<decided, late>>
        /\ lateBatch' = [lateBatch EXCEPT ![t] = {}]
        /\ fate' = Become(lateBatch[t], IF ok THEN "written" ELSE "lost")
        /\ lateBatch[t] # {}
    BY <1>11 DEF WriteLate, JustWritten, LateRemaining
  <2>2. decided[t] = "keep" /\ \A s \in lateBatch[t] : TraceOf[s] = t
    BY <1>t, <1>v, <2>1, Zenon DEF Filed
  <2>3. \A s \in Span : /\ s \in lateBatch[t] => fate'[s] \in {"written", "lost"}
                        /\ s \notin lateBatch[t] => fate'[s] = fate[s]
    BY <2>1 DEF Become
  <2>4. \A u \in Trace : lateBatch'[u] # {} => lateBatch[u] # {}
    BY <1>t, <2>1
  <2>5. ASSUME NEW s \in Span, fate'[s] = "dropped" PROVE decided'[TraceOf[s]] = "drop"
    <3>1. s \notin lateBatch[t]
      BY <2>3, <2>5
    <3>2. fate[s] = "dropped"
      BY <2>3, <2>5, <3>1, Zenon
    <3> QED
      BY <1>v, <2>1, <3>2, Zenon DEF VerdictTellsFate
  <2>6. ASSUME NEW s \in Span, fate'[s] \in {"written", "lost"} PROVE decided'[TraceOf[s]] = "keep"
    <3>1. CASE s \in lateBatch[t]
      BY <2>1, <2>2, <3>1, Zenon
    <3>2. CASE s \notin lateBatch[t]
      BY <1>v, <2>1, <2>3, <2>6, <3>2, Zenon DEF VerdictTellsFate
    <3> QED
      BY <3>1, <3>2
  <2>7. \A u \in Trace : late'[u] # {} \/ lateBatch'[u] # {} => decided'[u] = "keep"
    BY <1>v, <2>1, <2>4, Zenon DEF VerdictTellsFate
  <2> QED
    BY <2>5, <2>6, <2>7 DEF VerdictTellsFate
<1>12. CASE SweepDone
  <2>1. JustWritten = {} /\ JustWritten' = {} /\ UNCHANGED <<fate, decided, late, lateBatch>>
    BY <1>12, Zenon DEF SweepDone, JustWritten
  <2> QED
    BY <1>v, <2>1 DEF VerdictTellsFate
<1> QED
  BY <1>1, <1>2, <1>3, <1>4, <1>5, <1>6, <1>7, <1>8, <1>9, <1>10, <1>11, <1>12
  DEF Next, Exports, Accepts, Run, Deciding, WritingLate

\* If no verdict is ever forgotten, no trace is half kept: a verdict binds the
\* spans that were judged, the ones that arrived meanwhile and the late ones.
THEOREM OneFatePerTraceAlways == Spec => []OneFatePerTrace
<1> DEFINE Bound == NeverForgets => VerdictTellsFate
<1>1. Init => Bound
  BY DEF Init, VerdictTellsFate, NoSpans
<1>2. PlacesInv /\ VerdictInv /\ Bound /\ [Next]_vars => Bound'
  <2> SUFFICES ASSUME PlacesInv, VerdictInv, Bound, [Next]_vars, NeverForgets PROVE VerdictTellsFate'
    BY DEF NeverForgets
  <2> QED
    BY FateStep
<1>3. PlacesInv /\ VerdictInv /\ Bound => OneFatePerTrace
  <2> SUFFICES ASSUME PlacesInv, VerdictInv, NeverForgets, VerdictTellsFate,
                      NEW s \in Span, NEW u \in Span, TraceOf[s] = TraceOf[u],
                      fate[s] \in {"written", "lost"}, fate[u] = "dropped"
               PROVE  FALSE
    BY DEF OneFatePerTrace, NeverForgets
  <2>1. decided[TraceOf[s]] = "drop"
    BY Zenon DEF VerdictTellsFate
  <2>2. s \in JustWritten
    BY <2>1, Zenon DEF VerdictTellsFate
  <2>3. cur.id \in Trace /\ s \in ready[cur.id] /\ TraceOf[s] = cur.id
    BY <2>2 DEF JustWritten, PlacesInv, SettlesATrace, Filed
  <2>4. decided[cur.id] = "none"
    BY <2>3, JudgedOnce
  <2> QED
    BY <2>1, <2>3, <2>4, Zenon
<1> HIDE DEF Bound
<1> QED
  BY <1>1, <1>2, <1>3, PlacesHold, VerdictsHold, PTL DEF Spec
=============================================================================
