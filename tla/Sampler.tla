------------------------------ MODULE Sampler ------------------------------
(***************************************************************************)
(* The tail sampler of internal/sampler: exports call Accept from many     *)
(* goroutines, one goroutine (Run) sweeps and finally flushes.  A step is  *)
(* one critical section of Sampler.mu, or one piece of work done outside   *)
(* it (a clock reading, a call of the writer).                             *)
(*                                                                         *)
(* A span is one delivered copy of a span: a client that resends a span    *)
(* already accepted delivers another element of Span.  What a span says is *)
(* abstracted to its trace (TraceOf) and to what the policies and the rate *)
(* limit read off the tree assembled from a set of spans (KeptBy,          *)
(* RootService).  Trace ids are numbers because the code orders them.      *)
(* Tokens are counted in units: one kept trace costs TokenUnit units.      *)
(* Of Stats, the counters of accepted spans are kept.  Refused, which      *)
(* grows with every retry, and the counters of traces and verdicts are     *)
(* only ever reported and are left out.                                    *)
(***************************************************************************)
EXTENDS Integers, Sequences, FiniteSets

CONSTANTS
  Trace, Span, TraceOf, Service, Handler,
  Quiet, MaxAge, MaxSpans, Remember, MaxDecisions,   \* sampler.Config
  ServiceRate, ServiceBurst, TokenUnit,              \* sampler.Config, in units
  KeptBy,       \* the sets of spans whose tree the policy chain keeps
  RootService,  \* the service rootService finds for a set of spans
  MaxClock      \* bound: the last clock value

ASSUME ConfigAssumption ==
  /\ IsFiniteSet(Span) /\ IsFiniteSet(Trace) /\ Trace \subseteq Nat
  /\ TraceOf \in [Span -> Trace]
  /\ Quiet \in Nat \ {0} /\ MaxAge \in Nat /\ MaxAge >= Quiet
  /\ MaxSpans \in Nat \ {0} /\ Remember \in Nat /\ MaxDecisions \in Nat
  /\ Remember > 0 => MaxDecisions > 0
  /\ ServiceRate \in Nat /\ ServiceBurst \in Nat /\ TokenUnit \in Nat \ {0}
  /\ ServiceRate > 0 => ServiceBurst > 0
  /\ KeptBy \subseteq SUBSET Span
  /\ RootService \in [SUBSET Span -> Service]
  /\ MaxClock \in Nat

VARIABLES
  clock,      \* Config.Now
  pending,    \* s.pending: the spans of each buffered trace, {} if it has no entry
  first,      \* pending.first of a trace buffered or being judged, else 0
  last,       \* pending.last of a buffered trace, else 0
  judging,    \* the keys of s.judging
  waiting,    \* the values of s.judging: the spans that wait for a verdict
  decided,    \* s.decided: "none", "keep" or "drop"
  decidedAt,  \* decision.at of a remembered verdict, else 0
  order,      \* s.order
  late,       \* s.late
  buckets,    \* s.buckets; live is FALSE for a service without one
  stats,      \* s.stats: Buffered, which Accept reads, and the counts of spans
  batch,      \* the spans an Accept in progress was called with, {} if none
  acceptNow,  \* the clock reading of that Accept, else 0
  pc,         \* where Run is
  stopping,   \* the context of Run is done
  flushing,   \* Run is in Flush, not in Sweep
  sweepNow,   \* the clock reading of that Sweep, else 0
  ready,      \* judge's local slice: the spans of the traces it took
  cur,        \* decide's locals between the write and the lock
  lateBatch,  \* writeLate's local map
  fate,       \* history: what has become of each span
  charges     \* history: the times at which allow granted a trace, by service

accepting == <<batch, acceptNow>>
tables == <<pending, first, last, judging, waiting, decided, decidedAt, order, late>>
sweeper == <<pc, flushing, sweepNow, ready, cur, lateBatch>>
vars == <<clock, tables, buckets, stats, accepting, stopping, sweeper, fate, charges>>

NoSpans == [t \in Trace |-> {}]
Idle == [id |-> 0, keep |-> FALSE, ok |-> FALSE]
NoBucket == [live |-> FALSE, tokens |-> 0, at |-> 0]
FullBucket(now) == [live |-> TRUE, tokens |-> ServiceBurst * TokenUnit, at |-> now]

All(f) == {s \in Span : s \in f[TraceOf[s]]}
OfTrace(S, t) == {s \in S : TraceOf[s] = t}
Become(S, what) == [s \in Span |-> IF s \in S THEN what ELSE fate[s]]
Having(what) == {s \in Span : fate[s] = what}

Init ==
  /\ clock = 0
  /\ pending = NoSpans /\ first = [t \in Trace |-> 0] /\ last = [t \in Trace |-> 0]
  /\ judging = {} /\ waiting = NoSpans
  /\ decided = [t \in Trace |-> "none"] /\ decidedAt = [t \in Trace |-> 0]
  /\ order = << >>
  /\ late = NoSpans
  /\ buckets = [v \in Service |-> NoBucket]
  /\ stats = [Accepted |-> 0, Buffered |-> 0, KeptSpans |-> 0, DroppedSpans |-> 0,
              Lost |-> 0, LateKept |-> 0, LateDropped |-> 0]
  /\ batch = [h \in Handler |-> {}] /\ acceptNow = [h \in Handler |-> 0]
  /\ pc = "idle" /\ stopping = FALSE /\ flushing = FALSE /\ sweepNow = 0
  /\ ready = NoSpans /\ cur = Idle /\ lateBatch = NoSpans
  /\ fate = [s \in Span |-> "client"]
  /\ charges = [v \in Service |-> << >>]

(***************************************************************************)
(* Accept.                                                                 *)
(***************************************************************************)

\* Mutants of Verdict: a verdict expires one clock value early, and no verdict
\* is ever looked up.
VerdictExpiresEarly(t, now) ==
  IF t \in judging \/ decided[t] = "none" \/ now - decidedAt[t] >= Remember - 1
  THEN "none" ELSE decided[t]
VerdictIgnored(t, now) == "none"

\* The verdict an Accept that read the clock at now sees.
Verdict(t, now) ==
  IF t \in judging \/ decided[t] = "none" \/ now - decidedAt[t] >= Remember
  THEN "none" ELSE decided[t]

\* The early return of a batch no retry could ever fit.
AcceptTooLarge(b) ==
  /\ Cardinality(b) > MaxSpans
  /\ fate' = Become(b, "rejected")
  /\ UNCHANGED <<clock, tables, buckets, stats, accepting, stopping, sweeper, charges>>

\* Accept reads the clock before it takes the lock.
AcceptCall(h, b) ==
  /\ batch[h] = {}
  /\ b # {} /\ Cardinality(b) <= MaxSpans
  /\ batch' = [batch EXCEPT ![h] = b]
  /\ acceptNow' = [acceptNow EXCEPT ![h] = clock]
  /\ fate' = Become(b, "export")
  /\ UNCHANGED <<clock, tables, buckets, stats, stopping, sweeper, charges>>

\* Mutant of Room: late spans of dropped traces are counted too.
RoomForAll(h) == batch[h]

\* The spans of a batch that take room in the buffer.
Room(h) == {s \in batch[h] : Verdict(TraceOf[s], acceptNow[h]) # "drop"}

AcceptReturn(h) ==
  /\ batch' = [batch EXCEPT ![h] = {}]
  /\ acceptNow' = [acceptNow EXCEPT ![h] = 0]

AcceptRefuse(h) ==
  /\ batch[h] # {}
  /\ stats.Buffered + Cardinality(Room(h)) > MaxSpans
  /\ fate' = Become(batch[h], "client")
  /\ AcceptReturn(h)
  /\ UNCHANGED <<clock, tables, buckets, stats, stopping, sweeper, charges>>

AcceptLocked(h) ==
  LET now == acceptNow[h]
      In(t) == OfTrace(batch[h], t)
      Goes(t, v) == t \notin judging /\ Verdict(t, now) = v /\ In(t) # {}
      toLate == {s \in batch[h] : Goes(TraceOf[s], "keep")}
      toDrop == {s \in batch[h] : Goes(TraceOf[s], "drop")}
  IN /\ batch[h] # {}
     /\ stats.Buffered + Cardinality(Room(h)) <= MaxSpans
     /\ waiting' = [t \in Trace |-> IF t \in judging THEN waiting[t] \cup In(t) ELSE waiting[t]]
     /\ late' = [t \in Trace |-> IF Goes(t, "keep") THEN late[t] \cup In(t) ELSE late[t]]
     /\ pending' = [t \in Trace |-> IF Goes(t, "none") THEN pending[t] \cup In(t) ELSE pending[t]]
     /\ first' = [t \in Trace |-> IF Goes(t, "none") /\ pending[t] = {} THEN now ELSE first[t]]
     /\ last' = [t \in Trace |-> IF Goes(t, "none") THEN now ELSE last[t]]
     /\ stats' = [stats EXCEPT !.Accepted = @ + Cardinality(batch[h]),
                               !.Buffered = @ + Cardinality(Room(h)),
                               !.LateKept = @ + Cardinality(toLate),
                               !.LateDropped = @ + Cardinality(toDrop)]
     /\ fate' = [s \in Span |-> IF s \in toDrop THEN "dropped"
                                ELSE IF s \in batch[h] THEN "held" ELSE fate[s]]
     /\ AcceptReturn(h)
     /\ UNCHANGED <<clock, judging, decided, decidedAt, order, buckets, stopping, sweeper, charges>>

(***************************************************************************)
(* Run, Sweep and Flush.                                                   *)
(***************************************************************************)

SweepStart ==
  /\ pc = "idle"
  /\ pc' = "judge" /\ flushing' = FALSE /\ sweepNow' = clock
  /\ UNCHANGED <<clock, tables, buckets, stats, accepting, stopping, ready, cur, lateBatch, fate, charges>>

FlushStart ==
  /\ pc = "idle" /\ stopping
  /\ pc' = "judge" /\ flushing' = TRUE /\ sweepNow' = 0
  /\ UNCHANGED <<clock, tables, buckets, stats, accepting, stopping, ready, cur, lateBatch, fate, charges>>

Stop ==
  /\ ~stopping
  /\ stopping' = TRUE
  /\ UNCHANGED <<clock, tables, buckets, stats, accepting, sweeper, fate, charges>>

\* Mutant of Due: a trace must be both quiet and old.
DueWhenBoth(t) ==
  /\ pending[t] # {}
  /\ flushing \/ (sweepNow - last[t] >= Quiet /\ sweepNow - first[t] >= MaxAge)

\* What the due functions of Sweep and Flush say of a buffered trace.
Due(t) ==
  /\ pending[t] # {}
  /\ \/ flushing
     \/ sweepNow - last[t] >= Quiet
     \/ sweepNow - first[t] >= MaxAge

\* Mutant of Judge: the traces taken are not marked as being judged.
JudgeUnmarked ==
  LET due == {t \in Trace : Due(t)}
      taken == {s \in All(pending) : TraceOf[s] \in due}
  IN /\ pc = "judge"
     /\ ready' = [t \in Trace |-> IF t \in due THEN pending[t] ELSE {}]
     /\ pending' = [t \in Trace |-> IF t \in due THEN {} ELSE pending[t]]
     /\ last' = [t \in Trace |-> IF t \in due THEN 0 ELSE last[t]]
     /\ stats' = [stats EXCEPT !.Buffered = @ - Cardinality(taken)]
     /\ pc' = "decide"
     /\ UNCHANGED <<clock, first, judging, waiting, decided, decidedAt, order, late, buckets, accepting,
                    stopping, flushing, sweepNow, cur, lateBatch, fate, charges>>

\* judge, while it holds the lock.
Judge ==
  LET due == {t \in Trace : Due(t)}
      taken == {s \in All(pending) : TraceOf[s] \in due}
  IN /\ pc = "judge"
     /\ ready' = [t \in Trace |-> IF t \in due THEN pending[t] ELSE {}]
     /\ pending' = [t \in Trace |-> IF t \in due THEN {} ELSE pending[t]]
     /\ last' = [t \in Trace |-> IF t \in due THEN 0 ELSE last[t]]
     /\ judging' = judging \cup due
     /\ waiting' = [t \in Trace |-> IF t \in due THEN {} ELSE waiting[t]]
     /\ stats' = [stats EXCEPT !.Buffered = @ - Cardinality(taken)]
     /\ pc' = "decide"
     /\ UNCHANGED <<clock, first, decided, decidedAt, order, late, buckets, accepting, stopping,
                    flushing, sweepNow, cur, lateBatch, fate, charges>>

\* bucket.refill
Refill(b, now) ==
  LET filled == b.tokens + ServiceRate * (now - b.at)
      full == ServiceBurst * TokenUnit
  IN IF now > b.at
     THEN [b EXCEPT !.tokens = IF filled > full THEN full ELSE filled, !.at = now]
     ELSE b

\* The bucket allow looks at: a new one starts full.
BucketNow(v, now) == IF buckets[v].live THEN Refill(buckets[v], now) ELSE FullBucket(now)

\* Mutant of Allow: any fraction of a token buys a trace.
AllowFraction(v, granted) ==
  LET b == BucketNow(v, clock)
  IN /\ granted = (b.tokens > 0)
     /\ buckets' = [buckets EXCEPT ![v] = IF granted THEN [b EXCEPT !.tokens = @ - TokenUnit] ELSE b]
     /\ charges' = IF granted THEN [charges EXCEPT ![v] = Append(@, clock)] ELSE charges

\* allow, and what it answers.
Allow(v, granted) ==
  LET b == BucketNow(v, clock)
  IN /\ granted = (b.tokens >= TokenUnit)
     /\ buckets' = [buckets EXCEPT ![v] = IF granted THEN [b EXCEPT !.tokens = @ - TokenUnit] ELSE b]
     /\ charges' = IF granted THEN [charges EXCEPT ![v] = Append(@, clock)] ELSE charges

Remaining == {t \in Trace : ready[t] # {}}

\* Whether a comes before b in the sorted slice: oldest first, then by id.
Before(a, b) == first[a] < first[b] \/ (first[a] = first[b] /\ a <= b)

\* decide, up to the lock: the verdict, the rate limit and the write.
Decide(t, keep, ok) ==
  /\ pc = "decide"
  /\ t \in Remaining /\ \A u \in Remaining : Before(t, u)
  /\ IF ready[t] \in KeptBy /\ ServiceRate > 0
     THEN Allow(RootService[ready[t]], keep)
     ELSE keep = (ready[t] \in KeptBy) /\ UNCHANGED <<buckets, charges>>
  /\ ok => keep
  /\ cur' = [id |-> t, keep |-> keep, ok |-> ok]
  /\ fate' = IF ok THEN Become(ready[t], "written") ELSE fate
  /\ pc' = "settle"
  /\ UNCHANGED <<clock, tables, stats, accepting, stopping, flushing, sweepNow, ready, lateBatch>>

\* Mutant of Forgotten: an entry takes the verdict with it even if the trace has
\* been judged again since.
ForgottenAnyway(q, at, k) == {t \in Trace : \E i \in 1..k : q[i].id = t}

\* The traces whose verdict goes when the first k entries of q are forgotten:
\* an entry of a trace judged again since does not match its verdict's time.
Forgotten(q, at, k) == {t \in Trace : \E i \in 1..k : q[i].id = t /\ q[i].at = at[t]}

\* forgetOldest, k times over.
ForgetOldest(q, d, at, k) ==
  LET gone == Forgotten(q, at, k)
  IN /\ order' = SubSeq(q, k + 1, Len(q))
     /\ decided' = [t \in Trace |-> IF t \in gone THEN "none" ELSE d[t]]
     /\ decidedAt' = [t \in Trace |-> IF t \in gone THEN 0 ELSE at[t]]

\* Mutant of Left: room is made before the new verdict is counted.
LeftBefore(q, d, at, k) ==
  {t \in Trace : d[t] # "none"} \ (Forgotten(q, at, k) \cup {q[Len(q)].id})

\* The verdicts left after forgetting the first k entries of q.
Left(q, d, at, k) == {t \in Trace : d[t] # "none"} \ Forgotten(q, at, k)

\* settle's second half: remember the verdict, then forget the oldest ones
\* until no more than MaxDecisions are left.
RememberVerdict(t, keep) ==
  LET d == [decided EXCEPT ![t] = IF keep THEN "keep" ELSE "drop"]
      at == [decidedAt EXCEPT ![t] = clock]
      q == Append(order, [id |-> t, at |-> clock])
      Fits(k) == Cardinality(Left(q, d, at, k)) <= MaxDecisions
  IN \E k \in 0..Len(q) :
       /\ Fits(k) /\ \A j \in 0..(k - 1) : ~Fits(j)
       /\ ForgetOldest(q, d, at, k)

\* decide, once it holds the lock again, with settle.
Settle ==
  LET t == cur.id
      n == Cardinality(ready[t])
      w == Cardinality(waiting[t])
  IN /\ pc = "settle"
     /\ judging' = judging \ {t}
     /\ waiting' = [waiting EXCEPT ![t] = {}]
     /\ late' = IF cur.keep THEN [late EXCEPT ![t] = @ \cup waiting[t]] ELSE late
     /\ IF Remember > 0 THEN RememberVerdict(t, cur.keep)
                        ELSE UNCHANGED <<order, decided, decidedAt>>
     /\ stats' = IF cur.keep
                 THEN [stats EXCEPT !.LateKept = @ + w,
                                    !.KeptSpans = IF cur.ok THEN @ + n ELSE @,
                                    !.Lost = IF cur.ok THEN @ ELSE @ + n]
                 ELSE [stats EXCEPT !.Buffered = @ - w,
                                    !.LateDropped = @ + w,
                                    !.DroppedSpans = @ + n]
     /\ fate' = IF cur.ok THEN fate
                ELSE IF cur.keep THEN Become(ready[t], "lost")
                ELSE Become(ready[t] \cup waiting[t], "dropped")
     /\ first' = [first EXCEPT ![t] = 0]
     /\ ready' = [ready EXCEPT ![t] = {}]
     /\ cur' = Idle
     /\ pc' = "decide"
     /\ UNCHANGED <<clock, pending, last, buckets, accepting, stopping, flushing, sweepNow, lateBatch, charges>>

\* Mutant of FullAgain: one trace short of the burst is taken for all of it.
FullButOne(b) == b.tokens >= (ServiceBurst - 1) * TokenUnit

\* Whether a new bucket would be no better for the service than this one.
FullAgain(b) == b.tokens >= ServiceBurst * TokenUnit

\* forget: the entries older than Remember by the clock Sweep read when it
\* began, and the buckets of services that have their full allowance back.
Forget ==
  /\ pc = "decide" /\ Remaining = {} /\ ~flushing
  /\ \E k \in 0..Len(order) :
       /\ \A i \in 1..k : sweepNow - order[i].at >= Remember
       /\ k < Len(order) => sweepNow - order[k + 1].at < Remember
       /\ ForgetOldest(order, decided, decidedAt, k)
  /\ buckets' = [v \in Service |->
                   LET b == Refill(buckets[v], sweepNow)
                   IN IF ~b.live \/ FullAgain(b) THEN NoBucket ELSE b]
  /\ pc' = "late"
  /\ UNCHANGED <<clock, pending, first, last, judging, waiting, late, stats, accepting, stopping,
                 flushing, sweepNow, ready, cur, lateBatch, fate, charges>>

\* Mutant of TakeLate: the map is replaced before it is taken.
TakeLateSwapped ==
  /\ pc = "late" \/ (pc = "decide" /\ Remaining = {} /\ flushing)
  /\ lateBatch' = NoSpans /\ late' = NoSpans
  /\ stats' = [stats EXCEPT !.Buffered = @ - Cardinality(All(late))]
  /\ pc' = "writeLate"
  /\ UNCHANGED <<clock, pending, first, last, judging, waiting, decided, decidedAt, order, buckets,
                 accepting, stopping, flushing, sweepNow, ready, cur, fate, charges>>

\* writeLate, while it holds the lock.
TakeLate ==
  /\ pc = "late" \/ (pc = "decide" /\ Remaining = {} /\ flushing)
  /\ lateBatch' = late /\ late' = NoSpans
  /\ stats' = [stats EXCEPT !.Buffered = @ - Cardinality(All(late))]
  /\ pc' = "writeLate"
  /\ UNCHANGED <<clock, pending, first, last, judging, waiting, decided, decidedAt, order, buckets,
                 accepting, stopping, flushing, sweepNow, ready, cur, fate, charges>>

LateRemaining == {t \in Trace : lateBatch[t] # {}}

\* Mutant of WriteLate: a failed write of late spans is not counted.
WriteLateUncounted(t, ok) ==
  /\ pc = "writeLate"
  /\ t \in LateRemaining /\ \A u \in LateRemaining : t <= u
  /\ lateBatch' = [lateBatch EXCEPT ![t] = {}]
  /\ fate' = Become(lateBatch[t], IF ok THEN "written" ELSE "lost")
  /\ UNCHANGED <<clock, tables, buckets, stats, accepting, stopping, pc, flushing, sweepNow, ready, cur, charges>>

\* One write of writeLate; a failure is counted under the lock.
WriteLate(t, ok) ==
  /\ pc = "writeLate"
  /\ t \in LateRemaining /\ \A u \in LateRemaining : t <= u
  /\ lateBatch' = [lateBatch EXCEPT ![t] = {}]
  /\ fate' = Become(lateBatch[t], IF ok THEN "written" ELSE "lost")
  /\ stats' = [stats EXCEPT !.Lost = IF ok THEN @ ELSE @ + Cardinality(lateBatch[t])]
  /\ UNCHANGED <<clock, tables, buckets, accepting, stopping, pc, flushing, sweepNow, ready, cur, charges>>

\* Mutant of SweepDone: Run does not return after Flush.
SweepDoneAlways ==
  /\ pc = "writeLate" /\ LateRemaining = {}
  /\ pc' = "idle" /\ flushing' = FALSE /\ sweepNow' = 0
  /\ UNCHANGED <<clock, tables, buckets, stats, accepting, stopping, ready, cur, lateBatch, fate, charges>>

\* Sweep returns to Run's loop; after Flush, Run returns.
SweepDone ==
  /\ pc = "writeLate" /\ LateRemaining = {}
  /\ pc' = IF flushing THEN "stopped" ELSE "idle"
  /\ flushing' = FALSE /\ sweepNow' = 0
  /\ UNCHANGED <<clock, tables, buckets, stats, accepting, stopping, ready, cur, lateBatch, fate, charges>>

Tick ==
  /\ clock < MaxClock
  /\ clock' = clock + 1
  /\ UNCHANGED <<tables, buckets, stats, accepting, stopping, sweeper, fate, charges>>

Exports == \E b \in SUBSET Having("client") : AcceptTooLarge(b) \/ \E h \in Handler : AcceptCall(h, b)
Accepts == \E h \in Handler : AcceptRefuse(h) \/ AcceptLocked(h)
Deciding == \E t \in Trace, keep, ok \in BOOLEAN : Decide(t, keep, ok)
WritingLate == \E t \in Trace, ok \in BOOLEAN : WriteLate(t, ok)
Run == \/ SweepStart \/ FlushStart \/ Judge \/ Deciding \/ Settle
       \/ Forget \/ TakeLate \/ WritingLate \/ SweepDone

Next == Exports \/ Accepts \/ Run \/ Stop \/ Tick

Spec == Init /\ [][Next]_vars

(***************************************************************************)
(* Properties.                                                             *)
(***************************************************************************)

Fates == {"client", "export", "rejected", "held", "written", "dropped", "lost"}
Counters == [Accepted : Int, Buffered : Int, KeptSpans : Int, DroppedSpans : Int, Lost : Int,
             LateKept : Int, LateDropped : Int]

\* The type of every variable.
TypeOK ==
  /\ clock \in 0..MaxClock /\ sweepNow \in 0..MaxClock
  /\ pending \in [Trace -> SUBSET Span] /\ ready \in [Trace -> SUBSET Span]
  /\ waiting \in [Trace -> SUBSET Span]
  /\ late \in [Trace -> SUBSET Span] /\ lateBatch \in [Trace -> SUBSET Span]
  /\ first \in [Trace -> 0..MaxClock] /\ last \in [Trace -> 0..MaxClock]
  /\ judging \in SUBSET Trace
  /\ decided \in [Trace -> {"none", "keep", "drop"}]
  /\ decidedAt \in [Trace -> 0..MaxClock]
  /\ order \in Seq([id : Trace, at : 0..MaxClock])
  /\ buckets \in [Service -> [live : BOOLEAN, tokens : 0..(ServiceBurst * TokenUnit), at : 0..MaxClock]]
  /\ stats \in Counters
  /\ batch \in [Handler -> SUBSET Span] /\ acceptNow \in [Handler -> 0..MaxClock]
  /\ pc \in {"idle", "judge", "decide", "settle", "late", "writeLate", "stopped"}
  /\ stopping \in BOOLEAN /\ flushing \in BOOLEAN
  /\ cur \in [id : Trace \cup {0}, keep : BOOLEAN, ok : BOOLEAN]
  /\ fate \in [Span -> Fates]
  /\ charges \in [Service -> Seq(0..MaxClock)]

\* Stats.Buffered, which decides whether Accept refuses a batch, is exactly
\* the number of spans waiting to be judged, waiting on a verdict or queued as
\* late, and is never more than MaxSpans.  Accept, judge, settle and writeLate
\* each adjust it in a critical section of their own.
BufferedIsExact ==
  /\ stats.Buffered = Cardinality(All(pending)) + Cardinality(All(waiting)) + Cardinality(All(late))
  /\ stats.Buffered <= MaxSpans

\* The maps that hold a span.
Copies(s) == Cardinality({i \in 1..5 : s \in <<pending, ready, waiting, late, lateBatch>>[i][TraceOf[s]]})

\* The spans decide has written and not yet settled.
JustWritten == IF pc = "settle" /\ cur.ok THEN ready[cur.id] ELSE {}

\* A span that was accepted and is neither written, dropped nor lost is in
\* exactly one of the sampler's maps, and no other span is in any: whatever
\* the order of Accept and the sweep, nothing leaks and nothing is judged or
\* written twice.
HeldOnce ==
  \A s \in Span : Copies(s) = IF fate[s] = "held" \/ s \in JustWritten THEN 1 ELSE 0

\* The counters the daemon logs tell where every accepted span went.
StatsAddUp ==
  /\ stats.Accepted = Cardinality(Having("held") \cup Having("written") \cup Having("dropped") \cup Having("lost"))
  /\ stats.DroppedSpans + stats.LateDropped = Cardinality(Having("dropped"))
  /\ stats.Lost = Cardinality(Having("lost"))
  /\ stats.KeptSpans <= Cardinality(Having("written"))

\* A span follows the verdict of its trace for as long as the verdict is
\* remembered: a trace is buffered anew only if its verdict was older than
\* Remember when the first of the new spans arrived.
VerdictIsFollowed ==
  \A t \in Trace : pending[t] # {} /\ decided[t] # "none" => first[t] - decidedAt[t] >= Remember

\* The queue that forget and forgetOldest read finds every verdict: each one
\* has its entry, the entries are in the order of their times, and no more
\* than MaxDecisions verdicts are remembered.  So settle's loop never runs out
\* of entries.
OrderFindsVerdicts ==
  /\ \A t \in Trace : decided[t] # "none" =>
        \E i \in DOMAIN order : order[i] = [id |-> t, at |-> decidedAt[t]]
  /\ \A i, j \in DOMAIN order : i < j => order[i].at <= order[j].at
  /\ Cardinality({t \in Trace : decided[t] # "none"}) <= MaxDecisions

\* Between sweeps the queue holds nothing but the verdicts remembered, so it is
\* as bounded as they are: an entry left behind by a trace judged again is gone
\* by the end of the sweep that judged it.
NoStaleEntryBetweenSweeps ==
  pc = "idle" => Len(order) = Cardinality({t \in Trace : decided[t] # "none"})

\* A verdict is never forgotten while an older one is remembered.
OldestVerdictGoesFirst ==
  [][\A t, u \in Trace : decided[t] # "none" /\ decided'[t] = "none" /\ decided'[u] # "none"
        => decidedAt[t] <= decidedAt'[u]]_vars

\* If no verdict is ever forgotten, one verdict rules a whole trace: no trace
\* has one span written, or lost on its way to the writer, and another dropped.
OneFatePerTrace ==
  Remember > MaxClock /\ MaxDecisions >= Cardinality(Trace) =>
    \A s, u \in Span : TraceOf[s] = TraceOf[u] /\ fate[s] \in {"written", "lost"} => fate[u] # "dropped"

\* Over any stretch of time a service is granted no more traces than its burst
\* and what refills in that time, although forget deletes buckets using a clock
\* reading older than the one allow last refilled them with.
RateIsCapped ==
  \A v \in Service : \A i, j \in DOMAIN charges[v] :
    i <= j => (j - i + 1) * TokenUnit <=
                ServiceBurst * TokenUnit + ServiceRate * (charges[v][j] - charges[v][i])

\* The spans whose trace has no verdict yet.
AwaitingVerdict == All(pending) \cup All(waiting) \cup {s \in All(ready) : TraceOf[s] # cur.id}

\* No more than MaxSpans spans are held waiting for a verdict, as the flag
\* -sample-buffer says.
AwaitingWithinMaxSpans == Cardinality(AwaitingVerdict) <= MaxSpans

\* The abstract sampler's view of a span: one whose trace is being judged is
\* held until settle, and a late one that has not been written is kept.
Status == [s \in Span |->
  IF fate[s] = "export" THEN "client"
  ELSE IF s \in JustWritten THEN "held"
  ELSE IF fate[s] = "held" /\ s \in late[TraceOf[s]] \cup lateBatch[TraceOf[s]] THEN "kept"
  ELSE fate[s]]

Promise == INSTANCE Sampling WITH
  status <- Status, verdict <- decided, RateLimited <- ServiceRate > 0,
  TooLarge <- {b \in SUBSET Span : Cardinality(b) > MaxSpans}

\* The sampler keeps the promise of module Sampling: although judge, decide,
\* settle and writeLate let go of the lock between their steps and exports
\* arrive in each gap, every trace is judged as if in one step, with everything
\* held of it, and every span that follows goes the way of its verdict.
ImplementsSampling == Promise!Spec
=============================================================================
