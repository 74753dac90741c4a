------------------------------- MODULE Memory -------------------------------
(***************************************************************************)
(* The in-memory store of internal/storage: its entries, the four          *)
(* secondary indexes, eviction, and the searches Find answers from them.   *)
(*                                                                         *)
(* The four index maps are one relation between index keys and traces; a   *)
(* key says which map it belongs to.  Write holds Memory.mu until every    *)
(* span of its batch is inserted, so it runs from Write to the last Insert *)
(* without another operation between.  Times are positive, 0 is Go's zero  *)
(* time, and Unset a query's empty string.                                 *)
(***************************************************************************)
EXTENDS Integers, Sequences, FiniteSets

CONSTANTS
  Trace, SpanId, Service, Name,
  Offered,           \* the spans that may be written
  Queries,           \* the searches that may be made
  Retention,         \* 0 keeps everything
  MinuteLen,         \* how many clock values make a minute
  minuteIndexLimit,  \* in minutes
  DurationBits,      \* how many bits a time.Duration has: 63 without the sign
  DefaultLimit, MaxLimit,
  MaxBatch,          \* bound: spans in one Write
  MaxClock           \* bound: the last clock reading

Unset == "unset"

SpanRecord == [trace : Trace, id : SpanId, root : BOOLEAN, service : Service, name : Name,
               start : Nat, end : Nat]
Query == [service : Service \cup {Unset}, operation : Name \cup {Unset}, min : Int, max : Int,
          start : Nat, end : Nat, limit : Int]

ASSUME MemoryAssumption ==
  /\ IsFiniteSet(Trace) /\ Trace \subseteq Nat /\ Unset \notin Service \cup Name
  /\ Offered \subseteq SpanRecord /\ Queries \subseteq Query
  /\ Retention \in Nat /\ MinuteLen \in Nat \ {0} /\ minuteIndexLimit \in Nat
  /\ DurationBits \in Nat /\ DefaultLimit \in Nat /\ MaxLimit \in Nat /\ MaxBatch \in Nat /\ MaxClock \in Nat

VARIABLES
  closed,
  traces,   \* m.traces: the entry of each trace, NoEntry if it has none
  index,    \* byService, byOperation, byDuration and byMinute
  writing,  \* what is left of the batch a Write is inserting
  latest    \* history: for each stored trace the last copy written of each span

vars == <<closed, traces, index, writing, latest>>

NoEntry == [spans |-> << >>, bySpan |-> [i \in SpanId |-> 0], start |-> 0, end |-> 0, keys |-> {}]
NoCopy == [i \in SpanId |-> << >>]
Stored == {t \in Trace : traces[t].spans # << >>}

Init ==
  /\ closed = FALSE
  /\ traces = [t \in Trace |-> NoEntry]
  /\ index = {}
  /\ writing = << >>
  /\ latest = [t \in Trace |-> NoCopy]

(***************************************************************************)
(* Index keys.                                                             *)
(***************************************************************************)

\* bits.Len64 of a duration: how many powers of two it reaches.
durationBucket(d) == Cardinality({i \in 0..(DurationBits - 1) : 2^i <= d})
TopBucket == DurationBits + 1

Minute(time) == time \div MinuteLen

ServiceKey(v) == <<"service", v>>
OperationKey(v, n) == <<"operation", v, n>>
DurationKey(b) == <<"duration", b>>
MinuteKey(m) == <<"minute", m>>

Duration(s) == s.end - s.start

\* The index keys of one span.
KeysOf(s) == {ServiceKey(s.service), OperationKey(s.service, s.name),
              DurationKey(durationBucket(Duration(s))), MinuteKey(Minute(s.start))}

(***************************************************************************)
(* Write.                                                                  *)
(***************************************************************************)

\* The part of Span.Validate a span that came through ingest can still fail.
Valid(s) == s.start > 0 /\ s.end > 0 /\ s.end >= s.start

Elems(q) == {q[i] : i \in DOMAIN q}

\* A Write whose batch is invalid, or that finds the store closed, changes nothing.
Write(batch) ==
  /\ writing = << >>
  /\ \A s \in Elems(batch) : Valid(s)
  /\ ~closed
  /\ writing' = batch
  /\ UNCHANGED <<closed, traces, index, latest>>

\* Mutants of Inserted: a replaced span is appended, and bySpan is off by one.
InsertedTwice(e, s) ==
  [spans |-> Append(e.spans, s),
   bySpan |-> [e.bySpan EXCEPT ![s.id] = Len(e.spans) + 1],
   start |-> IF e.spans = << >> \/ s.start < e.start THEN s.start ELSE e.start,
   end |-> IF e.spans = << >> \/ s.end > e.end THEN s.end ELSE e.end,
   keys |-> e.keys \cup KeysOf(s)]
InsertedOffByOne(e, s) ==
  LET i == e.bySpan[s.id]
  IN [spans |-> IF i # 0 THEN [e.spans EXCEPT ![i] = s] ELSE Append(e.spans, s),
      bySpan |-> IF i # 0 THEN e.bySpan ELSE [e.bySpan EXCEPT ![s.id] = Len(e.spans) + 2],
      start |-> IF e.spans = << >> \/ s.start < e.start THEN s.start ELSE e.start,
      end |-> IF e.spans = << >> \/ s.end > e.end THEN s.end ELSE e.end,
      keys |-> e.keys \cup KeysOf(s)]

\* The entry e with span s: a span already stored is replaced, the bounds only
\* ever widen, and the keys only ever grow.
Inserted(e, s) ==
  LET i == e.bySpan[s.id]
  IN [spans |-> IF i # 0 THEN [e.spans EXCEPT ![i] = s] ELSE Append(e.spans, s),
      bySpan |-> IF i # 0 THEN e.bySpan ELSE [e.bySpan EXCEPT ![s.id] = Len(e.spans) + 1],
      start |-> IF e.spans = << >> \/ s.start < e.start THEN s.start ELSE e.start,
      end |-> IF e.spans = << >> \/ s.end > e.end THEN s.end ELSE e.end,
      keys |-> e.keys \cup KeysOf(s)]

\* insert, for the next span of the batch.
Insert ==
  /\ writing # << >>
  /\ LET s == Head(writing)
     IN /\ traces' = [traces EXCEPT ![s.trace] = Inserted(@, s)]
        /\ index' = index \cup {<<k, s.trace>> : k \in KeysOf(s)}
        /\ latest' = [latest EXCEPT ![s.trace] = [@ EXCEPT ![s.id] = <<s>>]]
  /\ writing' = Tail(writing)
  /\ UNCHANGED closed

(***************************************************************************)
(* EvictExpired and Close.                                                 *)
(***************************************************************************)

\* Mutant of Unindexed: a trace is taken out of the buckets of its current spans.
UnindexedNow(T) ==
  UNION {{<<k, t>> : k \in UNION {KeysOf(s) : s \in Elems(traces[t].spans)}} : t \in T}

\* What remove takes out of the indexes for the traces T.
Unindexed(T) == UNION {{<<k, t>> : k \in traces[t].keys} : t \in T}

\* EvictExpired; it read the clock at now, before it took the lock.  No other
\* operation reads the clock, so nothing is assumed of its readings.
EvictExpired(now) ==
  LET expired == {t \in Stored : traces[t].end < now - Retention}
  IN /\ writing = << >> /\ ~closed /\ Retention > 0
     /\ traces' = [t \in Trace |-> IF t \in expired THEN NoEntry ELSE traces[t]]
     /\ index' = index \ Unindexed(expired)
     /\ latest' = [t \in Trace |-> IF t \in expired THEN NoCopy ELSE latest[t]]
     /\ UNCHANGED <<closed, writing>>

\* Close drops the entries; the indexes stay, but nothing reads them any more.
Close ==
  /\ writing = << >> /\ ~closed
  /\ closed' = TRUE
  /\ traces' = [t \in Trace |-> NoEntry]
  /\ latest' = [t \in Trace |-> NoCopy]
  /\ UNCHANGED <<index, writing>>

Batches == UNION {[1..n -> Offered] : n \in 1..MaxBatch}

Next ==
  \/ \E b \in Batches : Write(b)
  \/ Insert
  \/ \E now \in 0..MaxClock : EvictExpired(now)
  \/ Close

Spec == Init /\ [][Next]_vars

(***************************************************************************)
(* Find.                                                                   *)
(***************************************************************************)

\* Query.Validate
Validate(q) ==
  /\ q.operation # Unset => q.service # Unset
  /\ q.min >= 0 /\ q.max >= 0
  /\ q.max > 0 => q.max >= q.min
  /\ q.start # 0 /\ q.end # 0 => q.end >= q.start
  /\ q.limit \in 0..MaxLimit

limit(q) == IF q.limit = 0 THEN DefaultLimit ELSE q.limit
hasSpanPredicate(q) == q.service # Unset \/ q.min > 0 \/ q.max > 0

matchesSpan(q, s) ==
  /\ q.service # Unset => s.service = q.service
  /\ q.operation # Unset => s.name = q.operation
  /\ Duration(s) >= q.min
  /\ q.max > 0 => Duration(s) <= q.max

overlaps(q, e) ==
  /\ q.start # 0 => e.end >= q.start
  /\ q.end # 0 => e.start <= q.end

\* Every condition of the query, on a stored trace.
Matches(q, e) ==
  /\ overlaps(q, e)
  /\ hasSpanPredicate(q) => \E i \in DOMAIN e.spans : matchesSpan(q, e.spans[i])

Under(K) == {t \in Trace : \E k \in K : <<k, t>> \in index}

\* Mutant of candidates: the window is not widened.
candidatesUnwidened(q) ==
  IF q.operation # Unset THEN Under({OperationKey(q.service, q.operation)})
  ELSE IF q.service # Unset THEN Under({ServiceKey(q.service)})
  ELSE IF q.start # 0 /\ q.end # 0 /\ Minute(q.end) - Minute(q.start) <= minuteIndexLimit
  THEN Under({MinuteKey(m) : m \in Minute(q.start)..Minute(q.end)})
  ELSE IF q.min > 0 THEN Under({DurationKey(b) : b \in durationBucket(q.min)..TopBucket})
  ELSE Stored

\* The traces Find looks at, from the most selective index the query can use.
candidates(q) ==
  IF q.operation # Unset THEN Under({OperationKey(q.service, q.operation)})
  ELSE IF q.service # Unset THEN Under({ServiceKey(q.service)})
  ELSE IF q.start # 0 /\ q.end # 0 /\ Minute(q.end) - Minute(q.start) <= minuteIndexLimit
  THEN Under({MinuteKey(m) : m \in (Minute(q.start) - minuteIndexLimit)..Minute(q.end)})
  ELSE IF q.min > 0 THEN Under({DurationKey(b) : b \in durationBucket(q.min)..TopBucket})
  ELSE Stored

Found(q) == {t \in candidates(q) \cap Stored : Matches(q, traces[t])}

\* The order Find sorts by: newest first, then by id.
Sooner(t, u) ==
  traces[t].start > traces[u].start \/ (traces[t].start = traces[u].start /\ t < u)

\* The traces Find returns, once the limit has cut off the oldest.
Find(q) == {t \in Found(q) : Cardinality({u \in Found(q) : Sooner(u, t)}) < limit(q)}

\* Mutant of summarise: any span may replace a root.
summariseAnyEarlier(q) ==
  LET head[n \in 0..Len(q)] ==
        IF n = 0 THEN 0
        ELSE IF q[n].root \/ head[n - 1] = 0 \/ q[n].start < q[head[n - 1]].start
        THEN n ELSE head[n - 1]
  IN head[Len(q)]

\* summarise: the position of the span that names the trace.
summarise(q) ==
  LET head[n \in 0..Len(q)] ==
        IF n = 0 THEN 0
        ELSE IF \/ q[n].root
                \/ /\ \A i \in 1..(n - 1) : ~q[i].root
                   /\ head[n - 1] = 0 \/ q[n].start < q[head[n - 1]].start
        THEN n ELSE head[n - 1]
  IN head[Len(q)]

(***************************************************************************)
(* Properties.                                                             *)
(***************************************************************************)

Key == ({"service"} \X Service) \cup ({"operation"} \X Service \X Name)
         \cup ({"duration"} \X Nat) \cup ({"minute"} \X Nat)
Entry == [spans : Seq(SpanRecord), bySpan : [SpanId -> Nat], start : Nat, end : Nat, keys : SUBSET Key]

\* The type of every variable; bySpan points into spans.
TypeOK ==
  /\ closed \in BOOLEAN
  /\ traces \in [Trace -> Entry]
  /\ \A t \in Trace, i \in SpanId : traces[t].bySpan[i] <= Len(traces[t].spans)
  /\ index \subseteq Key \X Trace
  /\ writing \in Seq(SpanRecord)
  /\ latest \in [Trace -> [SpanId -> Seq(SpanRecord)]]

\* The indexes hold a trace under exactly the keys its entry recorded, and those
\* include the keys of every span it has now: eviction leaves no id behind in
\* any bucket, however often spans have been replaced by copies with other keys.
IndexIsExact ==
  ~closed =>
    /\ index = UNION {{<<k, t>> : k \in traces[t].keys} : t \in Trace}
    /\ \A t \in Trace : \A i \in DOMAIN traces[t].spans : KeysOf(traces[t].spans[i]) \subseteq traces[t].keys

\* A stored trace has one copy of each span written to it, the latest one: a
\* retried batch replaces what it repeats.
OneCopyPerSpan ==
  \A t \in Trace :
    /\ Elems(traces[t].spans) = UNION {Elems(latest[t][i]) : i \in SpanId}
    /\ \A i, j \in DOMAIN traces[t].spans : i # j => traces[t].spans[i].id # traces[t].spans[j].id

\* Traces that fit in the stretch by which Find widens a time window.
Short(e) == Minute(e.end) - Minute(e.start) <= minuteIndexLimit

\* Whatever index a search uses, a trace that meets all of its conditions and
\* is no longer than a day is returned, unless as many matching traces as the
\* limit allows come before it.
FindIsExact ==
  ~closed => \A q \in Queries : Validate(q) =>
    \A t \in Stored : Short(traces[t]) /\ Matches(q, traces[t]) =>
      t \in Find(q) \/ Cardinality({u \in Found(q) : Sooner(u, t)}) >= limit(q)

\* A summary is named after a root span if the trace has one, and else after
\* one of its earliest spans.
SummaryIsNamedRight ==
  \A t \in Stored :
    LET q == traces[t].spans
        head == q[summarise(q)]
    IN head.root \/ \A i \in DOMAIN q : ~q[i].root /\ head.start <= q[i].start
=============================================================================
