# A TLA+ model of spandrel

spandrel accepts OpenTelemetry spans, holds each trace until it looks finished,
decides whether to keep it, and stores the traces it keeps. This directory
models the parts of it that keep state, checks them with TLC on small
instances, and proves the main invariants with TLAPS for every value of the
constants. `PROJECT.json` lists the runs, the mutants that show each property
can fail, the source lines every definition models, the hazards the properties
are aimed at, and the disagreements between code and documentation that the
models brought out.

## The system and its parts

```
 exports ──> ingest handlers ──> Sampler.Accept ─┐
  (HTTP, gRPC)  (many goroutines)                │ maps under Sampler.mu
                                                 ▼
              Sampler.Run (one goroutine): Sweep ... Sweep, Flush
                                                 │ kept traces, late spans
                                                 ▼
                      store.Write: Disk (segments, then Memory) or Memory
                                                 ▲
               evictLoop (one goroutine): EvictExpired every minute
```

| Part | Source | Modules | Status |
|---|---|---|---|
| ingest handlers | `internal/ingest` | `Ingest`, `IngestProofs` | modelled |
| OTLP translation | `internal/otlp/translate.go` | `Translate`, `IngestProofs` | modelled |
| span model | `internal/trace` | `Translate` (`Validate`), `Memory` | partly |
| tail sampler | `internal/sampler/sampler.go` | `Sampler`, `Sampling`, `SamplerProofs`, `DaemonProofs` | modelled |
| sampling policies | `internal/sampler/policy.go` | `Policy`, `WalkProofs` | modelled |
| trace assembly | `internal/assembly/assembly.go` | `Assembly`, `TreeWalk`, `AssemblyProofs`, `TreeProofs`, `WalkProofs` | modelled |
| self time, critical path | `internal/assembly/timing.go` | `OwnTime`, `Timing`, `AssemblyProofs`, `WalkProofs` | modelled |
| daemon lifecycle | `cmd/spandreld/main.go` | `Daemon` (extends `Sampler`), `DaemonProofs` | partly |
| disk store | `internal/storage/disk.go` | `Disk`, `Store`, `DiskProofs` | modelled |
| record codec | `internal/storage/codec.go` | `Codec` | modelled |
| memory store and search | `internal/storage/memory.go`, `storage.go` | `Memory`, `MemoryProofs` | modelled |

How the modules compose. `Daemon` extends `Sampler`: every step of the sampler
runs next to handlers and the shutdown. `Ingest` extends `Codec`, which extends
`Translate`: a request is translated, and what was accepted is encoded into a
segment and read back. `TreeWalk` and `OwnTime` extend `Assembly`, `Policy` extends
`TreeWalk` and `Timing` extends `OwnTime`: they read the tree `Build` returns.
`Sampler` implements `Sampling` and `Disk` implements `Store`, the two abstract
specifications of what a component promises.

What runs concurrently: one goroutine per export, the sampler's `Run`, the
eviction loop, and the goroutine that shuts down. They meet at `Sampler.mu`,
`Disk.mu` and `Memory.mu`. A step of a module is one critical section of such a
lock, or one piece of work outside it whose timing matters: a clock reading
before a lock is taken, a call of the writer, a file operation that can fail.

## Sampler

State: `pending`, `judging` and `waiting` (the keys and values of `s.judging`),
`decided`, `order`, `late`, `buckets` and the counters of `s.stats`, next to the
locals that live across a lock release: an `Accept`'s batch and clock reading,
`judge`'s slice `ready`, `decide`'s verdict `cur`, `writeLate`'s `lateBatch`.
`fate` and `charges` are history variables: what became of each span, and when
the rate limit granted a trace.

| Action | Code |
|---|---|
| `AcceptTooLarge`, `AcceptCall` | `Accept` up to the lock: the early return, the clock reading |
| `AcceptRefuse`, `AcceptLocked` | `Accept` under the lock |
| `SweepStart`, `FlushStart` | `Run`'s select, and `Sweep`'s clock reading |
| `Judge` | `judge` under the lock |
| `Decide` | `decide` up to its lock: verdict, `allow`, the write |
| `Settle` | `decide` under the lock, with `settle` and all its `forgetOldest` calls |
| `Forget` | `forget`: expired verdicts and refilled buckets |
| `TakeLate`, `WriteLate`, `SweepDone` | `writeLate` under the lock, each of its writes, the return |

Abstractions. A span is one delivered copy; a client that resends a span
delivers another. What the policies keep is a set `KeptBy` of span sets, and
`rootService` a function of the span set, so a verdict may depend on which spans
arrived in time. Tokens are whole units, `TokenUnit` to a trace, instead of
floats; rounding of the refill is not modelled. Writes succeed or fail freely.
The clock does not go back (Go's `time.Time` carries a monotonic reading).

`Sampling` is what the sampler promises: no clock, no maps, no locks. A batch is
taken whole, a trace is judged in one step with all the spans held of it, spans
that arrive later follow a remembered verdict or are held, and what was kept is
written or lost. `ImplementsSampling` maps a span of `Sampler` to its status by
the map it is in; the step of the abstract verdict is `Settle`, where the lock
is taken, although the policies ran and the trace was written before it.

## Assembly, TreeWalk, OwnTime, Timing and Policy

`Assembly` is `Build` as a state machine: `Collect` fills the nodes, `Link` takes
any node next because Go iterates a map in any order, `BreakCycles` alternates
between `mark` (one turn of its loop is a step, so a loop that did not end would
be seen) and cutting the next cycle, and `Finish` sets the placeholders' times
and sorts. `SortBy` is `slices.SortFunc` by rank: each node goes where as many
others are before it. A nil pointer dereference would be the end `"panic"`.
`Complete` is an operator on the finished tree, and so are `Walk` in `TreeWalk`
(the order of the visits), `SelfTime` in `OwnTime`, `CriticalPath` in `Timing`, and
the policies and `rootService` in `Policy`. Each is compared with a definition
that says what the result should be without the code's loops: the tree from the
parents the spans name, self time as the instants no child ran, the path as an
exact cover, the verdict from the spans.

A placeholder carries the earliest start of its children, so a trace whose
outermost spans are partly missing is charged to the earliest of them;
`ChargedToTheEarliest` states what holds of `rootService` in that case, which
its comment (`sampler.go:538-551`) does not go into.

Fairness: weak, of the next step of `Build`. It is sequential code that waits for
nothing, so it runs until it returns.

## Ingest, Translate and Codec

A request is a transport, a method, a media type, a content coding, whether its
body is intact and decodes, and resource blocks with spans. `Export` is a handler
from its first line to its answer: the refusals of `ServeHTTP` and `readBody` in
the order of the code, `Translate` with its rejections, the partial success, and
the sink's answers. The sink is the sampler's `Accept`, of which `buffered` is
kept; how much room a batch takes is free, because spans of dropped traces take
none. Exporter and network are external: a client resends after a retryable
answer or one that was lost (`MaxLost`), and not after another.

`Translate` keeps what can go wrong in a span: identifiers of the wrong length or
all zero, timestamps that wrap when they become an `int64` (`Width` bits for 64),
empty names, kinds and codes out of range, values of every kind. `Codec` writes
a span as bytes and reads it back with every check of the decoder (a reader gives
the set of decoders it leaves: one, or none once `err` is set); `Base` stands for
128 and strings are sequences of small numbers. A segment is cut at every
byte to see what a torn record does.

Fairness: weak, of each handler (it answers), each client (it sends, and reads
an answer that was not lost) and of the sampler's sweep while spans are buffered
(`Run`'s ticker).

## Daemon

Adds the shutdown to `Sampler`: exports arrive while it is serving, a handler
calls the sink and answers, `Shutdown` starts the drain, `StopSweeping` (serve
has returned) cancels `Run`'s context, `Exit` follows the flush. What
`http.Server.Shutdown` and gRPC's `GracefulStop` and `Stop` do is external:
a drain that succeeds leaves no request in a handler, one that times out leaves
handlers running, and these still reach `Accept`.

Fairness: weak for each handler, `Run`, `StopSweeping` and `Exit`, which are
goroutines with nothing to wait for when the action is enabled. Strong for time,
which passes whatever else happens, and for the start of the flush: when `Run`'s
ticker and its context are both ready Go's `select` picks at random, so the done
context is not passed over for ever. No fairness is assumed of exports or of the
shutdown itself. `LastArrival` ends the arrivals early enough for the bounded
clock to show what they lead to.

## Disk

Files are sequences of records, with `synced` as the length that is certain to
survive a crash; of the rest any prefix may survive, ending in part of a record.
A `Write` is a chain of steps under `Disk.mu` (`WriteStart`, `CloseSegment`,
`Repair`, `OpenSegment`, `AppendBatch`, `Sync`, `Rollback`, `Show`), each of
which works or fails; `EvictMemory` and `EvictSegments` are the two halves of
`EvictExpired`, which reads the clock between them; `Crash` and `Close` end the
process and `OpenDisk` replays. `StepBackSpec` also lets the wall clock be set
back, and `DamageSpec` lets a record at rest go bad.

`Store` is what a store promises its callers: the spans of a `Write` that
returned nil are served together until they leave the retention window and again
after every restart, and nothing is served that was not written. Spans of a write
that failed, or that a crash cut short, may come back with a restart.
`ImplementsStore` maps what the in-memory store serves to `served`; all the files
are hidden.

Assumed of the file system: truncating and deleting are durable when they
return, what a crash left behind stays, and a failed write leaves a prefix of
what was written. Assumed of the spans: none ended after it was written, by the
store's clock. Not modelled: errors of reading the directory, and failures of
`OpenDisk` other than a corrupt segment.

## Memory

The four index maps are one relation `index` between keys and traces, a key
saying which map it is of. `Write` validates and takes the lock, `Insert` is one
`insert`, `EvictExpired(now)` and `Close` are the other operations. `EvictExpired`
reads the clock before it takes the lock, and nothing is assumed of the reading.
`Find` and what it uses (`Validate`, `candidates`, `matchesSpan`, `overlaps`,
`limit`, the order, `summarise`) are operators on the state, checked for a fixed
set of queries in every state. `latest` is a history variable with the last copy
written of each span.

## Runs

Passing runs:

| Run | Instance | Shows |
|---|---|---|
| `sampler_buffer` | 4 spans, 2 traces, 2 handlers, buffer of 2, no verdict forgotten | `TypeOK`, `BufferedIsExact`, `HeldOnce`, `StatsAddUp`, `OneFatePerTrace`, `ImplementsSampling` |
| `sampler_verdicts` | 3 traces for 2 remembered verdicts, expiring after 1 clock value, burst 1 and one trace per clock value | `VerdictIsFollowed`, `OrderFindsVerdicts`, `NoStaleEntryBetweenSweeps`, `RateIsCapped`, `OldestVerdictGoesFirst` |
| `daemon_shutdown` | 3 spans, 2 handlers, drains that succeed | `NothingLeftBehind`, `EverySpanIsSettled`, `ShutdownCompletes` |
| `disk_durability` | 4 spans of which one is too large, 3 hours of 2 clock values, 2 faults, 1 restart | `TypeOK`, `AcknowledgedIsDurable`, `CrashIsNotCorruption`, `ImplementsStore` |
| `memory_index` | 2 traces, 6 spans of which one is sent in two versions, 59 queries | `TypeOK`, `IndexIsExact`, `OneCopyPerSpan`, `FindIsExact`, `SummaryIsNamedRight` |
| `assembly` | every parent relation of 3 and of 4 spans with 2 missing parents, resent spans, children at all times around their parent | `StrandedParentIsStranded`, `TreeIsDetermined`, `WalkVisitsAllOnce`, `CompleteIsOneTree`, `SelfTimeIsUncovered`, `PathCoversOnce`, `PathAgreesWithSelfTime`, `VerdictIsOfTheSpans`, `ChargedToTheEarliest`, `BuildReturns` |
| `ingest` | one span in every shape, 5 refused requests, 6 by 6 requests of two clients for a buffer of 2, one lost answer each | `SuccessMeansPassedOn`, `ReportNamesRejected`, `RetryDoesNotDuplicate`, `AcceptedIsReadBack`, `OnlyWholeSpansDecode`, `TornSegmentKeepsWholeRecords`, `ExportsEnd` |

Why the bounds are enough. The sampler's hazards are between one sweep and one
or two exports over the same trace: two handlers, a trace with three spans (one
to be judged, one to wait, one to come late) and a second trace that competes
for the buffer and for the verdict memory. Three traces are needed before a
stale entry, an old verdict and a new one are in `order` at once, and with a
token per clock value and a clock up to 3 their service's bucket is emptied,
refilled, deleted and made anew. A trace that is buffered again after its verdict
was forgotten is in `sampler_verdicts`; that the buffer count stays exact then
too is covered by the proof. A disk fault matters with the fault of its rollback,
so two; three hours give a sealed segment, a current one and one old enough to
delete. Two-value minutes with an index widened by one minute reach every
boundary of the window test. Four nodes make a loop with a tail, two loops, and a
loop under a missing parent; three children make two that overlap and one between
them. Timestamps of 3 bits have both signs and both boundaries, and a base of 4
gives varints of one, two and three bytes within the record limit.

Runs that end in a counterexample each check one statement the repository makes;
the quotations are in `PROJECT.json`:

| Run | Property | What happens |
|---|---|---|
| `sampler_awaiting` | `AwaitingWithinMaxSpans` | spans taken by a sweep and not yet decided are no longer counted |
| `daemon_drain_timeout` | `NothingLeftBehind` | a handler that outlasts the drain is accepted after the flush |
| `disk_damage` | `DamageIsNotSkipped` | a bad record inside the newest segment takes the good ones behind it along |
| `disk_failed_write` | `FailedStaysGone` | a failed write comes back if the process stops before the repair |
| `disk_clock_back` | `CrashIsNotCorruption` | after the clock went back a crash leaves a directory that is refused |

Four more consequences of the code are in the models without a property that
forbids them. Two exports that read the clock and take the sampler's lock in
opposite orders leave a trace with `last` before `first`. A segment whose closing
failed is closed again, and fails again, in every later write of another hour. A
trace shorter than an hour that was written across an hour boundary loses its
older segment while it is still served. A trace longer than the widening of the
time index can be missed by a search over a window, which is why `FindIsExact`
is about traces up to that length.

Deadlock is not checked: the clocks are bounded, a stopped daemon stays stopped,
and a store that refuses to open does nothing more.

## Proofs

Eight modules hold proofs. They are for every value of the constants that the
named assumptions allow: any sets of traces, spans, services, handlers and
clients, any configuration `New` accepts (`ConfigAssumption`), any policies and
bounds; for `Memory` any queries, retention, index width and limits
(`MemoryAssumption`); for `Disk` any retention, length of an hour, batch size and
number of faults and restarts (`DiskAssumption`); for `Assembly` any set of slices
of spans whose identifiers are not zero, which `Validate` sees to before `Build`
is called (`AssemblyAssumption`); for `Policy` any threshold and fraction
(`PolicyAssumption`); for `OwnTime` any such slices of spans that do not end before
they start, which `Validate` sees to as well (`OwnTimeAssumption`); for `Ingest` any requests of the protocol's types, any length
of identifiers, width of timestamps and limits (`IngestAssumption`). Sets of spans and traces are finite where they
are counted.

*Sampler, where the spans are* (`SamplerProofs`). `HeldOnce` says that an
accepted span is in exactly one place. Alone it is not inductive: moving a trace
from `pending` to `ready` keeps it only if the trace was in no other map, and
settling deletes `waiting` spans safely only if those belong to the trace being
settled. The inductive invariant `PlacesInv` adds

- `Filed`: each map has a span under its own trace;
- `JudgedApart`: `judging` is exactly the traces judge took and has not
  settled; these are not in `pending`, only these have waiting spans, and the
  sweep's local maps are empty outside the stretch where they are used;
- `InFlight`: the spans of an `Accept` in progress are that call's alone;
- `AllInOneMap`: `HeldOnce` without counting, with the spans that were written
  and not yet settled;
- `SettlesATrace`: `settle` runs for a trace that was taken.

From it follow `TypeCorrect`, `HeldOnceAlways` and, with one lemma per action on
how the cardinalities change, `BufferedIsExactAlways`. `StatsAddUpAlways` needs
`StatsInv` beside it: a trace is written before `settle` counts it, so the spans
just written are owed to `KeptSpans`.

*Sampler, its rate limit* (`SamplerProofs`). `RateIsCapped` is about every stretch
of time, so an invariant about the present bucket is not enough. `RateInv` says
that for every earlier moment, the grants since then and the tokens that are left
come to no more than the burst and what has been earned since; a deleted bucket
counts as a full one, which is sound because `forget` deletes it only when it is
full. `forget` works with a clock reading older than the one `allow` may have used
in between, and refilling by an old reading adds nothing. `RateIsCappedAlways`
follows.

*Sampler, its promise* (`SamplerProofs`). `SamplerImplementsSampling` shows that
every critical section is one step of `Sampling` or none. On top of `PlacesInv`
it needs that `decide`'s local verdict is what the policies and the rate limit
say of the spans `judge` took, and that with `Remember` 0 no verdict is remembered
(`VerdictOfPolicies`); `StatusByMap` reads the status of a span off the map it is
in.

*Sampler, its verdicts* (`DaemonProofs`). `forget` and `forgetOldest` look only at
the head of `order`, so `Queue` says what the queue is: each verdict has its
entry, no entry is younger than its trace's verdict, the entries are in the order
of their times and those of one trace differ. `ForgettingTakesTheHead` shows that
forgetting any number of entries leaves such a queue. The clock is read outside
the lock, so `VerdictInv` adds that no reading is of the future, that a trace with
a verdict is buffered or judged again only when the verdict is older than
`Remember` by every reading involved (`JudgedAgainLater`), and that a stale entry
is old enough for the `forget` of the sweep that made it stale
(`StaleOnlyInSweep`). From it: `VerdictIsFollowedAlways`,
`OrderFindsVerdictsAlways`, `NoStaleEntryAlways`, the action property
`OldestGoesFirstAlways`, and, where nothing is forgotten, that the verdict of a
trace tells the fate of its spans (`VerdictTellsFate`, `OneFatePerTraceAlways`).

*Daemon* (`DaemonProofs`). `DaemonRunsTheSampler`: each step of the daemon is a step
of `Sampler` or none, because the requests in handlers hold spans the sampler does
not have yet (`RequestsApart`). So all that is proved of the sampler holds of the
daemon, and `DaemonImplementsSampling` with it. `NothingLeftBehindAlways` assumes
that the drain does not time out; the run `daemon_drain_timeout` shows what happens
when it does. It rests on `Drained`: `Run` flushes only when no handler has a
request, so nothing is accepted after the last `judge`.

*Disk* (`DiskProofs`). `AcknowledgedIsDurable` depends on where the synced part
of each file ends, what `segSize` and `dirtySize` remember of it, and which file
may be torn. The inductive invariant `DiskInv` says

- `FilesOK`: only the active file (the open one, or the one a failed rollback
  left) goes on past its synced records; a file is torn at its end at most, and
  not within what is synced while the store is open; its spans ended by the end
  of its hour;
- `SegmentOK`: `segSize` and `dirtySize` are where the synced records end, the
  active file is the newest, and a file to be repaired is not open;
- `WriteOK`: what holds at each step of a `Write`, such as that the batch is in
  the file from `append` on, and that no file is newer than the hour `roll` read;
- `TornIsNewest`, `CutoffOK` and `Durable`: after a crash only the newest file
  is torn, the evictor's cutoff is not ahead of the clock's, and what was
  acknowledged or is served and is still fresh is among the synced records.

One lemma per action shows that it is kept. `DurableAlways`, `NeverRefused` and
the step simulation of `DiskImplementsStore` follow, and so does `DiskTypeCorrect`. The clock
must not go back and no record may be damaged; the counterexample runs show what
happens if they do.

*Memory* (`MemoryProofs`). Every entry satisfies `EntryOK`: `bySpan` is the
position of each span and 0 for the others, the spans are the last copies
written, and the recorded keys cover every span and the minute of the trace's
start. `InsertedOK` shows that `insert` keeps it in both of its cases, and
`MemoryInv` adds that `index` is exactly the recorded keys. `StoreTypeCorrect`,
`IndexIsExactAlways` and `OneCopyAlways` follow directly. `FindIsExactAlways` goes
through the cases of `candidates`: for an operation or a service by the keys of the matching span, for
a window because minutes are monotone (`MinutesInOrder`) and the trace is no
longer than the widening, for a duration because buckets are monotone and within
the array (`BucketsInOrder`). `SummaryIsNamedRightAlways` is about a loop: `Turns`
says that a function gives the loop's variable after each turn, and the least turn
at which it would be wrong is a contradiction.

*Ingest* (`IngestProofs`). `RetryDoesNotDuplicateAlways`, from `AttemptsInv`, which
ties what reached the sink to the phase a client is in and the answer it was sent.
What a client is told has two halves. That an answer of success reports what
`Translate` made of the client's own request, and that this was passed on, is the
invariant `ToldInv`. What `Translate` makes of a request is about its two nested
loops, for requests of any length. `Reads` says what they carry after any number
of spans: the translations of the spans taken and the indexes of the others, each
in its place, where a place is the number of such spans up to it (`Ranked`).
`ReadsOne` shows that a turn of the inner loop keeps it, `ReadsBlock` and
`ReadsRequest` that the loops do. `TakesAcceptable` shows that the spans taken are
the acceptable ones: a service name is never empty, an identifier is not all
zeros, and the order of the timestamps is that of the wrapped values. From these:
`SuccessMeansPassedOnAlways` and `ReportNamesRejectedAlways`.

*Assembly* (`AssemblyProofs`, `TreeProofs`). `BuildInv` carries the link structure
through the loops: what has been linked is reached from a root or is still
stranded, and `mark` reaches children with their parents. It gives
`StrandedParentIsStrandedAlways`. What `Build` returns needs more. `TreeInv` says

- `Shape`: the nodes, the slices and the links are those of the spans linked so
  far, but for the spans cut, and no slice repeats a node;
- `Untouched` and `LeadsBack`: a *round* is a set of spans whose parents are in
  the set; nothing marked or on the stack is in one, and the rest of `stranded`
  meets every one;
- `NoRounds` once `breakCycles` is done, and that each span cut is in `Cuts`, the
  earliest spans of the loops the spans name.

The walk up from a stranded node stays in the stranded, which are finite, so it
repeats, and what it goes round in is a least round (`LoopGoesRound`); that is a
loop of the links the spans name (`LoopIsLoop`), so the node cut is in `Cuts`, and
no round is left with it or with the node the walk started from. At the end there
are no rounds, so each loop has been cut, and cut once (`CutsAreAll`). `SortByLists`
shows that a slice sorted by rank lists the same nodes in order. From it:
`BuildNeverPanics`, `TreeIsDeterminedAlways` and, in `WalkProofs`,
`CompleteIsOneTreeAlways`.

*Walk* (`WalkProofs`). `walk` recurses over the children, so what
it visits is by induction on the tree. `DoneIsForest` shows that the finished tree
is a `Forest`: children and parents agree and no set of nodes is closed under
parent. In a forest, what holds of a node whenever it holds of its children holds
of all nodes (`FromTheLeaves`), and a function described by its values at the
children exists (`DescribedFromTheLeaves`), so the recursive definition of `Walk`
has a meaning (`WalkDownExists`). By that induction the walk from a node is a
*family*, the node and all below it in order (`WalkIsOfFamily`); the families of
two siblings, or of two roots, share no node (`FamiliesApart`), so their
concatenation repeats none (`InTurnInOrder`). With the roots in turn these are all
the nodes (`WalkOfForest`): `WalkVisitsAllOnceAlways`.

*Policies* (`WalkProofs`). Both theorems compare a function of the tree with one of
the spans, so they rest on what `TreeInv` says of the finished tree. `TopsSpan`:
each outermost span lies within a root, and each root, a placeholder too, starts
with one of them and ends with one. `WalkStarts`: the walk begins with the first
root and then its first child, so the first visited that arrived is one of the two
(`FirstToArrive`). `ChargedToTheEarliestAlways` follows. As the walk
visits all nodes, `KeepErrors` finds a failed span wherever it hangs
(`ErrorsAreFound`); `DurationIsOutermost` relates `Duration` to the outermost
spans, and `ChainAnswers` gives the answer of the first policy that has one, with
and without `KeepSlow` in the chain: `VerdictIsOfTheSpansAlways`.

*Self time* (`AssemblyProofs`, `WalkProofs`). `SelfTime` makes one pass over the children with a
cursor, which is right only because they are in the order of their starts. The
invariant of its loop (`Counted`) says that the children so far cover `busy`
instants of the span, all before the cursor, and that between the start of the
next child and the cursor nothing is left uncovered, since some child that started
earlier runs up to the cursor. So what the next child adds is what is left of it
after the cursor (`OneChild`), and the sum is the number of instants covered
(`BusyIsCovered`), with children that overlap, nest, outlast their parent or start
before it. `TreeIsDetermined` gives the order: `SelfTimeIsUncoveredAlways`.

*Critical path* (`AssemblyProofs`, `WalkProofs`). `criticalPath` recurses over the
children and appends to one slice, so a call is a function of its bounds and of the
path so far, and `DescribedFromTheLeaves` gives the recursion a meaning
(`PathWalkExists`). One lemma, `PathCovers`, says all that is proved of the path;
its steps are named for what they show. `LeadsTo(p, t, x)` is the invariant: the
segments of `p`, latest first, lead from `t` back to `x`, each within its span and
none to be merged with the next. `appendSegment` leads on (`AppendLeads`), a turn of
the loop does (`FollowLeads`), so a call does if the calls for the children do
(`CallLeads`), and from the leaves up they all do (`PathWalkLeads`). Reversed,
that is `PathCoversOnceAlways`. For what a path spends in a span itself, a call for
a child spends nothing in its parent (`ChildIsQuiet`, again because a forest has no
way round), and the loop has spent, from its cursor on, what is free of *all*
children, those it has yet to see included (`SpentSoFar`): the next child ends last
of those left, so between its end and the cursor none of them runs
(`FreeBetween`). The segments are apart, so their lengths add up to the number
of instants (`TimeCounts`), which is the self time: `PathAgreesWithSelfTimeAlways`.

Induction on the turns of a loop, the length of a walk or the height of a tree is
by least counterexample (`LeastExists`), stated for the set of turns or nodes a
fact holds of (`LoopInduction`, `FromTheLeaves`), as the provers cannot instantiate
the library's induction rules; that a recursive function has a value everywhere is
shown the same way (`LoopExists`).

Only model-checked:

- liveness under fairness (`EverySpanIsSettled`, `ShutdownCompletes`,
  `BuildReturns`, `ExportsEnd`), which is beyond the proof system used here; the
  safety part of `BuildReturns` is `BuildNeverPanics`;
- `AcceptedIsReadBack`, `OnlyWholeSpansDecode` and `TornSegmentKeepsWholeRecords`:
  they need what the readers of `Codec` do to every sequence of bytes, varints,
  strings and lists of attributes nested in each other. Each reader is a loop, and
  the argument would be the one used for `Translate`, once for each; it has not
  been carried out.

## Not modelled

- *Flags, server construction and `main`'s error messages* (`cmd/spandreld`):
  configuration without state. The eviction loop only calls `EvictExpired` once a
  minute; `Disk` and `Memory` let it happen at any time.
- *Protobuf, JSON, gzip, HTTP and gRPC servers*: external. A body decodes or it
  does not; encoding the response cannot fail for the messages the handlers
  build, so that path of `ServeHTTP` is left out.
- *Checksums of records*: `Codec` takes the checksum to match what was written,
  `Disk` has records that do not read back, torn or damaged.
- *Parsing, formatting and drawing of identifiers, accessors of `Value`*
  (`internal/trace`): pure functions of bytes without state, each a few lines.
- *`Recorder`* (`internal/ingest/sink.go`): a sink for tests.
- *The phase of a placeholder* (`Awaited` or `Lost`): a copy of an argument.
- *The counters `Refused`, `Kept`, `Dropped`, `Reasons` and `SealedByAge`*: nothing
  reads them but the log line.
- *Rounding of floats* in the token bucket, and directory errors of `OpenDisk`.
