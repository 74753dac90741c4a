--------------------------- MODULE SamplerProofs ---------------------------
(***************************************************************************)
(* Proofs about Sampler, for any configuration New accepts, any number of  *)
(* traces, spans, services and handlers, and any bound on the clock: where *)
(* the spans are, Stats, the rate limit, and that the sampler implements   *)
(* Sampling.                                                               *)
(***************************************************************************)
EXTENDS Sampler, TLAPS, FiniteSetTheorems

(***************************************************************************)
(* Facts about sequences.  The solvers know them; they are lemmas so that  *)
(* a leaf has them without the rest of a library of theorems in scope,     *)
(* which would slow every step of the proofs below.                        *)
(***************************************************************************)

\* The elements of a sequence over S are in S.
LEMMA SeqElement == ASSUME NEW S, NEW s \in Seq(S), NEW n \in 1..Len(s) PROVE s[n] \in S
  OBVIOUS

\* The empty sequence is the only one without elements.
LEMMA SeqEmpty ==
  ASSUME NEW S
  PROVE  << >> \in Seq(S) /\ Len(<< >>) = 0 /\ \A s \in Seq(S) : s # << >> => Len(s) \in Nat \ {0}
  OBVIOUS

\* A sequence is a function on the numbers up to its length.
LEMMA SeqLen ==
  ASSUME NEW S, NEW s \in Seq(S)
  PROVE  Len(s) \in Nat /\ DOMAIN s = 1..Len(s) /\ s \in [1..Len(s) -> S]
  OBVIOUS

\* The elements of a subsequence, by position.
LEMMA SeqSub ==
  ASSUME NEW S, NEW s, NEW m \in Int, NEW n \in Int, \A i \in m..n : s[i] \in S
  PROVE  /\ SubSeq(s, m, n) \in Seq(S) /\ Len(SubSeq(s, m, n)) = IF m <= n THEN n - m + 1 ELSE 0
         /\ \A i \in 1..(n - m + 1) : SubSeq(s, m, n)[i] = s[m + i - 1]
  OBVIOUS

\* Append keeps what is there and puts its element at the end.
LEMMA SeqAppend ==
  ASSUME NEW S, NEW s \in Seq(S), NEW x \in S
  PROVE  /\ Append(s, x) \in Seq(S) /\ Len(Append(s, x)) = Len(s) + 1
         /\ Append(s, x)[Len(s) + 1] = x /\ \A i \in 1..Len(s) : Append(s, x)[i] = s[i]
  OBVIOUS

(***************************************************************************)
(* Type correctness.                                                       *)
(***************************************************************************)

\* settle is only ever run for a trace judge took out of pending, and only a
\* kept trace was written.
SettlesATrace == pc = "settle" => cur.id \in Trace /\ ready[cur.id] # {} /\ (cur.ok => cur.keep)

\* The cap at the burst keeps a bucket's tokens in range: bucket.refill never
\* makes them negative and never takes them past the burst.
LEMMA RefillType ==
  ASSUME NEW b \in [live : BOOLEAN, tokens : 0..(ServiceBurst * TokenUnit), at : 0..MaxClock],
         NEW now \in 0..MaxClock
  PROVE  Refill(b, now) \in [live : BOOLEAN, tokens : 0..(ServiceBurst * TokenUnit), at : 0..MaxClock]
<1> DEFINE full == ServiceBurst * TokenUnit
           earned == ServiceRate * (now - b.at)
<1>1. full \in Nat
  BY ConfigAssumption
<1>2. CASE now > b.at
  <2>1. now - b.at \in Nat /\ ServiceRate \in Nat
    BY <1>2, ConfigAssumption
  <2>2. earned \in Nat
    BY <2>1
  <2> HIDE DEF full, earned
  <2>3. (IF b.tokens + earned > full THEN full ELSE b.tokens + earned) \in 0..full
    BY <1>1, <2>2 DEF full
  <2> QED
    BY <1>2, <2>3, Zenon DEF Refill, full, earned
<1>3. CASE ~(now > b.at)
  BY <1>3 DEF Refill
<1> QED
  BY <1>2, <1>3

\* The initial state has the declared types.
LEMMA TypeInit == Init => TypeOK /\ SettlesATrace
<1> SUFFICES ASSUME Init PROVE TypeOK /\ SettlesATrace
  OBVIOUS
<1>1. 0 \in 0..MaxClock /\ 0 \in 0..(ServiceBurst * TokenUnit)
  BY ConfigAssumption
<1>2. buckets \in [Service -> [live : BOOLEAN, tokens : 0..(ServiceBurst * TokenUnit), at : 0..MaxClock]]
  BY <1>1 DEF Init, NoBucket
<1>3. stats \in Counters
  BY DEF Init, Counters
<1>4. order \in Seq([id : Trace, at : 0..MaxClock]) /\ charges \in [Service -> Seq(0..MaxClock)]
  BY DEF Init
<1>5. cur \in [id : Trace \cup {0}, keep : BOOLEAN, ok : BOOLEAN]
  BY DEF Init, Idle
<1>6. fate \in [Span -> Fates] /\ decided \in [Trace -> {"none", "keep", "drop"}]
  BY DEF Init, Fates
<1>7. SettlesATrace
  BY DEF Init, SettlesATrace
<1> QED
  BY <1>1, <1>2, <1>3, <1>4, <1>5, <1>6, <1>7, Zenon DEF Init, TypeOK, NoSpans

\* Every set of spans is finite, so the counters are numbers.
LEMMA SpansAreCounted == \A S \in SUBSET Span : IsFiniteSet(S) /\ Cardinality(S) \in Nat
BY ConfigAssumption, FS_Subset, FS_CardinalityType

\* Adding to the counters keeps them numbers.
LEMMA CountersType ==
  ASSUME NEW s \in Counters, NEW a \in Int, NEW b \in Int, NEW c \in Int, NEW d \in Int
  PROVE  /\ [s EXCEPT !.Accepted = @ + a, !.Buffered = @ + b, !.LateKept = @ + c, !.LateDropped = @ + d] \in Counters
         /\ [s EXCEPT !.Buffered = @ - a] \in Counters
         /\ [s EXCEPT !.Buffered = @ - a, !.LateDropped = @ + b, !.DroppedSpans = @ + c] \in Counters
         /\ \A i \in BOOLEAN :
              [s EXCEPT !.LateKept = @ + a, !.KeptSpans = IF i THEN @ + b ELSE @, !.Lost = IF i THEN @ ELSE @ + b] \in Counters
         /\ \A i \in BOOLEAN : [s EXCEPT !.Lost = IF i THEN @ ELSE @ + a] \in Counters
<1>1. [s EXCEPT !.Accepted = @ + a, !.Buffered = @ + b, !.LateKept = @ + c, !.LateDropped = @ + d] \in Counters
  <2> DEFINE s1 == [s EXCEPT !.Accepted = @ + a]
             s2 == [s1 EXCEPT !.Buffered = @ + b]
             s3 == [s2 EXCEPT !.LateKept = @ + c]
             s4 == [s3 EXCEPT !.LateDropped = @ + d]
  <2>1. s1 \in Counters
    BY DEF Counters
  <2> HIDE DEF s1
  <2>2. s2 \in Counters
    BY <2>1 DEF Counters
  <2> HIDE DEF s2
  <2>3. s3 \in Counters
    BY <2>2 DEF Counters
  <2> HIDE DEF s3
  <2>4. s4 \in Counters
    BY <2>3 DEF Counters
  <2> QED
    BY <2>4, Zenon DEF s1, s2, s3, s4
<1>2. [s EXCEPT !.Buffered = @ - a] \in Counters
  BY DEF Counters
<1>3. [s EXCEPT !.Buffered = @ - a, !.LateDropped = @ + b, !.DroppedSpans = @ + c] \in Counters
  <2> DEFINE s1 == [s EXCEPT !.Buffered = @ - a]
             s2 == [s1 EXCEPT !.LateDropped = @ + b]
             s3 == [s2 EXCEPT !.DroppedSpans = @ + c]
  <2>1. s1 \in Counters
    BY <1>2
  <2> HIDE DEF s1
  <2>2. s2 \in Counters
    BY <2>1 DEF Counters
  <2> HIDE DEF s2
  <2>3. s3 \in Counters
    BY <2>2 DEF Counters
  <2> QED
    BY <2>3, Zenon DEF s1, s2, s3
<1>4. ASSUME NEW i \in BOOLEAN
      PROVE [s EXCEPT !.LateKept = @ + a, !.KeptSpans = IF i THEN @ + b ELSE @, !.Lost = IF i THEN @ ELSE @ + b] \in Counters
  <2> DEFINE s1 == [s EXCEPT !.LateKept = @ + a]
             s2 == [s1 EXCEPT !.KeptSpans = IF i THEN @ + b ELSE @]
             s3 == [s2 EXCEPT !.Lost = IF i THEN @ ELSE @ + b]
  <2>1. s1 \in Counters
    BY DEF Counters
  <2> HIDE DEF s1
  <2>2. s2 \in Counters
    BY <2>1 DEF Counters
  <2> HIDE DEF s2
  <2>3. s3 \in Counters
    BY <2>2 DEF Counters
  <2> QED
    BY <2>3, Zenon DEF s1, s2, s3
<1>5. ASSUME NEW i \in BOOLEAN PROVE [s EXCEPT !.Lost = IF i THEN @ ELSE @ + a] \in Counters
  BY DEF Counters
<1> QED
  BY <1>1, <1>2, <1>3, <1>4, <1>5, Zenon

\* Forgetting the first k entries of a queue keeps the types of what is left.
LEMMA ForgetOldestType ==
  ASSUME NEW q \in Seq([id : Trace, at : 0..MaxClock]),
         NEW d \in [Trace -> {"none", "keep", "drop"}], NEW at \in [Trace -> 0..MaxClock],
         NEW k \in 0..Len(q), ForgetOldest(q, d, at, k)
  PROVE  /\ order' \in Seq([id : Trace, at : 0..MaxClock])
         /\ decided' \in [Trace -> {"none", "keep", "drop"}]
         /\ decidedAt' \in [Trace -> 0..MaxClock]
<1>1. SubSeq(q, k + 1, Len(q)) \in Seq([id : Trace, at : 0..MaxClock])
  <2>1. \A i \in (k + 1)..Len(q) : q[i] \in [id : Trace, at : 0..MaxClock]
    <3> SUFFICES ASSUME NEW i \in (k + 1)..Len(q) PROVE q[i] \in [id : Trace, at : 0..MaxClock]
      OBVIOUS
    <3>1. Len(q) \in Nat /\ i \in 1..Len(q)
      BY SeqLen
    <3> QED
      BY <3>1, SeqElement, Zenon
  <2>2. k + 1 \in Int /\ Len(q) \in Int
    BY SeqLen
  <2> QED
    BY <2>1, <2>2, SeqSub
<1>2. 0 \in 0..MaxClock
  BY ConfigAssumption
<1> QED
  BY <1>1, <1>2 DEF ForgetOldest

\* Every step of the sampler preserves the types.
LEMMA TypeStep == TypeOK /\ SettlesATrace /\ [Next]_vars => TypeOK'
<1> SUFFICES ASSUME TypeOK, SettlesATrace, [Next]_vars PROVE TypeOK'
  OBVIOUS
<1> USE DEF tables, accepting, sweeper
<1>0. 0 \in 0..MaxClock
  BY ConfigAssumption
<1>1. ASSUME NEW b \in SUBSET Span, AcceptTooLarge(b) PROVE TypeOK'
  BY <1>1 DEF AcceptTooLarge, TypeOK, Become, Fates
<1>2. ASSUME NEW h \in Handler, NEW b \in SUBSET Span, AcceptCall(h, b) PROVE TypeOK'
  BY <1>2 DEF AcceptCall, TypeOK, Become, Fates
<1>3. ASSUME NEW h \in Handler, AcceptRefuse(h) PROVE TypeOK'
  BY <1>0, <1>3 DEF AcceptRefuse, AcceptReturn, TypeOK, Become, Fates
<1>5. CASE SweepStart
  BY <1>5, Zenon DEF SweepStart, TypeOK
<1>6. CASE FlushStart
  BY <1>0, <1>6 DEF FlushStart, TypeOK
<1>7. CASE Stop
  BY <1>7 DEF Stop, TypeOK
<1>4. ASSUME NEW h \in Handler, AcceptLocked(h) PROVE TypeOK'
  <2>1. batch[h] \in SUBSET Span /\ Room(h) \in SUBSET Span /\ acceptNow[h] \in 0..MaxClock
    BY DEF TypeOK, Room
  <2>2. ASSUME NEW X \in SUBSET Span PROVE Cardinality(X) \in Int
    BY SpansAreCounted
  <2>3. stats' \in Counters
    BY <1>4, <2>1, <2>2, CountersType, Zenon DEF AcceptLocked, TypeOK
  <2>4. fate' \in [Span -> Fates]
    BY <1>4 DEF AcceptLocked, TypeOK, Fates
  <2> QED
    BY <1>0, <1>4, <2>1, <2>3, <2>4 DEF AcceptLocked, AcceptReturn, TypeOK, OfTrace
<1>8. CASE Judge
  <2>1. ASSUME NEW X \in SUBSET Span PROVE Cardinality(X) \in Int
    BY SpansAreCounted
  <2>2. stats' \in Counters
    BY <1>8, <2>1, CountersType, Zenon DEF Judge, TypeOK, All
  <2> QED
    BY <1>0, <1>8, <2>2 DEF Judge, TypeOK
<1>9. ASSUME NEW t \in Trace, NEW keep \in BOOLEAN, NEW ok \in BOOLEAN, Decide(t, keep, ok)
      PROVE TypeOK'
  <2> DEFINE Bucket == [live : BOOLEAN, tokens : 0..(ServiceBurst * TokenUnit), at : 0..MaxClock]
  <2>1. buckets' \in [Service -> Bucket] /\ charges' \in [Service -> Seq(0..MaxClock)]
    <3>1. CASE ready[t] \in KeptBy /\ ServiceRate > 0
      <4> DEFINE v == RootService[ready[t]]
                 b == BucketNow(v, clock)
      <4>1. v \in Service /\ buckets[v] \in Bucket
        BY ConfigAssumption DEF TypeOK
      <4>2. b \in Bucket
        <5>1. ServiceBurst * TokenUnit \in 0..(ServiceBurst * TokenUnit)
          BY ConfigAssumption
        <5> QED
          BY <4>1, <5>1, RefillType DEF BucketNow, FullBucket, TypeOK
      <4>3. b.tokens >= TokenUnit => b.tokens - TokenUnit \in 0..(ServiceBurst * TokenUnit)
        <5> HIDE DEF b
        <5>1. ServiceBurst * TokenUnit \in Nat /\ TokenUnit \in Nat
          BY ConfigAssumption
        <5> QED
          BY <4>2, <5>1
      <4>4. Allow(v, keep)
        BY <1>9, <3>1 DEF Decide
      <4> HIDE DEF v
      <4>5. CASE keep
        <5>1. /\ b.tokens >= TokenUnit
              /\ buckets' = [buckets EXCEPT ![v] = [b EXCEPT !.tokens = @ - TokenUnit]]
              /\ charges' = [charges EXCEPT ![v] = Append(@, clock)]
          BY <4>4, <4>5, Zenon DEF Allow
        <5> HIDE DEF b
        <5>2. [b EXCEPT !.tokens = @ - TokenUnit] \in Bucket
          BY <4>2, <4>3, <5>1
        <5>3. Append(charges[v], clock) \in Seq(0..MaxClock)
          BY <4>1 DEF TypeOK
        <5> QED
          BY <5>1, <5>2, <5>3, Zenon DEF TypeOK
      <4>6. CASE ~keep
        BY <4>2, <4>4, <4>6, Zenon DEF Allow, TypeOK
      <4> QED
        BY <4>5, <4>6
    <3>2. CASE ~(ready[t] \in KeptBy /\ ServiceRate > 0)
      BY <1>9, <3>2 DEF Decide, TypeOK
    <3> QED
      BY <3>1, <3>2
  <2>2. fate' \in [Span -> Fates]
    BY <1>9 DEF Decide, TypeOK, Become, Fates
  <2>3. cur' \in [id : Trace \cup {0}, keep : BOOLEAN, ok : BOOLEAN]
    BY <1>9 DEF Decide
  <2> QED
    BY <1>9, <2>1, <2>2, <2>3 DEF Decide, TypeOK
<1>10. CASE Settle
  <2>1. cur.id \in Trace /\ cur.keep \in BOOLEAN
    BY <1>10 DEF Settle, SettlesATrace, TypeOK
  <2>2. Cardinality(ready[cur.id]) \in Int /\ Cardinality(waiting[cur.id]) \in Int
    BY <2>1, SpansAreCounted DEF TypeOK
  <2>3. stats' \in Counters
    BY <1>10, <2>2, CountersType, Zenon DEF Settle, TypeOK
  <2>4. fate' \in [Span -> Fates]
    BY <1>10 DEF Settle, TypeOK, Become, Fates
  <2>5. cur' \in [id : Trace \cup {0}, keep : BOOLEAN, ok : BOOLEAN]
    BY <1>10 DEF Settle, Idle
  <2>6. /\ order' \in Seq([id : Trace, at : 0..MaxClock])
        /\ decided' \in [Trace -> {"none", "keep", "drop"}]
        /\ decidedAt' \in [Trace -> 0..MaxClock]
    <3>1. CASE Remember > 0
      <4> DEFINE d == [decided EXCEPT ![cur.id] = IF cur.keep THEN "keep" ELSE "drop"]
                 at == [decidedAt EXCEPT ![cur.id] = clock]
                 q == Append(order, [id |-> cur.id, at |-> clock])
      <4>1. q \in Seq([id : Trace, at : 0..MaxClock])
        BY <2>1 DEF TypeOK
      <4>2. d \in [Trace -> {"none", "keep", "drop"}] /\ at \in [Trace -> 0..MaxClock]
        BY Zenon DEF TypeOK
      <4>3. PICK k \in 0..Len(q) : ForgetOldest(q, d, at, k)
        BY <1>10, <3>1, Zenon DEF Settle, RememberVerdict
      <4> HIDE DEF q, d, at
      <4> QED
        BY <4>1, <4>2, <4>3, ForgetOldestType, Zenon
    <3>2. CASE ~(Remember > 0)
      BY <1>10, <3>2 DEF Settle, TypeOK
    <3> QED
      BY <3>1, <3>2
  <2>7. /\ waiting' \in [Trace -> SUBSET Span] /\ late' \in [Trace -> SUBSET Span]
        /\ ready' \in [Trace -> SUBSET Span] /\ first' \in [Trace -> 0..MaxClock]
    BY <1>0, <1>10, <2>1 DEF Settle, TypeOK
  <2> QED
    BY <1>10, <2>3, <2>4, <2>5, <2>6, <2>7, Zenon DEF Settle, TypeOK
<1>11. CASE Forget
  <2>1. buckets' \in [Service -> [live : BOOLEAN, tokens : 0..(ServiceBurst * TokenUnit), at : 0..MaxClock]]
    <3>1. 0 \in 0..(ServiceBurst * TokenUnit)
      BY ConfigAssumption
    <3> QED
      BY <1>0, <1>11, <3>1, RefillType DEF Forget, TypeOK, NoBucket
  <2>2. PICK k \in 0..Len(order) : ForgetOldest(order, decided, decidedAt, k)
    BY <1>11 DEF Forget
  <2>3. /\ order' \in Seq([id : Trace, at : 0..MaxClock])
        /\ decided' \in [Trace -> {"none", "keep", "drop"}]
        /\ decidedAt' \in [Trace -> 0..MaxClock]
    BY <2>2, ForgetOldestType, Zenon DEF TypeOK
  <2> QED
    BY <1>11, <2>1, <2>3, Zenon DEF Forget, TypeOK
<1>12. CASE TakeLate
  <2>1. Cardinality(All(late)) \in Int
    BY SpansAreCounted DEF All
  <2> QED
    BY <1>12, <2>1, CountersType, Zenon DEF TakeLate, TypeOK, NoSpans
<1>13. ASSUME NEW t \in Trace, NEW ok \in BOOLEAN, WriteLate(t, ok) PROVE TypeOK'
  <2>1. Cardinality(lateBatch[t]) \in Int
    BY SpansAreCounted DEF TypeOK
  <2> QED
    BY <1>13, <2>1, CountersType, Zenon DEF WriteLate, TypeOK, Become, Fates
<1>14. CASE SweepDone
  BY <1>0, <1>14, Zenon DEF SweepDone, TypeOK
<1>15. CASE Tick
  BY <1>15, ConfigAssumption DEF Tick, TypeOK
<1>16. CASE UNCHANGED vars
  BY <1>16 DEF vars, TypeOK
<1> QED
  BY <1>1, <1>2, <1>3, <1>4, <1>5, <1>6, <1>7, <1>8, <1>9, <1>10, <1>11, <1>12, <1>13, <1>14, <1>15, <1>16
  DEF Next, Exports, Accepts, Run, Deciding, WritingLate, Having

(***************************************************************************)
(* Where spans are.  Neither HeldOnce nor BufferedIsExact is inductive:    *)
(* they need to know which traces judge has taken, and that a batch an     *)
(* Accept still holds is in none of the maps.                              *)
(***************************************************************************)

\* A map holds a span under its own trace only.
Filed ==
  \A t \in Trace : \A s \in pending[t] \cup ready[t] \cup waiting[t] \cup late[t] \cup lateBatch[t] : TraceOf[s] = t

\* judging has exactly the traces judge took and has yet to decide; those are
\* not buffered, and only those have spans waiting for a verdict.  Sweep's local
\* slices are empty before they are filled.
JudgedApart ==
  /\ judging = Remaining
  /\ \A t \in Trace : (pending[t] # {} => t \notin judging) /\ (waiting[t] # {} => t \in judging)
  /\ pc \notin {"decide", "settle"} => Remaining = {}
  /\ pc # "writeLate" => LateRemaining = {}

\* The spans of an Accept in progress belong to that Accept alone.
InFlight ==
  /\ \A h \in Handler : \A s \in batch[h] : fate[s] = "export"
  /\ \A g, h \in Handler : g # h => batch[g] \cap batch[h] = {}

\* HeldOnce, without counting.
InOneMap(s) ==
  LET t == TraceOf[s]
  IN /\ s \in pending[t] => s \notin ready[t] \cup waiting[t] \cup late[t] \cup lateBatch[t]
     /\ s \in ready[t] => s \notin waiting[t] \cup late[t] \cup lateBatch[t]
     /\ s \in waiting[t] => s \notin late[t] \cup lateBatch[t]
     /\ s \in late[t] => s \notin lateBatch[t]
     /\ s \in pending[t] \cup ready[t] \cup waiting[t] \cup late[t] \cup lateBatch[t]
          <=> fate[s] = "held" \/ s \in JustWritten
     /\ s \in JustWritten => fate[s] = "written"
AllInOneMap == \A s \in Span : InOneMap(s)

\* The inductive invariant.
PlacesInv == TypeOK /\ SettlesATrace /\ Filed /\ JudgedApart /\ InFlight /\ AllInOneMap

\* Every step of the sampler preserves the inductive invariant.
LEMMA PlacesStep == PlacesInv /\ [Next]_vars => PlacesInv'
<1> SUFFICES ASSUME PlacesInv, [Next]_vars
             PROVE (SettlesATrace /\ Filed /\ JudgedApart /\ InFlight /\ AllInOneMap)'
  BY TypeStep DEF PlacesInv
<1> USE DEF tables, accepting, sweeper
<1>0. /\ pending \in [Trace -> SUBSET Span] /\ ready \in [Trace -> SUBSET Span]
      /\ waiting \in [Trace -> SUBSET Span] /\ late \in [Trace -> SUBSET Span]
      /\ lateBatch \in [Trace -> SUBSET Span] /\ batch \in [Handler -> SUBSET Span]
      /\ fate \in [Span -> Fates] /\ judging \in SUBSET Trace /\ TraceOf \in [Span -> Trace]
      /\ SettlesATrace /\ Filed /\ JudgedApart /\ InFlight /\ AllInOneMap
      /\ decided \in [Trace -> {"none", "keep", "drop"}]
  BY ConfigAssumption DEF PlacesInv, TypeOK
<1>a. ASSUME NEW s \in Span, NEW t \in Trace
      PROVE /\ s \in pending[t] \cup waiting[t] \cup late[t] \cup lateBatch[t] => fate[s] = "held"
            /\ s \in ready[t] => IF s \in JustWritten THEN fate[s] = "written" ELSE fate[s] = "held"
  <2>1. InOneMap(s)
    BY <1>0 DEF AllInOneMap
  <2>2. s \in pending[t] \cup waiting[t] \cup late[t] \cup lateBatch[t] \cup ready[t] => TraceOf[s] = t
    BY <1>0 DEF Filed
  <2>3. s \in JustWritten => s \in ready[TraceOf[s]]
    BY <1>0 DEF JustWritten, Filed, SettlesATrace
  <2> QED
    BY <2>1, <2>2, <2>3 DEF InOneMap
<1>b. \A s \in Span : s \in JustWritten <=> pc = "settle" /\ cur.ok /\ TraceOf[s] = cur.id /\ s \in ready[TraceOf[s]]
  BY <1>0 DEF JustWritten, Filed, SettlesATrace
<1>1. ASSUME NEW b \in SUBSET Having("client"), AcceptTooLarge(b)
      PROVE (SettlesATrace /\ Filed /\ JudgedApart /\ InFlight /\ AllInOneMap)'
  <2>1. SettlesATrace'
    BY <1>1, <1>0 DEF AcceptTooLarge, Become, Having, SettlesATrace
  <2>2. Filed'
    BY <1>1, <1>0 DEF AcceptTooLarge, Become, Having, Filed
  <2>3. JudgedApart'
    BY <1>1, <1>0, Zenon DEF AcceptTooLarge, Become, Having, JudgedApart, Remaining, LateRemaining
  <2>4. InFlight'
    BY <1>1, <1>0, <1>a DEF AcceptTooLarge, Become, Having, InFlight
  <2>5. ASSUME NEW s \in Span PROVE InOneMap(s)'
    <3>1. InOneMap(s) /\ TraceOf[s] \in Trace
      BY <1>0 DEF AllInOneMap
    <3> QED
      BY <1>1, <1>0, <1>a, <1>b, <3>1 DEF AcceptTooLarge, Become, Having, InOneMap, JustWritten, InFlight
  <2> QED
    BY <2>1, <2>2, <2>3, <2>4, <2>5 DEF AllInOneMap
<1>2. ASSUME NEW h \in Handler, NEW b \in SUBSET Having("client"), AcceptCall(h, b)
      PROVE (SettlesATrace /\ Filed /\ JudgedApart /\ InFlight /\ AllInOneMap)'
  <2>1. SettlesATrace'
    BY <1>2, <1>0 DEF AcceptCall, Become, Having, SettlesATrace
  <2>2. Filed'
    BY <1>2, <1>0 DEF AcceptCall, Become, Having, Filed
  <2>3. JudgedApart'
    BY <1>2, <1>0, Zenon DEF AcceptCall, Become, Having, JudgedApart, Remaining, LateRemaining
  <2>4. InFlight'
    BY <1>2, <1>0, <1>a DEF AcceptCall, Become, Having, InFlight
  <2>5. ASSUME NEW s \in Span PROVE InOneMap(s)'
    <3>1. InOneMap(s) /\ TraceOf[s] \in Trace
      BY <1>0 DEF AllInOneMap
    <3> QED
      BY <1>2, <1>0, <1>a, <1>b, <3>1 DEF AcceptCall, Become, Having, InOneMap, JustWritten, InFlight
  <2> QED
    BY <2>1, <2>2, <2>3, <2>4, <2>5 DEF AllInOneMap
<1>3. ASSUME NEW h \in Handler, AcceptRefuse(h)
      PROVE (SettlesATrace /\ Filed /\ JudgedApart /\ InFlight /\ AllInOneMap)'
  <2>1. SettlesATrace'
    BY <1>3, <1>0 DEF AcceptRefuse, AcceptReturn, Become, SettlesATrace
  <2>2. Filed'
    BY <1>3, <1>0 DEF AcceptRefuse, AcceptReturn, Become, Filed
  <2>3. JudgedApart'
    BY <1>3, <1>0 DEF AcceptRefuse, AcceptReturn, Become, JudgedApart, Remaining, LateRemaining
  <2>4. InFlight'
    BY <1>3, <1>0, <1>a DEF AcceptRefuse, AcceptReturn, Become, InFlight
  <2>5. ASSUME NEW s \in Span PROVE InOneMap(s)'
    <3>1. InOneMap(s) /\ TraceOf[s] \in Trace
      BY <1>0 DEF AllInOneMap
    <3> QED
      BY <1>3, <1>0, <1>a, <1>b, <3>1 DEF AcceptRefuse, AcceptReturn, Become, InOneMap, JustWritten, InFlight
  <2> QED
    BY <2>1, <2>2, <2>3, <2>4, <2>5 DEF AllInOneMap
<1>4. ASSUME NEW h \in Handler, AcceptLocked(h)
      PROVE (SettlesATrace /\ Filed /\ JudgedApart /\ InFlight /\ AllInOneMap)'
  <2>1. SettlesATrace'
    BY <1>4, <1>0 DEF AcceptLocked, AcceptReturn, OfTrace, SettlesATrace
  <2>2. Filed'
    BY <1>4, <1>0 DEF AcceptLocked, AcceptReturn, OfTrace, Filed
  <2>3. JudgedApart'
    BY <1>4, <1>0, Zenon DEF AcceptLocked, AcceptReturn, OfTrace, JudgedApart, Remaining, LateRemaining
  <2>4. InFlight'
    BY <1>4, <1>0, <1>a DEF AcceptLocked, AcceptReturn, OfTrace, InFlight
  <2>5. ASSUME NEW s \in Span PROVE InOneMap(s)'
    <3>1. InOneMap(s) /\ TraceOf[s] \in Trace
      BY <1>0 DEF AllInOneMap
    <3> DEFINE u == TraceOf[s]
    <3>2. ready' = ready /\ lateBatch' = lateBatch /\ JustWritten' = JustWritten
      BY <1>4 DEF AcceptLocked, JustWritten
    <3>3. CASE s \notin batch[h]
      <4>1. /\ s \in pending'[u] <=> s \in pending[u]
            /\ s \in waiting'[u] <=> s \in waiting[u]
            /\ s \in late'[u] <=> s \in late[u]
            /\ fate'[s] = fate[s]
        BY <1>4, <3>1, <3>3 DEF AcceptLocked, OfTrace
      <4> QED
        BY <3>1, <3>2, <4>1 DEF InOneMap
    <3>4. CASE s \in batch[h]
      <4>1. /\ s \notin pending[u] \cup ready[u] \cup waiting[u] \cup late[u] \cup lateBatch[u]
            /\ s \notin JustWritten
        BY <1>0, <1>a, <3>1, <3>4 DEF InFlight, InOneMap
      <4>2. Verdict(u, acceptNow[h]) \in {"none", "keep", "drop"} /\ (u \in judging => Verdict(u, acceptNow[h]) = "none")
        BY <3>1, <1>0 DEF Verdict
      <4>3. /\ s \in waiting'[u] <=> u \in judging
            /\ s \in pending'[u] <=> u \notin judging /\ Verdict(u, acceptNow[h]) = "none"
            /\ s \in late'[u] <=> u \notin judging /\ Verdict(u, acceptNow[h]) = "keep"
            /\ fate'[s] = IF u \notin judging /\ Verdict(u, acceptNow[h]) = "drop" THEN "dropped" ELSE "held"
        BY <1>4, <3>1, <3>4, <4>1 DEF AcceptLocked, OfTrace
      <4> HIDE DEF u
      <4> QED
        BY <3>2, <4>1, <4>2, <4>3 DEF InOneMap, u
    <3> QED
      BY <3>3, <3>4
  <2> QED
    BY <2>1, <2>2, <2>3, <2>4, <2>5 DEF AllInOneMap
<1>5. CASE SweepStart
  <2>1. SettlesATrace'
    BY <1>5, <1>0 DEF SweepStart, SettlesATrace
  <2>2. Filed'
    BY <1>5, <1>0 DEF SweepStart, Filed
  <2>3. JudgedApart'
    BY <1>5, <1>0 DEF SweepStart, JudgedApart, Remaining, LateRemaining
  <2>4. InFlight'
    BY <1>5, <1>0 DEF SweepStart, InFlight, JustWritten
  <2>5. AllInOneMap'
    BY <1>5, <1>0 DEF SweepStart, AllInOneMap, InOneMap, JustWritten
  <2> QED
    BY <2>1, <2>2, <2>3, <2>4, <2>5
<1>6. CASE FlushStart
  <2>1. SettlesATrace'
    BY <1>6, <1>0 DEF FlushStart, SettlesATrace
  <2>2. Filed'
    BY <1>6, <1>0 DEF FlushStart, Filed
  <2>3. JudgedApart'
    BY <1>6, <1>0 DEF FlushStart, JudgedApart, Remaining, LateRemaining
  <2>4. InFlight'
    BY <1>6, <1>0 DEF FlushStart, InFlight, JustWritten
  <2>5. AllInOneMap'
    BY <1>6, <1>0 DEF FlushStart, AllInOneMap, InOneMap, JustWritten
  <2> QED
    BY <2>1, <2>2, <2>3, <2>4, <2>5
<1>7. CASE Stop
  <2>1. SettlesATrace'
    BY <1>7, <1>0 DEF Stop, SettlesATrace
  <2>2. Filed'
    BY <1>7, <1>0 DEF Stop, Filed
  <2>3. JudgedApart'
    BY <1>7, <1>0 DEF Stop, JudgedApart, Remaining, LateRemaining
  <2>4. InFlight'
    BY <1>7, <1>0 DEF Stop, InFlight, JustWritten
  <2>5. AllInOneMap'
    BY <1>7, <1>0 DEF Stop, AllInOneMap, InOneMap, JustWritten
  <2> QED
    BY <2>1, <2>2, <2>3, <2>4, <2>5
<1>8. CASE Judge
  <2>1. SettlesATrace'
    BY <1>8, <1>0 DEF Judge, Due, SettlesATrace
  <2>2. Filed'
    BY <1>8, <1>0 DEF Judge, Due, Filed
  <2>3. JudgedApart'
    BY <1>8, <1>0, Zenon DEF Judge, Due, JudgedApart, Remaining, LateRemaining
  <2>4. InFlight'
    BY <1>8, <1>0, <1>a DEF Judge, Due, InFlight
  <2>5. ASSUME NEW s \in Span PROVE InOneMap(s)'
    <3>1. InOneMap(s) /\ TraceOf[s] \in Trace
      BY <1>0 DEF AllInOneMap
    <3>2. ready[TraceOf[s]] = {} /\ (pending[TraceOf[s]] # {} => waiting[TraceOf[s]] = {})
      BY <1>0, <1>8, <3>1 DEF Judge, JudgedApart, Remaining
    <3>3. s \notin JustWritten /\ s \notin JustWritten'
      BY <1>8 DEF Judge, JustWritten
    <3> QED
      BY <1>0, <1>8, <3>1, <3>2, <3>3 DEF Judge, Due, InOneMap
  <2> QED
    BY <2>1, <2>2, <2>3, <2>4, <2>5 DEF AllInOneMap
<1>9. ASSUME NEW t \in Trace, NEW keep \in BOOLEAN, NEW ok \in BOOLEAN, Decide(t, keep, ok)
      PROVE (SettlesATrace /\ Filed /\ JudgedApart /\ InFlight /\ AllInOneMap)'
  <2>1. SettlesATrace'
    BY <1>9, <1>0 DEF Decide, Become, SettlesATrace, Remaining
  <2>2. Filed'
    BY <1>9, <1>0 DEF Decide, Become, Filed
  <2>3. JudgedApart'
    BY <1>9, <1>0, Zenon DEF Decide, Become, JudgedApart, Remaining, LateRemaining
  <2>4. InFlight'
    BY <1>9, <1>0, <1>a, Zenon DEF Decide, Become, InFlight, JustWritten
  <2>5. ASSUME NEW s \in Span PROVE InOneMap(s)'
    <3>1. InOneMap(s) /\ TraceOf[s] \in Trace
      BY <1>0 DEF AllInOneMap
    <3> QED
      BY <1>9, <1>0, <1>a, <1>b, <3>1, Zenon DEF Decide, Become, InOneMap, JustWritten, InFlight
  <2> QED
    BY <2>1, <2>2, <2>3, <2>4, <2>5 DEF AllInOneMap
<1>10. CASE Settle
  <2>1. SettlesATrace'
    BY <1>10, <1>0 DEF Settle, Become, Idle, SettlesATrace
  <2>2. Filed'
    BY <1>10, <1>0 DEF Settle, Become, Idle, Filed
  <2>3. JudgedApart'
    BY <1>10, <1>0 DEF Settle, Become, Idle, JudgedApart, Remaining, LateRemaining
  <2>4. InFlight'
    BY <1>10, <1>0, <1>a DEF Settle, Become, Idle, InFlight, JustWritten, SettlesATrace
  <2>5. ASSUME NEW s \in Span PROVE InOneMap(s)'
    <3>1. InOneMap(s) /\ TraceOf[s] \in Trace
      BY <1>0 DEF AllInOneMap
    <3>2. s \notin JustWritten'
      BY <1>10 DEF Settle, JustWritten
    <3>3. cur.id \in Trace /\ pending[cur.id] = {} /\ pending' = pending /\ lateBatch' = lateBatch
      BY <1>0, <1>10 DEF Settle, SettlesATrace, JudgedApart, Remaining
    <3>4. CASE TraceOf[s] = cur.id
      <4>1. ready'[cur.id] = {} /\ waiting'[cur.id] = {}
        BY <1>0, <1>10, <3>3 DEF Settle
      <4>2. late'[cur.id] = IF cur.keep THEN late[cur.id] \cup waiting[cur.id] ELSE late[cur.id]
        BY <1>0, <1>10, <3>3, Zenon DEF Settle
      <4>3. fate'[s] = IF cur.ok THEN fate[s]
                       ELSE IF cur.keep THEN IF s \in ready[cur.id] THEN "lost" ELSE fate[s]
                       ELSE IF s \in ready[cur.id] \cup waiting[cur.id] THEN "dropped" ELSE fate[s]
        BY <1>10 DEF Settle, Become
      <4>4. s \in JustWritten <=> cur.ok /\ s \in ready[cur.id]
        BY <1>b, <1>10, <3>4 DEF Settle
      <4>5. cur.ok => cur.keep
        BY <1>0, <1>10 DEF Settle, SettlesATrace
      <4>6. CASE cur.ok
        <5>1. late'[cur.id] = late[cur.id] \cup waiting[cur.id] /\ fate'[s] = fate[s]
          BY <4>2, <4>3, <4>5, <4>6
        <5>2. s \notin JustWritten' /\ (s \in JustWritten <=> s \in ready[cur.id])
          BY <3>2, <4>4, <4>6
        <5> HIDE <4>2, <4>3, <4>4
        <5> QED
          BY <3>1, <3>3, <3>4, <4>1, <5>1, <5>2, Zenon DEF InOneMap
      <4>7. CASE ~cur.ok /\ cur.keep
        <5>1. /\ late'[cur.id] = late[cur.id] \cup waiting[cur.id]
              /\ fate'[s] = IF s \in ready[cur.id] THEN "lost" ELSE fate[s]
          BY <4>2, <4>3, <4>7
        <5>2. s \notin JustWritten' /\ s \notin JustWritten
          BY <3>2, <4>4, <4>7
        <5> HIDE <4>2, <4>3, <4>4
        <5> QED
          BY <3>1, <3>3, <3>4, <4>1, <5>1, <5>2, Zenon DEF InOneMap
      <4>8. CASE ~cur.ok /\ ~cur.keep
        BY <3>1, <3>2, <3>3, <3>4, <4>1, <4>2, <4>3, <4>4, <4>8, Zenon DEF InOneMap
      <4> QED
        BY <4>6, <4>7, <4>8
    <3>5. CASE TraceOf[s] # cur.id
      <4>1. /\ ready'[TraceOf[s]] = ready[TraceOf[s]] /\ waiting'[TraceOf[s]] = waiting[TraceOf[s]]
            /\ late'[TraceOf[s]] = late[TraceOf[s]]
        BY <1>0, <1>10, <3>1, <3>5 DEF Settle
      <4>2. fate'[s] = fate[s]
        BY <1>0, <1>10, <3>3, <3>5 DEF Settle, Become, Filed
      <4>3. s \notin JustWritten
        BY <1>b, <3>5
      <4> QED
        BY <3>1, <3>2, <3>3, <4>1, <4>2, <4>3, Zenon DEF InOneMap
    <3> QED
      BY <3>4, <3>5
  <2> QED
    BY <2>1, <2>2, <2>3, <2>4, <2>5 DEF AllInOneMap
<1>11. CASE Forget
  <2>1. SettlesATrace'
    BY <1>11, <1>0, Zenon DEF Forget, SettlesATrace
  <2>2. Filed'
    BY <1>11, <1>0, Zenon DEF Forget, Filed
  <2>3. JudgedApart'
    BY <1>11, <1>0, Zenon DEF Forget, JudgedApart, Remaining, LateRemaining
  <2>4. InFlight'
    BY <1>11, <1>0, Zenon DEF Forget, InFlight, JustWritten
  <2>5. AllInOneMap'
    BY <1>11, <1>0, Zenon DEF Forget, AllInOneMap, InOneMap, JustWritten
  <2> QED
    BY <2>1, <2>2, <2>3, <2>4, <2>5
<1>12. CASE TakeLate
  <2>1. SettlesATrace'
    BY <1>12, <1>0 DEF TakeLate, NoSpans, SettlesATrace
  <2>2. Filed'
    BY <1>12, <1>0 DEF TakeLate, NoSpans, Filed
  <2>3. JudgedApart'
    BY <1>12, <1>0 DEF TakeLate, NoSpans, JudgedApart, Remaining, LateRemaining
  <2>4. InFlight'
    BY <1>12, <1>0, <1>a DEF TakeLate, NoSpans, InFlight
  <2>5. ASSUME NEW s \in Span PROVE InOneMap(s)'
    <3>1. InOneMap(s) /\ TraceOf[s] \in Trace
      BY <1>0 DEF AllInOneMap
    <3>2. lateBatch[TraceOf[s]] = {}
      BY <1>0, <1>12, <3>1 DEF TakeLate, JudgedApart, LateRemaining
    <3>3. s \notin JustWritten /\ s \notin JustWritten'
      BY <1>12 DEF TakeLate, JustWritten
    <3> QED
      BY <1>0, <1>12, <3>1, <3>2, <3>3 DEF TakeLate, NoSpans, InOneMap
  <2> QED
    BY <2>1, <2>2, <2>3, <2>4, <2>5 DEF AllInOneMap
<1>13. ASSUME NEW t \in Trace, NEW ok \in BOOLEAN, WriteLate(t, ok)
      PROVE (SettlesATrace /\ Filed /\ JudgedApart /\ InFlight /\ AllInOneMap)'
  <2>1. SettlesATrace'
    BY <1>13, <1>0 DEF WriteLate, Become, SettlesATrace
  <2>2. Filed'
    BY <1>13, <1>0 DEF WriteLate, Become, Filed
  <2>3. JudgedApart'
    BY <1>13, <1>0 DEF WriteLate, Become, JudgedApart, Remaining, LateRemaining
  <2>4. InFlight'
    BY <1>13, <1>0, <1>a DEF WriteLate, Become, InFlight
  <2>5. ASSUME NEW s \in Span PROVE InOneMap(s)'
    <3>1. InOneMap(s) /\ TraceOf[s] \in Trace
      BY <1>0 DEF AllInOneMap
    <3>2. s \notin JustWritten /\ s \notin JustWritten'
      BY <1>13 DEF WriteLate, JustWritten
    <3>3. CASE s \in lateBatch[t]
      <4>1. TraceOf[s] = t /\ fate'[s] \in {"written", "lost"}
        BY <1>0, <1>13, <3>3 DEF WriteLate, Become, Filed
      <4> QED
        BY <1>0, <1>13, <3>1, <3>2, <3>3, <4>1 DEF WriteLate, InOneMap
    <3>4. CASE s \notin lateBatch[t]
      <4>1. fate'[s] = fate[s]
        BY <1>13, <3>4 DEF WriteLate, Become
      <4>2. s \in lateBatch'[TraceOf[s]] <=> s \in lateBatch[TraceOf[s]]
        BY <1>0, <1>13, <3>1, <3>4 DEF WriteLate
      <4> QED
        BY <1>13, <3>1, <3>2, <4>1, <4>2 DEF WriteLate, InOneMap
    <3> QED
      BY <3>3, <3>4
  <2> QED
    BY <2>1, <2>2, <2>3, <2>4, <2>5 DEF AllInOneMap
<1>14. CASE SweepDone
  <2>1. SettlesATrace'
    BY <1>14, <1>0 DEF SweepDone, SettlesATrace
  <2>2. Filed'
    BY <1>14, <1>0 DEF SweepDone, Filed
  <2>3. JudgedApart'
    BY <1>14, <1>0 DEF SweepDone, JudgedApart, Remaining, LateRemaining
  <2>4. InFlight'
    BY <1>14, <1>0 DEF SweepDone, InFlight, JustWritten
  <2>5. AllInOneMap'
    BY <1>14, <1>0, Zenon DEF SweepDone, AllInOneMap, InOneMap, JustWritten
  <2> QED
    BY <2>1, <2>2, <2>3, <2>4, <2>5
<1>15. CASE Tick
  <2>1. SettlesATrace'
    BY <1>15, <1>0 DEF Tick, SettlesATrace
  <2>2. Filed'
    BY <1>15, <1>0 DEF Tick, Filed
  <2>3. JudgedApart'
    BY <1>15, <1>0 DEF Tick, JudgedApart, Remaining, LateRemaining
  <2>4. InFlight'
    BY <1>15, <1>0 DEF Tick, InFlight, JustWritten
  <2>5. AllInOneMap'
    BY <1>15, <1>0 DEF Tick, AllInOneMap, InOneMap, JustWritten
  <2> QED
    BY <2>1, <2>2, <2>3, <2>4, <2>5
<1>16. CASE UNCHANGED vars
  <2>1. SettlesATrace'
    BY <1>16, <1>0 DEF vars, SettlesATrace
  <2>2. Filed'
    BY <1>16, <1>0 DEF vars, Filed
  <2>3. JudgedApart'
    BY <1>16, <1>0 DEF vars, JudgedApart, Remaining, LateRemaining
  <2>4. InFlight'
    BY <1>16, <1>0 DEF vars, InFlight, JustWritten
  <2>5. AllInOneMap'
    BY <1>16, <1>0 DEF vars, AllInOneMap, InOneMap, JustWritten
  <2> QED
    BY <2>1, <2>2, <2>3, <2>4, <2>5
<1> QED
  BY <1>1, <1>2, <1>3, <1>4, <1>5, <1>6, <1>7, <1>8, <1>9, <1>10, <1>11, <1>12, <1>13, <1>14, <1>15, <1>16
  DEF Next, Exports, Accepts, Run, Deciding, WritingLate

\* The initial state satisfies the inductive invariant.
LEMMA PlacesInit == Init => PlacesInv
<1> SUFFICES ASSUME Init PROVE PlacesInv
  OBVIOUS
<1>1. TypeOK /\ SettlesATrace
  BY TypeInit
<1>2. Filed /\ JudgedApart /\ InFlight
  BY DEF Init, NoSpans, Filed, JudgedApart, Remaining, LateRemaining, InFlight
<1>3. AllInOneMap
  BY ConfigAssumption, Zenon DEF Init, NoSpans, AllInOneMap, InOneMap, JustWritten
<1> QED
  BY <1>1, <1>2, <1>3 DEF PlacesInv

\* The invariant holds in every reachable state.
LEMMA PlacesHold == Spec => []PlacesInv
BY PlacesInit, PlacesStep, PTL DEF Spec

\* In exactly one map means counted once.
LEMMA OneMapIsOneCopy == PlacesInv => HeldOnce
<1> SUFFICES ASSUME PlacesInv, NEW s \in Span
             PROVE Copies(s) = IF fate[s] = "held" \/ s \in JustWritten THEN 1 ELSE 0
  BY DEF HeldOnce
<1> DEFINE t == TraceOf[s]
           maps == <<pending, ready, waiting, late, lateBatch>>
           in == {i \in 1..5 : s \in maps[i][t]}
<1>1. InOneMap(s)
  BY DEF PlacesInv, AllInOneMap
<1>4. Copies(s) = Cardinality(in)
  BY DEF Copies
<1>m. /\ maps[1] = pending /\ maps[2] = ready /\ maps[3] = waiting
      /\ maps[4] = late /\ maps[5] = lateBatch
  OBVIOUS
<1>n. 1 \in 1..5 /\ 2 \in 1..5 /\ 3 \in 1..5 /\ 4 \in 1..5 /\ 5 \in 1..5
  OBVIOUS
<1> HIDE DEF maps
<1>3. in \subseteq 1..5
  OBVIOUS
<1>2. /\ 1 \in in <=> s \in pending[t]
      /\ 2 \in in <=> s \in ready[t]
      /\ 3 \in in <=> s \in waiting[t]
      /\ 4 \in in <=> s \in late[t]
      /\ 5 \in in <=> s \in lateBatch[t]
  <2>1. \A i \in 1..5 : i \in in <=> s \in maps[i][t]
    OBVIOUS
  <2> HIDE DEF in
  <2> QED
    BY <1>m, <1>n, <2>1, Zenon
<1> HIDE DEF in
<1>5. CASE fate[s] = "held" \/ s \in JustWritten
  <2>1. \E i \in 1..5 : i \in in /\ \A j \in 1..5 : j # i => j \notin in
    <3>1. \A i \in 1..5 : i = 1 \/ i = 2 \/ i = 3 \/ i = 4 \/ i = 5
      OBVIOUS
    <3>2. s \in pending[t] \/ s \in ready[t] \/ s \in waiting[t] \/ s \in late[t] \/ s \in lateBatch[t]
      BY <1>1, <1>5 DEF InOneMap
    <3> HIDE DEF t
    <3>3. CASE 1 \in in
      BY <1>1, <1>2, <3>1, <3>3 DEF InOneMap, t
    <3>4. CASE 2 \in in
      BY <1>1, <1>2, <3>1, <3>4 DEF InOneMap, t
    <3>5. CASE 3 \in in
      BY <1>1, <1>2, <3>1, <3>5 DEF InOneMap, t
    <3>6. CASE 4 \in in
      BY <1>1, <1>2, <3>1, <3>6 DEF InOneMap, t
    <3>7. CASE 5 \in in
      BY <1>1, <1>2, <3>1, <3>7 DEF InOneMap, t
    <3> QED
      BY <1>2, <3>2, <3>3, <3>4, <3>5, <3>6, <3>7
  <2>2. \E i \in 1..5 : in = {i}
    BY <1>3, <2>1, Zenon
  <2>3. Cardinality(in) = 1
    BY <2>2, FS_Singleton
  <2> QED
    BY <1>4, <1>5, <2>3
<1>6. CASE ~(fate[s] = "held" \/ s \in JustWritten)
  <2>1. in = {}
    BY <1>1, <1>2, <1>3, <1>6 DEF InOneMap
  <2> QED
    BY <1>4, <1>6, <2>1, FS_EmptySet
<1> QED
  BY <1>5, <1>6

\* The sampler's state is always of the declared types: in particular a
\* service's tokens never go negative or past its burst.
THEOREM TypeCorrect == Spec => []TypeOK
BY PlacesHold, PTL DEF PlacesInv

\* No accepted span leaks out of the sampler's maps and none is in two of them,
\* for any number of concurrent exports interleaved with judge, decide, settle
\* and writeLate, whatever the writer answers.
THEOREM HeldOnceAlways == Spec => []HeldOnce
BY PlacesHold, OneMapIsOneCopy, PTL

(***************************************************************************)
(* Stats.Buffered.                                                         *)
(***************************************************************************)

\* Counting two disjoint sets of spans, as Accept does when it adds what it holds.
LEMMA CountUnion ==
  ASSUME NEW S \in SUBSET Span, NEW T \in SUBSET Span, S \cap T = {}
  PROVE  Cardinality(S \cup T) = Cardinality(S) + Cardinality(T)
<1>1. IsFiniteSet(S) /\ IsFiniteSet(T) /\ Cardinality(S) \in Nat /\ Cardinality(T) \in Nat
  BY SpansAreCounted
<1>2. Cardinality(S \cap T) = 0
  BY FS_EmptySet
<1>3. Cardinality(S \cup T) = Cardinality(S) + Cardinality(T) - Cardinality(S \cap T)
  BY <1>1, FS_Union, Zenon
<1> DEFINE n == Cardinality(S \cup T)
           m == Cardinality(S \cap T)
<1> HIDE DEF n, m
<1>4. n = Cardinality(S) + Cardinality(T) - m /\ m = 0
  BY <1>2, <1>3, Zenon DEF n, m
<1>5. n = Cardinality(S) + Cardinality(T)
  BY <1>1, <1>4
<1> QED
  BY <1>5, Zenon DEF n

\* Counting what is left of a set of spans, as judge, settle and writeLate do.
LEMMA CountMinus ==
  ASSUME NEW S \in SUBSET Span, NEW T \in SUBSET S
  PROVE  Cardinality(S \ T) = Cardinality(S) - Cardinality(T)
<1>1. /\ (S \ T) \cap T = {} /\ (S \ T) \cup T = S
      /\ Cardinality(S \ T) \in Nat /\ Cardinality(T) \in Nat /\ Cardinality(S) \in Nat
  BY SpansAreCounted
<1>2. Cardinality((S \ T) \cup T) = Cardinality(S \ T) + Cardinality(T)
  BY <1>1, CountUnion
<1>3. Cardinality(S) = Cardinality(S \ T) + Cardinality(T)
  BY <1>1, <1>2, Zenon
<1> QED
  BY <1>1, <1>3

\* Every step keeps the count of buffered spans exact and within MaxSpans.
LEMMA BufferedStep == PlacesInv /\ BufferedIsExact /\ [Next]_vars => BufferedIsExact'
<1> SUFFICES ASSUME PlacesInv, BufferedIsExact, [Next]_vars PROVE BufferedIsExact'
  OBVIOUS
<1> USE DEF tables, accepting, sweeper
<1> DEFINE P == All(pending)
           W == All(waiting)
           L == All(late)
<1>0. /\ pending \in [Trace -> SUBSET Span] /\ waiting \in [Trace -> SUBSET Span]
      /\ late \in [Trace -> SUBSET Span] /\ ready \in [Trace -> SUBSET Span]
      /\ batch \in [Handler -> SUBSET Span] /\ TraceOf \in [Span -> Trace]
      /\ decided \in [Trace -> {"none", "keep", "drop"}]
      /\ stats \in Counters /\ MaxSpans \in Nat
      /\ SettlesATrace /\ Filed /\ JudgedApart /\ InFlight /\ AllInOneMap
  BY ConfigAssumption DEF PlacesInv, TypeOK
<1>a. /\ P \in SUBSET Span /\ W \in SUBSET Span /\ L \in SUBSET Span
      /\ Cardinality(P) \in Nat /\ Cardinality(W) \in Nat /\ Cardinality(L) \in Nat
  BY SpansAreCounted DEF All
<1>b. stats.Buffered = Cardinality(P) + Cardinality(W) + Cardinality(L) /\ stats.Buffered <= MaxSpans
  BY DEF BufferedIsExact
<1>c. \A s \in P \cup W \cup L : fate[s] = "held"
  <2> SUFFICES ASSUME NEW s \in Span, s \in pending[TraceOf[s]] \cup waiting[TraceOf[s]] \cup late[TraceOf[s]]
               PROVE fate[s] = "held"
    BY DEF All
  <2>1. InOneMap(s)
    BY <1>0 DEF AllInOneMap
  <2>2. s \notin ready[TraceOf[s]]
    BY <2>1 DEF InOneMap
  <2>3. s \notin JustWritten
    BY <1>0, <2>2 DEF JustWritten, Filed, SettlesATrace
  <2> QED
    BY <2>1, <2>3 DEF InOneMap
<1>d. P \cap W = {} /\ P \cap L = {} /\ W \cap L = {}
  BY <1>0 DEF AllInOneMap, InOneMap, All
<1>e. ASSUME pending' = pending, waiting' = waiting, late' = late, stats'.Buffered = stats.Buffered
      PROVE  BufferedIsExact'
  BY <1>b, <1>e DEF BufferedIsExact
<1>1. ASSUME NEW b, AcceptTooLarge(b) PROVE BufferedIsExact'
  BY <1>1, <1>e DEF AcceptTooLarge
<1>2. ASSUME NEW h \in Handler, NEW b, AcceptCall(h, b) PROVE BufferedIsExact'
  BY <1>2, <1>e DEF AcceptCall
<1>3. ASSUME NEW h \in Handler, AcceptRefuse(h) PROVE BufferedIsExact'
  BY <1>3, <1>e DEF AcceptRefuse
<1>4. ASSUME NEW h \in Handler, AcceptLocked(h) PROVE BufferedIsExact'
  <2> DEFINE B == batch[h]
             verdict(s) == Verdict(TraceOf[s], acceptNow[h])
             inP == {s \in B : TraceOf[s] \notin judging /\ verdict(s) = "none"}
             inW == {s \in B : TraceOf[s] \in judging}
             inL == {s \in B : TraceOf[s] \notin judging /\ verdict(s) = "keep"}
  <2>1. B \in SUBSET Span /\ \A s \in B : fate[s] = "export"
    BY <1>0 DEF InFlight
  <2>2. \A s \in B : /\ verdict(s) \in {"none", "keep", "drop"}
                     /\ TraceOf[s] \in judging => verdict(s) = "none"
    BY <1>0, <2>1 DEF Verdict
  <2>3. All(pending') = P \cup inP /\ All(waiting') = W \cup inW /\ All(late') = L \cup inL
    <3>1. ASSUME NEW s \in Span
          PROVE /\ s \in pending'[TraceOf[s]] <=> s \in P \cup inP
                /\ s \in waiting'[TraceOf[s]] <=> s \in W \cup inW
                /\ s \in late'[TraceOf[s]] <=> s \in L \cup inL
      BY <1>0, <1>4, <2>1 DEF AcceptLocked, OfTrace, All
    <3> QED
      BY <2>1, <3>1 DEF All
  <2>4. Room(h) = (inP \cup inW) \cup inL
    BY <2>2 DEF Room
  <2>5. stats'.Buffered = stats.Buffered + Cardinality(Room(h)) /\ stats.Buffered + Cardinality(Room(h)) <= MaxSpans
    BY <1>0, <1>4 DEF AcceptLocked, Counters
  <2>6. /\ inP \in SUBSET Span /\ inW \in SUBSET Span /\ inL \in SUBSET Span
        /\ P \cap inP = {} /\ W \cap inW = {} /\ L \cap inL = {}
        /\ inP \cap inW = {} /\ (inP \cup inW) \cap inL = {}
    BY <1>c, <2>1
  <2> HIDE DEF inP, inW, inL, P, W, L
  <2>7. /\ Cardinality(P \cup inP) = Cardinality(P) + Cardinality(inP)
        /\ Cardinality(W \cup inW) = Cardinality(W) + Cardinality(inW)
        /\ Cardinality(L \cup inL) = Cardinality(L) + Cardinality(inL)
        /\ Cardinality(inP \cup inW) = Cardinality(inP) + Cardinality(inW)
        /\ Cardinality((inP \cup inW) \cup inL) = Cardinality(inP \cup inW) + Cardinality(inL)
    BY <1>a, <2>6, CountUnion, Zenon
  <2>8. Cardinality(inP) \in Nat /\ Cardinality(inW) \in Nat /\ Cardinality(inL) \in Nat
    BY <2>6, SpansAreCounted
  <2>9. Cardinality(Room(h)) = Cardinality(inP) + Cardinality(inW) + Cardinality(inL)
    BY <2>4, <2>7, Zenon
  <2>10. /\ Cardinality(All(pending')) = Cardinality(P) + Cardinality(inP)
         /\ Cardinality(All(waiting')) = Cardinality(W) + Cardinality(inW)
         /\ Cardinality(All(late')) = Cardinality(L) + Cardinality(inL)
    BY <2>3, <2>7, Zenon
  <2>11. /\ stats'.Buffered = Cardinality(All(pending')) + Cardinality(All(waiting')) + Cardinality(All(late'))
         /\ stats'.Buffered <= MaxSpans
    BY <1>a, <1>b, <2>5, <2>8, <2>9, <2>10
  <2> QED
    BY <2>11 DEF BufferedIsExact
<1>5. CASE SweepStart
  BY <1>5, <1>e DEF SweepStart
<1>6. CASE FlushStart
  BY <1>6, <1>e DEF FlushStart
<1>7. CASE Stop
  BY <1>7, <1>e DEF Stop
<1>8. CASE Judge
  <2> DEFINE taken == {s \in P : Due(TraceOf[s])}
  <2>1. taken \in SUBSET P
    OBVIOUS
  <2>2. All(pending') = P \ taken /\ All(waiting') = W /\ late' = late
    <3>1. ASSUME NEW s \in Span
          PROVE /\ s \in pending'[TraceOf[s]] <=> s \in P \ taken
                /\ s \in waiting'[TraceOf[s]] <=> s \in W
      <4>1. pending[TraceOf[s]] # {} => waiting[TraceOf[s]] = {}
        BY <1>0 DEF JudgedApart
      <4> QED
        BY <1>0, <1>8, <4>1 DEF Judge, All, Due
    <3> QED
      BY <1>8, <3>1 DEF Judge, All
  <2>3. stats'.Buffered = stats.Buffered - Cardinality(taken)
    <3>1. {s \in All(pending) : TraceOf[s] \in {t \in Trace : Due(t)}} = taken
      BY <1>0 DEF All
    <3> HIDE DEF taken
    <3> QED
      BY <1>0, <1>8, <3>1, Zenon DEF Judge, Counters
  <2> HIDE DEF taken, P, W, L
  <2>4. Cardinality(P \ taken) = Cardinality(P) - Cardinality(taken)
    BY <1>a, <2>1, CountMinus
  <2>5. Cardinality(taken) \in Nat
    BY <1>a, <2>1, SpansAreCounted
  <2>6. /\ Cardinality(All(pending')) = Cardinality(P) - Cardinality(taken)
        /\ Cardinality(All(waiting')) = Cardinality(W) /\ Cardinality(All(late')) = Cardinality(L)
    BY <2>2, <2>4, Zenon DEF L
  <2>7. /\ stats'.Buffered = Cardinality(All(pending')) + Cardinality(All(waiting')) + Cardinality(All(late'))
        /\ stats'.Buffered <= MaxSpans
    BY <1>0, <1>a, <1>b, <2>3, <2>5, <2>6 DEF Counters
  <2> QED
    BY <2>7 DEF BufferedIsExact
<1>9. ASSUME NEW t \in Trace, NEW keep, NEW ok, Decide(t, keep, ok) PROVE BufferedIsExact'
  BY <1>9, <1>e DEF Decide
<1>10. CASE Settle
  <2> DEFINE w == waiting[cur.id]
  <2>1. cur.id \in Trace /\ w \in SUBSET W
    BY <1>0, <1>10 DEF Settle, SettlesATrace, All, Filed
  <2>2. pending' = pending /\ All(waiting') = W \ w
    <3>1. ASSUME NEW s \in Span PROVE s \in waiting'[TraceOf[s]] <=> s \in W \ w
      BY <1>0, <1>10, <2>1 DEF Settle, All, Filed
    <3> QED
      BY <1>10, <3>1 DEF Settle, All
  <2>3. All(late') = IF cur.keep THEN L \cup w ELSE L
    <3>1. ASSUME NEW s \in Span PROVE s \in late'[TraceOf[s]] <=> s \in IF cur.keep THEN L \cup w ELSE L
      BY <1>0, <1>10, <2>1 DEF Settle, All, Filed
    <3> QED
      BY <1>a, <2>1, <3>1 DEF All
  <2>4. stats'.Buffered = IF cur.keep THEN stats.Buffered ELSE stats.Buffered - Cardinality(w)
    BY <1>0, <1>10 DEF Settle, Counters
  <2>5. L \cap w = {} /\ w \in SUBSET Span
    BY <1>a, <1>d, <2>1
  <2> HIDE DEF w, P, W, L
  <2>6. /\ Cardinality(W \ w) = Cardinality(W) - Cardinality(w)
        /\ Cardinality(L \cup w) = Cardinality(L) + Cardinality(w)
    BY <1>a, <2>1, <2>5, CountMinus, CountUnion, Zenon
  <2>7. Cardinality(w) \in Nat
    BY <2>5, SpansAreCounted
  <2>8. /\ Cardinality(All(pending')) = Cardinality(P)
        /\ Cardinality(All(waiting')) = Cardinality(W) - Cardinality(w)
        /\ Cardinality(All(late')) = IF cur.keep THEN Cardinality(L) + Cardinality(w) ELSE Cardinality(L)
    BY <2>2, <2>3, <2>6, Zenon DEF P
  <2>9. /\ stats'.Buffered = Cardinality(All(pending')) + Cardinality(All(waiting')) + Cardinality(All(late'))
        /\ stats'.Buffered <= MaxSpans
    BY <1>0, <1>a, <1>b, <2>4, <2>7, <2>8 DEF Counters
  <2> QED
    BY <2>9 DEF BufferedIsExact
<1>11. CASE Forget
  BY <1>11, <1>e, Zenon DEF Forget
<1>12. CASE TakeLate
  <2>1. pending' = pending /\ waiting' = waiting /\ All(late') = {}
    BY <1>0, <1>12 DEF TakeLate, NoSpans, All
  <2>2. stats'.Buffered = stats.Buffered - Cardinality(L)
    BY <1>0, <1>12 DEF TakeLate, Counters
  <2> HIDE DEF P, W, L
  <2>3. /\ Cardinality(All(pending')) = Cardinality(P) /\ Cardinality(All(waiting')) = Cardinality(W)
        /\ Cardinality(All(late')) = 0
    BY <2>1, FS_EmptySet, Zenon DEF P, W
  <2>4. /\ stats'.Buffered = Cardinality(All(pending')) + Cardinality(All(waiting')) + Cardinality(All(late'))
        /\ stats'.Buffered <= MaxSpans
    BY <1>0, <1>a, <1>b, <2>2, <2>3 DEF Counters
  <2> QED
    BY <2>4 DEF BufferedIsExact
<1>13. ASSUME NEW t \in Trace, NEW ok, WriteLate(t, ok) PROVE BufferedIsExact'
  <2>1. stats'.Buffered = stats.Buffered
    BY <1>0, <1>13 DEF WriteLate, Counters
  <2> QED
    BY <1>13, <1>e, <2>1 DEF WriteLate
<1>14. CASE SweepDone
  BY <1>14, <1>e DEF SweepDone
<1>15. CASE Tick
  BY <1>15, <1>e DEF Tick
<1>16. CASE UNCHANGED vars
  BY <1>16, <1>e DEF vars
<1> QED
  BY <1>1, <1>2, <1>3, <1>4, <1>5, <1>6, <1>7, <1>8, <1>9, <1>10, <1>11, <1>12, <1>13, <1>14, <1>15, <1>16
  DEF Next, Exports, Accepts, Run, Deciding, WritingLate

\* Stats.Buffered, by which Accept refuses batches, is exact and never past
\* MaxSpans, although four critical sections of two goroutines maintain it.
THEOREM BufferedIsExactAlways == Spec => []BufferedIsExact
<1>1. Init => BufferedIsExact
  <2> SUFFICES ASSUME Init PROVE BufferedIsExact
    OBVIOUS
  <2>1. All(pending) = {} /\ All(waiting) = {} /\ All(late) = {} /\ stats.Buffered = 0
    BY ConfigAssumption DEF Init, All, NoSpans
  <2>2. Cardinality(All(pending)) = 0 /\ Cardinality(All(waiting)) = 0 /\ Cardinality(All(late)) = 0
    BY <2>1, FS_EmptySet, Zenon
  <2> QED
    BY <2>1, <2>2, ConfigAssumption DEF BufferedIsExact
<1>2. PlacesInv /\ BufferedIsExact /\ [Next]_vars => BufferedIsExact'
  BY BufferedStep
<1> QED
  BY <1>1, <1>2, PlacesHold, PTL DEF Spec

(***************************************************************************)
(* The counters of accepted spans.  StatsAddUp is not inductive: a trace   *)
(* is written before settle, under the lock again, counts it as kept.      *)
(***************************************************************************)

Accounted == Having("held") \cup Having("written") \cup Having("dropped") \cup Having("lost")

StatsInv ==
  /\ stats.Accepted = Cardinality(Accounted)
  /\ stats.DroppedSpans + stats.LateDropped = Cardinality(Having("dropped"))
  /\ stats.Lost = Cardinality(Having("lost"))
  /\ stats.KeptSpans + Cardinality(JustWritten) <= Cardinality(Having("written"))

\* A span in one of the sampler's maps is held, unless decide has just written it.
LEMMA MapsAreHeld ==
  ASSUME PlacesInv, NEW t \in Trace,
         NEW s \in pending[t] \cup ready[t] \cup waiting[t] \cup late[t] \cup lateBatch[t]
  PROVE  /\ s \in Span /\ TraceOf[s] = t
         /\ s \notin JustWritten => fate[s] = "held"
         /\ s \notin ready[t] => fate[s] = "held"
<1>1. /\ s \in Span /\ TraceOf[s] = t
  BY DEF PlacesInv, TypeOK, Filed
<1>2. InOneMap(s)
  BY <1>1 DEF PlacesInv, AllInOneMap
<1>3. s \in JustWritten => s \in ready[TraceOf[s]]
  BY DEF PlacesInv, JustWritten, Filed, SettlesATrace
<1> QED
  BY <1>1, <1>2, <1>3 DEF InOneMap

\* Every step of the sampler accounts for the spans it moves.
LEMMA StatsStep == PlacesInv /\ StatsInv /\ [Next]_vars => StatsInv'
<1> SUFFICES ASSUME PlacesInv, StatsInv, [Next]_vars PROVE StatsInv'
  OBVIOUS
<1> USE DEF tables, accepting, sweeper
<1>0. /\ pending \in [Trace -> SUBSET Span] /\ waiting \in [Trace -> SUBSET Span]
      /\ late \in [Trace -> SUBSET Span] /\ ready \in [Trace -> SUBSET Span]
      /\ lateBatch \in [Trace -> SUBSET Span]
      /\ batch \in [Handler -> SUBSET Span] /\ TraceOf \in [Span -> Trace]
      /\ decided \in [Trace -> {"none", "keep", "drop"}]
      /\ fate \in [Span -> Fates] /\ stats \in Counters
      /\ SettlesATrace /\ InFlight
      /\ cur.keep \in BOOLEAN /\ cur.ok \in BOOLEAN
  BY ConfigAssumption DEF PlacesInv, TypeOK
<1> DEFINE A == Accounted
           D == Having("dropped")
           L == Having("lost")
           W == Having("written")
           J == JustWritten
<1>a. /\ A \in SUBSET Span /\ D \in SUBSET Span /\ L \in SUBSET Span /\ W \in SUBSET Span /\ J \in SUBSET Span
      /\ Cardinality(A) \in Nat /\ Cardinality(D) \in Nat /\ Cardinality(L) \in Nat
      /\ Cardinality(W) \in Nat /\ Cardinality(J) \in Nat
  <2>1. A \in SUBSET Span /\ D \in SUBSET Span /\ L \in SUBSET Span /\ W \in SUBSET Span
    BY DEF Accounted, Having
  <2>2. J \in SUBSET Span
    BY <1>0 DEF JustWritten, SettlesATrace
  <2> QED
    BY <2>1, <2>2, SpansAreCounted
<1>b. /\ stats.Accepted \in Int /\ stats.DroppedSpans \in Int /\ stats.LateDropped \in Int
      /\ stats.Lost \in Int /\ stats.KeptSpans \in Int
  BY <1>0 DEF Counters
<1>c. ASSUME A' = A, D' = D, L' = L, W' = W, J' = J,
             stats'.Accepted = stats.Accepted, stats'.DroppedSpans = stats.DroppedSpans,
             stats'.LateDropped = stats.LateDropped, stats'.Lost = stats.Lost, stats'.KeptSpans = stats.KeptSpans
      PROVE  StatsInv'
  BY <1>c, Zenon DEF StatsInv
<1>d. ASSUME fate' = fate, pc' = pc, cur' = cur, ready' = ready, stats' = stats
      PROVE  StatsInv'
  BY <1>c, <1>d DEF Accounted, Having, JustWritten
<1>e. ASSUME NEW S \in SUBSET Span, NEW x, NEW y, \A s \in S : fate[s] = x, fate' = Become(S, y),
             {x, y} \cap {"held", "written", "dropped", "lost"} = {},
             pc' = pc, cur' = cur, ready' = ready, stats' = stats
      PROVE  StatsInv'
  <2>1. \A what \in {"held", "written", "dropped", "lost"} : Having(what)' = Having(what)
    <3> SUFFICES ASSUME NEW what \in {"held", "written", "dropped", "lost"}, NEW s \in Span
                 PROVE  fate'[s] = what <=> fate[s] = what
      BY DEF Having
    <3> QED
      BY <1>0, <1>e, Zenon DEF Become
  <2> QED
    BY <1>c, <1>e, <2>1 DEF Accounted, JustWritten
<1>1. ASSUME NEW b \in SUBSET Having("client"), AcceptTooLarge(b) PROVE StatsInv'
  <2>1. b \in SUBSET Span /\ \A s \in b : fate[s] = "client"
    BY DEF Having
  <2> QED
    BY <1>1, <1>e, <2>1 DEF AcceptTooLarge
<1>2. ASSUME NEW h \in Handler, NEW b \in SUBSET Having("client"), AcceptCall(h, b) PROVE StatsInv'
  <2>1. b \in SUBSET Span /\ \A s \in b : fate[s] = "client"
    BY DEF Having
  <2> QED
    BY <1>2, <1>e, <2>1, Zenon DEF AcceptCall
<1>3. ASSUME NEW h \in Handler, AcceptRefuse(h) PROVE StatsInv'
  <2>1. batch[h] \in SUBSET Span /\ \A s \in batch[h] : fate[s] = "export"
    BY <1>0 DEF InFlight
  <2> QED
    BY <1>3, <1>e, <2>1, Zenon DEF AcceptRefuse
<1>4. ASSUME NEW h \in Handler, AcceptLocked(h) PROVE StatsInv'
  <2> DEFINE B == batch[h]
             In(t) == OfTrace(B, t)
             Goes(t, v) == t \notin judging /\ Verdict(t, acceptNow[h]) = v /\ In(t) # {}
             toDrop == {s \in B : Goes(TraceOf[s], "drop")}
  <2>1. B \in SUBSET Span /\ toDrop \in SUBSET B /\ \A s \in B : fate[s] = "export"
    BY <1>0 DEF InFlight
  <2>2. fate' = [s \in Span |-> IF s \in toDrop THEN "dropped" ELSE IF s \in B THEN "held" ELSE fate[s]]
    BY <1>4 DEF AcceptLocked
  <2>3. /\ stats'.Accepted = stats.Accepted + Cardinality(B)
        /\ stats'.LateDropped = stats.LateDropped + Cardinality(toDrop)
        /\ stats'.DroppedSpans = stats.DroppedSpans /\ stats'.Lost = stats.Lost /\ stats'.KeptSpans = stats.KeptSpans
    BY <1>0, <1>4 DEF AcceptLocked, Counters
  <2>4. J' = J
    BY <1>4 DEF AcceptLocked, JustWritten
  <2> HIDE DEF toDrop
  <2>5. /\ A' = A \cup B /\ D' = D \cup toDrop /\ L' = L /\ W' = W
        /\ A \cap B = {} /\ D \cap toDrop = {}
    BY <1>0, <2>1, <2>2 DEF Accounted, Having
  <2>6. /\ Cardinality(B) \in Nat /\ Cardinality(toDrop) \in Nat
    BY <2>1, SpansAreCounted
  <2> HIDE DEF A, D, L, W, J, B
  <2>7. /\ Cardinality(A \cup B) = Cardinality(A) + Cardinality(B)
        /\ Cardinality(D \cup toDrop) = Cardinality(D) + Cardinality(toDrop)
    BY <1>a, <2>1, <2>5, CountUnion, Zenon
  <2>8. /\ Cardinality(A') = Cardinality(A) + Cardinality(B)
        /\ Cardinality(D') = Cardinality(D) + Cardinality(toDrop)
        /\ Cardinality(L') = Cardinality(L) /\ Cardinality(W') = Cardinality(W) /\ Cardinality(J') = Cardinality(J)
    BY <2>4, <2>5, <2>7, Zenon
  <2>9. /\ stats.Accepted = Cardinality(A) /\ stats.DroppedSpans + stats.LateDropped = Cardinality(D)
        /\ stats.Lost = Cardinality(L) /\ stats.KeptSpans + Cardinality(J) <= Cardinality(W)
    BY DEF StatsInv, A, D, L, W, J
  <2>10. /\ stats'.Accepted = Cardinality(A') /\ stats'.DroppedSpans + stats'.LateDropped = Cardinality(D')
         /\ stats'.Lost = Cardinality(L') /\ stats'.KeptSpans + Cardinality(J') <= Cardinality(W')
    BY <1>a, <1>b, <2>3, <2>6, <2>8, <2>9
  <2> QED
    BY <2>10, Zenon DEF StatsInv, A, D, L, W, J
<1>5. CASE SweepStart
  BY <1>5, <1>c DEF SweepStart, Accounted, Having, JustWritten
<1>6. CASE FlushStart
  BY <1>6, <1>c DEF FlushStart, Accounted, Having, JustWritten
<1>7. CASE Stop
  BY <1>7, <1>d DEF Stop
<1>8. CASE Judge
  <2>1. A' = A /\ D' = D /\ L' = L /\ W' = W /\ J' = J
    BY <1>8 DEF Judge, Accounted, Having, JustWritten
  <2>2. /\ stats'.Accepted = stats.Accepted /\ stats'.DroppedSpans = stats.DroppedSpans
        /\ stats'.LateDropped = stats.LateDropped /\ stats'.Lost = stats.Lost /\ stats'.KeptSpans = stats.KeptSpans
    BY <1>0, <1>8 DEF Judge, Counters
  <2> QED
    BY <1>c, <2>1, <2>2
<1>9. ASSUME NEW t \in Trace, NEW keep \in BOOLEAN, NEW ok \in BOOLEAN, Decide(t, keep, ok) PROVE StatsInv'
  <2> DEFINE R == ready[t]
  <2>1. pc = "decide" /\ pc' = "settle" /\ cur' = [id |-> t, keep |-> keep, ok |-> ok] /\ ready' = ready /\ stats' = stats
    BY <1>9 DEF Decide
  <2>2. J = {} /\ J' = IF ok THEN R ELSE {}
    BY <2>1 DEF JustWritten
  <2>3. CASE ok
    <3>1. fate' = Become(R, "written")
      BY <1>9, <2>3, Zenon DEF Decide
    <3>2. R \in SUBSET Span /\ \A s \in R : fate[s] = "held"
      BY <1>0, <2>2, MapsAreHeld
    <3>3. A' = A /\ D' = D /\ L' = L /\ W' = W \cup R /\ W \cap R = {}
      BY <1>0, <3>1, <3>2 DEF Become, Accounted, Having
    <3>4. Cardinality(R) \in Nat
      BY <3>2, SpansAreCounted
    <3> HIDE DEF A, D, L, W, J, R
    <3>5. Cardinality(W \cup R) = Cardinality(W) + Cardinality(R)
      BY <1>a, <3>2, <3>3, CountUnion, Zenon
    <3>6. Cardinality({}) = 0
      BY FS_EmptySet
    <3>7. /\ Cardinality(A') = Cardinality(A) /\ Cardinality(D') = Cardinality(D) /\ Cardinality(L') = Cardinality(L)
          /\ Cardinality(W') = Cardinality(W) + Cardinality(R) /\ Cardinality(J') = Cardinality(R) /\ Cardinality(J) = 0
      BY <2>2, <2>3, <3>3, <3>5, <3>6, Zenon
    <3>8. stats.KeptSpans + Cardinality(J) <= Cardinality(W)
      BY DEF StatsInv, W, J
    <3>9. stats'.KeptSpans + Cardinality(J') <= Cardinality(W')
      BY <1>a, <1>b, <2>1, <3>4, <3>7, <3>8
    <3> QED
      BY <2>1, <3>7, <3>9, Zenon DEF StatsInv, A, D, L, W, J
  <2>4. CASE ~ok
    <3>1. fate' = fate
      BY <1>9, <2>4, Zenon DEF Decide
    <3> QED
      BY <1>c, <2>1, <2>2, <2>4, <3>1, Zenon DEF Accounted, Having
  <2> QED
    BY <2>3, <2>4
<1>10. CASE Settle
  <2> DEFINE R == ready[cur.id]
             Q == waiting[cur.id]
  <2>1. /\ pc = "settle" /\ cur.id \in Trace /\ pc' = "decide" /\ R \in SUBSET Span /\ Q \in SUBSET Span
        /\ cur.ok => cur.keep
    BY <1>0, <1>10 DEF Settle, SettlesATrace
  <2>2. J = (IF cur.ok THEN R ELSE {}) /\ J' = {}
    BY <2>1 DEF JustWritten
  <2>3. /\ ~cur.ok => \A s \in R : fate[s] = "held"
        /\ \A s \in Q : fate[s] = "held"
        /\ R \cap Q = {}
    <3>1. ~cur.ok => \A s \in R : fate[s] = "held"
      BY <2>1, <2>2, MapsAreHeld, Zenon
    <3>2. R \cap Q = {}
      <4> SUFFICES ASSUME NEW s \in R, s \in Q PROVE FALSE
        OBVIOUS
      <4>1. s \in Span /\ TraceOf[s] = cur.id
        BY <2>1, MapsAreHeld, Zenon
      <4> QED
        BY <4>1 DEF PlacesInv, AllInOneMap, InOneMap
    <3> QED
      BY <2>1, <3>1, <3>2, MapsAreHeld
  <2>4. Cardinality(R) \in Nat /\ Cardinality(Q) \in Nat /\ Cardinality({}) = 0
    BY <2>1, SpansAreCounted, FS_EmptySet
  <2>5. /\ stats'.Accepted = stats.Accepted
        /\ stats'.KeptSpans = IF cur.ok THEN stats.KeptSpans + Cardinality(R) ELSE stats.KeptSpans
        /\ stats'.Lost = IF cur.keep /\ ~cur.ok THEN stats.Lost + Cardinality(R) ELSE stats.Lost
        /\ stats'.LateDropped = IF cur.keep THEN stats.LateDropped ELSE stats.LateDropped + Cardinality(Q)
        /\ stats'.DroppedSpans = IF cur.keep THEN stats.DroppedSpans ELSE stats.DroppedSpans + Cardinality(R)
    <3>1. CASE cur.keep
      <4>1. stats' = [stats EXCEPT !.LateKept = @ + Cardinality(Q),
                                   !.KeptSpans = IF cur.ok THEN @ + Cardinality(R) ELSE @,
                                   !.Lost = IF cur.ok THEN @ ELSE @ + Cardinality(R)]
        BY <1>10, <3>1 DEF Settle
      <4> HIDE DEF R, Q
      <4> QED
        BY <1>0, <3>1, <4>1 DEF Counters
    <3>2. CASE ~cur.keep
      <4>1. stats' = [stats EXCEPT !.Buffered = @ - Cardinality(Q), !.LateDropped = @ + Cardinality(Q),
                                   !.DroppedSpans = @ + Cardinality(R)]
        BY <1>10, <3>2 DEF Settle
      <4> HIDE DEF R, Q
      <4> QED
        BY <1>0, <2>1, <3>2, <4>1 DEF Counters
    <3> QED
      BY <3>1, <3>2, Zenon
  <2>6. fate' = IF cur.ok THEN fate ELSE IF cur.keep THEN Become(R, "lost") ELSE Become(R \cup Q, "dropped")
    BY <1>10 DEF Settle
  <2>7. /\ stats.Accepted = Cardinality(A) /\ stats.DroppedSpans + stats.LateDropped = Cardinality(D)
        /\ stats.Lost = Cardinality(L) /\ stats.KeptSpans + Cardinality(J) <= Cardinality(W)
    BY DEF StatsInv
  <2> HIDE DEF R, Q
  <2>8. CASE cur.ok
    <3>1. A' = A /\ D' = D /\ L' = L /\ W' = W
      BY <2>6, <2>8 DEF Accounted, Having
    <3> HIDE DEF A, D, L, W, J
    <3>2. /\ Cardinality(A') = Cardinality(A) /\ Cardinality(D') = Cardinality(D) /\ Cardinality(L') = Cardinality(L)
          /\ Cardinality(W') = Cardinality(W) /\ Cardinality(J') = 0 /\ Cardinality(J) = Cardinality(R)
      BY <2>2, <2>4, <2>8, <3>1, Zenon
    <3>3. /\ stats'.Accepted = Cardinality(A') /\ stats'.DroppedSpans + stats'.LateDropped = Cardinality(D')
          /\ stats'.Lost = Cardinality(L') /\ stats'.KeptSpans + Cardinality(J') <= Cardinality(W')
      <4>1. cur.keep
        BY <2>1, <2>8
      <4>2. /\ stats'.Accepted = stats.Accepted /\ stats'.KeptSpans = stats.KeptSpans + Cardinality(R)
            /\ stats'.Lost = stats.Lost /\ stats'.LateDropped = stats.LateDropped
            /\ stats'.DroppedSpans = stats.DroppedSpans
        BY <2>5, <2>8, <4>1, Zenon
      <4> HIDE <2>5
      <4>3. stats'.KeptSpans + Cardinality(J') <= Cardinality(W')
        BY <1>a, <1>b, <2>4, <2>7, <3>2, <4>2
      <4> QED
        BY <2>7, <3>2, <4>2, <4>3, Zenon
    <3> QED
      BY <3>3, Zenon DEF StatsInv, A, D, L, W, J
  <2>9. CASE ~cur.ok /\ cur.keep
    <3>1. A' = A /\ D' = D /\ L' = L \cup R /\ L \cap R = {} /\ W' = W
      BY <1>0, <2>1, <2>3, <2>6, <2>9 DEF Accounted, Having, Become
    <3> HIDE DEF A, D, L, W, J
    <3>2. Cardinality(L \cup R) = Cardinality(L) + Cardinality(R)
      BY <1>a, <2>1, <3>1, CountUnion, Zenon
    <3>3. /\ Cardinality(A') = Cardinality(A) /\ Cardinality(D') = Cardinality(D)
          /\ Cardinality(L') = Cardinality(L) + Cardinality(R)
          /\ Cardinality(W') = Cardinality(W) /\ Cardinality(J') = 0 /\ Cardinality(J) = 0
      BY <2>2, <2>4, <2>9, <3>1, <3>2, Zenon
    <3>4. /\ stats'.Accepted = Cardinality(A') /\ stats'.DroppedSpans + stats'.LateDropped = Cardinality(D')
          /\ stats'.Lost = Cardinality(L') /\ stats'.KeptSpans + Cardinality(J') <= Cardinality(W')
      BY <1>a, <1>b, <2>4, <2>5, <2>7, <2>9, <3>3
    <3> QED
      BY <3>4, Zenon DEF StatsInv, A, D, L, W, J
  <2>10. CASE ~cur.ok /\ ~cur.keep
    <3> DEFINE X == R \cup Q
    <3>1. A' = A /\ D' = D \cup X /\ D \cap X = {} /\ L' = L /\ W' = W /\ X \in SUBSET Span
      BY <1>0, <2>1, <2>3, <2>6, <2>10 DEF Accounted, Having, Become
    <3>2. Cardinality(X) = Cardinality(R) + Cardinality(Q)
      BY <2>1, <2>3, CountUnion
    <3> HIDE DEF A, D, L, W, J, X
    <3>3. Cardinality(D \cup X) = Cardinality(D) + Cardinality(X)
      BY <1>a, <3>1, CountUnion
    <3>4. /\ Cardinality(A') = Cardinality(A) /\ Cardinality(D') = Cardinality(D) + Cardinality(X)
          /\ Cardinality(L') = Cardinality(L)
          /\ Cardinality(W') = Cardinality(W) /\ Cardinality(J') = 0 /\ Cardinality(J) = 0
      BY <2>2, <2>4, <2>10, <3>1, <3>3, Zenon
    <3>5. /\ stats'.Accepted = stats.Accepted /\ stats'.KeptSpans = stats.KeptSpans /\ stats'.Lost = stats.Lost
          /\ stats'.LateDropped = stats.LateDropped + Cardinality(Q)
          /\ stats'.DroppedSpans = stats.DroppedSpans + Cardinality(R)
      BY <2>5, <2>10
    <3>6. stats'.DroppedSpans + stats'.LateDropped = Cardinality(D')
      BY <1>a, <1>b, <2>4, <2>7, <3>2, <3>4, <3>5
    <3>7. stats'.Accepted = Cardinality(A') /\ stats'.Lost = Cardinality(L')
      BY <2>7, <3>4, <3>5
    <3>8. stats'.KeptSpans + Cardinality(J') <= Cardinality(W')
      BY <2>7, <3>4, <3>5
    <3> QED
      BY <3>6, <3>7, <3>8, Zenon DEF StatsInv, A, D, L, W, J
  <2> QED
    BY <1>0, <2>8, <2>9, <2>10
<1>11. CASE Forget
  BY <1>11, <1>c, Zenon DEF Forget, Accounted, Having, JustWritten
<1>12. CASE TakeLate
  <2>1. A' = A /\ D' = D /\ L' = L /\ W' = W /\ J' = J
    BY <1>12 DEF TakeLate, Accounted, Having, JustWritten
  <2>2. /\ stats'.Accepted = stats.Accepted /\ stats'.DroppedSpans = stats.DroppedSpans
        /\ stats'.LateDropped = stats.LateDropped /\ stats'.Lost = stats.Lost /\ stats'.KeptSpans = stats.KeptSpans
    BY <1>0, <1>12 DEF TakeLate, Counters
  <2> QED
    BY <1>c, <2>1, <2>2
<1>13. ASSUME NEW t \in Trace, NEW ok \in BOOLEAN, WriteLate(t, ok) PROVE StatsInv'
  <2> DEFINE B == lateBatch[t]
  <2>1. pc = "writeLate" /\ pc' = pc /\ J = {} /\ J' = {}
    BY <1>13 DEF WriteLate, JustWritten
  <2>2. B \in SUBSET Span /\ \A s \in B : fate[s] = "held"
    BY <1>0, <2>1, MapsAreHeld
  <2>3. fate' = Become(B, IF ok THEN "written" ELSE "lost")
    BY <1>13 DEF WriteLate
  <2>4. /\ stats'.Accepted = stats.Accepted /\ stats'.DroppedSpans = stats.DroppedSpans
        /\ stats'.LateDropped = stats.LateDropped /\ stats'.KeptSpans = stats.KeptSpans
        /\ stats'.Lost = IF ok THEN stats.Lost ELSE stats.Lost + Cardinality(B)
    BY <1>0, <1>13 DEF WriteLate, Counters
  <2>5. /\ A' = A /\ D' = D
        /\ L' = (IF ok THEN L ELSE L \cup B) /\ W' = (IF ok THEN W \cup B ELSE W)
        /\ L \cap B = {} /\ W \cap B = {}
    BY <1>0, <2>2, <2>3 DEF Accounted, Having, Become
  <2>6. Cardinality(B) \in Nat
    BY <2>2, SpansAreCounted
  <2>7. /\ stats.Accepted = Cardinality(A) /\ stats.DroppedSpans + stats.LateDropped = Cardinality(D)
        /\ stats.Lost = Cardinality(L) /\ stats.KeptSpans + Cardinality(J) <= Cardinality(W)
    BY DEF StatsInv
  <2> HIDE DEF A, D, L, W, J, B
  <2>8. Cardinality(L \cup B) = Cardinality(L) + Cardinality(B) /\ Cardinality(W \cup B) = Cardinality(W) + Cardinality(B)
    BY <1>a, <2>2, <2>5, CountUnion, Zenon
  <2>9. /\ Cardinality(A') = Cardinality(A) /\ Cardinality(D') = Cardinality(D) /\ Cardinality(J') = Cardinality(J)
        /\ Cardinality(L') = IF ok THEN Cardinality(L) ELSE Cardinality(L) + Cardinality(B)
        /\ Cardinality(W') = IF ok THEN Cardinality(W) + Cardinality(B) ELSE Cardinality(W)
    BY <2>1, <2>5, <2>8, Zenon
  <2>10. /\ stats'.Accepted = Cardinality(A') /\ stats'.DroppedSpans + stats'.LateDropped = Cardinality(D')
         /\ stats'.Lost = Cardinality(L') /\ stats'.KeptSpans + Cardinality(J') <= Cardinality(W')
    BY <1>a, <1>b, <2>4, <2>6, <2>7, <2>9
  <2> QED
    BY <2>10, Zenon DEF StatsInv, A, D, L, W, J
<1>14. CASE SweepDone
  BY <1>14, <1>c, Zenon DEF SweepDone, Accounted, Having, JustWritten
<1>15. CASE Tick
  BY <1>15, <1>d DEF Tick
<1>16. CASE UNCHANGED vars
  BY <1>16, <1>d DEF vars
<1> QED
  BY <1>1, <1>2, <1>3, <1>4, <1>5, <1>6, <1>7, <1>8, <1>9, <1>10, <1>11, <1>12, <1>13, <1>14, <1>15, <1>16
  DEF Next, Exports, Accepts, Run, Deciding, WritingLate

\* The counters the daemon logs account for every accepted span, whatever the
\* order in which Accept, decide, settle and writeLate add to them: none is
\* counted twice and none is missed.
THEOREM StatsAddUpAlways == Spec => []StatsAddUp
<1>1. Init => StatsInv
  <2> SUFFICES ASSUME Init PROVE StatsInv
    OBVIOUS
  <2>1. Accounted = {} /\ Having("dropped") = {} /\ Having("lost") = {} /\ Having("written") = {} /\ JustWritten = {}
    BY DEF Init, Accounted, Having, JustWritten
  <2>2. /\ stats.Accepted = 0 /\ stats.DroppedSpans = 0 /\ stats.LateDropped = 0 /\ stats.Lost = 0
        /\ stats.KeptSpans = 0
    BY DEF Init
  <2>3. Cardinality({}) = 0
    BY FS_EmptySet
  <2> QED
    BY <2>1, <2>2, <2>3 DEF StatsInv
<1>2. PlacesInv /\ StatsInv /\ [Next]_vars => StatsInv'
  BY StatsStep
<1>3. PlacesInv /\ StatsInv => StatsAddUp
  <2> SUFFICES ASSUME PlacesInv, StatsInv PROVE StatsAddUp
    OBVIOUS
  <2>1. JustWritten \in SUBSET Span /\ Having("written") \in SUBSET Span
    BY DEF PlacesInv, TypeOK, JustWritten, SettlesATrace, Having
  <2>2. Cardinality(JustWritten) \in Nat /\ Cardinality(Having("written")) \in Nat
    BY <2>1, SpansAreCounted
  <2>3. stats.KeptSpans \in Int
    BY DEF PlacesInv, TypeOK, Counters
  <2>4. stats.KeptSpans <= Cardinality(Having("written"))
    BY <2>2, <2>3 DEF StatsInv
  <2> QED
    BY <2>4 DEF StatsInv, StatsAddUp, Accounted
<1> QED
  BY <1>1, <1>2, <1>3, PlacesHold, PTL DEF Spec

(***************************************************************************)
(* The rate limit on the verdicts to keep: deleting a bucket that has its  *)
(* full allowance back never gives a service more than it earned.          *)
(***************************************************************************)

Full == ServiceBurst * TokenUnit
BucketType == [live : BOOLEAN, tokens : 0..Full, at : 0..MaxClock]

\* What a service could spend, and the time it was worked out at.  A service
\* without a bucket has its full allowance now.
Allowance(b) == IF b.live THEN b.tokens ELSE Full
AsOf(b, now) == IF b.live THEN b.at ELSE now

\* Counting from any grant in c, the traces granted since and the allowance
\* that is left are worth no more than the burst and what was earned since.
Earned(b, c, now) ==
  \A i \in DOMAIN c :
    /\ c[i] <= AsOf(b, now)
    /\ (Len(c) - i + 1) * TokenUnit + Allowance(b) <= Full + ServiceRate * (AsOf(b, now) - c[i])

\* RateIsCapped of one service.
Capped(c) ==
  \A i, j \in DOMAIN c : i <= j => (j - i + 1) * TokenUnit <= Full + ServiceRate * (c[j] - c[i])

\* The inductive invariant.  Sweep's clock reading may be older than the one a
\* bucket was last refilled with, and neither is ahead of the clock.
RateInv ==
  /\ sweepNow <= clock
  /\ \A v \in Service : /\ AsOf(buckets[v], clock) <= clock
                        /\ Earned(buckets[v], charges[v], clock)
                        /\ Capped(charges[v])

(***************************************************************************)
(* Arithmetic.                                                             *)
(***************************************************************************)

\* What is earned over two stretches of time is earned over both together.
LEMMA EarnedAddsUp ==
  ASSUME NEW r \in Nat, NEW a \in Int, NEW b \in Int, NEW c \in Int
  PROVE  r * (c - a) = r * (c - b) + r * (b - a)
OBVIOUS

\* Time that passes never costs anything.
LEMMA EarnedIsNatural ==
  ASSUME NEW r \in Nat, NEW a \in Int, NEW b \in Int, a <= b
  PROVE  r * (b - a) \in Nat
<1>1. b - a \in Nat
  OBVIOUS
<1> DEFINE d == b - a
<1> HIDE DEF d
<1>2. d \in Nat => r * d \in Nat
  OBVIOUS
<1> QED
  BY <1>1, <1>2 DEF d

LEMMA Units == Full \in Nat /\ ServiceRate \in Nat /\ TokenUnit \in Nat
BY ConfigAssumption DEF Full

\* A grant is remembered with a time of the clock.
LEMMA GrantedAt ==
  ASSUME NEW c \in Seq(0..MaxClock), NEW i \in DOMAIN c
  PROVE  c[i] \in 0..MaxClock /\ c[i] \in Int
<1>1. i \in 1..Len(c)
  BY SeqLen
<1> DEFINE S == 0..MaxClock
<1>2. c[i] \in S
  <2> HIDE DEF S
  <2>1. c \in Seq(S)
    BY DEF S
  <2> QED
    BY <1>1, <2>1, SeqElement
<1> QED
  BY <1>2

\* An allowance that grows by no more than the rate allows stays earned.
LEMMA EarnedOn ==
  ASSUME NEW b \in BucketType, NEW d \in BucketType, NEW c \in Seq(0..MaxClock),
         NEW now \in 0..MaxClock, NEW then \in 0..MaxClock,
         Earned(b, c, now),
         AsOf(b, now) <= AsOf(d, then),
         Allowance(d) <= Allowance(b) + ServiceRate * (AsOf(d, then) - AsOf(b, now))
  PROVE  Earned(d, c, then)
<1> SUFFICES ASSUME NEW i \in DOMAIN c
             PROVE  /\ c[i] <= AsOf(d, then)
                    /\ (Len(c) - i + 1) * TokenUnit + Allowance(d) <= Full + ServiceRate * (AsOf(d, then) - c[i])
  BY DEF Earned
<1> DEFINE p == AsOf(b, now)
           q == AsOf(d, then)
           x == Allowance(b)
           y == Allowance(d)
           cost == (Len(c) - i + 1) * TokenUnit
<1>1. p \in Int /\ q \in Int /\ x \in Int /\ y \in Int /\ c[i] \in Int
  <2>1. b.at \in Int /\ b.tokens \in Int /\ d.at \in Int /\ d.tokens \in Int
    BY DEF BucketType
  <2>2. c[i] \in Int
    BY GrantedAt
  <2>3. now \in Int /\ then \in Int /\ Full \in Int
    BY Units
  <2> QED
    BY <2>1, <2>2, <2>3 DEF AsOf, Allowance
<1>2. cost \in Int
  BY Units
<1>3. c[i] <= p /\ cost + x <= Full + ServiceRate * (p - c[i])
  BY DEF Earned
<1>4. p <= q /\ y <= x + ServiceRate * (q - p)
  OBVIOUS
<1> HIDE DEF p, q, x, y, cost
<1>5. ServiceRate * (q - c[i]) = ServiceRate * (q - p) + ServiceRate * (p - c[i])
  BY <1>1, Units, EarnedAddsUp
<1> DEFINE e == ServiceRate * (q - c[i])
           f == ServiceRate * (q - p)
           g == ServiceRate * (p - c[i])
<1>6. e \in Int /\ f \in Int /\ g \in Int
  BY <1>1, Units
<1>7. e = f + g /\ cost + x <= Full + g /\ y <= x + f
  BY <1>3, <1>4, <1>5
<1> HIDE DEF e, f, g
<1>8. cost + y <= Full + e
  BY <1>1, <1>2, <1>6, <1>7, Units
<1>9. c[i] <= q
  BY <1>1, <1>3, <1>4
<1> QED
  BY <1>8, <1>9 DEF e, q, y, cost

\* bucket.refill moves a bucket to now unless it is there already, and adds no
\* more than the rate allows.
LEMMA RefillEarns ==
  ASSUME NEW b \in BucketType, NEW now \in 0..MaxClock
  PROVE  LET r == Refill(b, now)
         IN /\ r \in BucketType /\ r.live = b.live
            /\ r.at = IF now > b.at THEN now ELSE b.at
            /\ r.tokens <= b.tokens + ServiceRate * (r.at - b.at)
<1> DEFINE r == Refill(b, now)
           earned == ServiceRate * (now - b.at)
           filled == b.tokens + earned
<1>1. r \in BucketType
  BY RefillType DEF BucketType, Full
<1>2. CASE now > b.at
  <2>1. earned \in Nat /\ b.tokens \in Nat
    BY <1>2, EarnedIsNatural, Units DEF BucketType
  <2>2. r = [b EXCEPT !.tokens = IF filled > Full THEN Full ELSE filled, !.at = now]
    BY <1>2 DEF Refill, Full
  <2>3. r.live = b.live /\ r.at = now /\ r.tokens = IF filled > Full THEN Full ELSE filled
    BY <2>2 DEF BucketType
  <2> HIDE DEF earned, r
  <2>4. r.tokens <= b.tokens + earned
    BY <2>1, <2>3, Units
  <2> QED
    BY <1>1, <1>2, <2>3, <2>4 DEF earned, r
<1>3. CASE ~(now > b.at)
  <2>1. r = b
    BY <1>3 DEF Refill
  <2>2. b.at \in Int /\ b.tokens \in Int
    BY DEF BucketType
  <2>3. ServiceRate * (b.at - b.at) = 0
    BY <2>2, Units
  <2>4. b.tokens <= b.tokens + ServiceRate * (b.at - b.at)
    BY <2>2, <2>3
  <2> HIDE DEF r
  <2> QED
    BY <1>1, <1>3, <2>1, <2>4 DEF r
<1> QED
  BY <1>2, <1>3
(***************************************************************************)
(* The invariant.                                                          *)
(***************************************************************************)

LEMMA RateTypes ==
  ASSUME TypeOK
  PROVE  /\ buckets \in [Service -> BucketType] /\ charges \in [Service -> Seq(0..MaxClock)]
         /\ clock \in 0..MaxClock /\ sweepNow \in 0..MaxClock
BY DEF TypeOK, BucketType, Full

\* The bucket allow looks at is as of now, and what it holds has been earned.
LEMMA BucketNowEarned ==
  ASSUME TypeOK, RateInv, NEW v \in Service
  PROVE  LET b == BucketNow(v, clock)
         IN b \in BucketType /\ b.live /\ b.at = clock /\ Earned(b, charges[v], clock)
<1> DEFINE b == BucketNow(v, clock)
           old == buckets[v]
<1>1. /\ old \in BucketType /\ charges[v] \in Seq(0..MaxClock) /\ clock \in 0..MaxClock
      /\ AsOf(old, clock) <= clock /\ Earned(old, charges[v], clock)
  BY RateTypes DEF RateInv
<1>2. CASE old.live
  <2>1. b = Refill(old, clock)
    BY <1>2 DEF BucketNow
  <2>2. /\ b \in BucketType /\ b.live /\ b.at = IF clock > old.at THEN clock ELSE old.at
        /\ b.tokens <= old.tokens + ServiceRate * (b.at - old.at)
    <3> HIDE DEF b, old
    <3> QED
      BY <1>1, <1>2, <2>1, RefillEarns, Zenon
  <2> HIDE DEF b
  <2>3. old.at <= clock /\ old.at \in Int /\ clock \in Int
    <3>1. AsOf(old, clock) = old.at
      BY <1>2, Zenon DEF AsOf
    <3> HIDE DEF old
    <3>2. old.at \in Int /\ clock \in Int
      BY <1>1 DEF BucketType
    <3> QED
      BY <1>1, <3>1, <3>2, Zenon
  <2>4. b.at = clock
    <3>1. b.at = IF clock > old.at THEN clock ELSE old.at
      BY <2>2, Zenon
    <3> QED
      BY <2>3, <3>1
  <2>5. AsOf(old, clock) = old.at /\ AsOf(b, clock) = b.at /\ Allowance(old) = old.tokens /\ Allowance(b) = b.tokens
    BY <1>2, <2>2 DEF AsOf, Allowance
  <2> HIDE DEF old
  <2>6. Earned(b, charges[v], clock)
    BY <1>1, <2>2, <2>3, <2>4, <2>5, EarnedOn
  <2> QED
    BY <2>2, <2>4, <2>6 DEF b
<1>3. CASE ~old.live
  <2>1. b = FullBucket(clock)
    BY <1>3 DEF BucketNow
  <2>2. b \in BucketType /\ b.live /\ b.at = clock /\ b.tokens = Full
    <3>1. /\ FullBucket(clock).live = TRUE /\ FullBucket(clock).at = clock /\ FullBucket(clock).tokens = Full
      BY DEF FullBucket, Full
    <3>2. Full \in 0..Full
      BY Units
    <3>3. FullBucket(clock) \in BucketType
      BY <1>1, <3>2 DEF FullBucket, BucketType, Full
    <3> QED
      BY <2>1, <3>1, <3>3, Zenon
  <2> HIDE DEF b
  <2>3. AsOf(old, clock) = clock /\ AsOf(b, clock) = clock /\ Allowance(old) = Full /\ Allowance(b) = Full
    BY <1>3, <2>2 DEF AsOf, Allowance
  <2>4. clock <= clock /\ Full <= Full + ServiceRate * (clock - clock)
    BY <1>1, Units
  <2> HIDE DEF old
  <2>5. Earned(b, charges[v], clock)
    BY <1>1, <2>2, <2>3, <2>4, EarnedOn
  <2> QED
    BY <2>2, <2>5 DEF b
<1> QED
  BY <1>2, <1>3, Zenon

\* The grants, by position, with one more at the end.
LEMMA GrantPlaces ==
  ASSUME NEW c \in Seq(0..MaxClock), NEW now \in 0..MaxClock
  PROVE  /\ Len(c) \in Nat /\ DOMAIN c = 1..Len(c) /\ DOMAIN Append(c, now) = 1..(Len(c) + 1)
         /\ Len(Append(c, now)) = Len(c) + 1 /\ Append(c, now)[Len(c) + 1] = now
         /\ \A i \in 1..Len(c) : Append(c, now)[i] = c[i]
<1> DEFINE S == 0..MaxClock
<1>1. c \in Seq(S) /\ now \in S
  OBVIOUS
<1> HIDE DEF S
<1> QED
  BY <1>1

\* Spending a token on one more trace: the grant takes from the allowance what
\* it adds to the cost, so it is paid for, and so is every stretch it ends.
LEMMA GrantEarned ==
  ASSUME NEW b \in BucketType, NEW c \in Seq(0..MaxClock), NEW now \in 0..MaxClock,
         b.live, b.at = now, b.tokens >= TokenUnit, Earned(b, c, now), Capped(c)
  PROVE  LET d == [b EXCEPT !.tokens = @ - TokenUnit]
         IN Earned(d, Append(c, now), now) /\ Capped(Append(c, now)) /\ AsOf(d, now) = now
<1> DEFINE d == [b EXCEPT !.tokens = @ - TokenUnit]
           n == Len(c)
           e == Append(c, now)
<1>1. b.tokens \in Nat /\ b.tokens <= Full /\ now \in Int
  BY Units DEF BucketType
<1>2. AsOf(b, now) = now /\ AsOf(d, now) = now /\ Allowance(b) = b.tokens /\ Allowance(d) = b.tokens - TokenUnit
  BY DEF AsOf, Allowance, BucketType
<1>3. /\ n \in Nat /\ DOMAIN c = 1..n /\ DOMAIN e = 1..(n + 1) /\ Len(e) = n + 1
      /\ e[n + 1] = now /\ \A i \in 1..n : e[i] = c[i]
  BY GrantPlaces, Zenon DEF n, e
<1> HIDE DEF d, n, e
<1>4. ASSUME NEW i \in DOMAIN e
      PROVE  /\ e[i] <= now /\ (n + 1 - i + 1) * TokenUnit + (b.tokens - TokenUnit) <= Full + ServiceRate * (now - e[i])
             /\ (n + 1 - i + 1) * TokenUnit <= Full + ServiceRate * (now - e[i])
  <2>1. CASE i = n + 1
    <3>1. e[i] = now /\ (n + 1 - i + 1) * TokenUnit = TokenUnit /\ ServiceRate * (now - e[i]) = 0
      BY <1>1, <1>3, <2>1, Units
    <3> QED
      BY <1>1, <3>1, Units
  <2>2. CASE i \in DOMAIN c
    <3>1. e[i] = c[i] /\ c[i] \in Int /\ i \in Int
      BY <1>3, <2>2, GrantedAt
    <3>2. c[i] <= now /\ (n - i + 1) * TokenUnit + b.tokens <= Full + ServiceRate * (now - c[i])
      <4>1. /\ c[i] <= AsOf(b, now)
            /\ (n - i + 1) * TokenUnit + Allowance(b) <= Full + ServiceRate * (AsOf(b, now) - c[i])
        BY <2>2, Zenon DEF Earned, n
      <4> QED
        BY <1>2, <4>1, Zenon
    <3> DEFINE k == n - i + 1
               g == ServiceRate * (now - c[i])
               cost == k * TokenUnit
    <3>3. k \in Int /\ n + 1 - i + 1 = k + 1 /\ g \in Int
      BY <1>1, <1>3, <3>1, Units
    <3>4. cost + b.tokens <= Full + g
      BY <3>2
    <3> HIDE DEF k, g
    <3>5. (k + 1) * TokenUnit = cost + TokenUnit /\ cost \in Int
      BY <3>3, Units
    <3> HIDE DEF cost
    <3>6. /\ cost + TokenUnit + (b.tokens - TokenUnit) <= Full + g
          /\ cost + TokenUnit <= Full + g
      BY <1>1, <3>3, <3>4, <3>5, Units
    <3> QED
      BY <3>1, <3>2, <3>3, <3>5, <3>6 DEF g
  <2> QED
    BY <1>3, <2>1, <2>2
<1>5. Earned(d, e, now)
  BY <1>2, <1>3, <1>4 DEF Earned
<1>6. Capped(e)
  <2> SUFFICES ASSUME NEW i \in DOMAIN e, NEW j \in DOMAIN e, i <= j
               PROVE  (j - i + 1) * TokenUnit <= Full + ServiceRate * (e[j] - e[i])
    BY DEF Capped
  <2>1. CASE j = n + 1
    BY <1>3, <1>4, <2>1
  <2>2. CASE j \in DOMAIN c
    <3>1. i \in DOMAIN c /\ e[i] = c[i] /\ e[j] = c[j]
      BY <1>3, <2>2
    <3> QED
      BY <2>2, <3>1 DEF Capped
  <2> QED
    BY <1>3, <2>1, <2>2
<1> QED
  BY <1>2, <1>5, <1>6 DEF d, e

\* allow keeps every service within what it earned.
LEMMA AllowStep ==
  ASSUME TypeOK, RateInv, NEW v \in Service, NEW granted \in BOOLEAN, Allow(v, granted),
         UNCHANGED <<clock, sweepNow>>
  PROVE  RateInv'
<1> DEFINE b == BucketNow(v, clock)
           d == IF granted THEN [b EXCEPT !.tokens = @ - TokenUnit] ELSE b
           e == IF granted THEN Append(charges[v], clock) ELSE charges[v]
<1>1. /\ buckets \in [Service -> BucketType] /\ charges \in [Service -> Seq(0..MaxClock)]
      /\ clock \in 0..MaxClock
  BY RateTypes
<1>2. b \in BucketType /\ b.live /\ b.at = clock /\ Earned(b, charges[v], clock)
  BY BucketNowEarned
<1>3. granted = (b.tokens >= TokenUnit)
  BY DEF Allow
<1>4. buckets' = [buckets EXCEPT ![v] = d] /\ charges' = [charges EXCEPT ![v] = e]
  BY <1>1, Zenon DEF Allow
<1>5. AsOf(d, clock) = clock /\ Earned(d, e, clock) /\ Capped(e)
  <2>1. Capped(charges[v]) /\ charges[v] \in Seq(0..MaxClock)
    BY <1>1 DEF RateInv
  <2> HIDE DEF b
  <2>2. CASE granted
    BY <1>1, <1>2, <1>3, <2>1, <2>2, GrantEarned, Zenon
  <2>3. CASE ~granted
    BY <1>2, <2>1, <2>3 DEF AsOf
  <2> QED
    BY <2>2, <2>3
<1> HIDE DEF d, e
<1>6. \A w \in Service : IF w = v THEN buckets'[w] = d /\ charges'[w] = e
                                  ELSE buckets'[w] = buckets[w] /\ charges'[w] = charges[w]
  BY <1>1, <1>4
<1>7. clock' = clock /\ sweepNow' = sweepNow /\ clock <= clock
  BY <1>1
<1> QED
  BY <1>5, <1>6, <1>7, Zenon DEF RateInv
\* forget keeps every service within what it earned: a bucket it deletes holds
\* the full allowance, which is no less than what a new one starts with.
LEMMA ForgetStep ==
  ASSUME TypeOK, RateInv, Forget
  PROVE  RateInv'
<1>1. /\ buckets \in [Service -> BucketType] /\ charges \in [Service -> Seq(0..MaxClock)]
      /\ clock \in 0..MaxClock /\ sweepNow \in 0..MaxClock
  BY RateTypes
<1>2. clock' = clock /\ sweepNow' = sweepNow /\ charges' = charges
  BY Zenon DEF Forget
<1>3. ASSUME NEW v \in Service
      PROVE  AsOf(buckets'[v], clock) <= clock /\ Earned(buckets'[v], charges[v], clock)
  <2> DEFINE b == Refill(buckets[v], sweepNow)
             old == buckets[v]
             c == charges[v]
  <2>1. /\ old \in BucketType /\ c \in Seq(0..MaxClock) /\ AsOf(old, clock) <= clock /\ Earned(old, c, clock)
    BY <1>1 DEF RateInv
  <2>2. buckets'[v] = IF ~b.live \/ b.tokens >= Full THEN NoBucket ELSE b
    BY DEF Forget, FullAgain, Full
  <2>3. /\ b \in BucketType /\ b.live = old.live /\ b.at = IF sweepNow > old.at THEN sweepNow ELSE old.at
        /\ b.tokens <= old.tokens + ServiceRate * (b.at - old.at)
    BY <1>1, <2>1, RefillEarns
  <2> HIDE DEF b, c
  <2>4. NoBucket \in BucketType /\ AsOf(NoBucket, clock) = clock /\ Allowance(NoBucket) = Full /\ clock <= clock
    <3>1. 0 \in 0..MaxClock /\ 0 \in 0..Full /\ clock <= clock
      BY <1>1, Units, ConfigAssumption
    <3> QED
      BY <3>1 DEF NoBucket, BucketType, AsOf, Allowance
  <2>5. CASE ~old.live
    <3>1. AsOf(old, clock) = clock /\ Allowance(old) = Full /\ buckets'[v] = NoBucket
      BY <2>2, <2>3, <2>5 DEF AsOf, Allowance
    <3>2. Full <= Full + ServiceRate * (clock - clock)
      BY <1>1, Units
    <3> HIDE DEF old
    <3>3. Earned(NoBucket, c, clock)
      BY <1>1, <2>1, <2>4, <3>1, <3>2, EarnedOn
    <3> QED
      BY <2>4, <3>1, <3>3 DEF c
  <2>6. CASE old.live
    <3>1. /\ AsOf(old, clock) = old.at /\ Allowance(old) = old.tokens
          /\ AsOf(b, clock) = b.at /\ Allowance(b) = b.tokens
      BY <2>3, <2>6 DEF AsOf, Allowance
    <3>2. old.at <= b.at /\ b.at <= clock /\ b.at \in Int
      <4>1. old.at \in Int /\ old.at <= clock /\ sweepNow <= clock
        <5>1. old.at \in 0..MaxClock /\ MaxClock \in Nat
          BY <2>1, ConfigAssumption DEF BucketType
        <5>2. old.at <= clock /\ sweepNow <= clock
          BY <2>1, <3>1, Zenon DEF RateInv
        <5> HIDE DEF old
        <5> QED
          BY <5>1, <5>2
      <4> QED
        BY <1>1, <2>3, <4>1
    <3> HIDE DEF old
    <3>3. Earned(b, c, clock)
      BY <1>1, <2>1, <2>3, <3>1, <3>2, EarnedOn
    <3>4. CASE b.tokens >= Full
      <4>1. b.tokens = Full
        BY <2>3, <3>4, Units DEF BucketType
      <4> DEFINE g == ServiceRate * (clock - b.at)
      <4>2. g \in Nat
        BY <1>1, <3>2, Units, EarnedIsNatural
      <4> HIDE DEF g
      <4>3. Full <= b.tokens + g
        BY <4>1, <4>2, Units
      <4>4. Earned(NoBucket, c, clock)
        BY <1>1, <2>1, <2>3, <2>4, <3>1, <3>2, <3>3, <4>3, EarnedOn DEF g
      <4> QED
        BY <2>2, <2>4, <3>4, <4>4 DEF c
    <3>5. CASE ~(b.tokens >= Full)
      BY <2>2, <2>3, <2>6, <3>1, <3>2, <3>3, <3>5, Zenon DEF c, old
    <3> QED
      BY <3>4, <3>5, Zenon
  <2> QED
    BY <2>5, <2>6, Zenon
<1> QED
  BY <1>2, <1>3, Zenon DEF RateInv

\* Time that passes: a service without a bucket has its allowance later.
LEMMA TickStep ==
  ASSUME TypeOK, TypeOK', RateInv, Tick
  PROVE  RateInv'
<1>1. /\ buckets \in [Service -> BucketType] /\ charges \in [Service -> Seq(0..MaxClock)]
      /\ clock \in 0..MaxClock /\ sweepNow \in 0..MaxClock
  BY RateTypes
<1>2. /\ clock' = clock + 1 /\ clock' \in 0..MaxClock
      /\ sweepNow' = sweepNow /\ charges' = charges /\ buckets' = buckets
  BY Zenon DEF Tick, sweeper, TypeOK
<1>3. ASSUME NEW v \in Service
      PROVE  AsOf(buckets[v], clock') <= clock' /\ Earned(buckets[v], charges[v], clock')
  <2> DEFINE b == buckets[v]
             p == AsOf(b, clock)
             q == AsOf(b, clock')
  <2>1. /\ b \in BucketType /\ charges[v] \in Seq(0..MaxClock) /\ p <= clock /\ Earned(b, charges[v], clock)
    BY <1>1 DEF RateInv
  <2>2. p \in Int /\ q \in Int /\ p <= q /\ q <= clock'
    <3>1. b.at \in Int
      BY <2>1 DEF BucketType
    <3> QED
      BY <1>1, <1>2, <2>1, <3>1 DEF AsOf
  <2>3. Allowance(b) \in Int
    BY <2>1, Units DEF Allowance, BucketType
  <2> DEFINE g == ServiceRate * (q - p)
  <2>4. g \in Nat
    <3> HIDE DEF p, q
    <3> QED
      BY <2>2, Units, EarnedIsNatural
  <2> HIDE DEF g
  <2>5. Allowance(b) <= Allowance(b) + g
    BY <2>3, <2>4
  <2> HIDE DEF b
  <2>6. Earned(b, charges[v], clock')
    BY <1>1, <1>2, <2>1, <2>2, <2>5, EarnedOn DEF g
  <2> QED
    BY <2>2, <2>6, Zenon DEF b
<1>4. sweepNow <= clock + 1
  BY <1>1 DEF RateInv
<1> QED
  BY <1>2, <1>3, <1>4, Zenon DEF RateInv

\* Every other step leaves the buckets, the grants and the clock alone.
LEMMA RateStep == TypeOK /\ TypeOK' /\ RateInv /\ [Next]_vars => RateInv'
<1> SUFFICES ASSUME TypeOK, TypeOK', RateInv, [Next]_vars PROVE RateInv'
  OBVIOUS
<1> USE DEF tables, accepting, sweeper
<1>0. clock \in Nat
  <2>1. clock \in 0..MaxClock /\ MaxClock \in Nat
    BY RateTypes, ConfigAssumption
  <2> QED
    BY <2>1
<1>1. ASSUME UNCHANGED <<clock, buckets, charges>>, sweepNow' \in {sweepNow, 0, clock} PROVE RateInv'
  <2>1. sweepNow' <= clock
    BY <1>0, <1>1 DEF RateInv
  <2> QED
    BY <1>1, <2>1 DEF RateInv
<1>2. CASE Exports
  <2>1. UNCHANGED <<clock, buckets, charges, sweepNow>>
    BY <1>2 DEF Exports, AcceptTooLarge, AcceptCall
  <2> QED
    BY <1>1, <2>1
<1>3. CASE Accepts
  <2>1. UNCHANGED <<clock, buckets, charges, sweepNow>>
    BY <1>3 DEF Accepts, AcceptRefuse, AcceptLocked
  <2> QED
    BY <1>1, <2>1
<1>4. CASE SweepStart \/ FlushStart \/ SweepDone
  <2>1. UNCHANGED <<clock, buckets, charges>> /\ sweepNow' \in {0, clock}
    BY <1>4 DEF SweepStart, FlushStart, SweepDone
  <2> QED
    BY <1>1, <2>1
<1>5. CASE Judge
  BY <1>1, <1>5 DEF Judge
<1>6. CASE Deciding
  <2>1. PICK t \in Trace, keep \in BOOLEAN, ok \in BOOLEAN : Decide(t, keep, ok)
    BY <1>6 DEF Deciding
  <2>2. clock' = clock /\ sweepNow' = sweepNow
    BY <2>1, Zenon DEF Decide
  <2>3. CASE ready[t] \in KeptBy /\ ServiceRate > 0
    <3>1. Allow(RootService[ready[t]], keep)
      BY <2>1, <2>3, Zenon DEF Decide
    <3>2. RootService[ready[t]] \in Service
      BY ConfigAssumption, Zenon DEF TypeOK
    <3> QED
      BY <2>2, <3>1, <3>2, AllowStep
  <2>4. CASE ~(ready[t] \in KeptBy /\ ServiceRate > 0)
    <3>1. UNCHANGED <<buckets, charges>>
      BY <2>1, <2>4, Zenon DEF Decide
    <3> QED
      BY <1>1, <2>2, <3>1
  <2> QED
    BY <2>3, <2>4
<1>7. CASE Settle
  BY <1>1, <1>7 DEF Settle
<1>8. CASE Forget
  BY <1>8, ForgetStep
<1>9. CASE TakeLate
  BY <1>1, <1>9 DEF TakeLate
<1>10. CASE WritingLate
  <2>1. UNCHANGED <<clock, buckets, charges, sweepNow>>
    BY <1>10 DEF WritingLate, WriteLate
  <2> QED
    BY <1>1, <2>1
<1>11. CASE Stop
  BY <1>1, <1>11 DEF Stop
<1>12. CASE Tick
  BY <1>12, TickStep
<1>13. CASE UNCHANGED vars
  BY <1>1, <1>13 DEF vars
<1> QED
  BY <1>2, <1>3, <1>4, <1>5, <1>6, <1>7, <1>8, <1>9, <1>10, <1>11, <1>12, <1>13 DEF Next, Run

\* Over any stretch of time a service is granted no more traces than its burst
\* and what refills in that time, for any rate, burst and number of services:
\* allow charges every grant, and forget, whose clock reading may be older
\* than the bucket's, deletes only buckets a new one would not be richer than.
THEOREM RateIsCappedAlways == Spec => []RateIsCapped
<1>1. Init => RateInv
  <2> SUFFICES ASSUME Init PROVE RateInv
    OBVIOUS
  <2>1. clock = 0 /\ sweepNow = 0
    BY DEF Init
  <2>2. ASSUME NEW v \in Service PROVE AsOf(buckets[v], clock) = 0 /\ DOMAIN charges[v] = {}
    <3>1. buckets[v] = NoBucket /\ charges[v] = << >>
      BY Zenon DEF Init
    <3>2. AsOf(NoBucket, clock) = 0
      BY <2>1 DEF NoBucket, AsOf
    <3>3. DOMAIN << >> = {}
      OBVIOUS
    <3> QED
      BY <3>1, <3>2, <3>3, Zenon
  <2>3. ASSUME NEW v \in Service
        PROVE  AsOf(buckets[v], clock) <= clock /\ Earned(buckets[v], charges[v], clock) /\ Capped(charges[v])
    <3>1. AsOf(buckets[v], clock) <= clock
      BY <2>1, <2>2
    <3>2. Earned(buckets[v], charges[v], clock)
      BY <2>2, Zenon DEF Earned
    <3>3. Capped(charges[v])
      BY <2>2, Zenon DEF Capped
    <3> QED
      BY <3>1, <3>2, <3>3, Zenon
  <2>4. sweepNow <= clock
    BY <2>1
  <2> QED
    BY <2>3, <2>4, Zenon DEF RateInv
<1>2. RateInv => RateIsCapped
  BY Zenon DEF RateInv, Capped, RateIsCapped, Full
<1>3. RateInv /\ TypeOK /\ TypeOK' /\ [Next]_vars => RateInv'
  BY RateStep
<1> QED
  BY <1>1, <1>2, <1>3, TypeCorrect, PTL DEF Spec

(***************************************************************************)
(* The refinement: the initial states map to initial states of Sampling,   *)
(* and every critical section maps to one step of it or to none.  What it  *)
(* needs beyond where the spans are:                                       *)
(***************************************************************************)

\* decide's locals hold the verdict of the policies and the rate limit on the
\* spans judge took, and with Remember 0 no verdict is ever remembered.
VerdictOfPolicies ==
  /\ pc = "settle" => IF cur.keep THEN ready[cur.id] \in KeptBy
                                  ELSE ready[cur.id] \in KeptBy => ServiceRate > 0
  /\ Remember = 0 => \A t \in Trace : decided[t] = "none"

\* Forgetting only ever turns a verdict into "none".
LEMMA ForgettingForgets ==
  ASSUME NEW q, NEW d \in [Trace -> {"none", "keep", "drop"}], NEW at, NEW k, ForgetOldest(q, d, at, k)
  PROVE  /\ decided' \in [Trace -> {"none", "keep", "drop"}]
         /\ \A t \in Trace : decided'[t] \in {d[t], "none"}
<1> DEFINE gone == Forgotten(q, at, k)
<1>1. decided' = [t \in Trace |-> IF t \in gone THEN "none" ELSE d[t]]
  BY DEF ForgetOldest
<1> HIDE DEF gone
<1> QED
  BY <1>1

\* What settle does to the verdicts: it remembers the new one or forgets it at
\* once, and may forget others.
LEMMA SettleVerdicts ==
  ASSUME PlacesInv, VerdictOfPolicies, Settle
  PROVE  /\ decided' \in [Trace -> {"none", "keep", "drop"}]
         /\ Promise!Forgetting([decided EXCEPT ![cur.id] = IF cur.keep THEN "keep" ELSE "drop"])
         /\ Remember = 0 => decided' = decided
<1> DEFINE d == [decided EXCEPT ![cur.id] = IF cur.keep THEN "keep" ELSE "drop"]
<1>1. decided \in [Trace -> {"none", "keep", "drop"}] /\ d \in [Trace -> {"none", "keep", "drop"}]
  BY Zenon DEF PlacesInv, TypeOK
<1>2. CASE Remember > 0
  <2>1. RememberVerdict(cur.id, cur.keep)
    BY <1>2 DEF Settle
  <2>2. PICK k : ForgetOldest(Append(order, [id |-> cur.id, at |-> clock]), d, [decidedAt EXCEPT ![cur.id] = clock], k)
    BY <2>1 DEF RememberVerdict
  <2> HIDE DEF d
  <2>3. decided' \in [Trace -> {"none", "keep", "drop"}] /\ \A t \in Trace : decided'[t] \in {d[t], "none"}
    BY <2>2, <1>1, ForgettingForgets
  <2> QED
    BY <2>3, <1>2 DEF d, Promise!Forgetting
<1>3. CASE ~(Remember > 0)
  <2>1. Remember = 0 /\ decided' = decided
    BY <1>3, ConfigAssumption DEF Settle
  <2> QED
    BY <2>1, <1>1, Zenon DEF Promise!Forgetting, VerdictOfPolicies
<1> QED
  BY <1>2, <1>3

\* What forget does to the verdicts.
LEMMA ForgetVerdicts ==
  ASSUME PlacesInv, Forget
  PROVE  decided' \in [Trace -> {"none", "keep", "drop"}] /\ Promise!Forgetting(decided)
<1>1. PICK k : ForgetOldest(order, decided, decidedAt, k)
  BY Zenon DEF Forget
<1> QED
  BY <1>1, ForgettingForgets DEF PlacesInv, TypeOK, Promise!Forgetting

\* Every step of the sampler preserves it.
LEMMA VerdictStep == PlacesInv /\ VerdictOfPolicies /\ [Next]_vars => VerdictOfPolicies'
<1> SUFFICES ASSUME PlacesInv, VerdictOfPolicies, [Next]_vars PROVE VerdictOfPolicies'
  OBVIOUS
<1> USE DEF tables, accepting, sweeper
<1>1. CASE UNCHANGED vars
  BY <1>1 DEF vars, VerdictOfPolicies
<1>2. CASE Exports
  BY <1>2, Zenon DEF Exports, AcceptTooLarge, AcceptCall, VerdictOfPolicies
<1>3. CASE Accepts
  BY <1>3 DEF Accepts, AcceptRefuse, AcceptLocked, VerdictOfPolicies
<1>4. CASE SweepStart \/ FlushStart \/ TakeLate \/ SweepDone \/ Stop \/ Tick \/ Judge
  BY <1>4 DEF SweepStart, FlushStart, TakeLate, SweepDone, Stop, Tick, Judge, VerdictOfPolicies
<1>5. CASE WritingLate
  BY <1>5 DEF WritingLate, WriteLate, VerdictOfPolicies
<1>6. ASSUME NEW t \in Trace, NEW keep \in BOOLEAN, NEW ok \in BOOLEAN, Decide(t, keep, ok)
      PROVE VerdictOfPolicies'
  <2>1. cur'.id = t /\ cur'.keep = keep /\ ready' = ready /\ decided' = decided
    BY <1>6, Zenon DEF Decide
  <2>2. IF keep THEN ready[t] \in KeptBy ELSE ready[t] \in KeptBy => ServiceRate > 0
    BY <1>6, Zenon DEF Decide
  <2> QED
    BY <2>1, <2>2 DEF VerdictOfPolicies
<1>7. CASE Settle
  <2>1. pc' = "decide"
    BY <1>7 DEF Settle
  <2>2. Remember = 0 => decided' = decided
    BY <1>7, SettleVerdicts
  <2> QED
    BY <2>1, <2>2 DEF VerdictOfPolicies
<1>8. CASE Forget
  <2>1. pc' = "late" /\ \A t \in Trace : decided'[t] \in {decided[t], "none"}
    BY <1>8, ForgetVerdicts, Zenon DEF Forget, Promise!Forgetting
  <2> QED
    BY <2>1 DEF VerdictOfPolicies
<1> QED
  BY <1>1, <1>2, <1>3, <1>4, <1>5, <1>6, <1>7, <1>8 DEF Next, Run, Deciding

(***************************************************************************)
(* The abstract status of a span, read off the maps.                       *)
(***************************************************************************)

\* Where a span is in the maps.
Judgeable(s) == s \in pending[TraceOf[s]] \cup ready[TraceOf[s]] \cup waiting[TraceOf[s]]
Following(s) == s \in late[TraceOf[s]] \cup lateBatch[TraceOf[s]]

\* A span in a map has the status of the map; any other has that of its fate.
StatusIsPlace(s) ==
  /\ fate[s] \in {"client", "export"} => Status[s] = "client" /\ ~Judgeable(s) /\ ~Following(s)
  /\ Judgeable(s) => Status[s] = "held" /\ ~Following(s)
  /\ Following(s) => Status[s] = "kept"
  /\ ~Judgeable(s) /\ ~Following(s) /\ fate[s] # "export" => Status[s] = fate[s] /\ fate[s] # "held"
StatusByMap == \A s \in Span : StatusIsPlace(s)

\* The maps and the fates determine the status.
LEMMA StatusRead == PlacesInv => StatusByMap
<1> SUFFICES ASSUME PlacesInv, NEW s \in Span PROVE StatusIsPlace(s)
  BY DEF StatusByMap
<1>1. InOneMap(s)
  BY DEF PlacesInv, AllInOneMap
<1>2. s \in JustWritten => s \in ready[TraceOf[s]]
  BY Zenon DEF PlacesInv, JustWritten, Filed, SettlesATrace
<1>3. Status[s] = IF fate[s] = "export" THEN "client" ELSE IF s \in JustWritten THEN "held"
                  ELSE IF fate[s] = "held" /\ Following(s) THEN "kept" ELSE fate[s]
  BY DEF Status, Following
<1> QED
  BY <1>1, <1>2, <1>3, Zenon DEF InOneMap, Judgeable, Following, StatusIsPlace

\* The initial states map to initial states.
LEMMA SamplingInit == Init => Promise!Init
BY Zenon DEF Init, Promise!Init, Status, JustWritten, NoSpans

\* A step that moves no span between the maps of judge and those of writeLate,
\* nor changes the fate of a span in neither, is no step of the abstract sampler.
LEMMA StatusStutter ==
  ASSUME StatusByMap, StatusByMap', decided' = decided,
         \A s \in Span : /\ Judgeable(s)' <=> Judgeable(s)
                         /\ Following(s)' <=> Following(s)
                         /\ \/ fate'[s] = fate[s]
                            \/ fate[s] \in {"client", "export"} /\ fate'[s] \in {"client", "export"}
                            \/ Judgeable(s)
  PROVE  UNCHANGED Promise!vars
<1>1. ASSUME NEW s \in Span PROVE Status'[s] = Status[s]
  <2>1. StatusIsPlace(s) /\ StatusIsPlace(s)'
    BY DEF StatusByMap
  <2> QED
    BY <2>1, Zenon DEF StatusIsPlace
<1>2. Status = [s \in Span |-> Status[s]] /\ Status' = [s \in Span |-> Status'[s]]
  BY Zenon DEF Status
<1> QED
  BY <1>1, <1>2 DEF Promise!vars

\* The steps of Accept.
LEMMA AcceptSteps ==
  ASSUME PlacesInv, StatusByMap, StatusByMap', Exports \/ Accepts
  PROVE  [Promise!Next]_Promise!vars
<1> USE DEF tables, accepting, sweeper
<1>0. /\ pending \in [Trace -> SUBSET Span] /\ waiting \in [Trace -> SUBSET Span] /\ late \in [Trace -> SUBSET Span]
      /\ batch \in [Handler -> SUBSET Span] /\ fate \in [Span -> Fates] /\ judging \in SUBSET Trace
      /\ TraceOf \in [Span -> Trace] /\ InFlight /\ decided \in [Trace -> {"none", "keep", "drop"}]
  BY ConfigAssumption DEF PlacesInv, TypeOK
<1>s. Status = [s \in Span |-> Status[s]] /\ Status' = [s \in Span |-> Status'[s]]
  BY DEF Status
<1>1. ASSUME NEW b \in SUBSET Having("client"), AcceptTooLarge(b)
      PROVE Promise!Reject
  <2>1. b \in SUBSET Promise!Being("client")
    BY Zenon DEF Having, Promise!Being, StatusByMap, StatusIsPlace
  <2>2. ASSUME NEW s \in Span PROVE Status'[s] = IF s \in b THEN "rejected" ELSE Status[s]
    <3>1. StatusIsPlace(s) /\ StatusIsPlace(s)'
      BY DEF StatusByMap
    <3>2. (Judgeable(s)' <=> Judgeable(s)) /\ (Following(s)' <=> Following(s))
      BY <1>1, Zenon DEF AcceptTooLarge, Judgeable, Following
    <3>3. fate'[s] = (IF s \in b THEN "rejected" ELSE fate[s]) /\ (s \in b => fate[s] = "client")
      BY <1>1 DEF AcceptTooLarge, Become, Having
    <3> QED
      BY <3>1, <3>2, <3>3, Zenon DEF StatusIsPlace
  <2>3. Status' = Promise!Turn(b, "rejected")
    BY <2>2, <1>s DEF Promise!Turn
  <2>4. b \in {c \in SUBSET Span : Cardinality(c) > MaxSpans} /\ decided' = decided
    BY <1>1 DEF AcceptTooLarge, Having
  <2> QED
    BY <2>1, <2>3, <2>4 DEF Promise!Reject
<1>2. ASSUME NEW h \in Handler, NEW b \in SUBSET Having("client"), AcceptCall(h, b)
      PROVE UNCHANGED Promise!vars
  <2>1. ASSUME NEW s \in Span
        PROVE /\ Judgeable(s)' <=> Judgeable(s)
              /\ Following(s)' <=> Following(s)
              /\ fate'[s] = fate[s] \/ (fate[s] \in {"client", "export"} /\ fate'[s] \in {"client", "export"})
    BY <1>2, Zenon DEF AcceptCall, Judgeable, Following, Become, Having
  <2>2. decided' = decided
    BY <1>2 DEF AcceptCall
  <2> QED
    BY <2>1, <2>2, StatusStutter, Zenon
<1>3. ASSUME NEW h \in Handler, AcceptRefuse(h)
      PROVE UNCHANGED Promise!vars
  <2>1. ASSUME NEW s \in Span
        PROVE /\ Judgeable(s)' <=> Judgeable(s)
              /\ Following(s)' <=> Following(s)
              /\ fate'[s] = fate[s] \/ (fate[s] \in {"client", "export"} /\ fate'[s] \in {"client", "export"})
    BY <1>3, <1>0, Zenon DEF AcceptRefuse, Judgeable, Following, Become, InFlight
  <2>2. decided' = decided
    BY <1>3, Zenon DEF AcceptRefuse
  <2> QED
    BY <2>1, <2>2, StatusStutter, Zenon
<1>4. ASSUME NEW h \in Handler, AcceptLocked(h)
      PROVE Promise!Accept
  <2> DEFINE V(t) == Verdict(t, acceptNow[h])
             goes == [t \in {TraceOf[s] : s \in batch[h]} |->
                        IF V(t) = "keep" THEN "kept" ELSE IF V(t) = "drop" THEN "dropped" ELSE "held"]
  <2>1. \A t \in Trace : V(t) \in {"none", decided[t]} /\ V(t) \in {"none", "keep", "drop"} /\ (t \in judging => V(t) = "none")
    BY <1>0 DEF Verdict
  <2>2. batch[h] \in SUBSET Promise!Being("client")
    BY <1>0, Zenon DEF InFlight, Promise!Being, StatusByMap, StatusIsPlace
  <2>3. goes \in [{TraceOf[s] : s \in batch[h]} -> {"held", "kept", "dropped"}]
    OBVIOUS
  <2>4. \A t \in DOMAIN goes : Promise!Follows(t, goes[t])
    BY <2>1, <1>0 DEF Promise!Follows
  <2>5. ASSUME NEW s \in Span PROVE Status'[s] = IF s \in batch[h] THEN goes[TraceOf[s]] ELSE Status[s]
    <3> DEFINE u == TraceOf[s]
    <3>1. StatusIsPlace(s) /\ StatusIsPlace(s)' /\ u \in Trace
      BY <1>0 DEF StatusByMap
    <3>2. ready' = ready /\ lateBatch' = lateBatch
      BY <1>4 DEF AcceptLocked
    <3>3. CASE s \notin batch[h]
      <4>1. /\ s \in pending'[u] <=> s \in pending[u]
            /\ s \in waiting'[u] <=> s \in waiting[u]
            /\ s \in late'[u] <=> s \in late[u]
            /\ fate'[s] = fate[s]
        BY <1>4, <3>1, <3>3 DEF AcceptLocked, OfTrace
      <4>2. (Judgeable(s)' <=> Judgeable(s)) /\ (Following(s)' <=> Following(s))
        BY <4>1, <3>2 DEF Judgeable, Following
      <4> QED
        BY <3>1, <3>3, <4>1, <4>2, Zenon DEF StatusIsPlace
    <3>4. CASE s \in batch[h]
      <4>1. fate[s] = "export" /\ ~Judgeable(s) /\ ~Following(s)
        BY <1>0, <3>1, <3>4, Zenon DEF InFlight, StatusIsPlace
      <4>2. V(u) \in {"none", "keep", "drop"} /\ (u \in judging => V(u) = "none")
        BY <2>1, <3>1, Zenon
      <4>3. /\ s \in waiting'[u] <=> u \in judging
            /\ s \in pending'[u] <=> u \notin judging /\ V(u) = "none"
            /\ s \in late'[u] <=> u \notin judging /\ V(u) = "keep"
            /\ fate'[s] = IF u \notin judging /\ V(u) = "drop" THEN "dropped" ELSE "held"
        BY <1>4, <1>0, <3>1, <3>4, <4>1 DEF AcceptLocked, OfTrace, Judgeable, Following
      <4>4. goes[u] = IF V(u) = "keep" THEN "kept" ELSE IF V(u) = "drop" THEN "dropped" ELSE "held"
        BY <3>4, Zenon
      <4> HIDE DEF V, goes
      <4>5. Judgeable(s)' <=> V(u) = "none"
        BY <4>1, <4>2, <4>3, <3>2, Zenon DEF Judgeable
      <4>6. Following(s)' <=> V(u) = "keep"
        BY <4>1, <4>2, <4>3, <3>2, Zenon DEF Following
      <4> QED
        BY <3>1, <3>4, <4>2, <4>3, <4>4, <4>5, <4>6, Zenon DEF StatusIsPlace
    <3> QED
      BY <3>3, <3>4, Zenon
  <2>6. decided' = decided
    BY <1>4 DEF AcceptLocked
  <2> HIDE DEF goes
  <2>7. Status' = [s \in Span |-> IF s \in batch[h] THEN goes[TraceOf[s]] ELSE Status[s]]
    BY <2>5, <1>s
  <2> QED
    BY <2>2, <2>3, <2>4, <2>6, <2>7, Zenon DEF Promise!Accept
<1> QED
  BY <1>1, <1>2, <1>3, <1>4 DEF Exports, Accepts, Promise!Next

\* settle is the step at which the abstract sampler judges a trace, with what
\* judge took and with what has arrived since.
LEMMA SettleSteps ==
  ASSUME PlacesInv, VerdictOfPolicies, StatusByMap, StatusByMap', Settle
  PROVE  Promise!Keep(cur.id) \/ Promise!Drop(cur.id)
<1> DEFINE t == cur.id
           held == Promise!Of(t, "held")
<1>0. /\ pending \in [Trace -> SUBSET Span] /\ ready \in [Trace -> SUBSET Span]
      /\ waiting \in [Trace -> SUBSET Span] /\ late \in [Trace -> SUBSET Span]
      /\ lateBatch \in [Trace -> SUBSET Span]
      /\ fate \in [Span -> Fates] /\ TraceOf \in [Span -> Trace]
      /\ t \in Trace /\ ready[t] # {} /\ (cur.ok => cur.keep) /\ Filed /\ AllInOneMap
      /\ cur.keep \in BOOLEAN /\ cur.ok \in BOOLEAN
  BY ConfigAssumption, Zenon DEF PlacesInv, TypeOK, SettlesATrace, Settle
<1>1. pending[t] = {}
  BY <1>0 DEF PlacesInv, JudgedApart, Remaining
<1>2. held = ready[t] \cup waiting[t]
  <2>1. ASSUME NEW s \in Span PROVE s \in held <=> s \in ready[t] \cup waiting[t]
    <3>1. StatusIsPlace(s) /\ InOneMap(s)
      BY <1>0 DEF StatusByMap, AllInOneMap
    <3>2. s \in held <=> Status[s] = "held" /\ TraceOf[s] = t
      BY Zenon DEF Promise!Of, Promise!Being
    <3>3. Status[s] = "held" <=> Judgeable(s)
      BY <3>1, Zenon DEF StatusIsPlace
    <3>4. TraceOf[s] = t => (Judgeable(s) <=> s \in ready[t] \cup waiting[t])
      BY <1>1, Zenon DEF Judgeable
    <3>5. s \in ready[t] \cup waiting[t] => TraceOf[s] = t
      BY <1>0 DEF Filed
    <3> QED
      BY <3>2, <3>3, <3>4, <3>5
  <2> QED
    BY <2>1, <1>0 DEF Promise!Of, Promise!Being
<1>3. ready[t] \in SUBSET held /\ ready[t] \cap waiting[t] = {}
  <2>1. \A s \in ready[t] : s \in Span /\ TraceOf[s] = t
    BY <1>0 DEF Filed
  <2> QED
    BY <1>2, <2>1, <1>0, Zenon DEF AllInOneMap, InOneMap
<1>4. ASSUME NEW s \in Span
      PROVE /\ Judgeable(s)' <=> Judgeable(s) /\ s \notin held
            /\ Following(s)' <=> Following(s) \/ (cur.keep /\ s \in waiting[t])
            /\ fate'[s] = IF cur.ok THEN fate[s]
                          ELSE IF cur.keep THEN IF s \in ready[t] THEN "lost" ELSE fate[s]
                          ELSE IF s \in held THEN "dropped" ELSE fate[s]
            /\ s \in held => Judgeable(s)
            /\ s \in ready[t] => s \in held /\ (cur.ok => fate[s] = "written")
  <2>1. /\ pending' = pending /\ lateBatch' = lateBatch /\ ready' = [ready EXCEPT ![t] = {}]
        /\ waiting' = [waiting EXCEPT ![t] = {}]
        /\ late' = IF cur.keep THEN [late EXCEPT ![t] = @ \cup waiting[t]] ELSE late
        /\ fate' = IF cur.ok THEN fate
                   ELSE IF cur.keep THEN Become(ready[t], "lost")
                   ELSE Become(ready[t] \cup waiting[t], "dropped")
    BY DEF Settle
  <2>2. TraceOf[s] \in Trace /\ (s \in ready[t] \cup waiting[t] => TraceOf[s] = t)
    BY <1>0 DEF Filed
  <2> HIDE DEF t, held
  <2>3. Judgeable(s)' <=> Judgeable(s) /\ s \notin held
    BY <2>1, <2>2, <1>0, <1>1, <1>2 DEF Judgeable
  <2>4. Following(s)' <=> Following(s) \/ (cur.keep /\ s \in waiting[t])
    BY <2>1, <2>2, <1>0 DEF Following
  <2>5. fate'[s] = IF cur.ok THEN fate[s]
                   ELSE IF cur.keep THEN IF s \in ready[t] THEN "lost" ELSE fate[s]
                   ELSE IF s \in held THEN "dropped" ELSE fate[s]
    BY <2>1, <1>0, <1>2 DEF Become
  <2>6. s \in held => Judgeable(s)
    BY <2>2, <1>2 DEF Judgeable
  <2>7. s \in ready[t] => s \in held /\ (cur.ok => fate[s] = "written")
    <3>1. s \in ready[t] /\ cur.ok => s \in JustWritten
      BY DEF Settle, JustWritten, t
    <3> QED
      BY <3>1, <1>0, <1>2, Zenon DEF AllInOneMap, InOneMap
  <2> QED
    BY <2>3, <2>4, <2>5, <2>6, <2>7, Zenon
<1>5. decided' \in [Trace -> {"none", "keep", "drop"}]
      /\ Promise!Forgetting([decided EXCEPT ![t] = IF cur.keep THEN "keep" ELSE "drop"])
  BY SettleVerdicts
<1>6. Status' = [s \in Span |-> Status'[s]]
  BY Zenon DEF Status
<1>7. CASE cur.keep
  <2> DEFINE out == IF cur.ok THEN "written" ELSE "lost"
  <2>1. ready[t] \in KeptBy
    BY <1>7 DEF VerdictOfPolicies, Settle
  <2>2. ASSUME NEW s \in Span
        PROVE Status'[s] = IF s \in ready[t] THEN out ELSE IF s \in held THEN "kept" ELSE Status[s]
    <3>1. StatusIsPlace(s) /\ StatusIsPlace(s)'
      BY DEF StatusByMap
    <3> HIDE DEF t, held
    <3> QED
      BY <1>2, <1>3, <1>4, <1>7, <3>1, Zenon DEF StatusIsPlace
  <2>3. Status' = [s \in Span |-> IF s \in ready[t] THEN out ELSE IF s \in held THEN "kept" ELSE Status[s]]
    BY <2>2, <1>6
  <2>4. out \in {"written", "lost"}
    OBVIOUS
  <2>5. Promise!Remembers(t, "keep")
    BY <1>5, <1>7 DEF Promise!Remembers
  <2> HIDE DEF t, out
  <2> QED
    BY <2>1, <2>3, <2>4, <2>5, <1>0, <1>3, Zenon DEF Promise!Keep, t
<1>8. CASE ~cur.keep
  <2>1. ready[t] \in KeptBy => ServiceRate > 0
    BY <1>8 DEF VerdictOfPolicies, Settle
  <2>2. ASSUME NEW s \in Span PROVE Status'[s] = IF s \in held THEN "dropped" ELSE Status[s]
    <3>1. StatusIsPlace(s) /\ StatusIsPlace(s)'
      BY DEF StatusByMap
    <3> HIDE DEF t, held
    <3> QED
      BY <1>0, <1>2, <1>4, <1>8, <3>1, Zenon DEF StatusIsPlace
  <2>3. Status' = Promise!Turn(held, "dropped")
    BY <2>2, <1>6 DEF Promise!Turn
  <2>5. Promise!Remembers(t, "drop")
    BY <1>5, <1>8 DEF Promise!Remembers
  <2> QED
    BY <2>1, <2>3, <2>5, <1>0, <1>3 DEF Promise!Drop
<1> QED
  BY <1>7, <1>8

\* The steps of Run.
LEMMA RunSteps ==
  ASSUME PlacesInv, VerdictOfPolicies, StatusByMap, StatusByMap', Run
  PROVE  [Promise!Next]_Promise!vars
<1> USE DEF tables, accepting, sweeper
<1>0. /\ pending \in [Trace -> SUBSET Span] /\ ready \in [Trace -> SUBSET Span]
      /\ waiting \in [Trace -> SUBSET Span] /\ late \in [Trace -> SUBSET Span]
      /\ lateBatch \in [Trace -> SUBSET Span]
      /\ fate \in [Span -> Fates] /\ TraceOf \in [Span -> Trace] /\ Filed /\ JudgedApart
  BY ConfigAssumption DEF PlacesInv, TypeOK
<1>1. CASE SweepStart \/ FlushStart \/ SweepDone
  <2>1. ASSUME NEW s \in Span
        PROVE (Judgeable(s)' <=> Judgeable(s)) /\ (Following(s)' <=> Following(s)) /\ fate'[s] = fate[s]
    BY <1>1, Zenon DEF SweepStart, FlushStart, SweepDone, Judgeable, Following
  <2>2. decided' = decided
    BY <1>1 DEF SweepStart, FlushStart, SweepDone
  <2> QED
    BY <2>1, <2>2, StatusStutter, Zenon
<1>2. CASE Judge
  <2>1. ASSUME NEW s \in Span
        PROVE (Judgeable(s)' <=> Judgeable(s)) /\ (Following(s)' <=> Following(s)) /\ fate'[s] = fate[s]
    <3>1. /\ TraceOf[s] \in Trace /\ ready[TraceOf[s]] = {}
          /\ pending[TraceOf[s]] # {} => waiting[TraceOf[s]] = {}
      BY <1>0, <1>2 DEF Judge, JudgedApart, Remaining
    <3>2. Judgeable(s)' <=> Judgeable(s)
      BY <1>0, <1>2, <3>1 DEF Judge, Due, Judgeable
    <3> QED
      BY <1>2, <3>2 DEF Judge, Following
  <2>2. decided' = decided
    BY <1>2 DEF Judge
  <2> QED
    BY <2>1, <2>2, StatusStutter, Zenon
<1>3. ASSUME NEW t \in Trace, NEW keep \in BOOLEAN, NEW ok \in BOOLEAN, Decide(t, keep, ok)
      PROVE UNCHANGED Promise!vars
  <2>1. ASSUME NEW s \in Span
        PROVE /\ Judgeable(s)' <=> Judgeable(s)
              /\ Following(s)' <=> Following(s)
              /\ fate'[s] = fate[s] \/ Judgeable(s)
    <3>1. s \in ready[t] => TraceOf[s] = t
      BY <1>0 DEF Filed
    <3> QED
      BY <1>3, <1>0, <3>1, Zenon DEF Decide, Judgeable, Following, Become
  <2>2. decided' = decided
    BY <1>3, Zenon DEF Decide
  <2> QED
    BY <2>1, <2>2, StatusStutter
<1>4. CASE Settle
  <2>1. cur.id \in Trace
    BY <1>4 DEF PlacesInv, SettlesATrace, Settle
  <2> QED
    BY <1>4, <2>1, SettleSteps DEF Promise!Next
<1>5. CASE Forget
  <2>1. ASSUME NEW s \in Span
        PROVE (Judgeable(s)' <=> Judgeable(s)) /\ (Following(s)' <=> Following(s)) /\ fate'[s] = fate[s]
    BY <1>5, Zenon DEF Forget, Judgeable, Following
  <2>2. ASSUME NEW s \in Span PROVE Status'[s] = Status[s]
    <3>1. StatusIsPlace(s) /\ StatusIsPlace(s)'
      BY DEF StatusByMap
    <3> QED
      BY <2>1, <3>1, Zenon DEF StatusIsPlace
  <2>3. Status = [s \in Span |-> Status[s]] /\ Status' = [s \in Span |-> Status'[s]]
    BY Zenon DEF Status
  <2>4. UNCHANGED Status
    BY <2>2, <2>3
  <2> QED
    BY <1>5, <2>4, ForgetVerdicts DEF Promise!Forget, Promise!Next
<1>6. CASE TakeLate
  <2>1. ASSUME NEW s \in Span
        PROVE (Judgeable(s)' <=> Judgeable(s)) /\ (Following(s)' <=> Following(s)) /\ fate'[s] = fate[s]
    <3>1. TraceOf[s] \in Trace /\ lateBatch[TraceOf[s]] = {}
      BY <1>0, <1>6 DEF TakeLate, JudgedApart, LateRemaining
    <3> QED
      BY <1>6, <3>1 DEF TakeLate, NoSpans, Judgeable, Following
  <2>2. decided' = decided
    BY <1>6 DEF TakeLate
  <2> QED
    BY <2>1, <2>2, StatusStutter
<1>7. ASSUME NEW t \in Trace, NEW ok \in BOOLEAN, WriteLate(t, ok)
      PROVE Promise!WriteKept(t)
  <2> DEFINE out == IF ok THEN "written" ELSE "lost"
  <2>1. \A s \in lateBatch[t] : s \in Span /\ TraceOf[s] = t /\ Following(s) /\ Status[s] = "kept"
    BY <1>0, Zenon DEF Filed, Following, StatusByMap, StatusIsPlace
  <2>2. lateBatch[t] \in SUBSET Promise!Of(t, "kept")
    BY <2>1 DEF Promise!Of, Promise!Being
  <2>3. ASSUME NEW s \in Span PROVE Status'[s] = IF s \in lateBatch[t] THEN out ELSE Status[s]
    <3>1. StatusIsPlace(s) /\ StatusIsPlace(s)' /\ TraceOf[s] \in Trace
      BY <1>0 DEF StatusByMap
    <3>2. /\ Judgeable(s)' <=> Judgeable(s)
          /\ fate'[s] = IF s \in lateBatch[t] THEN out ELSE fate[s]
          /\ lateBatch' = [lateBatch EXCEPT ![t] = {}] /\ late' = late
      BY <1>7 DEF WriteLate, Judgeable, Become
    <3>3. s \in lateBatch[t] => s \notin late[t] /\ TraceOf[s] = t
      BY <2>1, Zenon DEF PlacesInv, AllInOneMap, InOneMap
    <3>4. Following(s)' <=> Following(s) /\ s \notin lateBatch[t]
      BY <3>1, <3>2, <3>3, <1>0 DEF Following
    <3> QED
      BY <2>1, <3>1, <3>2, <3>4, Zenon DEF StatusIsPlace
  <2>4. Status' = Promise!Turn(lateBatch[t], out)
    <3>1. Status' = [s \in Span |-> Status'[s]]
      BY Zenon DEF Status
    <3> QED
      BY <2>3, <3>1 DEF Promise!Turn
  <2>5. decided' = decided /\ out \in {"written", "lost"}
    BY <1>7 DEF WriteLate
  <2> HIDE DEF out
  <2> QED
    BY <2>2, <2>4, <2>5 DEF Promise!WriteKept
<1> QED
  BY <1>1, <1>2, <1>3, <1>4, <1>5, <1>6, <1>7 DEF Run, Deciding, WritingLate, Promise!Next

\* Every step of the sampler maps to a step of the abstract one or to a stutter.
LEMMA SamplingStep ==
  ASSUME PlacesInv, VerdictOfPolicies, StatusByMap, StatusByMap', [Next]_vars
  PROVE  [Promise!Next]_Promise!vars
<1>1. CASE Stop \/ Tick \/ UNCHANGED vars
  <2>1. ASSUME NEW s \in Span
        PROVE (Judgeable(s)' <=> Judgeable(s)) /\ (Following(s)' <=> Following(s)) /\ fate'[s] = fate[s]
    BY <1>1, Zenon DEF Stop, Tick, vars, tables, accepting, sweeper, Judgeable, Following
  <2>2. decided' = decided
    BY <1>1 DEF Stop, Tick, vars, tables, accepting, sweeper
  <2> QED
    BY <2>1, <2>2, StatusStutter, Zenon
<1> QED
  BY <1>1, AcceptSteps, RunSteps DEF Next

\* The sampler implements the abstract sampler, for every configuration New
\* accepts and any number of traces, spans and concurrent exports: each trace
\* is judged as if in one step with everything held of it, although judge,
\* decide and settle are three, and a span that follows a remembered verdict
\* shares it.
THEOREM SamplerImplementsSampling == Spec => ImplementsSampling
<1>1. Init => VerdictOfPolicies
  BY Zenon DEF Init, VerdictOfPolicies
<1>2. Spec => []VerdictOfPolicies
  BY <1>1, VerdictStep, PlacesHold, PTL DEF Spec
<1>3. Spec => [][Promise!Next]_Promise!vars
  <2>1. PlacesInv /\ VerdictOfPolicies /\ StatusByMap /\ StatusByMap' /\ [Next]_vars => [Promise!Next]_Promise!vars
    BY SamplingStep
  <2> QED
    BY <1>2, <2>1, PlacesHold, StatusRead, PTL DEF Spec
<1> QED
  BY <1>3, SamplingInit, PTL DEF Spec, ImplementsSampling, Promise!Spec
=============================================================================
