---------------------------- MODULE MemoryProofs ----------------------------
(***************************************************************************)
(* Proofs about the in-memory store: its indexes are exact, a trace holds  *)
(* one copy of each span, and a search finds every trace up to a day long  *)
(* that meets its conditions, for any spans, queries, retention and limits.*)
(*                                                                         *)
(* Each entry satisfies EntryOK, which ties bySpan to the positions of the *)
(* spans, to the last copies written, and to the keys the entry recorded.  *)
(* Insert is the only operation that builds an entry, so what an entry     *)
(* satisfies is one lemma about Inserted.                                  *)
(***************************************************************************)
EXTENDS Memory, TLAPS, FiniteSetTheorems, SequenceTheorems

(***************************************************************************)
(* Index keys.                                                             *)
(***************************************************************************)

\* A duration's bucket is a number no larger than the array byDuration has
\* room for, and a longer duration is never in an earlier bucket.
LEMMA BucketsInOrder ==
  ASSUME NEW c \in Int, NEW d \in Int, c <= d
  PROVE  /\ durationBucket(c) \in Nat /\ durationBucket(d) \in Nat
         /\ durationBucket(c) <= durationBucket(d)
         /\ durationBucket(d) <= TopBucket
<1> DEFINE I == 0..(DurationBits - 1)
           C == {i \in I : 2^i <= c}
           D == {i \in I : 2^i <= d}
<1>1. IsFiniteSet(I) /\ Cardinality(I) <= DurationBits
  <2>1. 0 \in Int /\ DurationBits - 1 \in Int /\ DurationBits \in Nat
    BY MemoryAssumption
  <2>2. /\ IsFiniteSet(I)
        /\ Cardinality(I) = IF 0 > DurationBits - 1 THEN 0 ELSE (DurationBits - 1) - 0 + 1
    BY <2>1, FS_Interval
  <2> QED BY <2>1, <2>2
<1>2. D \in SUBSET I
  OBVIOUS
<1>3. IsFiniteSet(D) /\ Cardinality(D) <= Cardinality(I)
  BY <1>1, <1>2, FS_Subset
<1>4. C \in SUBSET D
  <2>1. ASSUME NEW i \in I, 2^i <= c PROVE 2^i <= d
    <3>1. i \in Nat
      BY MemoryAssumption
    <3>2. 2^i \in Int
      BY <3>1
    <3> QED BY <2>1, <3>2
  <2> QED BY <2>1
<1>5. IsFiniteSet(C) /\ Cardinality(C) <= Cardinality(D)
  BY <1>3, <1>4, FS_Subset
<1>6. Cardinality(C) \in Nat /\ Cardinality(D) \in Nat /\ Cardinality(I) \in Nat
  BY <1>1, <1>3, <1>5, FS_CardinalityType
<1>7. durationBucket(c) = Cardinality(C) /\ durationBucket(d) = Cardinality(D)
  BY DEF durationBucket
<1> HIDE DEF C, D, I
<1> QED BY <1>1, <1>3, <1>5, <1>6, <1>7, MemoryAssumption DEF TopBucket

\* A later time is never in an earlier minute.
LEMMA MinutesInOrder ==
  ASSUME NEW a \in Nat, NEW b \in Nat, a <= b
  PROVE  Minute(a) \in Nat /\ Minute(b) \in Nat /\ Minute(a) <= Minute(b)
<1>1. MinuteLen \in Nat /\ MinuteLen > 0
  BY MemoryAssumption
<1>2. ASSUME NEW n \in Nat
      PROVE  /\ n \div MinuteLen \in Nat
             /\ MinuteLen * (n \div MinuteLen) <= n
             /\ n < MinuteLen * (n \div MinuteLen) + MinuteLen
  BY <1>1
<1>3. ASSUME NEW x \in Nat, NEW y \in Nat, MinuteLen * x <= a, b < MinuteLen * y + MinuteLen
      PROVE  x <= y
  BY <1>1, <1>3
<1> QED BY <1>2, <1>3 DEF Minute

\* The keys of a span are keys of the four indexes.
LEMMA KeysOfType ==
  ASSUME NEW s \in SpanRecord
  PROVE  KeysOf(s) \in SUBSET Key
<1>1. s.start \in Nat /\ Duration(s) \in Int /\ s.service \in Service /\ s.name \in Name
  BY DEF SpanRecord, Duration
<1>2. durationBucket(Duration(s)) \in Nat
  BY <1>1, BucketsInOrder
<1>3. Minute(s.start) \in Nat
  BY <1>1, MinutesInOrder
<1> QED BY <1>1, <1>2, <1>3 DEF KeysOf, Key, ServiceKey, OperationKey, DurationKey, MinuteKey

(***************************************************************************)
(* Entries.                                                                *)
(***************************************************************************)

\* What an entry e and the last copies written of its trace's spans satisfy:
\* bySpan is the position of each span and 0 for the others, the spans are the
\* last copies, and the keys cover every span and the minute the trace starts.
EntryOK(e, copies) ==
  /\ \A i \in SpanId : e.bySpan[i] <= Len(e.spans)
  /\ \A i \in SpanId : e.bySpan[i] # 0 => e.spans[e.bySpan[i]].id = i
  /\ \A n \in 1..Len(e.spans) : e.bySpan[e.spans[n].id] = n
  /\ \A i \in SpanId : copies[i] = IF e.bySpan[i] = 0 THEN << >> ELSE <<e.spans[e.bySpan[i]]>>
  /\ \A n \in 1..Len(e.spans) : KeysOf(e.spans[n]) \subseteq e.keys
  /\ e.spans # << >> => MinuteKey(Minute(e.start)) \in e.keys

\* A trace with no entry.
LEMMA NoEntryOK == NoEntry \in Entry /\ EntryOK(NoEntry, NoCopy)
BY EmptySeq DEF NoEntry, NoCopy, Entry, EntryOK

\* insert keeps an entry in order, whether the span is new or replaces a copy.
LEMMA InsertedOK ==
  ASSUME NEW e \in Entry, NEW copies \in [SpanId -> Seq(SpanRecord)], EntryOK(e, copies),
         NEW s \in SpanRecord
  PROVE  /\ Inserted(e, s) \in Entry
         /\ EntryOK(Inserted(e, s), [copies EXCEPT ![s.id] = <<s>>])
<1> DEFINE f == Inserted(e, s)
           i == e.bySpan[s.id]
           new == [copies EXCEPT ![s.id] = <<s>>]
<1>1. /\ s.id \in SpanId /\ s.start \in Nat /\ s.end \in Nat
      /\ e.spans \in Seq(SpanRecord) /\ e.bySpan \in [SpanId -> Nat]
      /\ e.start \in Nat /\ e.end \in Nat /\ e.keys \in SUBSET Key
  BY DEF SpanRecord, Entry
<1>2. Len(e.spans) \in Nat /\ DOMAIN e.spans = 1..Len(e.spans) /\ i \in 0..Len(e.spans)
  BY <1>1, LenProperties DEF EntryOK
<1>3. KeysOf(s) \in SUBSET Key
  BY KeysOfType
<1>4. /\ f.start \in Nat /\ f.end \in Nat /\ f.keys = e.keys \cup KeysOf(s)
      /\ f.start \in {s.start, e.start} /\ (e.spans = << >> => f.start = s.start)
  BY <1>1 DEF Inserted
<1>5. MinuteKey(Minute(f.start)) \in f.keys
  <2>1. MinuteKey(Minute(s.start)) \in KeysOf(s)
    BY DEF KeysOf
  <2>2. CASE f.start = s.start
    BY <1>4, <2>1, <2>2
  <2>3. CASE f.start = e.start /\ e.spans # << >>
    BY <1>4, <2>3 DEF EntryOK
  <2> QED BY <1>4, <2>2, <2>3
<1>6. \A n \in 1..Len(e.spans) : e.spans[n] \in SpanRecord /\ e.spans[n].id \in SpanId
  <2>1. \A n \in 1..Len(e.spans) : e.spans[n] \in SpanRecord
    BY <1>1, ElementOfSeq
  <2> QED BY <2>1 DEF SpanRecord
<1>7. f = [spans |-> f.spans, bySpan |-> f.bySpan, start |-> f.start, end |-> f.end, keys |-> f.keys]
  BY DEF Inserted
<1>8. CASE i # 0
  <2>1. f.bySpan = e.bySpan /\ f.spans = [e.spans EXCEPT ![i] = s]
    BY <1>8 DEF Inserted
  <2>2. /\ f.spans \in Seq(SpanRecord) /\ Len(f.spans) = Len(e.spans)
        /\ \A n \in 1..Len(e.spans) : f.spans[n] = IF n = i THEN s ELSE e.spans[n]
    BY <1>1, <1>2, <1>8, <2>1, ExceptSeq
  <2>3. f \in Entry
    <3> HIDE DEF f
    <3> QED BY <1>1, <1>3, <1>4, <1>7, <2>1, <2>2 DEF Entry
  <2>4. e.spans[i].id = s.id
    BY <1>1, <1>8 DEF EntryOK
  <2> HIDE DEF f
  <2>5. \A n \in 1..Len(f.spans) : f.spans[n].id = e.spans[n].id
    BY <2>2, <2>4
  <2>6. \A j \in SpanId : f.bySpan[j] <= Len(f.spans)
    BY <2>1, <2>2 DEF EntryOK
  <2>7. \A n \in 1..Len(f.spans) : f.bySpan[f.spans[n].id] = n
    BY <2>1, <2>2, <2>5 DEF EntryOK
  <2>8. \A j \in SpanId : f.bySpan[j] # 0 => f.spans[f.bySpan[j]].id = j
    BY <1>1, <1>2, <2>1, <2>2, <2>5, <2>6 DEF EntryOK
  <2>9. \A j \in SpanId : new[j] = IF f.bySpan[j] = 0 THEN << >> ELSE <<f.spans[f.bySpan[j]]>>
    <3>1. ASSUME NEW j \in SpanId, j = s.id
          PROVE  new[j] = IF f.bySpan[j] = 0 THEN << >> ELSE <<f.spans[f.bySpan[j]]>>
      BY <1>1, <1>2, <1>8, <2>1, <2>2, <3>1
    <3>2. ASSUME NEW j \in SpanId, j # s.id
          PROVE  new[j] = IF f.bySpan[j] = 0 THEN << >> ELSE <<f.spans[f.bySpan[j]]>>
      <4>1. f.bySpan[j] # i
        BY <1>8, <2>1, <2>4, <3>2 DEF EntryOK
      <4>2. f.bySpan[j] \in 0..Len(e.spans)
        BY <1>1, <1>2, <2>1, <2>2, <2>6
      <4>3. f.bySpan[j] # 0 => f.spans[f.bySpan[j]] = e.spans[f.bySpan[j]]
        BY <1>2, <2>2, <4>1, <4>2
      <4>4. new[j] = copies[j]
        BY <3>2
      <4> QED BY <2>1, <4>3, <4>4 DEF EntryOK
    <3> QED BY <3>1, <3>2
  <2>10. \A n \in 1..Len(f.spans) : KeysOf(f.spans[n]) \subseteq f.keys
    BY <1>4, <2>2 DEF EntryOK
  <2>11. EntryOK(f, new)
    BY <1>5, <2>6, <2>7, <2>8, <2>9, <2>10 DEF EntryOK
  <2> QED BY <2>3, <2>11 DEF f
<1>9. CASE i = 0
  <2> DEFINE m == Len(e.spans) + 1
  <2>1. f.bySpan = [e.bySpan EXCEPT ![s.id] = m] /\ f.spans = Append(e.spans, s)
    BY <1>9 DEF Inserted
  <2>2. /\ f.spans \in Seq(SpanRecord) /\ Len(f.spans) = m
        /\ \A n \in 1..Len(e.spans) : f.spans[n] = e.spans[n]
        /\ f.spans[m] = s
    BY <1>1, <2>1, AppendProperties
  <2>3. f \in Entry
    <3> HIDE DEF f
    <3>1. f.bySpan \in [SpanId -> Nat]
      BY <1>1, <1>2, <2>1
    <3> QED BY <1>1, <1>3, <1>4, <1>7, <2>2, <3>1 DEF Entry
  <2>4. \A n \in 1..Len(e.spans) : e.spans[n].id # s.id
    BY <1>2, <1>9 DEF EntryOK
  <2> HIDE DEF f
  <2>5. \A j \in SpanId : f.bySpan[j] = IF j = s.id THEN m ELSE e.bySpan[j]
    BY <1>1, <2>1
  <2>old. \A j \in SpanId : e.bySpan[j] # 0 => e.bySpan[j] \in 1..Len(e.spans)
    BY <1>1, <1>2 DEF EntryOK
  <2>6. \A j \in SpanId : f.bySpan[j] <= Len(f.spans)
    BY <1>1, <1>2, <2>2, <2>5 DEF EntryOK
  <2>7. \A n \in 1..Len(f.spans) : f.bySpan[f.spans[n].id] = n
    <3>1. ASSUME NEW n \in 1..Len(f.spans), n = m PROVE f.bySpan[f.spans[n].id] = n
      BY <1>1, <2>2, <2>5, <3>1
    <3>2. ASSUME NEW n \in 1..Len(f.spans), n # m PROVE f.bySpan[f.spans[n].id] = n
      <4>1. n \in 1..Len(e.spans)
        BY <1>2, <2>2, <3>2
      <4>2. e.bySpan[e.spans[n].id] = n
        BY <4>1 DEF EntryOK
      <4>3. f.spans[n] = e.spans[n] /\ e.spans[n].id \in SpanId /\ e.spans[n].id # s.id
        BY <1>6, <2>2, <2>4, <4>1
      <4>4. f.bySpan[e.spans[n].id] = e.bySpan[e.spans[n].id]
        BY <2>5, <4>3
      <4> QED BY <4>2, <4>3, <4>4
    <3> QED BY <3>1, <3>2
  <2>8. \A j \in SpanId : f.bySpan[j] # 0 => f.spans[f.bySpan[j]].id = j
    <3>1. ASSUME NEW j \in SpanId, j # s.id, f.bySpan[j] # 0 PROVE f.spans[f.bySpan[j]].id = j
      <4>1. f.bySpan[j] = e.bySpan[j] /\ e.bySpan[j] \in 1..Len(e.spans)
        BY <2>5, <2>old, <3>1
      <4>2. f.spans[f.bySpan[j]] = e.spans[e.bySpan[j]]
        BY <2>2, <4>1
      <4>3. e.spans[e.bySpan[j]].id = j
        BY <3>1, <4>1 DEF EntryOK
      <4> QED BY <4>2, <4>3
    <3>2. ASSUME NEW j \in SpanId, j = s.id PROVE f.spans[f.bySpan[j]].id = j
      BY <2>2, <2>5, <3>2
    <3> QED BY <3>1, <3>2
  <2>9. \A j \in SpanId : new[j] = IF f.bySpan[j] = 0 THEN << >> ELSE <<f.spans[f.bySpan[j]]>>
    <3>1. ASSUME NEW j \in SpanId, j # s.id
          PROVE  new[j] = IF f.bySpan[j] = 0 THEN << >> ELSE <<f.spans[f.bySpan[j]]>>
      <4>1. new[j] = copies[j] /\ f.bySpan[j] = e.bySpan[j]
        BY <2>5, <3>1
      <4>2. f.bySpan[j] # 0 => f.spans[f.bySpan[j]] = e.spans[e.bySpan[j]]
        BY <2>2, <2>old, <3>1, <4>1
      <4> QED BY <4>1, <4>2 DEF EntryOK
    <3>2. ASSUME NEW j \in SpanId, j = s.id
          PROVE  new[j] = IF f.bySpan[j] = 0 THEN << >> ELSE <<f.spans[f.bySpan[j]]>>
      <4>1. new[j] = <<s>> /\ f.bySpan[j] = m /\ m # 0
        BY <1>2, <2>5, <3>2
      <4> QED BY <2>2, <4>1
    <3> QED BY <3>1, <3>2
  <2>10. \A n \in 1..Len(f.spans) : KeysOf(f.spans[n]) \subseteq f.keys
    BY <1>2, <1>4, <2>2 DEF EntryOK
  <2>11. EntryOK(f, new)
    BY <1>5, <2>6, <2>7, <2>8, <2>9, <2>10 DEF EntryOK
  <2> QED BY <2>3, <2>11 DEF f
<1> QED BY <1>8, <1>9

(***************************************************************************)
(* The store.                                                              *)
(***************************************************************************)

\* The inductive invariant: every entry is in order, and the indexes are the
\* keys the entries recorded for as long as the store is open.
MemoryInv ==
  /\ closed \in BOOLEAN
  /\ traces \in [Trace -> Entry]
  /\ latest \in [Trace -> [SpanId -> Seq(SpanRecord)]]
  /\ writing \in Seq(SpanRecord)
  /\ closed => writing = << >>
  /\ \A t \in Trace : EntryOK(traces[t], latest[t])
  /\ index \subseteq Key \X Trace
  /\ ~closed => \A k, t : <<k, t>> \in index <=> t \in Trace /\ k \in traces[t].keys

\* The empty store.
LEMMA MemoryInit == Init => MemoryInv
<1> SUFFICES ASSUME Init PROVE MemoryInv
  OBVIOUS
<1>1. NoCopy \in [SpanId -> Seq(SpanRecord)]
  BY EmptySeq DEF NoCopy
<1>2. \A t \in Trace : traces[t] = NoEntry /\ latest[t] = NoCopy
  BY DEF Init
<1>3. NoEntry.keys = {}
  BY DEF NoEntry
<1> QED BY <1>1, <1>2, <1>3, NoEntryOK, EmptySeq DEF Init, MemoryInv

\* Every operation of the store keeps the invariant.
LEMMA MemoryStep == MemoryInv /\ [Next]_vars => MemoryInv'
<1> SUFFICES ASSUME MemoryInv, [Next]_vars PROVE MemoryInv'
  OBVIOUS
<1> USE DEF MemoryInv
<1>1. ASSUME NEW b \in Batches, Write(b) PROVE MemoryInv'
  <2>1. b \in Seq(SpanRecord)
    <3>1. PICK n \in 1..MaxBatch : b \in [1..n -> Offered]
      BY DEF Batches
    <3>2. n \in Nat /\ b \in [1..n -> SpanRecord]
      BY <3>1, MemoryAssumption
    <3> QED BY <3>2
  <2> QED BY <1>1, <2>1 DEF Write
<1>2. CASE Insert
  <2> DEFINE s == Head(writing)
  <2>1. /\ s \in SpanRecord /\ Tail(writing) \in Seq(SpanRecord)
        /\ s.trace \in Trace /\ s.id \in SpanId
    <3>1. s \in SpanRecord /\ Tail(writing) \in Seq(SpanRecord)
      BY <1>2, HeadTailProperties DEF Insert
    <3> HIDE DEF s
    <3> QED BY <3>1 DEF SpanRecord
  <2>2. KeysOf(s) \in SUBSET Key
    BY <2>1, KeysOfType
  <2>3. /\ traces' = [traces EXCEPT ![s.trace] = Inserted(traces[s.trace], s)]
        /\ index' = index \cup {<<k, s.trace>> : k \in KeysOf(s)}
        /\ latest' = [latest EXCEPT ![s.trace] = [latest[s.trace] EXCEPT ![s.id] = <<s>>]]
        /\ writing' = Tail(writing) /\ closed' = closed /\ ~closed
    BY <1>2 DEF Insert
  <2> HIDE DEF s
  <2>4. /\ Inserted(traces[s.trace], s) \in Entry
        /\ EntryOK(Inserted(traces[s.trace], s), [latest[s.trace] EXCEPT ![s.id] = <<s>>])
    BY <2>1, InsertedOK
  <2>5. [latest[s.trace] EXCEPT ![s.id] = <<s>>] \in [SpanId -> Seq(SpanRecord)]
    BY <2>1
  <2>6. traces' \in [Trace -> Entry] /\ latest' \in [Trace -> [SpanId -> Seq(SpanRecord)]]
    BY <2>1, <2>3, <2>4, <2>5
  <2>7. \A t \in Trace : EntryOK(traces[t], latest[t])'
    <3>1. ASSUME NEW t \in Trace, t = s.trace PROVE EntryOK(traces'[t], latest'[t])
      BY <2>3, <2>4, <3>1
    <3>2. ASSUME NEW t \in Trace, t # s.trace PROVE EntryOK(traces'[t], latest'[t])
      BY <2>3, <3>2
    <3> QED BY <3>1, <3>2
  <2>8. index' \subseteq Key \X Trace
    BY <2>1, <2>2, <2>3
  <2>9. \A k, t : <<k, t>> \in index' <=> t \in Trace /\ k \in traces'[t].keys
    <3>1. Inserted(traces[s.trace], s).keys = traces[s.trace].keys \cup KeysOf(s)
      BY DEF Inserted
    <3>2. \A t \in Trace : traces'[t].keys = traces[t].keys \cup (IF t = s.trace THEN KeysOf(s) ELSE {})
      BY <2>1, <2>3, <3>1
    <3>3. \A k, t : <<k, t>> \in index' <=> <<k, t>> \in index \/ (t = s.trace /\ k \in KeysOf(s))
      BY <2>3
    <3>4. ASSUME NEW k, NEW t PROVE <<k, t>> \in index' <=> t \in Trace /\ k \in traces'[t].keys
      <4>1. <<k, t>> \in index <=> t \in Trace /\ k \in traces[t].keys
        BY <2>3
      <4>2. t \in Trace => (k \in traces'[t].keys <=> k \in traces[t].keys \/ (t = s.trace /\ k \in KeysOf(s)))
        BY <3>2
      <4> QED BY <2>1, <3>3, <4>1, <4>2
    <3> QED BY <3>4
  <2> QED BY <2>1, <2>3, <2>6, <2>7, <2>8, <2>9
<1>3. ASSUME NEW now \in 0..MaxClock, EvictExpired(now) PROVE MemoryInv'
  <2> DEFINE expired == {t \in Stored : traces[t].end < now - Retention}
  <2>1. /\ traces' = [t \in Trace |-> IF t \in expired THEN NoEntry ELSE traces[t]]
        /\ index' = index \ Unindexed(expired)
        /\ latest' = [t \in Trace |-> IF t \in expired THEN NoCopy ELSE latest[t]]
        /\ closed' = closed /\ ~closed /\ writing' = writing
    BY <1>3 DEF EvictExpired
  <2> HIDE DEF expired
  <2>2. NoCopy \in [SpanId -> Seq(SpanRecord)] /\ NoEntry.keys = {}
    BY EmptySeq DEF NoCopy, NoEntry
  <2>3. traces' \in [Trace -> Entry] /\ latest' \in [Trace -> [SpanId -> Seq(SpanRecord)]]
    BY <2>1, <2>2, NoEntryOK
  <2>4. \A t \in Trace : EntryOK(traces[t], latest[t])'
    <3>1. ASSUME NEW t \in Trace, t \in expired PROVE EntryOK(traces'[t], latest'[t])
      BY <2>1, <3>1, NoEntryOK
    <3>2. ASSUME NEW t \in Trace, t \notin expired PROVE EntryOK(traces'[t], latest'[t])
      BY <2>1, <3>2
    <3> QED BY <3>1, <3>2
  <2>5. \A k, t : <<k, t>> \in Unindexed(expired) <=> t \in expired /\ k \in traces[t].keys
    BY DEF Unindexed
  <2>6. \A k, t : <<k, t>> \in index' <=> t \in Trace /\ k \in traces'[t].keys
    <3>1. \A k, t : <<k, t>> \in index' <=> <<k, t>> \in index /\ <<k, t>> \notin Unindexed(expired)
      BY <2>1
    <3>2. \A t \in Trace : traces'[t].keys = IF t \in expired THEN {} ELSE traces[t].keys
      BY <2>1, <2>2
    <3> QED BY <2>1, <2>5, <3>1, <3>2
  <2> QED BY <2>1, <2>3, <2>4, <2>6
<1>4. CASE Close
  <2>1. /\ traces' = [t \in Trace |-> NoEntry] /\ latest' = [t \in Trace |-> NoCopy]
        /\ closed' = TRUE /\ index' = index /\ writing' = writing /\ writing = << >>
    BY <1>4 DEF Close
  <2>2. NoCopy \in [SpanId -> Seq(SpanRecord)]
    BY EmptySeq DEF NoCopy
  <2>3. traces' \in [Trace -> Entry] /\ latest' \in [Trace -> [SpanId -> Seq(SpanRecord)]]
    BY <2>1, <2>2, NoEntryOK
  <2>4. \A t \in Trace : EntryOK(traces[t], latest[t])'
    BY <2>1, NoEntryOK
  <2> QED BY <2>1, <2>3, <2>4
<1>5. CASE UNCHANGED vars
  BY <1>5 DEF vars, EntryOK
<1> QED BY <1>1, <1>2, <1>3, <1>4, <1>5 DEF Next

\* The invariant holds in every state the store reaches.
LEMMA MemoryHolds == Spec => []MemoryInv
BY MemoryInit, MemoryStep, PTL DEF Spec

\* The store's variables keep their types, and bySpan points into spans.
THEOREM StoreTypeCorrect == Spec => []TypeOK
<1>1. MemoryInv => TypeOK
  BY DEF MemoryInv, EntryOK, TypeOK
<1> QED BY <1>1, MemoryHolds, PTL

\* The indexes of Memory are exact for any set of spans and any sequence of
\* writes and evictions: remove, which works from the keys insert recorded,
\* leaves no id behind in a bucket, and no stored span is missing from one.
THEOREM IndexIsExactAlways == Spec => []IndexIsExact
<1>1. MemoryInv => IndexIsExact
  <2> SUFFICES ASSUME MemoryInv, ~closed
               PROVE  /\ index = UNION {{<<k, t>> : k \in traces[t].keys} : t \in Trace}
                      /\ \A t \in Trace : \A i \in DOMAIN traces[t].spans :
                           KeysOf(traces[t].spans[i]) \subseteq traces[t].keys
    BY DEF IndexIsExact
  <2> DEFINE recorded == UNION {{<<k, t>> : k \in traces[t].keys} : t \in Trace}
  <2>1. \A k, t : <<k, t>> \in recorded <=> t \in Trace /\ k \in traces[t].keys
    OBVIOUS
  <2>2. recorded \subseteq Key \X Trace
    BY DEF MemoryInv, Entry
  <2>3. index = recorded
    <3> HIDE DEF recorded
    <3>1. \A p \in Key \X Trace : p = <<p[1], p[2]>>
      OBVIOUS
    <3>2. \A k, t : <<k, t>> \in index <=> <<k, t>> \in recorded
      BY <2>1 DEF MemoryInv
    <3>3. index \subseteq Key \X Trace
      BY DEF MemoryInv
    <3>4. ASSUME NEW p \in Key \X Trace PROVE p \in index <=> p \in recorded
      <4>1. p = <<p[1], p[2]>>
        BY <3>1
      <4>2. <<p[1], p[2]>> \in index <=> <<p[1], p[2]>> \in recorded
        BY <3>2
      <4> QED BY <4>1, <4>2, Zenon
    <3> QED BY <2>2, <3>3, <3>4
  <2>4. ASSUME NEW t \in Trace
        PROVE  \A i \in DOMAIN traces[t].spans : KeysOf(traces[t].spans[i]) \subseteq traces[t].keys
    <3>1. traces[t].spans \in Seq(SpanRecord) /\ EntryOK(traces[t], latest[t])
      BY DEF MemoryInv, Entry
    <3> QED BY <3>1, LenProperties DEF EntryOK
  <2> QED BY <2>3, <2>4
<1> QED BY <1>1, MemoryHolds, PTL

\* A stored trace has one copy of each span ever written to it since it was
\* last evicted, the last one, however batches repeat and overlap.
THEOREM OneCopyAlways == Spec => []OneCopyPerSpan
<1>1. MemoryInv => OneCopyPerSpan
  <2> SUFFICES ASSUME MemoryInv, NEW t \in Trace
               PROVE  /\ Elems(traces[t].spans) = UNION {Elems(latest[t][i]) : i \in SpanId}
                      /\ \A i, j \in DOMAIN traces[t].spans :
                           i # j => traces[t].spans[i].id # traces[t].spans[j].id
    BY DEF OneCopyPerSpan
  <2> DEFINE e == traces[t]
             copies == latest[t]
  <2>1. e.spans \in Seq(SpanRecord) /\ e.bySpan \in [SpanId -> Nat] /\ EntryOK(e, copies)
    BY DEF MemoryInv, Entry
  <2>2. Len(e.spans) \in Nat /\ DOMAIN e.spans = 1..Len(e.spans)
    BY <2>1, LenProperties
  <2>3. \A n \in 1..Len(e.spans) : e.spans[n].id \in SpanId
    <3>1. \A n \in 1..Len(e.spans) : e.spans[n] \in SpanRecord
      BY <2>1, ElementOfSeq
    <3> QED BY <3>1 DEF SpanRecord
  <2> HIDE DEF e, copies
  <2>4. \A i, j \in DOMAIN e.spans : i # j => e.spans[i].id # e.spans[j].id
    BY <2>1, <2>2 DEF EntryOK
  <2>5. ASSUME NEW i \in SpanId
        PROVE  Elems(copies[i]) = IF e.bySpan[i] = 0 THEN {} ELSE {e.spans[e.bySpan[i]]}
    <3>1. CASE e.bySpan[i] = 0
      <4>1. copies[i] = << >>
        BY <2>1, <3>1 DEF EntryOK
      <4> QED BY <3>1, <4>1 DEF Elems
    <3>2. CASE e.bySpan[i] # 0
      <4>1. copies[i] = <<e.spans[e.bySpan[i]]>>
        BY <2>1, <3>2 DEF EntryOK
      <4> QED BY <3>2, <4>1 DEF Elems
    <3> QED BY <3>1, <3>2
  <2>6. ASSUME NEW s \in Elems(e.spans) PROVE s \in UNION {Elems(copies[i]) : i \in SpanId}
    <3>1. PICK n \in 1..Len(e.spans) : s = e.spans[n]
      BY <2>2 DEF Elems
    <3>2. s.id \in SpanId /\ e.bySpan[s.id] = n /\ n # 0
      BY <2>1, <2>2, <2>3, <3>1 DEF EntryOK
    <3>3. s \in Elems(copies[s.id])
      BY <2>5, <3>1, <3>2
    <3> QED BY <3>2, <3>3
  <2>7. ASSUME NEW i \in SpanId, NEW s \in Elems(copies[i]) PROVE s \in Elems(e.spans)
    <3>1. e.bySpan[i] # 0 /\ s = e.spans[e.bySpan[i]]
      BY <2>5
    <3>2. e.bySpan[i] \in DOMAIN e.spans
      BY <2>1, <2>2, <3>1 DEF EntryOK
    <3> QED BY <3>1, <3>2 DEF Elems
  <2>8. Elems(e.spans) = UNION {Elems(copies[i]) : i \in SpanId}
    BY <2>6, <2>7
  <2> QED BY <2>4, <2>8 DEF e, copies
<1> QED BY <1>1, MemoryHolds, PTL

\* Find answers every valid query exactly on the traces that are at most
\* minuteIndexLimit minutes long: whichever index candidates picks, each stored
\* one that meets the conditions is returned or cut off by the limit.
THEOREM FindIsExactAlways == Spec => []FindIsExact
<1>1. MemoryInv => FindIsExact
  <2> SUFFICES ASSUME MemoryInv, ~closed, NEW q \in Queries, Validate(q),
                      NEW t \in Stored, Short(traces[t]), Matches(q, traces[t])
               PROVE  t \in Find(q) \/ Cardinality({u \in Found(q) : Sooner(u, t)}) >= limit(q)
    BY DEF FindIsExact
  <2> DEFINE e == traces[t]
  <2>1. t \in Trace /\ e.spans # << >>
    BY DEF Stored
  <2>2. /\ e.spans \in Seq(SpanRecord) /\ e.start \in Nat /\ e.end \in Nat
        /\ EntryOK(e, latest[t])
    BY <2>1 DEF MemoryInv, Entry
  <2>3. DOMAIN e.spans = 1..Len(e.spans)
    BY <2>2, LenProperties
  <2>4. /\ q.service \in Service \cup {Unset} /\ q.operation \in Name \cup {Unset}
        /\ q.min \in Int /\ q.start \in Nat /\ q.end \in Nat /\ q.limit \in Int
    BY MemoryAssumption DEF Query
  <2>5. ASSUME NEW K, NEW k \in K, k \in e.keys PROVE t \in Under(K)
    <3>1. <<k, t>> \in index
      BY <2>1, <2>5 DEF MemoryInv
    <3> QED BY <2>1, <3>1 DEF Under
  <2>6. ASSUME hasSpanPredicate(q)
        PROVE  \E s \in SpanRecord : matchesSpan(q, s) /\ KeysOf(s) \subseteq e.keys
    <3>1. PICK n \in DOMAIN e.spans : matchesSpan(q, e.spans[n])
      BY <2>6 DEF Matches
    <3>2. e.spans[n] \in SpanRecord /\ KeysOf(e.spans[n]) \subseteq e.keys
      BY <2>2, <2>3, ElementOfSeq DEF EntryOK
    <3> QED BY <3>1, <3>2
  <2>7. t \in candidates(q)
    <3>1. CASE q.operation # Unset
      <4>1. q.service # Unset
        BY <3>1 DEF Validate
      <4>2. PICK s \in SpanRecord : matchesSpan(q, s) /\ KeysOf(s) \subseteq e.keys
        BY <2>6, <4>1 DEF hasSpanPredicate
      <4>3. OperationKey(q.service, q.operation) \in e.keys
        BY <3>1, <4>1, <4>2 DEF matchesSpan, KeysOf
      <4>4. t \in Under({OperationKey(q.service, q.operation)})
        BY <2>5, <4>3
      <4> QED BY <3>1, <4>4 DEF candidates
    <3>2. CASE q.operation = Unset /\ q.service # Unset
      <4>1. PICK s \in SpanRecord : matchesSpan(q, s) /\ KeysOf(s) \subseteq e.keys
        BY <2>6, <3>2 DEF hasSpanPredicate
      <4>2. ServiceKey(q.service) \in e.keys
        BY <3>2, <4>1 DEF matchesSpan, KeysOf
      <4>3. t \in Under({ServiceKey(q.service)})
        BY <2>5, <4>2
      <4> QED BY <3>2, <4>3 DEF candidates
    <3> DEFINE window == q.start # 0 /\ q.end # 0 /\ Minute(q.end) - Minute(q.start) <= minuteIndexLimit
    <3>3. CASE q.operation = Unset /\ q.service = Unset /\ window
      <4> DEFINE M == (Minute(q.start) - minuteIndexLimit)..Minute(q.end)
      <4>1. e.end >= q.start /\ e.start <= q.end
        BY <3>3 DEF Matches, overlaps
      <4>2. /\ Minute(q.start) \in Nat /\ Minute(e.end) \in Nat /\ Minute(q.start) <= Minute(e.end)
            /\ Minute(e.start) \in Nat /\ Minute(q.end) \in Nat /\ Minute(e.start) <= Minute(q.end)
        BY <2>2, <2>4, <4>1, MinutesInOrder
      <4>3. Minute(e.end) - Minute(e.start) <= minuteIndexLimit /\ minuteIndexLimit \in Nat
        BY MemoryAssumption DEF Short
      <4>4. Minute(e.start) \in M
        BY <4>2, <4>3
      <4>5. MinuteKey(Minute(e.start)) \in e.keys
        BY <2>1, <2>2 DEF EntryOK
      <4> HIDE DEF e, M
      <4>6. t \in Under({MinuteKey(m) : m \in M})
        BY <2>5, <4>4, <4>5
      <4> QED BY <3>3, <4>6 DEF candidates, M
    <3>4. CASE q.operation = Unset /\ q.service = Unset /\ ~window /\ q.min > 0
      <4> DEFINE B == durationBucket(q.min)..TopBucket
      <4>1. PICK s \in SpanRecord : matchesSpan(q, s) /\ KeysOf(s) \subseteq e.keys
        BY <2>6, <3>4 DEF hasSpanPredicate
      <4>2. Duration(s) \in Int /\ q.min <= Duration(s)
        BY <2>4, <4>1 DEF matchesSpan, Duration, SpanRecord
      <4>3. durationBucket(Duration(s)) \in B
        BY <2>4, <4>2, BucketsInOrder, MemoryAssumption DEF TopBucket
      <4>4. DurationKey(durationBucket(Duration(s))) \in e.keys
        BY <4>1 DEF KeysOf
      <4> HIDE DEF e, B
      <4>5. t \in Under({DurationKey(b) : b \in B})
        BY <2>5, <4>3, <4>4
      <4> QED BY <3>4, <4>5 DEF candidates, B
    <3>5. CASE q.operation = Unset /\ q.service = Unset /\ ~window /\ ~(q.min > 0)
      BY <3>5 DEF candidates
    <3> QED BY <3>1, <3>2, <3>3, <3>4, <3>5
  <2>8. t \in Found(q)
    BY <2>7 DEF Found
  <2> DEFINE before == {u \in Found(q) : Sooner(u, t)}
  <2>9. Cardinality(before) \in Nat
    <3>1. before \in SUBSET Trace
      BY DEF Found, Stored
    <3> QED BY <3>1, FS_Subset, FS_CardinalityType, MemoryAssumption
  <2>10. limit(q) \in Nat
    BY MemoryAssumption DEF limit, Validate
  <2> HIDE DEF before
  <2>11. Cardinality(before) < limit(q) \/ Cardinality(before) >= limit(q)
    BY <2>9, <2>10
  <2> QED BY <2>8, <2>11 DEF Find, before
<1> QED BY <1>1, MemoryHolds, PTL

(***************************************************************************)
(* summarise.  What its loop has found is a recursive function of how far  *)
(* it has come.  That there is such a function, and what its values are,   *)
(* is shown by looking at the first place where it would fail.             *)
(***************************************************************************)

\* A set of numbers that is not empty has a least element.
LEMMA LeastExists ==
  ASSUME NEW T \in SUBSET Nat, T # {}
  PROVE  \E m \in T : \A k \in T : m <= k
<1> DEFINE R == OpToRel(<, Nat)
<1>1. IsWellFoundedOn(R, Nat)
  BY NatLessThanWellFounded, Zenon
<1>2. \A x, y \in Nat : <<y, x>> \in R <=> y < x
  BY DEF OpToRel
<1> HIDE DEF R
<1>3. PICK m \in T : \A k \in T : ~(<<k, m>> \in R)
  BY <1>1, WFMin, Zenon
<1>4. ASSUME NEW k \in T PROVE m <= k
  <2>1. ~(k < m)
    BY <1>2, <1>3
  <2> QED
    BY <2>1
<1> QED
  BY <1>4

\* One turn of the loop: span n is looked at, and span p named the trace so far.
Turn(q, n, p) ==
  IF q[n].root \/ ((\A i \in 1..(n - 1) : ~q[i].root) /\ (p = 0 \/ q[n].start < q[p].start)) THEN n ELSE p

\* The function h says what named the trace after each of the first m turns.
Turns(q, h, m) == h = [n \in 0..m |-> h[n]] /\ h[0] = 0 /\ \A n \in 1..m : h[n] = Turn(q, n, h[n - 1])

\* The loop has a value after every turn.
LEMMA TurnsExist ==
  ASSUME NEW q, NEW N \in Nat
  PROVE  \E h : Turns(q, h, N)
<1> DEFINE T == {m \in 0..N : ~\E h : Turns(q, h, m)}
<1> SUFFICES ASSUME T # {} PROVE FALSE
  OBVIOUS
<1>1. PICK m \in T : \A k \in T : m <= k
  <2>1. T \in SUBSET Nat
    OBVIOUS
  <2> HIDE DEF T
  <2> QED
    BY <2>1, LeastExists
<1>2. m \in Nat /\ m \in 0..N /\ ~\E h : Turns(q, h, m)
  OBVIOUS
<1>3. m # 0
  <2> SUFFICES ASSUME m = 0 PROVE FALSE
    OBVIOUS
  <2> DEFINE h == [n \in 0..0 |-> 0]
  <2>1. Turns(q, h, 0)
    BY DEF Turns
  <2> QED
    BY <1>2, <2>1
<1>4. m - 1 \in 0..N /\ m - 1 \notin T
  <2>1. m - 1 \in 0..N /\ ~(m <= m - 1)
    BY <1>2, <1>3
  <2> HIDE DEF T
  <2> QED
    BY <1>1, <2>1
<1>5. PICK g : Turns(q, g, m - 1)
  BY <1>4
<1>6. g[0] = 0 /\ \A n \in 1..(m - 1) : g[n] = Turn(q, n, g[n - 1])
  BY <1>5 DEF Turns
<1> DEFINE h == [n \in 0..m |-> IF n = m THEN Turn(q, m, g[m - 1]) ELSE g[n]]
<1>8. h = [n \in 0..m |-> h[n]] /\ h[0] = 0
  BY <1>2, <1>3, <1>6
<1>9. ASSUME NEW n \in 1..m PROVE h[n] = Turn(q, n, h[n - 1])
  <2>1. n - 1 \in 0..m /\ n - 1 # m /\ n \in 0..m
    BY <1>2
  <2>2. h[n - 1] = g[n - 1]
    BY <2>1
  <2>3. CASE n = m
    <3>1. h[n] = Turn(q, m, g[m - 1])
      BY <2>1, <2>3
    <3> QED
      BY <2>2, <2>3, <3>1
  <2>4. CASE n # m
    <3>1. n \in 1..(m - 1) /\ h[n] = g[n]
      BY <1>2, <2>1, <2>4
    <3> QED
      BY <1>6, <2>2, <3>1
  <2> QED
    BY <2>3, <2>4
<1> HIDE DEF h
<1>10. Turns(q, h, m)
  BY <1>8, <1>9 DEF Turns
<1> QED
  BY <1>2, <1>10

\* summarise is the last of those values.
LEMMA SummariseTurns ==
  ASSUME NEW q, Len(q) \in Nat
  PROVE  \E h : Turns(q, h, Len(q)) /\ summarise(q) = h[Len(q)]
<1> DEFINE N == Len(q)
           head[n \in 0..N] ==
             IF n = 0 THEN 0
             ELSE IF \/ q[n].root
                     \/ /\ \A i \in 1..(n - 1) : ~q[i].root
                        /\ head[n - 1] = 0 \/ q[n].start < q[head[n - 1]].start
             THEN n ELSE head[n - 1]
           Loop(h) == [n \in 0..N |-> IF n = 0 THEN 0
             ELSE IF \/ q[n].root
                     \/ /\ \A i \in 1..(n - 1) : ~q[i].root
                        /\ h[n - 1] = 0 \/ q[n].start < q[h[n - 1]].start
             THEN n ELSE h[n - 1]]
<1>1. summarise(q) = head[N]
  BY DEF summarise
<1>2. head = CHOOSE h : h = Loop(h)
  BY DEF head
<1>3. PICK g : Turns(q, g, N)
  BY TurnsExist
<1>4. g = Loop(g)
  BY <1>3 DEF Turns, Turn
<1>5. head = Loop(head)
  BY <1>2, <1>4
<1> HIDE DEF head
<1>6. head = [n \in 0..N |-> head[n]] /\ head[0] = 0
  BY <1>5
<1>7. ASSUME NEW n \in 1..N PROVE head[n] = Turn(q, n, head[n - 1])
  <2>1. n \in 0..N /\ n # 0
    OBVIOUS
  <2> QED
    BY <1>5, <2>1 DEF Turn
<1>8. Turns(q, head, N)
  BY <1>6, <1>7 DEF Turns
<1> QED
  BY <1>1, <1>8

\* The span that names the trace after n turns is a root, or none of the spans
\* looked at is a root and it is one of the earliest.
Names(q, n, p) ==
  p \in 1..n /\ (q[p].root \/ \A i \in 1..n : ~q[i].root /\ q[p].start <= q[i].start)

\* What the loop has found after every turn.
LEMMA TurnsName ==
  ASSUME NEW q, NEW N \in Nat, NEW h, Turns(q, h, N),
         \A i \in 1..N : q[i].start \in Nat
  PROVE  \A n \in 1..N : Names(q, n, h[n])
<1> DEFINE T == {n \in 1..N : ~Names(q, n, h[n])}
<1> SUFFICES ASSUME T # {} PROVE FALSE
  OBVIOUS
<1>1. PICK m \in T : \A k \in T : m <= k
  <2>1. T \in SUBSET Nat
    OBVIOUS
  <2> HIDE DEF T
  <2> QED
    BY <2>1, LeastExists
<1>2. m \in 1..N /\ ~Names(q, m, h[m])
  OBVIOUS
<1>3. h[0] = 0 /\ h[m] = Turn(q, m, h[m - 1])
  BY <1>2 DEF Turns
<1>4. m # 1 => Names(q, m - 1, h[m - 1])
  <2> SUFFICES ASSUME m # 1 PROVE Names(q, m - 1, h[m - 1])
    OBVIOUS
  <2>1. m - 1 \in 1..N /\ ~(m <= m - 1)
    BY <1>2
  <2>2. m - 1 \notin T
    <3> HIDE DEF T
    <3> QED
      BY <1>1, <2>1
  <2> QED
    BY <2>1, <2>2
<1> DEFINE p == h[m - 1]
<1>5. CASE m = 1
  <2>1. p = 0
    BY <1>3, <1>5
  <2>2. h[m] = 1
    BY <1>3, <1>5, <2>1 DEF Turn
  <2> QED
    BY <1>2, <1>5, <2>2 DEF Names
<1>6. CASE m # 1
  <2>1. /\ p \in 1..(m - 1)
        /\ q[p].root \/ \A i \in 1..(m - 1) : ~q[i].root /\ q[p].start <= q[i].start
    BY <1>4, <1>6 DEF Names
  <2>2. p # 0 /\ p \in 1..m /\ p \in 1..N /\ \A i \in 1..m : i \in 1..(m - 1) \/ i = m
    BY <1>2, <2>1
  <2> HIDE DEF p
  <2>3. CASE q[m].root
    BY <1>2, <1>3, <2>3 DEF Turn, Names, p
  <2>4. CASE ~q[m].root /\ q[p].root
    <3>1. h[m] = p
      BY <1>3, <2>1, <2>4 DEF Turn, p
    <3> QED
      BY <1>2, <2>2, <2>4, <3>1 DEF Names
  <2>5. CASE ~q[m].root /\ ~q[p].root
    <3>1. \A i \in 1..(m - 1) : ~q[i].root /\ q[p].start <= q[i].start
      BY <2>1, <2>5
    <3>2. q[m].start \in Nat /\ q[p].start \in Nat /\ \A i \in 1..(m - 1) : q[i].start \in Nat
      BY <1>2, <2>2
    <3>3. h[m] = IF q[m].start < q[p].start THEN m ELSE p
      BY <1>3, <2>2, <2>5, <3>1 DEF Turn, p
    <3>4. \A i \in 1..m : ~q[i].root /\ q[h[m]].start <= q[i].start
      BY <2>2, <2>5, <3>1, <3>2, <3>3
    <3>5. h[m] \in 1..m
      BY <1>2, <2>2, <3>3
    <3> QED
      BY <1>2, <3>4, <3>5 DEF Names
  <2> QED
    BY <2>3, <2>4, <2>5
<1> QED
  BY <1>5, <1>6

\* A summary is named after a root span if the trace has one, and else after one
\* of its earliest, in whatever order the spans were written and replaced.
THEOREM SummaryIsNamedRightAlways == Spec => []SummaryIsNamedRight
<1>1. TypeOK => SummaryIsNamedRight
  <2> SUFFICES ASSUME TypeOK, NEW t \in Stored
               PROVE  LET q == traces[t].spans
                          head == q[summarise(q)]
                      IN head.root \/ \A i \in DOMAIN q : ~q[i].root /\ head.start <= q[i].start
    BY DEF SummaryIsNamedRight
  <2> DEFINE q == traces[t].spans
  <2>1. q \in Seq(SpanRecord) /\ q # << >>
    BY DEF TypeOK, Stored, Entry
  <2> HIDE DEF q
  <2>2. Len(q) \in Nat /\ Len(q) # 0 /\ DOMAIN q = 1..Len(q) /\ \A i \in 1..Len(q) : q[i] \in SpanRecord
    BY <2>1, LenProperties, ElementOfSeq, EmptySeq
  <2>3. \A i \in 1..Len(q) : q[i].start \in Nat
    BY <2>2 DEF SpanRecord
  <2>4. PICK h : Turns(q, h, Len(q)) /\ summarise(q) = h[Len(q)]
    BY <2>2, SummariseTurns
  <2>5. Len(q) \in 1..Len(q)
    BY <2>2
  <2>6. Names(q, Len(q), summarise(q))
    BY <2>2, <2>3, <2>4, <2>5, TurnsName
  <2> QED
    BY <2>2, <2>6 DEF Names, q
<1> QED
  BY <1>1, StoreTypeCorrect, PTL
=============================================================================
