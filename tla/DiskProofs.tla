----------------------------- MODULE DiskProofs -----------------------------
(***************************************************************************)
(* Proofs about Disk, for any spans, retention, length of an hour and      *)
(* batch size, and any number of faults and restarts: what was             *)
(* acknowledged stays on disk, a crash never leaves files that OpenDisk    *)
(* refuses, and the store keeps the promise of module Store.               *)
(***************************************************************************)
EXTENDS Disk, TLAPS

(***************************************************************************)
(* Facts about sequences.  The solvers know them; they are lemmas so that  *)
(* a leaf has them without the rest of a library of theorems in scope,     *)
(* which would slow every step of the proofs below.                        *)
(***************************************************************************)

\* The elements of a sequence over S are in S.
LEMMA SeqElement == ASSUME NEW S, NEW s \in Seq(S), NEW n \in 1..Len(s) PROVE s[n] \in S
  OBVIOUS

\* A sequence is a function on the numbers up to its length.
LEMMA SeqLen ==
  ASSUME NEW S, NEW s \in Seq(S)
  PROVE  Len(s) \in Nat /\ DOMAIN s = 1..Len(s) /\ s \in [1..Len(s) -> S]
  OBVIOUS

\* The elements of a concatenation, by position.
LEMMA SeqConcat ==
  ASSUME NEW S, NEW a \in Seq(S), NEW b \in Seq(S)
  PROVE  /\ a \o b \in Seq(S) /\ Len(a \o b) = Len(a) + Len(b)
         /\ \A i \in 1..(Len(a) + Len(b)) : (a \o b)[i] = IF i <= Len(a) THEN a[i] ELSE b[i - Len(a)]
  OBVIOUS

\* The elements of a subsequence, by position.
LEMMA SeqSub ==
  ASSUME NEW S, NEW s, NEW m \in Int, NEW n \in Int, \A i \in m..n : s[i] \in S
  PROVE  /\ SubSeq(s, m, n) \in Seq(S) /\ Len(SubSeq(s, m, n)) = IF m <= n THEN n - m + 1 ELSE 0
         /\ \A i \in 1..(n - m + 1) : SubSeq(s, m, n)[i] = s[m + i - 1]
  OBVIOUS

\* A function on the numbers up to n is a sequence.
LEMMA SeqOf == ASSUME NEW S, NEW n \in Nat, NEW f \in [1..n -> S] PROVE f \in Seq(S) /\ Len(f) = n
  OBVIOUS

Recs == [span : Span, good : BOOLEAN]

\* The first n records of a file read back.
Solid(r, n) == \A i \in 1..n : r[i].good

\* Only the last record of a file may be torn.
TornAtEnd(r) == \A i \in 1..Len(r) : i < Len(r) => r[i].good

\* Every record of a file is of a span in S.
OfSpans(r, S) == \A i \in 1..Len(r) : r[i].span \in S

\* s is among the first n records of a file and reads back.
Holds(r, n, s) == \E i \in 1..n : r[i].good /\ r[i].span = s

(***************************************************************************)
(* What the file operations keep.                                          *)
(***************************************************************************)

\* Truncating a file keeps what lies before the cut.
LEMMA CutFile ==
  ASSUME NEW r \in Seq(Recs), NEW n \in Nat, n <= Len(r)
  PROVE  /\ Cut(r, n) \in Seq(Recs) /\ Len(Cut(r, n)) = n
         /\ \A i \in 1..n : Cut(r, n)[i] = r[i]
<1>1. Len(r) \in Nat /\ \A i \in 1..Len(r) : r[i] \in Recs
  BY SeqLen, SeqElement
<1> QED
  BY <1>1, SeqSub DEF Cut

\* What a cut keeps, in the terms of the invariant.
LEMMA CutKeeps ==
  ASSUME NEW r \in Seq(Recs), NEW n \in Nat, n <= Len(r), NEW m \in Nat, m <= n, NEW S
  PROVE  /\ TornAtEnd(r) => TornAtEnd(Cut(r, n))
         /\ OfSpans(r, S) => OfSpans(Cut(r, n), S)
         /\ Solid(r, m) => Solid(Cut(r, n), m)
         /\ \A s : Holds(r, m, s) => Holds(Cut(r, n), m, s)
<1> DEFINE c == Cut(r, n)
<1>1. c \in Seq(Recs) /\ Len(c) = n /\ \A i \in 1..n : c[i] = r[i]
  BY CutFile
<1>2. Len(r) \in Nat
  BY SeqLen
<1> HIDE DEF c
<1>3. TornAtEnd(r) => TornAtEnd(c)
  BY <1>1, <1>2 DEF TornAtEnd
<1>4. OfSpans(r, S) => OfSpans(c, S)
  BY <1>1, <1>2 DEF OfSpans
<1>5. Solid(r, m) => Solid(c, m)
  BY <1>1 DEF Solid
<1>6. \A s : Holds(r, m, s) => Holds(c, m, s)
  BY <1>1 DEF Holds
<1> QED
  BY <1>3, <1>4, <1>5, <1>6 DEF c

\* The records of a batch are good and are of its spans.
LEMMA RecordsOfBatch ==
  ASSUME NEW q \in Seq(Span)
  PROVE  /\ Records(q) \in Seq(Recs) /\ Len(Records(q)) = Len(q)
         /\ \A i \in 1..Len(q) : Records(q)[i].good /\ Records(q)[i].span = q[i] /\ q[i] \in Elems(q)
<1>1. Len(q) \in Nat /\ DOMAIN q = 1..Len(q) /\ \A i \in 1..Len(q) : q[i] \in Span
  BY SeqLen, SeqElement
<1> DEFINE n == Len(q)
           R == Records(q)
<1>2. R = [i \in 1..n |-> [span |-> q[i], good |-> TRUE]]
  BY <1>1 DEF Records, Record
<1>3. \A i \in 1..n : q[i] \in Elems(q)
  BY <1>1 DEF Elems
<1> HIDE DEF n, R
<1>4. R \in [1..n -> Recs]
  BY <1>1, <1>2 DEF Recs, n
<1>5. n \in Nat
  BY <1>1 DEF n
<1>6. R \in Seq(Recs) /\ Len(R) = n
  BY <1>4, <1>5, SeqOf
<1>7. \A i \in 1..n : R[i].good /\ R[i].span = q[i]
  BY <1>2
<1> QED
  BY <1>3, <1>6, <1>7 DEF n, R

\* A file with nothing in it.
LEMMA EmptyFile ==
  ASSUME NEW S
  PROVE  << >> \in Seq(Recs) /\ Len(<< >>) = 0 /\ TornAtEnd(<< >>) /\ OfSpans(<< >>, S) /\ Solid(<< >>, 0)
<1>1. Len(<< >>) = 0 /\ \A i \in 1..0 : FALSE
  OBVIOUS
<1> QED
  BY <1>1 DEF TornAtEnd, OfSpans, Solid

\* What a file looks like after a write to its end stopped somewhere.
LEMMA PartFile ==
  ASSUME NEW f \in Seq(Recs), NEW q \in Seq(Recs), NEW g \in PartOf(f, q)
  PROVE  /\ g \in Seq(Recs) /\ Len(f) <= Len(g)
         /\ \A i \in 1..Len(f) : g[i] = f[i]
         /\ \A i \in 1..Len(g) : i > Len(f) =>
              /\ i - Len(f) \in 1..Len(q) /\ g[i].span = q[i - Len(f)].span
              /\ i < Len(g) => g[i] = q[i - Len(f)]
<1>1. /\ Len(f) \in Nat /\ Len(q) \in Nat /\ \A i \in 1..Len(q) : q[i] \in Recs
  BY SeqLen, SeqElement
<1>2. ASSUME NEW k \in 0..Len(q)
      PROVE  /\ SubSeq(q, 1, k) \in Seq(Recs) /\ Len(SubSeq(q, 1, k)) = k
             /\ \A i \in 1..k : SubSeq(q, 1, k)[i] = q[i]
  <2>1. k \in Nat /\ k <= Len(q)
    BY <1>1
  <2> QED
    BY <2>1, CutFile DEF Cut
<1>3. ASSUME NEW a \in Seq(Recs), NEW b \in Seq(Recs)
      PROVE  /\ a \o b \in Seq(Recs) /\ Len(a \o b) = Len(a) + Len(b)
             /\ \A i \in 1..Len(a) : (a \o b)[i] = a[i]
             /\ \A i \in 1..(Len(a) + Len(b)) : i > Len(a) => (a \o b)[i] = b[i - Len(a)]
  <2>1. Len(a) \in Nat /\ Len(b) \in Nat
    BY SeqLen
  <2> QED
    BY <2>1, SeqConcat
<1>4. ASSUME NEW k \in 0..Len(q), g = f \o SubSeq(q, 1, k)
      PROVE  /\ g \in Seq(Recs) /\ Len(g) = Len(f) + k
             /\ \A i \in 1..Len(f) : g[i] = f[i]
             /\ \A i \in 1..Len(g) : i > Len(f) => g[i] = q[i - Len(f)]
  <2> DEFINE b == SubSeq(q, 1, k)
  <2>1. b \in Seq(Recs) /\ Len(b) = k /\ \A i \in 1..k : b[i] = q[i]
    BY <1>2
  <2> HIDE DEF b
  <2>2. g = f \o b
    BY <1>4 DEF b
  <2>3. /\ g \in Seq(Recs) /\ Len(g) = Len(f) + k
        /\ \A i \in 1..Len(f) : g[i] = f[i]
        /\ \A i \in 1..(Len(f) + k) : i > Len(f) => g[i] = b[i - Len(f)]
    BY <1>3, <2>1, <2>2, Zenon
  <2> QED
    BY <1>1, <2>1, <2>3
<1>5. ASSUME NEW k \in 0..(Len(q) - 1), g = f \o SubSeq(q, 1, k) \o <<Record(q[k + 1].span, FALSE)>>
      PROVE  /\ g \in Seq(Recs) /\ Len(g) = Len(f) + k + 1
             /\ \A i \in 1..Len(f) : g[i] = f[i]
             /\ \A i \in 1..Len(g) : i > Len(f) /\ i < Len(g) => g[i] = q[i - Len(f)]
             /\ g[Len(g)].span = q[k + 1].span
  <2> DEFINE b == SubSeq(q, 1, k)
             t == <<Record(q[k + 1].span, FALSE)>>
             a == f \o b
  <2>1. k \in 0..Len(q) /\ k \in Nat
    BY <1>1
  <2>2. b \in Seq(Recs) /\ Len(b) = k /\ \A i \in 1..k : b[i] = q[i]
    BY <1>2, <2>1
  <2>3. t \in Seq(Recs) /\ Len(t) = 1 /\ t[1].span = q[k + 1].span
    <3>1. q[k + 1] \in Recs
      BY <1>1
    <3> DEFINE x == Record(q[k + 1].span, FALSE)
    <3>2. x \in Recs /\ x.span = q[k + 1].span
      BY <3>1 DEF Record, Recs
    <3> HIDE DEF x
    <3>3. t = <<x>>
      BY DEF x
    <3> HIDE DEF t
    <3>4. t \in Seq(Recs) /\ Len(t) = 1 /\ t[1] = x
      BY <3>2, <3>3
    <3> QED
      BY <3>2, <3>4
  <2>4. g = a \o t
    BY <1>5
  <2> HIDE DEF b, t
  <2>5. /\ a \in Seq(Recs) /\ Len(a) = Len(f) + k
        /\ \A i \in 1..Len(f) : a[i] = f[i]
        /\ \A i \in 1..(Len(f) + k) : i > Len(f) => a[i] = b[i - Len(f)]
    BY <1>3, <2>2, Zenon
  <2> HIDE DEF a
  <2>6. /\ g \in Seq(Recs) /\ Len(g) = Len(a) + 1
        /\ \A i \in 1..Len(a) : g[i] = a[i]
        /\ \A i \in 1..(Len(a) + 1) : i > Len(a) => g[i] = t[i - Len(a)]
    <3>1. /\ a \o t \in Seq(Recs) /\ Len(a \o t) = Len(a) + Len(t)
          /\ \A i \in 1..Len(a) : (a \o t)[i] = a[i]
          /\ \A i \in 1..(Len(a) + Len(t)) : i > Len(a) => (a \o t)[i] = t[i - Len(a)]
      BY <1>3, <2>3, <2>5, Zenon
    <3> QED
      BY <2>3, <2>4, <3>1
  <2>7. g[Len(g)].span = q[k + 1].span
    <3>1. Len(g) \in 1..(Len(a) + 1) /\ Len(g) > Len(a) /\ Len(g) - Len(a) = 1
      BY <1>1, <2>1, <2>5, <2>6
    <3>2. g[Len(g)] = t[Len(g) - Len(a)]
      BY <2>6, <3>1
    <3> QED
      BY <2>3, <3>1, <3>2
  <2>8. Len(g) = Len(f) + k + 1 /\ \A i \in 1..Len(f) : g[i] = f[i]
    BY <1>1, <2>1, <2>5, <2>6
  <2>9. ASSUME NEW i \in 1..Len(g), i > Len(f), i < Len(g) PROVE g[i] = q[i - Len(f)]
    <3>1. i \in 1..Len(a) /\ i \in 1..(Len(f) + k) /\ i - Len(f) \in 1..k
      BY <1>1, <2>1, <2>5, <2>8, <2>9
    <3> QED
      BY <2>2, <2>5, <2>6, <2>9, <3>1
  <2> QED
    BY <2>6, <2>7, <2>8, <2>9, Zenon
<1>6. CASE \E k \in 0..Len(q) : g = f \o SubSeq(q, 1, k)
  <2>1. PICK k \in 0..Len(q) : g = f \o SubSeq(q, 1, k)
    BY <1>6
  <2>2. /\ g \in Seq(Recs) /\ Len(g) = Len(f) + k
        /\ \A i \in 1..Len(f) : g[i] = f[i]
        /\ \A i \in 1..Len(g) : i > Len(f) => g[i] = q[i - Len(f)]
    BY <1>4, <2>1, Zenon
  <2>3. Len(f) <= Len(g)
    BY <1>1, <2>2
  <2>4. ASSUME NEW i \in 1..Len(g), i > Len(f) PROVE i - Len(f) \in 1..Len(q)
    BY <1>1, <2>2, <2>4
  <2> QED
    BY <2>2, <2>3, <2>4, Zenon
<1>7. CASE \E k \in 0..(Len(q) - 1) : g = f \o SubSeq(q, 1, k) \o <<Record(q[k + 1].span, FALSE)>>
  <2>1. PICK k \in 0..(Len(q) - 1) : g = f \o SubSeq(q, 1, k) \o <<Record(q[k + 1].span, FALSE)>>
    BY <1>7, Zenon
  <2>2. /\ g \in Seq(Recs) /\ Len(g) = Len(f) + k + 1
        /\ \A i \in 1..Len(f) : g[i] = f[i]
        /\ \A i \in 1..Len(g) : i > Len(f) /\ i < Len(g) => g[i] = q[i - Len(f)]
        /\ g[Len(g)].span = q[k + 1].span
    BY <1>5, <2>1, Zenon
  <2>3. ASSUME NEW i \in 1..Len(g), i > Len(f)
        PROVE  /\ i - Len(f) \in 1..Len(q) /\ g[i].span = q[i - Len(f)].span
               /\ i < Len(g) => g[i] = q[i - Len(f)]
    <3>1. CASE i = Len(g)
      <4>1. i - Len(f) = k + 1 /\ k + 1 \in 1..Len(q)
        BY <1>1, <2>2, <3>1
      <4> QED
        BY <2>2, <3>1, <4>1
    <3>2. CASE i < Len(g)
      <4>1. i - Len(f) \in 1..Len(q)
        BY <1>1, <2>2, <2>3, <3>2
      <4>2. g[i] = q[i - Len(f)]
        BY <2>2, <2>3, <3>2
      <4> QED
        BY <4>1, <4>2
    <3>3. i = Len(g) \/ i < Len(g)
      <4>1. \A m \in Nat : \A j \in 1..m : j = m \/ j < m
        OBVIOUS
      <4>2. Len(g) \in Nat
        BY <2>2, SeqLen
      <4> QED
        BY <4>1, <4>2, Zenon
    <3> QED
      BY <3>1, <3>2, <3>3
  <2> QED
    BY <1>1, <2>2, <2>3
<1> QED
  BY <1>6, <1>7, Zenon DEF PartOf
\* What a write that stopped somewhere keeps, in the terms of the invariant.
LEMMA PartKeeps ==
  ASSUME NEW f \in Seq(Recs), NEW q \in Seq(Recs), NEW g \in PartOf(f, q), NEW m \in Nat, m <= Len(f), NEW S
  PROVE  /\ Solid(f, Len(f)) /\ TornAtEnd(q) => TornAtEnd(g)
         /\ OfSpans(f, S) /\ OfSpans(q, S) => OfSpans(g, S)
         /\ Solid(f, m) => Solid(g, m)
         /\ \A s : Holds(f, m, s) => Holds(g, m, s)
<1>1. Len(f) \in Nat /\ Len(q) \in Nat /\ Len(g) \in Nat
  BY SeqLen, PartFile
<1>2. /\ Len(f) <= Len(g) /\ \A i \in 1..Len(f) : g[i] = f[i]
      /\ \A i \in 1..Len(g) : i > Len(f) =>
           /\ i - Len(f) \in 1..Len(q) /\ g[i].span = q[i - Len(f)].span
           /\ i < Len(g) => g[i] = q[i - Len(f)]
  BY PartFile
<1>3. ASSUME Solid(f, Len(f)), TornAtEnd(q) PROVE TornAtEnd(g)
  <2> SUFFICES ASSUME NEW i \in 1..Len(g), i < Len(g) PROVE g[i].good
    BY DEF TornAtEnd
  <2>1. CASE i <= Len(f)
    BY <1>1, <1>2, <1>3, <2>1 DEF Solid
  <2>2. CASE i > Len(f)
    <3>1. i + 1 \in 1..Len(g) /\ i + 1 > Len(f)
      BY <1>1, <2>2
    <3>2. (i + 1) - Len(f) \in 1..Len(q)
      BY <1>2, <3>1
    <3>3. i - Len(f) \in 1..Len(q) /\ g[i] = q[i - Len(f)]
      BY <1>2, <2>2
    <3>4. i - Len(f) < Len(q)
      BY <1>1, <3>2
    <3> QED
      BY <1>3, <3>3, <3>4 DEF TornAtEnd
  <2> QED
    BY <1>1, <2>1, <2>2
<1>4. ASSUME OfSpans(f, S), OfSpans(q, S) PROVE OfSpans(g, S)
  <2> SUFFICES ASSUME NEW i \in 1..Len(g) PROVE g[i].span \in S
    BY DEF OfSpans
  <2>1. CASE i <= Len(f)
    BY <1>1, <1>2, <1>4, <2>1 DEF OfSpans
  <2>2. CASE i > Len(f)
    BY <1>2, <1>4, <2>2 DEF OfSpans
  <2> QED
    BY <1>1, <2>1, <2>2
<1>5. Solid(f, m) => Solid(g, m)
  BY <1>1, <1>2 DEF Solid
<1>6. ASSUME NEW s, Holds(f, m, s) PROVE Holds(g, m, s)
  <2>1. PICK i \in 1..m : f[i].good /\ f[i].span = s
    BY <1>6 DEF Holds
  <2>2. g[i] = f[i]
    BY <1>1, <1>2
  <2> QED
    BY <2>1, <2>2 DEF Holds
<1> QED
  BY <1>3, <1>4, <1>5, <1>6

\* Appending a whole batch to a file whose records read back.
LEMMA GrowFile ==
  ASSUME NEW f \in Seq(Recs), NEW w \in Seq(Span), NEW S, Solid(f, Len(f)), OfSpans(f, S), Elems(w) \subseteq S
  PROVE  LET g == f \o Records(w)
         IN /\ g \in Seq(Recs) /\ Len(f) <= Len(g) /\ \A i \in 1..Len(f) : g[i] = f[i]
            /\ Solid(g, Len(g)) /\ OfSpans(g, S)
            /\ \A s \in Elems(w) : Holds(g, Len(g), s)
<1> DEFINE b == Records(w)
           g == f \o b
<1>1. /\ b \in Seq(Recs) /\ Len(b) = Len(w)
      /\ \A i \in 1..Len(w) : b[i].good /\ b[i].span = w[i] /\ w[i] \in Elems(w)
  BY RecordsOfBatch
<1>2. Len(f) \in Nat /\ Len(w) \in Nat /\ DOMAIN w = 1..Len(w)
  BY SeqLen
<1> HIDE DEF b
<1>3. /\ g \in Seq(Recs) /\ Len(g) = Len(f) + Len(b)
      /\ \A i \in 1..(Len(f) + Len(b)) : g[i] = IF i <= Len(f) THEN f[i] ELSE b[i - Len(f)]
  <2>1. f \in Seq(Recs) /\ b \in Seq(Recs)
    BY <1>1
  <2> QED
    BY <2>1, SeqConcat
<1> HIDE DEF g
<1>4. \A i \in 1..Len(f) : g[i] = f[i]
  BY <1>1, <1>2, <1>3
<1>5. ASSUME NEW i \in 1..Len(g), ~(i <= Len(f))
      PROVE  i - Len(f) \in 1..Len(w) /\ g[i] = b[i - Len(f)]
  BY <1>1, <1>2, <1>3, <1>5
<1>6. Solid(g, Len(g))
  <2> SUFFICES ASSUME NEW i \in 1..Len(g) PROVE g[i].good
    BY DEF Solid
  <2>1. CASE i <= Len(f)
    BY <1>2, <1>4, <2>1 DEF Solid
  <2>2. CASE ~(i <= Len(f))
    BY <1>1, <1>5, <2>2
  <2> QED
    BY <2>1, <2>2
<1>7. OfSpans(g, S)
  <2> SUFFICES ASSUME NEW i \in 1..Len(g) PROVE g[i].span \in S
    BY DEF OfSpans
  <2>1. CASE i <= Len(f)
    BY <1>2, <1>4, <2>1 DEF OfSpans
  <2>2. CASE ~(i <= Len(f))
    BY <1>1, <1>5, <2>2
  <2> QED
    BY <2>1, <2>2
<1>8. ASSUME NEW s \in Elems(w) PROVE Holds(g, Len(g), s)
  <2>1. PICK j \in 1..Len(w) : w[j] = s
    BY <1>2 DEF Elems
  <2>2. Len(f) + j \in 1..Len(g) /\ ~(Len(f) + j <= Len(f)) /\ (Len(f) + j) - Len(f) = j
    BY <1>1, <1>2, <1>3
  <2>3. g[Len(f) + j] = b[j]
    BY <1>5, <2>2
  <2> QED
    BY <1>1, <2>1, <2>2, <2>3 DEF Holds
<1>9. Len(f) <= Len(g)
  BY <1>1, <1>2, <1>3
<1> QED
  BY <1>3, <1>4, <1>6, <1>7, <1>8, <1>9 DEF g, b

\* intactPrefix of a file that is torn at most at its end: it stops exactly
\* at the torn record.
LEMMA IntactFile ==
  ASSUME NEW r \in Seq(Recs), TornAtEnd(r)
  PROVE  /\ Intact(r) \in Nat /\ Intact(r) <= Len(r) /\ Solid(r, Intact(r))
         /\ \A i \in 1..Len(r) : r[i].good => i <= Intact(r)
<1> DEFINE P(n) == (\A i \in 1..n : r[i].good) /\ (n < Len(r) => ~r[n + 1].good)
           m == IF Len(r) > 0 /\ ~r[Len(r)].good THEN Len(r) - 1 ELSE Len(r)
           I == Intact(r)
<1>1. Len(r) \in Nat
  BY SeqLen
<1>2. m \in 0..Len(r) /\ P(m)
  <2>1. CASE Len(r) > 0 /\ ~r[Len(r)].good
    BY <1>1, <2>1 DEF TornAtEnd
  <2>2. CASE ~(Len(r) > 0 /\ ~r[Len(r)].good)
    BY <1>1, <2>2 DEF TornAtEnd
  <2> QED
    BY <2>1, <2>2
<1>3. I = CHOOSE n \in 0..Len(r) : P(n)
  BY DEF Intact
<1>4. I \in 0..Len(r) /\ P(I)
  <2> HIDE DEF P, m, I
  <2> QED
    BY <1>2, <1>3
<1> HIDE DEF I
<1>5. ASSUME NEW i \in 1..Len(r), r[i].good PROVE i <= I
  <2> SUFFICES ASSUME i > I PROVE FALSE
    BY <1>1, <1>4
  <2>1. I < Len(r) /\ ~r[I + 1].good /\ I + 1 \in 1..Len(r)
    BY <1>1, <1>4
  <2>2. I + 1 = Len(r)
    BY <1>1, <1>4, <2>1 DEF TornAtEnd
  <2>3. i = I + 1
    BY <1>1, <1>4, <2>2
  <2> QED
    BY <1>5, <2>1, <2>3
<1> QED
  BY <1>1, <1>4, <1>5 DEF Solid, I

(***************************************************************************)
(* Hours.                                                                  *)
(***************************************************************************)

\* Hours follow the clock, before its start as well: the cutoff of a young
\* store is negative.
LEMMA HoursInOrder ==
  ASSUME NEW a \in Int, NEW b \in Int, a <= b
  PROVE  Hour(a) \in Int /\ Hour(b) \in Int /\ Hour(a) <= Hour(b)
<1>1. HourLen \in Nat /\ HourLen > 0
  BY DiskAssumption
<1>2. ASSUME NEW n \in Int
      PROVE  /\ n \div HourLen \in Int
             /\ HourLen * (n \div HourLen) <= n
             /\ n < HourLen * (n \div HourLen) + HourLen
  BY <1>1
<1>3. ASSUME NEW x \in Int, NEW y \in Int, HourLen * x <= a, b < HourLen * y + HourLen
      PROVE  x <= y
  BY <1>1, <1>3
<1> QED
  BY <1>2, <1>3 DEF Hour

\* The hours the clock goes through are the hours of the model.
LEMMA HourOfClock ==
  ASSUME NEW t \in 0..MaxClock
  PROVE  Hour(t) \in Hours /\ Hour(t) \in Nat
<1>1. MaxClock \in Nat /\ HourLen \in Nat /\ HourLen > 0
  BY DiskAssumption
<1>2. 0 <= t /\ t <= MaxClock /\ t \in Int /\ MaxClock \in Int
  BY <1>1
<1>3. Hour(t) \in Int /\ Hour(MaxClock) \in Int /\ Hour(t) <= Hour(MaxClock)
  BY <1>2, HoursInOrder
<1>4. Hour(0) <= Hour(t)
  BY <1>2, HoursInOrder
<1>5. Hour(0) = 0
  BY <1>1 DEF Hour
<1> QED
  BY <1>3, <1>4, <1>5 DEF Hours

(***************************************************************************)
(* The inductive invariant.                                                *)
(***************************************************************************)

\* The one file that may have records that were not synced.
Active == IF dirty THEN dirtyHour ELSE seg

\* The spans that were ever given to Write.
Written == acked \cup failed \cup cutShort \cup Elems(writing)

\* The spans a segment of hour h can have: those that ended by the end of it.
Within(h) == {s \in Written : Hour(EndOf[s]) <= h}

\* What is in the files.  Only the active one goes on past what was synced,
\* nothing synced is torn while the store is open, and nothing but the end of
\* a file ever is.
FilesOK ==
  \A h \in Hours :
    /\ synced[h] <= Len(recs[h]) /\ (h # Active => synced[h] = Len(recs[h]))
    /\ TornAtEnd(recs[h]) /\ OfSpans(recs[h], Within(h))
    /\ up => Solid(recs[h], synced[h])

\* After a crash or a close only the newest file is torn.
TornIsNewest ==
  ~up => \A h \in exists : Solid(recs[h], Len(recs[h])) \/ \A g \in exists : g <= h

\* segSize and dirtySize are where the synced records end, the active file is
\* the newest, and a file to be repaired is never open.
SegmentOK ==
  /\ seg # None => seg \in exists /\ ~dirty /\ segSize = synced[seg]
  /\ dirty => IF dirtyHour \in exists THEN dirtySize = synced[dirtyHour]
                                       ELSE synced[dirtyHour] = Len(recs[dirtyHour])
  /\ Active \in exists => \A g \in exists : g <= Active
  /\ ~up => seg = None /\ ~dirty /\ wpc = "idle"

\* Where Write is: no file is older than the hour it read, an open segment
\* ends where its synced records do until append, and what is synced next is
\* whole and has the batch in it.
WriteOK ==
  /\ \A g \in exists : g <= Hour(clock)
  /\ wpc # "idle" => /\ \A g \in exists : g <= hour
                     /\ hour <= Hour(clock)
                     /\ \A s \in Elems(writing) : Hour(EndOf[s]) <= hour
  /\ wpc = "idle" => writing = << >>
  /\ wpc \in {"repair", "open"} => seg = None
  /\ wpc = "open" => ~dirty
  /\ wpc \in {"append", "sync", "rollback", "show"} => seg = hour
  /\ seg # None /\ wpc \notin {"sync", "rollback"} => Len(recs[seg]) = segSize
  /\ wpc \in {"sync", "show"} => /\ Solid(recs[seg], Len(recs[seg]))
                                 /\ \A s \in Elems(writing) : Holds(recs[seg], Len(recs[seg]), s)

\* EvictExpired's cutoff is never ahead of the clock's.
CutoffOK == epc = "segments" => cutoffHour <= Cutoff

\* What was acknowledged or is served is among the synced records.
Durable ==
  \A s \in acked \cup visible : Fresh(s) => \E h \in exists : Holds(recs[h], synced[h], s)

DiskInv ==
  /\ TypeOK /\ ~refused
  /\ FilesOK /\ TornIsNewest /\ SegmentOK /\ WriteOK /\ CutoffOK /\ Durable

(***************************************************************************)
(* What most steps leave alone.                                            *)
(***************************************************************************)

LEMMA FileTypes ==
  ASSUME TypeOK
  PROVE  /\ recs \in [Hours -> Seq(Recs)] /\ synced \in [Hours -> Nat]
         /\ \A h \in Hours : recs[h] \in Seq(Recs) /\ Len(recs[h]) \in Nat /\ synced[h] \in Nat
<1>1. recs \in [Hours -> Seq(Recs)] /\ synced \in [Hours -> Nat]
  BY Zenon DEF TypeOK, Recs
<1>2. ASSUME NEW h \in Hours PROVE recs[h] \in Seq(Recs) /\ Len(recs[h]) \in Nat /\ synced[h] \in Nat
  <2>1. recs[h] \in Seq(Recs) /\ synced[h] \in Nat
    BY <1>1
  <2> QED
    BY <2>1, SeqLen
<1> QED
  BY <1>1, <1>2

\* Hours are natural numbers, and None is not one.
LEMMA HoursAreNumbers == Hours \subseteq Nat /\ None \notin Hours /\ 0 \in Hours
<1>1. 0 \in 0..MaxClock /\ MaxClock \in 0..MaxClock
  BY DiskAssumption
<1>2. Hour(MaxClock) \in Nat
  BY <1>1, HourOfClock
<1> QED
  BY <1>2 DEF Hours, None

\* A file of spans of S is a file of spans of any larger set.
LEMMA OfMoreSpans ==
  ASSUME NEW r, NEW S, NEW T, OfSpans(r, S), S \subseteq T
  PROVE  OfSpans(r, T)
BY DEF OfSpans

\* Steps that change no file.
LEMMA FilesFrame ==
  ASSUME FilesOK, recs' = recs, synced' = synced, up' => up, Written \subseteq Written',
         \A h \in Hours : h # Active' => synced[h] = Len(recs[h])
  PROVE  FilesOK'
<1> SUFFICES ASSUME NEW h \in Hours
             PROVE  /\ synced[h] <= Len(recs[h]) /\ (h # Active' => synced[h] = Len(recs[h]))
                    /\ TornAtEnd(recs[h]) /\ OfSpans(recs[h], Within(h)')
                    /\ up' => Solid(recs[h], synced[h])
  BY DEF FilesOK
<1>1. Within(h) \subseteq Within(h)'
  BY DEF Within
<1>2. OfSpans(recs[h], Within(h)')
  BY <1>1, OfMoreSpans DEF FilesOK
<1> QED
  BY <1>2 DEF FilesOK

\* A span that is fresh was fresh before.
LEMMA FreshBefore ==
  ASSUME TypeOK, TypeOK', clock <= clock', NEW s \in Span, Fresh(s)'
  PROVE  Fresh(s)
<1>1. clock \in Int /\ clock' \in Int /\ Retention \in Int /\ EndOf[s] \in Int
  BY DiskAssumption DEF TypeOK
<1> QED
  BY <1>1 DEF Fresh

\* The clock is not behind itself.
LEMMA ClockStays == TypeOK /\ clock' = clock => clock <= clock'
<1>1. \A t \in Int : t <= t
  OBVIOUS
<1>2. TypeOK => clock \in Int
  BY DiskAssumption DEF TypeOK
<1> QED
  BY <1>1, <1>2

\* Steps that lose no synced record and promise nothing new.
LEMMA DurableFrame ==
  ASSUME TypeOK, TypeOK', Durable, clock <= clock', acked' \cup visible' \subseteq acked \cup visible,
         exists \subseteq exists',
         \A h \in Hours, s \in Span : Holds(recs[h], synced[h], s) => Holds(recs'[h], synced'[h], s)
  PROVE  Durable'
<1> SUFFICES ASSUME NEW s \in acked' \cup visible', Fresh(s)'
             PROVE  \E h \in exists' : Holds(recs'[h], synced'[h], s)
  BY DEF Durable
<1>1. s \in Span /\ Fresh(s)
  BY FreshBefore, Zenon DEF TypeOK
<1>2. PICK h \in exists : Holds(recs[h], synced[h], s)
  BY <1>1 DEF Durable
<1>3. h \in Hours
  BY DEF TypeOK
<1> QED
  BY <1>1, <1>2, <1>3

\* Write that fails gives its spans up, and they stay among those written.
LEMMA FailedIsWritten ==
  ASSUME WriteFails
  PROVE  Written' = Written /\ Elems(writing') = {}
<1>1. Elems(<< >>) = {}
  BY DEF Elems
<1> QED
  BY <1>1 DEF WriteFails, Written

\* Cutting a file back to what was synced: no synced record goes.
LEMMA TruncateStep ==
  ASSUME TypeOK, FilesOK, NEW h \in Hours, Truncate(h, synced[h])
  PROVE  /\ synced' = synced /\ recs' \in [Hours -> Seq(Recs)]
         /\ recs' = [recs EXCEPT ![h] = Cut(recs[h], synced[h])]
         /\ Len(recs'[h]) = synced[h]
         /\ \A g \in Hours : /\ synced[g] <= Len(recs'[g])
                             /\ g # h => recs'[g] = recs[g]
                             /\ TornAtEnd(recs'[g]) /\ OfSpans(recs'[g], Within(g))
                             /\ up => Solid(recs'[g], synced[g])
                             /\ \A s : Holds(recs[g], synced[g], s) => Holds(recs'[g], synced[g], s)
<1> DEFINE f == recs[h]
           n == synced[h]
           c == Cut(f, n)
<1>1. /\ recs \in [Hours -> Seq(Recs)] /\ synced \in [Hours -> Nat]
      /\ \A g \in Hours : recs[g] \in Seq(Recs) /\ Len(recs[g]) \in Nat /\ synced[g] \in Nat
  BY FileTypes
<1>2. /\ \A g \in Hours : /\ synced[g] <= Len(recs[g]) /\ TornAtEnd(recs[g]) /\ OfSpans(recs[g], Within(g))
                          /\ up => Solid(recs[g], synced[g])
  BY DEF FilesOK
<1>f. /\ f \in Seq(Recs) /\ n \in Nat /\ n <= Len(f) /\ TornAtEnd(f) /\ OfSpans(f, Within(h))
      /\ up => Solid(f, n)
  BY <1>1, <1>2
<1>5. recs' = [recs EXCEPT ![h] = c]
  BY DEF Truncate
<1> HIDE DEF f, n
<1>3. c \in Seq(Recs) /\ Len(c) = n
  BY <1>f, CutFile
<1>4. /\ TornAtEnd(c) /\ OfSpans(c, Within(h)) /\ (up => Solid(c, n))
      /\ \A s : Holds(f, n, s) => Holds(c, n, s)
  <2>1. n <= n
    BY <1>f
  <2>2. /\ TornAtEnd(f) => TornAtEnd(c)
        /\ OfSpans(f, Within(h)) => OfSpans(c, Within(h))
        /\ Solid(f, n) => Solid(c, n)
        /\ \A s : Holds(f, n, s) => Holds(c, n, s)
    BY <1>f, <2>1, CutKeeps
  <2> QED
    BY <1>f, <2>2
<1> HIDE DEF c
<1>6. synced' = synced
  <2>1. Smaller(synced[h], synced[h]) = synced[h]
    BY DEF Smaller
  <2> QED
    BY <1>1, <2>1 DEF Truncate
<1>7. recs'[h] = c /\ recs' \in [Hours -> Seq(Recs)] /\ \A g \in Hours : g # h => recs'[g] = recs[g]
  BY <1>1, <1>3, <1>5
<1>8. ASSUME NEW g \in Hours
      PROVE  /\ synced[g] <= Len(recs'[g])
             /\ g # h => recs'[g] = recs[g]
             /\ TornAtEnd(recs'[g]) /\ OfSpans(recs'[g], Within(g))
             /\ up => Solid(recs'[g], synced[g])
             /\ \A s : Holds(recs[g], synced[g], s) => Holds(recs'[g], synced[g], s)
  <2>1. CASE g = h
    <3>1. synced[h] <= Len(recs'[h])
      BY <1>1, <1>3, <1>7 DEF n
    <3> QED
      BY <1>4, <1>7, <2>1, <3>1 DEF f, n
  <2>2. CASE g # h
    <3>1. recs'[g] = recs[g]
      BY <1>7, <2>2
    <3> QED
      BY <1>2, <2>2, <3>1, Zenon
  <2> QED
    BY <2>1, <2>2
<1> QED
  BY <1>3, <1>5, <1>6, <1>7, <1>8 DEF c, f, n

(***************************************************************************)
(* Type correctness.                                                       *)
(***************************************************************************)

\* The spans of the Write in progress are spans.
LEMMA WritingType == TypeOK => Elems(writing) \subseteq Span /\ writing \in Seq(Span)
<1> SUFFICES ASSUME TypeOK PROVE Elems(writing) \subseteq Span /\ writing \in Seq(Span)
  OBVIOUS
<1>1. writing \in Seq(Span)
  BY DEF TypeOK
<1>2. \A i \in 1..Len(writing) : writing[i] \in Span
  BY <1>1, SeqElement
<1> QED
  BY <1>1, <1>2, SeqLen DEF Elems

\* A batch is a sequence of spans.
LEMMA BatchType ==
  ASSUME NEW q \in Batches
  PROVE  q \in Seq(Span) /\ Elems(q) \subseteq Span
<1>1. PICK n \in 1..MaxBatch : q \in [1..n -> Span]
  BY DEF Batches
<1>2. n \in Nat
  BY DiskAssumption
<1>3. q \in Seq(Span)
  BY <1>1, <1>2, SeqOf
<1> QED
  BY <1>1, <1>3 DEF Elems

\* The types of the variables most steps change.
LEMMA FailType ==
  ASSUME TypeOK, WriteFails
  PROVE  /\ failed' \subseteq Span /\ wpc' = "idle" /\ writing' \in Seq(Span) /\ hour' \in Hours
         /\ UNCHANGED <<clock, up, refused, visible, epc, cutoffHour, acked, cutShort, damaged, restarts>>
<1>1. Elems(writing) \subseteq Span /\ 0 \in Hours
  BY WritingType, HoursAreNumbers
<1> QED
  BY <1>1 DEF WriteFails, TypeOK, evictor

LEMMA StepType ==
  ASSUME NEW next, StepTo(next)
  PROVE  wpc' = next /\ UNCHANGED <<clock, up, refused, visible, writing, hour, epc, cutoffHour,
                                    acked, failed, cutShort, damaged, restarts>>
BY DEF StepTo, evictor, history

LEMMA FaultType == TypeOK /\ (Works \/ Fails) => faults' \in 0..MaxFaults
BY DiskAssumption DEF TypeOK, Works, Fails

LEMMA NoElems == Elems(<< >>) = {}
BY DEF Elems

(***************************************************************************)
(* Every step keeps the invariant.                                         *)
(***************************************************************************)

\* A Write that fails before append has changed no file; at most it has created
\* an empty one, once no other was active.
LEMMA FailKeeps ==
  ASSUME DiskInv, WriteFails, Works \/ Fails, wpc \notin {"idle", "sync", "rollback"},
         UNCHANGED <<recs, synced, seg, segSize, dirty, dirtyHour, dirtySize>>, segBroken' \in BOOLEAN,
         exists' = exists \/ (exists' = exists \cup {hour} /\ Active = None)
  PROVE  DiskInv'
<1>0. /\ TypeOK /\ FilesOK /\ SegmentOK /\ WriteOK /\ CutoffOK /\ Durable /\ ~refused /\ up
  BY DEF DiskInv, SegmentOK
<1>1. /\ failed' \subseteq Span /\ wpc' = "idle" /\ writing' \in Seq(Span) /\ hour' \in Hours /\ writing' = << >>
      /\ UNCHANGED <<clock, up, refused, visible, epc, cutoffHour, acked, cutShort, damaged, restarts>>
  BY <1>0, FailType DEF WriteFails
<1>2. hour \in Hours /\ exists \subseteq Hours /\ exists \subseteq exists' /\ exists' \subseteq exists \cup {hour}
  BY <1>0 DEF TypeOK
<1>3. TypeOK'
  BY <1>0, <1>1, <1>2, FaultType, Zenon DEF TypeOK
<1>4. Written' = Written /\ Active' = Active
  BY FailedIsWritten DEF Active
<1>5. FilesOK'
  BY <1>0, <1>1, <1>4, FilesFrame, Zenon DEF FilesOK
<1>6. TornIsNewest'
  BY <1>0, <1>1 DEF TornIsNewest
<1>7. SegmentOK'
  <2>1. Active' \in exists' => exists' = exists
    BY <1>2, <1>4, HoursAreNumbers
  <2>2. dirty => (dirtyHour \in exists' <=> dirtyHour \in exists)
    BY <1>0, <1>2, <2>1, <1>4 DEF Active
  <2> QED
    BY <1>0, <1>1, <1>4, <2>1, <2>2 DEF SegmentOK
<1>8. WriteOK'
  <2>1. \A g \in exists' : g <= Hour(clock)
    BY <1>0, <1>2 DEF WriteOK
  <2> QED
    BY <1>0, <1>1, <2>1 DEF WriteOK
<1>9. CutoffOK'
  BY <1>0, <1>1 DEF CutoffOK, Cutoff
<1>10. Durable'
  BY <1>0, <1>1, <1>2 DEF Durable, Fresh
<1> QED
  BY <1>0, <1>1, <1>3, <1>5, <1>6, <1>7, <1>8, <1>9, <1>10 DEF DiskInv

LEMMA WriteStartKeeps ==
  ASSUME DiskInv, NEW q \in Batches, WriteStart(q)
  PROVE  DiskInv'
<1> USE DEF files, segment, dirt, evictor, history
<1>0. /\ TypeOK /\ FilesOK /\ SegmentOK /\ WriteOK /\ CutoffOK /\ Durable /\ ~refused
      /\ up /\ wpc = "idle" /\ writing = << >>
  BY DEF DiskInv, WriteStart, WriteOK
<1>1. /\ writing' = q /\ hour' = Hour(clock) /\ wpc' = IF seg = Hour(clock) THEN "append" ELSE "close"
      /\ UNCHANGED <<clock, exists, recs, synced, up, refused, seg, segBroken, segSize, dirty, dirtyHour, dirtySize,
                     visible, epc, cutoffHour, acked, failed, cutShort, damaged, faults, restarts>>
  BY DEF WriteStart
<1>2. q \in Seq(Span)
  BY BatchType
<1>3. clock \in 0..MaxClock /\ Hour(clock) \in Hours /\ Hour(clock) \in Nat
  BY <1>0, HourOfClock DEF TypeOK
<1>4. TypeOK'
  BY <1>0, <1>1, <1>2, <1>3, Zenon DEF TypeOK
<1>5. FilesOK'
  <2>1. Written \subseteq Written' /\ Active' = Active
    BY <1>0, <1>1, NoElems DEF Written, Active
  <2>2. \A h \in Hours : h # Active' => synced[h] = Len(recs[h])
    BY <1>0, <2>1 DEF FilesOK
  <2> QED
    BY <1>0, <1>1, <2>1, <2>2, FilesFrame
<1>6. TornIsNewest'
  BY <1>0, <1>1 DEF TornIsNewest
<1>7. SegmentOK'
  BY <1>0, <1>1 DEF SegmentOK, Active
<1>8. WriteOK'
  <2>1. \A s \in Elems(q) : Hour(EndOf[s]) <= Hour(clock)
    <3> SUFFICES ASSUME NEW s \in Elems(q) PROVE Hour(EndOf[s]) <= Hour(clock)
      OBVIOUS
    <3>1. s \in Span
      BY BatchType
    <3>2. EndOf[s] <= clock /\ EndOf[s] \in Int /\ clock \in Int
      BY <1>3, <3>1, DiskAssumption DEF WriteStart
    <3> QED
      BY <3>2, HoursInOrder
  <2>2. Hour(clock) <= Hour(clock)
    BY <1>3
  <2>3. \A g \in exists : g <= Hour(clock)
    BY <1>0 DEF WriteOK
  <2> QED
    BY <1>0, <1>1, <2>1, <2>2, <2>3 DEF WriteOK
<1>9. CutoffOK'
  BY <1>0, <1>1 DEF CutoffOK, Cutoff
<1>10. Durable'
  BY <1>0, <1>1 DEF Durable, Fresh
<1> QED
  BY <1>0, <1>1, <1>4, <1>5, <1>6, <1>7, <1>8, <1>9, <1>10 DEF DiskInv

LEMMA CloseSegmentKeeps ==
  ASSUME DiskInv, CloseSegment
  PROVE  DiskInv'
<1> USE DEF files, segment, dirt, evictor, history
<1>0. /\ TypeOK /\ FilesOK /\ SegmentOK /\ WriteOK /\ CutoffOK /\ Durable /\ ~refused
      /\ wpc = "close" /\ up
  BY DEF DiskInv, CloseSegment, SegmentOK
<1>1. UNCHANGED <<exists, recs, synced, dirty, dirtyHour, dirtySize>>
  BY DEF CloseSegment
<1>2. CASE /\ seg' = None /\ UNCHANGED <<segBroken, segSize>> /\ Works /\ StepTo("repair")
  <2>1. /\ wpc' = "repair"
        /\ UNCHANGED <<clock, up, refused, visible, writing, hour, epc, cutoffHour, acked, failed, cutShort, damaged, restarts>>
    BY <1>2, StepType
  <2>2. TypeOK'
    BY <1>0, <1>1, <1>2, <2>1, FaultType, Zenon DEF TypeOK
  <2>3. FilesOK'
    <3>1. Written \subseteq Written'
      BY <2>1 DEF Written
    <3>2. ASSUME NEW h \in Hours, h # Active' PROVE synced[h] = Len(recs[h])
      <4>1. CASE h # Active
        BY <1>0, <4>1 DEF FilesOK
      <4>2. CASE h = Active
        <5>1. ~dirty /\ h = seg /\ seg # None
          BY <1>1, <1>2, <3>2, <4>2, HoursAreNumbers DEF Active
        <5>2. segSize = synced[seg] /\ Len(recs[seg]) = segSize
          BY <1>0, <5>1 DEF SegmentOK, WriteOK
        <5> QED
          BY <5>1, <5>2
      <4> QED
        BY <4>1, <4>2
    <3> QED
      BY <1>0, <1>1, <2>1, <3>1, <3>2, FilesFrame
  <2>4. TornIsNewest'
    BY <1>0, <2>1 DEF TornIsNewest
  <2>5. SegmentOK'
    <3>1. Active' \in exists => Active' = Active
      BY <1>0, <1>1, <1>2, HoursAreNumbers, Zenon DEF Active, TypeOK
    <3> QED
      BY <1>0, <1>1, <1>2, <2>1, <3>1 DEF SegmentOK
  <2>6. WriteOK'
    BY <1>0, <1>1, <1>2, <2>1 DEF WriteOK
  <2>7. CutoffOK'
    BY <1>0, <2>1 DEF CutoffOK, Cutoff
  <2>8. Durable'
    BY <1>0, <1>1, <2>1 DEF Durable, Fresh
  <2> QED
    BY <1>0, <2>1, <2>2, <2>3, <2>4, <2>5, <2>6, <2>7, <2>8 DEF DiskInv
<1>3. CASE /\ (Works \/ Fails) /\ segBroken' = TRUE /\ UNCHANGED <<seg, segSize>> /\ WriteFails
  BY <1>0, <1>1, <1>3, FailKeeps
<1> QED
  BY <1>2, <1>3, Zenon DEF CloseSegment

LEMMA RepairKeeps ==
  ASSUME DiskInv, Repair
  PROVE  DiskInv'
<1> USE DEF files, segment, dirt, evictor, history
<1>0. /\ TypeOK /\ FilesOK /\ SegmentOK /\ WriteOK /\ CutoffOK /\ Durable /\ ~refused
      /\ wpc = "repair" /\ up /\ seg = None
  BY Zenon DEF DiskInv, Repair, SegmentOK, WriteOK
<1>1. UNCHANGED <<exists, seg, segBroken, segSize>>
  BY DEF Repair
<1>2. CASE /\ Works /\ (IF dirty /\ dirtyHour \in exists THEN Truncate(dirtyHour, dirtySize) ELSE UNCHANGED <<recs, synced>>)
           /\ dirty' = FALSE /\ dirtyHour' = 0 /\ dirtySize' = 0 /\ StepTo("open")
  <2>1. /\ wpc' = "open"
        /\ UNCHANGED <<clock, up, refused, visible, writing, hour, epc, cutoffHour, acked, failed, cutShort, damaged, restarts>>
    BY <1>2, StepType
  <2>2. Written' = Written /\ Active' = None
    BY <1>0, <1>1, <1>2, <2>1 DEF Written, Active
  <2>3. /\ synced' = synced /\ recs' \in [Hours -> Seq(Recs)]
        /\ \A g \in Hours : /\ synced[g] <= Len(recs'[g]) /\ TornAtEnd(recs'[g]) /\ OfSpans(recs'[g], Within(g))
                             /\ (up => Solid(recs'[g], synced[g]))
                             /\ \A s : Holds(recs[g], synced[g], s) => Holds(recs'[g], synced[g], s)
    <3>1. CASE dirty /\ dirtyHour \in exists
      <4>1. Truncate(dirtyHour, synced[dirtyHour]) /\ dirtyHour \in Hours
        BY <1>0, <1>2, <3>1 DEF SegmentOK, TypeOK
      <4> QED
        BY <1>0, <4>1, TruncateStep, Zenon
    <3>2. CASE ~(dirty /\ dirtyHour \in exists)
      BY <1>0, <1>2, <3>2, FileTypes DEF FilesOK
    <3> QED
      BY <3>1, <3>2, Zenon
  <2>4. TypeOK'
    BY <1>0, <1>1, <1>2, <2>1, <2>3, FaultType, HoursAreNumbers, Zenon DEF TypeOK, Recs
  <2>5. FilesOK'
    <3>1. ASSUME NEW h \in Hours PROVE synced[h] = Len(recs'[h])
      <4>1. CASE dirty /\ dirtyHour \in exists
        <5>1. Truncate(dirtyHour, synced[dirtyHour]) /\ dirtyHour \in Hours /\ Active = dirtyHour
          BY <1>0, <1>2, <4>1 DEF SegmentOK, TypeOK, Active
        <5>2. Len(recs'[dirtyHour]) = synced[dirtyHour] /\ (h # dirtyHour => recs'[h] = recs[h])
          BY <1>0, <5>1, TruncateStep
        <5>3. h # dirtyHour => synced[h] = Len(recs[h])
          BY <1>0, <5>1 DEF FilesOK
        <5> QED
          BY <5>2, <5>3
      <4>2. CASE dirty /\ dirtyHour \notin exists
        <5>1. recs' = recs /\ Active = dirtyHour /\ synced[dirtyHour] = Len(recs[dirtyHour])
          BY <1>0, <1>2, <4>2 DEF SegmentOK, Active
        <5> QED
          BY <1>0, <5>1 DEF FilesOK
      <4>3. CASE ~dirty
        <5>1. recs' = recs /\ Active = None
          BY <1>0, <1>2, <4>3 DEF Active
        <5> QED
          BY <1>0, <5>1, HoursAreNumbers DEF FilesOK
      <4> QED
        BY <4>1, <4>2, <4>3
    <3>2. \A h \in Hours : Within(h)' = Within(h)
      BY <2>2 DEF Within
    <3> QED
      BY <2>1, <2>3, <3>1, <3>2, Zenon DEF FilesOK
  <2>6. TornIsNewest'
    BY <1>0, <2>1 DEF TornIsNewest
  <2>7. SegmentOK'
    BY <1>0, <1>1, <1>2, <2>1, <2>2, <2>4, HoursAreNumbers DEF SegmentOK, TypeOK
  <2>8. WriteOK'
    BY <1>0, <1>1, <1>2, <2>1 DEF WriteOK
  <2>9. CutoffOK'
    BY <1>0, <2>1 DEF CutoffOK, Cutoff
  <2>10. Durable'
    <3>1. clock <= clock' /\ acked' \cup visible' \subseteq acked \cup visible /\ exists \subseteq exists'
      BY <1>0, <1>1, <2>1 DEF TypeOK
    <3> QED
      BY <1>0, <2>3, <2>4, <3>1, DurableFrame, Zenon
  <2> QED
    BY <1>0, <2>1, <2>4, <2>5, <2>6, <2>7, <2>8, <2>9, <2>10 DEF DiskInv
<1>3. CASE dirty /\ Fails /\ UNCHANGED <<recs, synced, dirty, dirtyHour, dirtySize>> /\ WriteFails
  BY <1>0, <1>1, <1>3, FailKeeps DEF TypeOK
<1> QED
  BY <1>2, <1>3, Zenon DEF Repair

LEMMA OpenSegmentKeeps ==
  ASSUME DiskInv, OpenSegment
  PROVE  DiskInv'
<1> USE DEF files, segment, dirt, evictor, history
<1>0. /\ TypeOK /\ FilesOK /\ SegmentOK /\ WriteOK /\ CutoffOK /\ Durable /\ ~refused
      /\ wpc = "open" /\ up /\ seg = None /\ ~dirty /\ Active = None
  BY DEF DiskInv, OpenSegment, SegmentOK, WriteOK, Active
<1>1. UNCHANGED <<recs, synced, dirty, dirtyHour, dirtySize>>
  BY DEF OpenSegment
<1>2. CASE /\ Works /\ exists' = exists \cup {hour}
           /\ seg' = hour /\ segBroken' = FALSE /\ segSize' = Len(recs[hour]) /\ StepTo("append")
  <2>1. /\ wpc' = "append"
        /\ UNCHANGED <<clock, up, refused, visible, writing, hour, epc, cutoffHour, acked, failed, cutShort, damaged, restarts>>
    BY <1>2, StepType
  <2>2. /\ hour \in Hours /\ exists \subseteq Hours /\ Len(recs[hour]) \in Nat /\ hour \in Nat
        /\ synced[hour] = Len(recs[hour]) /\ hour # None
    BY <1>0, FileTypes, HoursAreNumbers DEF TypeOK, FilesOK
  <2>3. TypeOK'
    BY <1>0, <1>1, <1>2, <2>1, <2>2, FaultType, Zenon DEF TypeOK
  <2>4. Written' = Written /\ Active' = hour
    BY <1>0, <1>1, <1>2, <2>1 DEF Written, Active
  <2>5. FilesOK'
    <3>1. \A h \in Hours : synced[h] = Len(recs[h])
      BY <1>0, HoursAreNumbers DEF FilesOK
    <3> QED
      BY <1>0, <1>1, <2>1, <2>4, <3>1, FilesFrame
  <2>6. TornIsNewest'
    BY <1>0, <2>1 DEF TornIsNewest
  <2>7. \A g \in exists' : g <= hour /\ g <= Hour(clock)
    BY <1>0, <1>2, <2>2 DEF WriteOK
  <2>8. SegmentOK'
    BY <1>0, <1>1, <1>2, <2>1, <2>2, <2>4, <2>7 DEF SegmentOK
  <2>9. WriteOK'
    BY <1>0, <1>1, <1>2, <2>1, <2>7 DEF WriteOK
  <2>10. CutoffOK'
    BY <1>0, <2>1 DEF CutoffOK, Cutoff
  <2>11. Durable'
    BY <1>0, <1>1, <1>2, <2>1, Zenon DEF Durable, Fresh
  <2> QED
    BY <1>0, <2>1, <2>3, <2>5, <2>6, <2>8, <2>9, <2>10, <2>11 DEF DiskInv
<1>3. CASE /\ Fails /\ exists' \in {exists, exists \cup {hour}} /\ UNCHANGED <<seg, segBroken, segSize>> /\ WriteFails
  BY <1>0, <1>1, <1>3, FailKeeps DEF TypeOK
<1> QED
  BY <1>2, <1>3, Zenon DEF OpenSegment

LEMMA TooLargeKeeps ==
  ASSUME DiskInv, TooLarge
  PROVE  DiskInv'
<1>1. /\ wpc = "append" /\ WriteFails /\ Works /\ segBroken' \in BOOLEAN
      /\ UNCHANGED <<exists, recs, synced, seg, segSize, dirty, dirtyHour, dirtySize>>
  BY DEF DiskInv, TypeOK, TooLarge, files, segment, dirt, Works
<1> QED
  BY <1>1, FailKeeps

\* append leaves some file g where the segment was, the same up to what was
\* synced; it goes on to sync only if g is whole and has the batch in it.
LEMMA AppendKeeps ==
  ASSUME DiskInv, wpc = "append", NEW next \in {"sync", "rollback"}, StepTo(next), Works \/ Fails,
         UNCHANGED <<exists, synced, seg, segBroken, segSize, dirty, dirtyHour, dirtySize>>,
         NEW g \in Seq(Recs), recs' = [recs EXCEPT ![seg] = g],
         synced[seg] <= Len(g), TornAtEnd(g), OfSpans(g, Within(seg)), Solid(g, synced[seg]),
         \A s : Holds(recs[seg], synced[seg], s) => Holds(g, synced[seg], s),
         next = "sync" => Solid(g, Len(g)) /\ \A s \in Elems(writing) : Holds(g, Len(g), s)
  PROVE  DiskInv'
<1>0. /\ TypeOK /\ FilesOK /\ SegmentOK /\ WriteOK /\ CutoffOK /\ Durable /\ ~refused
      /\ up /\ seg = hour /\ seg \in Hours /\ seg # None /\ ~dirty /\ Active = seg
  BY HoursAreNumbers, Zenon DEF DiskInv, TypeOK, SegmentOK, WriteOK, Active
<1>1. /\ wpc' = next
      /\ UNCHANGED <<clock, up, refused, visible, writing, hour, epc, cutoffHour, acked, failed, cutShort, damaged, restarts>>
  BY StepType
<1>2. recs \in [Hours -> Seq(Recs)] /\ recs' \in [Hours -> Seq(Recs)] /\ recs'[seg] = g
  BY <1>0, FileTypes
<1>3. \A h \in Hours : h # seg => recs'[h] = recs[h]
  BY <1>2
<1>4. TypeOK'
  BY <1>0, <1>1, <1>2, FaultType, Zenon DEF TypeOK, Recs
<1>5. Written' = Written /\ Active' = Active
  BY <1>1 DEF Written, Active
<1>6. FilesOK'
  <2> SUFFICES ASSUME NEW h \in Hours
               PROVE  /\ synced[h] <= Len(recs'[h]) /\ (h # Active => synced[h] = Len(recs'[h]))
                      /\ TornAtEnd(recs'[h]) /\ OfSpans(recs'[h], Within(h))
                      /\ up => Solid(recs'[h], synced[h])
    <3>1. \A h \in Hours : Within(h)' = Within(h)
      BY <1>5 DEF Within
    <3> QED
      BY <1>1, <1>5, <3>1 DEF FilesOK
  <2>1. CASE h = seg
    BY <1>0, <1>2, <2>1
  <2>2. CASE h # seg
    <3>1. recs'[h] = recs[h]
      BY <1>3, <2>2
    <3> QED
      BY <1>0, <3>1 DEF FilesOK
  <2> QED
    BY <2>1, <2>2
<1>7. TornIsNewest'
  BY <1>0, <1>1 DEF TornIsNewest
<1>8. SegmentOK'
  BY <1>0, <1>1, <1>5 DEF SegmentOK
<1>9. WriteOK'
  BY <1>0, <1>1, <1>2 DEF WriteOK
<1>10. CutoffOK'
  BY <1>0, <1>1 DEF CutoffOK, Cutoff
<1>11. Durable'
  <2>1. clock <= clock' /\ acked' \cup visible' \subseteq acked \cup visible /\ exists \subseteq exists'
    BY <1>0, <1>1, ClockStays
  <2>2. ASSUME NEW h \in Hours, NEW s \in Span, Holds(recs[h], synced[h], s) PROVE Holds(recs'[h], synced'[h], s)
    BY <1>2, <1>3, <2>2, Zenon
  <2> QED
    BY <1>0, <1>4, <2>1, <2>2, DurableFrame
<1> QED
  BY <1>0, <1>1, <1>4, <1>6, <1>7, <1>8, <1>9, <1>10, <1>11 DEF DiskInv

LEMMA AppendBatchKeeps ==
  ASSUME DiskInv, AppendBatch
  PROVE  DiskInv'
<1> USE DEF files, segment, dirt, evictor, history
<1> DEFINE f == recs[seg]
           b == Records(writing)
<1>0. /\ TypeOK /\ FilesOK /\ SegmentOK /\ WriteOK
      /\ wpc = "append" /\ up /\ seg = hour /\ seg \in Hours /\ seg # None
  BY HoursAreNumbers, Zenon DEF DiskInv, TypeOK, AppendBatch, SegmentOK, WriteOK
<1>1. UNCHANGED <<exists, synced, seg, segBroken, segSize, dirty, dirtyHour, dirtySize>>
  BY DEF AppendBatch
<1>2. /\ f \in Seq(Recs) /\ Len(f) \in Nat /\ synced[seg] = Len(f) /\ recs \in [Hours -> Seq(Recs)]
      /\ Solid(f, Len(f)) /\ TornAtEnd(f) /\ OfSpans(f, Within(seg))
  BY <1>0, FileTypes DEF FilesOK, SegmentOK, WriteOK
<1>3. writing \in Seq(Span) /\ Elems(writing) \subseteq Within(seg)
  BY <1>0, WritingType DEF WriteOK, Within, Written
<1>4. CASE ~segBroken /\ Works /\ recs' = [recs EXCEPT ![seg] = f \o b] /\ StepTo("sync")
  <2> DEFINE g == f \o b
  <2> HIDE DEF f
  <2>1. /\ g \in Seq(Recs) /\ Len(f) <= Len(g) /\ \A i \in 1..Len(f) : g[i] = f[i]
        /\ Solid(g, Len(g)) /\ OfSpans(g, Within(seg))
        /\ \A s \in Elems(writing) : Holds(g, Len(g), s)
    BY <1>2, <1>3, GrowFile, Zenon
  <2>2. Len(g) \in Nat
    BY <2>1, SeqLen
  <2> HIDE DEF g
  <2>3. TornAtEnd(g) /\ Solid(g, synced[seg]) /\ synced[seg] <= Len(g)
    BY <1>2, <2>1, <2>2 DEF TornAtEnd, Solid
  <2>4. ASSUME NEW s, Holds(f, synced[seg], s) PROVE Holds(g, synced[seg], s)
    BY <1>2, <2>1, <2>4 DEF Holds
  <2>5. recs' = [recs EXCEPT ![seg] = g] /\ \A s : Holds(recs[seg], synced[seg], s) => Holds(g, synced[seg], s)
    BY <1>4, <2>4 DEF f, g
  <2> QED
    BY <1>0, <1>1, <1>4, <2>1, <2>3, <2>5, AppendKeeps, Zenon
<1>5. CASE segBroken /\ Works /\ recs' = recs /\ StepTo("rollback")
  <2>1. recs' = [recs EXCEPT ![seg] = f]
    BY <1>0, <1>2, <1>5
  <2>2. synced[seg] <= Len(f) /\ Solid(f, synced[seg])
    BY <1>2
  <2>3. \A s : Holds(recs[seg], synced[seg], s) => Holds(f, synced[seg], s)
    OBVIOUS
  <2> HIDE DEF f
  <2> QED
    BY <1>0, <1>1, <1>2, <1>5, <2>1, <2>2, <2>3, AppendKeeps, Zenon
<1>6. CASE ~segBroken /\ Fails /\ (\E g \in PartOf(f, b) : recs' = [recs EXCEPT ![seg] = g]) /\ StepTo("rollback")
  <2>1. PICK g \in PartOf(f, b) : recs' = [recs EXCEPT ![seg] = g]
    BY <1>6, Zenon
  <2>2. /\ b \in Seq(Recs) /\ TornAtEnd(b) /\ OfSpans(b, Within(seg))
    <3>1. /\ b \in Seq(Recs) /\ Len(b) = Len(writing)
          /\ \A i \in 1..Len(writing) : b[i].good /\ b[i].span = writing[i] /\ writing[i] \in Elems(writing)
      BY <1>3, RecordsOfBatch
    <3> HIDE DEF b
    <3> QED
      BY <1>3, <3>1 DEF TornAtEnd, OfSpans
  <2> DEFINE n == synced[seg]
  <2>a. \A s : Holds(recs[seg], n, s) => Holds(f, n, s)
    OBVIOUS
  <2>b. n \in Nat /\ n <= Len(f) /\ Solid(f, n)
    BY <1>2
  <2> HIDE DEF f, b, n
  <2>3. g \in Seq(Recs) /\ Len(f) <= Len(g)
    BY <1>2, <2>1, <2>2, PartFile, Zenon
  <2>4. /\ Solid(f, Len(f)) /\ TornAtEnd(b) => TornAtEnd(g)
        /\ OfSpans(f, Within(seg)) /\ OfSpans(b, Within(seg)) => OfSpans(g, Within(seg))
        /\ Solid(f, n) => Solid(g, n)
        /\ \A s : Holds(f, n, s) => Holds(g, n, s)
    BY <1>2, <2>1, <2>2, <2>b, PartKeeps
  <2>5. n <= Len(g)
    <3>1. Len(g) \in Nat
      BY <2>3, SeqLen
    <3> QED
      BY <1>2, <2>b, <2>3, <3>1
  <2>6. \A s : Holds(recs[seg], n, s) => Holds(g, n, s)
    BY <2>a, <2>4
  <2> QED
    BY <1>0, <1>1, <1>2, <1>6, <2>1, <2>2, <2>b, <2>3, <2>4, <2>5, <2>6, AppendKeeps, Zenon DEF n
<1> QED
  BY <1>4, <1>5, <1>6 DEF AppendBatch

LEMMA SyncKeeps ==
  ASSUME DiskInv, Sync
  PROVE  DiskInv'
<1> USE DEF files, segment, dirt, evictor, history
<1>0. /\ TypeOK /\ FilesOK /\ SegmentOK /\ WriteOK /\ CutoffOK /\ Durable /\ ~refused
      /\ wpc = "sync" /\ up /\ seg = hour /\ seg \in Hours /\ seg # None /\ ~dirty /\ Active = seg
  BY HoursAreNumbers, Zenon DEF DiskInv, TypeOK, Sync, SegmentOK, WriteOK, Active
<1>1. UNCHANGED <<exists, recs, seg, segBroken, dirty, dirtyHour, dirtySize>>
  BY DEF Sync
<1>2. PICK next \in {"show", "rollback"} : StepTo(next)
  BY DEF Sync
<1>3. /\ wpc' = next
      /\ UNCHANGED <<clock, up, refused, visible, writing, hour, epc, cutoffHour, acked, failed, cutShort, damaged, restarts>>
  BY <1>2, StepType
<1>4. /\ recs \in [Hours -> Seq(Recs)] /\ synced \in [Hours -> Nat]
      /\ \A h \in Hours : recs[h] \in Seq(Recs) /\ Len(recs[h]) \in Nat /\ synced[h] \in Nat
  BY <1>0, FileTypes
<1>5. Written' = Written /\ Active' = Active /\ \A h \in Hours : Within(h)' = Within(h)
  BY <1>1, <1>3 DEF Written, Active, Within
<1>6. \/ synced' = [synced EXCEPT ![seg] = Len(recs[seg])] /\ segSize' = Len(recs[seg])
      \/ synced' = synced /\ segSize' = segSize /\ next = "rollback"
  BY <1>3 DEF Sync, StepTo
<1>7. /\ synced' \in [Hours -> Nat] /\ segSize' \in Nat /\ synced'[seg] = segSize'
      /\ \A h \in Hours : synced'[h] = synced[h] \/ (h = seg /\ synced'[h] = Len(recs[h]))
      /\ next = "show" => segSize' = Len(recs[seg])
  <2>1. segSize \in Nat /\ synced[seg] = segSize
    BY <1>0 DEF TypeOK, SegmentOK
  <2> QED
    BY <1>0, <1>4, <1>6, <2>1, Zenon
<1>8. TypeOK'
  <2>1. faults' \in 0..MaxFaults
    BY <1>0, FaultType DEF Sync
  <2> QED
    BY <1>0, <1>1, <1>3, <1>7, <2>1, Zenon DEF TypeOK
<1>9. FilesOK'
  <2>1. ASSUME NEW h \in Hours
        PROVE  /\ synced'[h] <= Len(recs[h]) /\ (h # Active => synced'[h] = Len(recs[h]))
               /\ Solid(recs[h], synced'[h])
    <3>1. CASE synced'[h] = synced[h]
      BY <1>0, <3>1 DEF FilesOK
    <3>2. CASE h = seg /\ synced'[h] = Len(recs[h])
      <4>1. Len(recs[h]) <= Len(recs[h])
        BY <1>4
      <4> QED
        BY <1>0, <3>2, <4>1 DEF WriteOK
    <3> QED
      BY <1>7, <3>1, <3>2, Zenon
  <2> QED
    BY <1>0, <1>1, <1>3, <1>5, <2>1, Zenon DEF FilesOK
<1>10. TornIsNewest'
  BY <1>0, <1>3 DEF TornIsNewest
<1>11. SegmentOK'
  BY <1>0, <1>1, <1>3, <1>5, <1>7 DEF SegmentOK
<1>12. WriteOK'
  BY <1>0, <1>1, <1>3, <1>7 DEF WriteOK
<1>13. CutoffOK'
  BY <1>0, <1>3 DEF CutoffOK, Cutoff
<1>14. Durable'
  <2>1. clock <= clock' /\ acked' \cup visible' \subseteq acked \cup visible /\ exists \subseteq exists'
    BY <1>0, <1>1, <1>3 DEF TypeOK
  <2>2. ASSUME NEW h \in Hours, NEW s \in Span, Holds(recs[h], synced[h], s) PROVE Holds(recs'[h], synced'[h], s)
    <3>1. synced[h] <= synced'[h] /\ synced[h] \in Nat /\ synced'[h] \in Nat
      BY <1>0, <1>4, <1>7 DEF FilesOK
    <3>2. PICK i \in 1..synced[h] : recs[h][i].good /\ recs[h][i].span = s
      BY <2>2 DEF Holds
    <3>3. i \in 1..synced'[h]
      BY <3>1
    <3> QED
      BY <1>1, <3>2, <3>3, Zenon DEF Holds
  <2> QED
    BY <1>0, <1>8, <2>1, <2>2, DurableFrame, Zenon
<1> QED
  BY <1>0, <1>3, <1>8, <1>9, <1>10, <1>11, <1>12, <1>13, <1>14 DEF DiskInv

LEMMA RollbackKeeps ==
  ASSUME DiskInv, Rollback
  PROVE  DiskInv'
<1> USE DEF files, segment, dirt, evictor, history
<1>0. /\ TypeOK /\ FilesOK /\ SegmentOK /\ WriteOK /\ CutoffOK /\ Durable /\ ~refused
      /\ wpc = "rollback" /\ up /\ seg = hour /\ seg \in Hours /\ seg # None /\ ~dirty /\ Active = seg
      /\ segSize = synced[seg] /\ seg \in exists
  BY HoursAreNumbers, Zenon DEF DiskInv, TypeOK, Rollback, SegmentOK, WriteOK, Active
<1>1. /\ exists' = exists /\ WriteFails /\ (Works \/ Fails)
      /\ \/ Truncate(seg, synced[seg]) /\ UNCHANGED <<seg, segBroken, segSize, dirty, dirtyHour, dirtySize>>
         \/ /\ UNCHANGED <<recs, synced>> \/ Truncate(seg, synced[seg])
            /\ dirty' = TRUE /\ dirtyHour' = seg /\ dirtySize' = segSize
            /\ seg' = None /\ segBroken' = FALSE /\ segSize' = 0
  BY <1>0, Zenon DEF Rollback
<1>2. /\ failed' \subseteq Span /\ wpc' = "idle" /\ writing' \in Seq(Span) /\ hour' \in Hours /\ writing' = << >>
      /\ UNCHANGED <<clock, up, refused, visible, epc, cutoffHour, acked, cutShort, damaged, restarts>>
  BY <1>0, <1>1, FailType DEF WriteFails
<1>3. /\ recs \in [Hours -> Seq(Recs)] /\ synced \in [Hours -> Nat]
  BY <1>0, FileTypes
<1>4. /\ synced' = synced /\ recs' \in [Hours -> Seq(Recs)]
      /\ \A g \in Hours : /\ synced[g] <= Len(recs'[g]) /\ TornAtEnd(recs'[g]) /\ OfSpans(recs'[g], Within(g))
                           /\ (g # seg => recs'[g] = recs[g])
                           /\ (up => Solid(recs'[g], synced[g]))
                           /\ \A s : Holds(recs[g], synced[g], s) => Holds(recs'[g], synced[g], s)
      /\ seg' # None => Len(recs'[seg]) = segSize
  <2>1. CASE Truncate(seg, synced[seg])
    BY <1>0, <2>1, TruncateStep, Zenon
  <2>2. CASE recs' = recs /\ synced' = synced /\ seg' = None
    BY <1>0, <1>3, <2>2 DEF FilesOK
  <2> QED
    BY <1>1, <2>1, <2>2, Zenon
<1>5. TypeOK'
  <2>1. /\ seg' \in Hours \cup {None} /\ segBroken' \in BOOLEAN /\ segSize' \in Nat
        /\ dirty' \in BOOLEAN /\ dirtyHour' \in Hours /\ dirtySize' \in Nat
    <3>1. /\ seg \in Hours /\ segBroken \in BOOLEAN /\ segSize \in Nat
          /\ dirty \in BOOLEAN /\ dirtyHour \in Hours /\ dirtySize \in Nat
      BY <1>0 DEF TypeOK
    <3>2. CASE UNCHANGED <<seg, segBroken, segSize, dirty, dirtyHour, dirtySize>>
      BY <3>1, <3>2
    <3>3. CASE /\ dirty' = TRUE /\ dirtyHour' = seg /\ dirtySize' = segSize
               /\ seg' = None /\ segBroken' = FALSE /\ segSize' = 0
      BY <3>1, <3>3, Zenon
    <3> QED
      BY <1>1, <3>2, <3>3, Zenon
  <2> QED
    BY <1>0, <1>1, <1>2, <1>4, <2>1, FaultType, Zenon DEF TypeOK, Recs
<1>6. Written' = Written /\ Active' = Active /\ \A h \in Hours : Within(h)' = Within(h)
  <2>1. Active' = Active
    BY <1>0, <1>1 DEF Active
  <2>2. Written' = Written
    BY <1>1, FailedIsWritten
  <2> QED
    BY <2>1, <2>2 DEF Within
<1>7. FilesOK'
  <2>1. \A h \in Hours : h # Active => synced[h] = Len(recs'[h])
    BY <1>0, <1>4, Zenon DEF FilesOK
  <2> QED
    BY <1>2, <1>4, <1>6, <2>1, Zenon DEF FilesOK
<1>8. TornIsNewest'
  BY <1>0, <1>2 DEF TornIsNewest
<1>9. SegmentOK'
  <2>1. seg' # None => seg' \in exists' /\ ~dirty' /\ segSize' = synced'[seg']
    BY <1>0, <1>1, <1>4
  <2>2. dirty' => dirtyHour' \in exists' /\ dirtySize' = synced'[dirtyHour']
    BY <1>0, <1>1, <1>4, Zenon
  <2>3. Active' \in exists' => \A g \in exists' : g <= Active'
    BY <1>0, <1>1, <1>6 DEF SegmentOK
  <2> QED
    BY <1>0, <1>2, <2>1, <2>2, <2>3 DEF SegmentOK
<1>10. WriteOK'
  BY <1>0, <1>1, <1>2, <1>4, Zenon DEF WriteOK
<1>11. CutoffOK'
  BY <1>0, <1>2 DEF CutoffOK, Cutoff
<1>12. Durable'
  <2>1. clock <= clock' /\ acked' \cup visible' \subseteq acked \cup visible /\ exists \subseteq exists'
    BY <1>0, <1>1, <1>2, ClockStays
  <2> QED
    BY <1>0, <1>4, <1>5, <2>1, DurableFrame, Zenon
<1> QED
  BY <1>0, <1>2, <1>5, <1>7, <1>8, <1>9, <1>10, <1>11, <1>12 DEF DiskInv

LEMMA ShowKeeps ==
  ASSUME DiskInv, Show
  PROVE  DiskInv'
<1> USE DEF files, segment, dirt, evictor, history
<1>0. /\ TypeOK /\ FilesOK /\ SegmentOK /\ WriteOK /\ CutoffOK /\ Durable /\ ~refused
      /\ wpc = "show" /\ up /\ seg = hour /\ seg \in Hours /\ seg # None /\ seg \in exists
      /\ synced[seg] = Len(recs[seg])
  BY HoursAreNumbers, Zenon DEF DiskInv, TypeOK, Show, SegmentOK, WriteOK
<1>1. /\ visible' = visible \cup Elems(writing) /\ acked' = acked \cup Elems(writing)
      /\ wpc' = "idle" /\ writing' = << >> /\ hour' = 0
      /\ UNCHANGED <<clock, exists, recs, synced, up, refused, seg, segBroken, segSize, dirty, dirtyHour, dirtySize,
                     epc, cutoffHour, failed, cutShort, damaged, faults, restarts>>
  BY DEF Show
<1>2. Elems(writing) \subseteq Span /\ 0 \in Hours /\ << >> \in Seq(Span)
  BY <1>0, WritingType, HoursAreNumbers
<1>3. TypeOK'
  BY <1>0, <1>1, <1>2, Zenon DEF TypeOK
<1>4. Written' = Written /\ Active' = Active
  BY <1>1, NoElems DEF Written, Active
<1>5. FilesOK'
  BY <1>0, <1>1, <1>4, FilesFrame, Zenon DEF FilesOK
<1>6. TornIsNewest'
  BY <1>0, <1>1 DEF TornIsNewest
<1>7. SegmentOK'
  BY <1>0, <1>1, <1>4 DEF SegmentOK
<1>8. WriteOK'
  BY <1>0, <1>1 DEF WriteOK
<1>9. CutoffOK'
  BY <1>0, <1>1 DEF CutoffOK, Cutoff
<1>10. Durable'
  <2> SUFFICES ASSUME NEW s \in acked' \cup visible', Fresh(s)'
               PROVE  \E h \in exists : Holds(recs[h], synced[h], s)
    BY <1>1 DEF Durable
  <2>1. CASE s \in acked \cup visible
    BY <1>0, <1>1, <2>1, Zenon DEF Durable, Fresh
  <2>2. CASE s \in Elems(writing)
    BY <1>0, <2>2 DEF WriteOK
  <2> QED
    BY <1>1, <2>1, <2>2, Zenon
<1> QED
  BY <1>0, <1>1, <1>3, <1>5, <1>6, <1>7, <1>8, <1>9, <1>10 DEF DiskInv

\* A segment behind the cutoff has no span left that is inside the window.
LEMMA GoneIsStale ==
  ASSUME TypeOK, Retention > 0, NEW h \in Hours, h + 1 <= Cutoff,
         NEW s \in Span, Hour(EndOf[s]) <= h
  PROVE  ~Fresh(s)
<1>1. clock - Retention \in Int /\ EndOf[s] \in Int /\ Retention \in Nat
  BY DiskAssumption DEF TypeOK
<1>2. h \in Int /\ Cutoff \in Int /\ Hour(EndOf[s]) \in Int
  <2>1. clock - Retention <= clock - Retention /\ EndOf[s] <= EndOf[s]
    BY <1>1
  <2> QED
    BY <1>1, <2>1, HoursInOrder, HoursAreNumbers DEF Cutoff
<1>3. ASSUME EndOf[s] >= clock - Retention PROVE FALSE
  <2>1. Cutoff <= Hour(EndOf[s])
    <3> DEFINE a == clock - Retention
    <3>1. a \in Int /\ a <= EndOf[s] /\ Cutoff = Hour(a)
      BY <1>1, <1>3 DEF Cutoff
    <3> HIDE DEF a
    <3> QED
      BY <1>1, <3>1, HoursInOrder
  <2> QED
    BY <1>2, <2>1
<1> QED
  BY <1>1, <1>3 DEF Fresh

\* The records of a segment are of spans that ended by the end of its hour.
LEMMA HeldWithin ==
  ASSUME TypeOK, FilesOK, NEW h \in Hours, NEW s, Holds(recs[h], synced[h], s)
  PROVE  s \in Written /\ Hour(EndOf[s]) <= h
<1>1. PICK i \in 1..synced[h] : recs[h][i].span = s
  BY DEF Holds
<1>2. synced[h] \in Nat /\ Len(recs[h]) \in Nat /\ synced[h] <= Len(recs[h]) /\ OfSpans(recs[h], Within(h))
  BY FileTypes DEF FilesOK
<1>3. i \in 1..Len(recs[h])
  <2>1. \A m, n \in Nat : m <= n => \A j \in 1..m : j \in 1..n
    OBVIOUS
  <2> QED
    BY <1>2, <2>1
<1> QED
  BY <1>1, <1>2, <1>3 DEF OfSpans, Within

LEMMA EvictMemoryKeeps ==
  ASSUME DiskInv, EvictMemory
  PROVE  DiskInv'
<1> USE DEF files, segment, dirt, evictor, history
<1>0. TypeOK /\ FilesOK /\ SegmentOK /\ WriteOK /\ Durable /\ ~refused /\ up
  BY DEF DiskInv, EvictMemory
<1>1. /\ visible' = Unexpired(visible) /\ epc' = "segments" /\ cutoffHour' = Cutoff
      /\ UNCHANGED <<clock, exists, recs, synced, up, refused, seg, segBroken, segSize, dirty, dirtyHour, dirtySize,
                     wpc, writing, hour, acked, failed, cutShort, damaged, faults, restarts>>
  BY DEF EvictMemory
<1>2. visible' \subseteq visible
  BY <1>1 DEF Unexpired
<1>3. Cutoff \in Int
  <2>1. clock - Retention \in Int
    BY <1>0, DiskAssumption DEF TypeOK
  <2> QED
    BY <2>1, HoursInOrder DEF Cutoff
<1>4. TypeOK'
  BY <1>0, <1>1, <1>2, <1>3, Zenon DEF TypeOK
<1>5. Written' = Written /\ Active' = Active
  BY <1>1 DEF Written, Active
<1>6. FilesOK'
  BY <1>0, <1>1, <1>5, FilesFrame, Zenon DEF FilesOK
<1>7. TornIsNewest'
  BY <1>0, <1>1 DEF TornIsNewest
<1>8. SegmentOK'
  BY <1>0, <1>1, <1>5 DEF SegmentOK
<1>9. WriteOK'
  BY <1>0, <1>1 DEF WriteOK
<1>10. CutoffOK'
  <2>1. Cutoff' = Cutoff /\ Cutoff <= Cutoff
    BY <1>1, <1>3 DEF Cutoff
  <2> QED
    BY <1>1, <2>1 DEF CutoffOK
<1>11. Durable'
  BY <1>0, <1>1, <1>2 DEF Durable, Fresh
<1> QED
  BY <1>0, <1>1, <1>4, <1>6, <1>7, <1>8, <1>9, <1>10, <1>11 DEF DiskInv

LEMMA EvictSegmentsKeeps ==
  ASSUME DiskInv, EvictSegments
  PROVE  DiskInv'
<1> USE DEF files, segment, dirt, evictor, history
<1>0. /\ TypeOK /\ FilesOK /\ SegmentOK /\ WriteOK /\ CutoffOK /\ Durable /\ ~refused
      /\ up /\ wpc = "idle" /\ epc = "segments"
  BY DEF DiskInv, EvictSegments
<1>1. PICK H \in SUBSET Expired(cutoffHour, seg) :
        /\ IF H = Expired(cutoffHour, seg) THEN UNCHANGED faults ELSE faults < MaxFaults /\ faults' = faults + 1
        /\ Remove(H)
  BY DEF EvictSegments
<1>2. /\ epc' = "idle" /\ cutoffHour' = 0
      /\ UNCHANGED <<clock, up, refused, seg, segBroken, segSize, dirty, dirtyHour, dirtySize, visible,
                     wpc, writing, hour, acked, failed, cutShort, damaged, restarts>>
  BY DEF EvictSegments
<1>3. /\ exists' = exists \ H /\ seg \notin H /\ H \subseteq exists /\ exists \subseteq Hours
      /\ recs' = [h \in Hours |-> IF h \in H THEN << >> ELSE recs[h]]
      /\ synced' = [h \in Hours |-> IF h \in H THEN 0 ELSE synced[h]]
  BY <1>0, <1>1 DEF Remove, Expired, TypeOK
<1>4. \A h \in Hours : IF h \in H THEN recs'[h] = << >> /\ synced'[h] = 0
                                   ELSE recs'[h] = recs[h] /\ synced'[h] = synced[h]
  BY <1>3
<1>5. recs' \in [Hours -> Seq(Recs)] /\ synced' \in [Hours -> Nat]
  <2>1. recs \in [Hours -> Seq(Recs)] /\ synced \in [Hours -> Nat] /\ << >> \in Seq(Recs)
    BY <1>0, FileTypes
  <2> QED
    BY <1>3, <2>1
<1>6. TypeOK'
  <2>1. faults' \in 0..MaxFaults
    BY <1>0, <1>1, DiskAssumption DEF TypeOK
  <2>2. exists' \subseteq Hours /\ epc' \in {"idle", "segments"} /\ cutoffHour' \in Int
    <3>1. 0 \in Int
      OBVIOUS
    <3> QED
      BY <1>2, <1>3, <3>1, Zenon
  <2>3. recs' \in [Hours -> Seq([span : Span, good : BOOLEAN])] /\ synced' \in [Hours -> Nat]
    BY <1>5, Zenon DEF Recs
  <2> HIDE DEF files, segment, dirt, evictor, history
  <2> QED
    BY <1>0, <1>2, <2>1, <2>2, <2>3, Zenon DEF TypeOK
<1>7. Written' = Written /\ Active' = Active /\ \A h \in Hours : Within(h)' = Within(h)
  BY <1>2 DEF Written, Active, Within
<1>8. FilesOK'
  <2> SUFFICES ASSUME NEW h \in Hours
               PROVE  /\ synced'[h] <= Len(recs'[h]) /\ (h # Active => synced'[h] = Len(recs'[h]))
                      /\ TornAtEnd(recs'[h]) /\ OfSpans(recs'[h], Within(h))
                      /\ Solid(recs'[h], synced'[h])
    BY <1>7, Zenon DEF FilesOK
  <2>1. CASE h \in H
    <3>1. recs'[h] = << >> /\ synced'[h] = 0
      BY <1>4, <2>1
    <3>2. 0 <= 0
      OBVIOUS
    <3> QED
      BY <3>1, <3>2, EmptyFile, Zenon
  <2>2. CASE h \notin H
    BY <1>0, <1>4, <2>2, Zenon DEF FilesOK
  <2> QED
    BY <2>1, <2>2, Zenon
<1>9. TornIsNewest'
  BY <1>0, <1>2 DEF TornIsNewest
<1>10. SegmentOK'
  <2>1. seg # None => seg \in exists' /\ ~dirty /\ segSize = synced'[seg]
    BY <1>0, <1>3, <1>4 DEF SegmentOK
  <2>2. dirty => IF dirtyHour \in exists' THEN dirtySize = synced'[dirtyHour]
                                         ELSE synced'[dirtyHour] = Len(recs'[dirtyHour])
    <3>1. dirtyHour \in Hours /\ Len(<< >>) = 0
      BY <1>0 DEF TypeOK
    <3> QED
      BY <1>0, <1>3, <1>4, <3>1, Zenon DEF SegmentOK
  <2>3. Active \in exists' => \A g \in exists' : g <= Active
    BY <1>0, <1>3 DEF SegmentOK
  <2> QED
    BY <1>0, <1>2, <1>7, <2>1, <2>2, <2>3, Zenon DEF SegmentOK
<1>11. WriteOK'
  <2>1. seg # None => recs'[seg] = recs[seg]
    BY <1>0, <1>3, <1>4 DEF SegmentOK
  <2> QED
    BY <1>0, <1>2, <1>3, <2>1, Zenon DEF WriteOK
<1>12. CutoffOK'
  BY <1>2 DEF CutoffOK
<1>13. Durable'
  <2> SUFFICES ASSUME NEW s \in acked \cup visible, Fresh(s)
               PROVE  \E h \in exists' : Holds(recs'[h], synced'[h], s)
    BY <1>2, Zenon DEF Durable, Fresh
  <2>1. PICK h \in exists : Holds(recs[h], synced[h], s)
    BY <1>0 DEF Durable
  <2>2. h \notin H
    <3> SUFFICES ASSUME h \in H PROVE FALSE
      OBVIOUS
    <3>1. h \in Hours /\ s \in Span /\ Hour(EndOf[s]) <= h
      BY <1>0, <1>3, <2>1, HeldWithin, Zenon DEF TypeOK
    <3>2. Retention > 0 /\ h + 1 <= cutoffHour
      BY <1>1 DEF Expired
    <3>3. h + 1 <= Cutoff
      <4>1. cutoffHour <= Cutoff /\ cutoffHour \in Int /\ h \in Int
        BY <1>0, <3>1, HoursAreNumbers DEF CutoffOK, TypeOK
      <4>2. Cutoff \in Int
        <5>1. clock - Retention \in Int
          BY <1>0, DiskAssumption DEF TypeOK
        <5> QED
          BY <5>1, HoursInOrder DEF Cutoff
      <4> QED
        BY <3>2, <4>1, <4>2
    <3> QED
      BY <1>0, <3>1, <3>2, <3>3, GoneIsStale
  <2> QED
    BY <1>3, <1>4, <2>1, <2>2, Zenon
<1> QED
  BY <1>0, <1>2, <1>6, <1>8, <1>9, <1>10, <1>11, <1>12, <1>13 DEF DiskInv

(***************************************************************************)
(* The end of the process, and the replay.                                 *)
(***************************************************************************)

\* The part of a file behind its first n records.
LEMMA TailFile ==
  ASSUME NEW r \in Seq(Recs), NEW n \in Nat, n <= Len(r), NEW S
  PROVE  LET q == SubSeq(r, n + 1, Len(r))
         IN /\ q \in Seq(Recs)
            /\ TornAtEnd(r) => TornAtEnd(q)
            /\ OfSpans(r, S) => OfSpans(q, S)
<1> DEFINE q == SubSeq(r, n + 1, Len(r))
<1>1. Len(r) \in Nat /\ \A i \in 1..Len(r) : r[i] \in Recs
  BY SeqLen, SeqElement
<1>2. q \in Seq(Recs) /\ Len(q) = Len(r) - n /\ \A i \in 1..(Len(r) - n) : q[i] = r[n + i]
  <2>1. n + 1 \in Int /\ Len(r) \in Int /\ \A i \in (n + 1)..Len(r) : r[i] \in Recs
    BY <1>1
  <2>2. q = [i \in 1..(Len(r) - n) |-> r[n + i]]
    BY <1>1
  <2> DEFINE m == Len(r) - n
  <2>3. m \in Nat /\ \A i \in 1..m : n + i \in 1..Len(r)
    BY <1>1
  <2> HIDE DEF q, m
  <2>4. q = [i \in 1..m |-> r[n + i]]
    BY <2>2 DEF m
  <2>5. q \in [1..m -> Recs]
    BY <1>1, <2>3, <2>4
  <2>6. q \in Seq(Recs) /\ Len(q) = m
    BY <2>3, <2>5, SeqOf
  <2> QED
    BY <2>4, <2>6 DEF m
<1> HIDE DEF q
<1>3. ASSUME NEW i \in 1..Len(q)
      PROVE  n + i \in 1..Len(r) /\ (i < Len(q) => n + i < Len(r)) /\ q[i] = r[n + i]
  BY <1>1, <1>2
<1>4. TornAtEnd(r) => TornAtEnd(q)
  BY <1>3 DEF TornAtEnd
<1>5. OfSpans(r, S) => OfSpans(q, S)
  BY <1>3 DEF OfSpans
<1> QED
  BY <1>2, <1>4, <1>5 DEF q

\* The files that the end of the process leaves are synced as they are, hold
\* what was synced, and are torn only where the newest is.
Survive ==
  /\ recs' \in [Hours -> Seq(Recs)] /\ synced' \in [Hours -> Nat]
  /\ \A h \in Hours : /\ synced'[h] = Len(recs'[h]) /\ TornAtEnd(recs'[h]) /\ OfSpans(recs'[h], Within(h))
                       /\ (h # Active => recs'[h] = recs[h])
                       /\ \A s : Holds(recs[h], synced[h], s) => Holds(recs'[h], synced'[h], s)

\* What every end of the process does.
LEMMA DownKeeps ==
  ASSUME DiskInv, Down, Survive
  PROVE  DiskInv'
<1>0. /\ TypeOK /\ FilesOK /\ SegmentOK /\ WriteOK /\ Durable /\ ~refused /\ up
  BY DEF DiskInv, Down
<1>1. /\ up' = FALSE /\ restarts < MaxRestarts /\ restarts' = restarts + 1
      /\ seg' = None /\ segBroken' = FALSE /\ segSize' = 0
      /\ dirty' = FALSE /\ dirtyHour' = 0 /\ dirtySize' = 0
      /\ visible' = {} /\ wpc' = "idle" /\ writing' = << >> /\ hour' = 0
      /\ epc' = "idle" /\ cutoffHour' = 0 /\ cutShort' = cutShort \cup Elems(writing)
      /\ UNCHANGED <<clock, exists, refused, acked, failed, damaged, faults>>
  BY DEF Down
<1>2. TypeOK'
  <2>1. /\ restarts' \in 0..MaxRestarts /\ cutShort' \subseteq Span /\ dirtyHour' \in Hours /\ hour' \in Hours
        /\ writing' \in Seq(Span)
    <3>1. restarts \in 0..MaxRestarts /\ MaxRestarts \in Nat
      BY <1>0, DiskAssumption DEF TypeOK
    <3>2. restarts' \in 0..MaxRestarts
      <4>1. restarts < MaxRestarts /\ restarts' = restarts + 1
        BY <1>1
      <4> QED
        BY <3>1, <4>1
    <3>3. cutShort' \subseteq Span
      BY <1>0, <1>1, WritingType, Zenon DEF TypeOK
    <3>4. writing' \in Seq(Span)
      <4>1. << >> \in Seq(Span)
        OBVIOUS
      <4> QED
        BY <1>1, <4>1, Zenon
    <3> QED
      BY <1>1, <3>2, <3>3, <3>4, HoursAreNumbers
  <2>2. recs' \in [Hours -> Seq([span : Span, good : BOOLEAN])] /\ synced' \in [Hours -> Nat]
    BY Zenon DEF Recs, Survive
  <2>3. segSize' \in Nat /\ dirtySize' \in Nat /\ cutoffHour' \in Int
    <3>1. 0 \in Nat /\ 0 \in Int
      OBVIOUS
    <3> QED
      BY <1>1, <3>1, Zenon
  <2> QED
    BY <1>0, <1>1, <2>1, <2>2, <2>3, Zenon DEF TypeOK
<1>3. Written' = Written /\ Active' = None /\ \A h \in Hours : Within(h)' = Within(h)
  BY <1>1, NoElems DEF Written, Active, Within
<1>4. FilesOK'
  <2>1. \A n \in Nat : n <= n
    OBVIOUS
  <2>2. \A h \in Hours : synced'[h] \in Nat
    BY Zenon DEF Survive
  <2> QED
    BY <1>1, <1>3, <2>1, <2>2, Zenon DEF FilesOK, Survive
<1>5. TornIsNewest'
  <2> SUFFICES ASSUME NEW h \in exists
               PROVE  Solid(recs'[h], Len(recs'[h])) \/ \A g \in exists : g <= h
    BY <1>1 DEF TornIsNewest
  <2>1. h \in Hours
    BY <1>0 DEF TypeOK
  <2>2. CASE h = Active
    BY <1>0, <2>2 DEF SegmentOK
  <2>3. CASE h # Active
    <3>1. recs'[h] = recs[h] /\ synced[h] = Len(recs[h]) /\ Solid(recs[h], synced[h])
      BY <1>0, <2>1, <2>3, Zenon DEF FilesOK, Survive
    <3> QED
      BY <3>1
  <2> QED
    BY <2>2, <2>3
<1>6. SegmentOK'
  <2>1. Active' \notin exists'
    BY <1>0, <1>1, <1>3, HoursAreNumbers, Zenon DEF TypeOK
  <2> QED
    BY <1>1, <2>1 DEF SegmentOK
<1>7. WriteOK'
  BY <1>0, <1>1, Zenon DEF WriteOK
<1>8. CutoffOK'
  BY <1>1 DEF CutoffOK
<1>9. Durable'
  <2>1. clock <= clock' /\ acked' \cup visible' \subseteq acked \cup visible /\ exists \subseteq exists'
    BY <1>0, <1>1, ClockStays
  <2> QED
    BY <1>0, <1>2, <2>1, DurableFrame, Zenon DEF Survive
<1> QED
  BY <1>0, <1>1, <1>2, <1>4, <1>5, <1>6, <1>7, <1>8, <1>9 DEF DiskInv

LEMMA CloseKeeps ==
  ASSUME DiskInv, Close
  PROVE  DiskInv'
<1>0. TypeOK /\ FilesOK /\ Down /\ recs' = recs /\ synced' = [h \in Hours |-> Len(recs[h])]
  BY DEF DiskInv, Close
<1>1. /\ recs \in [Hours -> Seq(Recs)] /\ synced \in [Hours -> Nat]
      /\ \A h \in Hours : recs[h] \in Seq(Recs) /\ Len(recs[h]) \in Nat /\ synced[h] \in Nat
  BY <1>0, FileTypes
<1>2. synced' \in [Hours -> Nat]
  BY <1>0, <1>1
<1>3. ASSUME NEW h \in Hours
      PROVE  /\ synced'[h] = Len(recs'[h]) /\ TornAtEnd(recs'[h]) /\ OfSpans(recs'[h], Within(h))
             /\ (h # Active => recs'[h] = recs[h])
             /\ \A s : Holds(recs[h], synced[h], s) => Holds(recs'[h], synced'[h], s)
  <2>1. synced'[h] = Len(recs[h]) /\ synced[h] <= Len(recs[h])
    BY <1>0, Zenon DEF FilesOK
  <2>2. 1..synced[h] \subseteq 1..synced'[h]
    BY <1>1, <2>1
  <2>3. ASSUME NEW s, Holds(recs[h], synced[h], s) PROVE Holds(recs[h], synced'[h], s)
    BY <2>2, <2>3, Zenon DEF Holds
  <2> QED
    BY <1>0, <2>1, <2>3, Zenon DEF FilesOK
<1> QED
  BY <1>0, <1>1, <1>2, <1>3, DownKeeps DEF Survive

LEMMA CrashKeeps ==
  ASSUME DiskInv, Crash
  PROVE  DiskInv'
<1>0. TypeOK /\ FilesOK /\ Down /\ up
  BY DEF DiskInv, Crash, Down
<1>1. /\ recs \in [Hours -> Seq(Recs)] /\ synced \in [Hours -> Nat]
      /\ \A h \in Hours : recs[h] \in Seq(Recs) /\ Len(recs[h]) \in Nat /\ synced[h] \in Nat
  BY <1>0, FileTypes
<1>2. CASE Active = None
  <2>1. recs' = recs /\ synced' = synced
    BY <1>2 DEF Crash, Active
  <2>2. \A h \in Hours : h # Active
    BY <1>2, HoursAreNumbers
  <2> QED
    BY <1>0, <1>1, <2>1, <2>2, DownKeeps DEF FilesOK, Survive
<1>3. CASE Active # None
  <2> DEFINE h == Active
             r == recs[h]
             n == synced[h]
             c == Cut(r, n)
             q == SubSeq(r, n + 1, Len(r))
  <2>1. h \in Hours
    BY <1>0, <1>3 DEF Active, TypeOK
  <2>2. PICK f \in PartOf(c, q) : recs' = [recs EXCEPT ![h] = f] /\ synced' = [synced EXCEPT ![h] = Len(f)]
    BY <1>3 DEF Crash, Active
  <2>3. r \in Seq(Recs) /\ n \in Nat /\ n <= Len(r) /\ TornAtEnd(r) /\ OfSpans(r, Within(h)) /\ Solid(r, n)
    BY <1>0, <1>1, <2>1 DEF FilesOK
  <2> HIDE DEF h, r, n
  <2>4. c \in Seq(Recs) /\ Len(c) = n
    BY <2>3, CutFile, Zenon
  <2>5. /\ OfSpans(c, Within(h)) /\ Solid(c, n) /\ \A s : Holds(r, n, s) => Holds(c, n, s)
    <3>1. n <= n
      BY <2>3
    <3>2. /\ OfSpans(r, Within(h)) => OfSpans(c, Within(h))
          /\ Solid(r, n) => Solid(c, n)
          /\ \A s : Holds(r, n, s) => Holds(c, n, s)
      BY <2>3, <3>1, CutKeeps
    <3> QED
      BY <2>3, <3>2
  <2>6. q \in Seq(Recs) /\ TornAtEnd(q) /\ OfSpans(q, Within(h))
    <3>1. /\ q \in Seq(Recs) /\ (TornAtEnd(r) => TornAtEnd(q)) /\ (OfSpans(r, Within(h)) => OfSpans(q, Within(h)))
      BY <2>3, TailFile
    <3> QED
      BY <2>3, <3>1
  <2> HIDE DEF c, q
  <2>7. f \in Seq(Recs) /\ n <= Len(f) /\ Len(f) \in Nat
    BY <2>2, <2>4, <2>6, PartFile, SeqLen, Zenon
  <2>8. /\ TornAtEnd(f) /\ OfSpans(f, Within(h)) /\ \A s : Holds(c, n, s) => Holds(f, n, s)
    <3>1. n <= Len(c)
      BY <2>3, <2>4
    <3>2. /\ Solid(c, Len(c)) /\ TornAtEnd(q) => TornAtEnd(f)
          /\ OfSpans(c, Within(h)) /\ OfSpans(q, Within(h)) => OfSpans(f, Within(h))
          /\ \A s : Holds(c, n, s) => Holds(f, n, s)
      BY <2>2, <2>3, <2>4, <2>6, <3>1, PartKeeps
    <3> QED
      BY <2>4, <2>5, <2>6, <3>2
  <2>9. ASSUME NEW s, Holds(r, n, s) PROVE Holds(f, Len(f), s)
    <3>1. Holds(f, n, s)
      BY <2>5, <2>8, <2>9
    <3>2. 1..n \subseteq 1..Len(f)
      BY <2>3, <2>7
    <3> QED
      BY <3>1, <3>2, Zenon DEF Holds
  <2>10. recs' \in [Hours -> Seq(Recs)] /\ synced' \in [Hours -> Nat]
    BY <1>1, <2>1, <2>2, <2>7
  <2>11. ASSUME NEW g \in Hours
         PROVE  /\ synced'[g] = Len(recs'[g]) /\ TornAtEnd(recs'[g]) /\ OfSpans(recs'[g], Within(g))
                /\ (g # Active => recs'[g] = recs[g])
                /\ \A s : Holds(recs[g], synced[g], s) => Holds(recs'[g], synced'[g], s)
    <3>1. CASE g = h
      <4>1. recs'[g] = f /\ synced'[g] = Len(f)
        BY <1>1, <2>1, <2>2, <3>1
      <4>2. \A s : Holds(recs[g], synced[g], s) => Holds(f, Len(f), s)
        BY <2>9, <3>1, Zenon DEF r, n
      <4> QED
        BY <2>8, <3>1, <4>1, <4>2, Zenon DEF h
    <3>2. CASE g # h
      <4>1. recs'[g] = recs[g] /\ synced'[g] = synced[g]
        BY <1>1, <2>2, <3>2
      <4> QED
        BY <1>0, <3>2, <4>1, Zenon DEF FilesOK, h
    <3> QED
      BY <3>1, <3>2, Zenon
  <2> QED
    BY <1>0, <2>10, <2>11, DownKeeps, Zenon DEF Survive
<1> QED
  BY <1>2, <1>3

\* What replay makes of a file: everything that was synced and reads back.
LEMMA ReplayedFile ==
  ASSUME TypeOK, FilesOK, SegmentOK, ~up, NEW h \in Hours
  PROVE  LET w == Cut(recs[h], Intact(recs[h]))
         IN /\ w \in Seq(Recs) /\ Len(w) \in Nat
            /\ Solid(w, Len(w)) /\ TornAtEnd(w) /\ OfSpans(w, Within(h))
            /\ \A s : Holds(recs[h], synced[h], s) => Holds(w, Len(w), s)
<1> DEFINE r == recs[h]
           n == Intact(r)
           w == Cut(r, n)
<1>1. /\ r \in Seq(Recs) /\ Len(r) \in Nat /\ synced[h] = Len(r) /\ TornAtEnd(r) /\ OfSpans(r, Within(h))
  <2>1. h # Active
    BY HoursAreNumbers DEF SegmentOK, Active
  <2> QED
    BY <2>1, FileTypes DEF FilesOK
<1> HIDE DEF r
<1>2. n \in Nat /\ n <= Len(r) /\ Solid(r, n) /\ \A i \in 1..Len(r) : r[i].good => i <= n
  BY <1>1, IntactFile
<1> HIDE DEF n
<1>3. w \in Seq(Recs) /\ Len(w) = n /\ n <= n
  <2>1. w \in Seq(Recs) /\ Len(w) = n
    BY <1>1, <1>2, CutFile, Zenon
  <2> QED
    BY <1>2, <2>1
<1>4. /\ TornAtEnd(w) /\ OfSpans(w, Within(h)) /\ Solid(w, n) /\ \A s : Holds(r, n, s) => Holds(w, n, s)
  <2>1. /\ TornAtEnd(r) => TornAtEnd(w)
        /\ OfSpans(r, Within(h)) => OfSpans(w, Within(h))
        /\ Solid(r, n) => Solid(w, n)
        /\ \A s : Holds(r, n, s) => Holds(w, n, s)
    BY <1>1, <1>2, <1>3, CutKeeps
  <2> QED
    BY <1>1, <1>2, <2>1
<1> HIDE DEF w
<1>5. ASSUME NEW s, Holds(r, Len(r), s) PROVE Holds(r, n, s)
  <2>1. PICK i \in 1..Len(r) : r[i].good /\ r[i].span = s
    BY <1>5 DEF Holds
  <2>2. i \in 1..n
    BY <1>1, <1>2, <2>1
  <2> QED
    BY <2>1, <2>2 DEF Holds
<1>6. w \in Seq(Recs) /\ Len(w) \in Nat /\ Solid(w, Len(w)) /\ TornAtEnd(w) /\ OfSpans(w, Within(h))
  BY <1>2, <1>3, <1>4
<1>7. \A s : Holds(r, synced[h], s) => Holds(w, Len(w), s)
  BY <1>1, <1>3, <1>4, <1>5
<1> QED
  BY <1>6, <1>7, Zenon DEF r, n, w

\* OpenDisk does not refuse what a crash left.
LEMMA OnlyNewestIsBad ==
  ASSUME TypeOK, FilesOK, TornIsNewest, SegmentOK, ~up, NEW h \in exists, Bad(h)
  PROVE  h = Newest
<1>1. h \in Hours /\ exists \subseteq Hours /\ exists \subseteq Nat
  BY HoursAreNumbers DEF TypeOK
<1>2. recs[h] \in Seq(Recs) /\ Len(recs[h]) \in Nat /\ TornAtEnd(recs[h])
  BY <1>1, FileTypes DEF FilesOK
<1>3. ~Solid(recs[h], Len(recs[h]))
  <2> DEFINE r == recs[h]
             n == Intact(r)
  <2>1. n < Len(r)
    BY DEF Bad
  <2> HIDE DEF r
  <2>2. n \in Nat /\ \A i \in 1..Len(r) : r[i].good => i <= n
    BY <1>2, IntactFile DEF r
  <2> HIDE DEF n
  <2>3. Len(r) \in 1..Len(r) /\ ~(Len(r) <= n)
    <3>1. \A k, m \in Nat : k < m => m \in 1..m /\ ~(m <= k)
      OBVIOUS
    <3>2. Len(r) \in Nat /\ n \in Nat
      BY <1>2, <2>2 DEF r
    <3> QED
      BY <2>1, <3>1, <3>2
  <2>4. ~r[Len(r)].good
    BY <2>2, <2>3
  <2> QED
    BY <2>3, <2>4 DEF Solid, r
<1>4. \A g \in exists : g <= h
  BY <1>3 DEF TornIsNewest
<1>5. Newest \in exists /\ \A g \in exists : g <= Newest
  BY <1>4 DEF Newest
<1> QED
  BY <1>1, <1>4, <1>5

\* The spans replay finds.
Replayed == {r.span : r \in UNION {Elems(Cut(recs[h], Intact(recs[h]))) : h \in exists}}

\* Replay finds a span exactly where it is held.
LEMMA ReplayFinds ==
  ASSUME TypeOK, FilesOK, SegmentOK, ~up, NEW s
  PROVE  /\ s \in Replayed => /\ s \in Written /\ s \in Span
                             /\ \E h \in exists : Holds(Cut(recs[h], Intact(recs[h])),
                                                       Len(Cut(recs[h], Intact(recs[h]))), s)
         /\ (\E h \in exists : Holds(recs[h], synced[h], s)) => s \in Replayed
<1> DEFINE w(h) == Cut(recs[h], Intact(recs[h]))
<1>1. \A h \in exists : /\ h \in Hours /\ w(h) \in Seq(Recs) /\ Len(w(h)) \in Nat /\ Solid(w(h), Len(w(h)))
                        /\ OfSpans(w(h), Within(h))
                        /\ \A x : Holds(recs[h], synced[h], x) => Holds(w(h), Len(w(h)), x)
  BY ReplayedFile, Zenon DEF TypeOK
<1>2. Replayed = {r.span : r \in UNION {Elems(w(h)) : h \in exists}}
  BY DEF Replayed
<1>3. Written \subseteq Span
  BY WritingType, Zenon DEF Written, TypeOK
<1> HIDE DEF w
<1>4. \A h \in exists : Elems(w(h)) = {w(h)[i] : i \in 1..Len(w(h))}
  BY <1>1, SeqLen, Zenon DEF Elems
<1>5. ASSUME s \in Replayed
      PROVE  s \in Written /\ s \in Span /\ \E h \in exists : Holds(w(h), Len(w(h)), s)
  <2>1. PICK h \in exists : \E r \in Elems(w(h)) : s = r.span
    <3>1. PICK r \in UNION {Elems(w(h)) : h \in exists} : s = r.span
      BY <1>2, <1>5
    <3> QED
      BY <3>1, Zenon
  <2>2. PICK i \in 1..Len(w(h)) : s = w(h)[i].span
    BY <1>4, <2>1
  <2>3. w(h)[i].good /\ w(h)[i].span \in Within(h)
    BY <1>1, Zenon DEF Solid, OfSpans
  <2> QED
    BY <1>3, <2>2, <2>3, Zenon DEF Holds, Within
<1>6. ASSUME NEW h \in exists, Holds(recs[h], synced[h], s) PROVE s \in Replayed
  <2>1. Holds(w(h), Len(w(h)), s)
    BY <1>1, <1>6, Zenon
  <2>2. PICK i \in 1..Len(w(h)) : w(h)[i].span = s
    BY <2>1 DEF Holds
  <2>3. w(h)[i] \in Elems(w(h))
    BY <1>4
  <2> QED
    BY <1>2, <2>2, <2>3
<1> QED
  BY <1>5, <1>6, Zenon DEF w

\* What OpenDisk does: with ~refused, its refusing branch is never taken.
LEMMA OpenDiskReplays ==
  ASSUME DiskInv, OpenDisk
  PROVE  /\ ~up /\ up' = TRUE /\ visible' = Unexpired(Replayed)
         /\ exists' = exists \ Expired(Cutoff, None)
         /\ recs' = [h \in Hours |-> IF h \in Expired(Cutoff, None) THEN << >>
                                     ELSE Cut(recs[h], Intact(recs[h]))]
         /\ synced' = [h \in Hours |-> IF h \in Expired(Cutoff, None) THEN 0
                                       ELSE Len(Cut(recs[h], Intact(recs[h])))]
         /\ UNCHANGED <<refused, clock, seg, segBroken, segSize, dirty, dirtyHour, dirtySize, wpc, writing, hour,
                        epc, cutoffHour, acked, failed, cutShort, damaged, faults, restarts>>
<1>0. TypeOK /\ FilesOK /\ TornIsNewest /\ SegmentOK /\ ~up
  BY Zenon DEF DiskInv, OpenDisk
<1>1. ~\E h \in exists : Bad(h) /\ h # Newest
  BY <1>0, OnlyNewestIsBad
<1> DEFINE whole == [h \in Hours |-> Cut(recs[h], Intact(recs[h]))]
           gone == Expired(Cutoff, None)
<1>2. /\ up' = TRUE
      /\ visible' = Unexpired({r.span : r \in UNION {Elems(whole[h]) : h \in exists}})
      /\ exists' = exists \ gone
      /\ recs' = [h \in Hours |-> IF h \in gone THEN << >> ELSE whole[h]]
      /\ synced' = [h \in Hours |-> IF h \in gone THEN 0 ELSE Len(whole[h])]
      /\ UNCHANGED refused
  BY <1>1, Zenon DEF OpenDisk
<1>3. \A h \in Hours : whole[h] = Cut(recs[h], Intact(recs[h]))
  OBVIOUS
<1>4. {Elems(whole[h]) : h \in exists} = {Elems(Cut(recs[h], Intact(recs[h]))) : h \in exists}
  <2>1. exists \subseteq Hours
    BY <1>0 DEF TypeOK
  <2> HIDE DEF whole
  <2> QED
    BY <1>3, <2>1
<1>5. visible' = Unexpired(Replayed)
  BY <1>2, <1>4, Zenon DEF Replayed
<1> QED
  BY <1>0, <1>2, <1>5, Zenon DEF OpenDisk, segment, dirt, evictor, history

LEMMA OpenDiskKeeps ==
  ASSUME DiskInv, OpenDisk
  PROVE  DiskInv'
<1>0. /\ TypeOK /\ FilesOK /\ SegmentOK /\ WriteOK /\ CutoffOK /\ Durable /\ ~refused /\ ~up
      /\ seg = None /\ ~dirty /\ wpc = "idle"
  BY Zenon DEF DiskInv, OpenDisk, SegmentOK
<1> DEFINE gone == Expired(Cutoff, None)
           w(h) == Cut(recs[h], Intact(recs[h]))
<1>1. /\ up' = TRUE /\ visible' = Unexpired(Replayed) /\ exists' = exists \ gone
      /\ recs' = [h \in Hours |-> IF h \in gone THEN << >> ELSE w(h)]
      /\ synced' = [h \in Hours |-> IF h \in gone THEN 0 ELSE Len(w(h))]
      /\ UNCHANGED <<refused, clock, seg, segBroken, segSize, dirty, dirtyHour, dirtySize, wpc, writing, hour,
                     epc, cutoffHour, acked, failed, cutShort, damaged, faults, restarts>>
  BY OpenDiskReplays
<1>2. \A h \in Hours : /\ w(h) \in Seq(Recs) /\ Len(w(h)) \in Nat
                       /\ Solid(w(h), Len(w(h))) /\ TornAtEnd(w(h)) /\ OfSpans(w(h), Within(h))
                       /\ \A s : Holds(recs[h], synced[h], s) => Holds(w(h), Len(w(h)), s)
  BY <1>0, ReplayedFile, Zenon
<1>3. \A s \in visible' : /\ s \in Span /\ \E h \in exists : Holds(w(h), Len(w(h)), s)
  <2>1. visible' \subseteq Replayed
    BY <1>1, Zenon DEF Unexpired
  <2> QED
    BY <1>0, <2>1, ReplayFinds, Zenon
<1> HIDE DEF w
<1>4. \A h \in Hours : IF h \in gone THEN recs'[h] = << >> /\ synced'[h] = 0
                                      ELSE recs'[h] = w(h) /\ synced'[h] = Len(w(h))
  BY <1>1
<1>5. TypeOK'
  <2>1. recs' \in [Hours -> Seq(Recs)] /\ synced' \in [Hours -> Nat]
    <3>1. << >> \in Seq(Recs)
      OBVIOUS
    <3> HIDE DEF gone
    <3> QED
      BY <1>1, <1>2, <3>1, Zenon
  <2>2. recs' \in [Hours -> Seq([span : Span, good : BOOLEAN])]
    BY <2>1, Zenon DEF Recs
  <2>3. exists' \subseteq Hours /\ visible' \subseteq Span /\ up' \in BOOLEAN
    BY <1>0, <1>1, <1>3 DEF TypeOK
  <2> QED
    BY <1>0, <1>1, <2>1, <2>2, <2>3, Zenon DEF TypeOK
<1>6. Written' = Written /\ Active' = None /\ \A h \in Hours : Within(h)' = Within(h)
  BY <1>0, <1>1 DEF Written, Active, Within
<1>7. FilesOK'
  <2> SUFFICES ASSUME NEW h \in Hours
               PROVE  /\ synced'[h] <= Len(recs'[h]) /\ synced'[h] = Len(recs'[h])
                      /\ TornAtEnd(recs'[h]) /\ OfSpans(recs'[h], Within(h))
                      /\ Solid(recs'[h], synced'[h])
    BY <1>6, Zenon DEF FilesOK
  <2>1. CASE h \in gone
    <3>1. recs'[h] = << >> /\ synced'[h] = 0
      BY <1>4, <2>1
    <3>2. 0 <= 0
      OBVIOUS
    <3> QED
      BY <3>1, <3>2, EmptyFile, Zenon
  <2>2. CASE h \notin gone
    <3>1. recs'[h] = w(h) /\ synced'[h] = Len(w(h))
      BY <1>4, <2>2
    <3>2. Len(w(h)) <= Len(w(h))
      <4>1. \A n \in Nat : n <= n
        OBVIOUS
      <4>2. Len(w(h)) \in Nat
        BY <1>2, Zenon
      <4> QED
        BY <4>1, <4>2
    <3> QED
      BY <1>2, <3>1, <3>2, Zenon
  <2> QED
    BY <2>1, <2>2, Zenon
<1>8. TornIsNewest'
  BY <1>1 DEF TornIsNewest
<1>9. SegmentOK'
  <2>1. Active' \notin exists'
    BY <1>5, <1>6, HoursAreNumbers, Zenon DEF TypeOK
  <2> QED
    BY <1>0, <1>1, <2>1 DEF SegmentOK
<1>10. WriteOK'
  BY <1>0, <1>1, Zenon DEF WriteOK
<1>11. CutoffOK'
  BY <1>0, <1>1 DEF CutoffOK, Cutoff
<1>12. Durable'
  <2> SUFFICES ASSUME NEW s \in acked \cup visible', Fresh(s)
               PROVE  \E h \in exists' : Holds(recs'[h], synced'[h], s)
    BY <1>1 DEF Durable, Fresh
  <2>1. s \in Span
    BY <1>0, <1>3 DEF TypeOK
  <2>2. PICK h \in exists : Holds(w(h), Len(w(h)), s)
    <3>1. CASE s \in visible'
      BY <1>3, <3>1
    <3>2. CASE s \in acked
      <4>1. PICK h \in exists : Holds(recs[h], synced[h], s)
        BY <1>0, <3>2 DEF Durable
      <4> QED
        BY <1>0, <1>2, <4>1 DEF TypeOK
    <3> QED
      BY <3>1, <3>2
  <2>3. h \in Hours
    BY <1>0 DEF TypeOK
  <2>4. Hour(EndOf[s]) <= h
    <3>1. PICK i \in 1..Len(w(h)) : w(h)[i].span = s
      BY <2>2 DEF Holds
    <3> QED
      BY <1>2, <2>3, <3>1, Zenon DEF OfSpans, Within
  <2>5. h \notin gone
    BY <1>0, <2>1, <2>3, <2>4, GoneIsStale DEF Expired
  <2> QED
    BY <1>1, <1>4, <2>2, <2>3, <2>5
<1> QED
  BY <1>0, <1>1, <1>5, <1>7, <1>8, <1>9, <1>10, <1>11, <1>12 DEF DiskInv

LEMMA TickKeeps ==
  ASSUME DiskInv, Tick
  PROVE  DiskInv'
<1> USE DEF files, segment, dirt, evictor, history
<1>0. /\ TypeOK /\ FilesOK /\ TornIsNewest /\ SegmentOK /\ WriteOK /\ CutoffOK /\ Durable /\ ~refused
  BY DEF DiskInv
<1>1. /\ clock < MaxClock /\ clock' = clock + 1
      /\ UNCHANGED <<exists, recs, synced, up, refused, seg, segBroken, segSize, dirty, dirtyHour, dirtySize, visible,
                     wpc, writing, hour, epc, cutoffHour, acked, failed, cutShort, damaged, faults, restarts>>
  BY DEF Tick
<1>2. /\ clock \in Int /\ clock' \in Int /\ clock <= clock' /\ clock' \in 0..MaxClock /\ Retention \in Nat
  <2>1. clock \in 0..MaxClock /\ MaxClock \in Nat /\ Retention \in Nat
    BY <1>0, DiskAssumption DEF TypeOK
  <2>2. clock < MaxClock /\ clock' = clock + 1
    BY <1>1
  <2> QED
    BY <2>1, <2>2
<1>3. TypeOK'
  BY <1>0, <1>1, <1>2, Zenon DEF TypeOK
<1>4. Hour(clock) \in Int /\ Hour(clock') \in Int /\ Hour(clock) <= Hour(clock')
  BY <1>2, HoursInOrder
<1>5. Cutoff \in Int /\ Cutoff' \in Int /\ Cutoff <= Cutoff'
  <2> DEFINE a == clock - Retention
             b == clock' - Retention
  <2>0. clock \in Int /\ clock' = clock + 1 /\ Retention \in Int
    BY <1>1, <1>2
  <2>1. a \in Int /\ b \in Int /\ a <= b
    BY <2>0
  <2>2. Cutoff = Hour(a) /\ Cutoff' = Hour(b)
    BY DEF Cutoff, Hour
  <2> HIDE DEF a, b
  <2> QED
    BY <2>1, <2>2, HoursInOrder
<1>6. Written' = Written /\ Active' = Active
  BY <1>1 DEF Written, Active
<1>7. FilesOK'
  <2>1. \A h \in Hours : h # Active' => synced[h] = Len(recs[h])
    BY <1>0, <1>6 DEF FilesOK
  <2> QED
    BY <1>0, <1>1, <1>6, <2>1, FilesFrame
<1>8. TornIsNewest' /\ SegmentOK'
  BY <1>0, <1>1, <1>6 DEF TornIsNewest, SegmentOK
<1>9. WriteOK'
  <2>1. exists \subseteq Int /\ hour \in Int
    BY <1>0, HoursAreNumbers DEF TypeOK
  <2>2. Hour(clock)' = Hour(clock')
    BY DEF Hour
  <2>3. \A g \in exists : g <= Hour(clock')
    BY <1>0, <1>4, <2>1 DEF WriteOK
  <2>4. hour <= Hour(clock) => hour <= Hour(clock')
    BY <1>4, <2>1
  <2> QED
    BY <1>0, <1>1, <2>2, <2>3, <2>4 DEF WriteOK
<1>10. CutoffOK'
  <2>1. cutoffHour \in Int
    BY <1>0 DEF TypeOK
  <2> QED
    BY <1>0, <1>1, <1>5, <2>1 DEF CutoffOK
<1>11. Durable'
  BY <1>0, <1>1, <1>2, <1>3, DurableFrame
<1> QED
  BY <1>0, <1>1, <1>3, <1>7, <1>8, <1>9, <1>10, <1>11 DEF DiskInv

(***************************************************************************)
(* The invariant holds.                                                    *)
(***************************************************************************)

LEMMA DiskInit == Init => DiskInv
<1> SUFFICES ASSUME Init PROVE DiskInv
  OBVIOUS
<1>1. /\ clock = 0 /\ exists = {} /\ recs = [h \in Hours |-> << >>] /\ synced = [h \in Hours |-> 0]
      /\ up = TRUE /\ refused = FALSE /\ seg = None /\ segBroken = FALSE /\ segSize = 0
      /\ dirty = FALSE /\ dirtyHour = 0 /\ dirtySize = 0 /\ visible = {}
      /\ wpc = "idle" /\ writing = << >> /\ hour = 0 /\ epc = "idle" /\ cutoffHour = 0
      /\ acked = {} /\ failed = {} /\ cutShort = {} /\ damaged = {} /\ faults = 0 /\ restarts = 0
  BY DEF Init
<1>2. TypeOK
  <2>1. recs \in [Hours -> Seq([span : Span, good : BOOLEAN])] /\ synced \in [Hours -> Nat]
    BY <1>1
  <2>2. 0 \in 0..MaxClock /\ 0 \in 0..MaxFaults /\ 0 \in 0..MaxRestarts /\ 0 \in Hours /\ << >> \in Seq(Span)
    BY DiskAssumption, HoursAreNumbers
  <2> QED
    BY <1>1, <2>1, <2>2 DEF TypeOK
<1>3. FilesOK
  <2>0. 0 <= 0
    OBVIOUS
  <2> SUFFICES ASSUME NEW h \in Hours
               PROVE  /\ synced[h] = 0 /\ Len(recs[h]) = 0 /\ TornAtEnd(recs[h])
                      /\ OfSpans(recs[h], Within(h)) /\ Solid(recs[h], synced[h])
    BY <2>0, Zenon DEF FilesOK
  <2>1. recs[h] = << >> /\ synced[h] = 0
    BY <1>1
  <2> QED
    BY <2>1, EmptyFile, Zenon
<1>4. TornIsNewest /\ SegmentOK /\ CutoffOK /\ Durable
  BY <1>1 DEF TornIsNewest, SegmentOK, CutoffOK, Durable, Active
<1>5. WriteOK
  BY <1>1 DEF WriteOK
<1> QED
  BY <1>1, <1>2, <1>3, <1>4, <1>5 DEF DiskInv

LEMMA DiskStutter ==
  ASSUME DiskInv, UNCHANGED vars
  PROVE  DiskInv'
<1>1. UNCHANGED <<clock, exists, recs, synced, up, refused, seg, segBroken, segSize, dirty, dirtyHour, dirtySize,
                  visible, wpc, writing, hour, epc, cutoffHour, acked, failed, cutShort, damaged, faults, restarts>>
  BY DEF vars, files, segment, dirt, evictor, history
<1>0. /\ TypeOK /\ ~refused /\ FilesOK /\ TornIsNewest /\ SegmentOK /\ WriteOK /\ CutoffOK /\ Durable
  BY DEF DiskInv
<1>2. TypeOK'
  BY <1>0, <1>1, Zenon DEF TypeOK
<1>3. Active' = Active /\ Written' = Written
  BY <1>1 DEF Active, Written
<1>4. FilesOK'
  <2>1. \A h \in Hours : h # Active' => synced[h] = Len(recs[h])
    BY <1>0, <1>3 DEF FilesOK
  <2> QED
    BY <1>0, <1>1, <1>3, <2>1, FilesFrame
<1>5. TornIsNewest'
  BY <1>0, <1>1 DEF TornIsNewest
<1>6. SegmentOK'
  BY <1>0, <1>1, <1>3 DEF SegmentOK
<1>7. WriteOK'
  BY <1>0, <1>1 DEF WriteOK
<1>8. CutoffOK'
  BY <1>0, <1>1 DEF CutoffOK, Cutoff
<1>9. Durable'
  BY <1>0, <1>1, Zenon DEF Durable, Fresh
<1> QED
  BY <1>0, <1>1, <1>2, <1>4, <1>5, <1>6, <1>7, <1>8, <1>9 DEF DiskInv

LEMMA DiskStep == DiskInv /\ [Next]_vars => DiskInv'
<1> SUFFICES ASSUME DiskInv, [Next]_vars PROVE DiskInv'
  OBVIOUS
<1>1. ASSUME NEW q \in Batches, WriteStart(q) PROVE DiskInv'
  BY <1>1, WriteStartKeeps
<1>2. CASE CloseSegment
  BY <1>2, CloseSegmentKeeps
<1>3. CASE Repair
  BY <1>3, RepairKeeps
<1>4. CASE OpenSegment
  BY <1>4, OpenSegmentKeeps
<1>5. CASE TooLarge
  BY <1>5, TooLargeKeeps
<1>6. CASE AppendBatch
  BY <1>6, AppendBatchKeeps
<1>7. CASE Sync
  BY <1>7, SyncKeeps
<1>8. CASE Rollback
  BY <1>8, RollbackKeeps
<1>9. CASE Show
  BY <1>9, ShowKeeps
<1>10. CASE EvictMemory
  BY <1>10, EvictMemoryKeeps
<1>11. CASE EvictSegments
  BY <1>11, EvictSegmentsKeeps
<1>12. CASE Close
  BY <1>12, CloseKeeps
<1>13. CASE Crash
  BY <1>13, CrashKeeps
<1>14. CASE OpenDisk
  BY <1>14, OpenDiskKeeps
<1>15. CASE Tick
  BY <1>15, TickKeeps
<1>16. CASE UNCHANGED vars
  BY <1>16, DiskStutter
<1> QED
  BY <1>1, <1>2, <1>3, <1>4, <1>5, <1>6, <1>7, <1>8, <1>9, <1>10, <1>11, <1>12, <1>13, <1>14, <1>15, <1>16 DEF Next

LEMMA DiskInvAlways == Spec => []DiskInv
BY DiskInit, DiskStep, PTL DEF Spec

(***************************************************************************)
(* What follows from it.                                                   *)
(***************************************************************************)

\* The types of the store's fields hold through every failure and crash: hour
\* and dirtyHour name segments that can exist and no size goes negative.
THEOREM DiskTypeCorrect == Spec => []TypeOK
<1>1. DiskInv => TypeOK
  BY DEF DiskInv
<1> QED
  BY <1>1, DiskInvAlways, PTL

\* A span whose Write returned nil, and any span the store serves, would be
\* found by OpenDisk after a crash at this very point until it leaves the
\* retention window: whatever append, rollback, repair, EvictExpired and
\* earlier crashes have done, and whatever failed in them.
THEOREM DurableAlways == Spec => []AcknowledgedIsDurable
<1>1. DiskInv => AcknowledgedIsDurable
  <2> SUFFICES ASSUME DiskInv, NEW s \in acked \cup visible, Fresh(s) PROVE OnDisk(s)
    BY DEF AcknowledgedIsDurable
  <2>1. PICK h \in exists : Holds(recs[h], synced[h], s)
    BY DEF DiskInv, Durable
  <2>2. h \in Hours
    BY DEF DiskInv, TypeOK
  <2>3. PICK i \in 1..synced[h] : recs[h][i].good /\ recs[h][i].span = s
    BY <2>1 DEF Holds
  <2>4. /\ recs[h] \in Seq(Recs) /\ Len(recs[h]) \in Nat /\ synced[h] \in Nat
        /\ synced[h] <= Len(recs[h]) /\ TornAtEnd(recs[h])
    BY <2>2, FileTypes DEF DiskInv, FilesOK
  <2>5. i \in 1..Len(recs[h]) /\ i <= synced[h]
    BY <2>4
  <2>6. i <= Intact(recs[h]) /\ Intact(recs[h]) \in Nat
    BY <2>3, <2>4, <2>5, IntactFile, Zenon
  <2>7. i \in 1..Intact(recs[h])
    BY <2>6
  <2> QED
    BY <2>3, <2>5, <2>7, Zenon DEF OnDisk
<1> QED
  BY <1>1, DiskInvAlways, PTL

\* OpenDisk never returns ErrCorruptSegment for files that only crashes, failed
\* writes and evictions have touched: a torn record is always at the end of the
\* newest segment, where replay cuts it off.
THEOREM NeverRefused == Spec => []CrashIsNotCorruption
<1>1. DiskInv => CrashIsNotCorruption
  BY DEF DiskInv, CrashIsNotCorruption
<1> QED
  BY <1>1, DiskInvAlways, PTL

(***************************************************************************)
(* The refinement.                                                         *)
(***************************************************************************)

\* Steps of Write between its start and its end, and steps on files.
LEMMA QuietStep ==
  ASSUME UNCHANGED <<clock, up, writing, acked, failed, cutShort, visible>>
  PROVE  UNCHANGED Promise!vars
<1>1. Elems(writing)' = Elems(writing)
  BY DEF Elems
<1> QED
  BY <1>1 DEF Promise!vars

LEMMA StepToIsQuiet ==
  ASSUME NEW next, StepTo(next)
  PROVE  UNCHANGED Promise!vars
<1>1. UNCHANGED <<clock, up, writing, acked, failed, cutShort, visible>>
  BY DEF StepTo, history
<1> QED
  BY <1>1, QuietStep

LEMMA WriteFailsIsFail ==
  ASSUME WriteFails
  PROVE  Promise!Fail
<1>1. /\ failed' = failed \cup Elems(writing) /\ UNCHANGED <<clock, up, visible, acked, cutShort>>
      /\ Elems(writing)' = {}
  BY FailedIsWritten DEF WriteFails, Elems
<1> QED
  BY <1>1 DEF Promise!Fail

LEMMA WriteStartIsBegin ==
  ASSUME DiskInv, NEW q \in Batches, WriteStart(q)
  PROVE  Promise!Begin
<1>1. /\ up /\ writing = << >> /\ writing' = q /\ UNCHANGED <<clock, up, acked, failed, cutShort, visible>>
      /\ \A s \in Elems(q) : s \notin acked
  BY DEF DiskInv, WriteOK, WriteStart, history, Known
<1>2. Elems(writing)' = Elems(q)
  BY <1>1, Zenon DEF Elems
<1> QED
  BY <1>1, <1>2, BatchType, NoElems DEF Promise!Begin

LEMMA ShowIsCommit ==
  ASSUME Show
  PROVE  Promise!Commit
<1>1. /\ visible' = visible \cup Elems(writing) /\ acked' = acked \cup Elems(writing) /\ writing' = << >>
      /\ UNCHANGED <<clock, up, failed, cutShort>>
  BY DEF Show
<1>2. Elems(writing)' = {}
  BY <1>1 DEF Elems
<1> QED
  BY <1>1, <1>2 DEF Promise!Commit

LEMMA EvictMemoryIsExpire ==
  ASSUME EvictMemory
  PROVE  Promise!Expire
<1>1. /\ up /\ Retention > 0 /\ visible' = Unexpired(visible)
      /\ UNCHANGED <<clock, up, writing, acked, failed, cutShort>>
  BY DEF EvictMemory, history
<1>2. Elems(writing)' = Elems(writing)
  BY <1>1 DEF Elems
<1>3. visible' \subseteq visible /\ \A s \in visible \ visible' : ~Promise!Fresh(s)
  BY <1>1, DiskAssumption DEF Unexpired, Promise!Fresh
<1> QED
  BY <1>1, <1>2, <1>3 DEF Promise!Expire

LEMMA DownIsStop ==
  ASSUME Down
  PROVE  Promise!Stop
<1>1. /\ up /\ up' = FALSE /\ visible' = {} /\ cutShort' = cutShort \cup Elems(writing) /\ writing' = << >>
      /\ UNCHANGED <<clock, acked, failed>>
  BY DEF Down
<1>2. Elems(writing)' = {}
  BY <1>1 DEF Elems
<1> QED
  BY <1>1, <1>2 DEF Promise!Stop

LEMMA OpenDiskIsRestart ==
  ASSUME DiskInv, OpenDisk
  PROVE  Promise!Restart
<1>0. TypeOK /\ FilesOK /\ SegmentOK /\ Durable /\ ~up /\ writing = << >>
  <2>1. TypeOK /\ FilesOK /\ SegmentOK /\ Durable /\ WriteOK /\ ~up
    BY Zenon DEF DiskInv, OpenDisk
  <2> QED
    BY <2>1 DEF SegmentOK, WriteOK
<1>1. up' = TRUE /\ visible' = Unexpired(Replayed) /\ UNCHANGED <<clock, writing, acked, failed, cutShort>>
  BY OpenDiskReplays
<1>2. Elems(writing)' = Elems(writing)
  BY <1>1 DEF Elems
<1>3. visible' \subseteq acked \cup (failed \cup cutShort)
  <2>1. visible' \subseteq Replayed
    BY <1>1 DEF Unexpired
  <2>2. visible' \subseteq Written
    BY <1>0, <2>1, ReplayFinds
  <2> QED
    BY <1>0, <2>2, NoElems DEF Written
<1>4. ASSUME NEW s \in acked, Promise!Fresh(s) PROVE s \in visible'
  <2>1. Fresh(s)
    BY <1>4 DEF Promise!Fresh, Fresh
  <2>2. \E h \in exists : Holds(recs[h], synced[h], s)
    BY <1>0, <2>1 DEF Durable
  <2>3. s \in Replayed
    BY <1>0, <2>2, ReplayFinds, Zenon
  <2> QED
    BY <1>1, <2>1, <2>3 DEF Unexpired, Fresh
<1> QED
  BY <1>0, <1>1, <1>2, <1>3, <1>4 DEF Promise!Restart

LEMMA TickIsPass ==
  ASSUME DiskInv, Tick
  PROVE  Promise!Pass
<1>1. clock' = clock + 1 /\ UNCHANGED <<up, writing, acked, failed, cutShort, visible>>
  BY DEF Tick, history
<1>2. clock' > clock
  BY <1>1, DiskAssumption DEF DiskInv, TypeOK
<1>3. Elems(writing)' = Elems(writing)
  BY <1>1 DEF Elems
<1> QED
  BY <1>1, <1>2, <1>3 DEF Promise!Pass

LEMMA StoreStep == DiskInv /\ [Next]_vars => [Promise!Next]_Promise!vars
<1> SUFFICES ASSUME DiskInv, [Next]_vars PROVE Promise!Next \/ UNCHANGED Promise!vars
  OBVIOUS
<1>1. ASSUME NEW q \in Batches, WriteStart(q) PROVE Promise!Next
  BY <1>1, WriteStartIsBegin DEF Promise!Next
<1>2. ASSUME WriteFails \/ \E next \in {"repair", "open", "append", "sync", "rollback", "show"} : StepTo(next)
      PROVE  Promise!Next \/ UNCHANGED Promise!vars
  BY <1>2, WriteFailsIsFail, StepToIsQuiet DEF Promise!Next
<1>3. CASE CloseSegment \/ Repair \/ OpenSegment
  BY <1>2, <1>3 DEF CloseSegment, Repair, OpenSegment
<1>4. CASE TooLarge \/ AppendBatch \/ Sync \/ Rollback
  BY <1>2, <1>4 DEF TooLarge, AppendBatch, Sync, Rollback
<1>5. CASE Show
  BY <1>5, ShowIsCommit DEF Promise!Next
<1>6. CASE EvictMemory
  BY <1>6, EvictMemoryIsExpire DEF Promise!Next
<1>7. CASE EvictSegments
  <2>1. UNCHANGED <<clock, up, writing, acked, failed, cutShort, visible>>
    BY <1>7 DEF EvictSegments, history
  <2> QED
    BY <2>1, QuietStep
<1>8. CASE Close \/ Crash
  <2>1. Down
    BY <1>8 DEF Close, Crash
  <2> QED
    BY <2>1, DownIsStop DEF Promise!Next
<1>9. CASE OpenDisk
  BY <1>9, OpenDiskIsRestart DEF Promise!Next
<1>10. CASE Tick
  BY <1>10, TickIsPass DEF Promise!Next
<1>11. CASE UNCHANGED vars
  <2>1. UNCHANGED <<clock, up, writing, acked, failed, cutShort, visible>>
    BY <1>11 DEF vars, history
  <2> QED
    BY <2>1, QuietStep
<1> QED
  BY <1>1, <1>3, <1>4, <1>5, <1>6, <1>7, <1>8, <1>9, <1>10, <1>11 DEF Next

LEMMA StoreInit == Init => Promise!Init
BY NoElems DEF Init, Promise!Init

\* The on-disk store keeps the promise of module Store: Write, EvictExpired,
\* Close, a crash and OpenDisk each take one step of it or none, so a caller
\* sees a store that loses nothing it acknowledged and serves nothing that was
\* never written.
THEOREM DiskImplementsStore == Spec => ImplementsStore
<1>1. Spec => [][Promise!Next]_Promise!vars
  BY DiskInvAlways, StoreStep, PTL DEF Spec
<1> QED
  BY <1>1, StoreInit, PTL DEF Spec, ImplementsStore, Promise!Spec
=============================================================================
