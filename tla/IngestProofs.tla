---------------------------- MODULE IngestProofs ----------------------------
(***************************************************************************)
(* Proofs about Ingest, for any number of clients, any requests and any    *)
(* number of lost answers.  What Translate's loops compute is proved by    *)
(* induction on their turns: a set of turns that holds the first and, with *)
(* each, the next, holds them all, for else there were a least one left    *)
(* out.                                                                    *)
(***************************************************************************)
EXTENDS Ingest, FiniteSetTheorems, TLAPS

\* The batches there are to pass on.
Batches == {Translate(Message(request[c])).spans : c \in Client}

\* An attempt counts once its success has been sent.
Heard(c) == IF phase[c] = "done" \/ (phase[c] = "answered" /\ answer[c].status = 200) THEN 1 ELSE 0

\* The inductive invariant: besides types, an attempt that has not been answered
\* with success has added nothing to what the sink was passed.
AttemptsInv ==
  /\ phase \in [Client -> {"send", "serving", "answered", "done"}]
  /\ answer = [c \in Client |-> answer[c]]
  /\ lost \in [Client -> Nat]
  /\ passed \in [Client -> Seq(Batches)]
  /\ \A c \in Client : Len(passed[c]) <= lost[c] + Heard(c)

\* Nothing has been passed on at first.
LEMMA AttemptsInit == Init => AttemptsInv
BY DEF Init, AttemptsInv, Heard, Answer

\* Every step of a handler, a client or the sampler preserves it.
LEMMA AttemptsStep == AttemptsInv /\ [Next]_vars => AttemptsInv'
<1> SUFFICES ASSUME AttemptsInv, [Next]_vars PROVE AttemptsInv'
  OBVIOUS
<1> HIDE DEF Batches
<1>0. /\ phase \in [Client -> {"send", "serving", "answered", "done"}]
      /\ answer = [c \in Client |-> answer[c]]
      /\ lost \in [Client -> Nat] /\ passed \in [Client -> Seq(Batches)]
      /\ \A c \in Client : Len(passed[c]) \in Nat /\ Len(passed[c]) <= lost[c] + Heard(c)
  BY DEF AttemptsInv
<1>1. CASE UNCHANGED vars \/ Drain
  <2>1. UNCHANGED <<request, phase, answer, lost, passed>>
    BY <1>1 DEF vars, Drain
  <2> QED
    BY <2>1, <1>0 DEF AttemptsInv, Heard, Batches
<1>2. ASSUME NEW c \in Client, Send(c) PROVE AttemptsInv'
  <2>1. UNCHANGED <<request, answer, lost, passed>> /\ phase' = [phase EXCEPT ![c] = "serving"] /\ phase[c] = "send"
    BY <1>2 DEF Send
  <2> QED
    BY <2>1, <1>0 DEF AttemptsInv, Heard, Batches
<1>3. ASSUME NEW c \in Client, Receive(c) PROVE AttemptsInv'
  <2>1. /\ UNCHANGED <<request, answer, lost, passed>> /\ phase[c] = "answered"
        /\ phase' = [phase EXCEPT ![c] = IF answer[c].status = 503 THEN "send" ELSE "done"]
    BY <1>3 DEF Receive
  <2> QED
    BY <2>1, <1>0 DEF AttemptsInv, Heard, Batches
<1>4. ASSUME NEW c \in Client, LoseAnswer(c) PROVE AttemptsInv'
  <2>1. /\ UNCHANGED <<request, answer, passed>> /\ phase[c] = "answered"
        /\ phase' = [phase EXCEPT ![c] = "send"] /\ lost' = [lost EXCEPT ![c] = @ + 1]
    BY <1>4 DEF LoseAnswer
  <2> QED
    BY <2>1, <1>0 DEF AttemptsInv, Heard, Batches
<1>5. ASSUME NEW c \in Client, NEW a, phase[c] = "serving", Reply(c, a),
             \/ passed' = passed
             \/ a.status = 200 /\ \E b \in Batches : passed' = [passed EXCEPT ![c] = Append(@, b)]
      PROVE AttemptsInv'
  <2>1. /\ UNCHANGED <<request, lost>> /\ phase' = [phase EXCEPT ![c] = "answered"]
        /\ answer' = [answer EXCEPT ![c] = a]
    BY <1>5 DEF Reply
  <2>a. /\ phase' \in [Client -> {"send", "serving", "answered", "done"}]
        /\ answer' = [d \in Client |-> answer'[d]] /\ lost' \in [Client -> Nat] /\ Batches' = Batches
    BY <2>1, <1>0, Zenon DEF Batches
  <2>b. /\ Heard(c) = 0 /\ Heard(c)' \in 0..1 /\ (a.status = 200 => Heard(c)' = 1)
        /\ \A d \in Client \ {c} : Heard(d)' = Heard(d)
    BY <2>1, <1>0, <1>5 DEF Heard
  <2>2. CASE passed' = passed
    <3>1. ASSUME NEW d \in Client PROVE Len(passed'[d]) <= lost'[d] + Heard(d)'
      <4>1. Len(passed[d]) \in Nat /\ lost[d] \in Nat /\ Len(passed[d]) <= lost[d] + Heard(d)
        BY <1>0
      <4>2. CASE d = c
        BY <4>1, <4>2, <2>b, <2>1, <2>2
      <4>3. CASE d # c
        BY <4>1, <4>3, <2>b, <2>1, <2>2
      <4> QED
        BY <4>2, <4>3
    <3> QED
      BY <3>1, <2>a, <2>2, <1>0 DEF AttemptsInv
  <2>3. ASSUME a.status = 200, NEW b \in Batches, passed' = [passed EXCEPT ![c] = Append(@, b)]
        PROVE AttemptsInv'
    <3>1. Append(passed[c], b) \in Seq(Batches) /\ Len(Append(passed[c], b)) = Len(passed[c]) + 1
      BY <1>0
    <3>2. passed' \in [Client -> Seq(Batches)]
      BY <3>1, <2>3, <1>0
    <3>3. ASSUME NEW d \in Client PROVE Len(passed'[d]) <= lost'[d] + Heard(d)'
      <4>1. Len(passed[d]) \in Nat /\ lost[d] \in Nat /\ Len(passed[d]) <= lost[d] + Heard(d)
        BY <1>0
      <4>2. CASE d = c
        <5>1. Len(passed'[d]) = Len(passed[d]) + 1
          BY <4>2, <3>1, <2>3, <1>0
        <5> QED
          BY <5>1, <4>1, <4>2, <2>b, <2>1, <2>3
      <4>3. CASE d # c
        <5>1. passed'[d] = passed[d]
          BY <4>3, <2>3, <1>0
        <5> QED
          BY <5>1, <4>1, <4>3, <2>b, <2>1
      <4> QED
        BY <4>2, <4>3
    <3> QED
      BY <3>2, <3>3, <2>a DEF AttemptsInv
  <2> QED
    BY <1>5, <2>2, <2>3
<1>6. ASSUME NEW c \in Client, Export(c) PROVE AttemptsInv'
  <2>1. phase[c] = "serving"
    BY <1>6 DEF Export
  <2>2. CASE ServeRefused(c)
    BY <2>1, <2>2, <1>5 DEF ServeRefused
  <2>3. ASSUME NEW got, got = Translate(Message(request[c])),
               \/ ExportNothing(c, got) \/ ExportTooLarge(c, got)
               \/ \E room \in 0..Len(got.spans) : ExportFull(c, got, room) \/ ExportAccepted(c, got, room)
        PROVE AttemptsInv'
    <3>1. got.spans \in Batches
      BY <2>3 DEF Batches
    <3>2. CASE ExportNothing(c, got)
      BY <2>1, <3>2, <1>5 DEF ExportNothing
    <3>3. CASE ExportTooLarge(c, got)
      BY <2>1, <3>3, <1>5 DEF ExportTooLarge
    <3>4. ASSUME NEW room, ExportFull(c, got, room) PROVE AttemptsInv'
      BY <2>1, <3>4, <1>5 DEF ExportFull
    <3>5. ASSUME NEW room, ExportAccepted(c, got, room) PROVE AttemptsInv'
      <4>1. Reply(c, Answer(200, got.rejections)) /\ passed' = [passed EXCEPT ![c] = Append(@, got.spans)]
        BY <3>5 DEF ExportAccepted
      <4>2. PICK a : a.status = 200 /\ Reply(c, a)
        BY <4>1 DEF Answer
      <4>3. PICK b \in Batches : passed' = [passed EXCEPT ![c] = Append(@, b)]
        BY <4>1, <3>1, Zenon
      <4> QED
        BY <4>2, <4>3, <2>1, <1>5, Zenon
    <3> QED
      BY <2>3, <3>2, <3>3, <3>4, <3>5
  <2> QED
    BY <1>6, <2>2, <2>3 DEF Export
<1> QED
  BY <1>1, <1>2, <1>3, <1>4, <1>6 DEF Next

\* A batch reaches the sink at most once more than answers to it were lost, for
\* any clients, requests and limits: neither a refusal by a full sampler nor the
\* retry it asks for ever stores a span twice.
THEOREM RetryDoesNotDuplicateAlways == Spec => []RetryDoesNotDuplicate
<1>1. AttemptsInv => RetryDoesNotDuplicate
  BY DEF AttemptsInv, Heard, RetryDoesNotDuplicate
<1> QED
  BY <1>1, AttemptsInit, AttemptsStep, PTL DEF Spec

(***************************************************************************)
(* Numbers, sequences and loops.                                           *)
(***************************************************************************)

\* A set of numbers that is not empty has a least element.
LEMMA LeastExists ==
  ASSUME NEW T \in SUBSET Nat, T # {}
  PROVE  \E m \in T : \A k \in T : m <= k
<1> DEFINE R == OpToRel(<, Nat)
<1>1. IsWellFoundedOn(R, Nat)
  BY NatLessThanWellFounded, Zenon
<1>2. \A x, y \in Nat : <<y, x>> \in R <=> y < x
  BY DEF OpToRel
<1> HIDE DEF R
<1>3. PICK m \in T : \A k \in T : ~(<<k, m>> \in R)
  BY <1>1, WFMin, Zenon
<1>4. ASSUME NEW k \in T PROVE m <= k
  <2>1. ~(k < m)
    BY <1>2, <1>3, Zenon
  <2> QED
    BY <2>1
<1> QED
  BY <1>4

\* What holds at first and is kept by every turn of a loop holds at its end: G
\* is the set of turns it holds after.
LEMMA LoopInduction ==
  ASSUME NEW N \in Nat, NEW G, 0 \in G, \A i \in 1..N : i - 1 \in G => i \in G
  PROVE  0..N \subseteq G
<1> DEFINE T == 0..N \ G
<1> SUFFICES ASSUME T # {} PROVE FALSE
  OBVIOUS
<1>1. PICK m \in T : \A k \in T : m <= k
  <2>1. T \in SUBSET Nat
    OBVIOUS
  <2> HIDE DEF T
  <2> QED
    BY <2>1, LeastExists
<1>2. m \in 1..N /\ m \notin G
  OBVIOUS
<1>3. m - 1 \in 0..N /\ ~(m <= m - 1)
  BY <1>2
<1>4. m - 1 \in G
  BY <1>1, <1>3
<1> QED
  BY <1>2, <1>4

\* A loop of N turns on values of X, and what it has made after each turn.
Keeps(step, N, X) == \A i \in 1..N : \A x \in X : step[i][x] \in X
IsRun(u, step, N, X, b) == u \in [0..N -> X] /\ u[0] = b /\ \A i \in 1..N : u[i] = step[i][u[i - 1]]

\* A loop that keeps to X has a value after every turn.
LEMMA LoopExists ==
  ASSUME NEW X, NEW N \in Nat, NEW b \in X, NEW step, Keeps(step, N, X)
  PROVE  \E u : IsRun(u, step, N, X, b)
<1> DEFINE Runs(u, k) == u[0] = b /\ \A i \in 1..k : u[i] = step[i][u[i - 1]]
           G == {k \in 0..N : \E u \in [0..k -> X] : Runs(u, k)}
<1>1. 0 \in G
  <2> DEFINE u == [i \in 0..0 |-> b]
  <2>1. u \in [0..0 -> X] /\ Runs(u, 0)
    OBVIOUS
  <2> HIDE DEF u
  <2>2. \E w \in [0..0 -> X] : Runs(w, 0)
    BY <2>1
  <2> HIDE DEF Runs
  <2> QED
    BY <2>2
<1>2. ASSUME NEW m \in 1..N, m - 1 \in G PROVE m \in G
  <2>1. PICK v \in [0..(m - 1) -> X] : Runs(v, m - 1)
    BY <1>2
  <2> DEFINE u == [i \in 0..m |-> IF i = m THEN step[m][v[m - 1]] ELSE v[i]]
  <2>2. m - 1 \in 0..(m - 1) /\ \A i \in 0..m : i # m => i \in 0..(m - 1)
    OBVIOUS
  <2>3. u \in [0..m -> X]
    BY <2>1, <2>2 DEF Keeps
  <2>4. u[0] = b /\ u[m] = step[m][u[m - 1]]
    BY <2>1, <2>2
  <2>5. ASSUME NEW i \in 1..(m - 1) PROVE u[i] = step[i][u[i - 1]]
    <3>1. i \in 0..m /\ i # m /\ i - 1 \in 0..m /\ i - 1 # m
      OBVIOUS
    <3>2. u[i] = v[i] /\ u[i - 1] = v[i - 1]
      BY <3>1
    <3> QED
      BY <2>1, <3>2
  <2> HIDE DEF u
  <2>6. \A i \in 1..m : i = m \/ i \in 1..(m - 1)
    OBVIOUS
  <2>7. Runs(u, m)
    BY <2>4, <2>5, <2>6
  <2> QED
    BY <2>3, <2>7
<1>3. N \in G
  <2> HIDE DEF G
  <2>1. 0..N \subseteq G
    BY <1>1, <1>2, LoopInduction
  <2> QED
    BY <2>1
<1>4. PICK u \in [0..N -> X] : Runs(u, N)
  BY <1>3
<1> QED
  BY <1>4 DEF IsRun

\* A sequence is a function on the numbers up to its length.
LEMMA SeqLen ==
  ASSUME NEW S, NEW s \in Seq(S)
  PROVE  Len(s) \in Nat /\ DOMAIN s = 1..Len(s) /\ \A i \in 1..Len(s) : s[i] \in S
  OBVIOUS

\* A concatenation, by position.
LEMMA SeqConcat ==
  ASSUME NEW S, NEW a \in Seq(S), NEW b \in Seq(S)
  PROVE  /\ a \o b \in Seq(S) /\ Len(a \o b) = Len(a) + Len(b)
         /\ \A i \in 1..(Len(a) + Len(b)) : (a \o b)[i] = IF i <= Len(a) THEN a[i] ELSE b[i - Len(a)]
  OBVIOUS

\* Append keeps what is there and puts its element at the end.
LEMMA SeqAppend ==
  ASSUME NEW S, NEW s \in Seq(S), NEW x \in S
  PROVE  /\ Append(s, x) \in Seq(S) /\ Len(Append(s, x)) = Len(s) + 1
         /\ Append(s, x)[Len(s) + 1] = x /\ \A i \in 1..Len(s) : Append(s, x)[i] = s[i]
  OBVIOUS

\* Nothing, followed by a sequence, is that sequence.
LEMMA SeqEmptyConcat == ASSUME NEW S, NEW s \in Seq(S) PROVE << >> \o s = s
<1> DEFINE e == << >>
           t == e \o s
<1>1. e \in Seq(S) /\ Len(e) = 0
  OBVIOUS
<1>2. t \in Seq(S) /\ Len(t) = Len(s) /\ \A i \in 1..Len(s) : t[i] = s[i]
  <2> HIDE DEF e
  <2>1. Len(s) \in Nat
    BY SeqLen
  <2>2. \A i \in 1..Len(s) : i \in 1..(0 + Len(s)) /\ ~(i <= 0) /\ i - 0 = i
    BY <2>1
  <2> QED
    BY <1>1, <2>1, <2>2, SeqConcat
<1> HIDE DEF t
<1>3. DOMAIN t = DOMAIN s /\ \A i \in DOMAIN s : t[i] = s[i]
  BY <1>2, SeqLen
<1>4. t = s
  BY <1>2, <1>3
<1> QED
  BY <1>4 DEF t

\* The front of a sequence.
LEMMA SeqFront ==
  ASSUME NEW S, NEW s \in Seq(S), NEW k \in Nat, k <= Len(s)
  PROVE  Len(SubSeq(s, 1, k)) = k /\ \A i \in 1..k : SubSeq(s, 1, k)[i] = s[i]
<1>1. SubSeq(s, 1, k) = [i \in 1..k |-> s[i]]
  OBVIOUS
<1> QED
  BY <1>1

(***************************************************************************)
(* A sequence that lists what f gives each place of S, in order.           *)
(***************************************************************************)

Ranked(s, S, f) == Len(s) = Cardinality(S) /\ \A i \in S : s[Rank(S, i)] = f[i]

\* The rank of a place is between one and the number of places.
LEMMA RankBounds ==
  ASSUME NEW k \in Nat, NEW S \in SUBSET (1..k)
  PROVE  /\ IsFiniteSet(S) /\ Cardinality(S) \in Nat
         /\ \A i \in S : Rank(S, i) \in 1..Cardinality(S)
<1>1. IsFiniteSet(S) /\ Cardinality(S) \in Nat
  <2>1. IsFiniteSet(1..k)
    BY FS_Interval
  <2>2. IsFiniteSet(S)
    BY <2>1, FS_Subset, Zenon
  <2> QED
    BY <2>2, FS_CardinalityType
<1>2. ASSUME NEW i \in S PROVE Rank(S, i) \in 1..Cardinality(S)
  <2> DEFINE R == {j \in S : j <= i}
  <2>1. R \subseteq S /\ i \in R
    OBVIOUS
  <2>2. IsFiniteSet(R) /\ Cardinality(R) \in Nat /\ Cardinality(R) <= Cardinality(S)
    BY <1>1, <2>1, FS_Subset, FS_CardinalityType
  <2>3. Cardinality(R) # 0
    BY <2>1, <2>2, FS_EmptySet
  <2> QED
    BY <1>1, <2>2, <2>3 DEF Rank
<1> QED
  BY <1>1, <1>2

\* A place after all others comes last and changes no other's rank.
LEMMA RankGrows ==
  ASSUME NEW k \in Nat, NEW S \in SUBSET (1..k)
  PROVE  LET T == S \cup {k + 1}
         IN /\ Cardinality(T) = Cardinality(S) + 1 /\ Rank(T, k + 1) = Cardinality(S) + 1
            /\ \A i \in S : Rank(T, i) = Rank(S, i)
<1> DEFINE T == S \cup {k + 1}
<1>0. \A j \in S : j \in Int /\ j <= k
  OBVIOUS
<1>1. IsFiniteSet(S) /\ k + 1 \notin S
  <2>1. IsFiniteSet(S)
    BY RankBounds, Zenon
  <2> QED
    BY <1>0, <2>1
<1>2. Cardinality(T) = Cardinality(S) + 1
  BY <1>1, FS_AddElement
<1>3. {j \in T : j <= k + 1} = T
  <2>1. \A j \in T : j <= k + 1
    BY <1>0
  <2> HIDE DEF T
  <2> QED
    BY <2>1
<1>4. ASSUME NEW i \in S PROVE {j \in T : j <= i} = {j \in S : j <= i}
  BY <1>0
<1> QED
  BY <1>2, <1>3, <1>4 DEF Rank

\* Nothing is listed by the empty sequence.
LEMMA RankedEmpty == ASSUME NEW f PROVE Ranked(<< >>, {}, f)
  BY FS_EmptySet DEF Ranked

\* Appending what f gives a place after all others lists that place too.
LEMMA RankedAppend ==
  ASSUME NEW V, NEW s \in Seq(V), NEW k \in Nat, NEW S \in SUBSET (1..k), NEW f,
         Ranked(s, S, f), f[k + 1] \in V
  PROVE  Ranked(Append(s, f[k + 1]), S \cup {k + 1}, f)
<1> DEFINE T == S \cup {k + 1}
           t == Append(s, f[k + 1])
<1>1. /\ Cardinality(T) = Cardinality(S) + 1 /\ Rank(T, k + 1) = Cardinality(S) + 1
      /\ \A i \in S : Rank(T, i) = Rank(S, i)
  BY RankGrows, Zenon
<1>2. Cardinality(S) \in Nat /\ \A i \in S : Rank(S, i) \in 1..Cardinality(S)
  BY RankBounds, Zenon
<1>3. Len(s) = Cardinality(S) /\ \A i \in S : s[Rank(S, i)] = f[i]
  BY DEF Ranked
<1>4. Len(t) = Len(s) + 1 /\ t[Len(s) + 1] = f[k + 1] /\ \A i \in 1..Len(s) : t[i] = s[i]
  BY SeqAppend
<1> HIDE DEF T, t
<1>5. Len(t) = Cardinality(T)
  BY <1>1, <1>3, <1>4
<1>6. ASSUME NEW i \in S PROVE t[Rank(T, i)] = f[i]
  BY <1>1, <1>2, <1>3, <1>4
<1>7. t[Rank(T, k + 1)] = f[k + 1]
  BY <1>1, <1>3, <1>4
<1>8. \A i \in T : t[Rank(T, i)] = f[i]
  BY <1>6, <1>7, Zenon DEF T
<1> QED
  BY <1>5, <1>8, Zenon DEF Ranked, T, t

\* Only what f gives the places of S matters.
LEMMA RankedSame ==
  ASSUME NEW s, NEW S, NEW f, NEW g, \A i \in S : f[i] = g[i], Ranked(s, S, f)
  PROVE  Ranked(s, S, g)
  BY DEF Ranked

(***************************************************************************)
(* FlattenSeq and Translate as loops.                                      *)
(***************************************************************************)

\* FlattenSeq adds one sequence at a time.
LEMMA FlattenIsLoop ==
  ASSUME NEW S, NEW q \in Seq(Seq(S))
  PROVE  \E u \in [0..Len(q) -> Seq(S)] :
           /\ u[0] = << >> /\ (\A i \in 1..Len(q) : u[i] = u[i - 1] \o q[i])
           /\ FlattenSeq(q) = u[Len(q)]
<1> DEFINE N == Len(q)
           X == Seq(S)
           e == << >>
           step == [i \in 1..N |-> [x \in X |-> x \o q[i]]]
<1>1. N \in Nat /\ \A i \in 1..N : q[i] \in Seq(S)
  BY SeqLen
<1> HIDE DEF N
<1>2. PICK u \in [0..N -> X] : u[0] = e /\ \A i \in 1..N : u[i] = u[i - 1] \o q[i]
  <2>1. \A i \in 1..N : \A x \in X : step[i][x] = x \o q[i]
    OBVIOUS
  <2>2. e \in X /\ Keeps(step, N, X)
    <3>1. ASSUME NEW i \in 1..N, NEW x \in X PROVE x \o q[i] \in X
      BY <1>1, SeqConcat
    <3> QED
      BY <2>1, <3>1 DEF Keeps
  <2> HIDE DEF step, X, e
  <2>5. PICK u : IsRun(u, step, N, X, e)
    BY <1>1, <2>2, LoopExists
  <2>3. \A i \in 1..N : u[i - 1] \in X
    BY <1>1, <2>5 DEF IsRun
  <2>4. \A i \in 1..N : u[i] = u[i - 1] \o q[i]
    BY <2>1, <2>5, <2>3, Zenon DEF IsRun
  <2> QED
    BY <2>5, <2>4, Zenon DEF IsRun
<1>a. N # 0 => u[1] = q[1]
  <2>1. N # 0 => 1 \in 1..N /\ u[1 - 1] = e /\ e \o q[1] = q[1]
    BY <1>1, <1>2, SeqEmptyConcat
  <2> HIDE DEF e
  <2> QED
    BY <1>2, <2>1, Zenon
<1>3. CASE N = 0
  <2>1. q = << >> /\ FlattenSeq(q) = q
    BY <1>3 DEF FlattenSeq, N
  <2> QED
    BY <1>2, <1>3, <2>1 DEF N
<1>4. CASE N # 0
  <2> DEFINE Turn(h) == [i \in 1..N |-> IF i = 1 THEN q[i] ELSE h[i - 1] \o q[i]]
             flatten[i \in 1..N] == IF i = 1 THEN q[i] ELSE flatten[i - 1] \o q[i]
  <2>1. FlattenSeq(q) = flatten[N]
    BY <1>4 DEF FlattenSeq, N
  <2>2. flatten = CHOOSE h : h = Turn(h)
    BY DEF flatten
  <2>3. \E h : h = Turn(h)
    <3> DEFINE v == [i \in 1..N |-> u[i]]
    <3>2. ASSUME NEW i \in 1..N PROVE v[i] = Turn(v)[i]
      <4>1. i # 1 => i - 1 \in 1..N
        BY <1>1
      <4> QED
        BY <1>a, <1>4, <4>1, <1>2, Zenon
    <3>3. v = Turn(v)
      BY <3>2
    <3> QED
      BY <3>3, Zenon
  <2>4. flatten = Turn(flatten)
    BY <2>2, <2>3, Zenon
  <2> HIDE DEF flatten
  <2>5. \A i \in 1..N : flatten[i] = IF i = 1 THEN q[i] ELSE flatten[i - 1] \o q[i]
    BY <2>4, Zenon
  <2> DEFINE G == {k \in 0..N : k # 0 => flatten[k] = u[k]}
  <2>6. 0 \in G
    BY <1>1
  <2>7. ASSUME NEW i \in 1..N, i - 1 \in G PROVE i \in G
    <3>1. u[i] = u[i - 1] \o q[i]
      BY <1>2, Zenon
    <3>2. CASE i = 1
      BY <1>4, <1>a, <2>5, <3>2
    <3>3. CASE i # 1
      <4>1. flatten[i - 1] = u[i - 1]
        BY <2>7, <3>3
      <4>2. flatten[i] = u[i]
        BY <2>5, <3>1, <3>3, <4>1, Zenon
      <4> QED
        BY <4>2
    <3> QED
      BY <3>2, <3>3
  <2>8. N \in G
    <3> HIDE DEF G
    <3>1. 0..N \subseteq G
      BY <1>1, <2>6, <2>7, LoopInduction, Zenon
    <3> QED
      BY <1>1, <3>1
  <2>9. FlattenSeq(q) = u[N]
    BY <1>4, <2>1, <2>8
  <2> QED
    BY <1>2, <2>9 DEF N
<1> QED
  BY <1>3, <1>4, Zenon

\* What Translate's loops carry, with spans from V.
Carried(V) == [spans : Seq(V), rejections : Seq(Nat), index : Nat]
Start == [spans |-> << >>, rejections |-> << >>, index |-> 0]

\* A span of the request with its resource, what it is translated to, and
\* whether Translate takes it.
Entry(rs, j) == [ps |-> rs.spans[j], resource |-> rs.resource]
Translated(e) == translateSpan(e.ps, keyValues(e.resource))
Takes(e) == GoodIDs(e.ps) /\ Validate(Translated(e))

\* One turn adds the translation of a span that is taken, or its index.
LEMMA OneTurn ==
  ASSUME NEW V, NEW acc \in Carried(V), NEW rs, NEW j, Translated(Entry(rs, j)) \in V
  PROVE  LET e == Entry(rs, j)
             next == One(acc, rs.spans[j], keyValues(rs.resource))
         IN /\ next \in Carried(V) /\ next.index = acc.index + 1
            /\ Takes(e) => next.spans = Append(acc.spans, Translated(e)) /\ next.rejections = acc.rejections
            /\ ~Takes(e) => next.spans = acc.spans /\ next.rejections = Append(acc.rejections, acc.index)
<1> DEFINE e == Entry(rs, j)
           span == translateSpan(rs.spans[j], keyValues(rs.resource))
           next == One(acc, rs.spans[j], keyValues(rs.resource))
<1>1. e.ps = rs.spans[j] /\ e.resource = rs.resource
  BY DEF Entry
<1>2. Translated(e) = span /\ (Takes(e) <=> GoodIDs(rs.spans[j]) /\ Validate(span))
  BY <1>1 DEF Translated, Takes
<1>3. next = IF GoodIDs(rs.spans[j]) /\ Validate(span)
             THEN [acc EXCEPT !.spans = Append(@, span), !.index = @ + 1]
             ELSE [acc EXCEPT !.rejections = Append(@, acc.index), !.index = @ + 1]
  BY DEF One
<1>4. span \in V
  BY <1>2
<1> HIDE DEF next, span, e
<1>5. acc.spans \in Seq(V) /\ acc.rejections \in Seq(Nat) /\ acc.index \in Nat
  BY DEF Carried
<1>6. Append(acc.spans, span) \in Seq(V) /\ Append(acc.rejections, acc.index) \in Seq(Nat) /\ acc.index + 1 \in Nat
  BY <1>4, <1>5, SeqAppend
<1>7. CASE Takes(e)
  <2>1. next = [acc EXCEPT !.spans = Append(@, span), !.index = @ + 1]
    BY <1>2, <1>3, <1>7
  <2>2. next = [spans |-> Append(acc.spans, span), rejections |-> acc.rejections, index |-> acc.index + 1]
    BY <2>1, Zenon DEF Carried
  <2>3. next \in Carried(V)
    BY <2>2, <1>5, <1>6 DEF Carried
  <2> QED
    BY <2>2, <2>3, <1>2, <1>7 DEF e, next
<1>8. CASE ~Takes(e)
  <2>1. next = [acc EXCEPT !.rejections = Append(@, acc.index), !.index = @ + 1]
    BY <1>2, <1>3, <1>8
  <2>2. next = [spans |-> acc.spans, rejections |-> Append(acc.rejections, acc.index), index |-> acc.index + 1]
    BY <2>1, Zenon DEF Carried
  <2>3. next \in Carried(V)
    BY <2>2, <1>5, <1>6 DEF Carried
  <2> QED
    BY <2>2, <2>3, <1>8 DEF e, next
<1> QED
  BY <1>7, <1>8

\* What has been read of the entries E after the first k of them: the
\* translations of those that are taken, and the indexes of the others.
TakenOf(E, k) == {i \in 1..k : Takes(E[i])}
Reads(acc, E, k) ==
  /\ acc.index = k
  /\ Ranked(acc.spans, TakenOf(E, k), [i \in 1..k |-> Translated(E[i])])
  /\ Ranked(acc.rejections, 1..k \ TakenOf(E, k), [i \in 1..k |-> i - 1])

\* Only the first k entries matter.
LEMMA ReadsSame ==
  ASSUME NEW acc, NEW D, NEW E, NEW k \in Nat, \A i \in 1..k : D[i] = E[i], Reads(acc, D, k)
  PROVE  Reads(acc, E, k)
<1>1. TakenOf(D, k) = TakenOf(E, k)
  BY Zenon DEF TakenOf
<1>2. [i \in 1..k |-> Translated(D[i])] = [i \in 1..k |-> Translated(E[i])]
  BY Zenon
<1> QED
  BY <1>1, <1>2, Zenon DEF Reads

\* One turn reads one entry more.
LEMMA ReadsOne ==
  ASSUME NEW V, NEW acc \in Carried(V), NEW E, NEW k \in Nat, NEW rs, NEW j,
         E[k + 1] = Entry(rs, j), Translated(Entry(rs, j)) \in V, Reads(acc, E, k)
  PROVE  Reads(One(acc, rs.spans[j], keyValues(rs.resource)), E, k + 1)
<1> DEFINE e == Entry(rs, j)
           next == One(acc, rs.spans[j], keyValues(rs.resource))
           S == TakenOf(E, k)
           T == TakenOf(E, k + 1)
           B == 1..k \ S
           C == 1..(k + 1) \ T
           f == [i \in 1..k |-> Translated(E[i])]
           g == [i \in 1..(k + 1) |-> Translated(E[i])]
           m == [i \in 1..k |-> i - 1]
           n == [i \in 1..(k + 1) |-> i - 1]
<1>1. /\ next.index = acc.index + 1
      /\ Takes(e) => next.spans = Append(acc.spans, Translated(e)) /\ next.rejections = acc.rejections
      /\ ~Takes(e) => next.spans = acc.spans /\ next.rejections = Append(acc.rejections, acc.index)
  BY OneTurn
<1>2. acc.spans \in Seq(V) /\ acc.rejections \in Seq(Nat) /\ acc.index = k
  BY DEF Carried, Reads
<1>3. /\ S \in SUBSET (1..k) /\ B \in SUBSET (1..k) /\ 1..(k + 1) = 1..k \cup {k + 1} /\ k + 1 \notin 1..k
      /\ k + 1 \in 1..(k + 1) /\ \A i \in 1..k : i \in 1..(k + 1)
  BY DEF TakenOf
<1>4. /\ Takes(e) => T = S \cup {k + 1} /\ C = B
      /\ ~Takes(e) => T = S /\ C = B \cup {k + 1}
  <2>1. \A i \in 1..(k + 1) : i \in T <=> Takes(E[i])
    BY Zenon DEF TakenOf
  <2>2. \A i \in 1..k : i \in S <=> Takes(E[i])
    BY Zenon DEF TakenOf
  <2>3. T \in SUBSET (1..(k + 1))
    BY DEF TakenOf
  <2>4. \A i \in 1..(k + 1) : i = k + 1 \/ i \in 1..k
    BY <1>3, Zenon
  <2> HIDE DEF S, T, e
  <2>5. k + 1 \in T <=> Takes(e)
    BY <1>3, <2>1, Zenon DEF e
  <2>6. \A i \in 1..k : i \in T <=> i \in S
    BY <1>3, <2>1, <2>2, Zenon
  <2> QED
    BY <1>3, <2>3, <2>4, <2>5, <2>6, Zenon
<1>5. /\ g[k + 1] = Translated(e) /\ n[k + 1] = k
      /\ \A i \in 1..k : f[i] = g[i] /\ m[i] = n[i]
  <2>1. n[k + 1] = k
    BY <1>3
  <2>2. g[k + 1] = Translated(e)
    BY <1>3, Zenon
  <2>3. \A i \in 1..k : f[i] = g[i] /\ m[i] = n[i]
    BY <1>3, Zenon
  <2> QED
    BY <2>1, <2>2, <2>3, Zenon
<1>6. Ranked(acc.spans, S, g) /\ Ranked(acc.rejections, B, n)
  <2>1. Ranked(acc.spans, S, f) /\ Ranked(acc.rejections, B, m)
    BY Zenon DEF Reads
  <2>2. \A i \in S : f[i] = g[i]
    BY <1>3, <1>5, Zenon
  <2>3. \A i \in B : m[i] = n[i]
    BY <1>3, <1>5, Zenon
  <2> HIDE DEF f, g, m, n, S, B
  <2> QED
    BY <2>1, <2>2, <2>3, RankedSame, Zenon
<1> HIDE DEF f, g, m, n, S, B, T, C, e, next
<1>7. Translated(e) \in V /\ k \in Nat
  BY Zenon DEF e
<1>8. Ranked(next.spans, T, g) /\ Ranked(next.rejections, C, n)
  <2>1. CASE Takes(e)
    <3>0. g[k + 1] \in V
      BY <1>5, <1>7
    <3>1. Ranked(Append(acc.spans, g[k + 1]), S \cup {k + 1}, g)
      BY <1>2, <1>3, <1>6, <1>7, <3>0, RankedAppend, Zenon
    <3> QED
      BY <1>1, <1>4, <1>5, <1>6, <2>1, <3>1, Zenon
  <2>2. CASE ~Takes(e)
    <3>1. Ranked(Append(acc.rejections, n[k + 1]), B \cup {k + 1}, n)
      BY <1>2, <1>3, <1>5, <1>6, <1>7, RankedAppend, Zenon
    <3> QED
      BY <1>1, <1>2, <1>4, <1>5, <1>6, <2>2, <3>1, Zenon
  <2> QED
    BY <2>1, <2>2, Zenon
<1> QED
  BY <1>1, <1>2, <1>8, Zenon DEF Reads, T, C, g, n, next

\* TranslateBlock reads the entries of one resource, wherever among E they are.
LEMMA ReadsBlock ==
  ASSUME NEW V, NEW acc \in Carried(V), NEW rs, Len(rs.spans) \in Nat, NEW E, NEW k \in Nat,
         \A j \in 1..Len(rs.spans) : E[k + j] = Entry(rs, j) /\ Translated(Entry(rs, j)) \in V
  PROVE  /\ TranslateBlock(acc, rs) \in Carried(V)
         /\ Reads(acc, E, k) => Reads(TranslateBlock(acc, rs), E, k + Len(rs.spans))
<1> DEFINE N == Len(rs.spans)
           X == Carried(V)
           F(x, j) == One(x, rs.spans[j], keyValues(rs.resource))
           Turn(h) == [j \in 0..N |-> IF j = 0 THEN acc ELSE F(h[j - 1], j)]
           after[j \in 0..N] == IF j = 0 THEN acc ELSE F(after[j - 1], j)
           step == [j \in 1..N |-> [x \in X |-> F(x, j)]]
<1>1. ASSUME NEW j \in 1..N, NEW x \in X PROVE F(x, j) \in X
  BY OneTurn
<1>2. TranslateBlock(acc, rs) = after[N]
  BY DEF TranslateBlock
<1>3. after = CHOOSE h : h = Turn(h)
  BY DEF after
<1>t. \A j \in 1..N : \A x \in X : Reads(x, E, k + (j - 1)) => Reads(F(x, j), E, k + j)
  <2> SUFFICES ASSUME NEW j \in 1..N, NEW x \in X, Reads(x, E, k + (j - 1)) PROVE Reads(F(x, j), E, k + j)
    BY Zenon
  <2> DEFINE i == k + (j - 1)
  <2>1. i \in Nat /\ i + 1 = k + j
    OBVIOUS
  <2>2. E[i + 1] = Entry(rs, j) /\ Translated(Entry(rs, j)) \in V
    BY <2>1
  <2> HIDE DEF i
  <2>3. Reads(x, E, i)
    BY DEF i
  <2>4. Reads(F(x, j), E, i + 1)
    BY <2>1, <2>2, <2>3, ReadsOne, Zenon
  <2> QED
    BY <2>1, <2>4, Zenon
<1>n. N \in Nat /\ acc \in X
  OBVIOUS
<1> HIDE DEF N, X, F, after
<1>4. \E h : h = Turn(h)
  <2>1. \A j \in 1..N : \A x \in X : step[j][x] = F(x, j)
    OBVIOUS
  <2>2. Keeps(step, N, X)
    BY <1>1, <2>1, Zenon DEF Keeps
  <2> HIDE DEF step
  <2>3. PICK u : IsRun(u, step, N, X, acc)
    BY <1>n, <2>2, LoopExists
  <2>4. u \in [0..N -> X] /\ u[0] = acc /\ \A j \in 1..N : u[j] = step[j][u[j - 1]]
    BY <2>3 DEF IsRun
  <2>5. ASSUME NEW j \in 0..N, j # 0 PROVE u[j] = F(u[j - 1], j)
    <3>1. j \in 1..N /\ j - 1 \in 0..N
      BY <1>n, <2>5
    <3>2. u[j - 1] \in X /\ u[j] = step[j][u[j - 1]]
      BY <2>4, <3>1, Zenon
    <3> QED
      BY <2>1, <3>1, <3>2, Zenon
  <2>6. \A j \in 0..N : u[j] = IF j = 0 THEN acc ELSE F(u[j - 1], j)
    BY <2>4, <2>5, Zenon
  <2>7. u = Turn(u)
    BY <2>4, <2>6
  <2> QED
    BY <2>7, Zenon
<1>5. after = Turn(after)
  BY <1>3, <1>4, Zenon
<1>6. after[0] = acc /\ \A j \in 1..N : after[j] = F(after[j - 1], j)
  <2>1. \A j \in 0..N : after[j] = IF j = 0 THEN acc ELSE F(after[j - 1], j)
    BY <1>5, Zenon
  <2>2. 0 \in 0..N /\ \A j \in 1..N : j \in 0..N /\ j # 0
    BY <1>n
  <2> QED
    BY <2>1, <2>2, Zenon
<1> DEFINE G == {j \in 0..N : after[j] \in X /\ (Reads(acc, E, k) => Reads(after[j], E, k + j))}
<1>7. 0 \in G
  <2>1. 0 \in 0..N /\ k + 0 = k
    BY <1>n
  <2> QED
    BY <1>6, <1>n, <2>1
<1>8. ASSUME NEW j \in 1..N, j - 1 \in G PROVE j \in G
  <2>1. j \in 0..N
    BY <1>n
  <2>2. after[j - 1] \in X /\ (Reads(acc, E, k) => Reads(after[j - 1], E, k + (j - 1)))
    BY <1>8, Zenon
  <2>3. after[j] = F(after[j - 1], j)
    BY <1>6, Zenon
  <2>4. after[j] \in X
    BY <1>1, <2>2, <2>3, Zenon
  <2>5. Reads(acc, E, k) => Reads(after[j], E, k + j)
    BY <1>t, <2>2, <2>3, Zenon
  <2> QED
    BY <2>1, <2>4, <2>5, Zenon
<1>9. N \in G
  <2> HIDE DEF G
  <2>1. 0..N \subseteq G
    BY <1>n, <1>7, <1>8, LoopInduction, Zenon
  <2> QED
    BY <1>n, <2>1
<1> QED
  BY <1>2, <1>9, Zenon DEF N, X

\* The spans of one resource and of a request, each with its resource.
Entries(rs) == [j \in DOMAIN rs.spans |-> Entry(rs, j)]
EntriesOf(body) == FlattenSeq([i \in DOMAIN body |-> Entries(body[i])])

\* Translate reads all the entries of a request.
LEMMA ReadsRequest ==
  ASSUME NEW body, IsList(body), \A rs \in Range(body) : IsBlock(rs)
  PROVE  LET E == EntriesOf(body)
         IN /\ Len(E) \in Nat /\ DOMAIN E = 1..Len(E)
            /\ \A i \in DOMAIN E : IsSpan(E[i].ps) /\ IsList(E[i].resource)
            /\ \E V : Translate(body) \in Carried(V)
            /\ Reads(Translate(body), E, Len(E))
<1> DEFINE N == Len(body)
           S == UNION {{Entry(rs, j) : j \in DOMAIN rs.spans} : rs \in Range(body)}
           V == {Translated(e) : e \in S}
           X == Carried(V)
           q == [i \in DOMAIN body |-> Entries(body[i])]
           E == EntriesOf(body)
           F(x, i) == TranslateBlock(x, body[i])
           Turn(h) == [i \in 0..N |-> IF i = 0 THEN Start ELSE F(h[i - 1], i)]
           after[i \in 0..N] == IF i = 0 THEN Start ELSE F(after[i - 1], i)
           step == [i \in 1..N |-> [x \in X |-> F(x, i)]]
<1>n. N \in Nat /\ DOMAIN body = 1..N /\ \A i \in 1..N : body[i] \in Range(body)
  BY SeqLen DEF IsList
<1>b. ASSUME NEW rs \in Range(body)
      PROVE  /\ Len(rs.spans) \in Nat /\ DOMAIN rs.spans = 1..Len(rs.spans) /\ IsList(rs.resource)
             /\ \A j \in 1..Len(rs.spans) : rs.spans[j] \in Range(rs.spans) /\ IsSpan(rs.spans[j])
  <2>1. IsBlock(rs)
    BY Zenon
  <2>2. rs.spans \in Seq(Range(rs.spans)) /\ IsList(rs.resource) /\ \A ps \in Range(rs.spans) : IsSpan(ps)
    BY <2>1, Zenon DEF IsBlock, IsList
  <2>3. /\ Len(rs.spans) \in Nat /\ DOMAIN rs.spans = 1..Len(rs.spans)
        /\ \A j \in 1..Len(rs.spans) : rs.spans[j] \in Range(rs.spans)
    BY <2>2, SeqLen, Zenon
  <2> QED
    BY <2>2, <2>3, Zenon
<1>s. \A e \in S : IsSpan(e.ps) /\ IsList(e.resource)
  <2> SUFFICES ASSUME NEW rs \in Range(body), NEW j \in DOMAIN rs.spans
               PROVE  IsSpan(Entry(rs, j).ps) /\ IsList(Entry(rs, j).resource)
    BY Zenon
  <2>1. Entry(rs, j).ps = rs.spans[j] /\ Entry(rs, j).resource = rs.resource
    BY DEF Entry
  <2>2. IsSpan(rs.spans[j]) /\ IsList(rs.resource)
    BY <1>b, Zenon
  <2> QED
    BY <2>1, <2>2, Zenon
<1>e. \A rs \in Range(body) : \A j \in 1..Len(rs.spans) : Entry(rs, j) \in S
  <2> SUFFICES ASSUME NEW rs \in Range(body), NEW j \in 1..Len(rs.spans) PROVE Entry(rs, j) \in S
    BY Zenon
  <2>1. j \in DOMAIN rs.spans
    BY <1>b, Zenon
  <2> QED
    BY <2>1
<1>v. \A e \in S : Translated(e) \in V
  BY Zenon
<1> HIDE DEF S, V
<1>q. q \in Seq(Seq(S)) /\ Len(q) = N /\ \A i \in 1..N : q[i] = Entries(body[i])
  <2>1. ASSUME NEW i \in 1..N PROVE Entries(body[i]) \in Seq(S)
    <3> DEFINE rs == body[i]
    <3>1. rs \in Range(body)
      BY <1>n, Zenon
    <3> HIDE DEF rs
    <3>2. /\ Len(rs.spans) \in Nat /\ DOMAIN rs.spans = 1..Len(rs.spans)
          /\ \A j \in 1..Len(rs.spans) : Entry(rs, j) \in S
      BY <1>b, <1>e, <3>1, Zenon
    <3>3. Entries(rs) = [j \in 1..Len(rs.spans) |-> Entry(rs, j)]
      BY <3>2, Zenon DEF Entries
    <3>4. Entries(rs) \in Seq(S)
      BY <3>2, <3>3
    <3> QED
      BY <3>4 DEF rs
  <2>2. q = [i \in 1..N |-> Entries(body[i])]
    BY <1>n
  <2> HIDE DEF q, N
  <2> QED
    BY <1>n, <2>1, <2>2
<1>w. PICK w \in [0..N -> Seq(S)] : w[0] = << >> /\ (\A i \in 1..N : w[i] = w[i - 1] \o q[i]) /\ E = w[N]
  <2>1. E = FlattenSeq(q)
    BY DEF EntriesOf
  <2> HIDE DEF q, E, N
  <2>2. PICK w \in [0..Len(q) -> Seq(S)] :
           /\ w[0] = << >> /\ (\A i \in 1..Len(q) : w[i] = w[i - 1] \o q[i])
           /\ FlattenSeq(q) = w[Len(q)]
    BY <1>q, FlattenIsLoop, Zenon
  <2> QED
    BY <1>q, <2>1, <2>2, Zenon
<1>1. ASSUME NEW i \in 1..N, NEW x \in X
      PROVE  /\ F(x, i) \in X
             /\ Reads(x, w[i - 1], Len(w[i - 1])) => Reads(F(x, i), w[i], Len(w[i]))
  <2> DEFINE rs == body[i]
             n == Len(rs.spans)
             k == Len(w[i - 1])
  <2>1. i - 1 \in 0..N /\ rs \in Range(body) /\ w[i] = w[i - 1] \o q[i] /\ q[i] = Entries(rs) /\ i \in 0..N
    BY <1>n, <1>q, <1>w
  <2>2. w[i - 1] \in Seq(S) /\ k \in Nat
    BY <1>w, <2>1, SeqLen
  <2>3. /\ n \in Nat /\ DOMAIN rs.spans = 1..n
        /\ \A j \in 1..n : Entry(rs, j) \in S /\ Translated(Entry(rs, j)) \in V
    BY <1>b, <1>e, <1>v, <2>1, Zenon
  <2>4. q[i] \in Seq(S) /\ Len(q[i]) = n /\ \A j \in 1..n : q[i][j] = Entry(rs, j)
    <3>1. q[i] = [j \in 1..n |-> Entry(rs, j)]
      BY <2>1, <2>3, Zenon DEF Entries
    <3> HIDE DEF q, rs, n
    <3> QED
      BY <2>3, <3>1
  <2> HIDE DEF rs, n, k, q, N, X
  <2>5. /\ Len(w[i]) = k + n
        /\ \A m \in 1..(k + n) : w[i][m] = IF m <= k THEN w[i - 1][m] ELSE q[i][m - k]
    BY <2>1, <2>2, <2>4, SeqConcat DEF k
  <2>6. \A m \in 1..k : w[i - 1][m] = w[i][m]
    BY <2>2, <2>3, <2>5
  <2>7. \A j \in 1..n : w[i][k + j] = Entry(rs, j) /\ Translated(Entry(rs, j)) \in V
    <3>1. ASSUME NEW j \in 1..n PROVE k + j \in 1..(k + n) /\ ~(k + j <= k) /\ (k + j) - k = j
      BY <2>2, <2>3
    <3>2. ASSUME NEW j \in 1..n PROVE w[i][k + j] = q[i][j]
      BY <2>5, <3>1
    <3> QED
      BY <2>3, <2>4, <3>2, Zenon
  <2>8. /\ TranslateBlock(x, rs) \in Carried(V)
        /\ Reads(x, w[i], k) => Reads(TranslateBlock(x, rs), w[i], k + n)
    BY <2>2, <2>3, <2>7, ReadsBlock, Zenon DEF n, X
  <2>9. Reads(x, w[i - 1], k) => Reads(x, w[i], k)
    BY <2>2, <2>6, ReadsSame
  <2> QED
    BY <2>5, <2>8, <2>9 DEF k, rs, X
<1>2. Translate(body) = after[N]
  BY DEF Translate, Start
<1>3. after = CHOOSE h : h = Turn(h)
  BY DEF after
<1>x. Start \in X /\ Reads(Start, w[0], Len(w[0]))
  <2>1. << >> \in Seq(V) /\ << >> \in Seq(Nat) /\ Len(<< >>) = 0 /\ 1..0 = {}
    OBVIOUS
  <2>2. TakenOf(<< >>, 0) = {}
    BY <2>1 DEF TakenOf
  <2>3. Reads(Start, << >>, 0)
    BY <2>1, <2>2, RankedEmpty, Zenon DEF Reads, Start
  <2>4. Start \in X
    BY <2>1 DEF Start, Carried
  <2> QED
    BY <1>w, <2>1, <2>3, <2>4, Zenon
<1> HIDE DEF N, X, F, after, q, E
<1>4. \E h : h = Turn(h)
  <2>1. \A i \in 1..N : \A x \in X : step[i][x] = F(x, i)
    OBVIOUS
  <2>2. Keeps(step, N, X)
    BY <1>1, <2>1, Zenon DEF Keeps
  <2> HIDE DEF step
  <2>3. PICK u : IsRun(u, step, N, X, Start)
    BY <1>n, <1>x, <2>2, LoopExists
  <2>4. u \in [0..N -> X] /\ u[0] = Start /\ \A i \in 1..N : u[i] = step[i][u[i - 1]]
    BY <2>3 DEF IsRun
  <2>5. ASSUME NEW i \in 0..N, i # 0 PROVE u[i] = F(u[i - 1], i)
    <3>1. i \in 1..N /\ i - 1 \in 0..N
      BY <1>n, <2>5
    <3>2. u[i - 1] \in X /\ u[i] = step[i][u[i - 1]]
      BY <2>4, <3>1, Zenon
    <3> QED
      BY <2>1, <3>1, <3>2, Zenon
  <2>6. \A i \in 0..N : u[i] = IF i = 0 THEN Start ELSE F(u[i - 1], i)
    BY <2>4, <2>5, Zenon
  <2>7. u = Turn(u)
    BY <2>4, <2>6, Zenon
  <2> QED
    BY <2>7, Zenon
<1>5. after = Turn(after)
  BY <1>3, <1>4, Zenon
<1>6. after[0] = Start /\ \A i \in 1..N : after[i] = F(after[i - 1], i)
  <2>1. \A i \in 0..N : after[i] = IF i = 0 THEN Start ELSE F(after[i - 1], i)
    BY <1>5, Zenon
  <2>2. 0 \in 0..N /\ \A i \in 1..N : i \in 0..N /\ i # 0
    BY <1>n
  <2> QED
    BY <2>1, <2>2, Zenon
<1> DEFINE G == {i \in 0..N : after[i] \in X /\ Reads(after[i], w[i], Len(w[i]))}
<1>7. 0 \in G
  <2>1. 0 \in 0..N
    BY <1>n
  <2> QED
    BY <1>6, <1>x, <2>1
<1>8. ASSUME NEW i \in 1..N, i - 1 \in G PROVE i \in G
  <2>1. i \in 0..N
    BY <1>n
  <2>2. after[i - 1] \in X /\ Reads(after[i - 1], w[i - 1], Len(w[i - 1]))
    BY <1>8, Zenon
  <2>3. after[i] = F(after[i - 1], i)
    BY <1>6, Zenon
  <2>4. after[i] \in X /\ Reads(after[i], w[i], Len(w[i]))
    BY <1>1, <2>2, <2>3, Zenon
  <2> QED
    BY <2>1, <2>4, Zenon
<1>9. after[N] \in X /\ Reads(after[N], w[N], Len(w[N]))
  <2>1. 0..N \subseteq G
    <3> HIDE DEF G
    <3> QED
      BY <1>n, <1>7, <1>8, LoopInduction, Zenon
  <2>2. N \in 0..N
    BY <1>n
  <2> QED
    BY <2>1, <2>2, Zenon
<1>10. Len(E) \in Nat /\ DOMAIN E = 1..Len(E) /\ \A i \in DOMAIN E : E[i] \in S
  <2>1. E \in Seq(S)
    BY <1>n, <1>w
  <2> QED
    BY <2>1, SeqLen, Zenon
<1>11. \A i \in DOMAIN E : IsSpan(E[i].ps) /\ IsList(E[i].resource)
  BY <1>s, <1>10, Zenon
<1>12. Translate(body) \in Carried(V) /\ Reads(Translate(body), E, Len(E))
  BY <1>2, <1>9, <1>w, Zenon DEF X
<1> QED
  BY <1>10, <1>11, <1>12, Zenon DEF E

(***************************************************************************)
(* What Translate takes is what is acceptable.                             *)
(***************************************************************************)

\* An identifier of the right length is either all zeros or has a digit that
\* is not.
LEMMA ZeroId ==
  ASSUME NEW id \in Seq(Nat), Len(id) = IdLen
  PROVE  id # Zero <=> \E i \in DOMAIN id : id[i] # 0
<1>1. DOMAIN id = 1..IdLen /\ Zero = [i \in 1..IdLen |-> 0] /\ DOMAIN Zero = 1..IdLen
  BY SeqLen DEF Zero
<1>2. ASSUME \A i \in DOMAIN id : id[i] = 0 PROVE id = Zero
  <2>1. id = [i \in DOMAIN id |-> id[i]]
    BY SeqLen
  <2>2. [i \in DOMAIN id |-> id[i]] = [i \in 1..IdLen |-> 0]
    BY <1>1, <1>2, Zenon
  <2> QED
    BY <1>1, <2>1, <2>2, Zenon
<1>3. ASSUME id = Zero, NEW i \in DOMAIN id PROVE id[i] = 0
  BY <1>1, <1>3
<1> QED
  BY <1>2, <1>3, Zenon

\* A service always has a name.
LEMMA ServiceNamed ==
  ASSUME NEW resource, IsList(resource)
  PROVE  serviceName(keyValues(resource)) # << >>
<1> DEFINE kvs == keyValues(resource)
           named == {i \in DOMAIN kvs : NamesService(kvs[i])}
<1>1. DOMAIN kvs = 1..Len(resource) /\ Len(resource) \in Nat
  BY SeqLen DEF keyValues, IsList
<1>2. CASE named = {}
  BY <1>2, IngestAssumption, Zenon DEF serviceName
<1>3. CASE named # {}
  <2>1. named \in SUBSET Nat
    BY <1>1
  <2>2. serviceName(kvs) = kvs[Min(named)].value.v
    BY <1>3, Zenon DEF serviceName
  <2>3. \A i \in named : kvs[i].value.v # << >>
    BY Zenon DEF NamesService
  <2> HIDE DEF named
  <2>4. \E i \in named : \A j \in named : i <= j
    BY <1>3, <2>1, LeastExists, Zenon
  <2>5. Min(named) \in named
    BY <2>4, Zenon DEF Min
  <2> QED
    BY <2>2, <2>3, <2>5, Zenon
<1> QED
  BY <1>2, <1>3, Zenon

\* Translate takes exactly the spans the protocol and the span model allow.
LEMMA TakesAcceptable ==
  ASSUME NEW e, IsSpan(e.ps), IsList(e.resource)
  PROVE  Takes(e) <=> Acceptable(e.ps)
<1> DEFINE ps == e.ps
           span == Translated(e)
           Digit(id) == \E i \in DOMAIN id : id[i] # 0
           ID == {id \in {ps.trace, ps.span, ps.parent} : Len(id) = IdLen /\ Digit(id)}
<1>1. /\ span.trace = ps.trace /\ span.span = ps.span /\ span.name = ps.name
      /\ span.parent = IF ps.parent = << >> THEN Zero ELSE ps.parent
      /\ span.service = serviceName(keyValues(e.resource))
      /\ span.start = unixNano(ps.start) /\ span.end = unixNano(ps.end)
  BY Zenon DEF Translated, translateSpan
<1>2. /\ ps.trace \in Seq(Nat) /\ ps.span \in Seq(Nat) /\ ps.parent \in Seq(Nat)
      /\ ps.start \in Nat /\ ps.end \in Nat
  BY DEF IsSpan
<1>3. span.service # << >>
  BY <1>1, ServiceNamed, Zenon
<1>4. /\ Takes(e) <=> GoodIDs(ps) /\ Validate(span)
      /\ Acceptable(ps) <=> /\ ps.trace \in ID /\ ps.span \in ID
                            /\ ps.parent \in {<< >>, Zero} \cup (ID \ {ps.span})
                            /\ ps.name # << >>
                            /\ ps.start > 0 /\ ps.end > 0 /\ Int64(ps.end) >= Int64(ps.start)
  BY Zenon DEF Takes, Acceptable
<1>5. \A id \in Seq(Nat) : Len(id) = IdLen => (id # Zero <=> Digit(id))
  BY ZeroId, Zenon
<1>6. \A id : id \in ID <=> id \in {ps.trace, ps.span, ps.parent} /\ Len(id) = IdLen /\ Digit(id)
  BY Zenon
<1>7. (span.start # << >> /\ span.end # << >> /\ span.end[1] >= span.start[1])
        <=> (ps.start > 0 /\ ps.end > 0 /\ Int64(ps.end) >= Int64(ps.start))
  <2>1. \A n \in Nat : unixNano(n) # << >> <=> n > 0
    BY DEF unixNano
  <2>2. \A n \in Nat : n > 0 => unixNano(n)[1] = Int64(n)
    BY DEF unixNano
  <2> HIDE DEF ps, span
  <2> QED
    BY <1>1, <1>2, <2>1, <2>2
<1>8. Len(ps.parent) = 0 <=> ps.parent = << >>
  <2> HIDE DEF ps
  <2> QED
    BY <1>2
<1>9. ps.trace # Zero /\ Len(ps.trace) = IdLen <=> ps.trace \in ID
  BY <1>2, <1>5, <1>6, Zenon
<1>10. ps.span # Zero /\ Len(ps.span) = IdLen <=> ps.span \in ID
  BY <1>2, <1>5, <1>6, Zenon
<1>11. ps.parent # Zero /\ Len(ps.parent) = IdLen <=> ps.parent \in ID
  BY <1>2, <1>5, <1>6, Zenon
<1>12. ASSUME ps.span # Zero, Len(ps.span) = IdLen
       PROVE  (Len(ps.parent) \in {0, IdLen} /\ span.parent # ps.span)
                <=> ps.parent \in {<< >>, Zero} \cup (ID \ {ps.span})
  <2>z. Len(Zero) = IdLen
    <3>1. IdLen \in Nat
      BY <1>2, <1>12, SeqLen
    <3> QED
      BY <3>1 DEF Zero
  <2> HIDE DEF ps, span, ID
  <2>1. CASE ps.parent = << >>
    BY <1>1, <1>8, <1>12, <2>1, Zenon
  <2>2. CASE ps.parent # << >> /\ ps.parent = Zero
    BY <1>1, <1>12, <2>z, <2>2, Zenon
  <2>3. CASE ps.parent # << >> /\ ps.parent # Zero
    <3>1. Len(ps.parent) \in {0, IdLen} <=> ps.parent \in ID
      BY <1>8, <1>11, <2>3, Zenon
    <3> QED
      BY <1>1, <2>3, <3>1, Zenon
  <2> QED
    BY <2>1, <2>2, <2>3, Zenon
<1> HIDE DEF ps, span, ID
<1>13. GoodIDs(ps) /\ Validate(span) <=>
         /\ ps.trace # Zero /\ Len(ps.trace) = IdLen /\ ps.span # Zero /\ Len(ps.span) = IdLen
         /\ Len(ps.parent) \in {0, IdLen} /\ span.parent # ps.span
         /\ ps.name # << >>
         /\ span.start # << >> /\ span.end # << >> /\ span.end[1] >= span.start[1]
  <2>1. GoodIDs(ps) <=> Len(ps.trace) = IdLen /\ Len(ps.span) = IdLen /\ Len(ps.parent) \in {0, IdLen}
    BY Zenon DEF GoodIDs
  <2>2. Validate(span) <=> /\ span.trace # Zero /\ span.span # Zero /\ span.name # << >> /\ span.service # << >>
                           /\ span.parent # span.span /\ span.start # << >> /\ span.end # << >>
                           /\ span.end[1] >= span.start[1]
    BY Zenon DEF Validate
  <2> QED
    BY <1>1, <1>3, <2>1, <2>2, Zenon
<1>14. Takes(e) <=> Acceptable(ps)
  BY <1>4, <1>7, <1>9, <1>10, <1>12, <1>13, Zenon
<1> QED
  BY <1>14 DEF ps

(***************************************************************************)
(* What a client is told.                                                  *)
(***************************************************************************)

\* A request that is not refused has been read whole.
LEMMA ReadWhole ==
  ASSUME NEW r, IsRequest(r), Refusal(r) = 200
  PROVE  Message(r) = r.body
<1>1. CASE r.via = "grpc"
  BY <1>1, Zenon DEF Message
<1>2. CASE r.via = "http"
  <2>1. r.post /\ r.media \in {"protobuf", "json"}
    <3>1. r.post \in BOOLEAN
      BY DEF IsRequest
    <3>2. CASE ~r.post
      <4>1. Refusal(r) = 405
        BY <1>2, <3>2, Zenon DEF Refusal
      <4> QED
        BY <4>1
    <3>3. CASE r.post /\ r.media \notin {"protobuf", "json"}
      <4>1. Refusal(r) = 415
        BY <1>2, <3>3, Zenon DEF Refusal
      <4> QED
        BY <4>1
    <3> QED
      BY <3>1, <3>2, <3>3, Zenon
  <2>2. Refusal(r) = IF UnreadableBody(r) THEN 400
                     ELSE IF TooLargeBody(r) THEN 413
                     ELSE IF ~r.decodes THEN 400 ELSE 200
    BY <1>2, <2>1, Zenon DEF Refusal
  <2>3. ~UnreadableBody(r) /\ ~TooLargeBody(r)
    BY <2>2
  <2>4. ~(Len(readBody(r)) > MaxBody)
    BY <2>3, Zenon DEF TooLargeBody
  <2> DEFINE b == r.body
             n == IF Len(b) < ReadLimit THEN Len(b) ELSE ReadLimit
  <2>5. b \in Seq(Range(b)) /\ Len(b) \in Nat /\ MaxBody \in Nat
    BY IngestAssumption, SeqLen DEF IsRequest, IsList
  <2>6. readBody(r) = SubSeq(b, 1, n)
    BY Zenon DEF readBody
  <2> HIDE DEF b
  <2>7. n \in 0..Len(b)
    BY <2>5 DEF ReadLimit
  <2>8. Len(SubSeq(b, 1, n)) = n
    <3> HIDE DEF n
    <3> QED
      BY <2>5, <2>7
  <2>9. n = Len(b)
    BY <2>4, <2>5, <2>6, <2>8 DEF ReadLimit
  <2> HIDE DEF n
  <2>10. SubSeq(b, 1, Len(b)) = b
    BY <2>5
  <2> QED
    BY <1>2, <2>6, <2>9, <2>10, Zenon DEF Message, b
<1> QED
  BY <1>1, <1>2, Zenon DEF IsRequest

\* What Translate gets out of a client's request.
Got(c) == Translate(request[c].body)

\* The inductive invariant: only whole batches are passed on, and a client told
\* of success had its batch passed on last, with the rejections reported.
ToldInv ==
  /\ request \in Requests
  /\ answer = [c \in Client |-> answer[c]]
  /\ passed = [c \in Client |-> passed[c]]
  /\ \A c \in Client :
       /\ passed[c] \in Seq({Got(c).spans})
       /\ passed[c] # << >> => Got(c).spans # << >>
       /\ answer[c].status = 200 =>
            Taken(c) = Got(c).spans /\ answer[c].report = summarise(Got(c).rejections)

\* Nobody has been told anything at first.
LEMMA ToldInit == Init => ToldInv
<1> SUFFICES ASSUME Init PROVE ToldInv
  OBVIOUS
<1>1. /\ request \in Requests /\ answer = [c \in Client |-> Answer(0, << >>)]
      /\ passed = [c \in Client |-> << >>]
  BY DEF Init
<1>2. Answer(0, << >>).status # 200
  BY DEF Answer
<1>3. \A c \in Client : answer[c].status # 200 /\ passed[c] = << >>
  BY <1>1, <1>2, Zenon
<1>4. \A c \in Client : passed[c] \in Seq({Got(c).spans})
  <2>1. \A S : << >> \in Seq(S)
    OBVIOUS
  <2> QED
    BY <1>3, <2>1, Zenon
<1>5. answer = [c \in Client |-> answer[c]] /\ passed = [c \in Client |-> passed[c]]
  BY <1>1
<1> QED
  BY <1>1, <1>3, <1>4, <1>5, Zenon DEF ToldInv

\* An answer to c, with what it passes on, preserves it.
LEMMA ToldReply ==
  ASSUME ToldInv, NEW c \in Client, NEW a, Reply(c, a),
         \/ a.status # 200 /\ passed' = passed
         \/ a = Answer(200, Got(c).rejections) /\ Got(c).spans = << >> /\ passed' = passed
         \/ /\ a = Answer(200, Got(c).rejections) /\ Got(c).spans # << >>
            /\ passed' = [passed EXCEPT ![c] = Append(@, Got(c).spans)]
  PROVE  ToldInv'
<1>1. /\ request' = request /\ answer' = [answer EXCEPT ![c] = a]
      /\ request \in Requests /\ answer = [d \in Client |-> answer[d]] /\ passed = [d \in Client |-> passed[d]]
  BY DEF Reply, ToldInv
<1>2. \A d : Got(d)' = Got(d)
  BY <1>1 DEF Got
<1>3. /\ answer' = [d \in Client |-> answer'[d]] /\ answer'[c] = a
      /\ \A d \in Client : d # c => answer'[d] = answer[d]
  BY <1>1, Zenon
<1>4. passed' = [d \in Client |-> passed'[d]] /\ \A d \in Client : d # c => passed'[d] = passed[d]
  BY <1>1
<1>5. ASSUME NEW d \in Client
      PROVE  /\ passed[d] \in Seq({Got(d).spans})
             /\ passed[d] # << >> => Got(d).spans # << >>
             /\ answer[d].status = 200 =>
                  Taken(d) = Got(d).spans /\ answer[d].report = summarise(Got(d).rejections)
  BY Zenon DEF ToldInv
<1>6. ASSUME NEW d \in Client, passed'[d] = passed[d] PROVE Taken(d)' = Taken(d)
  BY <1>6, Zenon DEF Taken
<1>7. Answer(200, Got(c).rejections).report = summarise(Got(c).rejections)
  BY DEF Answer
<1> DEFINE Fine(d) == /\ passed'[d] \in Seq({Got(d).spans})
                      /\ passed'[d] # << >> => Got(d).spans # << >>
                      /\ answer'[d].status = 200 =>
                           Taken(d)' = Got(d).spans /\ answer'[d].report = summarise(Got(d).rejections)
<1>8. ASSUME NEW d \in Client, d # c PROVE Fine(d)
  <2>1. answer'[d] = answer[d] /\ passed'[d] = passed[d]
    BY <1>3, <1>4, <1>8, Zenon
  <2>2. Taken(d)' = Taken(d)
    BY <1>6, <2>1, Zenon
  <2> QED
    BY <1>5, <2>1, <2>2
<1>9. Fine(c)
  <2>1. CASE a.status # 200 /\ passed' = passed
    BY <1>3, <1>5, <2>1, Zenon
  <2>2. CASE a = Answer(200, Got(c).rejections) /\ Got(c).spans = << >> /\ passed' = passed
    <3>1. passed[c] = << >>
      BY <1>5, <2>2, Zenon
    <3>2. Taken(c)' = << >>
      BY <2>2, <3>1, Zenon DEF Taken
    <3> QED
      BY <1>3, <1>5, <1>7, <2>2, <3>2, Zenon
  <2>3. CASE /\ a = Answer(200, Got(c).rejections) /\ Got(c).spans # << >>
             /\ passed' = [passed EXCEPT ![c] = Append(@, Got(c).spans)]
    <3> DEFINE p == passed[c]
               x == Got(c).spans
    <3>1. passed'[c] = Append(p, x)
      BY <1>1, <2>3
    <3>2. p \in Seq({x})
      BY <1>5, Zenon
    <3> HIDE DEF p, x
    <3>3. /\ Append(p, x) \in Seq({x}) /\ Len(Append(p, x)) = Len(p) + 1
          /\ Append(p, x)[Len(p) + 1] = x /\ Append(p, x) # << >>
      BY <3>2
    <3>4. Taken(c)' = x
      BY <3>1, <3>3, Zenon DEF Taken
    <3>5. passed'[c] \in Seq({x})
      BY <3>1, <3>3
    <3>6. answer'[c].report = summarise(Got(c).rejections)
      BY <1>3, <1>7, <2>3
    <3> QED
      BY <2>3, <3>4, <3>5, <3>6, Zenon DEF x
  <2> QED
    BY <2>1, <2>2, <2>3, Zenon
<1>10. \A d \in Client : Fine(d)
  BY <1>8, <1>9, Zenon
<1> QED
  BY <1>1, <1>2, <1>3, <1>4, <1>10, Zenon DEF ToldInv

\* Every step of a handler, a client or the sampler preserves it.
LEMMA ToldStep == ToldInv /\ [Next]_vars => ToldInv'
<1> SUFFICES ASSUME ToldInv, [Next]_vars PROVE ToldInv'
  OBVIOUS
<1>1. ASSUME UNCHANGED <<request, answer, passed>> PROVE ToldInv'
  <2>1. \A c : Got(c)' = Got(c) /\ Taken(c)' = Taken(c)
    BY <1>1, Zenon DEF Got, Taken
  <2>2. request' = request /\ answer' = answer /\ passed' = passed
    BY <1>1, Zenon
  <2> QED
    BY <2>1, <2>2, Zenon DEF ToldInv
<1>2. CASE UNCHANGED vars \/ Drain
  BY <1>1, <1>2, Zenon DEF vars, Drain
<1>3. ASSUME NEW c \in Client, Send(c) \/ Receive(c) \/ LoseAnswer(c) PROVE ToldInv'
  BY <1>1, <1>3, Zenon DEF Send, Receive, LoseAnswer
<1>4. ASSUME NEW c \in Client, ServeRefused(c) PROVE ToldInv'
  <2> DEFINE a == Answer(Refusal(request[c]), << >>)
  <2>1. Reply(c, a) /\ passed' = passed /\ Refusal(request[c]) # 200
    BY <1>4 DEF ServeRefused
  <2>2. a.status # 200
    BY <2>1 DEF Answer
  <2> HIDE DEF a
  <2> QED
    BY <2>1, <2>2, ToldReply, Zenon
<1>5. ASSUME NEW c \in Client, Refusal(request[c]) = 200, NEW got, got = Translate(Message(request[c])),
             \/ ExportNothing(c, got) \/ ExportTooLarge(c, got)
             \/ \E room \in 0..Len(got.spans) : ExportFull(c, got, room) \/ ExportAccepted(c, got, room)
      PROVE  ToldInv'
  <2>1. got = Got(c)
    <3>1. IsRequest(request[c])
      BY IngestAssumption, Zenon DEF ToldInv
    <3>2. Message(request[c]) = request[c].body
      BY <1>5, <3>1, ReadWhole
    <3> QED
      BY <1>5, <3>2, Zenon DEF Got
  <2>2. Answer(500, << >>).status # 200 /\ Answer(503, << >>).status # 200
    BY DEF Answer
  <2>3. CASE ExportNothing(c, got)
    BY <2>1, <2>3, ToldReply, Zenon DEF ExportNothing
  <2>4. CASE ExportTooLarge(c, got)
    BY <2>2, <2>4, ToldReply, Zenon DEF ExportTooLarge
  <2>5. ASSUME NEW room, ExportFull(c, got, room) PROVE ToldInv'
    BY <2>2, <2>5, ToldReply, Zenon DEF ExportFull
  <2>6. ASSUME NEW room, ExportAccepted(c, got, room) PROVE ToldInv'
    <3>1. /\ Len(got.spans) \in 1..MaxSpans /\ passed' = [passed EXCEPT ![c] = Append(@, got.spans)]
          /\ Reply(c, Answer(200, got.rejections))
      BY <2>6, Zenon DEF ExportAccepted
    <3>2. got.spans # << >>
      BY <3>1
    <3> QED
      BY <2>1, <3>1, <3>2, ToldReply, Zenon
  <2> QED
    BY <1>5, <2>3, <2>4, <2>5, <2>6, Zenon
<1>6. ASSUME NEW c \in Client, Export(c) PROVE ToldInv'
  BY <1>4, <1>5, <1>6, Zenon DEF Export
<1> QED
  BY <1>2, <1>3, <1>6, Zenon DEF Next

\* What Translate got out of a request, span by span.
LEMMA GotIsRead ==
  ASSUME ToldInv, NEW c \in Client
  PROVE  LET n == Len(Exported(c))
             E == Exported(c)
         IN /\ n \in Nat /\ DOMAIN E = 1..n /\ GoodAt(c) \in SUBSET (1..n) /\ BadAt(c) = 1..n \ GoodAt(c)
            /\ \E V : Got(c) \in Carried(V)
            /\ Ranked(Got(c).spans, GoodAt(c), [i \in 1..n |-> Translated(E[i])])
            /\ Ranked(Got(c).rejections, BadAt(c), [i \in 1..n |-> i - 1])
<1> DEFINE body == request[c].body
           E == EntriesOf(body)
           n == Len(E)
<1>1. IsList(body) /\ \A rs \in Range(body) : IsBlock(rs)
  BY IngestAssumption, Zenon DEF ToldInv, IsRequest
<1>2. Exported(c) = E
  BY DEF Exported, EntriesOf, Entries, Entry
<1> HIDE DEF E
<1>3. /\ n \in Nat /\ DOMAIN E = 1..n
      /\ \A i \in DOMAIN E : IsSpan(E[i].ps) /\ IsList(E[i].resource)
      /\ \E V : Translate(body) \in Carried(V)
      /\ Reads(Translate(body), E, n)
  BY <1>1, ReadsRequest, Zenon DEF E
<1>4. Got(c) = Translate(body)
  BY Zenon DEF Got
<1> HIDE DEF body, n
<1>5. \A i \in 1..n : Takes(E[i]) <=> Acceptable(E[i].ps)
  BY <1>3, TakesAcceptable, Zenon
<1>6. GoodAt(c) = TakenOf(E, n)
  BY <1>2, <1>3, <1>5, Zenon DEF GoodAt, TakenOf
<1>7. GoodAt(c) \in SUBSET (1..n)
  BY <1>6, Zenon DEF TakenOf
<1>8. BadAt(c) = 1..n \ GoodAt(c)
  BY <1>2, <1>3, Zenon DEF BadAt
<1> QED
  BY <1>2, <1>3, <1>4, <1>6, <1>7, <1>8, Zenon DEF Reads, n

\* A client told of success can forget its batch, for any clients, requests and
\* limits: every acceptable span reached the sink, in order, with its resource.
THEOREM SuccessMeansPassedOnAlways == Spec => []SuccessMeansPassedOn
<1>1. ASSUME ToldInv, NEW c \in Client, answer[c].status = 200
      PROVE  /\ Len(Taken(c)) = Cardinality(GoodAt(c))
             /\ \A i \in GoodAt(c) :
                  LET span == Taken(c)[Rank(GoodAt(c), i)]
                  IN span.span = Exported(c)[i].ps.span /\ span.resource = keyValues(Exported(c)[i].resource)
  <2> DEFINE E == Exported(c)
             n == Len(E)
             f == [i \in 1..n |-> Translated(E[i])]
  <2>1. Taken(c) = Got(c).spans
    BY <1>1, Zenon DEF ToldInv
  <2>2. GoodAt(c) \in SUBSET (1..n) /\ Ranked(Taken(c), GoodAt(c), f)
    BY <1>1, <2>1, GotIsRead, Zenon
  <2>3. \A i \in GoodAt(c) : f[i] = Translated(E[i])
    BY <2>2, Zenon
  <2>4. \A e : Translated(e).span = e.ps.span /\ Translated(e).resource = keyValues(e.resource)
    BY DEF Translated, translateSpan
  <2> HIDE DEF f
  <2>5. Len(Taken(c)) = Cardinality(GoodAt(c)) /\ \A i \in GoodAt(c) : Taken(c)[Rank(GoodAt(c), i)] = f[i]
    BY <2>2, Zenon DEF Ranked
  <2> QED
    BY <2>3, <2>4, <2>5, Zenon
<1>2. ToldInv => SuccessMeansPassedOn
  BY <1>1, Zenon DEF SuccessMeansPassedOn
<1> QED
  BY <1>2, ToldInit, ToldStep, PTL DEF Spec

\* The partial success counts exactly the spans that were left out and names the
\* first of them by their place in the request, for any requests and limits.
THEOREM ReportNamesRejectedAlways == Spec => []ReportNamesRejected
<1>1. ASSUME ToldInv, NEW c \in Client, answer[c].status = 200
      PROVE  LET report == answer[c].report
             IN /\ report.count = Cardinality(BadAt(c))
                /\ Len(report.named) = Min({report.count, MaxReported})
                /\ \A i \in BadAt(c) : Rank(BadAt(c), i) <= MaxReported => report.named[Rank(BadAt(c), i)] = i - 1
  <2> DEFINE E == Exported(c)
             n == Len(E)
             f == [i \in 1..n |-> i - 1]
             q == Got(c).rejections
             B == BadAt(c)
             k == IF Len(q) < MaxReported THEN Len(q) ELSE MaxReported
             report == answer[c].report
  <2>1. report = summarise(q)
    BY <1>1, Zenon DEF ToldInv
  <2>2. /\ n \in Nat /\ B \in SUBSET (1..n) /\ Ranked(q, B, f) /\ \E V : Got(c) \in Carried(V)
    BY <1>1, GotIsRead, Zenon
  <2>3. q \in Seq(Nat) /\ Len(q) \in Nat /\ MaxReported \in Nat
    <3>1. q \in Seq(Nat)
      BY <2>2 DEF Carried
    <3> QED
      BY <3>1, SeqLen, IngestAssumption
  <2>4. report.named = SubSeq(q, 1, k) /\ report.count = Len(q)
    <3>1. summarise(q) = [named |-> SubSeq(q, 1, k), count |-> Len(q)]
      BY Zenon DEF summarise
    <3>2. report = [named |-> SubSeq(q, 1, k), count |-> Len(q)]
      BY <2>1, <3>1, Zenon
    <3> DEFINE front == SubSeq(q, 1, k)
               many == Len(q)
    <3> HIDE DEF report, front, many
    <3>3. report = [named |-> front, count |-> many]
      BY <3>2 DEF front, many
    <3>4. report.named = front /\ report.count = many
      BY <3>3
    <3> QED
      BY <3>4 DEF front, many
  <2>5. k \in 0..Len(q) /\ k <= MaxReported /\ k = Min({Len(q), MaxReported})
    <3>1. k \in 0..Len(q) /\ k <= MaxReported /\ k \in {Len(q), MaxReported} /\ \A x \in {Len(q), MaxReported} : k <= x
      BY <2>3
    <3>2. \A x \in {Len(q), MaxReported} : x \in Int
      BY <2>3
    <3> HIDE DEF k
    <3>3. \A x \in {Len(q), MaxReported} : (\A y \in {Len(q), MaxReported} : x <= y) => x = k
      BY <3>1, <3>2
    <3> QED
      BY <3>1, <3>3, Zenon DEF Min
  <2>6. Len(q) = Cardinality(B) /\ \A i \in B : q[Rank(B, i)] = i - 1 /\ Rank(B, i) \in 1..Len(q)
    <3>1. Len(q) = Cardinality(B) /\ \A i \in B : q[Rank(B, i)] = f[i]
      BY <2>2, Zenon DEF Ranked
    <3>2. \A i \in B : Rank(B, i) \in 1..Cardinality(B)
      BY <2>2, RankBounds, Zenon
    <3>3. \A i \in B : f[i] = i - 1
      BY <2>2, Zenon
    <3> HIDE DEF B, q, f
    <3> QED
      BY <3>1, <3>2, <3>3, Zenon
  <2> HIDE DEF q, B, f, n, E
  <2>7. Len(SubSeq(q, 1, k)) = k /\ \A j \in 1..k : SubSeq(q, 1, k)[j] = q[j]
    <3>1. k \in Nat /\ k <= Len(q)
      BY <2>3, <2>5
    <3> HIDE DEF k
    <3> QED
      BY <2>3, <3>1, SeqFront
  <2>8. ASSUME NEW i \in B, Rank(B, i) <= MaxReported PROVE report.named[Rank(B, i)] = i - 1
    <3>1. Rank(B, i) \in 1..k
      BY <2>3, <2>6, <2>8
    <3> QED
      BY <2>4, <2>6, <2>7, <3>1, Zenon
  <2> HIDE DEF k
  <2> QED
    BY <2>4, <2>5, <2>6, <2>7, <2>8, Zenon DEF B
<1>2. ToldInv => ReportNamesRejected
  BY <1>1, Zenon DEF ReportNamesRejected
<1> QED
  BY <1>2, ToldInit, ToldStep, PTL DEF Spec
=============================================================================
