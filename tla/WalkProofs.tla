----------------------------- MODULE WalkProofs -----------------------------
(***************************************************************************)
(* What is read off the tree Build returns, for every slice of spans:      *)
(* Complete is what its name says, Walk visits every node once and after   *)
(* its parent, the sampling policies answer as the spans deserve, SelfTime *)
(* is the time a span spent in none of its children, and the critical path *)
(* covers a span once and spends its self time in the span itself.         *)
(***************************************************************************)
EXTENDS TreeProofs, Policy

(***************************************************************************)
(* Complete.                                                               *)
(***************************************************************************)

\* Nothing is above a parent that did not arrive, or above none.
LEMMA NothingAbove ==
  ASSUME input \in Inputs, NEW p \in Places \ Ids
  PROVE  Above(p) = {}
<1> DEFINE N == Cardinality(Ids)
<1>1. N \in Nat
  BY SpansAreTyped, FS_CardinalityType
<1>2. PICK u \in [0..N -> Places] : /\ u[0] = p /\ Steps(Upward, u, N)
                                    /\ Above(p) = {u[i] : i \in 1..N} \ {Nil}
  BY AboveIsWalked
<1>3. Upward[p] = Nil /\ Upward[Nil] = Nil
  BY UpwardIsTyped
<1> HIDE DEF N
<1>4. ASSUME NEW i \in 1..N PROVE u[i] = Nil
  <2>1. u[1] = Nil /\ 1 \in 0..N
    <3>1. 1 \in 1..N /\ 1 - 1 = 0
      BY <1>1
    <3>2. u[1] = Upward[u[1 - 1]]
      BY <1>2, <3>1 DEF Steps
    <3> QED
      BY <1>2, <1>3, <3>1, <3>2
  <2>2. Closed(Upward, {Nil})
    BY <1>3 DEF Closed
  <2> DEFINE none == {Nil}
  <2>3. u[1] \in none /\ Closed(Upward, none)
    BY <2>1, <2>2
  <2> HIDE DEF none
  <2>4. \A k \in 1..N : u[k] \in none
    BY <1>1, <1>2, <2>1, <2>3, StaysInside
  <2> QED
    BY <2>4 DEF none
<1> QED
  BY <1>2, <1>4

\* Where the only top is a span that names no parent, and there are no rounds,
\* every span has it above.
LEMMA AllBelowTheTop ==
  ASSUME TreeInv, pc = "done", NEW r \in Ids, Tops = {r}, Absent = {}, Named(r) = Nil,
         NEW n \in Ids \ {r}
  PROVE  r \in Above(n)
<1> SUFFICES ASSUME r \notin Above(n) PROVE FALSE
  OBVIOUS
<1> DEFINE N == Cardinality(Ids)
           R == Ids \ {r}
<1>1. input \in Inputs /\ NoRounds /\ TreeIsDetermined
  BY DEF TreeInv
<1>2. N \in Nat /\ IsFiniteSet(Ids)
  BY <1>1, SpansAreTyped, FS_CardinalityType
<1>3. n \in Places /\ Upward \in [Places -> Places] /\ \A m \in Ids : Upward[m] = Named(m)
  BY <1>1, UpwardIsTyped
<1>4. PICK u \in [0..N -> Places] : /\ u[0] = n /\ Steps(Upward, u, N)
                                    /\ Above(n) = {u[i] : i \in 1..N} \ {Nil}
  BY <1>1, <1>3, AboveIsWalked
<1>5. \A m \in R : Named(m) \in Ids
  <2>1. \A m \in R : Named(m) # Nil
    BY DEF Tops, Named
  <2> QED
    BY <2>1 DEF Absent, Named
<1>6. r # Nil
  BY <1>1, SpansAreTyped
<1> HIDE DEF N
<1>7. \A i \in 0..N : u[i] \in R
  <2> SUFFICES ASSUME NEW bad \in 0..N, u[bad] \notin R PROVE FALSE
    OBVIOUS
  <2> DEFINE T == {i \in 0..N : u[i] \notin R}
  <2>1. T \in SUBSET Nat /\ T # {}
    BY <1>2
  <2>2. PICK m \in T : \A k \in T : m <= k
    <3> HIDE DEF T
    <3> QED
      BY <2>1, LeastExists
  <2>3. m # 0
    BY <1>4, <2>2
  <2>4. m \in 1..N /\ m - 1 \in 0..N /\ ~(m <= m - 1)
    BY <1>2, <2>2, <2>3
  <2>5. u[m - 1] \in R
    BY <2>2, <2>4
  <2>6. u[m] = Upward[u[m - 1]]
    BY <1>4, <2>4 DEF Steps
  <2>7. u[m] \in Ids
    BY <1>3, <1>5, <2>5, <2>6
  <2>8. u[m] # r
    BY <1>4, <1>6, <2>4
  <2> QED
    BY <2>2, <2>7, <2>8
<1>8. PICK i, j \in 0..N : i < j /\ u[i] = u[j]
  <2> DEFINE D == 0..N
  <2>1. IsFiniteSet(D) /\ Cardinality(D) = N + 1
    BY <1>2, FS_Interval
  <2>2. IsFiniteSet(R) /\ Cardinality(R) <= N
    BY <1>2, FS_Subset DEF N
  <2> DEFINE w == [i \in D |-> u[i]]
  <2>3. w \in [D -> R]
    BY <1>7
  <2>4. Cardinality(R) \in Nat
    BY <2>2, FS_CardinalityType
  <2>5. Cardinality(R) < Cardinality(D)
    BY <1>2, <2>1, <2>2, <2>4
  <2> HIDE DEF D, R, w
  <2>6. PICK x, y \in D : x # y /\ w[x] = w[y]
    BY <2>1, <2>2, <2>3, <2>5, FS_PigeonHole
  <2>7. x \in 0..N /\ y \in 0..N /\ u[x] = u[y] /\ (x < y \/ y < x)
    BY <1>2, <2>6 DEF D, w
  <2> QED
    BY <2>7
<1> DEFINE L == Visited(u, 0, N)
<1>9. Closed(Upward, L)
  <2>1. 0 \in 0..N /\ 0 <= i + (N - j) + 1
    BY <1>2
  <2> QED
    BY <1>2, <1>4, <1>8, <2>1, WalkCloses
<1>10. L \subseteq R /\ L # {}
  <2>1. 0 \in 0..N
    BY <1>2
  <2> QED
    BY <1>7, <2>1 DEF Visited
<1> HIDE DEF L
<1>11. \A x \in L : parent[x] = Upward[x]
  <2>1. Ids \subseteq DOMAIN node /\ \A m \in DOMAIN node : parent[m] = IF m \in Tops THEN Nil ELSE LastOf(m).parent
    BY <1>1, Zenon DEF TreeIsDetermined
  <2> QED
    BY <1>3, <1>10, <2>1 DEF Named
<1>12. Round(L) /\ L \in SUBSET Ids
  BY <1>9, <1>10, <1>11 DEF Round, Closed
<1> QED
  BY <1>1, <1>12 DEF NoRounds

\* Where every span leads to the one that names no parent, that is the only
\* top, nothing named is absent and there is nothing to cut.
LEMMA OneTopAlone ==
  ASSUME input \in Inputs, NEW r \in Ids, Named(r) = Nil, \A n \in Ids \ {r} : r \in Above(n)
  PROVE  Absent = {} /\ Cuts = {} /\ Tops = {r}
<1>1. Nil \notin Ids /\ Nil \in Places /\ Ids \subseteq Places /\ Upward[r] = Nil
  BY UpwardIsTyped
<1>2. ASSUME NEW n \in Ids \ {r} PROVE Named(n) \in Ids
  <2>1. r = Named(n) \/ r \in Above(Named(n))
    BY AboveTheParent
  <2>2. Named(n) \in Places
    BY DEF Places
  <2> QED
    BY <2>1, <2>2, NothingAbove
<1>3. Absent = {}
  BY <1>2 DEF Absent, Named
<1>4. ASSUME NEW n \in Cuts PROVE FALSE
  <2> DEFINE O == OnLoopOf(n)
  <2>1. n \in Ids /\ n \in O /\ n \in Above(n)
    BY DEF Cuts, OnLoopOf
  <2>2. O \subseteq Ids /\ Closed(Upward, O)
    BY <2>1, OnLoopIsClosed
  <2> HIDE DEF O
  <2>3. r \notin O
    BY <1>1, <2>2 DEF Closed
  <2>4. Above(n) \subseteq O
    BY <2>1, <2>2, AboveIsClosed
  <2> QED
    BY <2>1, <2>3, <2>4
<1>5. {n \in Ids : LastOf(n).parent = Nil} = {r}
  BY <1>1, <1>2 DEF Named
<1> QED
  BY <1>3, <1>4, <1>5 DEF Tops

\* Whatever spans Build is called with, Tree.Complete says exactly that every
\* span leads, by the parents the spans name, to the one that names none.
THEOREM CompleteIsOneTreeAlways == Spec => []CompleteIsOneTree
<1>1. BuildInv /\ TreeInv => CompleteIsOneTree
  <2> SUFFICES ASSUME TreeInv, pc = "done"
               PROVE  Complete <=> \E r \in Ids : LastOf(r).parent = Nil /\ \A n \in Ids \ {r} : r \in Above(n)
    BY DEF CompleteIsOneTree
  <2>1. input \in Inputs /\ Listing(roots, Tops) /\ Listing(missing, Absent) /\ Listing(cycles, Cuts)
    BY DEF TreeInv
  <2>2. (missing = << >> <=> Absent = {}) /\ (cycles = << >> <=> Cuts = {})
    BY <2>1, ListingNone
  <2>3. IsFiniteSet(Tops) /\ Cardinality(Tops) = Len(roots)
    BY <2>1, ListingCounts
  <2>4. ASSUME Complete
        PROVE  \E r \in Ids : LastOf(r).parent = Nil /\ \A n \in Ids \ {r} : r \in Above(n)
    <3>1. Absent = {} /\ Cuts = {} /\ Cardinality(Tops) = 1
      BY <2>2, <2>3, <2>4 DEF Complete
    <3>2. PICK r : Tops = {r}
      BY <2>3, <3>1, FS_Singleton
    <3>3. r \in Ids /\ Named(r) = Nil
      BY <3>1, <3>2 DEF Tops, Named
    <3>4. \A n \in Ids \ {r} : r \in Above(n)
      BY <3>1, <3>2, <3>3, AllBelowTheTop
    <3> QED
      BY <3>3, <3>4 DEF Named
  <2>5. ASSUME NEW r \in Ids, LastOf(r).parent = Nil, \A n \in Ids \ {r} : r \in Above(n)
        PROVE  Complete
    <3>1. Absent = {} /\ Cuts = {} /\ Tops = {r}
      BY <2>1, <2>5, OneTopAlone DEF Named
    <3>2. Cardinality(Tops) = 1
      BY <3>1, FS_Singleton, Zenon
    <3> QED
      BY <2>2, <2>3, <3>1, <3>2 DEF Complete
  <2> QED
    BY <2>4, <2>5
<1> QED
  BY <1>1, TreeInvariant, PTL

(***************************************************************************)
(* What a loop over sequences appends.                                     *)
(***************************************************************************)

\* The turns of the loop, and that there are such turns.
LEMMA InTurnIsLoop ==
  ASSUME NEW N, NEW q \in Seq(Seq(N))
  PROVE  \E u \in [0..Len(q) -> Seq(N)] :
           u[0] = << >> /\ u[Len(q)] = InTurn(q) /\ \A i \in 1..Len(q) : u[i] = u[i - 1] \o q[i]
<1> DEFINE K == Len(q)
           S == Seq(N)
           step == [i \in 1..K |-> [s \in S |-> s \o q[i]]]
           Turn(h) == [i \in 0..K |-> IF i = 0 THEN << >> ELSE h[i - 1] \o q[i]]
           e == << >>
<1>1. K \in Nat /\ \A i \in 1..K : q[i] \in S
  BY SeqLen
<1>2. \A i \in 1..K : \A s \in S : s \o q[i] \in S
  BY <1>1, SeqConcat
<1>3. Keeps(step, K, S)
  <2> HIDE DEF S, K
  <2> QED
    BY <1>2 DEF Keeps
<1>4. e \in S
  OBVIOUS
<1>5. PICK u : IsRun(u, step, K, S, e)
  <2> HIDE DEF S, K, step, e
  <2> QED
    BY <1>1, <1>3, <1>4, LoopExists
<1>6. \A i \in 1..K : i - 1 \in 0..K /\ i \in 0..K /\ i # 0
  BY <1>1
<1>7. u \in [0..K -> S] /\ u[0] = e /\ \A i \in 1..K : u[i] = u[i - 1] \o q[i]
  <2> HIDE DEF S, K, e
  <2> QED
    BY <1>5, <1>6, Zenon DEF IsRun
<1>8. \A i \in 0..K : i = 0 \/ i \in 1..K
  BY <1>1
<1>9. u = Turn(u)
  <2> HIDE DEF S, K
  <2>1. \A i \in 0..K : u[i] = Turn(u)[i]
    BY <1>6, <1>7, <1>8, Zenon DEF e
  <2> QED
    BY <1>7, <2>1, Zenon
<1> DEFINE v == CHOOSE h : h = Turn(h)
<1>10. v = Turn(v)
  <2> HIDE DEF Turn
  <2> QED
    BY <1>9
<1>11. InTurn(q) = v[K]
  BY DEF InTurn
<1> HIDE DEF v, K, S
<1>12. v[0] = e /\ \A i \in 1..K : v[i] = v[i - 1] \o q[i]
  <2>1. 0 \in 0..K
    BY <1>1
  <2> QED
    BY <1>6, <1>10, <2>1, Zenon DEF e
<1>13. 0..K \subseteq {i \in 0..K : v[i] = u[i]}
  <2> DEFINE G == {i \in 0..K : v[i] = u[i]}
  <2>1. 0 \in G
    BY <1>1, <1>7, <1>12
  <2>2. \A i \in 1..K : i - 1 \in G => i \in G
    BY <1>6, <1>7, <1>12, Zenon
  <2> HIDE DEF G
  <2>3. 0..K \subseteq G
    BY <1>1, <2>1, <2>2, LoopInduction, Zenon
  <2> QED
    BY <2>3 DEF G
<1>14. v[K] = u[K]
  BY <1>1, <1>13
<1> QED
  BY <1>7, <1>11, <1>14, Zenon DEF K, S, e

\* No node twice, and none before its parent.
InFamilyOrder(s, par) == NoRepeat(s) /\ \A i, j \in DOMAIN s : par[s[j]] = s[i] => i < j

\* One after another, sequences in such order are in such order together if no
\* node of the first is, or is the child of, a node of the second.
LEMMA ConcatInOrder ==
  ASSUME NEW N, NEW par, NEW a \in Seq(N), NEW b \in Seq(N),
         InFamilyOrder(a, par), InFamilyOrder(b, par),
         \A x \in Range(a), y \in Range(b) : x # y /\ par[x] # y
  PROVE  InFamilyOrder(a \o b, par)
<1> DEFINE m == Len(a)
           n == Len(b)
           c == a \o b
<1>1. /\ c \in Seq(N) /\ m \in Nat /\ n \in Nat /\ DOMAIN a = 1..m /\ DOMAIN b = 1..n
      /\ Len(c) = m + n /\ \A i \in 1..(m + n) : c[i] = IF i <= m THEN a[i] ELSE b[i - m]
  BY SeqLen, SeqConcat
<1>2. DOMAIN c = 1..(m + n)
  BY <1>1, SeqLen
<1> HIDE DEF c, m, n
<1>3. \A i \in DOMAIN c : \/ i \in DOMAIN a /\ c[i] = a[i] /\ c[i] \in Range(a)
                          \/ i - m \in DOMAIN b /\ c[i] = b[i - m] /\ c[i] \in Range(b) /\ i > m
  <2> SUFFICES ASSUME NEW i \in 1..(m + n)
               PROVE \/ i \in 1..m /\ c[i] = a[i] /\ a[i] \in Range(a)
                     \/ i - m \in 1..n /\ c[i] = b[i - m] /\ b[i - m] \in Range(b) /\ i > m
    BY <1>1, <1>2
  <2>1. \/ i \in 1..m /\ c[i] = a[i]
        \/ i - m \in 1..n /\ c[i] = b[i - m] /\ i > m
    BY <1>1
  <2> QED
    BY <1>1, <2>1, Zenon DEF Range
<1>4. \A i \in DOMAIN c : i \in Int
  BY <1>1, <1>2
<1>5. ASSUME NEW i \in DOMAIN c, NEW j \in DOMAIN c, c[i] = c[j] PROVE i = j
  <2>1. CASE i \in DOMAIN a /\ j \in DOMAIN a
    BY <1>1, <1>3, <1>4, <1>5, <2>1 DEF InFamilyOrder, NoRepeat
  <2>2. CASE i > m /\ j > m
    <3>1. i - m \in DOMAIN b /\ j - m \in DOMAIN b /\ b[i - m] = b[j - m]
      BY <1>1, <1>3, <1>4, <1>5, <2>2
    <3>2. i - m = j - m
      BY <3>1 DEF InFamilyOrder, NoRepeat
    <3> QED
      BY <1>1, <1>4, <3>2
  <2> QED
    BY <1>3, <1>5, <2>1, <2>2
<1>6. ASSUME NEW i \in DOMAIN c, NEW j \in DOMAIN c, par[c[j]] = c[i] PROVE i < j
  <2>1. CASE i \in DOMAIN a /\ j \in DOMAIN a
    BY <1>1, <1>3, <1>4, <1>6, <2>1 DEF InFamilyOrder
  <2>2. CASE i > m /\ j > m
    <3>1. i - m \in DOMAIN b /\ j - m \in DOMAIN b /\ par[b[j - m]] = b[i - m]
      BY <1>1, <1>3, <1>4, <1>6, <2>2
    <3>2. i - m < j - m
      BY <3>1 DEF InFamilyOrder
    <3> QED
      BY <1>1, <1>4, <3>2
  <2>3. CASE i \in DOMAIN a /\ j > m
    BY <1>1, <1>4, <2>3
  <2> QED
    BY <1>3, <1>6, <2>1, <2>2, <2>3
<1> QED
  BY <1>5, <1>6 DEF InFamilyOrder, NoRepeat, c

Orderly(q, par) ==
  /\ \A i \in DOMAIN q : InFamilyOrder(q[i], par)
  /\ \A i, j \in DOMAIN q : i # j => \A x \in Range(q[i]), y \in Range(q[j]) : x # y /\ par[x] # y

\* So are any number of them, and they have the nodes of all.
LEMMA InTurnInOrder ==
  ASSUME NEW N, NEW par, NEW q \in Seq(Seq(N)), Orderly(q, par)
  PROVE  /\ InTurn(q) \in Seq(N) /\ InFamilyOrder(InTurn(q), par)
         /\ Range(InTurn(q)) = UNION {Range(q[i]) : i \in DOMAIN q}
<1> DEFINE K == Len(q)
<1>1. K \in Nat /\ DOMAIN q = 1..K /\ \A i \in 1..K : q[i] \in Seq(N)
  BY SeqLen
<1>2. PICK u \in [0..K -> Seq(N)] :
        u[0] = << >> /\ u[K] = InTurn(q) /\ \A i \in 1..K : u[i] = u[i - 1] \o q[i]
  BY InTurnIsLoop, Zenon
<1> HIDE DEF K
<1> DEFINE Made(i) == InFamilyOrder(u[i], par) /\ Range(u[i]) = UNION {Range(q[j]) : j \in 1..i}
           G == {i \in 0..K : Made(i)}
<1>3. 0 \in G
  <2>1. 1..0 = {} /\ 0 \in 0..K
    BY <1>1
  <2>2. InFamilyOrder(<< >>, par) /\ Range(<< >>) = {}
    BY DEF InFamilyOrder, NoRepeat, Range
  <2> QED
    BY <1>2, <2>1, <2>2
<1>4. ASSUME NEW i \in 1..K, i - 1 \in G PROVE i \in G
  <2>1. /\ i \in 0..K /\ i - 1 \in 0..K /\ 1..i = 1..(i - 1) \cup {i}
        /\ \A j \in 1..(i - 1) : j \in 1..K /\ j # i
    BY <1>1
  <2>2. /\ InFamilyOrder(u[i - 1], par) /\ Range(u[i - 1]) = UNION {Range(q[j]) : j \in 1..(i - 1)}
        /\ u[i - 1] \in Seq(N) /\ q[i] \in Seq(N) /\ u[i] = u[i - 1] \o q[i]
    BY <1>1, <1>2, <1>4, <2>1, Zenon
  <2>3. \A x \in Range(u[i - 1]), y \in Range(q[i]) : x # y /\ par[x] # y
    <3> SUFFICES ASSUME NEW x \in Range(u[i - 1]), NEW y \in Range(q[i]) PROVE x # y /\ par[x] # y
      OBVIOUS
    <3>1. PICK j \in 1..(i - 1) : x \in Range(q[j])
      BY <2>2
    <3> QED
      BY <1>1, <2>1, <3>1, Zenon DEF Orderly
  <2>4. InFamilyOrder(u[i], par)
    <3>1. InFamilyOrder(q[i], par)
      BY <1>1 DEF Orderly
    <3> DEFINE a == u[i - 1]
               b == q[i]
    <3>2. /\ a \in Seq(N) /\ b \in Seq(N) /\ InFamilyOrder(a, par) /\ InFamilyOrder(b, par)
          /\ \A x \in Range(a), y \in Range(b) : x # y /\ par[x] # y
      BY <2>2, <2>3, <3>1, Zenon
    <3> HIDE DEF a, b
    <3>3. InFamilyOrder(a \o b, par)
      BY <3>2, ConcatInOrder, Zenon
    <3> QED
      BY <2>2, <3>3 DEF a, b
  <2>5. Range(u[i]) = Range(u[i - 1]) \cup Range(q[i])
    BY <2>2, ConcatElements
  <2>6. Range(u[i]) = UNION {Range(q[j]) : j \in 1..i}
    BY <2>1, <2>2, <2>5
  <2> QED
    BY <2>1, <2>4, <2>6
<1>5. K \in G
  <2> HIDE DEF G
  <2>1. 0..K \subseteq G
    BY <1>1, <1>3, <1>4, LoopInduction, Zenon
  <2> QED
    BY <1>1, <2>1
<1> QED
  BY <1>1, <1>2, <1>5

\* The first of them comes first.
LEMMA InTurnBegins ==
  ASSUME NEW N, NEW q \in Seq(Seq(N)), q # << >>
  PROVE  Len(q[1]) <= Len(InTurn(q)) /\ \A k \in 1..Len(q[1]) : InTurn(q)[k] = q[1][k]
<1> DEFINE K == Len(q)
           o == Len(q[1])
<1>1. K \in Nat \ {0} /\ \A i \in 1..K : q[i] \in Seq(N)
  BY SeqLen, SeqEmpty
<1>2. PICK u \in [0..K -> Seq(N)] :
        u[0] = << >> /\ u[K] = InTurn(q) /\ \A i \in 1..K : u[i] = u[i - 1] \o q[i]
  BY InTurnIsLoop, Zenon
<1> HIDE DEF K
<1>3. 1 \in 1..K /\ q[1] \in Seq(N) /\ o \in Nat
  BY <1>1, SeqLen
<1> HIDE DEF o
<1> DEFINE Begins(s) == o <= Len(s) /\ \A k \in 1..o : s[k] = q[1][k]
           G == {i \in 0..K : i = 0 \/ Begins(u[i])}
<1>4. 0 \in G
  BY <1>1
<1>5. ASSUME NEW i \in 1..K, i - 1 \in G PROVE i \in G
  <2>1. i \in 0..K /\ i - 1 \in 0..K
    BY <1>1
  <2> DEFINE a == u[i - 1]
             b == q[i]
             m == Len(a)
             n == Len(b)
  <2>2. a \in Seq(N) /\ b \in Seq(N) /\ u[i] = a \o b
    BY <1>1, <1>2, <2>1, Zenon
  <2>3. /\ m \in Nat /\ n \in Nat /\ Len(a \o b) = m + n
        /\ \A k \in 1..(m + n) : (a \o b)[k] = IF k <= m THEN a[k] ELSE b[k - m]
    BY <2>2, SeqLen, SeqConcat, Zenon
  <2>4. CASE i = 1
    <3>1. u[i - 1] = << >>
      BY <1>2, <2>4
    <3>2. m = 0
      BY <3>1
    <3>3. n = o /\ b = q[1]
      BY <2>4 DEF o
    <3> HIDE DEF a, b, m, n
    <3>4. o <= m + n /\ \A k \in 1..o : (a \o b)[k] = b[k]
      BY <1>3, <2>3, <3>2, <3>3
    <3> QED
      BY <2>1, <2>2, <2>3, <3>3, <3>4, Zenon
  <2>5. CASE i # 1
    <3>1. o <= m /\ \A k \in 1..o : a[k] = q[1][k]
      BY <1>1, <1>5, <2>1, <2>5
    <3> HIDE DEF a, b, m, n
    <3>2. o <= m + n /\ \A k \in 1..o : (a \o b)[k] = a[k]
      BY <1>3, <2>3, <3>1
    <3> QED
      BY <2>1, <2>2, <2>3, <3>1, <3>2, Zenon
  <2> QED
    BY <2>4, <2>5
<1>6. K \in G
  <2> HIDE DEF G
  <2>1. 0..K \subseteq G
    BY <1>1, <1>4, <1>5, LoopInduction, Zenon
  <2> QED
    BY <1>1, <2>1
<1> QED
  BY <1>1, <1>2, <1>6 DEF o

(***************************************************************************)
(* A walk down a forest, each node before its children.                    *)
(***************************************************************************)

BelowWalks(cs, f) == [i \in DOMAIN cs |-> f[cs[i]]]
WalksFrom(q, rs, f, N) ==
  q \in Seq(Seq(N)) /\ DOMAIN q = DOMAIN rs /\ \A i \in DOMAIN rs : rs[i] \in N /\ q[i] = f[rs[i]]
IsWalkDown(f, N, ch) == f = [n \in N |-> <<n>> \o InTurn(BelowWalks(ch[n], f))]
WalksDown(f, N, ch) == f \in [N -> Seq(N)] /\ \A n \in N : f[n] = <<n>> \o InTurn(BelowWalks(ch[n], f))

\* The walks of the children, in a sequence.
LEMMA BelowWalksTyped ==
  ASSUME NEW N, NEW cs \in Seq(N), NEW f, \A c \in Range(cs) : f[c] \in Seq(N)
  PROVE  LET q == BelowWalks(cs, f)
         IN WalksFrom(q, cs, f, N) /\ Len(q) = Len(cs) /\ InTurn(q) \in Seq(N)
<1> DEFINE q == [i \in DOMAIN cs |-> f[cs[i]]]
           K == Len(cs)
           S == Seq(N)
<1>1. K \in Nat /\ DOMAIN cs = 1..K /\ \A i \in 1..K : cs[i] \in N
  BY SeqLen
<1>2. \A i \in DOMAIN cs : cs[i] \in N /\ q[i] = f[cs[i]]
  BY <1>1
<1>3. q \in [1..K -> S]
  <2> HIDE DEF K, S
  <2>1. \A i \in 1..K : f[cs[i]] \in S
    BY <1>1 DEF S, Range
  <2> QED
    BY <1>1, <2>1
<1>4. q \in Seq(S) /\ Len(q) = K /\ DOMAIN q = 1..K
  <2> HIDE DEF K, S
  <2> QED
    BY <1>1, <1>3
<1> HIDE DEF q
<1>5. PICK u \in [0..Len(q) -> S] : u[Len(q)] = InTurn(q)
  BY <1>4, InTurnIsLoop, Zenon
<1>6. InTurn(q) \in S
  <2> HIDE DEF K, S
  <2>1. Len(q) \in 0..Len(q)
    BY <1>1, <1>4
  <2> QED
    BY <1>5, <2>1
<1> QED
  BY <1>1, <1>2, <1>4, <1>6 DEF WalksFrom, BelowWalks, q

\* There is such a walk.
LEMMA WalkDownExists ==
  ASSUME NEW N, NEW ch, NEW par, Forest(N, ch, par)
  PROVE  \E f : IsWalkDown(f, N, ch)
<1> DEFINE X == Seq(N)
           F == [N -> X]
           Turn(f) == [n \in N |-> <<n>> \o InTurn(BelowWalks(ch[n], f))]
           T == [f \in F |-> Turn(f)]
           b == [n \in N |-> << >>]
<1>1. \A n \in N : ch[n] \in Seq(N)
  BY DEF Forest
<1>2. ASSUME NEW f \in F, NEW n \in N PROVE <<n>> \o InTurn(BelowWalks(ch[n], f)) \in X
  <2>1. ch[n] \in Seq(N)
    BY <1>1
  <2>2. InTurn(BelowWalks(ch[n], f)) \in Seq(N)
    <3>1. \A c \in Range(ch[n]) : f[c] \in Seq(N)
      <4>1. \A c \in Range(ch[n]) : c \in N
        BY <2>1, SeqLen DEF Range
      <4> QED
        BY <4>1
    <3> QED
      BY <2>1, <3>1, BelowWalksTyped
  <2>3. <<n>> \in Seq(N)
    OBVIOUS
  <2> QED
    BY <2>2, <2>3, SeqConcat
<1>3. ASSUME NEW f \in F, NEW g \in F, NEW n \in N, \A c \in Range(ch[n]) : f[c] = g[c]
      PROVE  Turn(f)[n] = Turn(g)[n]
  <2>1. \A i \in DOMAIN ch[n] : f[ch[n][i]] = g[ch[n][i]]
    BY <1>3 DEF Range
  <2>2. BelowWalks(ch[n], f) = BelowWalks(ch[n], g)
    BY <2>1, Zenon DEF BelowWalks
  <2> QED
    BY <2>2
<1>4. b \in F
  OBVIOUS
<1> HIDE DEF X, b
<1>5. \A f \in F : Turn(f) \in F
  BY <1>2
<1>6. \A f \in F : T[f] = Turn(f)
  OBVIOUS
<1> HIDE DEF T, Turn
<1>7. ByChildren(T, N, ch, X)
  BY <1>3, <1>4, <1>5, <1>6 DEF ByChildren
<1>8. PICK f : Described(f, T, N, X)
  BY <1>7, DescribedFromTheLeaves, Zenon
<1>9. f \in F /\ f = Turn(f)
  BY <1>6, <1>8 DEF Described
<1> QED
  BY <1>9 DEF Turn, IsWalkDown

\* And it is a walk of nodes.
LEMMA WalkDownTyped ==
  ASSUME NEW N, NEW ch, NEW par, Forest(N, ch, par), NEW f, IsWalkDown(f, N, ch)
  PROVE  WalksDown(f, N, ch)
<1> DEFINE G == {n \in N : f[n] \in Seq(N)}
<1>1. \A n \in N : f[n] = <<n>> \o InTurn(BelowWalks(ch[n], f))
  BY Zenon DEF IsWalkDown
<1>2. ASSUME NEW n \in N, Range(ch[n]) \subseteq G PROVE n \in G
  <2>1. ch[n] \in Seq(N) /\ \A c \in Range(ch[n]) : f[c] \in Seq(N)
    BY <1>2 DEF Forest
  <2>2. InTurn(BelowWalks(ch[n], f)) \in Seq(N)
    BY <2>1, BelowWalksTyped
  <2>3. <<n>> \in Seq(N)
    OBVIOUS
  <2>4. f[n] \in Seq(N)
    BY <1>1, <2>2, <2>3, SeqConcat, Zenon
  <2> QED
    BY <2>4
<1>3. N \subseteq G
  <2> HIDE DEF G
  <2> QED
    BY <1>2, FromTheLeaves
<1>4. f = [n \in N |-> f[n]]
  BY DEF IsWalkDown
<1> QED
  BY <1>1, <1>3, <1>4 DEF WalksDown

\* A node and some below it, with every node between.
Family(S, r, N, par) == r \in S /\ S \subseteq N /\ \A m \in S : m # r => par[m] \in S

\* The parent of the eldest is not in the family, and neither is its parent.
LEMMA EldestIsEldest ==
  ASSUME NEW N, NEW ch, NEW par, Forest(N, ch, par), NEW S, NEW r, Family(S, r, N, par)
  PROVE  par[r] \notin S /\ (par[r] \in N => par[par[r]] \notin S)
<1>1. par[r] \notin S
  BY DEF Family, Forest, Closed
<1>2. ASSUME par[par[r]] \in S, par[r] \in N PROVE FALSE
  <2> DEFINE L == S \cup {par[r]}
  <2>1. L \in SUBSET N /\ L # {} /\ Closed(par, L)
    BY <1>2 DEF Family, Closed
  <2> HIDE DEF L
  <2> QED
    BY <2>1 DEF Forest
<1> QED
  BY <1>1, <1>2

\* Two families of different eldests, neither of which belongs below the other;
\* two sets of nodes that share none and the first of which has no child of
\* the second.
Beside(S, r, Q, p, N, par) ==
  Family(S, r, N, par) /\ Family(Q, p, N, par) /\ r # p /\ par[r] \notin Q /\ par[p] \notin S
Apart(S, Q, par) == \A x \in S, y \in Q : x # y /\ par[x] # y

\* Families beside each other are apart.
LEMMA FamiliesApart ==
  ASSUME NEW N, NEW ch, NEW par, Forest(N, ch, par), NEW S, NEW r, NEW Q, NEW p, Beside(S, r, Q, p, N, par)
  PROVE  Apart(S, Q, par)
<1>0. Family(S, r, N, par) /\ Family(Q, p, N, par) /\ r # p /\ par[r] \notin Q /\ par[p] \notin S
  BY Zenon DEF Beside
<1> DEFINE L == S \cap Q
<1>1. r \notin Q /\ p \notin S
  BY <1>0 DEF Family
<1>2. Closed(par, L) /\ L \in SUBSET N
  BY <1>0, <1>1 DEF Family, Closed
<1>3. L = {}
  <2> HIDE DEF L
  <2> QED
    BY <1>2 DEF Forest
<1> QED
  BY <1>0, <1>3 DEF Family, Apart

\* The walk from n is a family, all of it down to the leaves, in order.
WalksFamily(f, n, N, ch, par) ==
  /\ InFamilyOrder(f[n], par) /\ Family(Range(f[n]), n, N, par)
  /\ \A m \in Range(f[n]) : Range(ch[m]) \subseteq Range(f[n])

\* A walk from a node visits a family, all of it down to the leaves, each node
\* once and after its parent.
LEMMA WalkIsOfFamily ==
  ASSUME NEW N, NEW ch, NEW par, Forest(N, ch, par), NEW f, WalksDown(f, N, ch)
  PROVE  \A n \in N : WalksFamily(f, n, N, ch, par)
<1> DEFINE G == {n \in N : WalksFamily(f, n, N, ch, par)}
<1>1. ASSUME NEW n \in N, Range(ch[n]) \subseteq G PROVE WalksFamily(f, n, N, ch, par)
  <2> DEFINE cs == ch[n]
             q == BelowWalks(cs, f)
             t == InTurn(q)
             one == <<n>>
             C == Range(cs)
  <2>1. cs \in Seq(N) /\ f \in [N -> Seq(N)] /\ NoRepeat(cs) /\ \A c \in C : par[c] = n
    BY DEF Forest, WalksDown
  <2>2. /\ q \in Seq(Seq(N)) /\ DOMAIN q = DOMAIN cs /\ t \in Seq(N)
        /\ \A i \in DOMAIN cs : cs[i] \in N /\ q[i] = f[cs[i]]
    <3>1. \A c \in C : f[c] \in Seq(N)
      BY <1>1, <2>1
    <3>2. \A c \in Range(cs) : f[c] \in Seq(N)
      BY <3>1
    <3> HIDE DEF cs, C
    <3>3. WalksFrom(q, cs, f, N) /\ t \in Seq(N)
      BY <2>1, <3>2, BelowWalksTyped
    <3> QED
      BY <3>3 DEF WalksFrom
  <2>3. f[n] = one \o t
    BY Zenon DEF WalksDown
  <2>4. \A i \in DOMAIN cs : cs[i] \in C
    BY DEF Range
  <2>5. \A c \in C : \E i \in DOMAIN cs : c = cs[i]
    BY DEF Range
  <2>6. \A c \in C : c \in N /\ WalksFamily(f, c, N, ch, par)
    BY <1>1
  <2>7. \A c \in C : Family(Range(f[c]), c, N, par) /\ n \notin Range(f[c]) /\ par[n] \notin Range(f[c])
    <3> SUFFICES ASSUME NEW c \in C
                 PROVE Family(Range(f[c]), c, N, par) /\ n \notin Range(f[c]) /\ par[n] \notin Range(f[c])
      OBVIOUS
    <3> DEFINE S == Range(f[c])
    <3>1. Family(S, c, N, par) /\ par[c] = n
      BY <2>1, <2>6 DEF WalksFamily
    <3> HIDE DEF S
    <3>2. par[c] \notin S /\ (par[c] \in N => par[par[c]] \notin S)
      BY <3>1, EldestIsEldest, Zenon
    <3> QED
      BY <3>1, <3>2 DEF S
  <2> HIDE DEF cs, q, t, C
  <2>8. \A i \in DOMAIN q : InFamilyOrder(q[i], par)
    BY <2>2, <2>4, <2>6, Zenon DEF WalksFamily
  <2>9. \A i, j \in DOMAIN q : i # j => \A x \in Range(q[i]), y \in Range(q[j]) : x # y /\ par[x] # y
    <3> SUFFICES ASSUME NEW i \in DOMAIN q, NEW j \in DOMAIN q, i # j
                 PROVE \A x \in Range(q[i]), y \in Range(q[j]) : x # y /\ par[x] # y
      OBVIOUS
    <3> DEFINE r == cs[i]
               p == cs[j]
               S == Range(f[r])
               Q == Range(f[p])
    <3>1. r \in C /\ p \in C /\ r # p /\ q[i] = f[r] /\ q[j] = f[p]
      BY <2>1, <2>2, <2>4 DEF NoRepeat
    <3>2. /\ Family(S, r, N, par) /\ Family(Q, p, N, par)
          /\ par[r] \notin Q /\ par[p] \notin S
      BY <2>1, <2>7, <3>1, Zenon
    <3> HIDE DEF r, p, S, Q
    <3>3. Beside(S, r, Q, p, N, par)
      BY <3>1, <3>2, Zenon DEF Beside
    <3>4. Apart(S, Q, par)
      BY <3>3, FamiliesApart, Zenon
    <3> QED
      BY <3>1, <3>4, Zenon DEF S, Q, Apart
  <2>10. t \in Seq(N) /\ InFamilyOrder(t, par) /\ Range(t) = UNION {Range(q[i]) : i \in DOMAIN q}
    <3>1. Orderly(q, par)
      BY <2>8, <2>9 DEF Orderly
    <3> QED
      BY <2>2, <3>1, InTurnInOrder DEF t
  <2>11. Range(t) = UNION {Range(f[c]) : c \in C}
    <3>1. \A i \in DOMAIN q : \E c \in C : q[i] = f[c]
      BY <2>2, <2>4
    <3>2. \A c \in C : \E i \in DOMAIN q : q[i] = f[c]
      <4> SUFFICES ASSUME NEW c \in C PROVE \E i \in DOMAIN q : q[i] = f[c]
        OBVIOUS
      <4>1. PICK i \in DOMAIN cs : c = cs[i]
        BY <2>5
      <4>2. i \in DOMAIN q /\ q[i] = f[c]
        BY <2>2, <4>1
      <4> QED
        BY <4>2
    <3> QED
      BY <2>10, <3>1, <3>2
  <2>12. one \in Seq(N) /\ Range(one) = {n}
    BY OneElement
  <2>13. InFamilyOrder(one, par)
    <3>1. par[n] # n
      <4>1. {n} \in SUBSET N /\ {n} # {}
        OBVIOUS
      <4>2. ~Closed(par, {n})
        BY <4>1, Zenon DEF Forest
      <4> QED
        BY <4>2 DEF Closed
    <3>2. DOMAIN one = {1} /\ one[1] = n
      OBVIOUS
    <3> HIDE DEF one
    <3> QED
      BY <3>1, <3>2 DEF InFamilyOrder, NoRepeat
  <2> HIDE DEF one
  <2>14. \A x \in Range(one), y \in Range(t) : x # y /\ par[x] # y
    BY <2>7, <2>11, <2>12
  <2>15. InFamilyOrder(f[n], par)
    BY <2>3, <2>10, <2>12, <2>13, <2>14, ConcatInOrder
  <2>16. Range(f[n]) = {n} \cup UNION {Range(f[c]) : c \in C}
    BY <2>3, <2>10, <2>11, <2>12, ConcatElements
  <2>17. Family(Range(f[n]), n, N, par)
    <3>1. n \in Range(f[n]) /\ \A c \in C : Range(f[c]) \subseteq Range(f[n])
      BY <2>16
    <3>2. \A c \in C : Range(f[c]) \subseteq N /\ \A m \in Range(f[c]) : m # c => par[m] \in Range(f[c])
      BY <2>7 DEF Family
    <3>3. Range(f[n]) \subseteq N
      BY <2>16, <3>2
    <3>4. ASSUME NEW m \in Range(f[n]), m # n PROVE par[m] \in Range(f[n])
      <4>1. PICK c \in C : m \in Range(f[c])
        BY <2>16, <3>4
      <4> QED
        BY <2>1, <3>1, <3>2, <4>1
    <3> QED
      BY <3>1, <3>3, <3>4 DEF Family
  <2>18. \A m \in Range(f[n]) : Range(ch[m]) \subseteq Range(f[n])
    <3>1. \A c \in C : c \in Range(f[c])
      BY <2>7 DEF Family
    <3>2. \A c \in C : \A m \in Range(f[c]) : Range(ch[m]) \subseteq Range(f[c])
      BY <2>6 DEF WalksFamily
    <3>3. Range(ch[n]) = C
      BY DEF C, cs
    <3> QED
      BY <2>16, <3>1, <3>2, <3>3
  <2> QED
    BY <2>15, <2>17, <2>18 DEF WalksFamily
<1>2. \A n \in N : Range(ch[n]) \subseteq G => n \in G
  BY <1>1
<1>3. N \subseteq G
  <2> HIDE DEF G
  <2> QED
    BY <1>2, FromTheLeaves
<1> QED
  BY <1>3

\* The walks from the roots, one after another, visit every node once and after
\* its parent, when each node is a root or among the children of its parent.
LEMMA WalkOfForest ==
  ASSUME NEW N, NEW ch, NEW par, Forest(N, ch, par), NEW f, WalksDown(f, N, ch),
         NEW rs \in Seq(N), NoRepeat(rs), \A r \in Range(rs) : par[r] \notin N,
         \A n \in N : n \in Range(rs) \/ (par[n] \in N /\ n \in Range(ch[par[n]])),
         NEW q, WalksFrom(q, rs, f, N)
  PROVE  Listing(InTurn(q), N) /\ InFamilyOrder(InTurn(q), par)
<1> DEFINE R == Range(rs)
           W == InTurn(q)
<1>1. \A n \in N : WalksFamily(f, n, N, ch, par)
  BY WalkIsOfFamily, Zenon
<1>2. /\ q \in Seq(Seq(N)) /\ DOMAIN q = DOMAIN rs
      /\ \A i \in DOMAIN rs : rs[i] \in N /\ q[i] = f[rs[i]]
  BY DEF WalksFrom
<1>3. /\ \A i \in DOMAIN rs : rs[i] \in R
      /\ \A r \in R : r \in N /\ \E i \in DOMAIN rs : r = rs[i]
  BY <1>2 DEF Range
<1> HIDE DEF R
<1>4. \A n \in N : Family(Range(f[n]), n, N, par)
  BY <1>1, Zenon DEF WalksFamily
<1>5. \A i \in DOMAIN q : InFamilyOrder(q[i], par)
  BY <1>1, <1>2, Zenon DEF WalksFamily
<1>6. \A i, j \in DOMAIN q : i # j => \A x \in Range(q[i]), y \in Range(q[j]) : x # y /\ par[x] # y
  <2> SUFFICES ASSUME NEW i \in DOMAIN q, NEW j \in DOMAIN q, i # j
               PROVE \A x \in Range(q[i]), y \in Range(q[j]) : x # y /\ par[x] # y
    OBVIOUS
  <2> DEFINE r == rs[i]
             p == rs[j]
             S == Range(f[r])
             Q == Range(f[p])
  <2>1. r \in R /\ p \in R /\ r \in N /\ p \in N /\ r # p /\ q[i] = f[r] /\ q[j] = f[p]
    BY <1>2, <1>3, Zenon DEF NoRepeat
  <2>2. Family(S, r, N, par) /\ Family(Q, p, N, par)
    BY <1>4, <2>1, Zenon
  <2>3. par[r] \notin Q /\ par[p] \notin S
    BY <2>1, <2>2, Zenon DEF Family, R
  <2> HIDE DEF r, p, S, Q
  <2>4. Beside(S, r, Q, p, N, par)
    BY <2>1, <2>2, <2>3, Zenon DEF Beside
  <2>5. Apart(S, Q, par)
    BY <2>4, FamiliesApart, Zenon
  <2> QED
    BY <2>1, <2>5, Zenon DEF S, Q, Apart
<1>7. W \in Seq(N) /\ InFamilyOrder(W, par) /\ Range(W) = UNION {Range(q[i]) : i \in DOMAIN q}
  <2>1. q \in Seq(Seq(N)) /\ Orderly(q, par)
    BY <1>2, <1>5, <1>6, Zenon DEF Orderly
  <2> QED
    BY <2>1, InTurnInOrder, Zenon
<1> HIDE DEF W
<1>8. Range(W) \subseteq N
  <2>1. W \in Seq(N)
    BY <1>7, Zenon
  <2> HIDE <1>7
  <2> QED
    BY <2>1, SeqLen DEF Range
<1>9. R \subseteq Range(W)
  <2> SUFFICES ASSUME NEW r \in R PROVE r \in Range(W)
    OBVIOUS
  <2>1. PICK i \in DOMAIN rs : r = rs[i]
    BY <1>3
  <2>2. r \in Range(q[i]) /\ i \in DOMAIN q
    BY <1>2, <1>3, <1>4, <2>1 DEF Family
  <2> QED
    BY <1>7, <2>2
<1>10. \A m \in Range(W) : Range(ch[m]) \subseteq Range(W)
  <2> SUFFICES ASSUME NEW m \in Range(W) PROVE Range(ch[m]) \subseteq Range(W)
    OBVIOUS
  <2>1. PICK i \in DOMAIN q : m \in Range(q[i])
    BY <1>7
  <2>2. Range(ch[m]) \subseteq Range(q[i])
    BY <1>1, <1>2, <2>1, Zenon DEF WalksFamily
  <2> QED
    BY <1>7, <2>1, <2>2
<1> DEFINE C == N \ Range(W)
<1>11. Closed(par, C)
  BY <1>9, <1>10, Zenon DEF Closed, R
<1>12. C = {}
  <2> HIDE DEF C
  <2>1. C \in SUBSET N
    BY DEF C
  <2> QED
    BY <1>11, <2>1 DEF Forest
<1>13. Range(W) = N
  BY <1>8, <1>12, Zenon
<1> QED
  BY <1>7, <1>13 DEF Listing, InFamilyOrder, W

\* A walk from a node begins with it, and goes on with its first child.
LEMMA WalkBegins ==
  ASSUME NEW N, NEW ch \in [N -> Seq(N)], NEW f, WalksDown(f, N, ch), NEW n \in N
  PROVE  /\ Len(f[n]) \in Nat /\ Len(f[n]) >= 1 /\ f[n][1] = n
         /\ ch[n] # << >> => Len(f[n]) >= 2 /\ f[n][2] = ch[n][1]
<1>1. ASSUME NEW m \in N
      PROVE  /\ BelowWalks(ch[m], f) \in Seq(Seq(N)) /\ Len(BelowWalks(ch[m], f)) = Len(ch[m])
             /\ InTurn(BelowWalks(ch[m], f)) \in Seq(N)
             /\ \A i \in DOMAIN ch[m] : ch[m][i] \in N /\ BelowWalks(ch[m], f)[i] = f[ch[m][i]]
  <2>1. ch[m] \in Seq(N)
    OBVIOUS
  <2>2. \A c \in Range(ch[m]) : f[c] \in Seq(N)
    <3>1. \A c \in Range(ch[m]) : c \in N
      BY <2>1, SeqLen DEF Range
    <3> QED
      BY <3>1 DEF WalksDown
  <2> QED
    BY <2>1, <2>2, BelowWalksTyped DEF WalksFrom
<1>2. ASSUME NEW m \in N
      PROVE  LET t == InTurn(BelowWalks(ch[m], f))
             IN /\ Len(t) \in Nat /\ Len(f[m]) = 1 + Len(t) /\ f[m][1] = m
                /\ \A k \in 1..Len(t) : f[m][1 + k] = t[k]
  <2> DEFINE t == InTurn(BelowWalks(ch[m], f))
             one == <<m>>
  <2>1. t \in Seq(N) /\ f[m] = one \o t
    BY <1>1, Zenon DEF WalksDown
  <2>2. one \in Seq(N) /\ Len(one) = 1 /\ one[1] = m
    OBVIOUS
  <2> HIDE DEF t, one
  <2>3. Len(t) \in Nat
    BY <2>1, SeqLen
  <2>4. /\ Len(one \o t) = Len(one) + Len(t)
        /\ \A i \in 1..(Len(one) + Len(t)) : (one \o t)[i] = IF i <= Len(one) THEN one[i] ELSE t[i - Len(one)]
    BY <2>1, <2>2, SeqConcat, Zenon
  <2>5. 1 \in 1..(1 + Len(t)) /\ 1 <= 1
    BY <2>3
  <2>6. \A k \in 1..Len(t) : 1 + k \in 1..(1 + Len(t)) /\ ~(1 + k <= 1) /\ (1 + k) - 1 = k
    BY <2>3
  <2>7. Len(f[m]) = 1 + Len(t) /\ f[m][1] = m /\ \A k \in 1..Len(t) : f[m][1 + k] = t[k]
    BY <2>1, <2>2, <2>4, <2>5, <2>6
  <2> QED
    BY <2>3, <2>7, Zenon DEF t
<1>3. \A m \in N : Len(f[m]) \in Nat /\ Len(f[m]) >= 1 /\ f[m][1] = m
  <2> SUFFICES ASSUME NEW m \in N PROVE Len(f[m]) \in Nat /\ Len(f[m]) >= 1 /\ f[m][1] = m
    OBVIOUS
  <2> DEFINE k == Len(InTurn(BelowWalks(ch[m], f)))
  <2>1. k \in Nat /\ Len(f[m]) = 1 + k /\ f[m][1] = m
    BY <1>2
  <2> HIDE DEF k
  <2> QED
    BY <2>1
<1>4. ASSUME ch[n] # << >> PROVE Len(f[n]) >= 2 /\ f[n][2] = ch[n][1]
  <2> DEFINE q == BelowWalks(ch[n], f)
             c == ch[n][1]
             t == InTurn(q)
  <2>1. Len(ch[n]) \in Nat \ {0} /\ DOMAIN ch[n] = 1..Len(ch[n])
    BY <1>4, SeqLen, SeqEmpty
  <2>2. 1 \in DOMAIN ch[n]
    BY <2>1
  <2>3. q \in Seq(Seq(N)) /\ Len(q) = Len(ch[n]) /\ c \in N /\ q[1] = f[c]
    BY <1>1, <2>2
  <2>4. Len(f[c]) \in Nat /\ Len(f[c]) >= 1 /\ f[c][1] = c
    BY <1>3, <2>3, Zenon
  <2>5. /\ Len(t) \in Nat /\ Len(f[n]) = 1 + Len(t)
        /\ \A k \in 1..Len(t) : f[n][1 + k] = t[k]
    BY <1>2
  <2> HIDE DEF q, c, t
  <2>6. q # << >>
    BY <2>1, <2>3
  <2>7. Len(q[1]) <= Len(t) /\ \A k \in 1..Len(q[1]) : t[k] = q[1][k]
    BY <2>3, <2>6, InTurnBegins DEF t
  <2>8. 1 \in 1..Len(q[1]) /\ 1 \in 1..Len(t) /\ 1 + 1 = 2 /\ 1 + Len(t) >= 2
    BY <2>3, <2>4, <2>5, <2>7
  <2>9. f[n][2] = c
    BY <2>3, <2>4, <2>5, <2>7, <2>8
  <2> QED
    BY <2>5, <2>8, <2>9 DEF c
<1> QED
  BY <1>3, <1>4

(***************************************************************************)
(* Walk.                                                                   *)
(***************************************************************************)

\* The finished tree is a forest: the children of a node point to it, and
\* what is not among the roots is among the children of its parent.
LEMMA DoneIsForest ==
  ASSUME TreeInv, pc = "done"
  PROVE  /\ Forest(DOMAIN node, children, parent)
         /\ roots \in Seq(DOMAIN node) /\ NoRepeat(roots) /\ \A r \in Range(roots) : parent[r] \notin DOMAIN node
         /\ \A n \in DOMAIN node : n \in Range(roots) \/ (parent[n] \in DOMAIN node /\ n \in Range(children[parent[n]]))
<1> DEFINE N == DOMAIN node
<1>1. /\ input \in Inputs /\ NoRounds /\ TreeIsDetermined /\ ChildrenListed
      /\ Listing(roots, Tops) /\ Listing(missing, Absent)
  BY DEF TreeInv
<1>2. /\ N = Ids \cup Absent /\ \A n \in N : parent[n] = IF n \in Tops THEN Nil ELSE Named(n)
  BY <1>1, Zenon DEF TreeIsDetermined, Named
<1>3. IsFiniteSet(Ids) /\ Ids \subseteq Nat \ {Nil}
  BY <1>1, SpansAreTyped
<1>4. IsFiniteSet(N)
  <2>1. IsFiniteSet(Absent)
    BY <1>1, ListingCounts
  <2> QED
    BY <1>2, <1>3, <2>1, FS_Union, Zenon
<1>5. /\ Absent = {Named(n) : n \in Ids} \ (Ids \cup {Nil}) /\ Nil \notin N /\ Cuts \subseteq Ids
      /\ Tops = {n \in Ids : Named(n) = Nil} \cup Absent \cup Cuts
      /\ \A n : Under(n) = {c \in Ids \ Cuts : Named(c) = n}
  <2>1. Absent = {Named(n) : n \in Ids} \ (Ids \cup {Nil}) /\ Cuts \subseteq Ids
    BY DEF Absent, Named, Cuts
  <2> QED
    BY <1>2, <1>3, <2>1, Zenon DEF Tops, Under, Named
<1>6. /\ children = [n \in N |-> children[n]]
      /\ \A n \in N : children[n] \in Seq(Under(n)) /\ Range(children[n]) = Under(n) /\ NoRepeat(children[n])
  BY <1>1 DEF ChildrenListed, Listing
<1> HIDE DEF N
<1>7. children \in [N -> Seq(N)]
  <2>1. \A n \in N : children[n] \in Seq(N)
    <3> SUFFICES ASSUME NEW n \in N PROVE children[n] \in Seq(N)
      OBVIOUS
    <3>1. Under(n) \subseteq N
      BY <1>2, <1>5
    <3> QED
      BY <1>6, <3>1, SeqGrows
  <2> QED
    BY <1>6, <2>1
<1>8. \A n \in N : \A c \in Under(n) : parent[c] = n
  BY <1>2, <1>5
<1>9. ASSUME NEW L \in SUBSET N, L # {}, Closed(parent, L) PROVE FALSE
  <2>1. \A x \in L : parent[x] \in N
    BY <1>9 DEF Closed
  <2>2. \A x \in L : x \notin Tops
    BY <1>2, <1>5, <2>1
  <2>3. L \in SUBSET Ids
    BY <1>2, <1>5, <2>2
  <2> QED
    BY <1>1, <1>9, <2>3 DEF NoRounds, Round
<1>10. Forest(N, children, parent)
  BY <1>4, <1>6, <1>7, <1>8, <1>9 DEF Forest
<1>11. Range(roots) = Tops /\ NoRepeat(roots) /\ roots \in Seq(N)
  <2>1. Tops \subseteq N
    BY <1>2, <1>5
  <2> QED
    BY <1>1, <2>1, SeqGrows DEF Listing
<1>12. \A r \in Tops : parent[r] \notin N
  BY <1>2, <1>5
<1>13. ASSUME NEW n \in N, n \notin Tops PROVE parent[n] \in N /\ n \in Range(children[parent[n]])
  <2>1. n \in Ids /\ n \notin Cuts /\ Named(n) # Nil /\ parent[n] = Named(n)
    BY <1>2, <1>5, <1>13
  <2>2. Named(n) \in N
    BY <1>2, <1>5, <2>1
  <2> QED
    BY <1>5, <1>6, <2>1, <2>2
<1> QED
  BY <1>10, <1>11, <1>12, <1>13 DEF N

\* What Walk is made of: the walks down from the roots.
LEMMA WalkIsMade ==
  ASSUME TreeInv, pc = "done"
  PROVE  \E f : /\ WalksDown(f, DOMAIN node, children) /\ Walk = InTurn(BelowWalks(roots, f))
                /\ WalksFrom(BelowWalks(roots, f), roots, f, DOMAIN node)
<1> DEFINE N == DOMAIN node
           Turn(h) == [n \in N |-> <<n>> \o InTurn([i \in DOMAIN children[n] |-> h[children[n][i]]])]
           f == CHOOSE h : h = Turn(h)
<1>1. Forest(N, children, parent) /\ roots \in Seq(N)
  BY DoneIsForest
<1>2. PICK g : IsWalkDown(g, N, children)
  <2> HIDE DEF N
  <2> QED
    BY <1>1, WalkDownExists
<1>3. g = Turn(g)
  BY <1>2, Zenon DEF IsWalkDown, BelowWalks
<1>4. f = Turn(f)
  <2> HIDE DEF Turn
  <2> QED
    BY <1>3
<1>5. Walk = InTurn(BelowWalks(roots, f))
  BY DEF Walk, BelowWalks
<1> HIDE DEF N, f
<1>6. IsWalkDown(f, N, children)
  BY <1>4, Zenon DEF IsWalkDown, BelowWalks
<1>7. WalksDown(f, N, children)
  BY <1>1, <1>6, WalkDownTyped
<1>8. \A r \in Range(roots) : f[r] \in Seq(N)
  <2>1. \A r \in Range(roots) : r \in N
    BY <1>1, SeqLen DEF Range
  <2> QED
    BY <1>7, <2>1 DEF WalksDown
<1>9. WalksFrom(BelowWalks(roots, f), roots, f, N)
  BY <1>1, <1>8, BelowWalksTyped
<1> QED
  BY <1>5, <1>7, <1>9 DEF N

\* Walk visits the nodes of the finished tree once each, parents first.
LEMMA WalkListsNodes ==
  ASSUME TreeInv, pc = "done"
  PROVE  Listing(Walk, DOMAIN node) /\ InFamilyOrder(Walk, parent)
<1> DEFINE N == DOMAIN node
<1>1. PICK f : /\ WalksDown(f, N, children) /\ Walk = InTurn(BelowWalks(roots, f))
               /\ WalksFrom(BelowWalks(roots, f), roots, f, N)
  BY WalkIsMade
<1>2. /\ Forest(N, children, parent) /\ roots \in Seq(N) /\ NoRepeat(roots)
      /\ \A r \in Range(roots) : parent[r] \notin N
      /\ \A n \in N : n \in Range(roots) \/ (parent[n] \in N /\ n \in Range(children[parent[n]]))
  BY DoneIsForest
<1> DEFINE q == BelowWalks(roots, f)
<1> HIDE DEF N, q
<1>3. Listing(InTurn(q), N) /\ InFamilyOrder(InTurn(q), parent)
  BY <1>1, <1>2, WalkOfForest DEF q
<1> QED
  BY <1>1, <1>3 DEF N, q

\* Walk visits every node of the tree Build returns exactly once, and no node
\* before its parent, whatever spans arrived, in whatever order, with whatever
\* parents missing and loops cut.
THEOREM WalkVisitsAllOnceAlways == Spec => []WalkVisitsAllOnce
<1>1. BuildInv /\ TreeInv => WalkVisitsAllOnce
  <2> SUFFICES ASSUME TreeInv, pc = "done"
               PROVE  /\ Range(Walk) = DOMAIN node /\ Len(Walk) = Cardinality(DOMAIN node)
                      /\ \A i, j \in DOMAIN Walk : parent[Walk[j]] = Walk[i] => i < j
    BY DEF WalkVisitsAllOnce
  <2>1. Listing(Walk, DOMAIN node) /\ InFamilyOrder(Walk, parent)
    BY WalkListsNodes
  <2>2. Len(Walk) = Cardinality(DOMAIN node)
    BY <2>1, ListingCounts
  <2> QED
    BY <2>1, <2>2 DEF Listing, InFamilyOrder
<1> QED
  BY <1>1, TreeInvariant, PTL

(***************************************************************************)
(* The sampling policies.                                                  *)
(***************************************************************************)

\* Only a slice with spans is built from.
SomeSpans == pc \notin {"collect", "error"} => input # << >>

\* Build is never past its first loop with an empty slice.
LEMMA SomeSpansAlways == Spec => []SomeSpans
<1>1. Init => SomeSpans
  BY DEF Init, SomeSpans
<1>2. SomeSpans /\ [Next]_vars => SomeSpans'
  <2> SUFFICES ASSUME SomeSpans, [Next]_vars PROVE SomeSpans'
    OBVIOUS
  <2>1. CASE UNCHANGED vars
    BY <2>1 DEF vars, SomeSpans
  <2>2. CASE Collect \/ Refuse
    BY <2>2 DEF Collect, Refuse, SomeSpans
  <2>3. CASE Link
    BY <2>3 DEF Link, Linking, LinkRoot, LinkKnown, LinkMissing, SomeSpans
  <2>4. CASE BreakCycles \/ Finish
    BY <2>4 DEF BreakCycles, MarkRoots, Visit, Marked, Remarked, SkipReached, CutCycle, CutsDone, Finish, SomeSpans
  <2> QED
    BY <2>1, <2>2, <2>3, <2>4 DEF Next
<1> QED
  BY <1>1, <1>2, PTL DEF Spec

\* The times of the finished tree, and its outermost spans: one that arrived at
\* the top stands for itself, a placeholder for the spans under it.
LEMMA TopsSpan ==
  ASSUME TreeInv, pc = "done"
  PROVE  /\ \A n \in DOMAIN node : node[n].start \in Int /\ node[n].end \in Int
         /\ \A n \in Ids : node[n] = LastOf(n) /\ LastOf(n) \in Span
         /\ DOMAIN node = Ids \cup Absent /\ Ids \cap Absent = {} /\ Tops \subseteq DOMAIN node
         /\ Outermost \subseteq Ids
         /\ \A m \in Outermost : \E r \in Tops : node[r].start <= node[m].start /\ node[m].end <= node[r].end
         /\ \A r \in Tops : \E a, b \in Outermost : node[a].start = node[r].start /\ node[b].end = node[r].end
<1>1. input \in Inputs /\ TreeIsDetermined
  BY DEF TreeInv
<1>2. /\ DOMAIN node = Ids \cup Absent /\ \A n \in Ids : node[n] = LastOf(n)
      /\ \A n \in Absent : /\ \A c \in Under(n) : node[n].start <= node[c].start /\ node[c].end <= node[n].end
                           /\ \E c, d \in Under(n) : node[n].start = node[c].start /\ node[n].end = node[d].end
  BY <1>1, Zenon DEF TreeIsDetermined
<1>3. \A n \in Ids : LastOf(n) \in Span
  BY <1>1, SpansAreTyped
<1>4. \A n : Under(n) \subseteq Ids
  BY DEF Under
<1>5. \A n \in Ids : node[n].start \in Int /\ node[n].end \in Int
  BY <1>2, <1>3 DEF Span
<1>6. \A n \in DOMAIN node : node[n].start \in Int /\ node[n].end \in Int
  BY <1>2, <1>4, <1>5
<1>7. Ids \cap Absent = {} /\ Tops \subseteq DOMAIN node
  BY <1>2 DEF Absent, Tops, Cuts
<1>8. Absent \subseteq Tops /\ Outermost = (Tops \cap Ids) \cup UNION {Under(p) : p \in Absent}
  BY DEF Tops, Outermost
<1>9. Outermost \subseteq Ids
  BY <1>4, <1>8
<1>10. ASSUME NEW m \in Outermost
       PROVE  \E r \in Tops : node[r].start <= node[m].start /\ node[m].end <= node[r].end
  <2>1. CASE m \in Tops
    <3>1. node[m].start \in Int /\ node[m].end \in Int
      BY <1>5, <1>9
    <3>2. node[m].start <= node[m].start /\ node[m].end <= node[m].end
      BY <3>1
    <3> QED
      BY <2>1, <3>2
  <2>2. CASE m \notin Tops
    <3>1. PICK p \in Absent : m \in Under(p)
      BY <1>8, <2>2
    <3> QED
      BY <1>2, <1>8, <3>1
  <2> QED
    BY <2>1, <2>2
<1>11. ASSUME NEW r \in Tops
       PROVE  \E a, b \in Outermost : node[a].start = node[r].start /\ node[b].end = node[r].end
  <2>1. CASE r \in Ids
    BY <1>8, <2>1
  <2>2. CASE r \in Absent
    <3>1. PICK c \in Under(r), d \in Under(r) : node[r].start = node[c].start /\ node[r].end = node[d].end
      BY <1>2, <2>2
    <3>2. c \in Outermost /\ d \in Outermost
      BY <1>8, <2>2
    <3> QED
      BY <3>1, <3>2
  <2> QED
    BY <1>2, <1>7, <2>1, <2>2
<1> QED
  BY <1>2, <1>3, <1>6, <1>7, <1>9, <1>10, <1>11

\* The least of a set of numbers is the one that is.
LEMMA MinIs ==
  ASSUME NEW S \in SUBSET Int, NEW x \in S, \A y \in S : x <= y
  PROVE  Min(S) = x
<1>1. \E z \in S : \A y \in S : z =< y
  OBVIOUS
<1>2. Min(S) \in S /\ \A y \in S : Min(S) =< y
  BY <1>1, Zenon DEF Min
<1> DEFINE m == Min(S)
<1>3. m \in Int /\ x \in Int /\ m <= x /\ x <= m
  BY <1>2, Zenon
<1> HIDE DEF m
<1>4. m = x
  BY <1>3
<1> QED
  BY <1>4 DEF m

\* The first root, and how the walk begins: with it, then its first child.
LEMMA WalkStarts ==
  ASSUME TreeInv, SomeSpans, pc = "done"
  PROVE  /\ roots # << >> /\ roots[1] \in Tops /\ \A r \in Tops : node[roots[1]].start <= node[r].start
         /\ Len(Walk) \in Nat /\ DOMAIN Walk = 1..Len(Walk) /\ Len(Walk) >= 1 /\ Walk[1] = roots[1]
         /\ children[roots[1]] # << >> => Len(Walk) >= 2 /\ Walk[2] = children[roots[1]][1]
<1> DEFINE N == DOMAIN node
           r == roots[1]
<1>1. /\ input \in Inputs /\ Listing(roots, Tops) /\ Lists(roots, Tops)
  BY Zenon DEF TreeInv, TreeIsDetermined
<1>2. /\ Forest(N, children, parent) /\ roots \in Seq(N)
      /\ \A n \in N : n \in Range(roots) \/ parent[n] \in N
  BY DoneIsForest
<1>3. N # {}
  <2>1. input \in Seq(Span) /\ input # << >>
    BY <1>1, AssemblyAssumption DEF SomeSpans
  <2>2. Len(input) \in Nat \ {0} /\ DOMAIN input = 1..Len(input)
    BY <2>1, SeqLen, SeqEmpty
  <2>3. 1 \in DOMAIN input
    BY <2>2
  <2>4. Ids # {}
    BY <2>3, Zenon DEF Ids
  <2> QED
    BY <2>4, TopsSpan
<1>4. roots # << >>
  <2>1. ~Closed(parent, N)
    BY <1>2, <1>3 DEF Forest
  <2>2. Range(roots) # {}
    BY <1>2, <2>1 DEF Closed
  <2> QED
    BY <2>2 DEF Range
<1>5. Len(roots) \in Nat \ {0} /\ DOMAIN roots = 1..Len(roots) /\ 1 \in DOMAIN roots
  <2>1. Len(roots) \in Nat \ {0} /\ DOMAIN roots = 1..Len(roots)
    BY <1>2, <1>4, SeqLen, SeqEmpty
  <2> QED
    BY <2>1
<1>6. r \in Tops /\ r \in N /\ Range(roots) = Tops /\ \A i \in DOMAIN roots : roots[i] \in Tops
  <2>1. Range(roots) = Tops
    BY <1>1 DEF Listing
  <2>2. \A i \in DOMAIN roots : roots[i] \in Tops
    BY <2>1 DEF Range
  <2> QED
    BY <1>5, <2>1, <2>2, TopsSpan
<1>7. ASSUME NEW t \in Tops PROVE node[r].start <= node[t].start
  <2>1. node[r].start \in Int /\ node[t].start \in Int
    BY <1>6, TopsSpan
  <2>2. PICK j \in DOMAIN roots : roots[j] = t
    BY <1>6 DEF Range
  <2>3. CASE j = 1
    BY <2>1, <2>2, <2>3
  <2>4. CASE j # 1
    <3>1. 1 < j
      BY <1>5, <2>4
    <3>2. ByStart(node, r, t)
      BY <1>1, <1>5, <2>2, <3>1 DEF Lists, InOrder
    <3> QED
      BY <2>1, <3>2 DEF ByStart
  <2> QED
    BY <2>3, <2>4
<1>8. PICK f : /\ WalksDown(f, N, children) /\ Walk = InTurn(BelowWalks(roots, f))
               /\ WalksFrom(BelowWalks(roots, f), roots, f, N)
  BY WalkIsMade
<1> DEFINE q == BelowWalks(roots, f)
<1>9. q \in Seq(Seq(N)) /\ q[1] = f[r] /\ q # << >> /\ children \in [N -> Seq(N)]
  <2>1. q \in Seq(Seq(N)) /\ DOMAIN q = DOMAIN roots /\ q[1] = f[r]
    BY <1>5, <1>8 DEF WalksFrom
  <2>2. DOMAIN q # DOMAIN << >>
    BY <1>5, <2>1
  <2> QED
    BY <1>2, <2>1, <2>2 DEF Forest
<1> HIDE DEF N, q, r
<1>10. /\ Len(f[r]) \in Nat /\ Len(f[r]) >= 1 /\ f[r][1] = r
       /\ children[r] # << >> => Len(f[r]) >= 2 /\ f[r][2] = children[r][1]
  <2>1. r \in N /\ children \in [N -> Seq(N)] /\ WalksDown(f, N, children)
    BY <1>6, <1>8, <1>9
  <2> QED
    BY <2>1, WalkBegins
<1>11. Len(q[1]) <= Len(InTurn(q)) /\ \A k \in 1..Len(q[1]) : InTurn(q)[k] = q[1][k]
  BY <1>9, InTurnBegins
<1>12. Len(Walk) \in Nat /\ DOMAIN Walk = 1..Len(Walk)
  BY WalkListsNodes, SeqLen DEF Listing
<1>13. Len(f[r]) <= Len(Walk) /\ \A k \in 1..Len(f[r]) : Walk[k] = f[r][k]
  BY <1>8, <1>9, <1>11 DEF q
<1>14. Len(Walk) >= 1 /\ Walk[1] = r
  BY <1>10, <1>12, <1>13
<1>15. children[r] # << >> => Len(Walk) >= 2 /\ Walk[2] = children[r][1]
  BY <1>10, <1>12, <1>13
<1> QED
  BY <1>4, <1>6, <1>7, <1>12, <1>14, <1>15 DEF r

\* The first span of the walk that arrived is an outermost one, and none of
\* them starts before it.
LEMMA FirstToArrive ==
  ASSUME TreeInv, SomeSpans, pc = "done"
  PROVE  LET n == Walk[Min(Arrived)]
         IN n \in Outermost /\ \A m \in Outermost : node[n].start <= node[m].start
<1> DEFINE r == roots[1]
<1>1. /\ r \in Tops /\ \A t \in Tops : node[r].start <= node[t].start
      /\ Len(Walk) \in Nat /\ DOMAIN Walk = 1..Len(Walk) /\ Len(Walk) >= 1 /\ Walk[1] = r
      /\ children[r] # << >> => Len(Walk) >= 2 /\ Walk[2] = children[r][1]
  BY WalkStarts
<1>2. /\ \A n \in DOMAIN node : node[n].start \in Int
      /\ DOMAIN node = Ids \cup Absent /\ Ids \cap Absent = {} /\ Tops \subseteq DOMAIN node
      /\ Outermost \subseteq Ids
      /\ \A m \in Outermost : \E t \in Tops : node[t].start <= node[m].start
  BY TopsSpan
<1> HIDE DEF r
<1>3. Arrived \in SUBSET Int /\ \A i \in Arrived : 1 <= i /\ i \in Int /\ Walk[i] \in Ids
  BY <1>1 DEF Arrived
<1>4. ASSUME NEW m \in Outermost PROVE node[r].start <= node[m].start
  <2>1. PICK t \in Tops : node[t].start <= node[m].start
    BY <1>2
  <2>2. node[r].start \in Int /\ node[t].start \in Int /\ node[m].start \in Int /\ node[r].start <= node[t].start
    BY <1>1, <1>2
  <2> QED
    BY <2>1, <2>2
<1>5. CASE r \in Ids
  <2>1. 1 \in Arrived
    BY <1>1, <1>5 DEF Arrived
  <2>2. Min(Arrived) = 1
    BY <1>3, <2>1, MinIs
  <2>3. r \in Outermost
    BY <1>1, <1>5 DEF Outermost
  <2> QED
    BY <1>1, <1>4, <2>2, <2>3
<1>6. CASE r \in Absent
  <2> DEFINE cs == children[r]
  <2>1. /\ Listing(cs, Under(r)) /\ Lists(cs, Under(r))
        /\ \E c, d \in Under(r) : node[r].start = node[c].start /\ node[r].end = node[d].end
    BY <1>2, <1>6 DEF TreeInv, TreeIsDetermined, ChildrenListed
  <2>2. PICK c \in Under(r) : node[r].start = node[c].start
    BY <2>1
  <2> HIDE DEF cs
  <2>3. cs \in Seq(Under(r)) /\ Range(cs) = Under(r) /\ InOrder(cs)
    BY <2>1 DEF Listing, Lists
  <2>4. Len(cs) \in Nat /\ DOMAIN cs = 1..Len(cs)
    BY <2>3, SeqLen
  <2>5. PICK j \in DOMAIN cs : c = cs[j]
    BY <2>3 DEF Range
  <2>6. 1 \in DOMAIN cs /\ (j = 1 \/ 1 < j)
    BY <2>4
  <2>7. cs # << >>
    BY <2>6
  <2> DEFINE h == cs[1]
  <2>8. h \in Under(r) /\ h \in Ids /\ c \in Ids
    BY <2>3, <2>6 DEF Range, Under
  <2>9. h \in Outermost
    BY <1>6, <2>8 DEF Outermost
  <2>10. node[h].start \in Int /\ node[c].start \in Int
    BY <1>2, <2>8
  <2>11. node[h].start <= node[c].start
    <3>1. CASE j = 1
      BY <2>5, <2>10, <3>1
    <3>2. CASE 1 < j
      <4>1. ByStart(node, h, c)
        BY <2>3, <2>5, <2>6, <3>2 DEF InOrder
      <4> QED
        BY <2>10, <4>1 DEF ByStart
    <3> QED
      BY <2>6, <3>1, <3>2
  <2>12. Len(Walk) >= 2 /\ Walk[2] = h
    BY <1>1, <2>7 DEF cs
  <2>13. 2 \in Arrived
    BY <1>1, <2>8, <2>12 DEF Arrived
  <2>14. \A i \in Arrived : 2 <= i
    <3>1. 1 \notin Arrived
      BY <1>1, <1>2, <1>6 DEF Arrived
    <3> QED
      BY <1>3, <3>1
  <2>15. Min(Arrived) = 2
    BY <1>3, <2>13, <2>14, MinIs
  <2> HIDE DEF h
  <2>16. ASSUME NEW m \in Outermost PROVE node[h].start <= node[m].start
    <3>1. node[m].start \in Int /\ node[c].start <= node[m].start
      BY <1>2, <1>4, <2>2
    <3> QED
      BY <2>10, <2>11, <3>1
  <2> QED
    BY <2>9, <2>12, <2>15, <2>16
<1> QED
  BY <1>1, <1>2, <1>5, <1>6

\* A trace is charged to the service of one of its outermost spans, none of
\* which starts earlier: rootService does not depend on the order in which the
\* spans arrived, nor on the placeholders and cuts of the tree.
THEOREM ChargedToTheEarliestAlways == Spec => []ChargedToTheEarliest
<1>1. BuildInv /\ TreeInv /\ SomeSpans => ChargedToTheEarliest
  <2> SUFFICES ASSUME TreeInv, SomeSpans, pc = "done"
               PROVE  \E n \in Outermost : /\ LastOf(n).service = rootService
                                           /\ \A m \in Outermost : LastOf(n).start <= LastOf(m).start
    BY DEF ChargedToTheEarliest
  <2> DEFINE n == Walk[Min(Arrived)]
  <2>1. n \in Outermost /\ \A m \in Outermost : node[n].start <= node[m].start
    BY FirstToArrive
  <2>2. rootService = node[n].service
    BY DEF rootService
  <2> HIDE DEF n
  <2>3. \A m \in Outermost : node[m] = LastOf(m)
    BY TopsSpan
  <2> QED
    BY <2>1, <2>2, <2>3
<1> QED
  BY <1>1, TreeInvariant, SomeSpansAlways, PTL

\* KeepErrors finds a failed span wherever it hangs.
LEMMA ErrorsAreFound ==
  ASSUME TreeInv, pc = "done"
  PROVE  KeepErrors = IF \E n \in Ids : LastOf(n).failed THEN "error" ELSE "abstain"
<1>1. Range(Walk) = DOMAIN node
  BY WalkListsNodes DEF Listing
<1>2. Ids \subseteq DOMAIN node /\ \A n \in Ids : node[n] = LastOf(n)
  BY TopsSpan
<1>3. (\E i \in Arrived : node[Walk[i]].failed) <=> \E n \in Ids : LastOf(n).failed
  <2>1. \A i \in Arrived : Walk[i] \in Ids
    BY DEF Arrived
  <2>2. \A n \in Ids : \E i \in Arrived : Walk[i] = n
    BY <1>1, <1>2 DEF Arrived, Range
  <2> QED
    BY <1>2, <2>1, <2>2, Zenon
<1> QED
  BY <1>3 DEF KeepErrors

\* Duration is that of the outermost spans, from the first start to the last end.
LEMMA DurationIsOutermost ==
  ASSUME TreeInv, SomeSpans, pc = "done"
  PROVE  Duration > Threshold <=> \E a, b \in Outermost : LastOf(b).end - LastOf(a).start > Threshold
<1> DEFINE st == [r \in Tops |-> node[r].start]
           en == [r \in Tops |-> node[r].end]
<1>1. /\ \A n \in DOMAIN node : node[n].start \in Int /\ node[n].end \in Int
      /\ \A n \in Ids : node[n] = LastOf(n)
      /\ DOMAIN node = Ids \cup Absent /\ Tops \subseteq DOMAIN node /\ Outermost \subseteq Ids
      /\ \A m \in Outermost : \E r \in Tops : node[r].start <= node[m].start /\ node[m].end <= node[r].end
      /\ \A r \in Tops : \E a, b \in Outermost : node[a].start = node[r].start /\ node[b].end = node[r].end
  BY TopsSpan
<1>2. Listing(roots, Tops) /\ Range(roots) = Tops /\ Tops # {}
  BY WalkStarts DEF TreeInv, Listing
<1>3. Tops \in SUBSET Nat
  <2>1. DOMAIN node \subseteq Nat
    <3>1. Ids \subseteq Nat /\ Absent \subseteq Nat
      BY SpansAreTyped DEF TreeInv, Absent, Named
    <3> QED
      BY <1>1, <3>1
  <2> QED
    BY <1>1, <2>1
<1>4. st \in [Tops -> Int] /\ en \in [Tops -> Int]
  BY <1>1
<1>5. /\ {node[r].start : r \in Range(roots)} = {st[r] : r \in Tops}
      /\ {node[r].end : r \in Range(roots)} = {en[r] : r \in Tops}
  BY <1>2
<1>6. \A r \in Tops : st[r] = node[r].start /\ en[r] = node[r].end
  OBVIOUS
<1> HIDE DEF st, en
<1>7. PICK a0 \in Tops : Min({st[r] : r \in Tops}) = st[a0] /\ \A r \in Tops : st[a0] <= st[r]
  BY <1>2, <1>3, <1>4, ExtremesExist, Zenon
<1>8. PICK b0 \in Tops : Max({en[r] : r \in Tops}) = en[b0] /\ \A r \in Tops : en[r] <= en[b0]
  BY <1>2, <1>3, <1>4, ExtremesExist, Zenon
<1> DEFINE s0 == node[a0].start
           e0 == node[b0].end
<1>9. Duration = e0 - s0
  BY <1>5, <1>6, <1>7, <1>8, Zenon DEF Duration
<1>10. s0 \in Int /\ e0 \in Int /\ Threshold \in Int
  BY <1>1, PolicyAssumption
<1>11. \A r \in Tops : s0 <= node[r].start /\ node[r].end <= e0
  BY <1>6, <1>7, <1>8
<1> HIDE DEF s0, e0
<1>12. ASSUME NEW m \in Outermost
       PROVE  LastOf(m) = node[m] /\ node[m].start \in Int /\ node[m].end \in Int /\ s0 <= node[m].start /\ node[m].end <= e0
  <2>1. LastOf(m) = node[m] /\ node[m].start \in Int /\ node[m].end \in Int
    BY <1>1
  <2>2. PICK r \in Tops : node[r].start <= node[m].start /\ node[m].end <= node[r].end
    BY <1>1
  <2>3. s0 <= node[r].start /\ node[r].end <= e0 /\ node[r].start \in Int /\ node[r].end \in Int
    BY <1>1, <1>11
  <2> QED
    BY <1>10, <2>1, <2>2, <2>3
<1>13. ASSUME NEW a \in Outermost, NEW b \in Outermost, LastOf(b).end - LastOf(a).start > Threshold
       PROVE  Duration > Threshold
  <2> DEFINE x == node[a].start
             y == node[b].end
  <2>1. x \in Int /\ y \in Int /\ s0 <= x /\ y <= e0 /\ y - x > Threshold
    BY <1>12, <1>13
  <2> HIDE DEF x, y
  <2> QED
    BY <1>9, <1>10, <2>1
<1>14. ASSUME Duration > Threshold
       PROVE  \E a, b \in Outermost : LastOf(b).end - LastOf(a).start > Threshold
  <2>1. PICK a \in Outermost : node[a].start = s0
    BY <1>1 DEF s0
  <2>2. PICK b \in Outermost : node[b].end = e0
    BY <1>1 DEF e0
  <2>3. LastOf(b).end - LastOf(a).start > Threshold
    BY <1>9, <1>12, <1>14, <2>1, <2>2
  <2> QED
    BY <2>3
<1> QED
  BY <1>13, <1>14

\* The sequence is these three, or these two.
Three(P, a, b, c) == DOMAIN P = 1..3 /\ P[1] = a /\ P[2] = b /\ P[3] = c
Two(P, a, c)      == DOMAIN P = 1..2 /\ P[1] = a /\ P[2] = c

\* What the chain of policies is made of, with and without one in the middle.
LEMMA InARow ==
  ASSUME NEW a, NEW b, NEW c
  PROVE  Three(<<a>> \o <<b>> \o <<c>>, a, b, c) /\ Two(<<a>> \o << >> \o <<c>>, a, c)
<1> DEFINE S == {a, b, c}
           x == <<a>>
           y == <<b>>
           z == <<c>>
           e == << >>
<1>1. /\ x \in Seq(S) /\ y \in Seq(S) /\ z \in Seq(S) /\ e \in Seq(S)
      /\ Len(x) = 1 /\ Len(y) = 1 /\ Len(z) = 1 /\ Len(e) = 0 /\ x[1] = a /\ y[1] = b /\ z[1] = c
  OBVIOUS
<1> HIDE DEF S, x, y, z, e
<1>2. /\ x \o y \in Seq(S) /\ Len(x \o y) = 2 /\ (x \o y)[1] = a /\ (x \o y)[2] = b
      /\ x \o e \in Seq(S) /\ Len(x \o e) = 1 /\ (x \o e)[1] = a
  BY <1>1, SeqConcat
<1> DEFINE xy == x \o y
           xe == x \o e
<1> HIDE DEF xy, xe
<1>3. /\ xy \in Seq(S) /\ Len(xy) = 2 /\ xy[1] = a /\ xy[2] = b
      /\ xe \in Seq(S) /\ Len(xe) = 1 /\ xe[1] = a
  BY <1>2 DEF xy, xe
<1>4. /\ xy \o z \in Seq(S) /\ Len(xy \o z) = 3 /\ (xy \o z)[1] = a /\ (xy \o z)[2] = b /\ (xy \o z)[3] = c
      /\ xe \o z \in Seq(S) /\ Len(xe \o z) = 2 /\ (xe \o z)[1] = a /\ (xe \o z)[2] = c
  BY <1>1, <1>3, SeqConcat
<1>5. DOMAIN (xy \o z) = 1..3 /\ DOMAIN (xe \o z) = 1..2
  BY <1>4, SeqLen
<1> QED
  BY <1>4, <1>5 DEF x, y, z, e, xy, xe, Three, Two

\* The chain gives the answer of the first policy that has one.
LEMMA ChainAnswers ==
  ASSUME KeepErrors \in {"error", "abstain"}
  PROVE  Reason = IF KeepErrors = "error" THEN "error"
                  ELSE IF Threshold > 0 /\ Duration > Threshold THEN "slow" ELSE KeepFraction
<1> DEFINE P == Policies
           claims == {i \in DOMAIN P : P[i] # "abstain"}
<1>1. KeepFraction \in {"sampled", "sampled out"}
  BY DEF KeepFraction
<1>2. Reason = IF claims = {} THEN "unclaimed" ELSE P[Min(claims)]
  BY DEF Reason
<1>3. CASE Threshold > 0
  <2>1. P = <<KeepErrors>> \o <<KeepSlow>> \o <<KeepFraction>>
    BY <1>3, Zenon DEF Policies
  <2>2. DOMAIN P = 1..3 /\ P[1] = KeepErrors /\ P[2] = KeepSlow /\ P[3] = KeepFraction
    <3>1. Three(P, KeepErrors, KeepSlow, KeepFraction)
      BY <2>1, InARow, Zenon
    <3> HIDE DEF P
    <3> QED
      BY <3>1, Zenon DEF Three
  <2> HIDE DEF P
  <2>3. claims \in SUBSET Int /\ 3 \in claims /\ \A i \in claims : i \in {1, 2, 3}
    <3>1. P[3] # "abstain"
      BY <1>1, <2>2, Zenon
    <3>2. 3 \in DOMAIN P /\ DOMAIN P \in SUBSET Int /\ \A i \in DOMAIN P : i \in {1, 2, 3}
      BY <2>2
    <3> QED
      BY <3>1, <3>2
  <2>4. CASE KeepErrors = "error"
    <3>1. 1 \in claims /\ \A i \in claims : 1 <= i
      BY <2>2, <2>3, <2>4
    <3>2. Min(claims) = 1
      BY <2>3, <3>1, MinIs
    <3> QED
      BY <1>2, <2>2, <2>3, <2>4, <3>2
  <2>5. CASE KeepErrors # "error" /\ Duration > Threshold
    <3>1. KeepSlow = "slow" /\ KeepErrors = "abstain"
      BY <2>5 DEF KeepSlow
    <3>2. 2 \in claims /\ \A i \in claims : 2 <= i
      BY <2>2, <2>3, <3>1
    <3>3. Min(claims) = 2
      BY <2>3, <3>2, MinIs, Zenon
    <3> QED
      BY <1>2, <1>3, <2>2, <2>3, <2>5, <3>1, <3>3
  <2>6. CASE KeepErrors # "error" /\ ~(Duration > Threshold)
    <3>1. KeepSlow = "abstain" /\ KeepErrors = "abstain"
      BY <2>6 DEF KeepSlow
    <3>2. \A i \in claims : 3 <= i
      BY <2>2, <2>3, <3>1
    <3>3. Min(claims) = 3
      BY <2>3, <3>2, MinIs
    <3> QED
      BY <1>2, <2>2, <2>3, <2>6, <3>3
  <2> QED
    BY <2>4, <2>5, <2>6
<1>4. CASE ~(Threshold > 0)
  <2>1. P = <<KeepErrors>> \o << >> \o <<KeepFraction>>
    BY <1>4, Zenon DEF Policies
  <2>2. DOMAIN P = 1..2 /\ P[1] = KeepErrors /\ P[2] = KeepFraction
    <3>1. Two(P, KeepErrors, KeepFraction)
      BY <2>1, InARow, Zenon
    <3> HIDE DEF P
    <3> QED
      BY <3>1, Zenon DEF Two
  <2> HIDE DEF P
  <2>3. claims \in SUBSET Int /\ 2 \in claims /\ \A i \in claims : i \in {1, 2}
    <3>1. P[2] # "abstain"
      BY <1>1, <2>2, Zenon
    <3>2. 2 \in DOMAIN P /\ DOMAIN P \in SUBSET Int /\ \A i \in DOMAIN P : i \in {1, 2}
      BY <2>2
    <3> QED
      BY <3>1, <3>2
  <2>4. CASE KeepErrors = "error"
    <3>1. 1 \in claims /\ \A i \in claims : 1 <= i
      BY <2>2, <2>3, <2>4
    <3>2. Min(claims) = 1
      BY <2>3, <3>1, MinIs, Zenon
    <3> QED
      BY <1>2, <2>2, <2>3, <2>4, <3>2
  <2>5. CASE KeepErrors # "error"
    <3>1. \A i \in claims : 2 <= i
      BY <2>2, <2>3, <2>5
    <3>2. Min(claims) = 2
      BY <2>3, <3>1, MinIs
    <3> QED
      BY <1>2, <1>4, <2>2, <2>3, <2>5, <3>2
  <2> QED
    BY <2>4, <2>5
<1> QED
  BY <1>3, <1>4

\* The verdict of the chain is one about the spans: it keeps a trace with a
\* failed span, and one whose outermost spans stretch over the threshold, and
\* leaves the rest to the trace id, whatever tree was built on the way.
THEOREM VerdictIsOfTheSpansAlways == Spec => []VerdictIsOfTheSpans
<1>1. BuildInv /\ TreeInv /\ SomeSpans => VerdictIsOfTheSpans
  <2> SUFFICES ASSUME TreeInv, SomeSpans, pc = "done"
               PROVE  Reason = IF \E n \in Ids : LastOf(n).failed THEN "error"
                               ELSE IF Threshold > 0 /\ \E a, b \in Outermost : LastOf(b).end - LastOf(a).start > Threshold
                               THEN "slow"
                               ELSE IF input[1].trace % RandomRange < Share THEN "sampled" ELSE "sampled out"
    BY Zenon DEF VerdictIsOfTheSpans
  <2>1. KeepErrors = IF \E n \in Ids : LastOf(n).failed THEN "error" ELSE "abstain"
    BY ErrorsAreFound
  <2>2. Duration > Threshold <=> \E a, b \in Outermost : LastOf(b).end - LastOf(a).start > Threshold
    BY DurationIsOutermost
  <2>3. KeepErrors \in {"error", "abstain"}
    BY <2>1
  <2>4. Reason = IF KeepErrors = "error" THEN "error"
                 ELSE IF Threshold > 0 /\ Duration > Threshold THEN "slow" ELSE KeepFraction
    BY <2>3, ChainAnswers
  <2> DEFINE failed == \E n \in Ids : LastOf(n).failed
             long == \E a, b \in Outermost : LastOf(b).end - LastOf(a).start > Threshold
  <2>5. (KeepErrors = "error" <=> failed) /\ (Duration > Threshold <=> long)
    BY <2>1, <2>2
  <2>6. KeepFraction = IF input[1].trace % RandomRange < Share THEN "sampled" ELSE "sampled out"
    BY DEF KeepFraction
  <2> HIDE DEF failed, long
  <2>7. Reason = IF failed THEN "error" ELSE IF Threshold > 0 /\ long THEN "slow" ELSE KeepFraction
    BY <2>4, <2>5, Zenon
  <2> QED
    BY <2>6, <2>7, Zenon DEF failed, long
<1> QED
  BY <1>1, TreeInvariant, SomeSpansAlways, PTL

(***************************************************************************)
(* SelfTime.                                                               *)
(***************************************************************************)

\* For any spans that arrive, the self time of a span is the time during which
\* none of its children ran, however they overlap one another and their parent.
THEOREM SelfTimeIsUncoveredAlways == Spec => []SelfTimeIsUncovered
<1>1. BuildInv /\ TreeInv => SelfTimeIsUncovered
  <2> SUFFICES ASSUME TreeInv, pc = "done", NEW n \in Ids
               PROVE  SelfTime(n) = Cardinality(Instants(n) \ UNION {Instants(c) : c \in Range(children[n])})
    BY DEF SelfTimeIsUncovered
  <2> DEFINE N == DOMAIN node
             cs == children[n]
             I == Instants(n)
             U == UNION {Instants(c) : c \in Range(cs)}
             C == {x \in I : \E j \in DOMAIN cs : x \in Instants(cs[j])}
  <2>1. /\ \A m \in N : node[m].start \in Int /\ node[m].end \in Int
        /\ \A m \in Ids : node[m] = LastOf(m) /\ LastOf(m) \in Span
        /\ N = Ids \cup Absent
    BY TopsSpan
  <2>2. Forest(N, children, parent)
    BY DoneIsForest
  <2>3. cs \in Seq(N)
    BY <2>1, <2>2 DEF Forest
  <2>4. Timed(n, N)
    BY <2>1, <2>3 DEF Timed
  <2>5. \A i, j \in DOMAIN cs : i < j => node[cs[i]].start <= node[cs[j]].start
    <3>1. InOrder(cs)
      BY <2>1 DEF TreeInv, TreeIsDetermined, Lists
    <3>2. \A i \in DOMAIN cs : cs[i] \in N
      BY <2>3, SeqLen
    <3> QED
      BY <2>1, <3>1, <3>2 DEF InOrder, ByStart
  <2>6. Busy(n) = Cardinality(C)
    BY <2>4, <2>5, BusyIsCovered
  <2>7. node[n].start <= node[n].end
    <3>1. input \in Inputs /\ input \in Seq(Span)
      BY AssemblyAssumption DEF TreeInv
    <3>2. \E i \in DOMAIN input : LastOf(n) = input[i]
      BY <3>1, LastOfArrived
    <3> QED
      BY <2>1, <3>1, <3>2, OwnTimeAssumption
  <2>8. IsFiniteSet(I) /\ Cardinality(I) = node[n].end - node[n].start
    <3> DEFINE s == node[n].start
               e == node[n].end
    <3>1. s \in Int /\ e \in Int /\ s <= e /\ I = s..(e - 1)
      BY <2>1, <2>7 DEF Instants
    <3> HIDE DEF s, e, I
    <3>2. IsFiniteSet(I) /\ Cardinality(I) = IF s > e - 1 THEN 0 ELSE (e - 1) - s + 1
      BY <3>1, FS_Interval
    <3>3. Cardinality(I) = e - s
      BY <3>1, <3>2
    <3> QED
      BY <3>2, <3>3 DEF s, e
  <2>9. C = I \cap U
    BY DEF Range
  <2>10. Cardinality(I \ U) = Cardinality(I) - Cardinality(I \cap U)
    <3> HIDE DEF I, U
    <3> QED
      BY <2>8, FS_Difference, Zenon
  <2>11. SelfTime(n) = node[n].end - node[n].start - Busy(n)
    BY DEF SelfTime
  <2> HIDE DEF I, U, C
  <2> QED
    BY <2>6, <2>8, <2>9, <2>10, <2>11, Zenon DEF I, U, cs
<1> QED
  BY <1>1, TreeInvariant, PTL

(***************************************************************************)
(* CriticalPath.                                                           *)
(***************************************************************************)

\* The nodes of a finished tree are ready for CriticalPath.
LEMMA DoneIsReady ==
  ASSUME TreeInv, pc = "done"
  PROVE  Ready
<1> DEFINE N == DOMAIN node
<1>1. input \in Inputs /\ TreeIsDetermined
  BY DEF TreeInv
<1>2. /\ \A m \in N : node[m].start \in Int /\ node[m].end \in Int
      /\ \A m \in Ids : node[m] = LastOf(m)
      /\ N = Ids \cup Absent
  BY TopsSpan
<1>3. N \subseteq Nat
  <2>1. Ids \subseteq Nat /\ \A m \in Ids : Named(m) \in Nat
    BY <1>1, SpansAreTyped
  <2>2. Absent \subseteq Nat
    BY <2>1 DEF Absent, Named
  <2> QED
    BY <1>2, <2>1, <2>2
<1>4. ASSUME NEW m \in Ids PROVE node[m].start <= node[m].end
  <2>1. PICK i \in DOMAIN input : LastOf(m) = input[i]
    BY <1>1, LastOfArrived
  <2>2. input[i].start <= input[i].end
    BY <1>1, OwnTimeAssumption
  <2> QED
    BY <1>2, <2>1, <2>2
<1>5. ASSUME NEW m \in Absent PROVE node[m].start <= node[m].end
  <2>1. /\ \A c \in Under(m) : node[m].start <= node[c].start /\ node[c].end <= node[m].end
        /\ \E c, d \in Under(m) : node[m].start = node[c].start /\ node[m].end = node[d].end
    BY <1>1, Zenon DEF TreeIsDetermined
  <2>2. PICK c \in Under(m) : node[m].start <= node[c].start /\ node[c].end <= node[m].end
    BY <2>1, Zenon
  <2>3. c \in Ids
    BY <2>2 DEF Under
  <2>4. node[c].start <= node[c].end
    BY <1>4, <2>3
  <2> DEFINE a == node[m].start
             b == node[c].start
             d == node[c].end
             e == node[m].end
  <2>5. a \in Int /\ b \in Int /\ d \in Int /\ e \in Int
    BY <1>2, <2>3
  <2>6. a <= b /\ b <= d /\ d <= e
    BY <2>2, <2>4
  <2> HIDE DEF a, b, d, e
  <2>7. a <= e
    BY <2>5, <2>6
  <2> QED
    BY <2>7 DEF a, e
<1>6. AllTimed
  BY <1>2, <1>4, <1>5 DEF AllTimed
<1> QED
  BY <1>3, <1>6, DoneIsForest DEF Ready

\* The critical path of every node of a finished tree covers it exactly once:
\* its segments follow one another from its start to its end, each within the
\* span it is spent in and none to be merged with the next, for every slice of
\* spans, however the children overlap each other and their parent.
THEOREM PathCoversOnceAlways == Spec => []PathCoversOnce
<1>1. BuildInv /\ TreeInv => PathCoversOnce
  <2> SUFFICES ASSUME TreeInv, pc = "done", NEW n \in DOMAIN node PROVE Covering(CriticalPath(n), n)
    BY Zenon DEF PathCoversOnce, Covering
  <2> QED
    BY DoneIsReady, PathCovers
<1> QED
  BY <1>1, TreeInvariant, PTL

\* What the critical path of a span spends in the span itself is its self time,
\* for every slice of spans: both are the time during which no child ran.
THEOREM PathAgreesWithSelfTimeAlways == Spec => []PathAgreesWithSelfTime
<1>1. TreeInv /\ SelfTimeIsUncovered => PathAgreesWithSelfTime
  <2> SUFFICES ASSUME TreeInv, SelfTimeIsUncovered, pc = "done", NEW n \in Ids
               PROVE  SelfTime(n) = TimeIn(CriticalPath(n), n)
    BY Zenon DEF PathAgreesWithSelfTime
  <2> DEFINE path == CriticalPath(n)
             rest == Instants(n) \ UNION {Instants(c) : c \in Range(children[n])}
  <2>1. Ready /\ n \in DOMAIN node
    BY DoneIsReady, TopsSpan
  <2>2. path \in Seq(Segment) /\ Covering(path, n) /\ SpentIn(path, n) = rest
    BY <2>1, PathCovers
  <2>3. SelfTime(n) = Cardinality(rest)
    BY Zenon DEF SelfTimeIsUncovered
  <2>4. TimeIn(path, n) = Cardinality(SpentIn(path, n))
    BY <2>2, TimeCounts, Zenon
  <2> QED
    BY <2>2, <2>3, <2>4, Zenon
<1> QED
  BY <1>1, TreeInvariant, SelfTimeIsUncoveredAlways, PTL
=============================================================================
