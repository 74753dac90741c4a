----------------------------- MODULE TreeProofs -----------------------------
(***************************************************************************)
(* What Build of internal/assembly returns, for every slice of spans and   *)
(* every order of the linking loop.  TreeInv says what has been built so   *)
(* far by the spans alone.  From it: Build never meets a nil pointer, and  *)
(* the tree it returns is the one the spans determine.                     *)
(***************************************************************************)
EXTENDS AssemblyProofs

(***************************************************************************)
(* The loops of the spans.                                                 *)
(***************************************************************************)

\* The spans of a loop are all above each other.
LEMMA LoopIsAbove ==
  ASSUME input \in Inputs, NEW L, IsLoop(L), NEW n \in L
  PROVE  Above(n) = L /\ OnLoopOf(n) = L
<1>1. L \in SUBSET Ids /\ Closed(Upward, L)
  BY DEF IsLoop
<1>2. ASSUME NEW m \in L PROVE Above(m) = L
  <2>1. Above(m) # {} /\ Above(m) \subseteq L /\ Closed(Upward, Above(m))
    BY <1>1, AboveIsClosed
  <2> QED
    BY <2>1 DEF IsLoop
<1>3. OnLoopOf(n) = {m \in Above(n) \cap Ids : n \in Above(m)}
  BY DEF OnLoopOf
<1> QED
  BY <1>1, <1>2, <1>3

\* A span above itself is in a closed set of spans.
LEMMA AboveItself ==
  ASSUME input \in Inputs, NEW n \in Ids, n \in Above(n)
  PROVE  \E L \in SUBSET Ids : n \in L /\ Closed(Upward, L)
<1> DEFINE N == Cardinality(Ids)
<1>1. N \in Nat /\ n \in Places
  BY SpansAreTyped, UpwardIsTyped, FS_CardinalityType
<1>2. PICK u \in [0..N -> Places] : /\ u[0] = n /\ Steps(Upward, u, N)
                                    /\ Above(n) = {u[i] : i \in 1..N} \ {Nil}
  BY <1>1, AboveIsWalked
<1> HIDE DEF N
<1>3. PICK t \in 1..N : u[t] = n
  BY <1>2
<1> DEFINE L == {u[i] : i \in 0..t}
<1>4. \A i \in 0..t : u[i] \in Ids
  <2> DEFINE T == {i \in 0..t : u[i] \notin Ids}
  <2> SUFFICES ASSUME T # {} PROVE FALSE
    OBVIOUS
  <2>1. PICK m \in T : \A k \in T : k <= m
    <3>1. T \in SUBSET 0..t /\ t \in Nat
      BY <1>1
    <3> HIDE DEF T
    <3> QED
      BY <3>1, GreatestExists, Zenon
  <2>2. m \in 0..t /\ u[m] \notin Ids /\ m # t
    BY <1>3
  <2>3. m + 1 \in 0..t /\ ~(m + 1 <= m) /\ m + 1 \in 1..N /\ (m + 1) - 1 = m /\ m \in 0..N
    BY <1>1, <2>2
  <2>4. u[m + 1] \in Ids
    <3>1. m + 1 \notin T
      <4> HIDE DEF T
      <4> QED
        BY <2>1, <2>3
    <3> QED
      BY <2>3, <3>1
  <2>5. u[m + 1] = Upward[u[m]] /\ u[m] \in Places
    BY <1>2, <2>3 DEF Steps
  <2> QED
    BY <2>2, <2>4, <2>5, UpwardIsTyped
<1>5. ASSUME NEW i \in 0..t PROVE \E m \in 0..t : Upward[u[i]] = u[m]
  <2>1. CASE i = t
    <3>1. 1 \in 1..N /\ 1 \in 0..t /\ 1 - 1 = 0
      BY <1>1
    <3>2. u[1] = Upward[u[0]]
      BY <1>2, <3>1 DEF Steps
    <3> QED
      BY <1>2, <1>3, <2>1, <3>1, <3>2
  <2>2. CASE i # t
    <3>1. i + 1 \in 1..N /\ i + 1 \in 0..t /\ (i + 1) - 1 = i
      BY <1>1, <2>2
    <3>2. u[i + 1] = Upward[u[i]]
      BY <1>2, <3>1 DEF Steps
    <3> QED
      BY <3>1, <3>2
  <2> QED
    BY <2>1, <2>2
<1>6. Closed(Upward, L)
  BY <1>5 DEF Closed
<1>7. n \in L /\ L \in SUBSET Ids
  BY <1>1, <1>2, <1>4
<1> QED
  BY <1>6, <1>7

\* What is above a parent is above the child; and what is above the child is
\* the parent or above it.
LEMMA AboveTheParent ==
  ASSUME input \in Inputs, NEW m \in Ids, NEW x \in Above(m)
  PROVE  x = Named(m) \/ x \in Above(Named(m))
<1> DEFINE N == Cardinality(Ids)
           p == Named(m)
<1>1. N \in Nat /\ m \in Places /\ p \in Places /\ Upward[m] = p
  BY SpansAreTyped, UpwardIsTyped, FS_CardinalityType DEF Places
<1>2. PICK u \in [0..N -> Places] : /\ u[0] = m /\ Steps(Upward, u, N)
                                    /\ Above(m) = {u[i] : i \in 1..N} \ {Nil}
  BY <1>1, AboveIsWalked
<1>3. PICK v \in [0..N -> Places] : /\ v[0] = p /\ Steps(Upward, v, N)
                                    /\ Above(p) = {v[i] : i \in 1..N} \ {Nil}
  BY <1>1, AboveIsWalked
<1> HIDE DEF N, p
<1>4. PICK t \in 1..N : u[t] = x /\ x # Nil
  BY <1>2
<1>5. 1 \in 0..N /\ 1 \in 1..N /\ 0 \in 0..N /\ 1 - 1 = 0
  BY <1>1
<1>6. u[1] = v[0]
  BY <1>1, <1>2, <1>3, <1>5 DEF Steps
<1>7. \A s \in Nat : 1 + s <= N /\ 0 + s <= N => u[1 + s] = v[0 + s]
  <2>1. \A j, k \in 0..N : u[j] = v[k] =>
          \A s \in Nat : j + s <= N /\ k + s <= N => u[j + s] = v[k + s]
    BY <1>1, <1>2, <1>3, SameWalk
  <2> QED
    BY <1>5, <1>6, <2>1
<1>8. CASE t = 1
  BY <1>3, <1>4, <1>6, <1>8 DEF p
<1>9. CASE t # 1
  <2> DEFINE s == t - 1
  <2>1. s \in Nat /\ 1 + s = t /\ 0 + s = s /\ s \in 1..N /\ 1 + s <= N /\ 0 + s <= N
    BY <1>1, <1>9
  <2> HIDE DEF s
  <2>2. v[s] = x
    BY <1>4, <1>7, <2>1
  <2> QED
    BY <1>3, <1>4, <2>1, <2>2 DEF p
<1> QED
  BY <1>8, <1>9

\* The spans on the loop of a span above itself are closed.
LEMMA OnLoopIsClosed ==
  ASSUME input \in Inputs, NEW n \in Ids, n \in Above(n)
  PROVE  n \in OnLoopOf(n) /\ OnLoopOf(n) \subseteq Ids /\ Closed(Upward, OnLoopOf(n))
<1>1. PICK L \in SUBSET Ids : n \in L /\ Closed(Upward, L)
  BY AboveItself
<1>2. Above(n) # {} /\ Above(n) \subseteq L /\ Closed(Upward, Above(n))
  BY <1>1, AboveIsClosed
<1>3. OnLoopOf(n) = {m \in Above(n) \cap Ids : n \in Above(m)}
  BY DEF OnLoopOf
<1>4. ASSUME NEW m \in OnLoopOf(n) PROVE Upward[m] \in OnLoopOf(n)
  <2>1. m \in Ids /\ m \in Above(n) /\ n \in Above(m)
    BY <1>3
  <2>2. Upward[m] = Named(m)
    BY <2>1, UpwardIsTyped
  <2>3. Upward[m] \in Above(n) /\ Upward[m] \in Ids
    BY <1>1, <1>2, <2>1 DEF Closed
  <2>4. n = Named(m) \/ n \in Above(Named(m))
    BY <2>1, AboveTheParent
  <2> QED
    BY <1>3, <2>2, <2>3, <2>4
<1> QED
  BY <1>3, <1>4 DEF Closed

(***************************************************************************)
(* What breakCycles finds, going up from a stranded node.                  *)
(***************************************************************************)

AndNil == DOMAIN node \cup {Nil}
ParentOf == [x \in AndNil |-> IF x = Nil THEN Nil ELSE parent[x]]

\* Where a walk first repeats.
FirstBack(u, k) ==
  /\ \E j \in 0..(k - 1) : u[j] = u[k]
  /\ \A i, j \in 0..(k - 1) : i # j => u[i] # u[j]

\* Going up from a node of a closed set, breakCycles finds a loop in it: a
\* closed set with no smaller one in it, and in every closed set of the node.
LEMMA LoopGoesRound ==
  ASSUME IsFiniteSet(DOMAIN node), parent \in [DOMAIN node -> AndNil], Nil \notin DOMAIN node,
         NEW U \in SUBSET DOMAIN node, Closed(parent, U), NEW h \in U
  PROVE  /\ Loop(h) # {} /\ Closed(parent, Loop(h))
         /\ \A V \in SUBSET Loop(h) : V # {} /\ Closed(parent, V) => V = Loop(h)
         /\ \A V \in SUBSET DOMAIN node : h \in V /\ Closed(parent, V) => Loop(h) \subseteq V
\* The places a walk goes round in have no closed part.
<1>LoopIsLeast. ASSUME NEW g, NEW N \in Nat, NEW u, Steps(g, u, N),
                       NEW j \in 0..N, NEW k \in 0..N, j < k, u[j] = u[k], k + k <= N,
                       NEW V, V # {}, V \subseteq Visited(u, k, N), Closed(g, V)
                PROVE  Visited(u, k, N) \subseteq V
  <2> USE <1>LoopIsLeast
  <2>1. PICK a \in k..N : u[a] \in V
    BY DEF Visited
  <2>2. u[N] \in V
    <3>1. a \in 0..N /\ N \in a..N
      OBVIOUS
    <3>2. \A i \in a..N : u[i] \in V
      BY <2>1, <3>1, StaysInside
    <3> QED
      BY <3>1, <3>2
  <2> DEFINE b == j + (N - k) + 1
  <2>3. 0 <= b /\ b \in 0..N /\ k \in 0..N /\ k <= b
    OBVIOUS
  <2>4. g[u[N]] = u[b]
    BY WalkReturns
  <2>5. \A i \in b..N : u[i] \in V
    BY <2>2, <2>3, <2>4, StaysInside, Zenon DEF Closed
  <2> DEFINE T == {i \in k..N : u[i] \notin V}
  <2> SUFFICES ASSUME T # {} PROVE FALSE
    BY DEF Visited
  <2>6. PICK m \in T : \A i \in T : i <= m
    <3>1. T \in SUBSET 0..N
      OBVIOUS
    <3> HIDE DEF T
    <3> QED
      BY <3>1, GreatestExists, Zenon
  <2>7. m \in k..N /\ u[m] \notin V
    OBVIOUS
  <2>8. m < b
    BY <2>3, <2>5, <2>7
  <2> DEFINE s == m - j
  <2>9. s \in Nat /\ j + s = m /\ k + s \in k..N /\ ~(k + s <= m) /\ j + s <= N /\ k + s <= N
    BY <2>7, <2>8
  <2>10. u[k + s] \in V
    <3>1. k + s \notin T
      <4> HIDE DEF T, s
      <4> QED
        BY <2>6, <2>9
    <3> HIDE DEF s
    <3> QED
      BY <2>9, <3>1
  <2> HIDE DEF s
  <2>11. u[j + s] = u[k + s]
    BY <2>9, SameWalk
  <2> QED
    BY <2>7, <2>9, <2>10, <2>11
\* Up is a walk.
<1>UpIsWalked. ASSUME NEW n \in AndNil
               PROVE  LET N == 2 * Cardinality(DOMAIN node)
                      IN  /\ N \in Nat /\ ParentOf \in [AndNil -> AndNil]
                          /\ Up(n) \in [0..N -> AndNil] /\ Up(n)[0] = n /\ Steps(ParentOf, Up(n), N)
  <2> USE <1>UpIsWalked
  <2> DEFINE N == 2 * Cardinality(DOMAIN node)
             up[i \in 0..N] == IF i = 0 THEN n ELSE IF up[i - 1] = Nil THEN Nil ELSE parent[up[i - 1]]
             Turn(v) == [i \in 0..N |-> IF i = 0 THEN n ELSE IF v[i - 1] = Nil THEN Nil ELSE parent[v[i - 1]]]
  <2>1. Up(n) = up
    BY DEF Up
  <2>2. up = CHOOSE v : v = Turn(v)
    BY DEF up
  <2>3. N \in Nat
    BY FS_CardinalityType
  <2>4. ParentOf \in [AndNil -> AndNil]
    BY DEF ParentOf, AndNil
  <2> HIDE DEF N
  <2>5. PICK w \in [0..N -> AndNil] : w[0] = n /\ Steps(ParentOf, w, N)
    BY <2>3, <2>4, WalkExists
  <2>6. ASSUME NEW i \in 1..N, NEW v, v[i - 1] \in AndNil
        PROVE  ParentOf[v[i - 1]] = IF v[i - 1] = Nil THEN Nil ELSE parent[v[i - 1]]
    BY <2>6 DEF ParentOf
  <2>7. w = Turn(w)
    <3>1. ASSUME NEW i \in 0..N PROVE w[i] = Turn(w)[i]
      <4>1. CASE i = 0
        BY <2>5, <4>1
      <4>2. CASE i # 0
        <5>1. i \in 1..N /\ i - 1 \in 0..N
          BY <2>3, <4>2
        <5>2. w[i] = ParentOf[w[i - 1]] /\ w[i - 1] \in AndNil
          BY <2>5, <5>1 DEF Steps
        <5>3. w[i] = IF w[i - 1] = Nil THEN Nil ELSE parent[w[i - 1]]
          BY <2>6, <5>1, <5>2, Zenon
        <5> QED
          BY <4>2, <5>3
      <4> QED
        BY <4>1, <4>2
    <3> QED
      BY <2>5, <3>1
  <2>8. up = Turn(up)
    BY <2>2, <2>7, Zenon
  <2> HIDE DEF up
  <2>9. up = [i \in 0..N |-> up[i]] /\ up[0] = n
    BY <2>3, <2>8
  <2>10. ASSUME NEW i \in 1..N, up[i - 1] \in AndNil PROVE up[i] = ParentOf[up[i - 1]]
    <3>1. i \in 0..N /\ i # 0
      OBVIOUS
    <3>2. up[i] = IF up[i - 1] = Nil THEN Nil ELSE parent[up[i - 1]]
      BY <2>8, <3>1, Zenon
    <3> QED
      BY <2>6, <2>10, <3>2
  <2>11. up \in [0..N -> AndNil] /\ Steps(ParentOf, up, N)
    BY <2>3, <2>4, <2>9, <2>10, StepwiseIsWalk, Zenon
  <2> QED
    BY <2>1, <2>3, <2>4, <2>9, <2>11 DEF N
\* A walk among no more than c nodes has its first repeat within c steps.
<1>RepeatExists. ASSUME NEW N \in Nat, NEW c \in Nat, c <= N, NEW u,
                        \E i, j \in 0..c : i < j /\ u[i] = u[j]
                 PROVE  (\E k \in 0..N : FirstBack(u, k)) /\ (\A k \in 0..N : FirstBack(u, k) => k <= c)
  <2> USE <1>RepeatExists
  <2>1. PICK a, b \in 0..c : a < b /\ u[a] = u[b]
    OBVIOUS
  <2> DEFINE T == {k \in 0..N : \E j \in 0..(k - 1) : u[j] = u[k]}
  <2>2. T # {} /\ T \in SUBSET Nat
    BY <2>1
  <2>3. PICK k \in T : \A i \in T : k <= i
    <3> HIDE DEF T
    <3> QED
      BY <2>2, LeastExists
  <2>4. k \in 0..N /\ \E j \in 0..(k - 1) : u[j] = u[k]
    OBVIOUS
  <2>5. ASSUME NEW i \in 0..(k - 1), NEW j \in 0..(k - 1), i < j PROVE u[i] # u[j]
    <3>1. j \in 0..N /\ i \in 0..(j - 1) /\ ~(k <= j)
      BY <2>4, <2>5
    <3>2. j \notin T
      <4> HIDE DEF T
      <4> QED
        BY <2>3, <3>1
    <3> QED
      BY <3>1, <3>2
  <2>6. \A i, j \in 0..(k - 1) : i # j => u[i] # u[j]
    <3> SUFFICES ASSUME NEW i \in 0..(k - 1), NEW j \in 0..(k - 1), i # j PROVE u[i] # u[j]
      OBVIOUS
    <3>1. i < j \/ j < i
      BY <2>4
    <3> QED
      BY <2>5, <3>1
  <2>7. ASSUME NEW m \in 0..N, FirstBack(u, m) PROVE m <= c
    <3> SUFFICES ASSUME ~(m <= c) PROVE FALSE
      OBVIOUS
    <3>1. a \in 0..(m - 1) /\ b \in 0..(m - 1) /\ a # b
      BY <2>1
    <3> QED
      BY <2>1, <2>7, <3>1 DEF FirstBack
  <2> QED
    BY <2>4, <2>6, <2>7 DEF FirstBack
<1> DEFINE C == Cardinality(DOMAIN node)
           c == Cardinality(U)
           N == 2 * C
           u == Up(h)
           k == FirstRepeat(h)
<1>1. C \in Nat /\ IsFiniteSet(U) /\ c \in Nat /\ c <= C /\ N \in Nat /\ C <= N /\ c <= N /\ N = C + C
  BY FS_CardinalityType, FS_Subset
<1>2. u \in [0..N -> AndNil] /\ u[0] = h /\ Steps(ParentOf, u, N)
  <2>1. h \in AndNil
    BY DEF AndNil
  <2> QED
    BY <2>1, <1>UpIsWalked
<1>3. ASSUME NEW V \in SUBSET DOMAIN node PROVE Closed(ParentOf, V) <=> Closed(parent, V)
  BY Zenon DEF Closed, ParentOf, AndNil
<1>4. Loop(h) = Visited(u, k, N)
  BY DEF Loop, Visited
<1>5. FirstRepeat(h) = CHOOSE m \in DOMAIN u : FirstBack(u, m)
  BY DEF FirstRepeat, FirstBack
<1> HIDE DEF C, c, N, u
<1>6. \E i, j \in 0..c : i < j /\ u[i] = u[j]
  BY <1>1, <1>2, <1>3, WalkRepeats DEF c
<1>7. k \in 0..N /\ (\E j \in 0..(k - 1) : u[j] = u[k]) /\ k <= c
  <2>1. (\E m \in 0..N : FirstBack(u, m)) /\ (\A m \in 0..N : FirstBack(u, m) => m <= c)
    BY <1>1, <1>6, <1>RepeatExists, Zenon
  <2>2. DOMAIN u = 0..N
    BY <1>2
  <2>3. k \in 0..N /\ FirstBack(u, k)
    BY <1>5, <2>1, <2>2
  <2> QED
    BY <2>1, <2>3 DEF FirstBack
<1> HIDE DEF k
<1>8. PICK j \in 0..N : j < k /\ u[j] = u[k]
  BY <1>1, <1>7
<1>9. k + k <= N /\ k <= j + (N - k) + 1
  BY <1>1, <1>7, <1>8
<1>10. Closed(ParentOf, Visited(u, k, N))
  BY <1>1, <1>2, <1>7, <1>8, <1>9, WalkCloses
<1>11. ASSUME NEW V \in SUBSET DOMAIN node, h \in V, Closed(parent, V) PROVE Loop(h) \subseteq V
  <2>1. Closed(ParentOf, V) /\ u[0] \in V /\ 0 \in 0..N
    BY <1>1, <1>2, <1>3, <1>11
  <2>2. \A i \in 0..N : u[i] \in V
    BY <1>1, <1>2, <2>1, StaysInside
  <2>3. \A i \in k..N : i \in 0..N
    BY <1>7
  <2> QED
    BY <1>4, <2>2, <2>3 DEF Visited
<1>12. Loop(h) \in SUBSET DOMAIN node
  BY <1>11
<1>13. Loop(h) # {}
  <2>1. k \in k..N
    BY <1>7
  <2> QED
    BY <1>4, <2>1 DEF Visited
<1>14. ASSUME NEW V \in SUBSET Loop(h), V # {}, Closed(parent, V) PROVE V = Loop(h)
  <2>1. Closed(ParentOf, V) /\ V \subseteq Visited(u, k, N)
    BY <1>3, <1>4, <1>12, <1>14
  <2>2. Visited(u, k, N) \subseteq V
    BY <1>1, <1>2, <1>7, <1>8, <1>9, <1>14, <2>1, <1>LoopIsLeast
  <2> QED
    BY <1>4, <2>1, <2>2, Zenon
<1> QED
  BY <1>3, <1>4, <1>10, <1>11, <1>12, <1>13, <1>14

(***************************************************************************)
(* Slices without repeats.                                                 *)
(***************************************************************************)

\* Nothing is listed by the empty slice.
LEMMA ListingEmpty == Listing(<< >>, {})
  BY DEF Listing, Range, NoRepeat

\* One element is listed by a slice of length one.
LEMMA ListingOne == ASSUME NEW x PROVE Listing(<<x>>, {x})
  BY DEF Listing, Range, NoRepeat

\* A slice without repeats is as long as there are elements.
LEMMA ListingCounts ==
  ASSUME NEW S, NEW s, Listing(s, S)
  PROVE  IsFiniteSet(S) /\ Cardinality(S) = Len(s) /\ Len(s) \in Nat
<1> DEFINE n == Len(s)
<1>1. s \in Seq(S) /\ n \in Nat /\ DOMAIN s = 1..n
  BY SeqLen DEF Listing
<1>2. s \in [1..n -> S]
  BY <1>1
<1>3. s \in Bijection(1..n, S)
  <2>1. s \in Injection(1..n, S)
    BY <1>1, <1>2 DEF Injection, IsInjective, Listing, NoRepeat
  <2>2. s \in Surjection(1..n, S)
    BY <1>1, <1>2 DEF Surjection, Listing, Range
  <2> QED
    BY <2>1, <2>2 DEF Bijection
<1>4. IsFiniteSet(1..n) /\ Cardinality(1..n) = n
  BY <1>1, Counting
<1> DEFINE D == 1..n
<1>5. ExistsBijection(D, S)
  BY <1>3 DEF ExistsBijection
<1> HIDE DEF D
<1>6. IsFiniteSet(S) /\ Cardinality(S) = Cardinality(D)
  BY <1>4, <1>5, FS_Bijection DEF D
<1> QED
  BY <1>1, <1>4, <1>6 DEF D

\* Append lists one element more.
LEMMA ListingAppend ==
  ASSUME NEW S, NEW s, Listing(s, S), NEW x, x \notin S
  PROVE  Listing(Append(s, x), S \cup {x})
<1> DEFINE T == S \cup {x}
           r == Append(s, x)
           n == Len(s)
<1>1. s \in Seq(S) /\ s \in Seq(T) /\ Range(s) = S /\ x \in T
  BY SeqGrows DEF Listing
<1>2. r \in Seq(T) /\ Range(r) = T
  <2> HIDE DEF T
  <2>1. r \in Seq(T) /\ Range(r) = Range(s) \cup {x}
    BY <1>1, AppendElements
  <2> QED
    BY <1>1, <2>1 DEF T
<1>3. n \in Nat /\ DOMAIN s = 1..n /\ Len(r) = n + 1 /\ r[n + 1] = x /\ \A i \in 1..n : r[i] = s[i]
  BY <1>1, SeqLen, SeqAppend
<1>4. DOMAIN r = 1..(n + 1)
  BY <1>2, <1>3, SeqLen
<1> HIDE DEF r, T
<1>5. \A i \in 1..n : s[i] \in S
  BY <1>1, <1>3 DEF Range
<1>6. \A i \in 1..(n + 1) : i = n + 1 \/ i \in 1..n
  BY <1>3
<1>7. ASSUME NEW i \in 1..(n + 1), NEW j \in 1..(n + 1), r[i] = r[j] PROVE i = j
  <2>1. CASE i \in 1..n /\ j \in 1..n
    BY <1>3, <1>7, <2>1 DEF Listing, NoRepeat
  <2>2. CASE i = n + 1 \/ j = n + 1
    BY <1>3, <1>5, <1>6, <1>7, <2>2
  <2> QED
    BY <1>6, <2>1, <2>2
<1>8. NoRepeat(r)
  BY <1>4, <1>7 DEF NoRepeat
<1> QED
  BY <1>2, <1>8 DEF Listing, r, T

\* DeleteFunc of a node takes that one out.
LEMMA ListingWithout ==
  ASSUME NEW S, NEW s, Listing(s, S), NEW x \in S
  PROVE  Listing(Without(s, x), S \ {x})
<1> DEFINE n == Len(s)
           r == Without(s, x)
<1>1. s \in Seq(S) /\ n \in Nat /\ DOMAIN s = 1..n /\ Range(s) = S
  BY SeqLen DEF Listing
<1>2. PICK k \in 1..n : s[k] = x /\ r = SubSeq(s, 1, k - 1) \o SubSeq(s, k + 1, n)
  BY <1>1, Zenon DEF Without, RemovedAt, Range
<1>3. n - 1 \in Nat /\ r = [i \in 1..(n - 1) |-> IF i < k THEN s[i] ELSE s[i + 1]]
  <2> DEFINE a == SubSeq(s, 1, k - 1)
             b == SubSeq(s, k + 1, n)
  <2>1. a \in Seq(S) /\ Len(a) = k - 1 /\ \A i \in 1..(k - 1) : a[i] = s[i]
    <3>1. \A i \in 1..(k - 1) : s[i] \in S
      BY <1>1, SeqElement
    <3> QED
      BY <1>1, <3>1
  <2>2. b \in Seq(S) /\ Len(b) = n - k /\ \A i \in 1..(n - k) : b[i] = s[k + i]
    <3>1. k + 1 \in Int /\ n \in Int /\ \A i \in (k + 1)..n : s[i] \in S
      BY <1>1, SeqElement
    <3> DEFINE l == k + 1
    <3>2. l \in Int /\ \A i \in l..n : s[i] \in S
      BY <3>1
    <3> HIDE DEF l
    <3>3. /\ SubSeq(s, l, n) \in Seq(S)
          /\ Len(SubSeq(s, l, n)) = IF l <= n THEN n - l + 1 ELSE 0
          /\ \A i \in 1..(n - l + 1) : SubSeq(s, l, n)[i] = s[l + i - 1]
      BY <3>1, <3>2, SeqSub
    <3>4. (IF l <= n THEN n - l + 1 ELSE 0) = n - k /\ n - l + 1 = n - k
      <4> DEFINE N == n
      <4>1. N \in Nat /\ k \in 1..N
        BY <1>1
      <4> HIDE DEF N
      <4>2. N - l + 1 = N - k /\ (l <= N \/ N = k)
        BY <4>1 DEF l
      <4>3. N - N = 0
        BY <4>1
      <4> QED
        BY <4>2, <4>3 DEF N
    <3>5. \A i \in 1..(n - k) : l + i - 1 = k + i
      BY <1>1 DEF l
    <3> QED
      BY <3>3, <3>4, <3>5, Zenon DEF l
  <2> HIDE DEF a, b
  <2>3. /\ a \o b \in Seq(S) /\ Len(a \o b) = Len(a) + Len(b)
        /\ \A i \in 1..(Len(a) + Len(b)) : (a \o b)[i] = IF i <= Len(a) THEN a[i] ELSE b[i - Len(a)]
    BY <2>1, <2>2, SeqConcat, Zenon
  <2>4. Len(a) + Len(b) = n - 1 /\ n - 1 \in Nat
    BY <1>1, <2>1, <2>2
  <2>5. DOMAIN (a \o b) = 1..(n - 1)
    BY <2>3, <2>4, SeqLen
  <2>6. ASSUME NEW i \in 1..(n - 1) PROVE (a \o b)[i] = IF i < k THEN s[i] ELSE s[i + 1]
    <3>1. (a \o b)[i] = IF i <= k - 1 THEN a[i] ELSE b[i - (k - 1)]
      BY <2>1, <2>3, <2>4
    <3>2. CASE i < k
      <4>1. i \in 1..(k - 1) /\ i <= k - 1
        BY <1>1, <3>2
      <4> QED
        BY <2>1, <3>1, <3>2, <4>1
    <3>3. CASE ~(i < k)
      <4>1. i - (k - 1) \in 1..(n - k) /\ ~(i <= k - 1) /\ k + (i - (k - 1)) = i + 1
        BY <1>1, <3>3
      <4> QED
        BY <2>2, <3>1, <3>3, <4>1
    <3> QED
      BY <3>2, <3>3, Zenon
  <2>7. a \o b = [i \in 1..(n - 1) |-> IF i < k THEN s[i] ELSE s[i + 1]]
    <3> DEFINE c == a \o b
    <3>1. c \in Seq(S)
      BY <2>3
    <3>2. DOMAIN c = 1..(n - 1) /\ \A i \in 1..(n - 1) : c[i] = IF i < k THEN s[i] ELSE s[i + 1]
      BY <2>5, <2>6
    <3> HIDE DEF c
    <3>3. c = [i \in 1..(n - 1) |-> c[i]]
      BY <3>1, <3>2
    <3> QED
      BY <3>2, <3>3 DEF c
  <2> QED
    BY <1>2, <2>4, <2>7, Zenon DEF a, b
<1> HIDE DEF r
<1> DEFINE to == [i \in 1..(n - 1) |-> IF i < k THEN i ELSE i + 1]
<1>4. \A i \in 1..(n - 1) : to[i] \in 1..n /\ to[i] # k /\ r[i] = s[to[i]]
  BY <1>1, <1>3
<1>5. \A i, j \in 1..(n - 1) : to[i] = to[j] => i = j
  BY <1>1
<1>6. \A m \in 1..n : m # k => \E i \in 1..(n - 1) : to[i] = m
  <2> SUFFICES ASSUME NEW m \in 1..n, m # k PROVE \E i \in 1..(n - 1) : to[i] = m
    OBVIOUS
  <2>1. CASE m < k
    <3>1. m \in 1..(n - 1) /\ to[m] = m
      BY <1>1, <2>1
    <3> QED
      BY <3>1
  <2>2. CASE ~(m < k)
    <3>1. m - 1 \in 1..(n - 1) /\ to[m - 1] = m
      BY <1>1, <2>2
    <3> QED
      BY <3>1
  <2> QED
    BY <2>1, <2>2
<1> HIDE DEF to
<1>7. DOMAIN r = 1..(n - 1)
  BY <1>3
<1>8. \A m \in 1..n : s[m] \in S /\ (m # k => s[m] # x)
  BY <1>1, <1>2, SeqElement DEF Listing, NoRepeat
<1>9. NoRepeat(r)
  BY <1>1, <1>4, <1>5, <1>7 DEF NoRepeat, Listing
<1>10. \A i \in 1..(n - 1) : r[i] \in S \ {x}
  BY <1>4, <1>8
<1>11. r \in Seq(S \ {x})
  BY <1>3, <1>7, <1>10
<1>12. Range(r) = S \ {x}
  <2>1. ASSUME NEW y \in S \ {x} PROVE y \in Range(r)
    <3>1. PICK m \in 1..n : s[m] = y
      BY <1>1 DEF Range
    <3>2. PICK i \in 1..(n - 1) : to[i] = m
      BY <1>2, <1>6, <2>1, <3>1
    <3> QED
      BY <1>4, <1>7, <3>1, <3>2, Zenon DEF Range
  <2> QED
    BY <1>7, <1>10, <2>1 DEF Range
<1> QED
  BY <1>9, <1>11, <1>12 DEF Listing, r

\* The first element and the rest.
LEMMA HeadElements ==
  ASSUME NEW S, NEW s \in Seq(S), s # << >>
  PROVE  Head(s) \in S /\ Tail(s) \in Seq(S) /\ Range(s) = {Head(s)} \cup Range(Tail(s))
<1> DEFINE t == Tail(s)
           n == Len(t)
<1>1. Head(s) \in S /\ t \in Seq(S) /\ n = Len(s) - 1 /\ \A i \in 1..n : t[i] = s[i + 1]
  BY SeqTail
<1>2. n \in Nat /\ DOMAIN t = 1..n /\ DOMAIN s = 1..(n + 1) /\ Head(s) = s[1]
  BY <1>1, SeqLen, SeqEmpty
<1> HIDE DEF t
<1>3. \A i \in 1..(n + 1) : i = 1 \/ (i - 1 \in 1..n /\ (i - 1) + 1 = i)
  BY <1>2
<1>4. \A i \in 1..n : i + 1 \in 1..(n + 1)
  BY <1>2
<1>5. 1 \in 1..(n + 1)
  BY <1>2
<1>6. Range(s) \subseteq {Head(s)} \cup Range(t)
  <2> SUFFICES ASSUME NEW i \in 1..(n + 1) PROVE s[i] \in {Head(s)} \cup Range(t)
    BY <1>2 DEF Range
  <2>1. CASE i = 1
    BY <1>2, <2>1
  <2>2. CASE i - 1 \in 1..n /\ (i - 1) + 1 = i
    <3>1. t[i - 1] = s[i]
      BY <1>1, <2>2
    <3>2. t[i - 1] \in Range(t)
      BY <1>2, <2>2 DEF Range
    <3> QED
      BY <3>1, <3>2
  <2> QED
    BY <1>3, <2>1, <2>2
<1>7. {Head(s)} \cup Range(t) \subseteq Range(s)
  BY <1>1, <1>2, <1>4, <1>5 DEF Range
<1> QED
  BY <1>1, <1>6, <1>7 DEF t

\* Stacked adds nothing.
LEMMA ReverseNoMore ==
  ASSUME NEW S, NEW s \in Seq(S)
  PROVE  Range(Stacked(s)) \subseteq Range(s)
<1>1. DOMAIN Stacked(s) = 1..Len(s) /\ DOMAIN s = 1..Len(s) /\ Len(s) \in Nat
  BY DEF Stacked
<1>2. ASSUME NEW i \in 1..Len(s)
      PROVE  \E j \in 1..Len(s) : s[j] = Stacked(s)[i]
  <2>1. Len(s) - i + 1 \in 1..Len(s) /\ Stacked(s)[i] = s[Len(s) - i + 1]
    BY DEF Stacked
  <2> QED
    BY <2>1
<1> QED
  BY <1>1, <1>2 DEF Range

\* A turn of mark's loop adds nothing but the children.
LEMMA TurnNoMore ==
  ASSUME NEW S, NEW s \in Seq(S), s # << >>, NEW cs \in Seq(S)
  PROVE  Top(s) \in Range(s) /\ Range(Pop(s) \o cs) \subseteq Range(s) \cup Range(cs)
<1> DEFINE n == Len(s)
<1>1. n \in 1..n /\ n \in Nat /\ DOMAIN s = 1..n
  BY SeqEmpty, SeqLen
<1>2. Top(s) \in Range(s)
  BY <1>1 DEF Top, Range
<1>3. \A i \in 1..(n - 1) : s[i] \in S
  BY <1>1, SeqElement
<1>4. n - 1 \in Int /\ 1 \in Int
  BY <1>1
<1>5. /\ Pop(s) \in Seq(S) /\ Len(Pop(s)) = IF 1 <= n - 1 THEN (n - 1) - 1 + 1 ELSE 0
      /\ \A i \in 1..((n - 1) - 1 + 1) : Pop(s)[i] = s[1 + i - 1]
  <2> DEFINE m == n - 1
  <2>1. m \in Int /\ \A i \in 1..m : s[i] \in S
    BY <1>3, <1>4
  <2> HIDE DEF m
  <2>2. /\ SubSeq(s, 1, m) \in Seq(S) /\ Len(SubSeq(s, 1, m)) = IF 1 <= m THEN m - 1 + 1 ELSE 0
        /\ \A i \in 1..(m - 1 + 1) : SubSeq(s, 1, m)[i] = s[1 + i - 1]
    BY <1>4, <2>1, SeqSub
  <2> QED
    BY <2>2 DEF m, Pop
<1> DEFINE f == Pop(s)
<1>6. DOMAIN f = 1..(n - 1) /\ \A i \in 1..(n - 1) : f[i] = s[i]
  <2>1. Len(f) = n - 1
    <3> DEFINE N == n
    <3>1. N \in Nat /\ N \in 1..N
      BY <1>1
    <3> HIDE DEF N
    <3>2. (N - 1) - 1 + 1 = N - 1 /\ (1 <= N - 1 \/ N - 1 = 0)
      BY <3>1
    <3> QED
      BY <1>5, <3>2, Zenon DEF N
  <2>2. DOMAIN f = 1..(n - 1)
    BY <1>5, <2>1, SeqLen
  <2>3. ASSUME NEW i \in 1..(n - 1) PROVE f[i] = s[i]
    <3>1. i \in 1..((n - 1) - 1 + 1) /\ 1 + i - 1 = i
      BY <1>1
    <3> QED
      BY <1>5, <3>1
  <2> QED
    BY <2>2, <2>3
<1>7. f \in Seq(S)
  BY <1>5
<1> HIDE DEF f
<1>8. Range(f) \subseteq Range(s)
  <2>1. \A i \in 1..(n - 1) : i \in 1..n
    BY <1>1
  <2> QED
    BY <1>1, <1>6, <2>1 DEF Range
<1>9. Range(f \o cs) = Range(f) \cup Range(cs)
  BY <1>7, ConcatElements
<1> QED
  BY <1>2, <1>8, <1>9 DEF f

(***************************************************************************)
(* What Build has made so far, from the spans alone: the nodes, the slices *)
(* and the links of the spans linked, but for those cut.                   *)
(***************************************************************************)

Building == {"link", "finish"} \cup Marking

\* The spans linked, those of them still under the parent they name, and the
\* parents named by S that did not arrive.
Done == Ids \ todo
Kept == Done \ Range(cycles)
AbsentOf(S) == {Named(n) : n \in S} \ (Ids \cup {Nil})
Rootless == {n \in Done : Named(n) = Nil} \cup AbsentOf(Done) \cup Range(cycles)
KeptUnder(m) == {c \in Kept : Named(c) = m}
NodesAre == node \in [Ids \cup AbsentOf(Done) -> Span] /\ \A n \in Ids : node[n] = LastOf(n)
SlicesAre ==
  /\ Listing(cycles, Range(cycles)) /\ \A n \in Range(cycles) : n \in Done /\ Named(n) \in Ids
  /\ Listing(missing, AbsentOf(Done)) /\ Listing(roots, Rootless)
LinksAre ==
  /\ parent = [n \in DOMAIN node |-> IF n \in Kept THEN Named(n) ELSE Nil]
  /\ children = [n \in DOMAIN node |-> children[n]]
  /\ \A m \in DOMAIN node : Listing(children[m], KeptUnder(m))
Shape == todo \subseteq Ids /\ NodesAre /\ SlicesAre /\ LinksAre

\* Going up by Parent from a span of L stays in L.
Round(L) == L # {} /\ Closed(parent, L)

\* Nothing marked, or about to be, is on a round or leads to one ...
Untouched == \A L \in SUBSET Ids : Round(L) => L \cap (reached \cup Range(stack)) = {}

\* ... and what is left of stranded has a span of each.
LeadsBack == stranded \in Seq(Ids) /\ \A L \in SUBSET Ids : Round(L) => L \cap Range(stranded) # {}
NoRounds == \A L \in SUBSET Ids : ~Round(L)

\* The children of each node of the finished tree, without repeats.
ChildrenListed ==
  /\ children = [n \in DOMAIN node |-> children[n]]
  /\ \A n \in DOMAIN node : Listing(children[n], Under(n))
TreeInv ==
  /\ input \in Inputs
  /\ pc = "collect" => cycles = << >> /\ roots = << >> /\ missing = << >> /\ reached = {}
  /\ pc \in Building => Shape
  /\ pc \in {"link", "mark"} => cycles = << >>
  /\ pc = "link" => reached = {}
  /\ pc \in Building \ {"link"} => todo = {} /\ reached \subseteq DOMAIN node
  /\ pc \in Marking => Untouched
  /\ pc \in {"cut", "remark"} => LeadsBack
  /\ pc \in {"finish", "done"} => NoRounds
  /\ pc = "finish" => Ascending(node, cycles)
  /\ pc = "done" => Listing(roots, Tops) /\ Listing(missing, Absent) /\ Listing(cycles, Cuts) /\ ChildrenListed
  /\ Range(cycles) \subseteq Cuts
  /\ pc # "panic"
  /\ TreeIsDetermined

\* What is defined of the spans alone does not change with the tree.
LEMMA InputFixed ==
  ASSUME input' = input
  PROVE  /\ Ids' = Ids /\ Cuts' = Cuts
         /\ \A n : LastOf(n)' = LastOf(n) /\ Named(n)' = Named(n)
         /\ \A S : AbsentOf(S)' = AbsentOf(S)
<1>1. Ids' = Ids /\ \A n : LastOf(n)' = LastOf(n)
  BY DEF Ids, LastOf
<1>2. \A n : Named(n)' = Named(n)
  BY <1>1 DEF Named
<1>3. \A S : AbsentOf(S)' = AbsentOf(S)
  BY <1>1, <1>2 DEF AbsentOf
<1>4. \A n : Above(n)' = Above(n)
  BY DEF Above, Ids, LastOf
<1>5. \A n : OnLoopOf(n)' = OnLoopOf(n)
  BY <1>1, <1>4 DEF OnLoopOf
<1>6. Cuts' = Cuts
  BY <1>1, <1>5 DEF Cuts
<1> QED
  BY <1>1, <1>2, <1>3, <1>6

\* Collecting the spans gives each its node, unlinked.
LEMMA CollectTree == TreeInv /\ Collect => TreeInv'
<1> SUFFICES ASSUME TreeInv, Collect PROVE TreeInv'
  OBVIOUS
<1>1. input \in Inputs /\ input' = input /\ cycles' = << >> /\ roots' = << >> /\ missing' = << >>
      /\ reached' = {} /\ pc' = "link" /\ todo' = Ids /\ cycles' = cycles
  BY DEF TreeInv, Collect
<1>2. node' = [id \in Ids |-> LastOf(id)] /\ parent' = [id \in Ids |-> Nil]
      /\ children' = [id \in Ids |-> << >>]
  BY DEF Collect
<1>3. Ids' = Ids /\ Cuts' = Cuts /\ (\A n : LastOf(n)' = LastOf(n) /\ Named(n)' = Named(n))
      /\ \A S : AbsentOf(S)' = AbsentOf(S)
  BY <1>1, InputFixed
<1>4. \A n \in Ids : LastOf(n) \in Span
  BY <1>1, SpansAreTyped
<1>5. Range(cycles') = {}
  BY <1>1 DEF Range
<1>6. Done' = {} /\ Kept' = {} /\ AbsentOf({}) = {}
  BY <1>1, <1>3 DEF Done, Kept, AbsentOf
<1>7. Rootless' = {} /\ \A m : KeptUnder(m)' = {}
  BY <1>3, <1>5, <1>6 DEF Rootless, KeptUnder
<1>8. NodesAre'
  <2>1. Ids' \cup AbsentOf(Done)' = Ids
    BY <1>3, <1>6
  <2>2. node' \in [Ids -> Span] /\ \A n \in Ids : node'[n] = LastOf(n)
    BY <1>2, <1>4
  <2> QED
    BY <1>3, <2>1, <2>2 DEF NodesAre
<1>9. SlicesAre'
  BY <1>1, <1>3, <1>5, <1>6, <1>7, ListingEmpty, Zenon DEF SlicesAre
<1>10. LinksAre'
  BY <1>2, <1>6, <1>7, ListingEmpty, Zenon DEF LinksAre
<1>11. Shape'
  BY <1>1, <1>3, <1>8, <1>9, <1>10 DEF Shape
<1> QED
  BY <1>1, <1>5, <1>11 DEF TreeInv, Building, Marking, TreeIsDetermined

\* Each of the ways to link a span keeps TreeInv.
LEMMA LinkTree == TreeInv /\ Link => TreeInv'
\* A span that is linked joins the others.
<1>LinkedJoins. ASSUME TreeInv, NEW n \in todo, Linking(n), input' = input, cycles' = cycles
                PROVE  /\ n \in Ids /\ n \notin Done /\ Done' = Done \cup {n} /\ Kept = Done /\ Kept' = Kept \cup {n}
                       /\ Range(cycles) = {} /\ cycles = << >> /\ Shape /\ node[n].parent = Named(n) /\ reached = {}
                       /\ node[n] \in Span /\ n \in DOMAIN node /\ Nil \notin DOMAIN node /\ todo' \subseteq Ids
                       /\ \A m : KeptUnder(m)' = IF m = Named(n) THEN KeptUnder(m) \cup {n} ELSE KeptUnder(m)
  <2> USE <1>LinkedJoins
  <2>1. pc = "link" /\ todo' = todo \ {n} /\ Shape /\ cycles = << >> /\ reached = {} /\ input \in Inputs
    BY DEF Linking, TreeInv, Building
  <2>2. Ids' = Ids /\ \A m : Named(m)' = Named(m)
    BY InputFixed
  <2>3. n \in Ids /\ todo \subseteq Ids
    BY <2>1 DEF Shape
  <2>4. n \notin Done /\ Done' = Done \cup {n} /\ todo' \subseteq Ids
    BY <2>1, <2>2, <2>3 DEF Done
  <2>5. Range(cycles) = {} /\ Range(cycles') = {}
    BY <2>1 DEF Range
  <2>6. Kept = Done /\ Kept' = Kept \cup {n}
    BY <2>4, <2>5 DEF Kept
  <2>7. node[n] \in Span /\ node[n].parent = Named(n) /\ n \in DOMAIN node
    BY <2>1, <2>3 DEF Shape, NodesAre, Named
  <2>8. Nil \notin DOMAIN node
    BY <2>1, SpansAreTyped DEF Shape, NodesAre, AbsentOf
  <2>9. \A m : KeptUnder(m)' = IF m = Named(n) THEN KeptUnder(m) \cup {n} ELSE KeptUnder(m)
    BY <2>2, <2>6 DEF KeptUnder
  <2> QED
    BY <2>1, <2>3, <2>4, <2>5, <2>6, <2>7, <2>8, <2>9
\* The rest of the invariant while linking.
<1>LinkingKeeps. ASSUME TreeInv, input' = input, cycles' = cycles, cycles = << >>, reached' = {}, pc' = "link", Shape'
                 PROVE  TreeInv'
  <2> USE <1>LinkingKeeps
  <2>1. Range(cycles') \subseteq Cuts' /\ input' \in Inputs
    BY DEF Range, TreeInv
  <2> QED
    BY <2>1 DEF TreeInv, Building, Marking, TreeIsDetermined
\* A span that names no parent is a root.
<1>LinkRootTree. \A n \in todo : TreeInv /\ LinkRoot(n) => TreeInv'
  <2> SUFFICES ASSUME NEW n \in todo, TreeInv, LinkRoot(n) PROVE TreeInv'
    OBVIOUS
  <2>1. /\ Linking(n) /\ input' = input /\ cycles' = cycles /\ pc' = "link" /\ node[n].parent = Nil
        /\ roots' = Append(roots, n) /\ UNCHANGED <<node, parent, children, missing, reached>>
    BY DEF LinkRoot, Linking, links
  <2>2. /\ n \in Ids /\ n \notin Done /\ Done' = Done \cup {n} /\ Kept = Done /\ Kept' = Kept \cup {n}
        /\ Range(cycles) = {} /\ cycles = << >> /\ Shape /\ node[n].parent = Named(n) /\ reached = {}
        /\ node[n] \in Span /\ n \in DOMAIN node /\ Nil \notin DOMAIN node /\ todo' \subseteq Ids
        /\ \A m : KeptUnder(m)' = IF m = Named(n) THEN KeptUnder(m) \cup {n} ELSE KeptUnder(m)
    BY <2>1, <1>LinkedJoins
  <2>3. Ids' = Ids /\ (\A m : LastOf(m)' = LastOf(m) /\ Named(m)' = Named(m))
        /\ \A S : AbsentOf(S)' = AbsentOf(S)
    BY <2>1, InputFixed
  <2>4. AbsentOf(Done \cup {n}) = AbsentOf(Done) /\ n \notin AbsentOf(Done)
    BY <2>1, <2>2 DEF AbsentOf
  <2>5. AbsentOf(Done)' = AbsentOf(Done)
    BY <2>2, <2>3, <2>4
  <2>6. NodesAre'
    BY <2>1, <2>2, <2>3, <2>5, Zenon DEF NodesAre, Shape
  <2>7. Rootless' = Rootless \cup {n} /\ n \notin Rootless
    BY <2>1, <2>2, <2>3, <2>4, <2>5 DEF Rootless
  <2>8. Listing(roots', Rootless')
    <3>1. Listing(roots, Rootless)
      BY <2>2 DEF Shape, SlicesAre
    <3> QED
      BY <2>1, <2>7, <3>1, ListingAppend
  <2>9. SlicesAre'
    BY <2>1, <2>2, <2>3, <2>5, <2>8, Zenon DEF SlicesAre, Shape
  <2>10. LinksAre'
    <3>1. \A m \in DOMAIN node : KeptUnder(m)' = KeptUnder(m)
      BY <2>1, <2>2
    <3>2. parent = [m \in DOMAIN node |-> IF m \in Kept' THEN Named(m) ELSE Nil]
      BY <2>1, <2>2 DEF LinksAre, Shape
    <3> QED
      BY <2>1, <2>2, <2>3, <3>1, <3>2 DEF LinksAre, Shape
  <2>11. Shape'
    BY <2>2, <2>3, <2>6, <2>9, <2>10 DEF Shape
  <2> QED
    BY <2>1, <2>2, <2>11, <1>LinkingKeeps
\* A span whose parent has a node is listed under it.
<1>LinkKnownTree. \A n \in todo : TreeInv /\ LinkKnown(n) => TreeInv'
  <2> SUFFICES ASSUME NEW n \in todo, TreeInv, LinkKnown(n) PROVE TreeInv'
    OBVIOUS
  <2> DEFINE p == node[n].parent
  <2>1. /\ Linking(n) /\ input' = input /\ cycles' = cycles /\ pc' = "link"
        /\ p # Nil /\ p \in DOMAIN node
        /\ parent' = [parent EXCEPT ![n] = p] /\ children' = [children EXCEPT ![p] = Append(@, n)]
        /\ UNCHANGED <<node, roots, missing, reached>>
    BY DEF LinkKnown, Linking
  <2>2. /\ n \in Ids /\ n \notin Done /\ Done' = Done \cup {n} /\ Kept = Done /\ Kept' = Kept \cup {n}
        /\ Range(cycles) = {} /\ cycles = << >> /\ Shape /\ p = Named(n) /\ reached = {}
        /\ node[n] \in Span /\ n \in DOMAIN node /\ Nil \notin DOMAIN node /\ todo' \subseteq Ids
        /\ \A m : KeptUnder(m)' = IF m = Named(n) THEN KeptUnder(m) \cup {n} ELSE KeptUnder(m)
    BY <2>1, <1>LinkedJoins
  <2> HIDE DEF p
  <2>3. Ids' = Ids /\ (\A m : LastOf(m)' = LastOf(m) /\ Named(m)' = Named(m))
        /\ \A S : AbsentOf(S)' = AbsentOf(S)
    BY <2>1, InputFixed
  <2>4. AbsentOf(Done \cup {n}) = AbsentOf(Done)
    <3>1. p \in Ids \cup AbsentOf(Done)
      BY <2>1, <2>2 DEF Shape, NodesAre
    <3> QED
      BY <2>2, <3>1 DEF AbsentOf
  <2>5. AbsentOf(Done)' = AbsentOf(Done)
    BY <2>2, <2>3, <2>4
  <2>6. NodesAre'
    BY <2>1, <2>2, <2>3, <2>5, Zenon DEF NodesAre, Shape
  <2>7. Rootless' = Rootless
    BY <2>1, <2>2, <2>3, <2>5 DEF Rootless
  <2>8. SlicesAre'
    BY <2>1, <2>2, <2>3, <2>5, <2>7 DEF SlicesAre, Shape
  <2>9. LinksAre'
    <3>1. LinksAre
      BY <2>2 DEF Shape
    <3>2. parent' = [m \in DOMAIN node |-> IF m \in Kept' THEN Named(m) ELSE Nil]
      BY <2>1, <2>2, <3>1 DEF LinksAre
    <3>3. children' = [m \in DOMAIN node |-> IF m = p THEN Append(children[p], n) ELSE children[m]]
      BY <2>1, <3>1, Zenon DEF LinksAre
    <3>4. Listing(Append(children[p], n), KeptUnder(p) \cup {n})
      <4>1. Listing(children[p], KeptUnder(p)) /\ n \notin KeptUnder(p)
        BY <2>1, <2>2, <3>1 DEF LinksAre, KeptUnder
      <4> QED
        BY <4>1, ListingAppend
    <3>5. ASSUME NEW m \in DOMAIN node PROVE Listing(children'[m], KeptUnder(m)')
      <4>1. CASE m = p
        BY <2>1, <2>2, <3>3, <3>4, <4>1, Zenon
      <4>2. CASE m # p
        BY <2>1, <2>2, <3>1, <3>3, <4>2 DEF LinksAre
      <4> QED
        BY <4>1, <4>2
    <3>6. children' = [m \in DOMAIN node |-> children'[m]]
      BY <3>3
    <3> QED
      BY <2>1, <2>3, <3>2, <3>5, <3>6, Zenon DEF LinksAre
  <2>10. Shape'
    BY <2>2, <2>3, <2>6, <2>8, <2>9 DEF Shape
  <2> QED
    BY <2>1, <2>2, <2>10, <1>LinkingKeeps
\* The first span to name a parent that did not arrive makes its placeholder.
<1>LinkMissingTree. \A n \in todo : TreeInv /\ LinkMissing(n) => TreeInv'
  <2> SUFFICES ASSUME NEW n \in todo, TreeInv, LinkMissing(n) PROVE TreeInv'
    OBVIOUS
  <2> DEFINE p == node[n].parent
             blank == [id |-> p, trace |-> node[n].trace, parent |-> Nil,
                       start |-> 0, end |-> 0, failed |-> FALSE, service |-> 0]
  <2>1. /\ Linking(n) /\ input' = input /\ cycles' = cycles /\ pc' = "link"
        /\ p # Nil /\ p \notin DOMAIN node
        /\ node' = With(node, p, blank)
        /\ parent' = With([parent EXCEPT ![n] = p], p, Nil) /\ children' = With(children, p, <<n>>)
        /\ roots' = Append(roots, p) /\ missing' = Append(missing, p) /\ reached' = reached
    BY DEF LinkMissing, Linking
  <2>2. /\ n \in Ids /\ n \notin Done /\ Done' = Done \cup {n} /\ Kept = Done /\ Kept' = Kept \cup {n}
        /\ Range(cycles) = {} /\ cycles = << >> /\ Shape /\ p = Named(n) /\ reached = {}
        /\ node[n] \in Span /\ n \in DOMAIN node /\ Nil \notin DOMAIN node /\ todo' \subseteq Ids
        /\ \A m : KeptUnder(m)' = IF m = Named(n) THEN KeptUnder(m) \cup {n} ELSE KeptUnder(m)
    BY <2>1, <1>LinkedJoins
  <2>3. blank \in Span
    BY <2>1, <2>2 DEF Span, Nil
  <2> HIDE DEF p, blank
  <2>4. Ids' = Ids /\ (\A m : LastOf(m)' = LastOf(m) /\ Named(m)' = Named(m))
        /\ \A S : AbsentOf(S)' = AbsentOf(S)
    BY <2>1, InputFixed
  <2>5. DOMAIN node = Ids \cup AbsentOf(Done)
    BY <2>2 DEF Shape, NodesAre
  <2>6. AbsentOf(Done \cup {n}) = AbsentOf(Done) \cup {p} /\ p \notin AbsentOf(Done) /\ p \notin Ids
    BY <2>1, <2>2, <2>5 DEF AbsentOf
  <2>7. AbsentOf(Done)' = AbsentOf(Done) \cup {p}
    BY <2>2, <2>4, <2>6, Zenon
  <2>8. node' = [m \in DOMAIN node \cup {p} |-> IF m = p THEN blank ELSE node[m]]
    BY <2>1 DEF With
  <2>9. NodesAre'
    <3>1. node' \in [DOMAIN node \cup {p} -> Span]
      BY <2>2, <2>3, <2>8 DEF Shape, NodesAre
    <3>2. \A m \in Ids : node'[m] = LastOf(m)
      BY <2>2, <2>5, <2>6, <2>8 DEF Shape, NodesAre
    <3>3. Ids' \cup AbsentOf(Done)' = DOMAIN node \cup {p}
      BY <2>4, <2>5, <2>7
    <3> QED
      BY <2>4, <3>1, <3>2, <3>3 DEF NodesAre
  <2>10. Rootless' = Rootless \cup {p} /\ p \notin Rootless
    BY <2>1, <2>2, <2>4, <2>6, <2>7, Zenon DEF Rootless, Done
  <2>11. SlicesAre'
    <3>1. Listing(roots, Rootless) /\ Listing(missing, AbsentOf(Done)) /\ Listing(cycles, Range(cycles))
      BY <2>2 DEF Shape, SlicesAre
    <3>2. Listing(roots', Rootless')
      BY <2>1, <2>10, <3>1, ListingAppend
    <3>3. Listing(missing', AbsentOf(Done) \cup {p})
      BY <2>1, <2>6, <3>1, ListingAppend
    <3> QED
      BY <2>1, <2>2, <2>7, <3>1, <3>2, <3>3, Zenon DEF SlicesAre
  <2>12. LinksAre'
    <3>1. LinksAre
      BY <2>2 DEF Shape
    <3>2. DOMAIN node' = DOMAIN node \cup {p}
      BY <2>8
    <3>3. parent' = [m \in DOMAIN node \cup {p} |-> IF m \in Kept' THEN Named(m) ELSE Nil]
      <4>1. p # n /\ p \notin Kept'
        BY <2>1, <2>2, <2>6 DEF Done
      <4>2. [parent EXCEPT ![n] = p] = [m \in DOMAIN node |-> IF m \in Kept' THEN Named(m) ELSE Nil]
        BY <2>2, <3>1 DEF LinksAre
      <4> DEFINE q == [parent EXCEPT ![n] = p]
      <4>3. parent' = [m \in DOMAIN q \cup {p} |-> IF m = p THEN Nil ELSE q[m]]
        BY <2>1 DEF With
      <4> QED
        BY <2>1, <4>1, <4>2, <4>3, Zenon
    <3>4. children' = [m \in DOMAIN node \cup {p} |-> IF m = p THEN <<n>> ELSE children[m]]
      BY <2>1, <3>1 DEF LinksAre, With
    <3>5. ASSUME NEW m \in DOMAIN node \cup {p} PROVE Listing(children'[m], KeptUnder(m)')
      <4>1. CASE m = p
        <5>1. KeptUnder(m) = {}
          BY <2>2, <2>6, <4>1 DEF KeptUnder, AbsentOf
        <5>2. KeptUnder(m)' = {n}
          BY <2>2, <4>1, <5>1
        <5>3. children'[m] = <<n>>
          BY <3>4, <4>1
        <5> QED
          BY <5>2, <5>3, ListingOne
      <4>2. CASE m # p
        BY <2>2, <3>1, <3>4, <3>5, <4>2 DEF LinksAre
      <4> QED
        BY <4>1, <4>2
    <3>6. children' = [m \in DOMAIN node \cup {p} |-> children'[m]]
      BY <3>4
    <3> QED
      BY <2>4, <3>2, <3>3, <3>5, <3>6 DEF LinksAre
  <2>13. Shape'
    BY <2>2, <2>4, <2>9, <2>11, <2>12 DEF Shape
  <2> QED
    BY <2>1, <2>2, <2>13, <1>LinkingKeeps
<1> QED
  BY <1>LinkRootTree, <1>LinkKnownTree, <1>LinkMissingTree DEF Link

\* A step that leaves the nodes, their links and the slices alone.
LEMMA SameShape ==
  ASSUME UNCHANGED <<input, links, todo, roots, cycles>>
  PROVE  Shape' = Shape /\ (\A L : Round(L)' = Round(L)) /\ Ids' = Ids /\ Cuts' = Cuts
<1>1. Ids' = Ids /\ Cuts' = Cuts /\ (\A n : LastOf(n)' = LastOf(n) /\ Named(n)' = Named(n))
      /\ \A S : AbsentOf(S)' = AbsentOf(S)
  BY InputFixed
<1>2. Done' = Done /\ Kept' = Kept
  BY <1>1 DEF Done, Kept
<1>3. AbsentOf(Done)' = AbsentOf(Done)
  BY <1>1, <1>2
<1>4. Rootless' = Rootless /\ \A m : KeptUnder(m)' = KeptUnder(m)
  BY <1>1, <1>2, <1>3 DEF Rootless, KeptUnder
<1>5. NodesAre' = NodesAre
  BY <1>1, <1>3 DEF NodesAre, links
<1>6. SlicesAre' = SlicesAre
  BY <1>1, <1>2, <1>3, <1>4 DEF SlicesAre, links
<1>7. LinksAre' = LinksAre
  BY <1>1, <1>2, <1>4 DEF LinksAre, links
<1>8. Shape' = Shape
  BY <1>1, <1>5, <1>6, <1>7 DEF Shape
<1>9. \A L : Round(L)' = Round(L)
  BY DEF Round, Closed, links
<1> QED
  BY <1>1, <1>8, <1>9

\* The links and the spans, as the rest of breakCycles finds them.
LEMMA LinkedTypes ==
  ASSUME TreeInv, pc \in Building \ {"link"}
  PROVE  /\ input \in Inputs /\ Shape /\ todo = {} /\ reached \subseteq DOMAIN node /\ Done = Ids
         /\ Ids \subseteq DOMAIN node /\ DOMAIN node = Ids \cup AbsentOf(Ids) /\ Nil \notin DOMAIN node
         /\ parent = [n \in DOMAIN node |-> IF n \in Kept THEN Named(n) ELSE Nil] /\ Kept \subseteq Ids
         /\ \A n \in DOMAIN node : node[n] \in Span /\ n \in Nat
<1>1. input \in Inputs /\ Shape /\ todo = {} /\ reached \subseteq DOMAIN node
  BY DEF TreeInv
<1>2. Done = Ids /\ Kept \subseteq Ids
  BY <1>1 DEF Done, Kept
<1>3. DOMAIN node = Ids \cup AbsentOf(Ids) /\ \A n \in DOMAIN node : node[n] \in Span
  BY <1>1, <1>2 DEF Shape, NodesAre
<1>4. Ids \subseteq Nat \ {Nil} /\ AbsentOf(Ids) \subseteq Nat \ {Nil}
  BY <1>1, SpansAreTyped DEF AbsentOf
<1> QED
  BY <1>1, <1>2, <1>3, <1>4 DEF Shape, LinksAre

\* mark starts at the roots, which have no parent.
LEMMA MarkRootsTree == BuildInv /\ TreeInv /\ MarkRoots => TreeInv'
<1> SUFFICES ASSUME BuildInv, TreeInv, MarkRoots PROVE TreeInv'
  OBVIOUS
<1>1. /\ pc = "link" /\ todo = {} /\ pc' = "mark" /\ stack' = Stacked(roots)
      /\ UNCHANGED <<input, links, todo, roots, cycles, reached>>
  BY DEF MarkRoots
<1>2. Shape /\ input \in Inputs /\ cycles = << >> /\ reached = {} /\ Range(cycles) \subseteq Cuts
  BY <1>1 DEF TreeInv, Building
<1>3. Shape' /\ (\A L : Round(L)' = Round(L)) /\ Ids' = Ids /\ Cuts' = Cuts
  BY <1>1, <1>2, SameShape
<1>4. Range(stack') \subseteq Rootless
  <2>1. roots \in Seq(Rootless) /\ Range(roots) = Rootless
    BY <1>2 DEF Shape, SlicesAre, Listing
  <2> QED
    BY <1>1, <2>1, ReverseNoMore
<1>5. ASSUME NEW L \in SUBSET Ids, Round(L), NEW x \in L PROVE x \notin Range(stack')
  <2>1. Nil \notin Ids
    BY <1>2, SpansAreTyped
  <2>2. parent = [n \in DOMAIN node |-> IF n \in Kept THEN Named(n) ELSE Nil] /\ Ids \subseteq DOMAIN node
    BY <1>2 DEF Shape, LinksAre, NodesAre
  <2>3. parent[x] \in L
    BY <1>5 DEF Round, Closed
  <2>4. x \in Kept /\ Named(x) \in Ids
    BY <2>1, <2>2, <2>3
  <2>5. x \notin Rootless
    BY <2>1, <2>4, <1>5 DEF Rootless, AbsentOf, Kept
  <2> QED
    BY <1>4, <2>5
<1>6. Untouched'
  BY <1>1, <1>2, <1>3, <1>5 DEF Untouched
<1> QED
  BY <1>1, <1>2, <1>3, <1>6 DEF TreeInv, Building, Marking, TreeIsDetermined

\* What is listed under a node points to it, so mark never comes to a round.
LEMMA VisitTree == BuildInv /\ TreeInv /\ Visit => TreeInv'
<1> SUFFICES ASSUME BuildInv, TreeInv, Visit PROVE TreeInv'
  OBVIOUS
<1> DEFINE x == Top(stack)
<1>1. /\ pc \in {"mark", "remark"} /\ pc' = pc /\ stack # << >>
      /\ reached' = reached \cup {x} /\ stack' = Pop(stack) \o children[x]
      /\ UNCHANGED <<input, links, todo, roots, cycles, stranded>>
  BY DEF Visit
<1>2. /\ input \in Inputs /\ Shape /\ todo = {} /\ reached \subseteq DOMAIN node /\ Kept \subseteq Ids
      /\ Ids \subseteq DOMAIN node
      /\ parent = [n \in DOMAIN node |-> IF n \in Kept THEN Named(n) ELSE Nil]
  BY <1>1, LinkedTypes DEF Building, Marking
<1>3. Untouched /\ (pc = "remark" => LeadsBack) /\ (pc = "mark" => cycles = << >>) /\ Range(cycles) \subseteq Cuts
  BY <1>1 DEF TreeInv, Marking
<1>4. Shape' /\ (\A L : Round(L)' = Round(L)) /\ Ids' = Ids /\ Cuts' = Cuts
  BY <1>1, <1>2, SameShape
<1>5. /\ x \in DOMAIN node /\ x \in Range(stack)
      /\ Range(stack') \subseteq Range(stack) \cup Range(children[x])
  <2>1. stack \in Seq(DOMAIN node) /\ children \in [DOMAIN node -> Seq(DOMAIN node)]
    BY <1>1 DEF BuildInv, Marking, Linkage
  <2>2. x \in DOMAIN node
    BY <1>1, <2>1, TurnElements
  <2>3. children[x] \in Seq(DOMAIN node)
    BY <2>1, <2>2
  <2> QED
    BY <1>1, <2>1, <2>2, <2>3, TurnNoMore
<1> HIDE DEF x
<1>6. \A c \in Range(children[x]) : c \in Ids /\ parent[c] = x
  <2>1. Range(children[x]) = KeptUnder(x)
    BY <1>2, <1>5 DEF Shape, LinksAre, Listing
  <2> QED
    BY <1>2, <2>1 DEF KeptUnder
<1>7. ASSUME NEW L \in SUBSET Ids, Round(L), NEW y \in L PROVE y \notin reached' \cup Range(stack')
  <2>1. L \cap (reached \cup Range(stack)) = {}
    BY <1>3, <1>7 DEF Untouched
  <2>2. x \notin L /\ parent[y] \in L
    BY <1>5, <1>7, <2>1 DEF Round, Closed
  <2> QED
    BY <1>1, <1>5, <1>6, <1>7, <2>1, <2>2
<1>8. Untouched'
  BY <1>4, <1>7 DEF Untouched
<1>9. pc = "remark" => LeadsBack'
  BY <1>1, <1>3, <1>4 DEF LeadsBack
<1>10. reached' \subseteq DOMAIN node'
  BY <1>1, <1>2, <1>5 DEF links
<1> QED
  BY <1>1, <1>2, <1>3, <1>4, <1>8, <1>9, <1>10, Zenon DEF TreeInv, Building, Marking, TreeIsDetermined

\* When everything has been reached there is no round; otherwise each has all
\* its spans among the stranded.
LEMMA MarkedTree == TreeInv /\ Marked => TreeInv'
<1> SUFFICES ASSUME TreeInv, Marked PROVE TreeInv'
  OBVIOUS
<1>1. /\ pc = "mark" /\ UNCHANGED <<input, links, todo, roots, cycles, reached, stack>> /\ stack = << >>
  BY DEF Marked
<1>2. /\ input \in Inputs /\ Shape /\ todo = {} /\ reached \subseteq DOMAIN node /\ Done = Ids
      /\ Ids \subseteq DOMAIN node /\ DOMAIN node = Ids \cup AbsentOf(Ids)
      /\ \A n \in DOMAIN node : node[n] \in Span /\ n \in Nat
  BY <1>1, LinkedTypes DEF Building, Marking
<1>3. Untouched /\ cycles = << >> /\ Range(cycles) \subseteq Cuts
  BY <1>1 DEF TreeInv, Marking
<1>4. Shape' /\ (\A L : Round(L)' = Round(L)) /\ Ids' = Ids /\ Cuts' = Cuts
  BY <1>1, <1>2, SameShape
<1>5. \A L \in SUBSET Ids : Round(L) => L # {} /\ L \cap reached = {}
  BY <1>3 DEF Untouched, Round
<1>6. Untouched' /\ node' = node
  BY <1>1, <1>3, <1>4 DEF Untouched, links
<1>7. CASE Cardinality(reached) = Cardinality(Ids) + Len(missing)
  <2>1. pc' = "finish"
    BY <1>7 DEF Marked
  <2> DEFINE A == AbsentOf(Ids)
  <2>2. IsFiniteSet(Ids) /\ IsFiniteSet(A) /\ Cardinality(A) = Len(missing)
    <3>1. Listing(missing, A)
      BY <1>2 DEF Shape, SlicesAre
    <3> QED
      BY <1>2, <3>1, SpansAreTyped, ListingCounts
  <2>3. Ids \cap A = {}
    BY DEF AbsentOf
  <2>4. DOMAIN node = Ids \cup A
    BY <1>2
  <2> HIDE DEF A
  <2>5. IsFiniteSet(Ids \cup A) /\ Cardinality(Ids \cup A) = Cardinality(Ids) + Cardinality(A)
    <3>1. Cardinality(Ids \cap A) = 0
      BY <2>3, FS_EmptySet
    <3>2. IsFiniteSet(Ids \cup A) /\ Cardinality(Ids \cup A) = Cardinality(Ids) + Cardinality(A) - Cardinality(Ids \cap A)
      BY <2>2, FS_Union
    <3>3. Cardinality(Ids) \in Nat /\ Cardinality(A) \in Nat
      BY <2>2, FS_CardinalityType
    <3> QED
      BY <3>1, <3>2, <3>3
  <2>6. reached = DOMAIN node
    BY <1>2, <1>7, <2>2, <2>4, <2>5, FS_Subset
  <2>7. NoRounds'
    BY <1>2, <1>4, <1>5, <2>6 DEF NoRounds
  <2>8. Ascending(node, cycles)'
    BY <1>1, <1>3 DEF Ascending
  <2> QED
    BY <1>1, <1>2, <1>3, <1>4, <1>6, <2>1, <2>7, <2>8, Zenon DEF TreeInv, Building, Marking, TreeIsDetermined
<1>8. CASE Cardinality(reached) # Cardinality(Ids) + Len(missing)
  <2>1. pc' = "cut" /\ stranded' = Sorted(node, Ids \ reached)
    BY <1>8 DEF Marked
  <2> DEFINE S == Ids \ reached
  <2>2. S \in SUBSET Nat /\ \A n \in S : node[n].start \in Int
    BY <1>2 DEF Span
  <2>3. IsFiniteSet(S)
    BY <1>2, SpansAreTyped, FS_Subset
  <2> HIDE DEF S
  <2>4. Listing(Sorted(node, S), S)
    BY <2>2, <2>3, SortedLists
  <2>5. stranded' \in Seq(S) /\ Range(stranded') = S
    BY <2>1, <2>4, Zenon DEF Listing, S
  <2>6. stranded' \in Seq(Ids)
    BY <2>5, SeqGrows DEF S
  <2>7. LeadsBack'
    BY <1>4, <1>5, <2>5, <2>6 DEF LeadsBack, S
  <2> QED
    BY <1>1, <1>2, <1>3, <1>4, <1>6, <2>1, <2>7, Zenon DEF TreeInv, Building, Marking, TreeIsDetermined
<1> QED
  BY <1>7, <1>8

\* The marking from a cut leaves nothing on the stack.
LEMMA RemarkedTree == TreeInv /\ Remarked => TreeInv'
<1> SUFFICES ASSUME TreeInv, Remarked PROVE TreeInv'
  OBVIOUS
<1>1. /\ pc = "remark" /\ pc' = "cut"
      /\ UNCHANGED <<input, links, todo, roots, cycles, reached, stack, stranded>>
  BY DEF Remarked
<1>2. Shape' = Shape /\ (\A L : Round(L)' = Round(L)) /\ Ids' = Ids /\ Cuts' = Cuts
  BY <1>1, SameShape
<1>3. (Untouched' = Untouched) /\ (LeadsBack' = LeadsBack) /\ node' = node
  BY <1>1, <1>2 DEF Untouched, LeadsBack, links
<1> QED
  BY <1>1, <1>2, <1>3, Zenon DEF TreeInv, Building, Marking, TreeIsDetermined

\* A stranded node that has been reached is on no round.
LEMMA SkipReachedTree == TreeInv /\ SkipReached => TreeInv'
<1> SUFFICES ASSUME TreeInv, SkipReached PROVE TreeInv'
  OBVIOUS
<1>1. /\ pc = "cut" /\ pc' = "cut" /\ stranded # << >> /\ Head(stranded) \in reached
      /\ stranded' = Tail(stranded)
      /\ UNCHANGED <<input, links, todo, roots, cycles, reached, stack>>
  BY DEF SkipReached
<1>2. Shape' = Shape /\ (\A L : Round(L)' = Round(L)) /\ Ids' = Ids /\ Cuts' = Cuts
  BY <1>1, SameShape
<1>3. (Untouched' = Untouched) /\ node' = node
  BY <1>1, <1>2 DEF Untouched, links
<1>4. Untouched /\ LeadsBack
  BY <1>1 DEF TreeInv, Marking
<1>5. Tail(stranded) \in Seq(Ids) /\ Range(stranded) = {Head(stranded)} \cup Range(Tail(stranded))
  BY <1>1, <1>4, HeadElements DEF LeadsBack
<1>6. LeadsBack'
  BY <1>1, <1>2, <1>4, <1>5 DEF LeadsBack, Untouched
<1> QED
  BY <1>1, <1>2, <1>3, <1>6, Zenon DEF TreeInv, Building, Marking, TreeIsDetermined

\* The loop above a stranded node is a loop of the links the spans name.
LEMMA LoopIsLoop ==
  ASSUME BuildInv, TreeInv, pc = "cut", NEW h \in Ids \ reached
  PROVE  /\ IsLoop(Loop(h)) /\ \A x \in Loop(h) : x \in Kept /\ Named(x) \in Loop(h)
         /\ \A V \in SUBSET Ids : h \in V /\ Closed(parent, V) => Loop(h) \subseteq V
<1> DEFINE U == Ids \ reached
           l == Loop(h)
<1>1. /\ input \in Inputs /\ Shape /\ Done = Ids /\ Kept \subseteq Ids
      /\ Ids \subseteq DOMAIN node /\ DOMAIN node = Ids \cup AbsentOf(Ids) /\ Nil \notin DOMAIN node
      /\ parent = [n \in DOMAIN node |-> IF n \in Kept THEN Named(n) ELSE Nil]
  BY LinkedTypes DEF Building, Marking
<1>2. IsFiniteSet(DOMAIN node)
  <2>1. Listing(missing, AbsentOf(Ids))
    BY <1>1 DEF Shape, SlicesAre
  <2>2. IsFiniteSet(AbsentOf(Ids)) /\ IsFiniteSet(Ids)
    BY <1>1, <2>1, ListingCounts, SpansAreTyped
  <2> QED
    BY <1>1, <2>2, FS_Union, Zenon
<1>3. parent \in [DOMAIN node -> AndNil]
  BY DEF BuildInv, Marking, Linkage, AndNil
<1>4. U \in SUBSET DOMAIN node /\ Closed(parent, U) /\ h \in U
  BY <1>1, StrandedAbove DEF StrandedParentIsStranded, Closed
<1> HIDE DEF U
<1>5. /\ l # {} /\ Closed(parent, l)
      /\ \A V \in SUBSET l : V # {} /\ Closed(parent, V) => V = l
      /\ \A V \in SUBSET DOMAIN node : h \in V /\ Closed(parent, V) => l \subseteq V
  BY <1>1, <1>2, <1>3, <1>4, LoopGoesRound, Zenon
<1> HIDE DEF l
<1>6. l \subseteq Ids
  BY <1>4, <1>5 DEF U
<1>7. ASSUME NEW x \in l PROVE x \in Kept /\ Named(x) = parent[x] /\ parent[x] \in l /\ Upward[x] = parent[x]
  <2>1. parent[x] \in l /\ x \in Ids
    BY <1>5, <1>6 DEF Closed
  <2>2. x \in Kept /\ Named(x) = parent[x]
    BY <1>1, <1>6, <2>1
  <2> QED
    BY <1>1, <2>1, <2>2, UpwardIsTyped
<1>8. \A V \in SUBSET l : Closed(Upward, V) <=> Closed(parent, V)
  BY <1>7 DEF Closed
<1>9. IsLoop(l)
  BY <1>5, <1>6, <1>8 DEF IsLoop
<1> QED
  BY <1>1, <1>5, <1>7, <1>9, Zenon DEF l

\* A loop is cut where the spans say, and no round goes through the cut.
LEMMA CutCycleTree == BuildInv /\ TreeInv /\ CutCycle => TreeInv'
<1> SUFFICES ASSUME BuildInv, TreeInv, CutCycle PROVE TreeInv'
  OBVIOUS
<1> DEFINE h == Head(stranded)
           l == Loop(h)
<1>1. /\ pc = "cut" /\ stranded # << >> /\ h \notin reached /\ stranded' = Tail(stranded)
      /\ UNCHANGED <<input, node, missing, todo, reached>>
  BY DEF CutCycle
<1>2. /\ input \in Inputs /\ Shape /\ todo = {} /\ reached \subseteq DOMAIN node /\ Done = Ids
      /\ Ids \subseteq DOMAIN node /\ DOMAIN node = Ids \cup AbsentOf(Ids) /\ Nil \notin DOMAIN node
      /\ parent = [n \in DOMAIN node |-> IF n \in Kept THEN Named(n) ELSE Nil] /\ Kept \subseteq Ids
  BY <1>1, LinkedTypes DEF Building, Marking
<1>3. Untouched /\ LeadsBack /\ Range(cycles) \subseteq Cuts
  BY <1>1 DEF TreeInv, Marking
<1>4. h \in Ids /\ Tail(stranded) \in Seq(Ids) /\ Range(stranded) = {h} \cup Range(Tail(stranded))
  BY <1>1, <1>3, HeadElements DEF LeadsBack
<1>5. /\ IsLoop(l) /\ \A x \in l : x \in Kept /\ Named(x) \in l
      /\ \A V \in SUBSET Ids : h \in V /\ Closed(parent, V) => l \subseteq V
  BY <1>1, <1>4, LoopIsLoop
<1>6. l \subseteq Ids
  BY <1>5 DEF IsLoop
<1>7. pc' = "remark" /\ \E cut \in l : EarliestOf(cut, l) /\ CutAt(cut)
  BY <1>6 DEF CutCycle
<1>8. PICK cut \in l : EarliestOf(cut, l) /\ CutAt(cut)
  BY <1>7
<1> HIDE DEF h, l
<1>9. cut \in Kept /\ Named(cut) \in Ids /\ cut \in Ids /\ cut \notin Range(cycles) /\ parent[cut] = Named(cut)
  BY <1>2, <1>5, <1>6, <1>8 DEF Kept
<1> DEFINE p == parent[cut]
<1>10. /\ parent' = [parent EXCEPT ![cut] = Nil] /\ children' = [children EXCEPT ![p] = Without(@, cut)]
       /\ roots' = Append(roots, cut) /\ cycles' = Append(cycles, cut) /\ stack' = <<cut>>
  BY <1>8 DEF CutAt
<1>11. p = Named(cut)
  BY <1>9
<1> HIDE DEF p
<1>12. Ids' = Ids /\ Cuts' = Cuts /\ (\A m : LastOf(m)' = LastOf(m) /\ Named(m)' = Named(m))
       /\ \A S : AbsentOf(S)' = AbsentOf(S)
  BY <1>1, InputFixed
<1>13. cut \in Cuts
  <2>1. OnLoopOf(cut) = l
    BY <1>2, <1>5, <1>8, LoopIsAbove
  <2>2. \A m \in Ids : node[m] = LastOf(m)
    BY <1>2 DEF Shape, NodesAre
  <2>3. \A m \in l \ {cut} : LastOf(cut).start < LastOf(m).start \/ (LastOf(cut).start = LastOf(m).start /\ cut < m)
    BY <1>6, <1>8, <1>9, <2>2 DEF EarliestOf, ByStart
  <2> QED
    BY <1>8, <1>9, <2>1, <2>3 DEF Cuts
<1>14. Listing(cycles', Range(cycles) \cup {cut}) /\ Range(cycles') = Range(cycles) \cup {cut}
  <2>1. Listing(cycles, Range(cycles))
    BY <1>2 DEF Shape, SlicesAre
  <2>2. Listing(cycles', Range(cycles) \cup {cut})
    BY <1>9, <1>10, <2>1, ListingAppend
  <2> QED
    BY <2>2 DEF Listing
<1>15. Done' = Done /\ Kept' = Kept \ {cut} /\ AbsentOf(Done)' = AbsentOf(Done)
  <2>1. Done' = Done
    BY <1>1, <1>12 DEF Done
  <2> QED
    BY <1>12, <1>14, <2>1 DEF Kept
<1>16. Rootless' = Rootless \cup {cut} /\ cut \notin Rootless
  <2>1. Rootless' = Rootless \cup {cut}
    BY <1>12, <1>14, <1>15 DEF Rootless
  <2>2. Nil \notin Ids
    BY <1>2
  <2> QED
    BY <1>9, <2>1, <2>2 DEF Rootless, AbsentOf
<1>17. NodesAre'
  BY <1>1, <1>2, <1>12, <1>15 DEF NodesAre, Shape
<1>18. SlicesAre'
  <2>1. Listing(roots, Rootless) /\ Listing(missing, AbsentOf(Done))
        /\ \A n \in Range(cycles) : n \in Done /\ Named(n) \in Ids
    BY <1>2 DEF Shape, SlicesAre
  <2>2. Listing(roots', Rootless')
    BY <1>10, <1>16, <2>1, ListingAppend
  <2>3. \A n \in Range(cycles') : n \in Done' /\ Named(n) \in Ids
    BY <1>2, <1>9, <1>14, <1>15, <2>1
  <2> QED
    BY <1>1, <1>12, <1>14, <1>15, <2>1, <2>2, <2>3 DEF SlicesAre
<1>19. LinksAre'
  <2>1. LinksAre
    BY <1>2 DEF Shape
  <2>2. parent' = [m \in DOMAIN node |-> IF m \in Kept' THEN Named(m) ELSE Nil]
    BY <1>2, <1>10, <1>15, Zenon
  <2>3. p \in DOMAIN node
    BY <1>2, <1>9, <1>11
  <2>4. children' = [m \in DOMAIN node |-> IF m = p THEN Without(children[p], cut) ELSE children[m]]
    BY <1>10, <2>1, <2>3 DEF LinksAre
  <2>5. \A m : KeptUnder(m)' = KeptUnder(m) \ {cut}
    BY <1>12, <1>15 DEF KeptUnder
  <2>6. ASSUME NEW m \in DOMAIN node PROVE Listing(children'[m], KeptUnder(m)')
    <3>1. CASE m = p
      <4>1. Listing(children[m], KeptUnder(m)) /\ cut \in KeptUnder(m)
        BY <1>9, <1>11, <2>1, <3>1 DEF LinksAre, KeptUnder
      <4>2. Listing(Without(children[m], cut), KeptUnder(m) \ {cut})
        BY <4>1, ListingWithout
      <4> QED
        BY <2>4, <2>5, <3>1, <4>2
    <3>2. CASE m # p
      <4>1. cut \notin KeptUnder(m)
        BY <1>11, <3>2 DEF KeptUnder
      <4>2. KeptUnder(m)' = KeptUnder(m)
        BY <2>5, <4>1
      <4> QED
        BY <2>1, <2>4, <3>2, <4>2 DEF LinksAre
    <3> QED
      BY <3>1, <3>2
  <2>7. children' = [m \in DOMAIN node |-> children'[m]]
    BY <2>4
  <2> QED
    BY <1>1, <1>12, <2>2, <2>6, <2>7 DEF LinksAre
<1>20. Shape'
  BY <1>1, <1>2, <1>12, <1>17, <1>18, <1>19 DEF Shape
<1>21. ASSUME NEW L \in SUBSET Ids, Round(L)' PROVE Round(L) /\ cut \notin L /\ h \notin L
  <2>1. \A x \in L : parent'[x] \in L
    BY <1>21 DEF Round, Closed
  <2>2. parent'[cut] = Nil /\ \A x \in Ids \ {cut} : parent'[x] = parent[x]
    BY <1>2, <1>9, <1>10
  <2>3. cut \notin L
    BY <1>2, <2>1, <2>2
  <2>4. Closed(parent, L)
    BY <2>1, <2>2, <2>3 DEF Closed
  <2>5. L # {}
    BY <1>21 DEF Round
  <2> QED
    BY <1>5, <1>8, <2>3, <2>4, <2>5 DEF Round
<1>22. Range(stack') = {cut}
  BY <1>10 DEF Range
<1>23. Untouched'
  BY <1>1, <1>3, <1>12, <1>21, <1>22 DEF Untouched
<1>24. LeadsBack'
  BY <1>1, <1>3, <1>4, <1>12, <1>21 DEF LeadsBack
<1>25. Range(cycles') \subseteq Cuts'
  BY <1>3, <1>12, <1>13, <1>14
<1> QED
  BY <1>1, <1>2, <1>7, <1>20, <1>23, <1>24, <1>25, Zenon DEF TreeInv, Building, Marking, TreeIsDetermined

\* With nothing stranded there is no round left.
LEMMA CutsDoneTree == TreeInv /\ CutsDone => TreeInv'
<1> SUFFICES ASSUME TreeInv, CutsDone PROVE TreeInv'
  OBVIOUS
<1> DEFINE S == Range(cycles)
<1>1. /\ pc = "cut" /\ pc' = "finish" /\ stranded = << >> /\ cycles' = SortNodes(node, cycles)
      /\ UNCHANGED <<input, links, todo, roots, reached>>
  BY DEF CutsDone
<1>2. /\ input \in Inputs /\ Shape /\ todo = {} /\ reached \subseteq DOMAIN node
      /\ Ids \subseteq DOMAIN node /\ \A n \in DOMAIN node : node[n] \in Span /\ n \in Nat
  BY <1>1, LinkedTypes DEF Building, Marking
<1>3. LeadsBack /\ S \subseteq Cuts
  BY <1>1 DEF TreeInv, Marking
<1>4. Listing(cycles, S) /\ S \subseteq Ids
  BY <1>2 DEF Shape, SlicesAre, Done
<1>5. S \in SUBSET Nat /\ \A n \in S : node[n].start \in Int
  BY <1>2, <1>4 DEF Span
<1> HIDE DEF S
<1>6. Listing(cycles', S) /\ Ascending(node, cycles')
  BY <1>1, <1>4, <1>5, SortLists, Zenon
<1>7. Range(cycles') = Range(cycles) /\ Range(cycles') = S
  BY <1>6 DEF Listing, S
<1>8. Ids' = Ids /\ Cuts' = Cuts /\ (\A n : LastOf(n)' = LastOf(n) /\ Named(n)' = Named(n))
      /\ \A T : AbsentOf(T)' = AbsentOf(T)
  BY <1>1, InputFixed
<1>9. Done' = Done /\ Kept' = Kept
  BY <1>1, <1>7, <1>8 DEF Done, Kept
<1>10. AbsentOf(Done)' = AbsentOf(Done)
  BY <1>8, <1>9
<1>11. Rootless' = Rootless /\ \A m : KeptUnder(m)' = KeptUnder(m)
  BY <1>7, <1>8, <1>9, <1>10 DEF Rootless, KeptUnder
<1>12. NodesAre'
  BY <1>1, <1>2, <1>8, <1>10 DEF NodesAre, links, Shape
<1>13. SlicesAre'
  BY <1>1, <1>2, <1>6, <1>7, <1>8, <1>9, <1>10, <1>11 DEF SlicesAre, links, Shape
<1>14. LinksAre'
  BY <1>1, <1>2, <1>8, <1>9, <1>11 DEF LinksAre, links, Shape
<1>15. Shape'
  BY <1>1, <1>2, <1>8, <1>12, <1>13, <1>14 DEF Shape
<1>16. NoRounds'
  <2>1. Range(stranded) = {}
    BY <1>1 DEF Range
  <2>2. \A L : Round(L)' = Round(L)
    BY <1>1 DEF Round, Closed, links
  <2> QED
    BY <1>3, <1>8, <2>1, <2>2 DEF LeadsBack, NoRounds
<1>17. Ascending(node, cycles)' /\ node' = node
  BY <1>1, <1>6 DEF Ascending, ByStart, links
<1> QED
  BY <1>1, <1>2, <1>3, <1>7, <1>8, <1>15, <1>16, <1>17, Zenon DEF TreeInv, Building, Marking, TreeIsDetermined, S

\* A slice that lists a set is empty when the set is.
LEMMA ListingNone ==
  ASSUME NEW S, NEW s, Listing(s, S)
  PROVE  s = << >> <=> S = {}
<1>1. s \in Seq(S) /\ Range(s) = S
  BY DEF Listing
<1>2. s = << >> => S = {}
  BY <1>1 DEF Range
<1>3. s # << >> => S # {}
  BY <1>1, HeadElements
<1> QED
  BY <1>2, <1>3

\* A list of nodes has one that starts first.
LEMMA FirstOfList ==
  ASSUME NEW S \in SUBSET Nat, S # {}, NEW s, Listing(s, S), NEW f \in [S -> Int]
  PROVE  \E m \in S : \A n \in S : f[m] <= f[n]
<1> DEFINE nd == [n \in S |-> [start |-> f[n]]]
           r == SortNodes(nd, s)
<1>1. \A n \in S : nd[n].start = f[n] /\ nd[n].start \in Int
  OBVIOUS
<1>2. Listing(r, S) /\ Ascending(nd, r)
  <2> HIDE DEF nd
  <2> QED
    BY <1>1, SortLists
<1> HIDE DEF nd, r
<1>3. r \in Seq(S) /\ Range(r) = S /\ r # << >>
  BY <1>2, ListingNone DEF Listing
<1>4. DOMAIN r = 1..Len(r) /\ 1 \in 1..Len(r) /\ Len(r) \in Nat
  BY <1>3, SeqEmpty, SeqLen
<1>5. r[1] \in S
  BY <1>3, <1>4 DEF Range
<1>6. ASSUME NEW n \in S PROVE f[r[1]] <= f[n]
  <2>1. PICK i \in 1..Len(r) : r[i] = n
    BY <1>3, <1>4 DEF Range
  <2>2. CASE i = 1
    <3>1. f[n] \in Int
      OBVIOUS
    <3> QED
      BY <2>1, <2>2, <3>1
  <2>3. CASE i # 1
    <3>1. 1 < i
      BY <2>3
    <3>2. ByStart(nd, r[1], n)
      BY <1>2, <1>4, <2>1, <3>1 DEF Ascending
    <3>3. f[r[1]] < f[n] \/ f[r[1]] = f[n]
      BY <1>1, <1>5, <3>2, Zenon DEF ByStart
    <3>4. f[r[1]] \in Int /\ f[n] \in Int
      BY <1>5
    <3> QED
      BY <3>3, <3>4
  <2> QED
    BY <2>2, <2>3
<1> QED
  BY <1>5, <1>6, Zenon

\* The spans that are cut are the earliest of their loops, and all of them are.
LEMMA CutsAreAll ==
  ASSUME TreeInv, pc = "finish"
  PROVE  Range(cycles) = Cuts
<1>1. /\ input \in Inputs /\ Done = Ids /\ Ids \subseteq DOMAIN node /\ Kept \subseteq Ids
      /\ parent = [n \in DOMAIN node |-> IF n \in Kept THEN Named(n) ELSE Nil]
  BY LinkedTypes DEF Building, Marking
<1>2. Range(cycles) \subseteq Cuts /\ NoRounds
  BY DEF TreeInv
<1>3. ASSUME NEW n \in Cuts PROVE n \in Range(cycles)
  <2> DEFINE O == OnLoopOf(n)
  <2>1. n \in Ids /\ n \in O
    BY DEF Cuts
  <2>2. n \in Above(n)
    BY <2>1 DEF OnLoopOf
  <2>3. O \subseteq Ids /\ Closed(Upward, O)
    BY <1>1, <2>1, <2>2, OnLoopIsClosed
  <2>4. PICK c \in O : c \in Range(cycles)
    <3> SUFFICES ASSUME O \cap Range(cycles) = {} PROVE FALSE
      OBVIOUS
    <3> HIDE DEF O
    <3>1. \A x \in O : x \in Kept /\ x \in Ids
      BY <1>1, <2>3 DEF Kept
    <3>2. \A x \in O : parent[x] = Upward[x]
      BY <1>1, <3>1, UpwardIsTyped
    <3>3. Round(O)
      BY <2>1, <2>3, <3>2 DEF Round, Closed
    <3> QED
      BY <1>2, <2>3, <3>3 DEF NoRounds
  <2>5. c \in Cuts /\ n \in OnLoopOf(c) /\ c \in Ids
    BY <1>2, <2>1, <2>4 DEF OnLoopOf
  <2>6. n = c
    <3> SUFFICES ASSUME n # c PROVE FALSE
      OBVIOUS
    <3>1. LastOf(n).start < LastOf(c).start \/ (LastOf(n).start = LastOf(c).start /\ n < c)
      BY <2>4 DEF Cuts
    <3>2. LastOf(c).start < LastOf(n).start \/ (LastOf(c).start = LastOf(n).start /\ c < n)
      BY <2>5 DEF Cuts
    <3>3. LastOf(n) \in Span /\ LastOf(c) \in Span /\ n \in Nat /\ c \in Nat
      BY <1>1, <2>1, <2>5, SpansAreTyped
    <3> DEFINE a == LastOf(n).start
               b == LastOf(c).start
    <3>4. a \in Int /\ b \in Int
      BY <3>3 DEF Span
    <3>5. (a < b \/ (a = b /\ n < c)) /\ (b < a \/ (b = a /\ c < n))
      BY <3>1, <3>2
    <3> HIDE DEF a, b
    <3> QED
      BY <3>3, <3>4, <3>5
  <2> QED
    BY <2>4, <2>6
<1> QED
  BY <1>2, <1>3

\* The least and the greatest of the values a slice of nodes has.
LEMMA ExtremesExist ==
  ASSUME NEW S \in SUBSET Nat, S # {}, NEW s, Listing(s, S), NEW f \in [S -> Int]
  PROVE  /\ \E m \in S : Min({f[n] : n \in S}) = f[m] /\ \A n \in S : f[m] <= f[n]
         /\ \E m \in S : Max({f[n] : n \in S}) = f[m] /\ \A n \in S : f[n] <= f[m]
<1> DEFINE T == {f[n] : n \in S}
           g == [n \in S |-> 0 - f[n]]
<1>1. PICK a \in S : \A n \in S : f[a] <= f[n]
  BY FirstOfList
<1>2. \A x \in T : f[a] <= x
  BY <1>1
<1>3. PICK b \in S : \A n \in S : g[b] <= g[n]
  <2>1. g \in [S -> Int]
    OBVIOUS
  <2> HIDE DEF g
  <2> QED
    BY <2>1, FirstOfList
<1>4. ASSUME NEW n \in S PROVE f[n] <= f[b]
  <2>1. 0 - f[b] <= 0 - f[n]
    BY <1>3
  <2>2. f[b] \in Int /\ f[n] \in Int
    OBVIOUS
  <2> DEFINE x == f[b]
             y == f[n]
  <2> HIDE DEF x, y
  <2>3. y <= x
    BY <2>1, <2>2 DEF x, y
  <2> QED
    BY <2>3 DEF x, y
<1>5. \A x \in T : f[b] >= x
  BY <1>4
<1>6. f[a] \in T /\ f[b] \in T /\ T \subseteq Int
  OBVIOUS
<1>7. \E x \in T : \A y \in T : x =< y
  BY <1>2, <1>6
<1>8. \E x \in T : \A y \in T : x >= y
  BY <1>5, <1>6
<1>9. Min(T) \in T /\ \A y \in T : Min(T) <= y
  <2> HIDE DEF T
  <2> QED
    BY <1>7 DEF Min
<1>10. Max(T) \in T /\ \A y \in T : Max(T) >= y
  <2> HIDE DEF T
  <2> QED
    BY <1>8 DEF Max
<1>11. PICK m \in S : Min(T) = f[m]
  BY <1>9, Zenon
<1>12. PICK k \in S : Max(T) = f[k]
  BY <1>10, Zenon
<1>13. \A n \in S : f[m] <= f[n]
  BY <1>9, <1>11
<1>14. \A n \in S : f[n] <= f[k]
  <2> SUFFICES ASSUME NEW n \in S PROVE f[n] <= f[k]
    OBVIOUS
  <2>1. f[k] >= f[n] /\ f[k] \in Int /\ f[n] \in Int
    BY <1>10, <1>12
  <2> QED
    BY <2>1
<1> QED
  BY <1>11, <1>12, <1>13, <1>14, Zenon

\* A placeholder's node spans those listed under it.
Spanning(nd, n, S) ==
  /\ nd[n].start \in Int
  /\ \A c \in S : nd[n].start <= node[c].start /\ node[c].end <= nd[n].end
  /\ \E c, d \in S : nd[n].start = node[c].start /\ nd[n].end = node[d].end

\* Every placeholder has a child to borrow from.
LEMMA PlaceholdersBorrow ==
  ASSUME TreeInv, pc = "finish", NEW n \in AbsentOf(Ids)
  PROVE  children[n] # << >> /\ Spanning(Envelope, n, KeptUnder(n))
<1> DEFINE S == KeptUnder(n)
           B == {node[c] : c \in S}
           st == [c \in S |-> node[c].start]
           en == [c \in S |-> node[c].end]
<1>1. /\ input \in Inputs /\ Shape /\ Done = Ids /\ Ids \subseteq DOMAIN node
      /\ DOMAIN node = Ids \cup AbsentOf(Ids) /\ Kept \subseteq Ids
      /\ \A m \in DOMAIN node : node[m] \in Span /\ m \in Nat
  BY LinkedTypes DEF Building, Marking
<1>2. n \in DOMAIN node /\ n \notin Ids /\ Listing(children[n], S)
  BY <1>1, Zenon DEF Shape, LinksAre, AbsentOf
<1>3. Range(children[n]) = S
  BY <1>2 DEF Listing
<1>4. S # {}
  <2>1. PICK c \in Ids : Named(c) = n
    BY DEF AbsentOf
  <2>2. c \in Kept
    BY <1>1, <1>2, <2>1 DEF Kept, Shape, SlicesAre
  <2> QED
    BY <2>1, <2>2 DEF KeptUnder
<1>5. S \in SUBSET Nat /\ S \subseteq DOMAIN node
  BY <1>1 DEF KeptUnder
<1>6. \A c \in S : node[c] \in Span /\ node[c].start \in Int /\ node[c].end \in Int
  BY <1>1, <1>5 DEF Span
<1>7. st \in [S -> Int] /\ en \in [S -> Int]
  BY <1>6
<1>8. {s.start : s \in B} = {st[c] : c \in S} /\ {s.end : s \in B} = {en[c] : c \in S}
  OBVIOUS
<1>9. Envelope[n] = [node[n] EXCEPT !.start = Min({s.start : s \in B}), !.end = Max({s.end : s \in B})]
  BY <1>2, <1>3, Zenon DEF Envelope
<1>10. Envelope[n].start = Min({st[c] : c \in S}) /\ Envelope[n].end = Max({en[c] : c \in S})
  BY <1>1, <1>2, <1>8, <1>9, Zenon DEF Span
<1>11. \A c \in S : st[c] = node[c].start /\ en[c] = node[c].end
  OBVIOUS
<1> HIDE DEF S, st, en
<1>12. PICK a \in S : Min({st[c] : c \in S}) = st[a] /\ \A c \in S : st[a] <= st[c]
  BY <1>2, <1>4, <1>5, <1>7, ExtremesExist, Zenon
<1>13. PICK b \in S : Max({en[c] : c \in S}) = en[b] /\ \A c \in S : en[c] <= en[b]
  BY <1>2, <1>4, <1>5, <1>7, ExtremesExist, Zenon
<1>14. Spanning(Envelope, n, S)
  BY <1>6, <1>10, <1>11, <1>12, <1>13, Zenon DEF Spanning
<1>15. children[n] # << >>
  BY <1>2, <1>4, ListingNone
<1> QED
  BY <1>14, <1>15 DEF S

\* Finishing sorts what is there, and gives the placeholders their times.
LEMMA FinishTree == TreeInv /\ Finish => TreeInv'
<1> SUFFICES ASSUME TreeInv, Finish PROVE TreeInv'
  OBVIOUS
<1>1. pc = "finish" /\ UNCHANGED <<input, parent, todo, cycles, stack, reached, stranded>>
  BY DEF Finish
<1>2. /\ input \in Inputs /\ Shape /\ Done = Ids /\ Kept \subseteq Ids
      /\ Ids \subseteq DOMAIN node /\ DOMAIN node = Ids \cup AbsentOf(Ids) /\ Nil \notin DOMAIN node
      /\ parent = [n \in DOMAIN node |-> IF n \in Kept THEN Named(n) ELSE Nil]
      /\ \A n \in DOMAIN node : node[n] \in Span /\ n \in Nat
  BY <1>1, LinkedTypes DEF Building, Marking
<1>3. Range(cycles) = Cuts /\ Ascending(node, cycles)
  BY <1>1, CutsAreAll DEF TreeInv
<1>4. Absent = AbsentOf(Ids) /\ Kept = Ids \ Cuts /\ Rootless = Tops /\ \A m : KeptUnder(m) = Under(m)
  <2>1. Absent = AbsentOf(Ids) /\ Kept = Ids \ Cuts
    BY <1>2, <1>3 DEF Absent, AbsentOf, Named, Kept
  <2> QED
    BY <1>2, <1>3, <2>1 DEF Rootless, Tops, KeptUnder, Under, Named
<1>5. /\ Listing(missing, Absent) /\ Listing(roots, Tops) /\ Listing(cycles, Cuts)
      /\ \A m \in DOMAIN node : Listing(children[m], Under(m))
      /\ \A m \in Ids : node[m] = LastOf(m)
  BY <1>2, <1>3, <1>4 DEF Shape, SlicesAre, LinksAre, NodesAre
<1>6. \A n \in Absent : children[n] # << >> /\ Spanning(Envelope, n, Under(n))
  BY <1>1, <1>4, PlaceholdersBorrow
<1>7. Range(missing) = Absent
  BY <1>5 DEF Listing
<1>8. /\ pc' = "done" /\ node' = Envelope
      /\ roots' = SortNodes(node', roots) /\ missing' = SortNodes(node', missing)
      /\ children' = [n \in DOMAIN node |-> SortNodes(node', children[n])]
  BY <1>6, <1>7 DEF Finish
<1>9. DOMAIN node' = DOMAIN node /\ \A n \in Ids : node'[n] = node[n]
  BY <1>2, <1>8, Zenon DEF Envelope
<1>10. \A n \in DOMAIN node : node'[n].start \in Int
  <2> SUFFICES ASSUME NEW n \in DOMAIN node PROVE node'[n].start \in Int
    OBVIOUS
  <2>1. CASE n \in Ids
    BY <1>2, <1>9, <2>1 DEF Span
  <2>2. CASE n \in Absent
    BY <1>6, <1>8, <2>2 DEF Spanning
  <2> QED
    BY <1>2, <1>4, <2>1, <2>2
<1>11. ASSUME NEW S \in SUBSET DOMAIN node, NEW s, Listing(s, S)
       PROVE  /\ Listing(SortNodes(node', s), S) /\ Range(SortNodes(node', s)) = S
              /\ Ascending(node', SortNodes(node', s))
  <2>1. S \in SUBSET Nat /\ \A n \in S : node'[n].start \in Int
    BY <1>2, <1>10
  <2> DEFINE nd == node'
  <2>2. \A n \in S : nd[n].start \in Int
    BY <2>1
  <2> HIDE DEF nd
  <2>3. Listing(SortNodes(nd, s), S) /\ Ascending(nd, SortNodes(nd, s))
    BY <1>11, <2>1, <2>2, SortLists
  <2> QED
    BY <2>3 DEF Listing, nd
<1>12. Ids' = Ids /\ Cuts' = Cuts /\ (\A n : LastOf(n)' = LastOf(n) /\ Named(n)' = Named(n))
       /\ \A S : AbsentOf(S)' = AbsentOf(S)
  BY <1>1, InputFixed
<1>13. Absent' = Absent /\ Tops' = Tops /\ \A m : Under(m)' = Under(m)
  <2>1. Absent' = Absent
    BY <1>12 DEF Absent
  <2> QED
    BY <1>12, <2>1 DEF Tops, Under
<1>14. /\ Cuts \subseteq Ids /\ Absent \subseteq DOMAIN node /\ Tops \subseteq DOMAIN node
       /\ \A m : Under(m) \subseteq Ids
  BY <1>2, <1>4 DEF Cuts, Tops, Under
<1>15. Lists(roots, Tops)' /\ Lists(missing, Absent)' /\ Listing(roots', Tops) /\ Listing(missing', Absent)
  <2>1. Listing(roots', Tops) /\ Range(roots') = Tops /\ Ascending(node', roots')
    BY <1>5, <1>8, <1>11, <1>14, Zenon
  <2>2. Listing(missing', Absent) /\ Range(missing') = Absent /\ Ascending(node', missing')
    BY <1>5, <1>8, <1>11, <1>14
  <2> QED
    BY <1>13, <2>1, <2>2 DEF Lists, InOrder, Ascending
<1>16. Lists(cycles, Cuts)'
  <2>1. \A i \in DOMAIN cycles : cycles[i] \in Ids
    BY <1>3, <1>14 DEF Range
  <2>2. Ascending(node', cycles')
    BY <1>1, <1>3, <1>9, <2>1 DEF Ascending, ByStart
  <2> QED
    BY <1>1, <1>3, <1>12, <2>2 DEF Lists, InOrder, Ascending
<1>17. ASSUME NEW n \in DOMAIN node PROVE Lists(children[n], Under(n))' /\ Listing(children'[n], Under(n)')
  <2>1. Under(n) \subseteq DOMAIN node /\ Listing(children[n], Under(n))
    BY <1>2, <1>5, <1>14
  <2>2. /\ Range(SortNodes(node', children[n])) = Under(n) /\ Ascending(node', SortNodes(node', children[n]))
        /\ Listing(SortNodes(node', children[n]), Under(n))
    BY <1>11, <2>1
  <2>3. children'[n] = SortNodes(node', children[n])
    BY <1>8
  <2>4. /\ Range(children'[n]) = Under(n)' /\ Ascending(node', children'[n])
        /\ Listing(children'[n], Under(n)')
    BY <1>13, <2>2, <2>3, Zenon
  <2> QED
    BY <2>4 DEF Lists, InOrder, Ascending
<1>18. ASSUME NEW n \in DOMAIN node PROVE parent'[n] = IF n \in Tops THEN Nil ELSE LastOf(n).parent
  <2>1. parent'[n] = IF n \in Kept THEN Named(n) ELSE Nil
    BY <1>1, <1>2
  <2>2. CASE n \in Tops
    BY <1>4, <2>1, <2>2 DEF Tops, Named, AbsentOf
  <2>3. CASE n \notin Tops
    <3>1. n \in Kept
      BY <1>2, <1>4, <2>3 DEF Tops
    <3> QED
      BY <2>1, <2>3, <3>1 DEF Named
  <2> QED
    BY <2>2, <2>3
<1>19. ASSUME NEW n \in Absent
       PROVE  /\ \A c \in Under(n) : node'[n].start <= node'[c].start /\ node'[c].end <= node'[n].end
              /\ \E c, d \in Under(n) : node'[n].start = node'[c].start /\ node'[n].end = node'[d].end
  <2>1. Spanning(node', n, Under(n))
    BY <1>6, <1>8
  <2>2. \A c \in Under(n) : node'[c] = node[c]
    BY <1>9, <1>14
  <2> QED
    BY <2>1, <2>2 DEF Spanning
<1>20. TreeIsDetermined'
  <2>1. DOMAIN node' = Ids \cup Absent /\ \A n \in Ids : node'[n] = LastOf(n)
    BY <1>2, <1>4, <1>5, <1>9
  <2>2. \A n \in DOMAIN node' : parent'[n] = (IF n \in Tops THEN Nil ELSE LastOf(n).parent)'
    BY <1>9, <1>12, <1>13, <1>18, Zenon
  <2>3. \A n \in DOMAIN node' : Lists(children[n], Under(n))'
    BY <1>9, <1>17
  <2> QED
    BY <1>12, <1>13, <1>15, <1>16, <1>19, <2>1, <2>2, <2>3, Zenon DEF TreeIsDetermined
<1>21. NoRounds'
  BY <1>1, <1>12 DEF TreeInv, NoRounds, Round, Closed
<1>22. ChildrenListed'
  <2>1. children' = [n \in DOMAIN node' |-> children'[n]]
    BY <1>8, <1>9
  <2>2. \A n \in DOMAIN node' : Listing(children'[n], Under(n)')
    BY <1>9, <1>17
  <2> QED
    BY <2>1, <2>2 DEF ChildrenListed, Listing, NoRepeat, Range
<1>23. Listing(roots, Tops)' /\ Listing(missing, Absent)' /\ Listing(cycles, Cuts)'
  <2>1. Listing(roots', Tops') /\ Listing(missing', Absent') /\ Listing(cycles', Cuts')
    BY <1>1, <1>5, <1>12, <1>13, <1>15, Zenon
  <2> QED
    BY <2>1 DEF Listing, NoRepeat, Range
<1> QED
  BY <1>1, <1>2, <1>3, <1>8, <1>12, <1>20, <1>21, <1>22, <1>23, Zenon DEF TreeInv, Building, Marking

\* TreeInv is inductive, beside BuildInv.
LEMMA TreeInductive == BuildInv /\ TreeInv /\ [Next]_vars => TreeInv'
<1> SUFFICES ASSUME BuildInv, TreeInv, [Next]_vars PROVE TreeInv'
  OBVIOUS
<1>1. CASE UNCHANGED vars
  <2>1. UNCHANGED <<input, pc, node, parent, children, missing, links, todo, roots, cycles, stack, reached, stranded>>
    BY <1>1 DEF vars, links
  <2>2. (Shape' = Shape) /\ (\A L : Round(L)' = Round(L)) /\ Ids' = Ids /\ Cuts' = Cuts
    BY <2>1, SameShape
  <2>3. (Untouched' = Untouched) /\ (LeadsBack' = LeadsBack) /\ (NoRounds' = NoRounds)
    BY <2>1, <2>2 DEF Untouched, LeadsBack, NoRounds
  <2>4. \A n : LastOf(n)' = LastOf(n)
    BY <2>1, InputFixed
  <2>5. Absent' = Absent /\ Tops' = Tops /\ (\A m : Under(m)' = Under(m))
    <3>1. Absent' = Absent
      BY <2>2, <2>4 DEF Absent
    <3> QED
      BY <2>2, <2>4, <3>1 DEF Tops, Under
  <2>6. TreeIsDetermined'
    <3>0. ASSUME NEW s, NEW S, Lists(s, S) PROVE Range(s) = S /\ InOrder(s)'
      BY <2>1, <3>0 DEF Lists, InOrder, ByStart
    <3>1. /\ Lists(roots, Tops) => Lists(roots, Tops)'
          /\ Lists(missing, Absent) => Lists(missing, Absent)'
          /\ Lists(cycles, Cuts) => Lists(cycles, Cuts)'
      BY <2>1, <2>2, <2>5, <3>0 DEF Lists
    <3>2. \A n : Lists(children[n], Under(n)) => Lists(children[n], Under(n))'
      BY <2>1, <2>5, <3>0 DEF Lists
    <3>3. TreeIsDetermined
      BY DEF TreeInv
    <3> SUFFICES ASSUME pc = "done" PROVE TreeIsDetermined'
      BY <2>1, Zenon DEF TreeIsDetermined
    <3>4. (DOMAIN node = Ids \cup Absent /\ \A n \in Ids : node[n] = LastOf(n))'
      BY <2>1, <2>2, <2>4, <2>5, <3>3, Zenon DEF TreeIsDetermined
    <3>5. (Lists(roots, Tops) /\ Lists(missing, Absent) /\ Lists(cycles, Cuts))'
      BY <3>1, <3>3 DEF TreeIsDetermined
    <3>6. (\A n \in DOMAIN node : Lists(children[n], Under(n)))'
      BY <2>1, <3>2, <3>3, Zenon DEF TreeIsDetermined
    <3>7. (\A n \in DOMAIN node : parent[n] = IF n \in Tops THEN Nil ELSE LastOf(n).parent)'
      BY <2>1, <2>4, <2>5, <3>3 DEF TreeIsDetermined
    <3>8. (\A n \in Absent : /\ \A c \in Under(n) : node[n].start <= node[c].start /\ node[c].end <= node[n].end
                           /\ \E c, d \in Under(n) : node[n].start = node[c].start /\ node[n].end = node[d].end)'
      <4>1. \A n \in Absent : /\ \A c \in Under(n) : node[n].start <= node[c].start /\ node[c].end <= node[n].end
                             /\ \E c, d \in Under(n) : node[n].start = node[c].start /\ node[n].end = node[d].end
        BY <3>3, Zenon DEF TreeIsDetermined
      <4>2. Absent' = Absent /\ node' = node /\ \A n : Under(n)' = Under(n)
        BY <2>1, <2>5
      <4>3. ASSUME NEW n \in Absent'
            PROVE  /\ \A c \in Under(n)' : node'[n].start <= node'[c].start /\ node'[c].end <= node'[n].end
                   /\ \E c, d \in Under(n)' : node'[n].start = node'[c].start /\ node'[n].end = node'[d].end
        <5>1. n \in Absent /\ Under(n)' = Under(n)
          BY <4>2, <4>3, Zenon
        <5>2. /\ \A c \in Under(n) : node[n].start <= node[c].start /\ node[c].end <= node[n].end
              /\ \E c, d \in Under(n) : node[n].start = node[c].start /\ node[n].end = node[d].end
          BY <4>1, <5>1, Zenon
        <5> QED
          BY <4>2, <5>1, <5>2, Zenon
      <4> QED
        BY <4>3, Zenon
    <3> QED
      BY <3>4, <3>5, <3>6, <3>7, <3>8, Zenon DEF TreeIsDetermined
  <2>7. Ascending(node, cycles)' = Ascending(node, cycles)
    BY <2>1 DEF Ascending, ByStart
  <2>8. /\ Listing(roots, Tops)' = Listing(roots, Tops) /\ Listing(missing, Absent)' = Listing(missing, Absent)
        /\ Listing(cycles, Cuts)' = Listing(cycles, Cuts)
    BY <2>1, <2>2, <2>5
  <2>9. ChildrenListed' = ChildrenListed
    BY <2>1, <2>5 DEF ChildrenListed
  <2> QED
    BY <2>1, <2>2, <2>3, <2>6, <2>7, <2>8, <2>9 DEF TreeInv
<1>2. CASE Refuse
  <2>1. pc = "collect" /\ pc' = "error" /\ UNCHANGED <<input, cycles>> /\ cycles = << >>
    BY <1>2 DEF Refuse, TreeInv
  <2>2. Range(cycles') \subseteq Cuts'
    BY <2>1 DEF Range
  <2> QED
    BY <2>1, <2>2, Zenon DEF TreeInv, Building, Marking, TreeIsDetermined
<1>3. CASE Link
  BY <1>3, LinkTree
<1>4. CASE Collect \/ MarkRoots \/ Visit \/ Marked \/ Remarked
  BY <1>4, CollectTree, MarkRootsTree, VisitTree, MarkedTree, RemarkedTree
<1>5. CASE SkipReached \/ CutCycle \/ CutsDone \/ Finish
  BY <1>5, SkipReachedTree, CutCycleTree, CutsDoneTree, FinishTree
<1> QED
  BY <1>1, <1>2, <1>3, <1>4, <1>5 DEF Next, BreakCycles

\* BuildInv and TreeInv hold throughout.
LEMMA TreeInvariant == Spec => [](BuildInv /\ TreeInv)
<1>1. Init => BuildInv /\ TreeInv
  <2> SUFFICES ASSUME Init PROVE BuildInv /\ TreeInv
    OBVIOUS
  <2>1. input \in Inputs /\ pc = "collect" /\ cycles = << >> /\ roots = << >> /\ missing = << >>
        /\ stack = << >> /\ reached = {}
    BY DEF Init
  <2>2. BuildInv
    BY <2>1 DEF BuildInv, Marking
  <2>3. Range(cycles) = {}
    BY <2>1 DEF Range
  <2>4. pc \notin Building /\ pc \notin Marking
    BY <2>1 DEF Building, Marking
  <2>5. TreeInv
    BY <2>1, <2>3, <2>4, Zenon DEF TreeInv, Building, TreeIsDetermined
  <2> QED
    BY <2>2, <2>5
<1>2. BuildInv /\ TreeInv /\ [Next]_vars => (BuildInv /\ TreeInv)'
  BY BuildInductive, TreeInductive
<1> QED
  BY <1>1, <1>2, PTL DEF Spec

\* Whatever spans Build is called with and in whatever order it links them, it
\* never meets a nil pointer: the walk up from a stranded node stays among the
\* spans that arrived, and a placeholder has a first child.
THEOREM BuildNeverPanics == Spec => [](pc # "panic")
<1>1. BuildInv /\ TreeInv => pc # "panic"
  BY DEF TreeInv
<1> QED
  BY <1>1, TreeInvariant, PTL

\* Whatever spans Build is called with and in whatever order it links them, the
\* tree it returns is the one the spans alone determine.
THEOREM TreeIsDeterminedAlways == Spec => []TreeIsDetermined
<1>1. BuildInv /\ TreeInv => TreeIsDetermined
  BY DEF TreeInv
<1> QED
  BY <1>1, TreeInvariant, PTL
=============================================================================
