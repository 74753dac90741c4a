--------------------------- MODULE AssemblyProofs ---------------------------
(***************************************************************************)
(* breakCycles rests on one sentence of a comment: every parent of a       *)
(* stranded node is stranded too, or it would have been reached.  Proved   *)
(* here for every slice of spans and every order of the linking loop, with *)
(* what TreeProofs and WalkProofs need beside it: slices and their         *)
(* sorting, what SelfTime and CriticalPath make of a forest, the walks up  *)
(* the links and the loops they end in.                                    *)
(***************************************************************************)
EXTENDS Timing, FiniteSetTheorems, TLAPS

(***************************************************************************)
(* Facts about sequences.  The solvers know them; they are lemmas so that  *)
(* a leaf has them without the rest of a library of theorems in scope,     *)
(* which would slow every step of the proofs below.                        *)
(***************************************************************************)

\* The elements of a sequence over S are in S.
LEMMA SeqElement == ASSUME NEW S, NEW s \in Seq(S), NEW n \in 1..Len(s) PROVE s[n] \in S
  OBVIOUS

\* The empty sequence is the only one without elements.
LEMMA SeqEmpty ==
  ASSUME NEW S
  PROVE  << >> \in Seq(S) /\ Len(<< >>) = 0 /\ \A s \in Seq(S) : s # << >> => Len(s) \in Nat \ {0}
  OBVIOUS

\* A sequence is a function on the numbers up to its length.
LEMMA SeqLen ==
  ASSUME NEW S, NEW s \in Seq(S)
  PROVE  Len(s) \in Nat /\ DOMAIN s = 1..Len(s) /\ s \in [1..Len(s) -> S]
  OBVIOUS

\* The elements of a concatenation, by position.
LEMMA SeqConcat ==
  ASSUME NEW S, NEW a \in Seq(S), NEW b \in Seq(S)
  PROVE  /\ a \o b \in Seq(S) /\ Len(a \o b) = Len(a) + Len(b)
         /\ \A i \in 1..(Len(a) + Len(b)) : (a \o b)[i] = IF i <= Len(a) THEN a[i] ELSE b[i - Len(a)]
  OBVIOUS

\* Append keeps what is there and puts its element at the end.
LEMMA SeqAppend ==
  ASSUME NEW S, NEW s \in Seq(S), NEW x \in S
  PROVE  /\ Append(s, x) \in Seq(S) /\ Len(Append(s, x)) = Len(s) + 1
         /\ Append(s, x)[Len(s) + 1] = x /\ \A i \in 1..Len(s) : Append(s, x)[i] = s[i]
  OBVIOUS

\* A sequence over a set is one over any larger set.
LEMMA SeqGrows == ASSUME NEW S, NEW T, S \subseteq T, NEW s \in Seq(S)
                  PROVE s \in Seq(T)
  OBVIOUS

\* A concatenation has the elements of both.
LEMMA ConcatElements ==
  ASSUME NEW S, NEW a \in Seq(S), NEW b \in Seq(S)
  PROVE  a \o b \in Seq(S) /\ Range(a \o b) = Range(a) \cup Range(b)
<1> DEFINE c == a \o b
           m == Len(a)
           n == Len(b)
<1>1. /\ c \in Seq(S) /\ m \in Nat /\ n \in Nat /\ DOMAIN a = 1..m /\ DOMAIN b = 1..n
      /\ Len(c) = m + n /\ \A i \in 1..(m + n) : c[i] = IF i <= m THEN a[i] ELSE b[i - m]
  BY SeqLen, SeqConcat
<1>2. DOMAIN c = 1..(m + n)
  BY <1>1, SeqLen
<1> HIDE DEF c, m, n
<1>3. \A i \in 1..m : i \in 1..(m + n) /\ c[i] = a[i]
  BY <1>1
<1>4. \A i \in 1..n : m + i \in 1..(m + n) /\ c[m + i] = b[i]
  BY <1>1
<1>5. \A i \in 1..(m + n) : (i \in 1..m /\ c[i] = a[i]) \/ (i - m \in 1..n /\ c[i] = b[i - m])
  BY <1>1
<1>6. Range(c) = Range(a) \cup Range(b)
  <2>1. /\ Range(c) = {c[i] : i \in 1..(m + n)} /\ Range(a) = {a[i] : i \in 1..m}
        /\ Range(b) = {b[i] : i \in 1..n}
    BY <1>1, <1>2 DEF Range
  <2>2. \A i \in 1..(m + n) : c[i] \in Range(a) \cup Range(b)
    BY <1>5, <2>1
  <2>3. (\A i \in 1..m : a[i] \in Range(c)) /\ \A i \in 1..n : b[i] \in Range(c)
    BY <1>3, <1>4, <2>1
  <2> QED
    BY <2>1, <2>2, <2>3
<1> QED
  BY <1>1, <1>6 DEF c

\* A sequence of one element.
LEMMA OneElement ==
  ASSUME NEW S, NEW x \in S
  PROVE  <<x>> \in Seq(S) /\ Range(<<x>>) = {x}
  BY DEF Range

(***************************************************************************)
(* Loops that carry something from turn to turn.                           *)
(***************************************************************************)

\* A set of numbers that is not empty has a least element.
LEMMA LeastExists ==
  ASSUME NEW T \in SUBSET Nat, T # {}
  PROVE  \E m \in T : \A k \in T : m <= k
<1> DEFINE R == OpToRel(<, Nat)
<1>1. IsWellFoundedOn(R, Nat)
  BY NatLessThanWellFounded, Zenon
<1>2. \A x, y \in Nat : <<y, x>> \in R <=> y < x
  BY DEF OpToRel
<1> HIDE DEF R
<1>3. PICK m \in T : \A k \in T : ~(<<k, m>> \in R)
  BY <1>1, WFMin, Zenon
<1>4. ASSUME NEW k \in T PROVE m <= k
  <2>1. ~(k < m)
    BY <1>2, <1>3, Zenon
  <2> QED
    BY <2>1
<1> QED
  BY <1>4

\* What holds at first and is kept by every turn of a loop holds at its end: G
\* is the set of turns it holds after.
LEMMA LoopInduction ==
  ASSUME NEW N \in Nat, NEW G, 0 \in G, \A i \in 1..N : i - 1 \in G => i \in G
  PROVE  0..N \subseteq G
<1> DEFINE T == 0..N \ G
<1> SUFFICES ASSUME T # {} PROVE FALSE
  OBVIOUS
<1>1. PICK m \in T : \A k \in T : m <= k
  <2>1. T \in SUBSET Nat
    OBVIOUS
  <2> HIDE DEF T
  <2> QED
    BY <2>1, LeastExists
<1>2. m \in 1..N /\ m \notin G
  OBVIOUS
<1>3. m - 1 \in 0..N /\ ~(m <= m - 1)
  BY <1>2
<1>4. m - 1 \in G
  BY <1>1, <1>3
<1> QED
  BY <1>2, <1>4

\* A loop of N turns on values of X, and what it has made after each turn.
Keeps(step, N, X) == \A i \in 1..N : \A x \in X : step[i][x] \in X
IsRun(u, step, N, X, b) == u \in [0..N -> X] /\ u[0] = b /\ \A i \in 1..N : u[i] = step[i][u[i - 1]]

\* A loop that keeps to X has a value after every turn.
LEMMA LoopExists ==
  ASSUME NEW X, NEW N \in Nat, NEW b \in X, NEW step, Keeps(step, N, X)
  PROVE  \E u : IsRun(u, step, N, X, b)
<1> DEFINE Runs(u, k) == u[0] = b /\ \A i \in 1..k : u[i] = step[i][u[i - 1]]
           G == {k \in 0..N : \E u \in [0..k -> X] : Runs(u, k)}
<1>1. 0 \in G
  <2> DEFINE u == [i \in 0..0 |-> b]
  <2>1. u \in [0..0 -> X] /\ Runs(u, 0)
    OBVIOUS
  <2> HIDE DEF u
  <2>2. \E w \in [0..0 -> X] : Runs(w, 0)
    BY <2>1
  <2> HIDE DEF Runs
  <2> QED
    BY <2>2
<1>2. ASSUME NEW m \in 1..N, m - 1 \in G PROVE m \in G
  <2>1. PICK v \in [0..(m - 1) -> X] : Runs(v, m - 1)
    BY <1>2
  <2> DEFINE u == [i \in 0..m |-> IF i = m THEN step[m][v[m - 1]] ELSE v[i]]
  <2>2. m - 1 \in 0..(m - 1) /\ \A i \in 0..m : i # m => i \in 0..(m - 1)
    OBVIOUS
  <2>3. u \in [0..m -> X]
    BY <2>1, <2>2 DEF Keeps
  <2>4. u[0] = b /\ u[m] = step[m][u[m - 1]]
    BY <2>1, <2>2
  <2>5. ASSUME NEW i \in 1..(m - 1) PROVE u[i] = step[i][u[i - 1]]
    <3>1. i \in 0..m /\ i # m /\ i - 1 \in 0..m /\ i - 1 # m
      OBVIOUS
    <3>2. u[i] = v[i] /\ u[i - 1] = v[i - 1]
      BY <3>1
    <3> QED
      BY <2>1, <3>2
  <2> HIDE DEF u
  <2>6. \A i \in 1..m : i = m \/ i \in 1..(m - 1)
    OBVIOUS
  <2>7. Runs(u, m)
    BY <2>4, <2>5, <2>6
  <2> QED
    BY <2>3, <2>7
<1>3. N \in G
  <2> HIDE DEF G
  <2>1. 0..N \subseteq G
    BY <1>1, <1>2, LoopInduction
  <2> QED
    BY <2>1
<1>4. PICK u \in [0..N -> X] : Runs(u, N)
  BY <1>3
<1> QED
  BY <1>4 DEF IsRun

(***************************************************************************)
(* Sorting.                                                                *)
(***************************************************************************)

NoRepeat(s) == \A i, j \in DOMAIN s : s[i] = s[j] => i = j
Listing(s, S) == s \in Seq(S) /\ Range(s) = S /\ NoRepeat(s)
Ascending(nd, s) == \A i, j \in DOMAIN s : i < j => ByStart(nd, s[i], s[j])

\* byStart puts any two nodes in one order.
LEMMA ByStartOrders ==
  ASSUME NEW S \in SUBSET Nat, NEW nd, \A n \in S : nd[n].start \in Int
  PROVE  /\ \A a, b \in S : a # b => ByStart(nd, a, b) \/ ByStart(nd, b, a)
         /\ \A a, b \in S : ByStart(nd, a, b) => ~ByStart(nd, b, a)
         /\ \A a, b, c \in S : ByStart(nd, a, b) /\ ByStart(nd, b, c) => ByStart(nd, a, c)
<1> DEFINE at == [n \in S |-> nd[n].start]
<1>1. \A a \in S : a \in Nat /\ at[a] \in Int
  BY Zenon
<1>2. \A a, b \in S : ByStart(nd, a, b) <=> at[a] < at[b] \/ (at[a] = at[b] /\ a < b)
  BY DEF ByStart
<1> HIDE DEF at
<1>3. ASSUME NEW a \in S, NEW b \in S, a # b PROVE ByStart(nd, a, b) \/ ByStart(nd, b, a)
  <2>1. a \in Nat /\ b \in Nat /\ at[a] \in Int /\ at[b] \in Int
    BY <1>1, Zenon
  <2>2. at[a] < at[b] \/ at[b] < at[a] \/ (at[a] = at[b] /\ (a < b \/ b < a))
    BY <1>3, <2>1
  <2> QED
    BY <1>2, <2>2, Zenon
<1>4. ASSUME NEW a \in S, NEW b \in S, ByStart(nd, a, b) PROVE ~ByStart(nd, b, a)
  BY <1>1, <1>2, <1>4
<1>5. ASSUME NEW a \in S, NEW b \in S, NEW c \in S, ByStart(nd, a, b), ByStart(nd, b, c)
      PROVE  ByStart(nd, a, c)
  BY <1>1, <1>2, <1>5
<1> QED
  BY <1>3, <1>4, <1>5, Zenon

\* The intervals that places are counted in.
LEMMA Counting ==
  ASSUME NEW n \in Nat
  PROVE  /\ IsFiniteSet(1..n) /\ Cardinality(1..n) = n
         /\ IsFiniteSet(0..(n - 1)) /\ Cardinality(0..(n - 1)) = n
<1>1. IsFiniteSet(1..n) /\ Cardinality(1..n) = IF 1 > n THEN 0 ELSE n - 1 + 1
  BY FS_Interval
<1>2. n - 1 \in Int
  OBVIOUS
<1>3. IsFiniteSet(0..(n - 1)) /\ Cardinality(0..(n - 1)) = IF 0 > n - 1 THEN 0 ELSE (n - 1) - 0 + 1
  BY <1>2, FS_Interval
<1> QED
  BY <1>1, <1>3

\* R puts any two members of S in one order, and s is in that order.
Orders(R, S) ==
  /\ \A a, b \in S : a # b => <<a, b>> \in R \/ <<b, a>> \in R
  /\ \A a, b \in S : <<a, b>> \in R => <<b, a>> \notin R
  /\ \A a, b, c \in S : <<a, b>> \in R /\ <<b, c>> \in R => <<a, c>> \in R
InOrderOf(R, s) == \A i, j \in DOMAIN s : i < j => <<s[i], s[j]>> \in R

\* Sorting a slice without repeats keeps its elements and puts them in order.
LEMMA SortByLists ==
  ASSUME NEW S, NEW R, Orders(R, S), NEW s, Listing(s, S)
  PROVE  Listing(SortBy(R, s), S) /\ InOrderOf(R, SortBy(R, s))
<1> DEFINE n == Len(s)
           I == DOMAIN s
           Before(i) == {j \in I : <<s[j], s[i]>> \in R \/ (s[j] = s[i] /\ j < i)}
           r == SortBy(R, s)
<1>1. s \in Seq(S) /\ n \in Nat /\ I = 1..n /\ Range(s) = S /\ NoRepeat(s)
  BY SeqLen DEF Listing
<1>2. \A i \in I : s[i] \in S
  BY <1>1, SeqElement
<1>3. r = [k \in I |-> s[CHOOSE i \in I : Cardinality(Before(i)) = k - 1]]
  BY DEF SortBy
<1> DEFINE B == [i \in I |-> {j \in I : <<s[j], s[i]>> \in R}]
<1>4. \A i \in I : Before(i) = B[i]
  BY <1>1 DEF NoRepeat
<1> DEFINE rank == [i \in I |-> Cardinality(B[i])]
<1>5. IsFiniteSet(I) /\ Cardinality(I) = n
  BY <1>1, Counting
<1>6. ASSUME NEW i \in I PROVE B[i] \in SUBSET I /\ i \notin B[i] /\ IsFiniteSet(B[i]) /\ rank[i] \in 0..(n - 1)
  <2>1. B[i] \in SUBSET I
    OBVIOUS
  <2>2. i \notin B[i]
    BY <1>2, Zenon DEF Orders
  <2> HIDE DEF B, I
  <2>3. /\ IsFiniteSet(B[i]) /\ Cardinality(B[i]) \in Nat /\ Cardinality(B[i]) <= n
        /\ Cardinality(B[i]) = n => B[i] = I
    BY <1>5, <2>1, FS_Subset, FS_CardinalityType
  <2>4. Cardinality(B[i]) # n
    BY <2>2, <2>3
  <2>5. rank[i] = Cardinality(B[i])
    OBVIOUS
  <2> QED
    BY <1>1, <2>1, <2>2, <2>3, <2>4, <2>5
<1>7. ASSUME NEW i \in I, NEW j \in I, <<s[i], s[j]>> \in R PROVE rank[i] < rank[j]
  <2>1. i \in B[j] /\ i \notin B[i]
    BY <1>6, <1>7, Zenon
  <2>2. B[i] \subseteq B[j]
    <3> SUFFICES ASSUME NEW m \in I, <<s[m], s[i]>> \in R PROVE <<s[m], s[j]>> \in R
      OBVIOUS
    <3> QED
      BY <1>2, <1>7, Zenon DEF Orders
  <2>3. IsFiniteSet(B[j]) /\ rank[i] = Cardinality(B[i]) /\ rank[j] = Cardinality(B[j])
    BY <1>6, Zenon
  <2> HIDE DEF B, rank
  <2>4. Cardinality(B[i]) <= Cardinality(B[j]) /\ (Cardinality(B[j]) = Cardinality(B[i]) => B[j] = B[i])
    BY <2>2, <2>3, FS_Subset
  <2>5. rank[i] \in Nat /\ rank[j] \in Nat
    BY <1>1, <1>6
  <2> QED
    BY <2>1, <2>3, <2>4, <2>5
<1>8. ASSUME NEW i \in I, NEW j \in I, i # j PROVE rank[i] # rank[j]
  <2>1. s[i] \in S /\ s[j] \in S /\ s[i] # s[j]
    BY <1>1, <1>2, <1>8 DEF NoRepeat
  <2>2. <<s[i], s[j]>> \in R \/ <<s[j], s[i]>> \in R
    BY <2>1, Zenon DEF Orders
  <2>3. rank[i] < rank[j] \/ rank[j] < rank[i]
    BY <1>7, <2>2
  <2>4. rank[i] \in 0..(n - 1) /\ rank[j] \in 0..(n - 1)
    BY <1>6, Zenon
  <2> HIDE DEF rank
  <2> QED
    BY <1>1, <2>3, <2>4
<1>9. DOMAIN rank = I
  OBVIOUS
<1>10. \A i \in I : Cardinality(Before(i)) = rank[i]
  BY <1>4, Zenon
<1> DEFINE pos == [k \in I |-> CHOOSE i \in I : Cardinality(Before(i)) = k - 1]
<1>11. r = [k \in I |-> s[pos[k]]]
  BY <1>3
<1> HIDE DEF Before, B, rank
<1>12. \A k \in 0..(n - 1) : \E i \in I : rank[i] = k
  <2> DEFINE P == 0..(n - 1)
  <2>1. rank \in Injection(I, P)
    <3>1. rank \in [I -> P]
      BY <1>6, <1>9 DEF rank
    <3> QED
      BY <1>8, <3>1 DEF Injection, IsInjective
  <2>2. IsFiniteSet(P) /\ Cardinality(P) = n
    BY <1>1, Counting
  <2> HIDE DEF P, I
  <2>3. rank \in Surjection(I, P)
    BY <1>5, <2>1, <2>2, FS_Injection
  <2> QED
    BY <2>3 DEF Surjection, P
<1>13. ASSUME NEW k \in I PROVE pos[k] \in I /\ rank[pos[k]] = k - 1
  <2>1. k - 1 \in 0..(n - 1)
    BY <1>1
  <2>2. \E i \in I : Cardinality(Before(i)) = k - 1
    BY <1>10, <1>12, <2>1
  <2>3. pos[k] \in I /\ Cardinality(Before(pos[k])) = k - 1
    BY <2>2
  <2> QED
    BY <1>10, <2>3
<1> HIDE DEF pos, r
<1>14. r \in Seq(S) /\ DOMAIN r = I /\ \A k \in I : r[k] = s[pos[k]]
  BY <1>1, <1>2, <1>11, <1>13
<1>15. ASSUME NEW k \in I, NEW l \in I, k < l PROVE <<r[k], r[l]>> \in R
  <2>1. k \in Nat /\ l \in Nat /\ ~(l - 1 < k - 1) /\ k - 1 # l - 1
    BY <1>1, <1>15
  <2>2. pos[k] # pos[l] /\ ~(rank[pos[l]] < rank[pos[k]])
    BY <1>13, <2>1
  <2>3. s[pos[k]] \in S /\ s[pos[l]] \in S /\ s[pos[k]] # s[pos[l]]
    BY <1>1, <1>2, <1>13, <2>2 DEF NoRepeat
  <2>4. <<s[pos[k]], s[pos[l]]>> \in R
    BY <1>7, <1>13, <2>2, <2>3, Zenon DEF Orders
  <2> QED
    BY <1>14, <2>4
<1>16. NoRepeat(r)
  <2> SUFFICES ASSUME NEW k \in I, NEW l \in I, r[k] = r[l] PROVE k = l
    BY <1>14 DEF NoRepeat
  <2>1. pos[k] = pos[l]
    BY <1>1, <1>13, <1>14 DEF NoRepeat
  <2>2. k - 1 = l - 1 /\ k \in Nat /\ l \in Nat
    BY <1>1, <1>13, <2>1
  <2> QED
    BY <2>2
<1>17. Range(r) = S
  <2>1. \A x \in Range(r) : x \in S
    BY <1>2, <1>13, <1>14 DEF Range
  <2>2. ASSUME NEW x \in S PROVE x \in Range(r)
    <3>1. PICK i \in I : s[i] = x
      BY <1>1 DEF Range
    <3> DEFINE k == rank[i] + 1
    <3>2. k \in I /\ k - 1 = rank[i]
      BY <1>1, <1>6
    <3> HIDE DEF k
    <3>3. pos[k] = i
      BY <1>8, <1>13, <3>2
    <3> QED
      BY <1>14, <3>1, <3>2, <3>3 DEF Range
  <2> QED
    BY <2>1, <2>2
<1> QED
  BY <1>14, <1>15, <1>16, <1>17 DEF Listing, InOrderOf, r

(***************************************************************************)
(* Forests: nodes with their children in slices, and no way round.         *)
(***************************************************************************)

Closed(g, L) == \A x \in L : g[x] \in L
Forest(N, ch, par) ==
  /\ IsFiniteSet(N) /\ ch \in [N -> Seq(N)]
  /\ \A n \in N : NoRepeat(ch[n]) /\ \A c \in Range(ch[n]) : par[c] = n
  /\ \A L \in SUBSET N : L # {} => ~Closed(par, L)

\* What holds of a node whenever it holds of its children holds of them all.
LEMMA FromTheLeaves ==
  ASSUME NEW N, NEW ch, NEW par, Forest(N, ch, par), NEW G,
         \A n \in N : Range(ch[n]) \subseteq G => n \in G
  PROVE  N \subseteq G
<1> DEFINE B == N \ G
<1> SUFFICES ASSUME B # {} PROVE FALSE
  OBVIOUS
<1>1. \A n \in B : \E c \in B : par[c] = n
  <2> SUFFICES ASSUME NEW n \in B PROVE \E c \in B : par[c] = n
    OBVIOUS
  <2>1. PICK c \in Range(ch[n]) : c \notin G
    OBVIOUS
  <2>2. ch[n] \in Seq(N) /\ par[c] = n
    BY DEF Forest
  <2>3. c \in N
    BY <2>1, <2>2, SeqLen DEF Range
  <2> QED
    BY <2>1, <2>2, <2>3
<1> DEFINE f == [n \in B |-> CHOOSE c \in B : par[c] = n]
<1>2. \A n \in B : f[n] \in B /\ par[f[n]] = n
  BY <1>1
<1>3. IsFiniteSet(B) /\ B \in SUBSET N
  BY FS_Subset DEF Forest
<1>4. f \in [B -> B]
  BY <1>2
<1> HIDE DEF f, B
<1>5. f \in Injection(B, B)
  BY <1>2, <1>4 DEF Injection, IsInjective
<1>6. f \in Surjection(B, B)
  BY <1>3, <1>5, FS_Injection
<1>7. \A x \in B : par[x] \in B
  BY <1>2, <1>6 DEF Surjection
<1> QED
  BY <1>3, <1>7, Zenon DEF Forest, Closed

\* T describes a node by its children only.
ByChildren(T, N, ch, X) ==
  /\ [N -> X] # {} /\ \A f \in [N -> X] : T[f] \in [N -> X]
  /\ \A f, g \in [N -> X] : \A n \in N : (\A c \in Range(ch[n]) : f[c] = g[c]) => T[f][n] = T[g][n]
Described(f, T, N, X) == f \in [N -> X] /\ f = T[f]

\* A description of the nodes by their children is met by some function: T
\* applied to anything is right for the nodes without children, T applied to
\* that for those whose children have none, and so on.
LEMMA DescribedFromTheLeaves ==
  ASSUME NEW N, NEW ch, NEW par, Forest(N, ch, par), NEW X, NEW T, ByChildren(T, N, ch, X)
  PROVE  \E f : Described(f, T, N, X)
<1> DEFINE K == Cardinality(N)
           F == [N -> X]
           Ready(S) == {n \in N : Range(ch[n]) \subseteq S}
           H == [S \in SUBSET N |-> Ready(S)]
           tt == [i \in 1..K |-> T]
           hh == [i \in 1..K |-> H]
           E == SUBSET N
<1>1. IsFiniteSet(N) /\ K \in Nat
  BY FS_CardinalityType DEF Forest
<1>2. Keeps(tt, K, F)
  BY DEF Keeps, ByChildren
<1>0. PICK b \in F : TRUE
  BY DEF ByChildren
<1>3. PICK u : IsRun(u, tt, K, F, b)
  <2> HIDE DEF K, F, tt
  <2> QED
    BY <1>0, <1>1, <1>2, LoopExists
<1>4. Keeps(hh, K, E)
  BY DEF Keeps
<1>5. PICK w : IsRun(w, hh, K, E, {})
  <2> HIDE DEF K, E, hh
  <2>1. {} \in E
    BY DEF E
  <2> QED
    BY <1>1, <1>4, <2>1, LoopExists
<1>6. u \in [0..K -> F] /\ w \in [0..K -> E] /\ w[0] = {}
  BY <1>3, <1>5 DEF IsRun
<1>7. \A i \in 1..K : i - 1 \in 0..K /\ i \in 0..K
  BY <1>1
<1>8. \A i \in 1..K : u[i] = T[u[i - 1]] /\ w[i] = Ready(w[i - 1])
  BY <1>3, <1>5, <1>6, <1>7, Zenon DEF IsRun
<1> HIDE DEF K, tt, hh, H
\* Each turn settles the nodes whose children the turn before had settled.
<1>9. \A i \in 0..K : \A n \in w[i] : T[u[i]][n] = u[i][n]
  <2> DEFINE G == {i \in 0..K : \A n \in w[i] : T[u[i]][n] = u[i][n]}
  <2>1. 0 \in G
    BY <1>1, <1>6
  <2>2. ASSUME NEW i \in 1..K, i - 1 \in G PROVE i \in G
    <3>1. i \in 0..K /\ i - 1 \in 0..K
      BY <1>7
    <3>2. u[i - 1] \in F /\ u[i] \in F /\ u[i] = T[u[i - 1]] /\ w[i] = Ready(w[i - 1])
      BY <1>6, <1>8, <3>1
    <3>3. \A n \in w[i - 1] : T[u[i - 1]][n] = u[i - 1][n]
      BY <2>2
    <3>4. ASSUME NEW n \in w[i] PROVE T[u[i]][n] = u[i][n]
      <4>1. n \in N /\ \A c \in Range(ch[n]) : c \in w[i - 1]
        BY <3>2, <3>4
      <4>2. \A c \in Range(ch[n]) : u[i][c] = u[i - 1][c]
        BY <3>2, <3>3, <4>1
      <4>3. T[u[i]][n] = T[u[i - 1]][n]
        BY <3>2, <4>1, <4>2 DEF ByChildren
      <4> QED
        BY <3>2, <4>3
    <3> QED
      BY <3>1, <3>4
  <2> HIDE DEF G
  <2>3. 0..K \subseteq G
    BY <1>1, <2>1, <2>2, LoopInduction
  <2> QED
    BY <2>3 DEF G
\* And each settles one more, until all are.
<1>10. \A i \in 0..K : w[i] \subseteq Ready(w[i]) /\ (w[i] = N \/ Cardinality(w[i]) >= i)
  <2> DEFINE G == {i \in 0..K : w[i] \subseteq Ready(w[i]) /\ (w[i] = N \/ Cardinality(w[i]) >= i)}
  <2>1. 0 \in G
    <3>1. 0 \in 0..K /\ 0 >= 0
      BY <1>1
    <3>2. Cardinality({}) = 0
      BY FS_EmptySet
    <3> QED
      BY <1>6, <3>1, <3>2
  <2>2. ASSUME NEW i \in 1..K, i - 1 \in G PROVE i \in G
    <3>1. i \in 0..K /\ i - 1 \in 0..K
      BY <1>7
    <3> DEFINE P == w[i - 1]
               Q == w[i]
    <3>2. P \subseteq N /\ Q = Ready(P) /\ P \subseteq Q /\ (P = N \/ Cardinality(P) >= i - 1)
      BY <1>6, <1>8, <2>2, <3>1
    <3> HIDE DEF P, Q
    <3>3. Q \subseteq N /\ Q \subseteq Ready(Q)
      BY <3>2
    <3>4. CASE P = N
      BY <3>1, <3>2, <3>3, <3>4 DEF P, Q
    <3>5. CASE P # N
      <4>1. P # Q
        <5>1. SUFFICES ASSUME P = Q PROVE FALSE
          OBVIOUS
        <5>2. \A n \in N : Range(ch[n]) \subseteq P => n \in P
          BY <3>2, <5>1
        <5>3. N \subseteq P
          BY <5>2, FromTheLeaves
        <5> QED
          BY <3>2, <3>5, <5>3
      <4>2. /\ IsFiniteSet(Q) /\ Cardinality(Q) \in Nat /\ Cardinality(P) \in Nat
            /\ Cardinality(P) <= Cardinality(Q) /\ Cardinality(P) # Cardinality(Q)
        BY <1>1, <3>2, <3>3, <4>1, FS_Subset, FS_CardinalityType
      <4>3. Cardinality(Q) >= i
        <5>1. i \in Int /\ Cardinality(P) >= i - 1
          BY <1>1, <3>2, <3>5
        <5> DEFINE p == Cardinality(P)
                   q == Cardinality(Q)
        <5>2. p \in Nat /\ q \in Nat /\ p <= q /\ p # q /\ p >= i - 1
          BY <4>2, <5>1
        <5> HIDE DEF p, q
        <5>3. q >= i
          BY <5>1, <5>2
        <5> QED
          BY <5>3 DEF q
      <4> QED
        BY <3>1, <3>3, <4>3 DEF Q
    <3> QED
      BY <3>4, <3>5
  <2> HIDE DEF G
  <2>3. 0..K \subseteq G
    BY <1>1, <2>1, <2>2, LoopInduction
  <2> QED
    BY <2>3 DEF G
<1>11. K \in 0..K
  BY <1>1
<1>12. w[K] = N
  <2>1. w[K] \in SUBSET N /\ (w[K] = N \/ Cardinality(w[K]) >= K)
    BY <1>6, <1>10, <1>11
  <2>2. Cardinality(w[K]) \in Nat /\ Cardinality(w[K]) <= K /\ (K = Cardinality(w[K]) => N = w[K])
    BY <1>1, <2>1, FS_Subset, FS_CardinalityType DEF K
  <2> DEFINE c == Cardinality(w[K])
  <2>3. c \in Nat /\ c <= K /\ (w[K] = N \/ c >= K)
    BY <2>1, <2>2
  <2>4. c \in Nat /\ c <= K /\ c >= K => c = K
    <3> HIDE DEF c
    <3> QED
      BY <1>1
  <2> QED
    BY <2>2, <2>3, <2>4
<1>13. u[K] \in [N -> X] /\ T[u[K]] \in [N -> X] /\ \A n \in N : T[u[K]][n] = u[K][n]
  BY <1>6, <1>9, <1>11, <1>12 DEF ByChildren
<1>14. u[K] = T[u[K]]
  <2> DEFINE g == u[K]
             h == T[u[K]]
  <2>1. g \in [N -> X] /\ h \in [N -> X] /\ \A n \in N : h[n] = g[n]
    BY <1>13
  <2> HIDE DEF g, h
  <2>2. g = h
    BY <2>1
  <2> QED
    BY <2>2 DEF g, h
<1> QED
  BY <1>13, <1>14 DEF Described

(***************************************************************************)
(* SelfTime.                                                               *)
(***************************************************************************)

\* What the loop of SelfTime carries, and a node with its children having times.
Carry == [busy : Int, cursor : Int]
Timed(n, M) == /\ node[n].start \in Int /\ node[n].end \in Int /\ children[n] \in Seq(M)
               /\ \A c \in M : node[c].start \in Int /\ node[c].end \in Int

\* What the loop carries after each turn.
BusyAfter(u, n) ==
  /\ u[0] = [busy |-> 0, cursor |-> node[n].start] /\ u[Len(children[n])].busy = Busy(n)
  /\ \A i \in 1..Len(children[n]) : u[i] = Merge(n, u[i - 1], children[n][i])

\* The first k instants from s on that matter have been counted: C is what the
\* children have covered of s..(e - 1) so far, all of it before the cursor k,
\* and nothing is left out between a, where the next child starts, and k.
Counted(C, b, k, s, e, a) ==
  /\ C \subseteq s..(k - 1) /\ C \subseteq s..(e - 1) /\ s <= k /\ b = Cardinality(C)
  /\ \A x \in s..(e - 1) : a <= x /\ x < k => x \in C

\* A child from a to z adds what is left of it after the cursor.
Adds(C, b, k, s, e, a, z) ==
  LET from == later(a, k)
      to == earlier(z, e)
      D == C \cup (a..(z - 1) \cap s..(e - 1))
  IN IF to > from THEN D \subseteq s..(to - 1) /\ s <= to /\ Cardinality(D) = b + (to - from) ELSE D = C

\* The time SelfTime subtracts is what the children cover of the span, when they
\* are in the order of their starts.
LEMMA BusyIsCovered ==
  ASSUME NEW n, NEW M, Timed(n, M),
         \A i, j \in DOMAIN children[n] : i < j => node[children[n][i]].start <= node[children[n][j]].start
  PROVE  Busy(n) = Cardinality({x \in Instants(n) : \E j \in DOMAIN children[n] : x \in Instants(children[n][j])})
\* A turn keeps to what the loop carries.
<1>MergeTyped. ASSUME NEW acc \in Carry, NEW c \in M
               PROVE  Merge(n, acc, c) \in Carry
  <2> USE <1>MergeTyped
  <2> DEFINE a == node[c].start
             z == node[c].end
             e == node[n].end
  <2>1. a \in Int /\ z \in Int /\ e \in Int /\ acc.busy \in Int /\ acc.cursor \in Int
    BY DEF Timed, Carry
  <2> HIDE DEF a, z, e
  <2>2. Merge(n, acc, c) = IF earlier(z, e) > later(a, acc.cursor)
                           THEN [busy |-> acc.busy + (earlier(z, e) - later(a, acc.cursor)), cursor |-> earlier(z, e)]
                           ELSE acc
    BY DEF Merge, a, z, e
  <2>3. earlier(z, e) \in Int /\ later(a, acc.cursor) \in Int
    BY <2>1 DEF earlier, later
  <2> QED
    BY <2>1, <2>2, <2>3 DEF Carry
\* There are such turns.
<1>BusyIsLoop. \E u \in [0..Len(children[n]) -> Carry] : BusyAfter(u, n)
  <2> DEFINE cs == children[n]
             K == Len(cs)
             X == Carry
             e == [busy |-> 0, cursor |-> node[n].start]
             step == [i \in 1..K |-> [s \in X |-> Merge(n, s, cs[i])]]
             Turn(h) == [i \in 0..K |-> IF i = 0 THEN e ELSE Merge(n, h[i - 1], cs[i])]
  <2>1. K \in Nat /\ \A i \in 1..K : cs[i] \in M
    BY SeqLen DEF Timed
  <2>2. \A i \in 1..K : \A s \in X : Merge(n, s, cs[i]) \in X
    BY <2>1, <1>MergeTyped
  <2>3. Keeps(step, K, X)
    <3> HIDE DEF X, K, cs
    <3> QED
      BY <2>2 DEF Keeps
  <2>4. e \in X
    BY DEF Timed, Carry
  <2>5. PICK u : IsRun(u, step, K, X, e)
    <3> HIDE DEF X, K, step, e
    <3> QED
      BY <2>1, <2>3, <2>4, LoopExists
  <2>6. \A i \in 1..K : i - 1 \in 0..K /\ i \in 0..K /\ i # 0
    BY <2>1
  <2> HIDE DEF cs
  <2>7. u \in [0..K -> X] /\ u[0] = e /\ \A i \in 1..K : u[i] = Merge(n, u[i - 1], cs[i])
    <3> HIDE DEF X, K, e
    <3> QED
      BY <2>5, <2>6, Zenon DEF IsRun
  <2>8. \A i \in 0..K : i = 0 \/ i \in 1..K
    BY <2>1
  <2>9. u = Turn(u)
    <3> HIDE DEF X, K, e
    <3>1. \A i \in 0..K : u[i] = Turn(u)[i]
      BY <2>6, <2>7, <2>8, Zenon
    <3> QED
      BY <2>7, <3>1, Zenon
  <2> DEFINE v == CHOOSE h : h = Turn(h)
  <2>10. v = Turn(v)
    <3> HIDE DEF Turn
    <3> QED
      BY <2>9
  <2>11. Busy(n) = v[K].busy
    BY Zenon DEF Busy, cs
  <2> HIDE DEF v, K, X, e
  <2>12. v[0] = e /\ \A i \in 1..K : v[i] = Merge(n, v[i - 1], cs[i])
    <3>1. 0 \in 0..K
      BY <2>1
    <3> QED
      BY <2>6, <2>10, <3>1, Zenon
  <2>13. v[K] = u[K]
    <3> DEFINE G == {i \in 0..K : v[i] = u[i]}
    <3>1. 0 \in G
      BY <2>1, <2>7, <2>12
    <3>2. \A i \in 1..K : i - 1 \in G => i \in G
      BY <2>6, <2>7, <2>12, Zenon
    <3>3. 0..K \subseteq G
      <4> HIDE DEF G
      <4> QED
        BY <2>1, <3>1, <3>2, LoopInduction
    <3>4. K \in 0..K
      BY <2>1
    <3> QED
      BY <3>3, <3>4
  <2>14. BusyAfter(u, n)
    <3>1. u[0] = e /\ u[K].busy = Busy(n) /\ \A i \in 1..K : u[i] = Merge(n, u[i - 1], cs[i])
      BY <2>7, <2>11, <2>13, Zenon
    <3> QED
      BY <3>1, Zenon DEF BusyAfter, K, cs, e
  <2> QED
    BY <2>7, <2>14, Zenon DEF K, cs, X
\* It does so wherever the child starts and ends.
<1>OneChild. ASSUME NEW C, NEW b \in Int, NEW k \in Int, NEW s \in Int, NEW e \in Int, NEW a \in Int, NEW z \in Int,
                    Counted(C, b, k, s, e, a)
             PROVE  Adds(C, b, k, s, e, a, z)
  <2> USE <1>OneChild
  <2> DEFINE from == later(a, k)
             to == earlier(z, e)
             W == a..(z - 1) \cap s..(e - 1)
             I == from..(to - 1)
             D == C \cup W
  <2>1. from \in Int /\ to \in Int /\ from >= a /\ from >= k /\ to <= z /\ to <= e
        /\ (from = a \/ from = k) /\ (to = z \/ to = e)
    BY DEF later, earlier
  <2>2. /\ C \subseteq s..(k - 1) /\ C \subseteq s..(e - 1) /\ s <= k /\ b = Cardinality(C)
        /\ \A x \in s..(e - 1) : a <= x /\ x < k => x \in C
    BY DEF Counted
  <2> HIDE DEF from, to
  <2>3. \A x \in W : x \in C \/ x \in I
    BY <2>1, <2>2
  <2>4. \A x \in I : x \in W
    BY <2>1, <2>2
  <2>5. C \cap I = {}
    BY <2>1, <2>2
  <2>6. D = C \cup I
    BY <2>3, <2>4
  <2>7. CASE to > from
    <3>1. IsFiniteSet(I) /\ Cardinality(I) = to - from
      <4>1. to - 1 \in Int /\ ~(from > to - 1) /\ (to - 1) - from + 1 = to - from
        BY <2>1, <2>7
      <4> QED
        BY <2>1, <4>1, FS_Interval, Zenon
    <3>2. IsFiniteSet(C)
      <4>1. IsFiniteSet(s..(k - 1))
        BY FS_Interval
      <4> QED
        BY <2>2, <4>1, FS_Subset, Zenon
    <3>3. Cardinality(C \cup I) = b + (to - from)
      <4>1. Cardinality(C \cup I) = Cardinality(C) + Cardinality(I) - Cardinality(C \cap I)
        BY <3>1, <3>2, FS_Union, Zenon
      <4>2. Cardinality(C \cap I) = 0
        BY <2>5, FS_EmptySet
      <4> HIDE DEF I
      <4> QED
        BY <2>1, <2>2, <3>1, <4>1, <4>2
    <3>4. C \cup I \subseteq s..(to - 1) /\ s <= to
      BY <2>1, <2>2, <2>7
    <3> QED
      BY <2>6, <2>7, <3>3, <3>4, Zenon DEF from, to, Adds
  <2>8. CASE ~(to > from)
    <3>1. I = {}
      BY <2>1, <2>8
    <3> QED
      BY <2>6, <2>8, <3>1 DEF from, to, Adds
  <2> QED
    BY <2>7, <2>8
<1> DEFINE cs == children[n]
           K == Len(cs)
           s == node[n].start
           e == node[n].end
           at == [i \in 1..K |-> node[cs[i]].start]
           till == [i \in 1..K |-> node[cs[i]].end]
           Cov(i) == {x \in s..(e - 1) : \E j \in 1..i : x \in at[j]..(till[j] - 1)}
<1>1. K \in Nat /\ DOMAIN cs = 1..K /\ \A i \in 1..K : cs[i] \in M
  BY SeqLen DEF Timed
<1>2. /\ s \in Int /\ e \in Int /\ at \in [1..K -> Int] /\ till \in [1..K -> Int]
      /\ \A i \in 1..K : at[i] = node[cs[i]].start /\ till[i] = node[cs[i]].end
  BY <1>1 DEF Timed
<1>3. \A i, j \in 1..K : i < j => at[i] <= at[j]
  BY <1>1, <1>2, Zenon
<1>4. PICK u \in [0..K -> Carry] : BusyAfter(u, n)
  BY <1>BusyIsLoop
<1>5. u[0] = [busy |-> 0, cursor |-> s] /\ u[K].busy = Busy(n) /\ \A i \in 1..K : u[i] = Merge(n, u[i - 1], cs[i])
  BY <1>4, Zenon DEF BusyAfter
<1> DEFINE Fine(i, b, k) == /\ b = Cardinality(Cov(i)) /\ Cov(i) \subseteq s..(k - 1) /\ s <= k
                            /\ k = s \/ \E j \in 1..i : k <= till[j]
           G == {i \in 0..K : Fine(i, u[i].busy, u[i].cursor)}
<1>6. \A i \in 0..K : u[i].busy \in Int /\ u[i].cursor \in Int
  BY DEF Carry
<1>7. 0 \in G
  <2>1. u[0].busy = 0 /\ u[0].cursor = s
    BY <1>5
  <2>2. Cov(0) = {}
    OBVIOUS
  <2>3. Fine(0, 0, s)
    <3>1. s <= s /\ Cardinality({}) = 0
      BY <1>2, FS_EmptySet
    <3> HIDE DEF Cov, s, e
    <3> QED
      BY <2>2, <3>1, Zenon
  <2> HIDE DEF Fine
  <2> QED
    BY <1>1, <2>1, <2>3
<1>8. ASSUME NEW i \in 1..K, i - 1 \in G PROVE i \in G
  <2> DEFINE b == u[i - 1].busy
             k == u[i - 1].cursor
             C == Cov(i - 1)
             a == at[i]
             z == till[i]
             from == later(a, k)
             to == earlier(z, e)
             D == C \cup (a..(z - 1) \cap s..(e - 1))
  <2>1. b \in Int /\ k \in Int /\ a \in Int /\ z \in Int /\ Fine(i - 1, b, k)
    BY <1>2, <1>6, <1>8, Zenon
  <2>2. i \in 0..K /\ i - 1 \in 0..K /\ i - 1 \in Int /\ \A j \in 1..(i - 1) : j \in 1..K /\ j < i /\ j \in 1..i
    BY <1>1
  <2>3. \A j \in 1..i : j = i \/ j \in 1..(i - 1)
    BY <1>1
  <2>4. i \in 1..i
    BY <1>1
  <2>5. u[i] = IF to > from THEN [busy |-> b + (to - from), cursor |-> to] ELSE u[i - 1]
    BY <1>2, <1>5, Zenon DEF Merge
  <2> HIDE DEF at, till, cs, K, s, e
  <2>6. Cov(i) = D
    BY <2>2, <2>3, <2>4
  <2>7. \A x \in s..(e - 1) : a <= x /\ x < k => x \in C
    <3> SUFFICES ASSUME NEW x \in s..(e - 1), a <= x, x < k PROVE x \in C
      OBVIOUS
    <3>1. x \in Int /\ ~(k = s)
      BY <1>2, <2>1
    <3>2. PICK j \in 1..(i - 1) : k <= till[j]
      BY <2>1, <3>1
    <3>3. at[j] <= a /\ at[j] \in Int /\ till[j] \in Int
      BY <1>2, <1>3, <2>2
    <3>4. x \in at[j]..(till[j] - 1)
      <4> DEFINE p == at[j]
                 q == till[j]
      <4>1. p <= a /\ p \in Int /\ q \in Int /\ k <= q
        BY <3>2, <3>3
      <4> HIDE DEF p, q, a, k
      <4>2. x \in p..(q - 1)
        BY <2>1, <3>1, <4>1
      <4> QED
        BY <4>2 DEF p, q
    <3> QED
      BY <3>4
  <2>8. Counted(C, b, k, s, e, a)
    <3>1. C \subseteq s..(k - 1) /\ s <= k /\ b = Cardinality(C)
      BY <2>1
    <3>2. C \subseteq s..(e - 1)
      OBVIOUS
    <3> HIDE DEF C, a, k, b
    <3> QED
      BY <2>7, <3>1, <3>2 DEF Counted
  <2>9. IF to > from THEN D \subseteq s..(to - 1) /\ s <= to /\ Cardinality(D) = b + (to - from) ELSE D = C
    <3> HIDE DEF C, a, k, b, z
    <3> QED
      <4>1. Adds(C, b, k, s, e, a, z)
        BY <1>2, <2>1, <2>8, <1>OneChild, Zenon
      <4> QED
        BY <4>1, Zenon DEF Adds
  <2>10. to <= z
    <3> HIDE DEF z
    <3> QED
      BY <1>2, <2>1 DEF earlier
  <2>11. CASE to > from
    <3>1. u[i].busy = b + (to - from) /\ u[i].cursor = to
      BY <2>5, <2>11
    <3>2. Fine(i, b + (to - from), to)
      <4>1. D \subseteq s..(to - 1) /\ s <= to /\ Cardinality(D) = b + (to - from)
        BY <2>9, <2>11
      <4>2. \E j \in 1..i : to <= till[j]
        BY <2>4, <2>10
      <4> HIDE DEF D, b, to, from, Cov
      <4> QED
        BY <2>6, <4>1, <4>2
    <3> HIDE DEF Fine, b, to, from
    <3> QED
      BY <2>2, <3>1, <3>2
  <2>12. CASE ~(to > from)
    <3>1. u[i].busy = b /\ u[i].cursor = k
      BY <2>5, <2>12
    <3>2. Fine(i, b, k)
      <4>1. Cov(i) = C
        BY <2>6, <2>9, <2>12
      <4>2. k = s \/ \E j \in 1..i : k <= till[j]
        BY <2>1, <2>2
      <4>3. b = Cardinality(C) /\ C \subseteq s..(k - 1) /\ s <= k
        BY <2>1
      <4> HIDE DEF C, Cov, b, k
      <4> QED
        BY <4>1, <4>2, <4>3
    <3> HIDE DEF Fine, b, k
    <3> QED
      BY <2>2, <3>1, <3>2
  <2> QED
    BY <2>11, <2>12
<1>9. K \in G
  <2> HIDE DEF G, K
  <2>1. 0..K \subseteq G
    BY <1>1, <1>7, <1>8, LoopInduction, Zenon
  <2>2. K \in 0..K
    BY <1>1
  <2> QED
    BY <2>1, <2>2
<1>10. Busy(n) = Cardinality(Cov(K))
  BY <1>5, <1>9, Zenon
<1>11. Cov(K) = {x \in Instants(n) : \E j \in DOMAIN cs : x \in Instants(cs[j])}
  BY <1>1, <1>2, Zenon DEF Instants
<1> QED
  BY <1>10, <1>11, Zenon

(***************************************************************************)
(* CriticalPath.                                                           *)
(***************************************************************************)

\* A segment that is not empty and lies within the span it is spent in, and one
\* that ends where a goes on, in another span.
Within(g) == g.start < g.end /\ node[g.node].start <= g.start /\ g.end <= node[g.node].end
Adjoins(a, b) == a.start = b.end /\ a.node # b.node

\* The segments p, latest first, lead from t back to x.
LeadsTo(p, t, x) ==
  /\ p \in Seq(Segment) /\ x <= t /\ (Len(p) = 0 <=> x = t)
  /\ Len(p) # 0 => p[1].end = t /\ p[Len(p)].start = x
  /\ \A i \in 1..Len(p) : Within(p[i])
  /\ \A i \in 2..Len(p) : Adjoins(p[i - 1], p[i])

\* What appendSegment makes of p: the segments it had, and at the end the new
\* one, which may replace the last.
SameUpTo(q, p, k) == q \in Seq(Segment) /\ Len(q) = k + 1 /\ \A i \in 1..k : q[i] = p[i]
Adding(q, p, n, s, e) ==
  \/ e <= s /\ q = p
  \/ /\ s < e /\ Len(p) # 0 /\ p[Len(p)].node = n /\ p[Len(p)].start = e
     /\ SameUpTo(q, p, Len(p) - 1) /\ q[Len(p)] = [node |-> n, start |-> s, end |-> p[Len(p)].end]
  \/ /\ s < e /\ (Len(p) = 0 \/ p[Len(p)].node # n \/ p[Len(p)].start # e)
     /\ SameUpTo(q, p, Len(p)) /\ q[Len(p) + 1] = [node |-> n, start |-> s, end |-> e]

\* The times of the nodes are in order.
AllTimed == \A m \in DOMAIN node : node[m].start \in Int /\ node[m].end \in Int /\ node[m].start <= node[m].end

\* What criticalPath's loop carries, and what a call comes to.
Following == [cursor : Int, on : BOOLEAN, path : Seq(Segment)]
Answers == [Call -> Seq(Segment)]

\* What the loop carries after each turn of a call, and what the call returns.
Followed(u, walk, n, call) ==
  LET floor == later(call.floor, node[n].start)
      cs == LastFirst(n)
  IN /\ u \in [0..Len(cs) -> Following]
     /\ u[0] = [cursor |-> earlier(call.ceiling, node[n].end), on |-> TRUE, path |-> call.path]
     /\ \A i \in 1..Len(cs) : u[i] = Follow(walk, n, floor, u[i - 1], cs[i])
     /\ criticalPath(walk, n, call) = appendSegment(u[Len(cs)].path, n, floor, u[Len(cs)].cursor)

\* A call for a node whose answers are in f leads on to where it was told to go,
\* or to the start of the node.
Leads(f, n) ==
  \A call \in Call, t \in Int :
    LET x == later(call.floor, node[n].start)
        y == earlier(call.ceiling, node[n].end)
    IN x <= y /\ LeadsTo(call.path, t, y) => LeadsTo(f[n][call], t, x)

\* The loop of a call has led from t to its cursor, and no further than floor.
LedSoFar(acc, n, floor, t) ==
  LeadsTo(acc.path, t, acc.cursor) /\ floor <= acc.cursor /\ acc.cursor <= node[n].end

\* The nodes are all timed, and each has its children listed below it.
Ready == AllTimed /\ DOMAIN node \subseteq Nat /\ Forest(DOMAIN node, children, parent)

\* What criticalPath makes of every node.
PathWalk(f) == f = [m \in DOMAIN node |-> [call \in Call |-> criticalPath(f, m, call)]]

\* The instants a path spends in n itself.
SpentBy(g, n) == IF g.node = n THEN {x \in Int : g.start <= x /\ x < g.end} ELSE {}
SpentIn(p, n) == UNION {SpentBy(p[i], n) : i \in 1..Len(p)}
Stretch(s, e) == {x \in Int : s <= x /\ x < e}

\* Nothing is spent in n by the call for m.
Quiet(f, m, n) == \A call \in Call : SpentIn(f[m][call], n) = SpentIn(call.path, n)

\* Children that ran from a[j] to z[j], last to end first, of a span that ran
\* from s to e: x is outside the j-th, outside them all, and the first i leave
\* the span alone until k.
Outside(a, z, j, x) == ~(a[j] <= x /\ x < z[j])
Free(a, z, K, s, e) == {x \in Int : s <= x /\ x < e /\ \A j \in 1..K : Outside(a, z, j, x)}
FreeFrom(a, z, K, s, e, k) == {x \in Free(a, z, K, s, e) : k <= x}
ClearTo(a, z, i, s, k) == \A j \in 1..i, x \in Int : s <= x /\ x < k => Outside(a, z, j, x)
LastToEndFirst(a, z, K) ==
  /\ a \in [1..K -> Int] /\ z \in [1..K -> Int] /\ \A j \in 1..K : a[j] <= z[j]
  /\ \A i, j \in 1..K : i < j => z[j] <= z[i]

\* With the cursor at k, the loop comes to the child i, follows it, and none of
\* the children before it is left of the cursor.
ComesTo(a, z, K, s, e, k, i) ==
  /\ K \in Nat /\ LastToEndFirst(a, z, K) /\ i \in 1..K
  /\ s \in Int /\ e \in Int /\ k \in Int /\ k <= e
  /\ ClearTo(a, z, i - 1, s, k) /\ a[i] < k /\ s < earlier(z[i], k)

\* The times of the children of n in the order of the loop.
StartTimes(n) == [j \in 1..Len(LastFirst(n)) |-> node[LastFirst(n)[j]].start]
EndTimes(n) == [j \in 1..Len(LastFirst(n)) |-> node[LastFirst(n)[j]].end]

\* The loop for n has spent in n what is free of its children from the cursor
\* on, and none of the children so far ran before the cursor.
SpentSoFar(acc, n, i) ==
  LET a == StartTimes(n)
      z == EndTimes(n)
      K == Len(LastFirst(n))
      s == node[n].start
      e == node[n].end
  IN /\ LedSoFar(acc, n, s, e)
     /\ SpentIn(acc.path, n) = FreeFrom(a, z, K, s, e, acc.cursor)
     /\ ClearTo(a, z, i, s, acc.cursor)
     /\ ~acc.on => acc.cursor <= s \/ \A j \in (i + 1)..K : z[j] <= s

\* The segments of a path follow one another through n, each within the span it
\* is spent in and none to be merged with the next.
Covering(path, n) ==
  /\ (path = << >>) <=> (node[n].start = node[n].end)
  /\ path # << >> => path[1].start = node[n].start /\ path[Len(path)].end = node[n].end
  /\ \A i \in DOMAIN path :
       /\ path[i].start < path[i].end
       /\ node[path[i].node].start <= path[i].start /\ path[i].end <= node[path[i].node].end
       /\ i > 1 => path[i - 1].end = path[i].start /\ path[i - 1].node # path[i].node

\* Reversed, the path covers n once and spends in it what its children leave.
LEMMA PathCovers ==
  ASSUME Ready
  PROVE  \A n \in DOMAIN node :
           /\ CriticalPath(n) \in Seq(Segment) /\ Covering(CriticalPath(n), n)
           /\ SpentIn(CriticalPath(n), n) = Instants(n) \ UNION {Instants(c) : c \in Range(children[n])}
\* appendSegment makes of any path what Adding says.
<1>AppendAdds. ASSUME NEW p \in Seq(Segment), NEW n \in DOMAIN node, NEW s \in Int, NEW e \in Int
               PROVE  Adding(appendSegment(p, n, s, e), p, n, s, e) /\ appendSegment(p, n, s, e) \in Seq(Segment)
  <2> USE <1>AppendAdds
  <2> DEFINE q == appendSegment(p, n, s, e)
             K == Len(p)
             S == Segment
             x == [node |-> n, start |-> s, end |-> e]
             y == [node |-> n, start |-> s, end |-> p[K].end]
  <2>1. K \in Nat /\ DOMAIN p = 1..K /\ (p = << >> <=> K = 0) /\ \A i \in 1..K : p[i] \in S
    BY SeqLen, SeqEmpty
  <2>2. CASE e <= s
    BY <2>2 DEF appendSegment, Adding
  <2>3. CASE s < e /\ K # 0 /\ p[K].node = n /\ p[K].start = e
    <3>1. q = [p EXCEPT ![K].start = s]
      BY <2>1, <2>3 DEF appendSegment
    <3>2. K \in 1..K /\ p[K] \in S
      BY <2>1, <2>3
    <3>3. [p[K] EXCEPT !.start = s] = y /\ y \in S
      BY <2>3, <3>2 DEF Segment
    <3>4. q = [i \in 1..K |-> IF i = K THEN y ELSE p[i]]
      <4> HIDE DEF y, K, S
      <4> QED
        BY <2>1, <3>1, <3>2, <3>3, Zenon
    <3> HIDE DEF y, K, S, q
    <3>5. q \in Seq(S) /\ Len(q) = K /\ q[K] = y /\ \A i \in 1..(K - 1) : q[i] = p[i]
      BY <2>1, <3>2, <3>3, <3>4
    <3>6. K - 1 + 1 = K
      BY <2>1
    <3>7. SameUpTo(q, p, K - 1)
      BY <3>5, <3>6 DEF SameUpTo, S
    <3> QED
      BY <2>3, <3>5, <3>7 DEF Adding, y, K, S, q
  <2>4. CASE s < e /\ ~(K # 0 /\ p[K].node = n /\ p[K].start = e)
    <3>1. q = Append(p, x)
      <4>1. ~(e <= s) /\ ~(p # << >> /\ p[Len(p)].node = n /\ p[Len(p)].start = e)
        BY <2>1, <2>4
      <4> QED
        BY <4>1, Zenon DEF appendSegment
    <3>2. x \in S
      BY DEF Segment
    <3> HIDE DEF x, S, q
    <3>3. q \in Seq(S) /\ SameUpTo(q, p, K) /\ q[K + 1] = x
      BY <3>1, <3>2, SeqAppend DEF SameUpTo, S
    <3> QED
      BY <2>4, <3>3 DEF Adding, x, S, q
  <2>5. e <= s \/ s < e
    OBVIOUS
  <2> QED
    BY <2>2, <2>3, <2>4, <2>5, Zenon
\* So from a path that leads to e it makes one that leads to s.
<1>AppendLeads. ASSUME NEW p, NEW t \in Int, NEW n \in DOMAIN node, NEW s \in Int, NEW e \in Int, LeadsTo(p, t, e),
                       s <= e, node[n].start <= s, e <= node[n].end
                PROVE  LeadsTo(appendSegment(p, n, s, e), t, s)
  <2> USE <1>AppendLeads
  <2> DEFINE q == appendSegment(p, n, s, e)
             K == Len(p)
  <2>1. p \in Seq(Segment)
    BY DEF LeadsTo
  <2>2. q \in Seq(Segment) /\ Adding(q, p, n, s, e)
    BY <2>1, <1>AppendAdds
  <2>3. K \in Nat /\ Len(q) \in Nat
    BY <2>1, <2>2, SeqLen
  <2>4. CASE q = p /\ e <= s
    <3>1. s = e
      BY <2>4
    <3> QED
      BY <2>4, <3>1
  <2> HIDE DEF q
  <2>5. CASE /\ s < e /\ K # 0 /\ p[K].node = n /\ p[K].start = e
             /\ SameUpTo(q, p, K - 1) /\ q[K] = [node |-> n, start |-> s, end |-> p[K].end]
    <3> DEFINE d == p[K].end
    <3>1. /\ Len(q) = K /\ \A i \in 1..(K - 1) : q[i] = p[i]
          /\ q[K].node = n /\ q[K].start = s /\ q[K].end = d
      BY <2>3, <2>5 DEF SameUpTo
    <3>2. p[K] \in Segment /\ K \in 1..K
      BY <2>1, <2>3, <2>5
    <3>3. d \in Int /\ d <= node[n].end /\ e < d
      BY <2>5, <3>2, Zenon DEF LeadsTo, Within, Segment
    <3>4. Within(q[K])
      BY <2>5, <3>1, <3>3 DEF Within
    <3>5. \A i \in 1..K : Within(q[i])
      <4> SUFFICES ASSUME NEW i \in 1..K PROVE Within(q[i])
        OBVIOUS
      <4>1. i = K \/ (i \in 1..(K - 1) /\ i \in 1..Len(p))
        BY <2>3
      <4> QED
        BY <3>1, <3>4, <4>1, Zenon DEF LeadsTo
    <3>6. \A i \in 2..K : Adjoins(q[i - 1], q[i])
      <4> SUFFICES ASSUME NEW i \in 2..K PROVE Adjoins(q[i - 1], q[i])
        OBVIOUS
      <4>1. i \in 2..Len(p) /\ i - 1 \in 1..(K - 1) /\ (i = K \/ i \in 1..(K - 1))
        BY <2>3
      <4>2. Adjoins(p[i - 1], p[i]) /\ q[i - 1] = p[i - 1]
        BY <3>1, <4>1, Zenon DEF LeadsTo
      <4>3. q[i].end = p[i].end /\ q[i].node = p[i].node
        BY <2>5, <3>1, <4>1
      <4> QED
        BY <4>2, <4>3, Zenon DEF Adjoins
    <3>7. q[1].end = t
      <4>1. K = 1 \/ 1 \in 1..(K - 1)
        <5>1. K # 0
          BY <2>5
        <5> HIDE DEF K
        <5> QED
          BY <2>3, <5>1
      <4>2. p[1].end = t
        BY <2>5, Zenon DEF LeadsTo
      <4> QED
        BY <3>1, <4>1, <4>2, Zenon
    <3>8. s <= t /\ s # t
      BY <2>5 DEF LeadsTo
    <3> QED
      BY <2>2, <2>5, <3>1, <3>5, <3>6, <3>7, <3>8, Zenon DEF LeadsTo, q
  <2>6. CASE /\ s < e /\ (K = 0 \/ p[K].node # n \/ p[K].start # e)
             /\ SameUpTo(q, p, K) /\ q[K + 1] = [node |-> n, start |-> s, end |-> e]
    <3> DEFINE M == K + 1
    <3>1. /\ Len(q) = M /\ \A i \in 1..K : q[i] = p[i]
          /\ q[M].node = n /\ q[M].start = s /\ q[M].end = e
      BY <2>3, <2>6 DEF SameUpTo
    <3>2. M \in Nat /\ M # 0 /\ (\A i \in 1..M : i = M \/ i \in 1..Len(p)) /\ (K = 0 => M = 1) /\ (K # 0 => 1 \in 1..K /\ K \in 1..K)
          /\ \A i \in 2..M : (i = M /\ i - 1 = K /\ K # 0 /\ K \in 1..K) \/ (i \in 2..Len(p) /\ i \in 1..K /\ i - 1 \in 1..K)
      BY <2>3
    <3> HIDE DEF M
    <3>4. Within(q[M])
      BY <2>6, <3>1 DEF Within
    <3>5. \A i \in 1..M : Within(q[i])
      BY <3>1, <3>2, <3>4, Zenon DEF LeadsTo
    <3>6. \A i \in 2..M : Adjoins(q[i - 1], q[i])
      <4> SUFFICES ASSUME NEW i \in 2..M PROVE Adjoins(q[i - 1], q[i])
        OBVIOUS
      <4>1. CASE i \in 2..Len(p) /\ i \in 1..K /\ i - 1 \in 1..K
        <5>1. Adjoins(p[i - 1], p[i])
          BY <4>1, Zenon DEF LeadsTo
        <5> QED
          BY <3>1, <4>1, <5>1, Zenon
      <4>2. CASE i = M /\ i - 1 = K /\ K # 0 /\ K \in 1..K
        <5>1. p[K].start = e /\ p[K].node # n
          BY <2>6, <4>2, Zenon DEF LeadsTo
        <5>2. q[i - 1] = p[K] /\ q[i].end = e /\ q[i].node = n
          BY <3>1, <4>2, Zenon
        <5> QED
          BY <5>1, <5>2, Zenon DEF Adjoins
      <4> QED
        BY <3>2, <4>1, <4>2, Zenon
    <3>7. q[1].end = t
      <4>1. K = 0 => e = t
        BY Zenon DEF LeadsTo
      <4>2. K # 0 => p[1].end = t
        BY Zenon DEF LeadsTo
      <4> QED
        BY <3>1, <3>2, <4>1, <4>2, Zenon
    <3>8. s <= t /\ s # t
      BY <2>6 DEF LeadsTo
    <3> QED
      BY <2>2, <3>1, <3>2, <3>5, <3>6, <3>7, <3>8, Zenon DEF LeadsTo, q
  <2> QED
    BY <2>2, <2>4, <2>5, <2>6, Zenon DEF Adding
\* A turn of criticalPath's loop keeps to what the loop carries.
<1>FollowTyped.
    ASSUME AllTimed, NEW walk, NEW n \in DOMAIN node, NEW floor \in Int, NEW acc \in Following, NEW c \in DOMAIN node,
           walk[c] \in Answers
    PROVE  Follow(walk, n, floor, acc, c) \in Following
  <2> USE <1>FollowTyped
  <2> DEFINE a == node[c].start
             k == acc.cursor
             end == earlier(node[c].end, k)
             p == appendSegment(acc.path, n, end, k)
             call == [floor |-> floor, ceiling |-> end, path |-> p]
  <2>1. a \in Int /\ k \in Int /\ acc.on \in BOOLEAN /\ acc.path \in Seq(Segment)
    BY DEF AllTimed, Following
  <2>2. end \in Int /\ later(a, floor) \in Int
    BY <2>1 DEF AllTimed, earlier, later
  <2>3. p \in Seq(Segment)
    <3> HIDE DEF end, k
    <3> QED
      BY <2>1, <2>2, <1>AppendAdds
  <2> HIDE DEF end, p
  <2>4. call \in Call
    BY <2>2, <2>3 DEF Call
  <2>5. walk[c][call] \in Seq(Segment)
    <3> HIDE DEF call
    <3> QED
      BY <2>4 DEF Answers
  <2>6. [cursor |-> later(a, floor), on |-> TRUE, path |-> walk[c][call]] \in Following
    <3> HIDE DEF call, a
    <3> QED
      BY <2>2, <2>5 DEF Following
  <2>7. [acc EXCEPT !.on = FALSE] \in Following
    BY Zenon DEF Following
  <2>8. Follow(walk, n, floor, acc, c) \in {acc, [acc EXCEPT !.on = FALSE], [cursor |-> later(a, floor), on |-> TRUE, path |-> walk[c][call]]}
    BY Zenon DEF Follow, end, p
  <2> QED
    BY <2>6, <2>7, <2>8, Zenon
\* The recursive function of criticalPath is met by such turns.
<1>FollowIsLoop.
    ASSUME AllTimed, NEW walk, NEW n \in DOMAIN node, NEW call \in Call, LastFirst(n) \in Seq(DOMAIN node),
           \A c \in Range(LastFirst(n)) : walk[c] \in Answers
    PROVE  \E u : Followed(u, walk, n, call)
  <2> USE <1>FollowIsLoop
  <2> DEFINE floor == later(call.floor, node[n].start)
             cs == LastFirst(n)
             K == Len(cs)
             X == Following
             e == [cursor |-> earlier(call.ceiling, node[n].end), on |-> TRUE, path |-> call.path]
             step == [i \in 1..K |-> [s \in X |-> Follow(walk, n, floor, s, cs[i])]]
             Turn(h) == [i \in 0..K |-> IF i = 0 THEN e ELSE Follow(walk, n, floor, h[i - 1], cs[i])]
  <2>1. K \in Nat /\ \A i \in 1..K : cs[i] \in DOMAIN node /\ walk[cs[i]] \in Answers
    <3>1. K \in Nat /\ DOMAIN cs = 1..K /\ \A i \in 1..K : cs[i] \in DOMAIN node
      BY SeqLen
    <3> QED
      BY <3>1 DEF Range
  <2>2. floor \in Int /\ earlier(call.ceiling, node[n].end) \in Int /\ call.path \in Seq(Segment)
    BY DEF AllTimed, Call, earlier, later
  <2> HIDE DEF cs, floor
  <2>3. \A i \in 1..K : \A s \in X : Follow(walk, n, floor, s, cs[i]) \in X
    BY <2>1, <2>2, <1>FollowTyped, Zenon
  <2>4. Keeps(step, K, X)
    <3> HIDE DEF X, K
    <3> QED
      BY <2>3 DEF Keeps
  <2>5. e \in X
    BY <2>2 DEF Following
  <2>6. PICK u : IsRun(u, step, K, X, e)
    <3> HIDE DEF X, K, step, e
    <3> QED
      BY <2>1, <2>4, <2>5, LoopExists
  <2>7. \A i \in 1..K : i - 1 \in 0..K /\ i \in 0..K /\ i # 0
    BY <2>1
  <2>8. u \in [0..K -> X] /\ u[0] = e /\ \A i \in 1..K : u[i] = Follow(walk, n, floor, u[i - 1], cs[i])
    <3> HIDE DEF X, K, e
    <3> QED
      BY <2>6, <2>7, Zenon DEF IsRun
  <2>9. \A i \in 0..K : i = 0 \/ i \in 1..K
    BY <2>1
  <2>10. u = Turn(u)
    <3> HIDE DEF X, K, e
    <3>1. \A i \in 0..K : u[i] = Turn(u)[i]
      BY <2>7, <2>8, <2>9, Zenon
    <3> QED
      BY <2>8, <3>1, Zenon
  <2> DEFINE v == CHOOSE h : h = Turn(h)
  <2>11. v = Turn(v)
    <3> HIDE DEF Turn
    <3> QED
      BY <2>10
  <2>12. criticalPath(walk, n, call) = appendSegment(v[K].path, n, floor, v[K].cursor)
    BY Zenon DEF criticalPath, cs, floor
  <2> HIDE DEF v, K, X, e
  <2>13. v[0] = e /\ \A i \in 1..K : v[i] = Follow(walk, n, floor, v[i - 1], cs[i])
    <3>1. 0 \in 0..K
      BY <2>1
    <3> QED
      BY <2>7, <2>11, <3>1, Zenon
  <2>14. v[K] = u[K]
    <3> DEFINE G == {i \in 0..K : v[i] = u[i]}
    <3>1. 0 \in G
      BY <2>1, <2>8, <2>13
    <3>2. \A i \in 1..K : i - 1 \in G => i \in G
      BY <2>7, <2>8, <2>13, Zenon
    <3>3. 0..K \subseteq G
      <4> HIDE DEF G
      <4> QED
        BY <2>1, <3>1, <3>2, LoopInduction, Zenon
    <3>4. K \in 0..K
      BY <2>1
    <3> QED
      BY <3>3, <3>4
  <2>15. Followed(u, walk, n, call)
    <3>1. /\ u \in [0..K -> X] /\ u[0] = e /\ \A i \in 1..K : u[i] = Follow(walk, n, floor, u[i - 1], cs[i])
          /\ criticalPath(walk, n, call) = appendSegment(u[K].path, n, floor, u[K].cursor)
      BY <2>8, <2>12, <2>14, Zenon
    <3> QED
      BY <3>1, Zenon DEF Followed, K, cs, e, X, floor
  <2> QED
    BY <2>15
\* What a call returns is of the type of a path.
<1>CallTyped. ASSUME AllTimed, NEW walk, NEW n \in DOMAIN node, NEW call \in Call, LastFirst(n) \in Seq(DOMAIN node),
                     \A c \in Range(LastFirst(n)) : walk[c] \in Answers
              PROVE  criticalPath(walk, n, call) \in Seq(Segment)
  <2> USE <1>CallTyped
  <2> DEFINE K == Len(LastFirst(n))
             floor == later(call.floor, node[n].start)
  <2>1. PICK u : Followed(u, walk, n, call)
    BY <1>FollowIsLoop, Zenon
  <2>2. u \in [0..K -> Following] /\ criticalPath(walk, n, call) = appendSegment(u[K].path, n, floor, u[K].cursor)
    BY <2>1, Zenon DEF Followed
  <2>3. K \in 0..K
    BY SeqLen
  <2>4. floor \in Int
    BY DEF AllTimed, Call, later
  <2> HIDE DEF K, floor
  <2>5. u[K].path \in Seq(Segment) /\ u[K].cursor \in Int
    <3>1. u[K] \in Following
      BY <2>2, <2>3
    <3> QED
      BY <3>1 DEF Following
  <2> QED
    BY <2>2, <2>4, <2>5, <1>AppendAdds
\* What it returns depends on what the children come to, and on nothing else.
<1>CallByChildren.
    ASSUME AllTimed, NEW f, NEW g, NEW n \in DOMAIN node, NEW call \in Call, LastFirst(n) \in Seq(DOMAIN node),
           \A c \in Range(LastFirst(n)) : f[c] \in Answers /\ f[c] = g[c]
    PROVE  criticalPath(f, n, call) = criticalPath(g, n, call)
  <2> USE <1>CallByChildren
  <2> DEFINE cs == LastFirst(n)
             K == Len(cs)
             floor == later(call.floor, node[n].start)
             e == [cursor |-> earlier(call.ceiling, node[n].end), on |-> TRUE, path |-> call.path]
  <2>1. K \in Nat /\ DOMAIN cs = 1..K
    BY SeqLen
  <2>2. PICK u : Followed(u, f, n, call)
    BY <1>FollowIsLoop, Zenon
  <2>3. PICK v : Followed(v, g, n, call)
    <3>1. \A c \in Range(LastFirst(n)) : g[c] \in Answers
      BY Zenon
    <3> QED
      BY <3>1, <1>FollowIsLoop, Zenon
  <2>4. /\ u[0] = e /\ \A i \in 1..K : u[i] = Follow(f, n, floor, u[i - 1], cs[i])
        /\ criticalPath(f, n, call) = appendSegment(u[K].path, n, floor, u[K].cursor)
    BY <2>2, Zenon DEF Followed
  <2>5. /\ v[0] = e /\ \A i \in 1..K : v[i] = Follow(g, n, floor, v[i - 1], cs[i])
        /\ criticalPath(g, n, call) = appendSegment(v[K].path, n, floor, v[K].cursor)
    BY <2>3, Zenon DEF Followed
  <2>6. \A i \in 1..K : f[cs[i]] = g[cs[i]]
    BY <2>1 DEF Range
  <2> HIDE DEF cs, K, floor, e
  <2>7. ASSUME NEW i \in 1..K, NEW acc PROVE Follow(f, n, floor, acc, cs[i]) = Follow(g, n, floor, acc, cs[i])
    BY <2>6, Zenon DEF Follow
  <2> DEFINE G == {i \in 0..K : v[i] = u[i]}
  <2>8. 0 \in G
    BY <2>1, <2>4, <2>5
  <2>9. ASSUME NEW i \in 1..K, i - 1 \in G PROVE i \in G
    <3>1. v[i - 1] = u[i - 1] /\ i \in 0..K
      BY <2>1, <2>9
    <3>2. v[i] = u[i]
      BY <2>4, <2>5, <2>7, <3>1, Zenon
    <3> QED
      BY <3>1, <3>2
  <2>10. K \in G
    <3> HIDE DEF G
    <3>1. 0..K \subseteq G
      BY <2>1, <2>8, <2>9, LoopInduction, Zenon
    <3>2. K \in 0..K
      BY <2>1
    <3> QED
      BY <3>1, <3>2
  <2> QED
    BY <2>4, <2>5, <2>10, Zenon
\* A turn of the loop leads on to its new cursor.
<1>FollowLeads.
    ASSUME AllTimed, NEW walk, NEW n \in DOMAIN node, NEW floor \in Int, node[n].start <= floor, NEW t \in Int,
           NEW acc \in Following, NEW c \in DOMAIN node, Leads(walk, c), LedSoFar(acc, n, floor, t)
    PROVE  LedSoFar(Follow(walk, n, floor, acc, c), n, floor, t)
  <2> USE <1>FollowLeads
  <2> DEFINE a == node[c].start
             z == node[c].end
             k == acc.cursor
             end == earlier(z, k)
             p == appendSegment(acc.path, n, end, k)
             call == [floor |-> floor, ceiling |-> end, path |-> p]
             next == [cursor |-> later(a, floor), on |-> TRUE, path |-> walk[c][call]]
  <2>1. a \in Int /\ z \in Int /\ a <= z /\ k \in Int /\ node[n].start \in Int /\ node[n].end \in Int
    BY DEF AllTimed, Following
  <2>2. LeadsTo(acc.path, t, k) /\ floor <= k /\ k <= node[n].end
    BY Zenon DEF LedSoFar
  <2>3. Follow(walk, n, floor, acc, c) = acc \/ Follow(walk, n, floor, acc, c) = [acc EXCEPT !.on = FALSE]
        \/ (~(end <= floor) /\ ~(a >= k) /\ Follow(walk, n, floor, acc, c) = next)
    BY Zenon DEF Follow
  <2>4. CASE Follow(walk, n, floor, acc, c) = acc
    BY <2>4
  <2>5. CASE Follow(walk, n, floor, acc, c) = [acc EXCEPT !.on = FALSE]
    <3>1. [acc EXCEPT !.on = FALSE].path = acc.path /\ [acc EXCEPT !.on = FALSE].cursor = acc.cursor
      BY DEF Following
    <3> QED
      BY <2>2, <2>5, <3>1, Zenon DEF LedSoFar
  <2>6. CASE ~(end <= floor) /\ ~(a >= k) /\ Follow(walk, n, floor, acc, c) = next
    <3> DEFINE x == later(floor, a)
    <3> HIDE DEF a, z, k
    <3>1. end \in Int /\ end <= k /\ end <= z /\ floor < end /\ a <= end
      BY <2>1, <2>6 DEF earlier
    <3>2. x \in Int /\ x <= end /\ floor <= x /\ later(a, floor) = x
      BY <2>1, <3>1 DEF later
    <3>3. earlier(end, z) = end
      BY <2>1, <3>1 DEF earlier
    <3> HIDE DEF end, x
    <3>4. node[n].start <= end
      <4> DEFINE s == node[n].start
      <4>1. s \in Int /\ s <= floor
        BY <2>1
      <4> HIDE DEF s
      <4>2. s <= end
        BY <3>1, <4>1
      <4> QED
        BY <4>2 DEF s
    <3>5. LeadsTo(p, t, end)
      BY <2>1, <2>2, <3>1, <3>4, <1>AppendLeads
    <3> HIDE DEF p
    <3>6. call \in Call /\ call.floor = floor /\ call.ceiling = end /\ call.path = p
      BY <3>1, <3>5 DEF Call, LeadsTo
    <3> HIDE DEF call
    <3>7. LeadsTo(walk[c][call], t, x)
      <4>1. later(call.floor, a) = x /\ earlier(call.ceiling, z) = end
        BY <3>3, <3>6, Zenon DEF x
      <4> QED
        BY <3>2, <3>5, <3>6, <4>1, Zenon DEF Leads, a, z
    <3>8. x <= node[n].end
      <4> DEFINE e == node[n].end
      <4>1. e \in Int /\ k <= e
        BY <2>1, <2>2
      <4> HIDE DEF e
      <4>2. x <= e
        BY <2>1, <3>1, <3>2, <4>1
      <4> QED
        BY <4>2 DEF e
    <3>9. next.path = walk[c][call] /\ next.cursor = x
      BY <3>2
    <3> QED
      BY <2>6, <3>2, <3>7, <3>8, <3>9, Zenon DEF LedSoFar
  <2> QED
    BY <2>3, <2>4, <2>5, <2>6, Zenon
\* So a call leads on if the calls for the children do.
<1>CallLeads. ASSUME AllTimed, NEW walk, NEW n \in DOMAIN node, NEW call \in Call, LastFirst(n) \in Seq(DOMAIN node),
                     \A c \in Range(LastFirst(n)) : walk[c] \in Answers /\ Leads(walk, c), NEW t \in Int,
                     later(call.floor, node[n].start) <= earlier(call.ceiling, node[n].end),
                     LeadsTo(call.path, t, earlier(call.ceiling, node[n].end))
              PROVE  LeadsTo(criticalPath(walk, n, call), t, later(call.floor, node[n].start))
  <2> USE <1>CallLeads
  <2> DEFINE cs == LastFirst(n)
             K == Len(cs)
             floor == later(call.floor, node[n].start)
             y == earlier(call.ceiling, node[n].end)
  <2>1. K \in Nat /\ DOMAIN cs = 1..K /\ \A i \in 1..K : cs[i] \in DOMAIN node
    BY SeqLen
  <2>2. \A i \in 1..K : Leads(walk, cs[i])
    BY <2>1, Zenon DEF Range
  <2>3. PICK u : Followed(u, walk, n, call)
    BY <1>FollowIsLoop, Zenon
  <2>4. /\ u \in [0..K -> Following]
        /\ u[0] = [cursor |-> y, on |-> TRUE, path |-> call.path]
        /\ \A i \in 1..K : u[i] = Follow(walk, n, floor, u[i - 1], cs[i])
        /\ criticalPath(walk, n, call) = appendSegment(u[K].path, n, floor, u[K].cursor)
    BY <2>3, Zenon DEF Followed
  <2>5. /\ floor \in Int /\ y \in Int /\ node[n].start \in Int /\ node[n].end \in Int
        /\ node[n].start <= floor /\ y <= node[n].end
    BY DEF AllTimed, Call, later, earlier
  <2>6. floor <= y /\ LeadsTo(call.path, t, y)
    BY Zenon
  <2> HIDE DEF floor, y, cs, K
  <2> DEFINE G == {i \in 0..K : LedSoFar(u[i], n, floor, t)}
  <2>7. 0 \in G
    <3>1. u[0].cursor = y /\ u[0].path = call.path
      BY <2>4
    <3>2. LedSoFar(u[0], n, floor, t)
      BY <2>5, <2>6, <3>1, Zenon DEF LedSoFar
    <3> QED
      BY <2>1, <3>2
  <2>8. ASSUME NEW i \in 1..K, i - 1 \in G PROVE i \in G
    <3>1. i - 1 \in 0..K /\ i \in 0..K
      BY <2>1
    <3>2. u[i - 1] \in Following /\ LedSoFar(u[i - 1], n, floor, t)
      BY <2>4, <2>8, <3>1
    <3>3. LedSoFar(Follow(walk, n, floor, u[i - 1], cs[i]), n, floor, t)
      BY <2>1, <2>2, <2>5, <3>2, <1>FollowLeads
    <3> QED
      BY <2>4, <3>1, <3>3, Zenon
  <2>9. K \in G /\ K \in 0..K
    <3> HIDE DEF G
    <3>1. 0..K \subseteq G
      BY <2>1, <2>7, <2>8, LoopInduction, Zenon
    <3>2. K \in 0..K
      BY <2>1
    <3> QED
      BY <3>1, <3>2
  <2>10. LeadsTo(u[K].path, t, u[K].cursor) /\ floor <= u[K].cursor /\ u[K].cursor <= node[n].end /\ u[K].cursor \in Int
    BY <2>4, <2>9 DEF LedSoFar, Following
  <2>11. LeadsTo(appendSegment(u[K].path, n, floor, u[K].cursor), t, floor)
    BY <2>5, <2>10, <1>AppendLeads
  <2> QED
    BY <2>4, <2>11, Zenon DEF floor
\* LastFirst lists the children, by when they ended.
<1>LastFirstLists.
    ASSUME NEW n \in DOMAIN node
    PROVE  /\ LastFirst(n) \in Seq(DOMAIN node) /\ Listing(LastFirst(n), Range(children[n]))
           /\ \A i, j \in DOMAIN LastFirst(n) : i < j => node[LastFirst(n)[j]].end <= node[LastFirst(n)[i]].end
  <2> USE <1>LastFirstLists
  <2> DEFINE cs == children[n]
             S == Range(cs)
             R == {p \in S \X S : EndsLater(p[1], p[2])}
             r == LastFirst(n)
  <2>1. AllTimed /\ cs \in Seq(DOMAIN node) /\ NoRepeat(cs) /\ DOMAIN node \subseteq Nat
    BY DEF Ready, Forest
  <2>2. S \subseteq DOMAIN node /\ Listing(cs, S)
    <3>1. Len(cs) \in Nat /\ DOMAIN cs = 1..Len(cs) /\ \A i \in 1..Len(cs) : cs[i] \in DOMAIN node
      BY <2>1, SeqLen
    <3>2. S \subseteq DOMAIN node /\ \A i \in 1..Len(cs) : cs[i] \in S
      BY <3>1 DEF Range
    <3>3. cs \in Seq(S)
      <4>1. cs \in [1..Len(cs) -> S]
        BY <2>1, <3>1, <3>2
      <4> QED
        BY <3>1, <4>1
    <3> QED
      BY <2>1, <3>2, <3>3 DEF Listing
  <2>3. r = SortBy(R, cs)
    BY Zenon DEF LastFirst
  <2>4. \A a \in S : node[a].start \in Int /\ node[a].end \in Int
    BY <2>1, <2>2 DEF AllTimed
  <2>5. \A a, b \in S : <<a, b>> \in R <=> EndsLater(a, b)
    OBVIOUS
  <2> HIDE DEF S, R, r, cs
  <2>6. /\ \A a, b \in S : a # b => ByStart(node, a, b) \/ ByStart(node, b, a)
        /\ \A a, b \in S : ByStart(node, a, b) => ~ByStart(node, b, a)
        /\ \A a, b, c \in S : ByStart(node, a, b) /\ ByStart(node, b, c) => ByStart(node, a, c)
    <3>1. S \in SUBSET Nat
      BY <2>1, <2>2
    <3> QED
      BY <2>4, <3>1, ByStartOrders
  <2>7. Orders(R, S)
    <3>1. ASSUME NEW a \in S, NEW b \in S, a # b PROVE <<a, b>> \in R \/ <<b, a>> \in R
      BY <2>4, <2>5, <2>6, <3>1 DEF EndsLater
    <3>2. ASSUME NEW a \in S, NEW b \in S, <<a, b>> \in R PROVE <<b, a>> \notin R
      BY <2>4, <2>5, <2>6, <3>2 DEF EndsLater
    <3>3. ASSUME NEW a \in S, NEW b \in S, NEW c \in S, <<a, b>> \in R, <<b, c>> \in R PROVE <<a, c>> \in R
      BY <2>4, <2>5, <2>6, <3>3 DEF EndsLater
    <3> QED
      BY <3>1, <3>2, <3>3, Zenon DEF Orders
  <2>8. Listing(r, S) /\ InOrderOf(R, r)
    BY <2>2, <2>3, <2>7, SortByLists
  <2>9. r \in Seq(S) /\ Range(r) = S
    BY <2>8, Zenon DEF Listing
  <2>10. Len(r) \in Nat /\ DOMAIN r = 1..Len(r) /\ \A i \in 1..Len(r) : r[i] \in S
    BY <2>9, SeqLen
  <2>11. r \in Seq(DOMAIN node)
    BY <2>2, <2>9, SeqGrows
  <2>12. ASSUME NEW i \in DOMAIN r, NEW j \in DOMAIN r, i < j PROVE node[r[j]].end <= node[r[i]].end
    <3>1. r[i] \in S /\ r[j] \in S /\ EndsLater(r[i], r[j])
      BY <2>5, <2>8, <2>10, <2>12, Zenon DEF InOrderOf
    <3> QED
      BY <2>4, <3>1 DEF EndsLater
  <2> QED
    BY <2>8, <2>11, <2>12 DEF S, r, cs
\* There is a function that is PathWalk, for every call recurses into the children.
<1>PathWalkExists. \E f : PathWalk(f)
  <2> DEFINE N == DOMAIN node
             Step(f) == [m \in N |-> [call \in Call |-> criticalPath(f, m, call)]]
             T == [f \in [N -> Answers] |-> Step(f)]
  <2>1. AllTimed /\ Forest(N, children, parent)
    BY DEF Ready
  <2>2. ASSUME NEW m \in N PROVE LastFirst(m) \in Seq(N) /\ Range(LastFirst(m)) = Range(children[m]) /\ Range(children[m]) \subseteq N
    <3>1. LastFirst(m) \in Seq(N) /\ Range(LastFirst(m)) = Range(children[m])
      BY <1>LastFirstLists DEF Listing
    <3> DEFINE r == LastFirst(m)
    <3> HIDE DEF r
    <3>2. r \in Seq(N) => Range(r) \subseteq N
      BY SeqLen DEF Range
    <3> QED
      BY <3>1, <3>2 DEF r
  <2>3. [N -> Answers] # {}
    <3>1. << >> \in Seq(Segment)
      OBVIOUS
    <3>2. [call \in Call |-> << >>] \in Answers
      BY <3>1 DEF Answers
    <3> HIDE DEF N
    <3>3. [m \in N |-> [call \in Call |-> << >>]] \in [N -> Answers]
      BY <3>2
    <3> QED
      BY <3>3, Zenon
  <2>4. ASSUME NEW f \in [N -> Answers] PROVE T[f] = Step(f) /\ Step(f) \in [N -> Answers]
    <3>1. ASSUME NEW m \in N, NEW call \in Call PROVE criticalPath(f, m, call) \in Seq(Segment)
      <4>1. \A c \in Range(LastFirst(m)) : f[c] \in Answers
        BY <2>2
      <4> QED
        BY <2>1, <2>2, <4>1, <1>CallTyped
    <3>2. ASSUME NEW m \in N PROVE [call \in Call |-> criticalPath(f, m, call)] \in Answers
      BY <3>1 DEF Answers
    <3> QED
      BY <3>2
  <2>5. ASSUME NEW f \in [N -> Answers], NEW g \in [N -> Answers], NEW m \in N, \A c \in Range(children[m]) : f[c] = g[c]
        PROVE  T[f][m] = T[g][m]
    <3>1. \A c \in Range(LastFirst(m)) : f[c] \in Answers /\ f[c] = g[c]
      BY <2>2, <2>5
    <3>2. ASSUME NEW call \in Call PROVE criticalPath(f, m, call) = criticalPath(g, m, call)
      BY <2>1, <2>2, <3>1, <1>CallByChildren
    <3>3. [call \in Call |-> criticalPath(f, m, call)] = [call \in Call |-> criticalPath(g, m, call)]
      BY <3>2
    <3>4. Step(f)[m] = [call \in Call |-> criticalPath(f, m, call)] /\ Step(g)[m] = [call \in Call |-> criticalPath(g, m, call)]
      OBVIOUS
    <3>5. T[f] = Step(f) /\ T[g] = Step(g)
      BY <2>4
    <3> QED
      BY <3>3, <3>4, <3>5, Zenon
  <2>6. ByChildren(T, N, children, Answers)
    <3>1. \A f \in [N -> Answers] : T[f] \in [N -> Answers]
      BY <2>4, Zenon
    <3> HIDE DEF T
    <3> QED
      BY <2>3, <2>5, <3>1, Zenon DEF ByChildren
  <2>7. PICK f : Described(f, T, N, Answers)
    BY <2>1, <2>6, DescribedFromTheLeaves, Zenon
  <2>8. f \in [N -> Answers] /\ f = T[f]
    BY <2>7, Zenon DEF Described
  <2>9. f = Step(f)
    BY <2>4, <2>8, Zenon
  <2> QED
    BY <2>9, Zenon DEF PathWalk
\* Its calls are typed, and lead on.
<1>PathWalkLeads. ASSUME NEW f, PathWalk(f), NEW n \in DOMAIN node
                  PROVE  f[n] \in Answers /\ Leads(f, n)
  <2> USE <1>PathWalkLeads
  <2> DEFINE N == DOMAIN node
             G == {m \in N : f[m] \in Answers /\ Leads(f, m)}
  <2>1. AllTimed /\ Forest(N, children, parent)
    BY DEF Ready
  <2>2. \A m \in N : f[m] = [call \in Call |-> criticalPath(f, m, call)]
    BY DEF PathWalk
  <2>3. ASSUME NEW m \in N, Range(children[m]) \subseteq G PROVE m \in G
    <3>1. LastFirst(m) \in Seq(N) /\ Range(LastFirst(m)) = Range(children[m])
      BY <1>LastFirstLists DEF Listing
    <3>2. \A c \in Range(LastFirst(m)) : f[c] \in Answers /\ Leads(f, c)
      BY <2>3, <3>1
    <3>3. f[m] \in Answers
      <4>1. \A call \in Call : criticalPath(f, m, call) \in Seq(Segment)
        BY <2>1, <3>1, <3>2, <1>CallTyped
      <4> QED
        BY <2>2, <4>1, Zenon DEF Answers
    <3>4. ASSUME NEW call \in Call, NEW t \in Int, later(call.floor, node[m].start) <= earlier(call.ceiling, node[m].end),
                 LeadsTo(call.path, t, earlier(call.ceiling, node[m].end))
          PROVE  LeadsTo(f[m][call], t, later(call.floor, node[m].start))
      <4>1. f[m][call] = criticalPath(f, m, call)
        BY <2>2, Zenon
      <4>2. LeadsTo(criticalPath(f, m, call), t, later(call.floor, node[m].start))
        BY <2>1, <3>1, <3>2, <3>4, <1>CallLeads
      <4> QED
        BY <4>1, <4>2
    <3>5. Leads(f, m)
      BY <3>4, Zenon DEF Leads
    <3> QED
      BY <3>3, <3>5
  <2>4. N \subseteq G
    <3> HIDE DEF G, N
    <3> QED
      BY <2>1, <2>3, FromTheLeaves, Zenon
  <2> QED
    BY <2>4
\* Extending a path by a segment spends the segment in its span, and nothing
\* in any other.
<1>AppendSpends. ASSUME NEW p \in Seq(Segment), NEW m \in DOMAIN node, NEW s \in Int, NEW e \in Int, NEW n
                 PROVE  /\ m # n => SpentIn(appendSegment(p, m, s, e), n) = SpentIn(p, n)
                        /\ m = n /\ (\A i \in 1..Len(p) : Within(p[i])) /\ s <= e
                             => SpentIn(appendSegment(p, m, s, e), n) = SpentIn(p, n) \cup Stretch(s, e)
  <2> USE <1>AppendSpends
  <2> DEFINE q == appendSegment(p, m, s, e)
             K == Len(p)
             Fine == m = n /\ (\A i \in 1..K : Within(p[i])) /\ s <= e
             U(r, j) == UNION {SpentBy(r[i], n) : i \in 1..j}
  <2>1. Adding(q, p, m, s, e)
    BY <1>AppendAdds
  <2>2. K \in Nat /\ \A i \in 1..K : p[i] \in Segment
    BY SeqLen
  <2> HIDE DEF q, K
  <2>3. CASE e <= s /\ q = p
    <3>1. s <= e => Stretch(s, e) = {}
      BY <2>3 DEF Stretch
    <3> QED
      BY <2>3, <3>1 DEF q, K
  <2>4. CASE /\ s < e /\ K # 0 /\ p[K].node = m /\ p[K].start = e
             /\ SameUpTo(q, p, K - 1) /\ q[K] = [node |-> m, start |-> s, end |-> p[K].end]
    <3>1. Len(q) = K /\ K \in 1..K /\ K - 1 \in Nat /\ 1..K = (1..(K - 1)) \cup {K} /\ \A i \in 1..(K - 1) : q[i] = p[i]
      BY <2>2, <2>4 DEF SameUpTo
    <3>2. SpentIn(q, n) = U(q, K - 1) \cup SpentBy(q[K], n)
      BY <3>1 DEF SpentIn
    <3>3. SpentIn(p, n) = U(p, K - 1) \cup SpentBy(p[K], n)
      BY <3>1 DEF SpentIn, K
    <3>4. U(q, K - 1) = U(p, K - 1)
      BY <3>1
    <3>5. m # n => SpentBy(q[K], n) = {} /\ SpentBy(p[K], n) = {}
      BY <2>4 DEF SpentBy
    <3>6. Fine => SpentBy(q[K], n) = SpentBy(p[K], n) \cup Stretch(s, e)
      <4> DEFINE z == p[K].end
      <4>1. z \in Int
        BY <2>2, <3>1 DEF Segment
      <4> HIDE DEF z
      <4>2. SUFFICES ASSUME Fine PROVE SpentBy(q[K], n) = SpentBy(p[K], n) \cup Stretch(s, e)
        OBVIOUS
      <4>3. e < z
        BY <2>4, <3>1, <4>2 DEF Within, z
      <4>4. SpentBy(q[K], n) = {x \in Int : s <= x /\ x < z} /\ SpentBy(p[K], n) = {x \in Int : e <= x /\ x < z}
        <5>1. q[K].node = n /\ q[K].start = s /\ q[K].end = z /\ p[K].node = n /\ p[K].start = e /\ p[K].end = z
          BY <2>4, <4>2 DEF z
        <5> QED
          BY <5>1, Zenon DEF SpentBy
      <4> QED
        BY <2>4, <4>1, <4>3, <4>4 DEF Stretch
    <3> HIDE DEF U
    <3> QED
      BY <3>2, <3>3, <3>4, <3>5, <3>6 DEF q, K
  <2>5. CASE /\ s < e /\ (K = 0 \/ p[K].node # m \/ p[K].start # e)
             /\ SameUpTo(q, p, K) /\ q[K + 1] = [node |-> m, start |-> s, end |-> e]
    <3>1. Len(q) = K + 1 /\ 1..(K + 1) = (1..K) \cup {K + 1} /\ \A i \in 1..K : q[i] = p[i]
      BY <2>2, <2>5 DEF SameUpTo
    <3>2. SpentIn(q, n) = U(q, K) \cup SpentBy(q[K + 1], n)
      BY <3>1 DEF SpentIn
    <3>3. SpentIn(p, n) = U(p, K)
      BY Zenon DEF SpentIn, K
    <3>4. U(q, K) = U(p, K)
      BY <3>1
    <3>5. m # n => SpentBy(q[K + 1], n) = {}
      BY <2>5 DEF SpentBy
    <3>6. m = n => SpentBy(q[K + 1], n) = Stretch(s, e)
      BY <2>5 DEF SpentBy, Stretch
    <3> HIDE DEF U
    <3> QED
      BY <3>2, <3>3, <3>4, <3>5, <3>6 DEF q, K
  <2> QED
    BY <2>1, <2>3, <2>4, <2>5, Zenon DEF Adding, K
\* A call for m is quiet about another node if those for the children of m are.
<1>CallIsQuiet.
    ASSUME AllTimed, NEW walk, NEW m \in DOMAIN node, NEW n, m # n, NEW call \in Call, LastFirst(m) \in Seq(DOMAIN node),
           \A c \in Range(LastFirst(m)) : walk[c] \in Answers /\ Quiet(walk, c, n)
    PROVE  SpentIn(criticalPath(walk, m, call), n) = SpentIn(call.path, n)
  <2> USE <1>CallIsQuiet
  <2> DEFINE cs == LastFirst(m)
             K == Len(cs)
             floor == later(call.floor, node[m].start)
             b == SpentIn(call.path, n)
  <2>1. K \in Nat /\ DOMAIN cs = 1..K /\ \A i \in 1..K : cs[i] \in DOMAIN node
    BY SeqLen
  <2>2. \A i \in 1..K : Quiet(walk, cs[i], n)
    BY <2>1, Zenon DEF Range
  <2>3. PICK u : Followed(u, walk, m, call)
    BY <1>FollowIsLoop, Zenon
  <2>4. /\ u \in [0..K -> Following]
        /\ u[0] = [cursor |-> earlier(call.ceiling, node[m].end), on |-> TRUE, path |-> call.path]
        /\ \A i \in 1..K : u[i] = Follow(walk, m, floor, u[i - 1], cs[i])
        /\ criticalPath(walk, m, call) = appendSegment(u[K].path, m, floor, u[K].cursor)
    BY <2>3, Zenon DEF Followed
  <2>5. floor \in Int
    BY DEF AllTimed, Call, later
  <2> HIDE DEF floor, cs, K, b
  <2> DEFINE G == {i \in 0..K : SpentIn(u[i].path, n) = b}
  <2>6. 0 \in G
    BY <2>1, <2>4 DEF b
  <2>7. ASSUME NEW i \in 1..K, i - 1 \in G PROVE i \in G
    <3> DEFINE acc == u[i - 1]
               c == cs[i]
               end == earlier(node[c].end, acc.cursor)
               p == appendSegment(acc.path, m, end, acc.cursor)
               sub == [floor |-> floor, ceiling |-> end, path |-> p]
               next == [cursor |-> later(node[c].start, floor), on |-> TRUE, path |-> walk[c][sub]]
    <3>1. /\ i - 1 \in 0..K /\ i \in 0..K /\ acc \in Following
          /\ SpentIn(acc.path, n) = b /\ c \in DOMAIN node /\ Quiet(walk, c, n)
      <4>1. i - 1 \in 0..K /\ i \in 0..K
        <5> HIDE <1>CallIsQuiet
        <5> QED
          BY <2>1, <2>7
      <4>2. acc \in Following
        BY <2>4, <4>1, Zenon
      <4> QED
        BY <2>1, <2>2, <2>7, <4>1, <4>2, Zenon
    <3>2. u[i] = acc \/ u[i] = [acc EXCEPT !.on = FALSE] \/ u[i] = next
      BY <2>4, Zenon DEF Follow
    <3>3. end \in Int /\ acc.cursor \in Int /\ acc.path \in Seq(Segment) /\ [acc EXCEPT !.on = FALSE].path = acc.path
      BY <3>1 DEF Following, AllTimed, earlier
    <3>4. p \in Seq(Segment) /\ SpentIn(p, n) = b
      <4>1. SpentIn(p, n) = SpentIn(acc.path, n)
        <5> HIDE DEF acc, end
        <5> QED
          BY <3>3, <1>AppendSpends
      <4>2. p \in Seq(Segment)
        BY <3>3, <1>AppendAdds, Zenon
      <4> QED
        BY <3>1, <4>1, <4>2, Zenon
    <3> HIDE DEF acc, end, p
    <3>5. sub \in Call /\ sub.path = p
      BY <2>5, <3>3, <3>4 DEF Call
    <3> HIDE DEF sub
    <3>6. SpentIn(walk[c][sub], n) = b
      BY <3>1, <3>4, <3>5, Zenon DEF Quiet
    <3>7. next.path = walk[c][sub]
      OBVIOUS
    <3>8. SpentIn(u[i].path, n) = b
      BY <3>1, <3>2, <3>3, <3>6, <3>7, Zenon
    <3> QED
      BY <3>1, <3>8
  <2>8. K \in G
    <3> HIDE DEF G
    <3>1. 0..K \subseteq G
      BY <2>1, <2>6, <2>7, LoopInduction, Zenon
    <3> QED
      BY <2>1, <3>1
  <2>9. u[K].path \in Seq(Segment) /\ u[K].cursor \in Int /\ SpentIn(u[K].path, n) = b
    BY <2>1, <2>4, <2>8, Zenon DEF Following
  <2>10. SpentIn(appendSegment(u[K].path, m, floor, u[K].cursor), n) = SpentIn(u[K].path, n)
    BY <2>5, <2>9, <1>AppendSpends
  <2> QED
    BY <2>4, <2>9, <2>10, Zenon DEF b
\* The walk never comes back to a node above it: a child's call spends nothing
\* in its parent.
<1>ChildIsQuiet. ASSUME NEW f, PathWalk(f), NEW n \in DOMAIN node, NEW c \in Range(children[n])
                 PROVE  Quiet(f, c, n)
  <2> USE <1>ChildIsQuiet
  <2> DEFINE N == DOMAIN node
             G == {m \in N \ {n} : Quiet(f, m, n)}
  <2> SUFFICES ASSUME ~Quiet(f, c, n) PROVE FALSE
    OBVIOUS
  <2>1. AllTimed /\ Forest(N, children, parent)
    BY DEF Ready
  <2>2. ASSUME NEW m \in N, Range(children[m]) \subseteq G PROVE m \in G
    <3>1. m # n
      BY <2>2
    <3>2. LastFirst(m) \in Seq(N) /\ Range(LastFirst(m)) = Range(children[m])
      BY <1>LastFirstLists DEF Listing
    <3>3. \A d \in Range(LastFirst(m)) : d \in N /\ Quiet(f, d, n)
      BY <2>2, <3>2
    <3>4. \A d \in Range(LastFirst(m)) : f[d] \in Answers /\ Quiet(f, d, n)
      BY <3>3, <1>PathWalkLeads
    <3>5. ASSUME NEW call \in Call PROVE SpentIn(f[m][call], n) = SpentIn(call.path, n)
      <4>1. f[m][call] = criticalPath(f, m, call)
        <5>1. f[m] = [ca \in Call |-> criticalPath(f, m, ca)]
          BY DEF PathWalk
        <5> QED
          BY <5>1
      <4>2. SpentIn(criticalPath(f, m, call), n) = SpentIn(call.path, n)
        BY <2>1, <3>1, <3>2, <3>4, <1>CallIsQuiet
      <4> QED
        BY <4>1, <4>2, Zenon
    <3>6. Quiet(f, m, n)
      BY <3>5, Zenon DEF Quiet
    <3> QED
      BY <3>1, <3>6
  <2>3. N \subseteq G
    <3> HIDE DEF G, N
    <3>1. \A m \in N : Range(children[m]) \subseteq G => m \in G
      BY <2>2
    <3> QED
      BY <2>1, <3>1, FromTheLeaves
  <2> QED
    BY <2>3
\* What a turn that follows a child finds free is what lies between the end of
\* the child and the cursor.
<1>FreeBetween.
    ASSUME NEW a, NEW z, NEW K, NEW s, NEW e, NEW k, NEW i, ComesTo(a, z, K, s, e, k, i)
    PROVE  /\ ClearTo(a, z, i, s, later(a[i], s))
           /\ FreeFrom(a, z, K, s, e, later(a[i], s)) = FreeFrom(a, z, K, s, e, k) \cup Stretch(earlier(z[i], k), k)
  <2> USE <1>FreeBetween DEF ComesTo
  <2> DEFINE l == later(a[i], s)
             end == earlier(z[i], k)
             Fr == Free(a, z, K, s, e)
  <2>1. a[i] \in Int /\ z[i] \in Int /\ a[i] <= z[i]
    BY DEF LastToEndFirst
  <2>2. /\ l \in Int /\ end \in Int /\ s <= l /\ a[i] <= l /\ (l = s \/ l = a[i]) /\ l <= end /\ l <= k
        /\ s < end /\ end <= k /\ end <= z[i] /\ (end = k \/ end = z[i])
    BY <2>1 DEF later, earlier
  <2> HIDE DEF l, end
  <2>3. ASSUME NEW j \in 1..i, NEW x \in Int, s <= x, x < l PROVE Outside(a, z, j, x)
    <3>1. CASE j = i
      BY <2>1, <2>2, <2>3, <3>1 DEF Outside
    <3>2. CASE j # i
      <4>1. j \in 1..(i - 1) /\ x < k
        BY <2>2, <2>3, <3>2
      <4> QED
        BY <2>3, <4>1 DEF ClearTo
    <3> QED
      BY <3>1, <3>2
  <2>4. ASSUME NEW x \in Int, end <= x, x < k PROVE x \in Fr
    <3>1. end = z[i] /\ s <= x /\ x < e
      BY <2>1, <2>2, <2>4
    <3>2. ASSUME NEW j \in 1..K PROVE Outside(a, z, j, x)
      <4>1. CASE j \in 1..(i - 1)
        BY <2>4, <3>1, <4>1 DEF ClearTo
      <4>2. CASE j \notin 1..(i - 1)
        <5>1. i = j \/ i < j
          BY <4>2
        <5>2. z[j] \in Int /\ z[j] <= z[i]
          BY <2>1, <5>1 DEF LastToEndFirst
        <5> QED
          BY <2>1, <2>4, <3>1, <5>2 DEF Outside
      <4> QED
        BY <4>1, <4>2
    <3> QED
      BY <3>1, <3>2 DEF Free
  <2>5. ASSUME NEW x \in Fr, l <= x PROVE k <= x \/ (end <= x /\ x < k)
    <3>1. x \in Int /\ Outside(a, z, i, x)
      BY DEF Free
    <3> QED
      BY <2>1, <2>2, <2>5, <3>1 DEF Outside
  <2>6. \A x \in Fr : x \in Int
    BY DEF Free
  <2> HIDE DEF Fr
  <2>7. {x \in Fr : l <= x} = {x \in Fr : k <= x} \cup {x \in Int : end <= x /\ x < k}
    <3>1. \A x \in Fr : k <= x => l <= x
      BY <2>2, <2>6
    <3>2. \A x \in Int : end <= x => l <= x
      BY <2>2
    <3> QED
      BY <2>4, <2>5, <2>6, <3>1, <3>2
  <2> QED
    BY <2>3, <2>7, Zenon DEF ClearTo, FreeFrom, Stretch, Fr, l, end
\* A turn of the loop keeps SpentSoFar.
<1>FollowSpends. ASSUME NEW walk, NEW n \in DOMAIN node, NEW acc \in Following, NEW i \in 1..Len(LastFirst(n)),
                        Leads(walk, LastFirst(n)[i]), Quiet(walk, LastFirst(n)[i], n), SpentSoFar(acc, n, i - 1)
                 PROVE  SpentSoFar(Follow(walk, n, node[n].start, acc, LastFirst(n)[i]), n, i)
  <2> USE <1>FollowSpends
  <2> DEFINE r == LastFirst(n)
             K == Len(r)
             a == StartTimes(n)
             z == EndTimes(n)
             s == node[n].start
             e == node[n].end
             c == r[i]
             k == acc.cursor
             end == earlier(z[i], k)
             p == appendSegment(acc.path, n, end, k)
             call == [floor |-> s, ceiling |-> end, path |-> p]
             next == [cursor |-> later(a[i], s), on |-> TRUE, path |-> walk[c][call]]
             new == Follow(walk, n, s, acc, c)
  <2>1. AllTimed /\ r \in Seq(DOMAIN node) /\ \A g, h \in DOMAIN r : g < h => node[r[h]].end <= node[r[g]].end
    BY <1>LastFirstLists DEF Ready
  <2>2. K \in Nat /\ DOMAIN r = 1..K /\ \A j \in 1..K : r[j] \in DOMAIN node
    BY <2>1, SeqLen
  <2>3. \A j \in 1..K : a[j] = node[r[j]].start /\ z[j] = node[r[j]].end
    BY DEF StartTimes, EndTimes
  <2>4. LastToEndFirst(a, z, K)
    <3>1. a \in [1..K -> Int] /\ z \in [1..K -> Int]
      BY <2>1, <2>2 DEF StartTimes, EndTimes, AllTimed
    <3>2. \A j \in 1..K : a[j] <= z[j]
      BY <2>1, <2>2, <2>3 DEF AllTimed
    <3>3. \A g, h \in 1..K : g < h => z[h] <= z[g]
      BY <2>1, <2>2, <2>3, Zenon
    <3> QED
      BY <3>1, <3>2, <3>3 DEF LastToEndFirst
  <2>5. /\ s \in Int /\ e \in Int /\ k \in Int /\ acc.path \in Seq(Segment) /\ c \in DOMAIN node
        /\ a[i] \in Int /\ z[i] \in Int
    BY <2>1, <2>2, <2>4, Zenon DEF AllTimed, Following, LastToEndFirst
  <2>6. /\ LedSoFar(acc, n, s, e) /\ SpentIn(acc.path, n) = FreeFrom(a, z, K, s, e, k) /\ ClearTo(a, z, i - 1, s, k)
        /\ ~acc.on => k <= s \/ \A j \in (i - 1 + 1)..K : z[j] <= s
    BY Zenon DEF SpentSoFar
  <2>7. LedSoFar(new, n, s, e)
    <3>1. node[n].start <= s
      <4> HIDE <1>FollowSpends
      <4> QED
        BY <2>5
    <3> QED
      BY <2>1, <2>5, <2>6, <3>1, <1>FollowLeads, Zenon
  <2>8. LeadsTo(acc.path, e, k) /\ s <= k /\ k <= e
    BY <2>6, Zenon DEF LedSoFar
  <2>9. \/ ~acc.on /\ new = acc
        \/ acc.on /\ end <= s /\ new = [acc EXCEPT !.on = FALSE]
        \/ acc.on /\ ~(end <= s) /\ a[i] >= k /\ new = acc
        \/ ~(end <= s) /\ ~(a[i] >= k) /\ new = next
    BY <2>3, Zenon DEF Follow
  <2>10. SUFFICES /\ SpentIn(new.path, n) = FreeFrom(a, z, K, s, e, new.cursor)
                  /\ ClearTo(a, z, i, s, new.cursor)
                  /\ ~new.on => new.cursor <= s \/ \A j \in (i + 1)..K : z[j] <= s
    BY <2>7, Zenon DEF SpentSoFar
  <2> HIDE DEF K, a, z, s, e, k, new
  <2>11. ASSUME \A x \in Int : s <= x /\ x < k => Outside(a, z, i, x) PROVE ClearTo(a, z, i, s, k)
    <3>1. \A j \in 1..i : j = i \/ j \in 1..(i - 1)
      <4>1. i \in 1..K
        BY Zenon DEF K
      <4> HIDE <1>FollowSpends
      <4> QED
        BY <2>2, <4>1
    <3> QED
      BY <2>6, <2>11, <3>1, Zenon DEF ClearTo
  <2>12. ASSUME k <= s \/ \A j \in i..K : z[j] <= s
         PROVE  ClearTo(a, z, i, s, k) /\ (k <= s \/ \A j \in (i + 1)..K : z[j] <= s)
    <3>1. i \in i..K /\ \A j \in (i + 1)..K : j \in i..K
      BY <2>2 DEF K
    <3>2. \A x \in Int : s <= x /\ x < k => Outside(a, z, i, x)
      BY <2>5, <2>12, <3>1 DEF Outside
    <3> QED
      BY <2>11, <2>12, <3>1, <3>2
  <2>13. CASE ~acc.on /\ new = acc
    <3>1. i - 1 + 1 = i
      BY <2>2 DEF K
    <3> QED
      BY <2>6, <2>12, <2>13, <3>1, Zenon DEF k
  <2>14. CASE acc.on /\ end <= s /\ new = [acc EXCEPT !.on = FALSE]
    <3>1. new.path = acc.path /\ new.cursor = k
      BY <2>14 DEF Following, k
    <3>2. k <= s \/ \A j \in i..K : z[j] <= s
      <4>1. k <= s \/ z[i] <= s
        BY <2>5, <2>14 DEF earlier
      <4>2. \A j \in i..K : z[j] \in Int /\ z[j] <= z[i]
        <5>1. i \in 1..K /\ \A j \in i..K : j \in 1..K /\ (j = i \/ i < j)
          BY <2>2 DEF K
        <5> QED
          BY <2>4, <2>5, <5>1 DEF LastToEndFirst
      <4> QED
        BY <2>5, <4>1, <4>2
    <3> QED
      BY <2>6, <2>12, <3>1, <3>2, Zenon
  <2>15. CASE acc.on /\ ~(end <= s) /\ a[i] >= k /\ new = acc
    <3>1. \A x \in Int : s <= x /\ x < k => Outside(a, z, i, x)
      BY <2>5, <2>15 DEF Outside
    <3> QED
      BY <2>6, <2>11, <2>15, <3>1, Zenon DEF k
  <2>16. CASE ~(end <= s) /\ ~(a[i] >= k) /\ new = next
    <3>1. end \in Int /\ end <= k /\ s < end /\ a[i] < k
      <4> HIDE <1>FollowSpends
      <4> QED
        BY <2>5, <2>16 DEF earlier
    <3>2. /\ ClearTo(a, z, i, s, later(a[i], s))
          /\ FreeFrom(a, z, K, s, e, later(a[i], s)) = FreeFrom(a, z, K, s, e, k) \cup Stretch(end, k)
      <4>1. i \in 1..K
        BY Zenon DEF K
      <4>2. ComesTo(a, z, K, s, e, k, i)
        BY <2>2, <2>4, <2>5, <2>6, <2>8, <3>1, <4>1, Zenon DEF ComesTo
      <4> HIDE <1>FollowSpends
      <4> QED
        BY <4>2, <1>FreeBetween
    <3> HIDE DEF end
    <3>3. p \in Seq(Segment) /\ SpentIn(p, n) = SpentIn(acc.path, n) \cup Stretch(end, k)
      <4>1. \A j \in 1..Len(acc.path) : Within(acc.path[j])
        BY <2>8, Zenon DEF LeadsTo
      <4>2. p \in Seq(Segment)
        BY <2>5, <3>1, <1>AppendAdds, Zenon
      <4> DEFINE q == acc.path
      <4>3. q \in Seq(Segment) /\ k \in Int /\ end \in Int /\ end <= k /\ \A j \in 1..Len(q) : Within(q[j])
        BY <2>5, <3>1, <4>1, Zenon
      <4> HIDE DEF q
      <4>4. SpentIn(appendSegment(q, n, end, k), n) = SpentIn(q, n) \cup Stretch(end, k)
        BY <4>3, <1>AppendSpends
      <4> QED
        BY <4>2, <4>4, Zenon DEF q
    <3> HIDE DEF p
    <3>4. call \in Call /\ call.path = p
      BY <2>5, <3>1, <3>3 DEF Call
    <3> HIDE DEF call
    <3>5. SpentIn(walk[c][call], n) = SpentIn(p, n)
      BY <3>4, Zenon DEF Quiet
    <3>6. new.path = walk[c][call] /\ new.cursor = later(a[i], s) /\ new.on
      BY <2>16
    <3> QED
      BY <2>6, <3>2, <3>3, <3>5, <3>6, Zenon
  <2> QED
    BY <2>9, <2>13, <2>14, <2>15, <2>16, Zenon
\* In the end the path of n has spent in n what is free of its children.
<1>PathSpends. ASSUME NEW f, PathWalk(f), NEW n \in DOMAIN node, NEW call \in Call,
                      call = [floor |-> node[n].start, ceiling |-> node[n].end, path |-> << >>]
               PROVE  SpentIn(f[n][call], n)
                        = Free(StartTimes(n), EndTimes(n), Len(LastFirst(n)), node[n].start, node[n].end)
  <2> USE <1>PathSpends
  <2> DEFINE cs == LastFirst(n)
             K == Len(cs)
             a == StartTimes(n)
             z == EndTimes(n)
             s == node[n].start
             e == node[n].end
             Fr == Free(a, z, K, s, e)
  <2>1. AllTimed /\ cs \in Seq(DOMAIN node) /\ Range(cs) = Range(children[n])
    BY <1>LastFirstLists DEF Ready, Listing
  <2>2. K \in Nat /\ DOMAIN cs = 1..K /\ \A i \in 1..K : cs[i] \in DOMAIN node /\ cs[i] \in Range(cs)
    BY <2>1, SeqLen DEF Range
  <2>3. \A i \in 1..K : Leads(f, cs[i]) /\ Quiet(f, cs[i], n)
    <3>1. \A i \in 1..K : Leads(f, cs[i])
      BY <2>2, <1>PathWalkLeads
    <3> QED
      BY <2>1, <2>2, <3>1, <1>ChildIsQuiet
  <2>4. s \in Int /\ e \in Int /\ s <= e
    BY <2>1 DEF AllTimed
  <2>5. call.floor = s /\ call.ceiling = e /\ call.path = << >> /\ later(s, s) = s /\ earlier(e, e) = e
    BY DEF later, earlier
  <2>6. PICK u : Followed(u, f, n, call)
    <3>1. \A c \in Range(cs) : c \in DOMAIN node
      BY <2>1, SeqLen DEF Range
    <3>2. \A c \in Range(cs) : f[c] \in Answers
      BY <3>1, <1>PathWalkLeads
    <3> QED
      BY <2>1, <3>2, <1>FollowIsLoop
  <2>7. /\ u \in [0..K -> Following]
        /\ u[0] = [cursor |-> e, on |-> TRUE, path |-> << >>]
        /\ \A i \in 1..K : u[i] = Follow(f, n, s, u[i - 1], cs[i])
        /\ criticalPath(f, n, call) = appendSegment(u[K].path, n, s, u[K].cursor)
    BY <2>5, <2>6, Zenon DEF Followed
  <2>8. f[n][call] = criticalPath(f, n, call)
    <3>1. f[n] = [ca \in Call |-> criticalPath(f, n, ca)]
      BY DEF PathWalk
    <3> QED
      BY <3>1
  <2> DEFINE G == {i \in 0..K : SpentSoFar(u[i], n, i)}
  <2>9. 0 \in G
    <3>1. u[0].cursor = e /\ u[0].path = << >> /\ u[0].on
      BY <2>7
    <3>2. LeadsTo(<< >>, e, e) /\ SpentIn(<< >>, n) = {}
      BY <2>4 DEF LeadsTo, SpentIn
    <3>3. LedSoFar(u[0], n, s, e)
      <4>1. e <= e
        BY <2>4
      <4> QED
        BY <2>4, <3>1, <3>2, <4>1, Zenon DEF LedSoFar
    <3>4. FreeFrom(a, z, K, s, e, e) = {}
      <4> HIDE DEF a, z, K, s, e
      <4> QED
        BY <2>4 DEF FreeFrom, Free
    <3>5. ClearTo(a, z, 0, s, e)
      BY DEF ClearTo
    <3>6. SpentSoFar(u[0], n, 0)
      BY <3>1, <3>2, <3>3, <3>4, <3>5, Zenon DEF SpentSoFar
    <3> QED
      BY <2>2, <3>6
  <2>10. ASSUME NEW i \in 1..K, i - 1 \in G PROVE i \in G
    <3>1. i - 1 \in 0..K /\ i \in 0..K
      BY <2>2
    <3>2. u[i - 1] \in Following /\ SpentSoFar(u[i - 1], n, i - 1)
      BY <2>7, <2>10, <3>1
    <3>3. SpentSoFar(Follow(f, n, s, u[i - 1], cs[i]), n, i)
      BY <2>3, <3>2, <1>FollowSpends, Zenon
    <3> QED
      BY <2>7, <3>1, <3>3, Zenon
  <2>11. K \in G
    <3> HIDE DEF G, K
    <3>1. 0..K \subseteq G
      BY <2>2, <2>9, <2>10, LoopInduction, Zenon
    <3> QED
      BY <2>2, <3>1
  <2> DEFINE p == u[K].path
             k == u[K].cursor
  <2>12. /\ LedSoFar(u[K], n, s, e) /\ SpentIn(p, n) = FreeFrom(a, z, K, s, e, k) /\ ClearTo(a, z, K, s, k)
         /\ p \in Seq(Segment) /\ k \in Int
    <3>1. SpentSoFar(u[K], n, K) /\ u[K] \in Following
      BY <2>7, <2>11
    <3> QED
      BY <3>1, Zenon DEF SpentSoFar, Following
  <2>13. LeadsTo(p, e, k) /\ s <= k /\ k <= e
    BY <2>12, Zenon DEF LedSoFar
  <2>14. \A j \in 1..Len(p) : Within(p[j])
    BY <2>13, Zenon DEF LeadsTo
  <2> HIDE DEF p, k, s, e, a, z, K
  <2>15. SpentIn(appendSegment(p, n, s, k), n) = SpentIn(p, n) \cup Stretch(s, k)
    BY <2>4, <2>12, <2>13, <2>14, <1>AppendSpends
  <2>16. FreeFrom(a, z, K, s, e, k) \cup Stretch(s, k) = Fr
    BY <2>4, <2>12, <2>13 DEF FreeFrom, Free, ClearTo, Stretch
  <2> QED
    BY <2>7, <2>8, <2>12, <2>15, <2>16, Zenon DEF p, k, s, e, a, z, K
\* The path, latest first, that CriticalPath reverses.
<1>PathLeads. ASSUME NEW n \in DOMAIN node
              PROVE  \E p : /\ LeadsTo(p, node[n].end, node[n].start)
                            /\ CriticalPath(n) = [i \in DOMAIN p |-> p[Len(p) + 1 - i]]
                            /\ SpentIn(p, n) = Instants(n) \ UNION {Instants(c) : c \in Range(children[n])}
  <2> USE <1>PathLeads
  <2> DEFINE w == CHOOSE f : PathWalk(f)
             s == node[n].start
             e == node[n].end
             call == [floor |-> s, ceiling |-> e, path |-> << >>]
             p == w[n][call]
  <2>1. PathWalk(w)
    BY <1>PathWalkExists, Zenon
  <2>2. CriticalPath(n) = [i \in DOMAIN p |-> p[Len(p) + 1 - i]]
    BY Zenon DEF CriticalPath, PathWalk
  <2> HIDE DEF w
  <2>3. AllTimed /\ s \in Int /\ e \in Int /\ s <= e
    BY DEF Ready, AllTimed
  <2> HIDE DEF s, e
  <2>4. call \in Call /\ call.floor = s /\ call.ceiling = e /\ call.path = << >>
    <3>1. << >> \in Seq(Segment)
      BY SeqEmpty, Zenon
    <3>2. call \in Call
      BY <2>3, <3>1, Zenon DEF Call
    <3> QED
      BY <3>2
  <2>5. LeadsTo(<< >>, e, e)
    BY <2>3 DEF LeadsTo
  <2>6. later(s, s) = s /\ earlier(e, e) = e
    BY DEF later, earlier
  <2>7. SpentIn(p, n) = Free(StartTimes(n), EndTimes(n), Len(LastFirst(n)), s, e)
    BY <2>1, <2>4, <1>PathSpends, Zenon DEF s, e
  <2> HIDE DEF call
  <2>8. LeadsTo(w[n][call], e, s)
    <3>1. Leads(w, n)
      BY <2>1, <1>PathWalkLeads
    <3> QED
      BY <2>3, <2>4, <2>5, <2>6, <3>1, Zenon DEF Leads, s, e
  <2>9. Free(StartTimes(n), EndTimes(n), Len(LastFirst(n)), s, e) = Instants(n) \ UNION {Instants(c) : c \in Range(children[n])}
    <3> DEFINE r == LastFirst(n)
               K == Len(r)
               R == Range(children[n])
    <3>1. r \in Seq(DOMAIN node) /\ Range(r) = R
      BY <1>LastFirstLists DEF Listing
    <3>2. K \in Nat /\ R = {r[j] : j \in 1..K} /\ \A j \in 1..K : r[j] \in DOMAIN node
      BY <3>1, SeqLen, Zenon DEF Range
    <3> HIDE DEF R
    <3>3. \A j \in 1..K, x \in Int : Outside(StartTimes(n), EndTimes(n), j, x) <=> x \notin Instants(r[j])
      <4> SUFFICES ASSUME NEW j \in 1..K, NEW x \in Int
                   PROVE  Outside(StartTimes(n), EndTimes(n), j, x) <=> x \notin Instants(r[j])
        OBVIOUS
      <4> DEFINE b == node[r[j]].start
                 d == node[r[j]].end
      <4>1. b \in Int /\ d \in Int
        BY <2>3, <3>2 DEF AllTimed
      <4>2. StartTimes(n)[j] = b /\ EndTimes(n)[j] = d /\ Instants(r[j]) = b..(d - 1)
        BY DEF StartTimes, EndTimes, Instants
      <4> HIDE DEF b, d
      <4> QED
        BY <4>1, <4>2 DEF Outside
    <3>4. Instants(n) = {x \in Int : s <= x /\ x < e}
      <4>1. Instants(n) = s..(e - 1)
        BY DEF Instants, s, e
      <4> QED
        BY <2>3, <4>1
    <3> HIDE DEF r, K
    <3>5. Free(StartTimes(n), EndTimes(n), K, s, e) = {x \in Int : s <= x /\ x < e /\ \A j \in 1..K : x \notin Instants(r[j])}
      BY <3>3 DEF Free
    <3>6. Instants(n) \ UNION {Instants(c) : c \in R} = {x \in Int : s <= x /\ x < e /\ \A j \in 1..K : x \notin Instants(r[j])}
      BY <3>2, <3>4
    <3> QED
      BY <3>5, <3>6 DEF r, K, R
  <2> QED
    BY <2>2, <2>7, <2>8, <2>9, Zenon DEF s, e
<1> QED
  <2> SUFFICES ASSUME NEW n \in DOMAIN node
               PROVE  /\ CriticalPath(n) \in Seq(Segment) /\ Covering(CriticalPath(n), n)
                      /\ SpentIn(CriticalPath(n), n) = Instants(n) \ UNION {Instants(c) : c \in Range(children[n])}
    OBVIOUS
  <2> DEFINE s == node[n].start
             e == node[n].end
             path == CriticalPath(n)
             rest == Instants(n) \ UNION {Instants(c) : c \in Range(children[n])}
  <2>2. PICK p : LeadsTo(p, e, s) /\ path = [i \in DOMAIN p |-> p[Len(p) + 1 - i]] /\ SpentIn(p, n) = rest
    BY <1>PathLeads
  <2> DEFINE K == Len(p)
  <2>3. /\ p \in Seq(Segment) /\ (K = 0 <=> s = e) /\ (K # 0 => p[1].end = e /\ p[K].start = s)
        /\ \A i \in 1..K : Within(p[i])
        /\ \A i \in 2..K : Adjoins(p[i - 1], p[i])
    BY <2>2, Zenon DEF LeadsTo
  <2>4. K \in Nat /\ DOMAIN p = 1..K /\ \A i \in 1..K : p[i] \in Segment
    BY <2>3, SeqLen
  <2> HIDE DEF path, s, e, rest
  <2>5. path = [i \in 1..K |-> p[K + 1 - i]]
    BY <2>2, <2>4
  <2> HIDE DEF K
  <2>6. path \in Seq(Segment) /\ Len(path) = K /\ DOMAIN path = 1..K /\ \A i \in 1..K : path[i] = p[K + 1 - i]
    <3>1. \A i \in 1..K : K + 1 - i \in 1..K
      BY <2>4
    <3>2. path \in [1..K -> Segment]
      BY <2>4, <2>5, <3>1
    <3> QED
      BY <2>4, <2>5, <3>2
  <2>7. path = << >> <=> K = 0
    BY <2>4, <2>6
  <2>8. (path = << >>) <=> (s = e)
    BY <2>3, <2>7
  <2>9. ASSUME path # << >> PROVE path[1].start = s /\ path[Len(path)].end = e
    <3>1. K # 0 /\ 1 \in 1..K /\ K \in 1..K /\ K + 1 - 1 = K /\ K + 1 - K = 1
      BY <2>4, <2>7, <2>9
    <3>2. path[1] = p[K] /\ path[Len(path)] = p[1]
      BY <2>6, <3>1
    <3> QED
      BY <2>3, <3>1, <3>2, Zenon
  <2>10. ASSUME NEW i \in DOMAIN path
         PROVE  /\ path[i].start < path[i].end
                /\ node[path[i].node].start <= path[i].start /\ path[i].end <= node[path[i].node].end
    <3>1. K + 1 - i \in 1..K /\ path[i] = p[K + 1 - i]
      BY <2>4, <2>6
    <3> QED
      BY <2>3, <3>1, Zenon DEF Within
  <2>11. ASSUME NEW i \in DOMAIN path, i > 1 PROVE path[i - 1].end = path[i].start /\ path[i - 1].node # path[i].node
    <3> DEFINE k == K + 1 - (i - 1)
    <3>1. i \in 1..K /\ i - 1 \in 1..K /\ k \in 2..K /\ k - 1 = K + 1 - i
      BY <2>4, <2>6, <2>11
    <3>2. path[i - 1] = p[k] /\ path[i] = p[k - 1]
      BY <2>6, <3>1
    <3> HIDE DEF k
    <3>3. Adjoins(p[k - 1], p[k])
      BY <2>3, <3>1
    <3> QED
      BY <3>2, <3>3, Zenon DEF Adjoins
  <2>12. Covering(path, n)
    BY <2>8, <2>9, <2>10, <2>11, Zenon DEF Covering, s, e
  <2>13. SpentIn(path, n) = SpentIn(p, n)
    <3> DEFINE S(i) == SpentBy(p[i], n)
    <3>1. \A i \in 1..K : K + 1 - i \in 1..K /\ K + 1 - (K + 1 - i) = i
      BY <2>4
    <3>2. SpentIn(path, n) = UNION {SpentBy(path[i], n) : i \in 1..K} /\ SpentIn(p, n) = UNION {S(i) : i \in 1..K}
      BY <2>6, Zenon DEF SpentIn, K
    <3>3. \A i \in 1..K : SpentBy(path[i], n) = S(K + 1 - i)
      BY <2>6, Zenon
    <3>4. \A i \in 1..K : S(i) = SpentBy(path[K + 1 - i], n)
      BY <2>6, <3>1
    <3> HIDE DEF S
    <3> QED
      BY <3>1, <3>2, <3>3, <3>4
  <2> QED
    BY <2>2, <2>6, <2>12, <2>13, Zenon DEF path, rest

\* The first i segments of path spend in n as much as spent[i] says.
SpendsUpTo(path, n, i) == UNION {SpentBy(path[j], n) : j \in 1..i}
TimeTurn(path, n, i, b) == IF path[i].node = n THEN b + (path[i].end - path[i].start) ELSE b
TimeAfter(spent, path, n) ==
  /\ spent \in [0..Len(path) -> Int] /\ spent[0] = 0 /\ spent[Len(path)] = TimeIn(path, n)
  /\ \A i \in 1..Len(path) : spent[i] = TimeTurn(path, n, i, spent[i - 1])

\* There are such sums.
LEMMA TimeIsLoop ==
  ASSUME NEW path \in Seq(Segment), NEW n
  PROVE  \E spent : TimeAfter(spent, path, n)
<1> DEFINE K == Len(path)
           X == Int
           step == [i \in 1..K |-> [b \in X |-> TimeTurn(path, n, i, b)]]
           Turn(h) == [i \in 0..K |-> IF i = 0 THEN 0
                       ELSE IF path[i].node = n THEN h[i - 1] + (path[i].end - path[i].start) ELSE h[i - 1]]
<1>1. K \in Nat /\ \A i \in 1..K : path[i] \in Segment
  BY SeqLen
<1>2. \A i \in 1..K : \A b \in X : TimeTurn(path, n, i, b) \in X
  BY <1>1 DEF TimeTurn, Segment
<1>3. Keeps(step, K, X)
  <2> HIDE DEF K, X
  <2> QED
    BY <1>2 DEF Keeps
<1>4. PICK u : IsRun(u, step, K, X, 0)
  <2>1. 0 \in X
    OBVIOUS
  <2> HIDE DEF K, step, X
  <2> QED
    BY <1>1, <1>3, <2>1, LoopExists
<1>5. \A i \in 1..K : i - 1 \in 0..K /\ i \in 0..K /\ i # 0
  BY <1>1
<1>6. \A i \in 0..K : i = 0 \/ i \in 1..K
  BY <1>1
<1> HIDE DEF K, X
<1>7. u \in [0..K -> X] /\ u[0] = 0 /\ \A i \in 1..K : u[i] = TimeTurn(path, n, i, u[i - 1])
  BY <1>4, <1>5, Zenon DEF IsRun
<1>8. u = Turn(u)
  <2>1. \A i \in 0..K : u[i] = Turn(u)[i]
    BY <1>5, <1>6, <1>7, Zenon DEF TimeTurn
  <2> QED
    BY <1>7, <2>1, Zenon
<1> DEFINE v == CHOOSE h : h = Turn(h)
<1>9. v = Turn(v)
  <2> HIDE DEF Turn
  <2> QED
    BY <1>8
<1>10. TimeIn(path, n) = v[K]
  BY Zenon DEF TimeIn, K
<1> HIDE DEF v
<1>11. v[0] = 0 /\ \A i \in 1..K : v[i] = TimeTurn(path, n, i, v[i - 1])
  <2>1. 0 \in 0..K
    BY <1>1
  <2> QED
    BY <1>5, <1>9, <2>1, Zenon DEF TimeTurn
<1>12. v[K] = u[K]
  <2> DEFINE G == {i \in 0..K : v[i] = u[i]}
  <2>1. 0 \in G
    BY <1>1, <1>7, <1>11
  <2>2. \A i \in 1..K : i - 1 \in G => i \in G
    BY <1>5, <1>7, <1>11, Zenon
  <2>3. 0..K \subseteq G
    <3> HIDE DEF G
    <3> QED
      BY <1>1, <2>1, <2>2, LoopInduction, Zenon
  <2>4. K \in 0..K
    BY <1>1
  <2> QED
    BY <2>3, <2>4
<1>13. TimeAfter(u, path, n)
  BY <1>7, <1>10, <1>12, Zenon DEF TimeAfter, K, X
<1> QED
  BY <1>13

\* On a path whose segments follow one another the time adds up to the number
\* of instants.
LEMMA TimeCounts ==
  ASSUME NEW path \in Seq(Segment), NEW n, NEW m, Covering(path, m)
  PROVE  TimeIn(path, n) = Cardinality(SpentIn(path, n))
<1> DEFINE K == Len(path)
           Sp(i) == SpendsUpTo(path, n, i)
<1>1. K \in Nat /\ DOMAIN path = 1..K /\ \A i \in 1..K : path[i] \in Segment
  BY SeqLen
<1>2. PICK u : TimeAfter(u, path, n)
  BY TimeIsLoop
<1>3. u \in [0..K -> Int] /\ u[0] = 0 /\ u[K] = TimeIn(path, n) /\ \A i \in 1..K : u[i] = TimeTurn(path, n, i, u[i - 1])
  BY <1>2, Zenon DEF TimeAfter
<1> DEFINE at == [i \in 1..K |-> path[i].start]
           to == [i \in 1..K |-> path[i].end]
<1>4. at \in [1..K -> Int] /\ to \in [1..K -> Int]
  BY <1>1 DEF Segment
<1>5. \A i \in 1..K : at[i] < to[i] /\ (i > 1 => to[i - 1] = at[i])
  <2>1. \A i \in 1..K : path[i].start < path[i].end /\ (i > 1 => path[i - 1].end = path[i].start)
    BY <1>1, Zenon DEF Covering
  <2>2. \A i \in 1..K : i > 1 => i - 1 \in 1..K
    BY <1>1
  <2> QED
    BY <2>1, <2>2
<1>6. \A i \in 1..K : at[i] = path[i].start /\ to[i] = path[i].end
  OBVIOUS
<1> HIDE DEF at, to, K
<1> DEFINE Fine(i) == /\ IsFiniteSet(Sp(i)) /\ u[i] = Cardinality(Sp(i))
                      /\ \A x \in Sp(i) : x \in Int /\ i \in 1..K /\ x < to[i]
           G == {i \in 0..K : Fine(i)}
<1>7. 0 \in G
  <2>1. Sp(0) = {}
    BY DEF SpendsUpTo
  <2>2. Fine(0)
    BY <1>3, <2>1, FS_EmptySet, Zenon
  <2> QED
    BY <1>1, <2>2
<1>8. ASSUME NEW i \in 1..K, i - 1 \in G PROVE i \in G
  <2> DEFINE C == Sp(i - 1)
             I == SpentBy(path[i], n)
             a == at[i]
             z == to[i]
  <2>1. i \in 0..K /\ IsFiniteSet(C) /\ u[i - 1] = Cardinality(C) /\ \A x \in C : x \in Int /\ i - 1 \in 1..K /\ x < to[i - 1]
    BY <1>1, <1>8
  <2>2. a \in Int /\ z \in Int /\ a < z
    BY <1>4, <1>5
  <2>3. \A x \in C : x \in Int /\ x < a
    <3>1. i - 1 \in 1..K => i > 1
      BY <1>1
    <3> QED
      BY <1>5, <2>1, <3>1
  <2>4. Sp(i) = C \cup I
    <3>1. 1..i = (1..(i - 1)) \cup {i}
      BY <1>1
    <3> QED
      BY <3>1 DEF SpendsUpTo
  <2>5. u[i] = IF path[i].node = n THEN u[i - 1] + (z - a) ELSE u[i - 1]
    BY <1>3, <1>6, Zenon DEF TimeTurn
  <2>6. path[i].node = n => I = a..(z - 1)
    <3>1. path[i].node = n => I = {x \in Int : a <= x /\ x < z}
      BY <1>6, Zenon DEF SpentBy
    <3> HIDE DEF a, z
    <3>2. {x \in Int : a <= x /\ x < z} = a..(z - 1)
      BY <2>2
    <3> HIDE DEF I
    <3> QED
      BY <3>1, <3>2, Zenon
  <2>7. path[i].node # n => I = {}
    BY DEF SpentBy
  <2> HIDE DEF C, I, a, z
  <2>8. CASE path[i].node = n
    <3>1. IsFiniteSet(I) /\ Cardinality(I) = z - a
      <4>1. z - 1 \in Int /\ ~(a > z - 1) /\ (z - 1) - a + 1 = z - a
        BY <2>2
      <4> QED
        BY <2>2, <2>6, <2>8, <4>1, FS_Interval
    <3>2. C \cap I = {}
      BY <2>2, <2>3, <2>6, <2>8
    <3>3. IsFiniteSet(C \cup I) /\ Cardinality(C \cup I) = Cardinality(C) + Cardinality(I) - Cardinality(C \cap I)
      BY <2>1, <3>1, FS_Union
    <3>4. Cardinality(C \cap I) = 0 /\ Cardinality(C) \in Nat
      BY <2>1, <3>2, FS_EmptySet, FS_CardinalityType, Zenon
    <3>5. Cardinality(C \cup I) = u[i]
      BY <2>1, <2>2, <2>5, <2>8, <3>1, <3>3, <3>4
    <3>6. \A x \in C \cup I : x \in Int /\ x < z
      BY <2>2, <2>3, <2>6, <2>8
    <3>7. Fine(i)
      BY <2>4, <3>3, <3>5, <3>6 DEF z
    <3> QED
      BY <2>1, <3>7
  <2>9. CASE path[i].node # n
    <3>1. C \cup I = C
      BY <2>7, <2>9
    <3>2. \A x \in C : x \in Int /\ x < z
      BY <2>2, <2>3
    <3>3. Fine(i)
      BY <2>1, <2>4, <2>5, <2>9, <3>1, <3>2, Zenon DEF z
    <3> QED
      BY <2>1, <3>3
  <2> QED
    BY <2>8, <2>9
<1>9. K \in G
  <2> HIDE DEF G
  <2>1. 0..K \subseteq G
    BY <1>1, <1>7, <1>8, LoopInduction, Zenon
  <2> QED
    BY <1>1, <2>1
<1>10. u[K] = Cardinality(SpendsUpTo(path, n, K))
  BY <1>9
<1>11. SpendsUpTo(path, n, K) = SpentIn(path, n)
  BY Zenon DEF SpendsUpTo, SpentIn, K
<1> QED
  BY <1>3, <1>10, <1>11, Zenon

(***************************************************************************)
(* Slices as Build takes them apart and puts them together.                *)
(***************************************************************************)

\* The elements of a subsequence, by position.
LEMMA SeqSub ==
  ASSUME NEW S, NEW s, NEW m \in Int, NEW n \in Int, \A i \in m..n : s[i] \in S
  PROVE  /\ SubSeq(s, m, n) \in Seq(S) /\ Len(SubSeq(s, m, n)) = IF m <= n THEN n - m + 1 ELSE 0
         /\ \A i \in 1..(n - m + 1) : SubSeq(s, m, n)[i] = s[m + i - 1]
  OBVIOUS

\* The head and the tail of a sequence, by position.
LEMMA SeqTail ==
  ASSUME NEW S, NEW s \in Seq(S), s # << >>
  PROVE  /\ Head(s) \in S /\ Tail(s) \in Seq(S) /\ Len(Tail(s)) = Len(s) - 1
         /\ \A i \in 1..Len(Tail(s)) : Tail(s)[i] = s[i + 1]
  OBVIOUS

\* Append adds its element and keeps the others.
LEMMA AppendElements ==
  ASSUME NEW S, NEW s \in Seq(S), NEW x \in S
  PROVE  Append(s, x) \in Seq(S) /\ Range(Append(s, x)) = Range(s) \cup {x}
<1> DEFINE one == <<x>>
<1>1. one \in Seq(S) /\ Range(one) = {x}
  BY OneElement
<1>2. Append(s, x) = s \o one
  OBVIOUS
<1> HIDE DEF one
<1>3. QED
  BY <1>1, <1>2, ConcatElements

\* Stacked keeps the elements.
LEMMA ReverseElements ==
  ASSUME NEW S, NEW s \in Seq(S)
  PROVE  Stacked(s) \in Seq(S) /\ Range(s) \subseteq Range(Stacked(s))
<1>1. Stacked(s) \in Seq(S) /\ DOMAIN Stacked(s) = 1..Len(s) /\ DOMAIN s = 1..Len(s)
  BY DEF Stacked
<1>2. ASSUME NEW i \in 1..Len(s)
      PROVE  \E j \in 1..Len(s) : Stacked(s)[j] = s[i]
  <2>1. Len(s) - i + 1 \in 1..Len(s) /\ Stacked(s)[Len(s) - i + 1] = s[i]
    BY DEF Stacked
  <2>2. QED
    BY <2>1
<1>3. QED
  BY <1>1, <1>2, Zenon DEF Range

\* A turn of mark's loop: the top of the stack gives way to its children.
LEMMA TurnElements ==
  ASSUME NEW S, NEW s \in Seq(S), s # << >>, NEW cs \in Seq(S)
  PROVE  /\ Top(s) \in S
         /\ Pop(s) \o cs \in Seq(S)
         /\ Range(s) \ {Top(s)} \subseteq Range(Pop(s) \o cs)
         /\ Range(cs) \subseteq Range(Pop(s) \o cs)
<1> DEFINE n == Len(s)
<1>1. n \in Nat \ {0} /\ DOMAIN s = 1..n /\ \A i \in 1..n : s[i] \in S
  BY SeqEmpty, SeqLen, SeqElement
<1> HIDE DEF n
<1>2. Top(s) = s[n] /\ Pop(s) = SubSeq(s, 1, n - 1) /\ n - 1 \in Int /\ n \in 1..n
  BY <1>1 DEF Top, Pop, n
<1>3. Pop(s) \in Seq(S) /\ Len(Pop(s)) = n - 1 /\ \A i \in 1..(n - 1) : Pop(s)[i] = s[i]
  BY <1>1, <1>2, SeqSub
<1>4. DOMAIN Pop(s) = 1..(n - 1)
  BY <1>3, SeqLen
<1>5. \A i \in 1..n : i = n \/ i \in 1..(n - 1)
  BY <1>1
<1>6. Range(s) \ {Top(s)} \subseteq Range(Pop(s))
  BY <1>1, <1>2, <1>3, <1>4, <1>5, Zenon DEF Range
<1>7. Pop(s) \o cs \in Seq(S) /\ Range(Pop(s) \o cs) = Range(Pop(s)) \cup Range(cs)
  BY <1>3, ConcatElements
<1> QED
  BY <1>1, <1>2, <1>6, <1>7

\* Removing a node leaves the others where they are.
LEMMA WithoutElements ==
  ASSUME NEW S, NEW s \in Seq(S), NEW x
  PROVE  Without(s, x) \in Seq(S) /\ Range(s) \ {x} \subseteq Range(Without(s, x))
<1>1. CASE x \notin Range(s)
  BY <1>1 DEF Without
<1>2. CASE x \in Range(s)
  <2>1. PICK k \in DOMAIN s : s[k] = x /\ Without(s, x) = RemovedAt(s, k)
    BY <1>2, Zenon DEF Without, Range
  <2> DEFINE n == Len(s)
             left == SubSeq(s, 1, k - 1)
             right == SubSeq(s, k + 1, n)
  <2>2. n \in Nat /\ k \in 1..n /\ DOMAIN s = 1..n /\ \A i \in 1..n : s[i] \in S
    BY <2>1, SeqLen, SeqElement
  <2>3. Without(s, x) = left \o right
    BY <2>1 DEF RemovedAt
  <2> HIDE DEF n
  <2>4. left \in Seq(S) /\ Len(left) = k - 1 /\ \A i \in 1..(k - 1) : left[i] = s[i]
    BY <2>2, SeqSub
  <2>5. right \in Seq(S) /\ Len(right) = n - k /\ \A i \in 1..(n - k) : right[i] = s[k + i]
    BY <2>2, SeqSub
  <2>6. DOMAIN left = 1..(k - 1) /\ DOMAIN right = 1..(n - k)
    BY <2>4, <2>5, SeqLen
  <2> HIDE DEF left, right
  <2>7. \A i \in 1..n : \/ i = k \/ i \in 1..(k - 1)
                        \/ i - k \in 1..(n - k) /\ k + (i - k) = i
    BY <2>2
  <2>8. Range(s) \ {x} \subseteq Range(left) \cup Range(right)
    BY <2>1, <2>2, <2>4, <2>5, <2>6, <2>7 DEF Range
  <2> QED
    BY <2>3, <2>4, <2>5, <2>8, ConcatElements
<1>3. QED
  BY <1>1, <1>2

\* In particular by start.
LEMMA SortLists ==
  ASSUME NEW S \in SUBSET Nat, NEW nd, \A n \in S : nd[n].start \in Int, NEW s, Listing(s, S)
  PROVE  Listing(SortNodes(nd, s), S) /\ Ascending(nd, SortNodes(nd, s))
<1> DEFINE R == {p \in S \X S : ByStart(nd, p[1], p[2])}
<1>1. \A a, b \in S : <<a, b>> \in R <=> ByStart(nd, a, b)
  OBVIOUS
<1>2. SortNodes(nd, s) = SortBy(R, s)
  BY DEF SortNodes, Listing
<1> HIDE DEF R
<1>3. Orders(R, S)
  BY <1>1, ByStartOrders, Zenon DEF Orders
<1>4. Listing(SortBy(R, s), S) /\ InOrderOf(R, SortBy(R, s))
  BY <1>3, SortByLists
<1>5. \A i \in DOMAIN SortBy(R, s) : SortBy(R, s)[i] \in S
  BY <1>4 DEF Listing, Range
<1> QED
  BY <1>1, <1>2, <1>4, <1>5, Zenon DEF Ascending, InOrderOf

\* Sorting a set lists it.
LEMMA SortedLists ==
  ASSUME NEW S \in SUBSET Nat, IsFiniteSet(S), NEW nd, \A n \in S : nd[n].start \in Int
  PROVE  Listing(Sorted(nd, S), S)
<1> DEFINE n == Cardinality(S)
           s == CHOOSE g \in [1..Cardinality(S) -> S] : IsInjective(g)
<1>1. n \in Nat /\ ExistsBijection(1..n, S)
  BY FS_CardinalityType
<1>2. PICK f \in Bijection(1..n, S) : TRUE
  BY <1>1 DEF ExistsBijection
<1>3. f \in [1..n -> S] /\ IsInjective(f)
  BY <1>2 DEF Bijection, Injection
<1>4. s \in [1..n -> S] /\ IsInjective(s)
  BY <1>3
<1> HIDE DEF s
<1>5. s \in Injection(1..n, S)
  BY <1>4 DEF Injection
<1>6. s \in Surjection(1..n, S)
  <2>1. IsFiniteSet(1..n) /\ Cardinality(1..n) = n
    BY <1>1, Counting
  <2> DEFINE D == 1..n
  <2> HIDE DEF D
  <2> QED
    BY <1>5, <2>1, FS_Injection DEF D
<1>7. Listing(s, S)
  <2>1. s \in Seq(S) /\ DOMAIN s = 1..n
    BY <1>1, <1>4
  <2>2. Range(s) = S
    BY <1>4, <1>6, <2>1, Zenon DEF Surjection, Range
  <2>3. NoRepeat(s)
    BY <1>4 DEF IsInjective, NoRepeat
  <2> QED
    BY <2>1, <2>2, <2>3 DEF Listing
<1> QED
  BY <1>7, SortLists DEF Sorted, s

(***************************************************************************)
(* The invariant of Build, and its steps.                                  *)
(***************************************************************************)

Marking == {"mark", "remark", "cut"}

\* The nodes, their links and the slices that name them.
Linkage ==
  /\ Ids \subseteq DOMAIN node
  /\ parent \in [DOMAIN node -> DOMAIN node \cup {Nil}]
  /\ children \in [DOMAIN node -> Seq(DOMAIN node)]
  /\ roots \in Seq(DOMAIN node)
  /\ stack \in Seq(DOMAIN node)

\* A span is listed under the parent it points to, which is not among done.
ListedBelow(n, done) ==
  n \in Ids /\ parent[n] \in DOMAIN node \ done /\ n \in Range(children[parent[n]])
LinkedSoFar == \A n \in DOMAIN node \ todo : n \in Range(roots) \/ ListedBelow(n, {})

\* What mark has not reached and will not reach from its stack hangs below
\* something it has not reached either.
ReachedSoFar == \A n \in DOMAIN node : n \in reached \cup Range(stack) \/ ListedBelow(n, reached)
BuildInv ==
  /\ pc = "collect" => roots = << >> /\ stack = << >> /\ reached = {}
  /\ pc = "link" => Linkage /\ todo \subseteq Ids /\ reached = {} /\ LinkedSoFar
  /\ pc \in Marking => Linkage /\ ReachedSoFar
  /\ pc = "cut" => stack = << >>

\* BuildInv is inductive.
LEMMA BuildInductive == BuildInv /\ [Next]_vars => BuildInv'
\* Collecting the spans starts the linking with nothing linked.
<1>CollectStep. BuildInv /\ Collect => BuildInv'
  <2> SUFFICES ASSUME BuildInv, Collect PROVE BuildInv'
    OBVIOUS
  <2>1. Ids' = Ids /\ DOMAIN node' = Ids /\ todo' = Ids
    BY DEF Collect, Ids
  <2>2. roots' = << >> /\ stack' = << >> /\ reached' = {} /\ pc' = "link"
    BY DEF BuildInv, Collect
  <2>3. Linkage'
    BY <2>1, <2>2 DEF Collect, Linkage
  <2>4. LinkedSoFar'
    BY <2>1 DEF LinkedSoFar
  <2>5. QED
    BY <2>1, <2>2, <2>3, <2>4 DEF BuildInv, Marking
\* A span without a parent is linked by becoming a root.
<1>LinkRootStep. \A n \in todo : BuildInv /\ LinkRoot(n) => BuildInv'
  <2> SUFFICES ASSUME NEW n \in todo, BuildInv, LinkRoot(n) PROVE BuildInv'
    OBVIOUS
  <2>1. pc = "link" /\ pc' = "link" /\ Linkage /\ LinkedSoFar /\ todo \subseteq Ids /\ reached = {}
    BY DEF BuildInv, LinkRoot, Linking
  <2>2. /\ Ids' = Ids /\ UNCHANGED <<node, parent, children, stack, reached>>
        /\ todo' = todo \ {n} /\ roots' = Append(roots, n)
    BY DEF LinkRoot, Linking, links, Ids
  <2>3. roots' \in Seq(DOMAIN node) /\ Range(roots') = Range(roots) \cup {n}
    BY <2>1, <2>2, AppendElements DEF Linkage
  <2>4. Linkage'
    BY <2>1, <2>2, <2>3 DEF Linkage
  <2>5. LinkedSoFar'
    BY <2>1, <2>2, <2>3 DEF LinkedSoFar, ListedBelow
  <2>6. QED
    BY <2>1, <2>2, <2>4, <2>5 DEF BuildInv, Marking
\* A span whose parent has a node is linked by being listed there.
<1>LinkKnownStep. \A n \in todo : BuildInv /\ LinkKnown(n) => BuildInv'
  <2> SUFFICES ASSUME NEW n \in todo, BuildInv, LinkKnown(n) PROVE BuildInv'
    OBVIOUS
  <2> DEFINE p == node[n].parent
  <2>1. pc = "link" /\ pc' = "link" /\ Linkage /\ LinkedSoFar /\ todo \subseteq Ids /\ reached = {}
    BY DEF BuildInv, LinkKnown, Linking
  <2>2. /\ Ids' = Ids /\ UNCHANGED <<node, roots, stack, reached>>
        /\ todo' = todo \ {n} /\ p \in DOMAIN node
        /\ parent' = [parent EXCEPT ![n] = p]
        /\ children' = [children EXCEPT ![p] = Append(@, n)]
    BY DEF LinkKnown, Linking, Ids
  <2> HIDE DEF p
  <2>3. n \in DOMAIN node /\ children[p] \in Seq(DOMAIN node)
    BY <2>1, <2>2 DEF Linkage
  <2>4. /\ Append(children[p], n) \in Seq(DOMAIN node)
        /\ Range(Append(children[p], n)) = Range(children[p]) \cup {n}
    BY <2>3, AppendElements
  <2>5. \A m \in DOMAIN node : children'[m] = IF m = p THEN Append(children[p], n) ELSE children[m]
    BY <2>1, <2>2 DEF Linkage
  <2>6. \A m \in DOMAIN node : parent'[m] = IF m = n THEN p ELSE parent[m]
    BY <2>1, <2>2 DEF Linkage
  <2>7. Linkage'
    BY <2>1, <2>2, <2>3, <2>4 DEF Linkage
  <2>8. ASSUME NEW m \in DOMAIN node, m \notin todo \/ m = n
        PROVE  m \in Range(roots') \/ ListedBelow(m, {})'
    <3>1. CASE m = n
      BY <2>1, <2>2, <2>3, <2>4, <2>5, <2>6, <3>1 DEF ListedBelow
    <3>2. CASE m # n
      <4>1. m \in Range(roots) \/ ListedBelow(m, {})
        BY <2>1, <2>8, <3>2 DEF LinkedSoFar
      <4>2. parent'[m] = parent[m]
        BY <2>6, <3>2
      <4>3. \A q \in DOMAIN node : Range(children[q]) \subseteq Range(children'[q])
        BY <2>4, <2>5
      <4>4. QED
        BY <2>2, <4>1, <4>2, <4>3 DEF ListedBelow
    <3>3. QED
      BY <3>1, <3>2
  <2>9. LinkedSoFar'
    BY <2>2, <2>8 DEF LinkedSoFar
  <2>10. QED
    BY <2>1, <2>2, <2>7, <2>9 DEF BuildInv, Marking
\* A span whose parent has no node makes one, a root, and is listed there.
<1>LinkMissingStep. \A n \in todo : BuildInv /\ LinkMissing(n) => BuildInv'
  <2> SUFFICES ASSUME NEW n \in todo, BuildInv, LinkMissing(n) PROVE BuildInv'
    OBVIOUS
  <2> DEFINE p == node[n].parent
             N == DOMAIN node \cup {p}
  <2>1. pc = "link" /\ pc' = "link" /\ Linkage /\ LinkedSoFar /\ todo \subseteq Ids /\ reached = {}
    BY DEF BuildInv, LinkMissing, Linking
  <2>2. /\ Ids' = Ids /\ UNCHANGED <<stack, reached>>
        /\ todo' = todo \ {n} /\ p \notin DOMAIN node /\ DOMAIN node' = N
        /\ roots' = Append(roots, p)
    BY DEF LinkMissing, Linking, With, Ids
  <2>3. children' = [m \in DOMAIN children \cup {p} |-> IF m = p THEN <<n>> ELSE children[m]]
    BY Zenon DEF LinkMissing, With
  <2>4. parent' = [m \in DOMAIN [parent EXCEPT ![n] = p] \cup {p} |->
                      IF m = p THEN Nil ELSE [parent EXCEPT ![n] = p][m]]
    BY Zenon DEF LinkMissing, With
  <2> HIDE DEF p
  <2>5. n \in DOMAIN node /\ n \in N /\ n # p /\ p \in N
    BY <2>1, <2>2 DEF Linkage
  <2>6. <<n>> \in Seq(N) /\ Range(<<n>>) = {n}
    BY <2>5, OneElement
  <2>7. roots \in Seq(N) /\ stack \in Seq(N) /\ \A m \in DOMAIN node : children[m] \in Seq(N)
    BY <2>1, SeqGrows DEF Linkage
  <2>8. roots' \in Seq(N) /\ Range(roots') = Range(roots) \cup {p}
    BY <2>2, <2>5, <2>7, AppendElements
  <2>9. children' \in [N -> Seq(N)]
    BY <2>1, <2>3, <2>6, <2>7, Zenon DEF Linkage
  <2>10. /\ children'[p] = <<n>>
         /\ \A m \in DOMAIN node : children'[m] = children[m]
    BY <2>1, <2>2, <2>3 DEF Linkage
  <2>11. parent' \in [N -> N \cup {Nil}]
    BY <2>1, <2>4, <2>5 DEF Linkage
  <2>12. /\ parent'[n] = p
         /\ \A m \in DOMAIN node \ {n} : parent'[m] = parent[m]
    BY <2>1, <2>2, <2>4, <2>5 DEF Linkage
  <2>13. Linkage'
    BY <2>1, <2>2, <2>7, <2>8, <2>9, <2>11, Zenon DEF Linkage
  <2>14. ASSUME NEW m \in N, m \notin todo \/ m = n
         PROVE  m \in Range(roots') \/ ListedBelow(m, {})'
    <3>1. CASE m = p
      BY <2>8, <3>1
    <3>2. CASE m = n
      BY <2>1, <2>2, <2>5, <2>6, <2>10, <2>12, <3>2 DEF ListedBelow
    <3>3. CASE m # p /\ m # n
      <4>1. m \in Range(roots) \/ ListedBelow(m, {})
        BY <2>1, <2>14, <3>3 DEF LinkedSoFar
      <4>2. parent'[m] = parent[m] /\ m \in DOMAIN node
        BY <2>12, <3>3
      <4>3. QED
        BY <2>2, <2>8, <2>10, <4>1, <4>2, Zenon DEF ListedBelow
    <3>4. QED
      BY <3>1, <3>2, <3>3
  <2>15. LinkedSoFar'
    BY <2>2, <2>14, Zenon DEF LinkedSoFar
  <2>16. QED
    BY <2>1, <2>2, <2>13, <2>15 DEF BuildInv, Marking
\* With everything linked, what is not a root is listed below something.
<1>MarkRootsStep. BuildInv /\ MarkRoots => BuildInv'
  <2> SUFFICES ASSUME BuildInv, MarkRoots PROVE BuildInv'
    OBVIOUS
  <2>1. pc' = "mark" /\ Linkage /\ LinkedSoFar /\ todo = {} /\ reached = {}
    BY DEF BuildInv, MarkRoots
  <2>2. Ids' = Ids /\ UNCHANGED <<node, parent, children, roots, reached>> /\ stack' = Stacked(roots)
    BY DEF MarkRoots, links, Ids
  <2>3. stack' \in Seq(DOMAIN node) /\ Range(roots) \subseteq Range(stack')
    BY <2>1, <2>2, ReverseElements DEF Linkage
  <2>4. Linkage'
    BY <2>1, <2>2, <2>3 DEF Linkage
  <2>5. ReachedSoFar'
    BY <2>1, <2>2, <2>3 DEF LinkedSoFar, ReachedSoFar, ListedBelow
  <2>6. QED
    BY <2>1, <2>4, <2>5 DEF BuildInv, Marking
\* Reaching a node puts everything listed below it on the stack.
<1>VisitStep. BuildInv /\ Visit => BuildInv'
  <2> SUFFICES ASSUME BuildInv, Visit PROVE BuildInv'
    OBVIOUS
  <2> DEFINE x == Top(stack)
  <2>1. pc \in {"mark", "remark"} /\ pc' = pc /\ Linkage /\ ReachedSoFar /\ stack # << >>
    BY DEF BuildInv, Visit, Marking
  <2>2. /\ Ids' = Ids /\ UNCHANGED <<node, parent, children, roots>>
        /\ reached' = reached \cup {x} /\ stack' = Pop(stack) \o children[x]
    BY DEF Visit, links, Ids
  <2>3. x \in DOMAIN node
    BY <2>1, TurnElements DEF Linkage
  <2>4. /\ stack' \in Seq(DOMAIN node)
        /\ Range(stack) \ {x} \subseteq Range(stack')
        /\ Range(children[x]) \subseteq Range(stack')
    <3>1. children[x] \in Seq(DOMAIN node) /\ stack \in Seq(DOMAIN node)
      BY <2>1, <2>3 DEF Linkage
    <3>2. QED
      BY <2>1, <2>2, <3>1, TurnElements, Zenon
  <2> HIDE DEF x
  <2>5. Linkage'
    BY <2>1, <2>2, <2>4 DEF Linkage
  <2>6. ASSUME NEW n \in DOMAIN node, n \notin reached' \cup Range(stack')
        PROVE  ListedBelow(n, reached)'
    <3>1. ListedBelow(n, reached)
      BY <2>1, <2>2, <2>4, <2>6 DEF ReachedSoFar
    <3>2. parent[n] # x
      BY <2>4, <2>6, <3>1 DEF ListedBelow
    <3>3. QED
      BY <2>2, <3>1, <3>2 DEF ListedBelow
  <2>7. ReachedSoFar'
    BY <2>2, <2>6, Zenon DEF ReachedSoFar
  <2>8. QED
    BY <2>1, <2>5, <2>7 DEF BuildInv, Marking
\* The steps of breakCycles between its marks change none of it.
<1>BetweenStep. BuildInv /\ (Marked \/ Remarked \/ SkipReached) => BuildInv'
  <2> SUFFICES ASSUME BuildInv, Marked \/ Remarked \/ SkipReached PROVE BuildInv'
    OBVIOUS
  <2>1. pc \in Marking /\ Linkage /\ ReachedSoFar /\ stack = << >>
    BY DEF BuildInv, Marked, Remarked, SkipReached, Marking
  <2>2. /\ Ids' = Ids /\ UNCHANGED <<node, parent, children, roots, stack, reached>>
        /\ pc' \in {"cut", "finish"}
    BY DEF Marked, Remarked, SkipReached, links, Ids
  <2>3. Linkage'
    BY <2>1, <2>2 DEF Linkage
  <2>4. ReachedSoFar'
    BY <2>1, <2>2 DEF ReachedSoFar, ListedBelow
  <2>5. QED
    BY <2>1, <2>2, <2>3, <2>4 DEF BuildInv, Marking
\* Cutting a node off its parent leaves the others listed where they were.
<1>CutCycleStep. BuildInv /\ CutCycle => BuildInv'
  <2> SUFFICES ASSUME BuildInv, CutCycle, pc' # "panic" PROVE BuildInv'
    BY DEF BuildInv, Marking
  <2>1. pc = "cut" /\ pc' = "remark" /\ Linkage /\ ReachedSoFar /\ stack = << >>
    BY DEF BuildInv, CutCycle, Marking
  <2>2. PICK cut \in Ids : CutAt(cut)
    BY DEF CutCycle
  <2>3. Ids' = Ids /\ UNCHANGED <<node, reached>>
    BY DEF CutCycle, Ids
  <2> DEFINE p == parent[cut]
  <2>4. /\ parent' = [parent EXCEPT ![cut] = Nil]
        /\ children' = [children EXCEPT ![p] = Without(@, cut)]
        /\ roots' = Append(roots, cut) /\ stack' = <<cut>>
    BY <2>2 DEF CutAt
  <2> HIDE DEF p
  <2>5. cut \in DOMAIN node
    BY <2>1 DEF Linkage
  <2>6. \A m \in DOMAIN node : /\ Without(children[m], cut) \in Seq(DOMAIN node)
                               /\ Range(children[m]) \ {cut} \subseteq Range(Without(children[m], cut))
    BY <2>1, WithoutElements DEF Linkage
  <2>7. \A m \in DOMAIN node : children'[m] = IF m = p THEN Without(children[m], cut) ELSE children[m]
    BY <2>1, <2>4 DEF Linkage
  <2>8. children' \in [DOMAIN node -> Seq(DOMAIN node)]
    BY <2>1, <2>4, <2>6, Zenon DEF Linkage
  <2>9. stack' \in Seq(DOMAIN node) /\ Range(stack') = {cut}
    BY <2>4, <2>5, OneElement
  <2>10. roots' \in Seq(DOMAIN node)
    BY <2>1, <2>4, <2>5, AppendElements DEF Linkage
  <2>11. parent' \in [DOMAIN node -> DOMAIN node \cup {Nil}]
    BY <2>1, <2>4 DEF Linkage
  <2>12. Linkage'
    BY <2>1, <2>3, <2>8, <2>9, <2>10, <2>11 DEF Linkage
  <2>13. ASSUME NEW n \in DOMAIN node, n \notin reached, n # cut
         PROVE  ListedBelow(n, reached)'
    <3>1. ListedBelow(n, reached)
      BY <2>1, <2>13 DEF ReachedSoFar, Range
    <3>2. parent'[n] = parent[n]
      BY <2>1, <2>4, <2>13 DEF Linkage
    <3>3. n \in Range(children'[parent[n]])
      BY <2>6, <2>7, <2>13, <3>1, Zenon DEF ListedBelow
    <3>4. QED
      BY <2>3, <3>1, <3>2, <3>3 DEF ListedBelow
  <2>14. ReachedSoFar'
    BY <2>3, <2>9, <2>13 DEF ReachedSoFar
  <2>15. QED
    BY <2>1, <2>12, <2>14 DEF BuildInv, Marking
<1> SUFFICES ASSUME BuildInv, [Next]_vars PROVE BuildInv'
  OBVIOUS
<1>1. CASE UNCHANGED vars
  BY <1>1, Zenon DEF vars, links, BuildInv, Linkage, LinkedSoFar, ReachedSoFar, ListedBelow, Ids
<1>2. CASE Refuse \/ CutsDone \/ Finish
  BY <1>2 DEF Refuse, CutsDone, Finish, BuildInv, Marking
<1>3. CASE Link
  BY <1>3, <1>LinkRootStep, <1>LinkKnownStep, <1>LinkMissingStep DEF Link
<1>4. CASE Collect \/ MarkRoots \/ Visit \/ Marked \/ Remarked \/ SkipReached \/ CutCycle
  BY <1>4, <1>CollectStep, <1>MarkRootsStep, <1>VisitStep, <1>BetweenStep, <1>CutCycleStep
<1>5. QED
  BY <1>1, <1>2, <1>3, <1>4 DEF Next, BreakCycles

\* With nothing on the stack, a stranded node's parent is stranded.
LEMMA StrandedAbove == BuildInv => StrandedParentIsStranded
<1> SUFFICES ASSUME BuildInv, pc = "cut", NEW n \in Ids \ reached
             PROVE  parent[n] \in Ids \ reached
  BY DEF StrandedParentIsStranded
<1>1. Linkage /\ ReachedSoFar /\ Range(stack) = {}
  BY DEF BuildInv, Marking, Range
<1>2. ListedBelow(n, reached)
  BY <1>1 DEF ReachedSoFar, Linkage
<1>3. parent[n] \in Ids
  BY <1>1, <1>2 DEF ReachedSoFar, ListedBelow
<1> QED
  BY <1>2, <1>3 DEF ListedBelow

\* Whatever the spans and in whatever order they are linked, breakCycles looks
\* for a loop only where every parent of a stranded node is stranded too.
THEOREM StrandedParentIsStrandedAlways == Spec => []StrandedParentIsStranded
<1>1. Init => BuildInv
  BY DEF Init, BuildInv, Marking
<1>2. QED
  BY <1>1, StrandedAbove, BuildInductive, PTL DEF Spec

(***************************************************************************)
(* Walks up a finite set.  A walk takes x to g[x] at every step; a set is  *)
(* closed if no walk leaves it.                                            *)
(***************************************************************************)

Steps(g, u, N) == \A i \in 1..N : u[i] = g[u[i - 1]]
Visited(u, a, b) == {u[i] : i \in a..b}

\* And one that is bounded has a greatest.
LEMMA GreatestExists ==
  ASSUME NEW N \in Nat, NEW T \in SUBSET 0..N, T # {}
  PROVE  \E m \in T : \A k \in T : k <= m
<1> DEFINE S == {x \in 0..N : N - x \in T}
<1>1. S \in SUBSET Nat
  OBVIOUS
<1>2. PICK y \in T : TRUE
  BY Zenon
<1>3. y \in 0..N
  BY <1>2
<1>4. N - y \in 0..N /\ N - (N - y) = y
  BY <1>3
<1>5. S # {}
  BY <1>2, <1>4, Zenon
<1>6. PICK m \in S : \A k \in S : m <= k
  <2> HIDE DEF S
  <2> QED
    BY <1>1, <1>5, LeastExists
<1>7. m \in 0..N /\ N - m \in T
  OBVIOUS
<1>8. ASSUME NEW k \in T PROVE k <= N - m
  <2>1. k \in 0..N
    OBVIOUS
  <2>2. N - k \in 0..N /\ N - (N - k) = k
    BY <2>1
  <2>3. N - k \in S
    BY <2>2
  <2>4. m <= N - k
    BY <1>6, <2>3, Zenon
  <2> QED
    BY <1>7, <2>1, <2>4
<1> QED
  BY <1>7, <1>8

\* There is a walk of every length from every place.
LEMMA WalkExists ==
  ASSUME NEW X, NEW g \in [X -> X], NEW n \in X, NEW N \in Nat
  PROVE  \E u \in [0..N -> X] : u[0] = n /\ Steps(g, u, N)
<1> DEFINE step == [i \in 1..N |-> g]
<1>1. Keeps(step, N, X)
  BY DEF Keeps
<1>2. PICK u : IsRun(u, step, N, X, n)
  <2> HIDE DEF step
  <2> QED
    BY <1>1, LoopExists
<1>3. u \in [0..N -> X] /\ u[0] = n /\ Steps(g, u, N)
  BY <1>2 DEF IsRun, Steps
<1> QED
  BY <1>3

\* A walk that is in a closed set stays there.
LEMMA StaysInside ==
  ASSUME NEW g, NEW L, Closed(g, L), NEW N \in Nat, NEW u, Steps(g, u, N),
         NEW a \in 0..N, u[a] \in L
  PROVE  \A i \in a..N : u[i] \in L
<1> DEFINE T == {i \in a..N : u[i] \notin L}
<1> SUFFICES ASSUME T # {} PROVE FALSE
  OBVIOUS
<1>1. PICK m \in T : \A k \in T : m <= k
  <2>1. T \in SUBSET Nat
    OBVIOUS
  <2> HIDE DEF T
  <2> QED
    BY <2>1, LeastExists
<1>2. m \in a..N /\ u[m] \notin L
  OBVIOUS
<1>3. m # a
  BY <1>2
<1>4. m - 1 \in a..N /\ ~(m <= m - 1) /\ m \in 1..N
  BY <1>2, <1>3
<1>5. u[m - 1] \in L
  <2>1. m - 1 \notin T
    <3> HIDE DEF T
    <3> QED
      BY <1>1, <1>4
  <2> QED
    BY <1>4, <2>1
<1>6. u[m] = g[u[m - 1]]
  BY <1>4 DEF Steps
<1> QED
  BY <1>2, <1>5, <1>6 DEF Closed

\* Two walks from the same place agree.
LEMMA SameWalk ==
  ASSUME NEW g, NEW N \in Nat, NEW u, Steps(g, u, N), NEW M \in Nat, NEW v, Steps(g, v, M),
         NEW j \in 0..N, NEW k \in 0..M, u[j] = v[k]
  PROVE  \A s \in Nat : j + s <= N /\ k + s <= M => u[j + s] = v[k + s]
<1> DEFINE T == {s \in Nat : j + s <= N /\ k + s <= M /\ u[j + s] # v[k + s]}
<1> SUFFICES ASSUME T # {} PROVE FALSE
  BY Zenon
<1>1. PICK m \in T : \A s \in T : m <= s
  <2>1. T \in SUBSET Nat
    OBVIOUS
  <2> HIDE DEF T
  <2> QED
    BY <2>1, LeastExists
<1>2. m \in Nat /\ j + m <= N /\ k + m <= M /\ u[j + m] # v[k + m]
  OBVIOUS
<1>3. m # 0
  BY <1>2
<1> DEFINE p == m - 1
<1>4. p \in Nat /\ j + p <= N /\ k + p <= M /\ ~(m <= p)
  BY <1>2, <1>3
<1>5. u[j + p] = v[k + p]
  <2>1. p \notin T
    <3> HIDE DEF T, p
    <3> QED
      BY <1>1, <1>4
  <2> HIDE DEF p
  <2> QED
    BY <1>4, <2>1
<1>6. /\ j + m \in 1..N /\ k + m \in 1..M
      /\ (j + m) - 1 = j + p /\ (k + m) - 1 = k + p
  BY <1>2, <1>3
<1>7. u[j + m] = g[u[j + p]] /\ v[k + m] = g[v[k + p]]
  BY <1>6 DEF Steps
<1> QED
  BY <1>2, <1>5, <1>7

\* A walk inside a finite set comes back to a place within as many steps as
\* the set has elements.
LEMMA WalkRepeats ==
  ASSUME NEW g, NEW L, IsFiniteSet(L), Closed(g, L), NEW N \in Nat, NEW u, Steps(g, u, N),
         u[0] \in L, Cardinality(L) <= N
  PROVE  \E i, j \in 0..Cardinality(L) : i < j /\ u[i] = u[j]
<1> DEFINE c == Cardinality(L)
           w == [i \in 0..c |-> u[i]]
<1>1. c \in Nat
  BY FS_CardinalityType
<1>2. \A i \in 0..N : u[i] \in L
  BY StaysInside
<1>3. \A i \in 0..c : i \in 0..N
  BY <1>1
<1>4. w \in [0..c -> L]
  BY <1>2, <1>3
<1>5. IsFiniteSet(0..c) /\ Cardinality(0..c) = c + 1
  BY <1>1, FS_Interval
<1> HIDE DEF c
<1>6. Cardinality(L) < Cardinality(0..c)
  BY <1>1, <1>5 DEF c
<1> DEFINE D == 0..c
<1> HIDE DEF D, w
<1>7. PICK x, y \in D : x # y /\ w[x] = w[y]
  BY <1>4, <1>5, <1>6, FS_PigeonHole, Zenon DEF D
<1>8. x \in 0..c /\ y \in 0..c /\ u[x] = u[y] /\ (x < y \/ y < x)
  BY <1>1, <1>7 DEF D, w
<1> QED
  BY <1>8 DEF c

\* A walk that repeats goes round: after its end it is where it was as long
\* after the first of two equal places as its end is after the second.
LEMMA WalkReturns ==
  ASSUME NEW g, NEW N \in Nat, NEW u, Steps(g, u, N),
         NEW j \in 0..N, NEW k \in 0..N, j < k, u[j] = u[k]
  PROVE  g[u[N]] = u[j + (N - k) + 1]
<1> DEFINE s == N - k
<1>1. /\ s \in Nat /\ j + s <= N /\ k + s <= N /\ k + s = N
      /\ j + s + 1 \in 1..N /\ (j + s + 1) - 1 = j + s
  OBVIOUS
<1> HIDE DEF s
<1>2. u[j + s] = u[N]
  <2>1. \A t \in Nat : j + t <= N /\ k + t <= N => u[j + t] = u[k + t]
    BY SameWalk
  <2> QED
    BY <1>1, <2>1
<1>3. u[j + s + 1] = g[u[j + s]]
  BY <1>1 DEF Steps
<1> QED
  BY <1>2, <1>3 DEF s

\* So the places it has from a on are closed, if it repeats late enough.
LEMMA WalkCloses ==
  ASSUME NEW g, NEW N \in Nat, NEW u, Steps(g, u, N),
         NEW j \in 0..N, NEW k \in 0..N, j < k, u[j] = u[k],
         NEW a \in 0..N, a <= j + (N - k) + 1
  PROVE  Closed(g, Visited(u, a, N))
<1> DEFINE b == j + (N - k) + 1
<1>1. g[u[N]] = u[b]
  BY WalkReturns
<1>2. b \in a..N
  OBVIOUS
<1> HIDE DEF b
<1>3. ASSUME NEW i \in a..N PROVE \E m \in a..N : g[u[i]] = u[m]
  <2>1. CASE i = N
    BY <1>1, <1>2, <2>1
  <2>2. CASE i # N
    <3>1. i + 1 \in a..N /\ i + 1 \in 1..N /\ (i + 1) - 1 = i
      BY <2>2
    <3>2. u[i + 1] = g[u[i]]
      BY <3>1 DEF Steps
    <3> QED
      BY <3>1, <3>2
  <2> QED
    BY <2>1, <2>2
<1> QED
  BY <1>3 DEF Closed, Visited

\* A function that makes a step wherever it is in the set is a walk.
LEMMA StepwiseIsWalk ==
  ASSUME NEW X, NEW g \in [X -> X], NEW N \in Nat, NEW u, u = [i \in 0..N |-> u[i]], u[0] \in X,
         \A i \in 1..N : u[i - 1] \in X => u[i] = g[u[i - 1]]
  PROVE  u \in [0..N -> X] /\ Steps(g, u, N)
<1>1. \A i \in 0..N : u[i] \in X
  <2> DEFINE T == {i \in 0..N : u[i] \notin X}
  <2> SUFFICES ASSUME T # {} PROVE FALSE
    OBVIOUS
  <2>1. PICK m \in T : \A k \in T : m <= k
    <3>1. T \in SUBSET Nat
      OBVIOUS
    <3> HIDE DEF T
    <3> QED
      BY <3>1, LeastExists
  <2>2. m \in 0..N /\ u[m] \notin X /\ m # 0
    OBVIOUS
  <2>3. m - 1 \in 0..N /\ ~(m <= m - 1) /\ m \in 1..N
    BY <2>2
  <2>4. u[m - 1] \in X
    <3>1. m - 1 \notin T
      <4> HIDE DEF T
      <4> QED
        BY <2>1, <2>3
    <3> QED
      BY <2>3, <3>1
  <2> QED
    BY <2>2, <2>3, <2>4, Zenon
<1>2. u \in [0..N -> X]
  BY <1>1
<1>3. \A i \in 1..N : i - 1 \in 0..N
  OBVIOUS
<1> QED
  BY <1>1, <1>2, <1>3 DEF Steps

(***************************************************************************)
(* The spans, and the loops in the parents they name.                      *)
(***************************************************************************)

Named(n) == LastOf(n).parent
Places == Ids \cup {Named(n) : n \in Ids} \cup {Nil}
Upward == [x \in Places |-> IF x \in Ids THEN Named(x) ELSE Nil]

\* A loop: spans whose named parents are among them, with no smaller such set
\* in it.
IsLoop(L) ==
  /\ L # {} /\ L \subseteq Ids /\ Closed(Upward, L)
  /\ \A V \in SUBSET L : V # {} /\ Closed(Upward, V) => V = L

\* The copy of a span that survives is one of those that arrived.
LEMMA LastOfArrived ==
  ASSUME input \in Inputs, NEW n \in Ids
  PROVE  \E i \in DOMAIN input : LastOf(n) = input[i]
<1> DEFINE N == Len(input)
           S == DOMAIN input
           T == {i \in 1..N : input[i].id = n}
           IsLast(i) == input[i].id = n /\ \A j \in (i + 1)..N : input[j].id # n
<1>1. N \in Nat /\ S = 1..N
  BY AssemblyAssumption, SeqLen
<1> HIDE DEF N, S
<1>2. Ids = {input[i].id : i \in S}
  BY DEF Ids, S
<1>3. T # {} /\ T \in SUBSET 0..N
  BY <1>1, <1>2
<1>4. PICK i \in T : \A j \in T : j <= i
  <2> HIDE DEF T
  <2> QED
    BY <1>1, <1>3, GreatestExists, Zenon
<1>5. i \in S /\ input[i].id = n
  BY <1>1
<1>6. ASSUME NEW j \in (i + 1)..N PROVE input[j].id # n
  <2>1. j \in 1..N /\ ~(j <= i)
    BY <1>1, <1>5
  <2>2. j \notin T
    <3> HIDE DEF T
    <3> QED
      BY <1>4, <2>1
  <2> QED
    BY <2>1, <2>2
<1>7. \E k \in S : IsLast(k)
  BY <1>5, <1>6
<1> DEFINE k == CHOOSE k \in S : IsLast(k)
<1>8. k \in S
  BY <1>7
<1>9. LastOf(n) = input[k]
  BY DEF LastOf, S, N
<1> HIDE DEF k
<1> QED
  BY <1>8, <1>9 DEF S

\* What is known of the spans of a slice, and of the copy that survives.
LEMMA SpansAreTyped ==
  ASSUME input \in Inputs
  PROVE  /\ IsFiniteSet(Ids) /\ Ids \subseteq Nat \ {Nil}
         /\ \A n \in Ids : LastOf(n) \in Span /\ Named(n) \in Nat
<1> DEFINE N == Len(input)
           S == DOMAIN input
<1>1. input \in Seq(Span)
  BY AssemblyAssumption
<1>2. N \in Nat /\ S = 1..N /\ \A i \in S : input[i] \in Span
  BY <1>1, SeqLen, SeqElement
<1> HIDE DEF N, S
<1>3. Ids = {input[i].id : i \in S}
  BY DEF Ids, S
<1>4. Ids \subseteq Nat \ {Nil}
  BY <1>2, <1>3 DEF Span
<1>5. IsFiniteSet(Ids)
  <2> DEFINE f == [i \in S |-> input[i].id]
  <2>1. f \in Surjection(S, Ids)
    BY <1>3 DEF Surjection
  <2>2. IsFiniteSet(S)
    BY <1>2, FS_Interval
  <2> HIDE DEF f
  <2> QED
    BY <2>1, <2>2, FS_Surjection
<1>6. ASSUME NEW n \in Ids PROVE LastOf(n) \in Span
  <2>1. PICK i \in DOMAIN input : LastOf(n) = input[i]
    BY LastOfArrived
  <2> QED
    BY <1>2, <2>1 DEF S
<1> QED
  BY <1>4, <1>5, <1>6 DEF Named, Span

\* Where the named parents lead.
LEMMA UpwardIsTyped ==
  ASSUME input \in Inputs
  PROVE  /\ Upward \in [Places -> Places] /\ Ids \subseteq Places
         /\ \A n \in Ids : Upward[n] = Named(n)
         /\ \A x \in Places \ Ids : Upward[x] = Nil
         /\ Nil \in Places /\ Nil \notin Ids
  BY SpansAreTyped DEF Upward, Places

\* Above collects the places of a walk as long as there are spans.
LEMMA AboveIsWalked ==
  ASSUME input \in Inputs, NEW n \in Places
  PROVE  \E u \in [0..Cardinality(Ids) -> Places] :
           /\ u[0] = n /\ Steps(Upward, u, Cardinality(Ids))
           /\ Above(n) = {u[i] : i \in 1..Cardinality(Ids)} \ {Nil}
<1> DEFINE N == Cardinality(Ids)
           up[i \in 0..N] == IF i = 0 THEN n ELSE IF up[i - 1] \in Ids THEN LastOf(up[i - 1]).parent ELSE Nil
           Turn(h) == [i \in 0..N |-> IF i = 0 THEN n ELSE IF h[i - 1] \in Ids THEN LastOf(h[i - 1]).parent ELSE Nil]
<1>1. Above(n) = {up[i] : i \in 1..N} \ {Nil}
  BY DEF Above
<1>2. up = CHOOSE h : h = Turn(h)
  BY DEF up
<1>3. N \in Nat
  BY SpansAreTyped, FS_CardinalityType
<1> HIDE DEF N
<1>4. PICK w \in [0..N -> Places] : w[0] = n /\ Steps(Upward, w, N)
  BY <1>3, UpwardIsTyped, WalkExists
<1>5. ASSUME NEW i \in 1..N, NEW h, h[i - 1] \in Places
      PROVE  Upward[h[i - 1]] = IF h[i - 1] \in Ids THEN LastOf(h[i - 1]).parent ELSE Nil
  BY <1>5 DEF Upward, Named
<1>6. w = Turn(w)
  <2>1. ASSUME NEW i \in 0..N PROVE w[i] = Turn(w)[i]
    <3>1. CASE i = 0
      BY <1>4, <3>1
    <3>2. CASE i # 0
      <4>1. i \in 1..N /\ i - 1 \in 0..N
        BY <1>3, <3>2
      <4>2. w[i] = Upward[w[i - 1]] /\ w[i - 1] \in Places
        BY <1>4, <4>1 DEF Steps
      <4>3. w[i] = IF w[i - 1] \in Ids THEN LastOf(w[i - 1]).parent ELSE Nil
        BY <1>5, <4>1, <4>2, Zenon
      <4> QED
        BY <3>2, <4>3
    <3> QED
      BY <3>1, <3>2
  <2> QED
    BY <1>4, <2>1
<1>7. up = Turn(up)
  BY <1>2, <1>6, Zenon
<1> HIDE DEF up
<1>8. up = [i \in 0..N |-> up[i]] /\ up[0] = n
  BY <1>3, <1>7
<1>9. ASSUME NEW i \in 1..N, up[i - 1] \in Places PROVE up[i] = Upward[up[i - 1]]
  <2>1. i \in 0..N /\ i # 0
    OBVIOUS
  <2>2. up[i] = IF up[i - 1] \in Ids THEN LastOf(up[i - 1]).parent ELSE Nil
    BY <1>7, <2>1, Zenon
  <2> QED
    BY <1>5, <1>9, <2>2
<1>10. up \in [0..N -> Places] /\ Steps(Upward, up, N)
  BY <1>3, <1>8, <1>9, UpwardIsTyped, StepwiseIsWalk, Zenon
<1> QED
  BY <1>1, <1>8, <1>10, Zenon DEF N

\* From a span in a closed set of spans, Above is a closed part of it.
LEMMA AboveIsClosed ==
  ASSUME input \in Inputs, NEW L \in SUBSET Ids, Closed(Upward, L), NEW n \in L
  PROVE  Above(n) # {} /\ Above(n) \subseteq L /\ Closed(Upward, Above(n))
<1> DEFINE N == Cardinality(Ids)
           c == Cardinality(L)
<1>1. IsFiniteSet(Ids) /\ n \in Places /\ n \in Ids /\ Nil \notin L
  BY SpansAreTyped, UpwardIsTyped
<1>2. N \in Nat /\ IsFiniteSet(L) /\ c \in Nat /\ c <= N
  BY <1>1, FS_CardinalityType, FS_Subset
<1>3. N # 0
  BY <1>1, FS_EmptySet
<1>4. PICK u \in [0..N -> Places] : /\ u[0] = n /\ Steps(Upward, u, N)
                                    /\ Above(n) = {u[i] : i \in 1..N} \ {Nil}
  BY <1>1, AboveIsWalked
<1> HIDE DEF N
<1>5. \A i \in 0..N : u[i] \in L
  BY <1>2, <1>4, StaysInside
<1>6. Above(n) = {u[i] : i \in 1..N} /\ 1 \in 1..N
  BY <1>1, <1>2, <1>3, <1>4, <1>5
<1>7. PICK j, k \in 0..c : j < k /\ u[j] = u[k]
  <2> HIDE DEF c
  <2>1. u[0] \in L
    BY <1>4
  <2> QED
    BY <1>2, <1>4, <2>1, WalkRepeats DEF c
<1>8. j \in 0..N /\ k \in 0..N /\ 1 \in 0..N /\ 1 <= j + (N - k) + 1
  BY <1>2, <1>3, <1>7
<1>9. Closed(Upward, Visited(u, 1, N))
  BY <1>2, <1>4, <1>7, <1>8, WalkCloses
<1> QED
  BY <1>2, <1>5, <1>6, <1>9 DEF Visited
=============================================================================
