----------------------------- MODULE MCAssembly -----------------------------
(***************************************************************************)
(* Slices of spans for TLC to assemble.  Each span is of its own service;  *)
(* spans 5 and 6 are named as parents and never arrive.                    *)
(***************************************************************************)
EXTENDS Timing, Policy

SpanOf(id, p, s, e) ==
  [id |-> id, trace |-> 1, parent |-> p, start |-> s, end |-> e, failed |-> FALSE, service |-> id]

NoSelf(f) == \A i \in DOMAIN f : f[i] # i

\* Every way three spans can name their parents, starting together or not.
Links3 == {[i \in 1..3 |-> SpanOf(i, p[i], s[i], 2 + (i % 2))] :
             p \in {q \in [1..3 -> {0, 1, 2, 3, 5}] : NoSelf(q)}, s \in [1..3 -> 1..2]}

\* The same in a trace that is sampled out, with a span that failed.
Failed3 == {[i \in 1..3 |-> [SpanOf(i, p[i], 1, 2) EXCEPT !.trace = 3, !.failed = (i = 2)]] :
             p \in {q \in [1..3 -> {0, 1, 2, 3, 5}] : NoSelf(q)}}

\* Every way four spans can name their parents.
Links4 == {[i \in 1..4 |-> SpanOf(i, p[i], s[i], 3)] :
             p \in {q \in [1..4 -> 0..6] : NoSelf(q)}, s \in {<<1, 1, 1, 1>>, <<3, 2, 3, 1>>}}

\* A resent span that names another parent, the empty slice and mixed traces.
Odd == {<< >>, <<SpanOf(1, 0, 1, 2), [SpanOf(2, 1, 1, 2) EXCEPT !.trace = 2]>>}
  \cup {<<SpanOf(1, p, 1, 2), SpanOf(2, q, 2, 3), [SpanOf(1, r, 2, 2) EXCEPT !.failed = TRUE]>> :
          p \in {0, 2, 5}, q \in {0, 1, 5}, r \in {0, 2, 5}}

\* A root with two children, a child and a grandchild, or a child and a span
\* whose parent is missing, running at any time before, during and after it.
Intervals == {v \in (0..4) \X (0..4) : v[1] <= v[2]}
Timed3 == {<<SpanOf(1, 0, 1, 3), SpanOf(2, 1, v[1], v[2]), SpanOf(3, p, w[1], w[2])>> :
             p \in {1, 2, 5}, v \in Intervals, w \in Intervals}

\* A root with three children.
Short == {v \in (1..3) \X (1..3) : v[1] <= v[2]}
Timed4 == {<<SpanOf(1, 0, 1, 3), SpanOf(2, 1, u[1], u[2]), SpanOf(3, 1, v[1], v[2]),
             SpanOf(4, 1, w[1], w[2])>> : u \in Short, v \in Short, w \in Short}

Slices == Links3 \cup Failed3 \cup Links4 \cup Odd \cup Timed3 \cup Timed4
=============================================================================
