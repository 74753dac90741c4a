------------------------------ MODULE TreeWalk ------------------------------
(***************************************************************************)
(* Tree.Walk of internal/assembly, a function of a finished tree: the      *)
(* state of Assembly once Build is done.                                   *)
(***************************************************************************)
EXTENDS Assembly

\* What a loop over the sequences q appends, one after another.
InTurn(q) == LET after[i \in 0..Len(q)] == IF i = 0 THEN << >> ELSE after[i - 1] \o q[i] IN after[Len(q)]

\* Walk: the nodes in the order it visits them, each before its children.
Walk ==
  LET walk[n \in DOMAIN node] == <<n>> \o InTurn([i \in DOMAIN children[n] |-> walk[children[n][i]]])
  IN InTurn([i \in DOMAIN roots |-> walk[roots[i]]])

\* Walk visits every node exactly once, parents before their children.
WalkVisitsAllOnce ==
  pc = "done" =>
    /\ Range(Walk) = DOMAIN node /\ Len(Walk) = Cardinality(DOMAIN node)
    /\ \A i, j \in DOMAIN Walk : parent[Walk[j]] = Walk[i] => i < j
=============================================================================
