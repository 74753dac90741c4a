------------------------------ MODULE MCMemory ------------------------------
(***************************************************************************)
(* Instances of Memory for TLC.  Minutes are two clock values and the time *)
(* index is widened by one.  Trace 1 has a span whose two copies differ in *)
(* everything that is indexed; trace 2 has two roots.                      *)
(***************************************************************************)
EXTENDS Memory, TLC

S(t, i, root, v, n, from, to) ==
  [trace |-> t, id |-> i, root |-> root, service |-> v, name |-> n, start |-> from, end |-> to]

Spans == {
  S(1, 1, FALSE, "a", "x", 2, 2), S(1, 1, FALSE, "b", "y", 3, 5), S(1, 2, TRUE, "a", "y", 4, 4),
  S(1, 3, FALSE, "b", "x", 2, 3),
  S(2, 1, TRUE, "b", "x", 4, 5), S(2, 2, TRUE, "a", "x", 5, 5)}

\* Each index is used: by operation, service, minute and duration, and none.
Search(v, n, min, max, from, to, l) ==
  [service |-> v, operation |-> n, min |-> min, max |-> max, start |-> from, end |-> to, limit |-> l]
Searches ==
  {Search("b", "x", 0, 0, 0, 0, 0), Search("b", "y", 2, 0, 3, 0, 2), Search(Unset, "x", 0, 0, 0, 0, 0),
   Search("a", Unset, 0, 0, 0, 0, 2), Search("b", Unset, 1, 1, 3, 5, 2), Search("a", Unset, 0, 0, 6, 7, 1),
   Search(Unset, Unset, 1, 0, 0, 0, 2), Search(Unset, Unset, 2, 0, 0, 4, 2), Search(Unset, Unset, 0, 0, 0, 0, 0)} \cup
  {Search(Unset, Unset, d, 0, from, to, 2) : d \in {0, 1}, from \in 2..6, to \in 3..7}
=============================================================================
