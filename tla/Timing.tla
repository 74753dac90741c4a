------------------------------- MODULE Timing -------------------------------
(***************************************************************************)
(* CriticalPath of internal/assembly, a function of a finished tree: the   *)
(* state of Assembly once Build is done.                                   *)
(***************************************************************************)
EXTENDS OwnTime

Segment == [node : DOMAIN node, start : Int, end : Int]

\* Mutant of appendSegment: nothing is merged.
appendSegmentAlways(path, n, s, e) ==
  IF e <= s THEN path ELSE Append(path, [node |-> n, start |-> s, end |-> e])

\* appendSegment: latest first, merged with the last one if the node goes on.
appendSegment(path, n, s, e) ==
  IF e <= s THEN path
  ELSE IF path # << >> /\ path[Len(path)].node = n /\ path[Len(path)].start = e
  THEN [path EXCEPT ![Len(path)].start = s]
  ELSE Append(path, [node |-> n, start |-> s, end |-> e])

\* Mutant of LastFirst: the children in start order.
LastFirstByStart(n) == [i \in DOMAIN children[n] |-> children[n][Len(children[n]) + 1 - i]]

\* The children in the order they finished, last first.
EndsLater(a, b) == node[a].end > node[b].end \/ (node[a].end = node[b].end /\ ByStart(node, b, a))
LastFirst(n) ==
  LET cs == children[n] IN SortBy({p \in Range(cs) \X Range(cs) : EndsLater(p[1], p[2])}, cs)

\* One turn of criticalPath's loop, on being FALSE after its break.  walk is
\* what criticalPath makes of the children.
Follow(walk, n, floor, acc, c) ==
  LET end == earlier(node[c].end, acc.cursor)
  IN IF ~acc.on THEN acc
     ELSE IF end <= floor THEN [acc EXCEPT !.on = FALSE]
     ELSE IF node[c].start >= acc.cursor THEN acc
     ELSE [cursor |-> later(node[c].start, floor), on |-> TRUE,
           path |-> walk[c][[floor |-> floor, ceiling |-> end,
                             path |-> appendSegment(acc.path, n, end, acc.cursor)]]]

\* criticalPath.
Call == [floor : Int, ceiling : Int, path : Seq(Segment)]
criticalPath(walk, n, call) ==
  LET floor == later(call.floor, node[n].start)
      cs == LastFirst(n)
      after[i \in 0..Len(cs)] ==
        IF i = 0 THEN [cursor |-> earlier(call.ceiling, node[n].end), on |-> TRUE, path |-> call.path]
        ELSE Follow(walk, n, floor, after[i - 1], cs[i])
  IN appendSegment(after[Len(cs)].path, n, floor, after[Len(cs)].cursor)

\* CriticalPath: the walk recurses over the children and runs backwards.
CriticalPath(n) ==
  LET walk[m \in DOMAIN node] == [call \in Call |-> criticalPath(walk, m, call)]
      path == walk[n][[floor |-> node[n].start, ceiling |-> node[n].end, path |-> << >>]]
  IN [i \in DOMAIN path |-> path[Len(path) + 1 - i]]

(***************************************************************************)
(* Properties.                                                             *)
(***************************************************************************)

\* The critical path of a span covers it exactly once: its segments follow one
\* another from its start to its end, each within the span it is spent in and
\* none of them to be merged with the next.
PathCoversOnce ==
  pc = "done" => \A n \in DOMAIN node :
    LET path == CriticalPath(n)
    IN /\ (path = << >>) <=> (node[n].start = node[n].end)
       /\ path # << >> => path[1].start = node[n].start /\ path[Len(path)].end = node[n].end
       /\ \A i \in DOMAIN path :
            /\ path[i].start < path[i].end
            /\ node[path[i].node].start <= path[i].start /\ path[i].end <= node[path[i].node].end
            /\ i > 1 => path[i - 1].end = path[i].start /\ path[i - 1].node # path[i].node

\* The time a path spends in a node itself.
TimeIn(path, n) ==
  LET spent[i \in 0..Len(path)] ==
        IF i = 0 THEN 0
        ELSE IF path[i].node = n THEN spent[i - 1] + (path[i].end - path[i].start) ELSE spent[i - 1]
  IN spent[Len(path)]

\* What the critical path of a span leaves to the span itself is its self
\* time, although one is found going backwards by end and the other going
\* forwards by start.
PathAgreesWithSelfTime == pc = "done" => \A n \in Ids : SelfTime(n) = TimeIn(CriticalPath(n), n)
=============================================================================
