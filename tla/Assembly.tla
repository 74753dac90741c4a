------------------------------ MODULE Assembly ------------------------------
(***************************************************************************)
(* Build of internal/assembly: the spans of one trace become a tree.  The  *)
(* loop over the map of nodes runs in any order, so linking takes any node *)
(* next; everything after it is sequential.  A step of Visit is one turn   *)
(* of mark's loop, which keeps no record of where it has been and ends     *)
(* only because what it walks is a tree.                                   *)
(*                                                                         *)
(* A node is known by its span id: a placeholder has the id of a span that *)
(* did not arrive.  Nil is the absent parent, the zero span id.            *)
(***************************************************************************)
EXTENDS Integers, Sequences, FiniteSetsExt

CONSTANT Inputs   \* the slices of spans Build may be called with

Nil == 0

Span == [id : Nat \ {Nil}, trace : Nat, parent : Nat, start : Int, end : Int,
         failed : BOOLEAN, service : Nat]

\* Build is given spans that have passed Validate: no span id is zero.
ASSUME AssemblyAssumption == Inputs \subseteq Seq(Span)

VARIABLES
  input,
  pc,         \* where Build is; "done", "error" and "panic" are its ends
  node,       \* t.nodes and placeholders: the span of each node
  todo,       \* the nodes the linking loop has yet to visit
  parent,     \* Node.Parent
  children,   \* Node.Children
  roots, missing, cycles,   \* the slices of Tree
  stack,      \* mark's local stack
  reached,    \* breakCycles' reached
  stranded    \* what is left of breakCycles' stranded

links == <<node, parent, children, missing>>
vars == <<input, pc, links, todo, roots, cycles, stack, reached, stranded>>

Init ==
  /\ input \in Inputs
  /\ pc = "collect"
  /\ node = << >> /\ parent = << >> /\ children = << >>
  /\ todo = {} /\ roots = << >> /\ missing = << >> /\ cycles = << >>
  /\ stack = << >> /\ reached = {} /\ stranded = << >>

\* t.nodes: the ids that arrived.
Ids == {input[i].id : i \in DOMAIN input}
With(f, x, y) == [z \in DOMAIN f \cup {x} |-> IF z = x THEN y ELSE f[z]]

\* byStart(a, b) < 0, by the spans nd gives the nodes.
ByStart(nd, a, b) == nd[a].start < nd[b].start \/ (nd[a].start = nd[b].start /\ a < b)

\* slices.SortFunc, R saying what comes before what: each node has as many
\* before it as its place asks for.
SortBy(R, s) ==
  LET Before(i) == {j \in DOMAIN s : <<s[j], s[i]>> \in R \/ (s[j] = s[i] /\ j < i)}
  IN [k \in DOMAIN s |-> s[CHOOSE i \in DOMAIN s : Cardinality(Before(i)) = k - 1]]
SortNodes(nd, s) == SortBy({p \in Range(s) \X Range(s) : ByStart(nd, p[1], p[2])}, s)
Sorted(nd, ns) == SortNodes(nd, CHOOSE s \in [1..Cardinality(ns) -> ns] : IsInjective(s))

\* The copy of a span that survives in the map.
LastOf(id) == input[CHOOSE i \in DOMAIN input :
                      input[i].id = id /\ \A j \in (i + 1)..Len(input) : input[j].id # id]

Collect ==
  /\ pc = "collect"
  /\ input # << >> /\ \A i \in DOMAIN input : input[i].trace = input[1].trace
  /\ pc' = "link"
  /\ node' = [id \in Ids |-> LastOf(id)]
  /\ todo' = Ids
  /\ parent' = [id \in Ids |-> Nil]
  /\ children' = [id \in Ids |-> << >>]
  /\ UNCHANGED <<input, missing, roots, cycles, stack, reached, stranded>>

\* ErrNoSpans and ErrMixedTraces.
Refuse ==
  /\ pc = "collect"
  /\ input = << >> \/ \E i \in DOMAIN input : input[i].trace # input[1].trace
  /\ pc' = "error"
  /\ UNCHANGED <<input, links, todo, roots, cycles, stack, reached, stranded>>

Linking(n) == pc = "link" /\ n \in todo /\ todo' = todo \ {n}

LinkRoot(n) ==
  /\ Linking(n)
  /\ node[n].parent = Nil
  /\ roots' = Append(roots, n)
  /\ UNCHANGED <<input, pc, links, cycles, stack, reached, stranded>>

\* The parent arrived, or has its placeholder already.
LinkKnown(n) ==
  LET p == node[n].parent
  IN /\ Linking(n)
     /\ p # Nil /\ p \in DOMAIN node
     /\ parent' = [parent EXCEPT ![n] = p]
     /\ children' = [children EXCEPT ![p] = Append(@, n)]
     /\ UNCHANGED <<input, pc, node, missing, roots, cycles, stack, reached, stranded>>

\* Mutant of LinkMissing: a placeholder is not added to the roots.
LinkMissingNoRoot(n) ==
  LET p == node[n].parent
  IN /\ Linking(n)
     /\ p # Nil /\ p \notin DOMAIN node
     /\ node' = With(node, p, [id |-> p, trace |-> node[n].trace, parent |-> Nil,
                               start |-> 0, end |-> 0, failed |-> FALSE, service |-> 0])
     /\ parent' = With([parent EXCEPT ![n] = p], p, Nil)
     /\ children' = With(children, p, <<n>>)
     /\ missing' = Append(missing, p)
     /\ UNCHANGED <<input, pc, roots, cycles, stack, reached, stranded>>

\* The first child of a missing parent makes its placeholder, a root.
LinkMissing(n) ==
  LET p == node[n].parent
  IN /\ Linking(n)
     /\ p # Nil /\ p \notin DOMAIN node
     /\ node' = With(node, p, [id |-> p, trace |-> node[n].trace, parent |-> Nil,
                               start |-> 0, end |-> 0, failed |-> FALSE, service |-> 0])
     /\ parent' = With([parent EXCEPT ![n] = p], p, Nil)
     /\ children' = With(children, p, <<n>>)
     /\ roots' = Append(roots, p)
     /\ missing' = Append(missing, p)
     /\ UNCHANGED <<input, pc, cycles, stack, reached, stranded>>

(***************************************************************************)
(* breakCycles.                                                            *)
(***************************************************************************)

\* The top of mark's stack, and the stack without it.
Top(s) == s[Len(s)]
Pop(s) == SubSeq(s, 1, Len(s) - 1)

\* The first root is the first to be taken from the stack.
Stacked(s) == [i \in 1..Len(s) |-> s[(Len(s) - i) + 1]]

\* mark of each root, in turn.
MarkRoots ==
  /\ pc = "link" /\ todo = {}
  /\ pc' = "mark"
  /\ stack' = Stacked(roots)
  /\ UNCHANGED <<input, links, todo, roots, cycles, reached, stranded>>

Visit ==
  /\ pc \in {"mark", "remark"} /\ stack # << >>
  /\ reached' = reached \cup {Top(stack)}
  /\ stack' = Pop(stack) \o children[Top(stack)]
  /\ UNCHANGED <<input, pc, links, todo, roots, cycles, stranded>>

\* Mutant of Marked: the placeholders are not counted.
MarkedByIds ==
  /\ pc = "mark" /\ stack = << >>
  /\ IF Cardinality(reached) = Cardinality(Ids)
     THEN pc' = "finish" /\ stranded' = << >>
     ELSE pc' = "cut" /\ stranded' = Sorted(node, Ids \ reached)
  /\ UNCHANGED <<input, links, todo, roots, cycles, stack, reached>>

\* Whether anything is left to cut.
Marked ==
  /\ pc = "mark" /\ stack = << >>
  /\ IF Cardinality(reached) = Cardinality(Ids) + Len(missing)
     THEN pc' = "finish" /\ stranded' = << >>
     ELSE pc' = "cut" /\ stranded' = Sorted(node, Ids \ reached)
  /\ UNCHANGED <<input, links, todo, roots, cycles, stack, reached>>

Remarked ==
  /\ pc = "remark" /\ stack = << >>
  /\ pc' = "cut"
  /\ UNCHANGED <<input, links, todo, roots, cycles, stack, reached, stranded>>

SkipReached ==
  /\ pc = "cut" /\ stranded # << >> /\ Head(stranded) \in reached
  /\ stranded' = Tail(stranded)
  /\ UNCHANGED <<input, pc, links, todo, roots, cycles, stack, reached>>

\* The nodes met going up from n, Nil once the walk has left the tree.
Up(n) == LET up[i \in 0..(2 * Cardinality(DOMAIN node))] ==
               IF i = 0 THEN n ELSE IF up[i - 1] = Nil THEN Nil ELSE parent[up[i - 1]]
         IN up

\* Where the walk up from n first repeats.
FirstRepeat(n) == CHOOSE k \in DOMAIN Up(n) :
  /\ \E j \in 0..(k - 1) : Up(n)[j] = Up(n)[k]
  /\ \A i, j \in 0..(k - 1) : i # j => Up(n)[i] # Up(n)[j]

\* Mutant of Loop: the walk from the stranded node counts as part of the loop.
LoopWithTail(n) == {Up(n)[i] : i \in DOMAIN Up(n)}

\* The cycle the walk up from n comes round in.
Loop(n) == {Up(n)[i] : i \in FirstRepeat(n)..(2 * Cardinality(DOMAIN node))}

EarliestOf(m, ns) == \A k \in ns \ {m} : ByStart(node, m, k)

\* DeleteFunc of x: a node is linked under its parent once.
RemovedAt(s, i) == SubSeq(s, 1, i - 1) \o SubSeq(s, i + 1, Len(s))
Without(s, x) == IF x \in Range(s) THEN RemovedAt(s, CHOOSE i \in DOMAIN s : s[i] = x) ELSE s

\* The cut node becomes a root, and mark runs from there.
CutAt(cut) ==
  /\ parent' = [parent EXCEPT ![cut] = Nil]
  /\ children' = [children EXCEPT ![parent[cut]] = Without(@, cut)]
  /\ roots' = Append(roots, cut)
  /\ cycles' = Append(cycles, cut)
  /\ stack' = <<cut>>

\* Mutant of CutCycle: a node that has been reached meanwhile is not skipped.
CutCycleAlways ==
  /\ pc = "cut" /\ stranded # << >>
  /\ LET loop == Loop(Head(stranded))
     IN IF loop \subseteq Ids
        THEN pc' = "remark" /\ \E cut \in loop : EarliestOf(cut, loop) /\ CutAt(cut)
        ELSE pc' = "panic" /\ UNCHANGED <<parent, children, roots, cycles, stack>>
  /\ stranded' = Tail(stranded)
  /\ UNCHANGED <<input, node, missing, todo, reached>>

\* The loop above the first stranded node is cut at its earliest span.  A walk
\* up that left the spans that arrived would meet a nil parent and panic.
CutCycle ==
  /\ pc = "cut" /\ stranded # << >> /\ Head(stranded) \notin reached
  /\ LET loop == Loop(Head(stranded))
     IN IF loop \subseteq Ids
        THEN pc' = "remark" /\ \E cut \in loop : EarliestOf(cut, loop) /\ CutAt(cut)
        ELSE pc' = "panic" /\ UNCHANGED <<parent, children, roots, cycles, stack>>
  /\ stranded' = Tail(stranded)
  /\ UNCHANGED <<input, node, missing, todo, reached>>

CutsDone ==
  /\ pc = "cut" /\ stranded = << >>
  /\ pc' = "finish"
  /\ cycles' = SortNodes(node, cycles)
  /\ UNCHANGED <<input, links, todo, roots, stack, reached, stranded>>

\* The nodes once every placeholder has borrowed the times of its children.
Envelope ==
  [n \in DOMAIN node |->
     IF n \in Ids THEN node[n]
     ELSE LET borrowed == {node[c] : c \in Range(children[n])}
          IN [node[n] EXCEPT !.start = Min({s.start : s \in borrowed}),
                             !.end = Max({s.end : s \in borrowed})]]

\* The rest of Build: the placeholders' times, then the sorts.
Finish ==
  /\ pc = "finish"
  /\ IF \E p \in Range(missing) : children[p] = << >>
     THEN pc' = "panic" /\ UNCHANGED <<node, roots, missing, children>>
     ELSE /\ pc' = "done"
          /\ node' = Envelope
          /\ roots' = SortNodes(node', roots)
          /\ missing' = SortNodes(node', missing)
          /\ children' = [n \in DOMAIN node |-> SortNodes(node', children[n])]
  /\ UNCHANGED <<input, parent, todo, cycles, stack, reached, stranded>>

Link == \E n \in todo : LinkRoot(n) \/ LinkKnown(n) \/ LinkMissing(n)
BreakCycles == MarkRoots \/ Visit \/ Marked \/ Remarked \/ SkipReached \/ CutCycle \/ CutsDone

Next == Collect \/ Refuse \/ Link \/ BreakCycles \/ Finish

\* Build runs until it returns.
Spec == Init /\ [][Next]_vars /\ WF_vars(Next)

\* Mutant of Complete: a placeholder passes for a root.
CompleteWithMissing == cycles = << >> /\ Len(roots) = 1

\* Tree.Complete
Complete == missing = << >> /\ cycles = << >> /\ Len(roots) = 1

(***************************************************************************)
(* Properties.                                                             *)
(***************************************************************************)

\* Build returns, with a tree or with an error: mark, which would go round a
\* loop forever, is only ever started at a node that no loop leads back to,
\* and neither the walk up to find a loop nor the first child of a placeholder
\* meets a nil pointer.
BuildReturns == <>(pc \in {"done", "error"})

\* While anything is stranded, so is its parent: the walk up from a stranded
\* node stays among stranded nodes and comes round.
StrandedParentIsStranded ==
  pc = "cut" => \A n \in Ids \ reached : parent[n] \in Ids \ reached

\* The spans whose links lead from n back to n, by the links the spans name.
Above(n) == LET up[i \in 0..Cardinality(Ids)] ==
                  IF i = 0 THEN n
                  ELSE IF up[i - 1] \in Ids THEN LastOf(up[i - 1]).parent ELSE Nil
            IN {up[i] : i \in 1..Cardinality(Ids)} \ {Nil}
OnLoopOf(n) == {m \in Above(n) \cap Ids : n \in Above(m)}

\* What the tree should be, from the spans alone: one cut for each loop, at
\* its earliest span; every span under the parent it names, but for those; a
\* placeholder for each parent named that did not arrive.
Absent == {LastOf(n).parent : n \in Ids} \ (Ids \cup {Nil})
Cuts == {n \in Ids : n \in OnLoopOf(n) /\ \A m \in OnLoopOf(n) \ {n} :
           LastOf(n).start < LastOf(m).start \/ (LastOf(n).start = LastOf(m).start /\ n < m)}
Tops == {n \in Ids : LastOf(n).parent = Nil} \cup Absent \cup Cuts
Under(n) == {c \in Ids \ Cuts : LastOf(c).parent = n}

InOrder(s) == \A i, j \in DOMAIN s : i < j => ByStart(node, s[i], s[j])
Lists(s, S) == Range(s) = S /\ InOrder(s)

\* Whatever order the map is iterated in and the spans arrived in, Build
\* returns that tree, each slice of it in start order and without repeats, and
\* each placeholder starting and ending with its children.
TreeIsDetermined ==
  pc = "done" =>
    /\ DOMAIN node = Ids \cup Absent /\ \A n \in Ids : node[n] = LastOf(n)
    /\ Lists(roots, Tops) /\ Lists(missing, Absent) /\ Lists(cycles, Cuts)
    /\ \A n \in DOMAIN node : Lists(children[n], Under(n))
    /\ \A n \in DOMAIN node : parent[n] = IF n \in Tops THEN Nil ELSE LastOf(n).parent
    /\ \A n \in Absent : /\ \A c \in Under(n) : node[n].start <= node[c].start /\ node[c].end <= node[n].end
                         /\ \E c, d \in Under(n) : node[n].start = node[c].start /\ node[n].end = node[d].end

\* Complete says exactly that following the parents each span names leads
\* from every span to the one that names none.
CompleteIsOneTree ==
  pc = "done" => (Complete <=> \E r \in Ids : LastOf(r).parent = Nil /\ \A n \in Ids \ {r} : r \in Above(n))
=============================================================================
