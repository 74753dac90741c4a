------------------------------ MODULE OwnTime -------------------------------
(***************************************************************************)
(* SelfTime of internal/assembly, a function of a finished tree: the state *)
(* of Assembly once Build is done.                                         *)
(***************************************************************************)
EXTENDS Assembly

\* Validate has seen to it that no span ends before it starts.
ASSUME OwnTimeAssumption == \A s \in Inputs : \A i \in DOMAIN s : s[i].start <= s[i].end

later(a, b) == IF a > b THEN a ELSE b
earlier(a, b) == IF a < b THEN a ELSE b

\* One turn of SelfTime's loop.
Merge(n, acc, c) ==
  LET from == later(node[c].start, acc.cursor)
      to == earlier(node[c].end, node[n].end)
  IN IF to > from THEN [busy |-> acc.busy + (to - from), cursor |-> to] ELSE acc

\* Mutant of Busy: what the children ran for is added up.
BusySum(n) ==
  MapThenSumSet(LAMBDA c : later(0, earlier(node[c].end, node[n].end) - later(node[c].start, node[n].start)),
                Range(children[n]))

\* SelfTime's loop: one pass over the children, in start order.
Busy(n) ==
  LET after[i \in 0..Len(children[n])] ==
        IF i = 0 THEN [busy |-> 0, cursor |-> node[n].start] ELSE Merge(n, after[i - 1], children[n][i])
  IN after[Len(children[n])].busy

SelfTime(n) == IF n \notin Ids THEN 0 ELSE node[n].end - node[n].start - Busy(n)

(***************************************************************************)
(* Properties.                                                             *)
(***************************************************************************)

\* The instants, as the unit intervals they begin, at which a node ran.
Instants(n) == node[n].start..(node[n].end - 1)

\* SelfTime is the time during which no child of the span was running, however
\* the children overlap each other, their parent's end or, with skewed clocks,
\* its start.
SelfTimeIsUncovered ==
  pc = "done" => \A n \in Ids :
    SelfTime(n) = Cardinality(Instants(n) \ UNION {Instants(c) : c \in Range(children[n])})
=============================================================================
