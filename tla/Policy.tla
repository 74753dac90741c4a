------------------------------- MODULE Policy -------------------------------
(***************************************************************************)
(* The policies of internal/sampler and rootService, functions of a        *)
(* finished tree: the state of Assembly once Build is done.  A policy's    *)
(* answer is the reason of its verdict, or "abstain".                      *)
(***************************************************************************)
EXTENDS TreeWalk

CONSTANTS
  Threshold,    \* KeepSlow.Threshold, 0 for no such policy
  RandomRange,  \* 2^56: how many values the random bits of a trace id take
  Share         \* KeepFraction.threshold, out of RandomRange

ASSUME PolicyAssumption ==
  Threshold \in Nat /\ RandomRange \in Nat \ {0} /\ Share \in 0..RandomRange

\* The steps of a walk at which a span that arrived is visited.
Arrived == {i \in DOMAIN Walk : Walk[i] \in Ids}

\* Mutant of rootService: the span that arrived first, not the first of the walk.
rootServiceOfArrival == LastOf(input[1].id).service

rootService == node[Walk[Min(Arrived)]].service

KeepErrors == IF \E i \in Arrived : node[Walk[i]].failed THEN "error" ELSE "abstain"

\* Mutant of Duration: the first root stands for all of them.
DurationOfFirst == node[roots[1]].end - node[roots[1]].start

Duration == Max({node[r].end : r \in Range(roots)}) - Min({node[r].start : r \in Range(roots)})

KeepSlow == IF Duration > Threshold THEN "slow" ELSE "abstain"

KeepFraction == IF input[1].trace % RandomRange < Share THEN "sampled" ELSE "sampled out"

\* The chain the daemon configures.
Policies == <<KeepErrors>> \o (IF Threshold > 0 THEN <<KeepSlow>> ELSE << >>) \o <<KeepFraction>>

\* Decide's reason: the first policy that does not abstain.
Reason ==
  LET claims == {i \in DOMAIN Policies : Policies[i] # "abstain"}
  IN IF claims = {} THEN "unclaimed" ELSE Policies[Min(claims)]

(***************************************************************************)
(* Properties.                                                             *)
(***************************************************************************)

\* The roots a trace should have, with a missing one represented by the spans
\* that name it.
Outermost == (Tops \cap Ids) \cup UNION {Under(p) : p \in Absent}

\* What the chain should make of a trace, from its spans alone: a failed span
\* keeps it wherever the span hangs, loops and missing parents included; so
\* does a stretch longer than Threshold from the first start to the last end
\* of its outermost spans; and what is left is up to the trace id.
VerdictIsOfTheSpans ==
  pc = "done" =>
    Reason = IF \E n \in Ids : LastOf(n).failed THEN "error"
             ELSE IF Threshold > 0 /\ \E a, b \in Outermost : LastOf(b).end - LastOf(a).start > Threshold
             THEN "slow"
             ELSE IF input[1].trace % RandomRange < Share THEN "sampled" ELSE "sampled out"

\* The budget a kept trace draws on is that of a service whose span starts the
\* trace: one of the outermost spans, none of them earlier, whatever order the
\* spans arrived in and whatever placeholder stands above it.
ChargedToTheEarliest ==
  pc = "done" =>
    \E n \in Outermost : /\ LastOf(n).service = rootService
                         /\ \A m \in Outermost : LastOf(n).start <= LastOf(m).start
=============================================================================
