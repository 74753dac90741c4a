------------------------------ MODULE Sampling ------------------------------
(***************************************************************************)
(* What the tail sampler promises, without its clock, its maps and its     *)
(* locks: the spans of a trace are judged together, in one step, however   *)
(* long the sampler takes over it and whatever arrives meanwhile.          *)
(***************************************************************************)
CONSTANTS
  Trace, Span, TraceOf,
  TooLarge,     \* the batches that could never fit
  KeptBy,       \* the sets of spans whose tree the policies keep
  RateLimited   \* whether a trace the policies keep may be dropped all the same

VARIABLES
  status,   \* "client", "held" for a verdict, "kept" but not yet written, or
            \* where the span ended: "written", "lost", "dropped", "rejected"
  verdict   \* the verdict remembered for each trace, or "none"

vars == <<status, verdict>>

Init ==
  /\ status = [s \in Span |-> "client"]
  /\ verdict = [t \in Trace |-> "none"]

Being(what) == {s \in Span : status[s] = what}
Of(t, what) == {s \in Being(what) : TraceOf[s] = t}
Turn(S, what) == [s \in Span |-> IF s \in S THEN what ELSE status[s]]

\* Where new spans of a trace may go: they are held, unless a verdict on their
\* trace is remembered.
Follows(t, what) ==
  \/ what = "held"
  \/ what = "kept" /\ verdict[t] = "keep"
  \/ what = "dropped" /\ verdict[t] = "drop"

\* A batch is accepted as a whole, the spans of one trace all the same way.
Accept ==
  /\ \E b \in SUBSET Being("client") :
       \E goes \in [{TraceOf[s] : s \in b} -> {"held", "kept", "dropped"}] :
         /\ \A t \in DOMAIN goes : Follows(t, goes[t])
         /\ status' = [s \in Span |-> IF s \in b THEN goes[TraceOf[s]] ELSE status[s]]
  /\ UNCHANGED verdict

\* A batch that could never fit.
Reject ==
  /\ \E b \in SUBSET Being("client") : b \in TooLarge /\ status' = Turn(b, "rejected")
  /\ UNCHANGED verdict

\* Any verdict may be forgotten.
Forgetting(v) == \A t \in Trace : verdict'[t] \in {v[t], "none"}
Remembers(t, v) == verdict' \in [Trace -> {"none", "keep", "drop"}] /\ Forgetting([verdict EXCEPT ![t] = v])

\* A trace is dropped, all that is held of it.
Drop(t) ==
  /\ \E judged \in SUBSET Of(t, "held") : judged # {} /\ (judged \in KeptBy => RateLimited)
  /\ status' = Turn(Of(t, "held"), "dropped")
  /\ Remembers(t, "drop")

\* A trace is kept: what was judged is written, or lost, and what arrived
\* meanwhile is to follow.
Keep(t) ==
  /\ \E judged \in SUBSET Of(t, "held"), out \in {"written", "lost"} :
       /\ judged # {} /\ judged \in KeptBy
       /\ status' = [s \in Span |-> IF s \in judged THEN out
                                    ELSE IF s \in Of(t, "held") THEN "kept" ELSE status[s]]
  /\ Remembers(t, "keep")

\* Spans that arrived after the verdict are written, or lost.
WriteKept(t) ==
  /\ \E S \in SUBSET Of(t, "kept"), out \in {"written", "lost"} : status' = Turn(S, out)
  /\ UNCHANGED verdict

Forget ==
  /\ verdict' \in [Trace -> {"none", "keep", "drop"}] /\ Forgetting(verdict)
  /\ UNCHANGED status

Next ==
  \/ Accept \/ Reject \/ Forget
  \/ \E t \in Trace : Drop(t) \/ Keep(t) \/ WriteKept(t)

Spec == Init /\ [][Next]_vars
=============================================================================
