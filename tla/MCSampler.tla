----------------------------- MODULE MCSampler -----------------------------
(***************************************************************************)
(* Instances of Sampler for TLC.  s1 and s2 belong to trace 1, s3 to trace *)
(* 2 and s4 to trace 3 (or to trace 1 too).  The policies keep a trace     *)
(* that has s2, which failed, and all of trace 2: one verdict depends on   *)
(* which spans arrived in time, one does not, and one is always to drop.   *)
(***************************************************************************)
EXTENDS Sampler, TLC

CONSTANTS s1, s2, s3, s4, svc

TraceOfThree == s1 :> 1 @@ s2 :> 1 @@ s3 :> 2
TraceOfFour == TraceOfThree @@ s4 :> 3
TraceOfTwo == TraceOfThree @@ s4 :> 1
Kept == {S \in SUBSET Span : s2 \in S \/ s3 \in S}
OneService == [S \in SUBSET Span |-> svc]
=============================================================================
