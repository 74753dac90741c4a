------------------------------ MODULE MCDaemon ------------------------------
(***************************************************************************)
(* Instances of Daemon for TLC: spans s1 and s2 of trace 1, s3 of trace 2; *)
(* the policies keep a trace with s2 or s3 in it.                          *)
(***************************************************************************)
EXTENDS Daemon, TLC

CONSTANTS s1, s2, s3, svc

Spans == {s1, s2, s3}
Traces == {1, 2}
TraceOfSpan == s1 :> 1 @@ s2 :> 1 @@ s3 :> 2
Kept == {S \in SUBSET Span : s2 \in S \/ s3 \in S}
OneService == [S \in SUBSET Span |-> svc]
=============================================================================
