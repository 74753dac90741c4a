------------------------------- MODULE MCDisk -------------------------------
(***************************************************************************)
(* Instances of Disk for TLC: s1 and s2 belong to one trace and end one    *)
(* clock value apart, s3 and big, which is over the limit, to another.     *)
(***************************************************************************)
EXTENDS Disk

CONSTANTS s1, s2, s3, big

Spans == {s1, s2, s3}
WithBig == Spans \cup {big}
TraceOfSpan == [s \in Span |-> IF s \in {s1, s2} THEN 1 ELSE 2]
EndOfSpan == [s \in Span |-> CASE s = s1 -> 1 [] s = s2 -> 2 [] s = s3 -> 0 [] s = big -> 4]
=============================================================================
