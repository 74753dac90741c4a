----------------------------- MODULE Translate -----------------------------
(***************************************************************************)
(* internal/otlp: from the spans of a request to spans the backend trusts, *)
(* with trace.Span.Validate.  Identifiers, strings and raw bytes are       *)
(* sequences of small numbers.  A timestamp is Width bits, where the       *)
(* protocol has 64.  A time is <<n>>, n nanoseconds from 1970, or << >>,   *)
(* Go's zero time.  A value is a kind, numbered as in trace.ValueKind, and *)
(* a sequence that says which value of that kind it is.                    *)
(***************************************************************************)
EXTENDS Integers, Sequences, SequencesExt

CONSTANTS
  IdLen,            \* the bytes of an identifier
  Width,            \* the bits of a timestamp
  ServiceNameKey, UnknownService

\* The conversion of uint64 to int64.
Int64(n) == IF n >= 2^(Width - 1) THEN n - 2^Width ELSE n
unixNano(n) == IF n = 0 THEN << >> ELSE <<Int64(n)>>

Zero == [i \in 1..IdLen |-> 0]

\* encoding/hex, a digit being half a byte.
Hex(bytes) == FlattenSeq([i \in DOMAIN bytes |-> <<bytes[i] \div 4, bytes[i] % 4>>])

\* Arrays and maps arrive here as the text protojson makes of them.
value(v) ==
  CASE v.kind \in {"string", "array", "kvlist"} -> [kind |-> 1, v |-> v.v]
    [] v.kind = "bytes" -> [kind |-> 1, v |-> Hex(v.v)]
    [] v.kind = "bool" -> [kind |-> 2, v |-> v.v]
    [] v.kind = "int" -> [kind |-> 3, v |-> v.v]
    [] v.kind = "double" -> [kind |-> 4, v |-> v.v]
    [] OTHER -> [kind |-> 0, v |-> << >>]
keyValues(in) == [i \in DOMAIN in |-> [key |-> in[i].key, value |-> value(in[i].value)]]

NamesService(kv) == kv.key = ServiceNameKey /\ kv.value.kind = 1 /\ kv.value.v # << >>
serviceName(resource) ==
  LET named == {i \in DOMAIN resource : NamesService(resource[i])}
  IN IF named = {} THEN UnknownService ELSE resource[Min(named)].value.v

spanKind(k) == IF k \in 1..5 THEN k ELSE 0
statusCode(c) == IF c \in 1..2 THEN c ELSE 0

\* copyID, on the three identifiers of a span.
GoodIDs(ps) == Len(ps.trace) = IdLen /\ Len(ps.span) = IdLen /\ Len(ps.parent) \in {0, IdLen}

translateSpan(ps, resource) ==
  [trace |-> ps.trace, span |-> ps.span,
   parent |-> IF ps.parent = << >> THEN Zero ELSE ps.parent,
   name |-> ps.name, kind |-> spanKind(ps.kind), service |-> serviceName(resource),
   start |-> unixNano(ps.start), end |-> unixNano(ps.end),
   code |-> statusCode(ps.code), message |-> ps.message,
   attributes |-> keyValues(ps.attributes), resource |-> resource]

\* trace.Span.Validate
Validate(s) ==
  /\ s.trace # Zero /\ s.span # Zero
  /\ s.name # << >> /\ s.service # << >>
  /\ s.parent # s.span
  /\ s.start # << >> /\ s.end # << >>
  /\ s.end[1] >= s.start[1]

\* Mutant of One: a rejection's index counts the spans translated so far.
OneByAccepted(acc, ps, resource) ==
  LET span == translateSpan(ps, resource)
  IN IF GoodIDs(ps) /\ Validate(span)
     THEN [acc EXCEPT !.spans = Append(@, span), !.index = @ + 1]
     ELSE [acc EXCEPT !.rejections = Append(@, acc.index)]

\* One turn of Translate's inner loop.
One(acc, ps, resource) ==
  LET span == translateSpan(ps, resource)
  IN IF GoodIDs(ps) /\ Validate(span)
     THEN [acc EXCEPT !.spans = Append(@, span), !.index = @ + 1]
     ELSE [acc EXCEPT !.rejections = Append(@, acc.index), !.index = @ + 1]

\* Translate's loops over the spans of one resource, its scopes run together,
\* and over the resources of the request.
TranslateBlock(acc, rs) ==
  LET after[j \in 0..Len(rs.spans)] ==
        IF j = 0 THEN acc ELSE One(after[j - 1], rs.spans[j], keyValues(rs.resource))
  IN after[Len(rs.spans)]
Translate(resourceSpans) ==
  LET after[i \in 0..Len(resourceSpans)] ==
        IF i = 0 THEN [spans |-> << >>, rejections |-> << >>, index |-> 0]
        ELSE TranslateBlock(after[i - 1], resourceSpans[i])
  IN after[Len(resourceSpans)]
=============================================================================
