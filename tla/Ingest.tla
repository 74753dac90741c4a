------------------------------- MODULE Ingest -------------------------------
(***************************************************************************)
(* Exports, from the exporter's first attempt to its last: ServeHTTP and   *)
(* the gRPC Export, the translation, the sink's answer, and the retries    *)
(* the answers ask for.  Handlers run side by side; the sink is Sampler's  *)
(* Accept, of which only what it counts is kept.  Exporter and network are *)
(* external: a client resends after an answer it may retry, and after one  *)
(* that is lost.                                                           *)
(***************************************************************************)
EXTENDS Codec

CONSTANTS
  Client,
  Requests,      \* what the clients may have to export
  MaxSpans,      \* sampler.Config
  MaxBody,       \* maxBodyBytes, counted in resource blocks
  MaxReported,   \* maxReportedRejections
  MaxLost        \* bound: the answers that are lost

\* What protobuf makes of a span: bytes, and numbers without a sign.
IsSpan(ps) == {ps.trace, ps.span, ps.parent} \subseteq Seq(Nat) /\ {ps.start, ps.end} \subseteq Nat
IsList(s) == s \in Seq(Range(s))
IsBlock(rs) == IsList(rs.resource) /\ IsList(rs.spans) /\ \A ps \in Range(rs.spans) : IsSpan(ps)
IsRequest(r) ==
  /\ r.via \in {"http", "grpc"} /\ {r.post, r.intact, r.decodes} \subseteq BOOLEAN
  /\ IsList(r.body) /\ \A rs \in Range(r.body) : IsBlock(rs)

\* Requests are of the protocol's types, and the name for an unnamed service
\* is not empty.
ASSUME IngestAssumption ==
  /\ MaxBody \in Nat /\ MaxReported \in Nat /\ UnknownService # << >>
  /\ \A r \in Requests : \A c \in Client : IsRequest(r[c])

VARIABLES
  request,    \* what each client has to export
  phase,      \* "send", "serving", "answered" or "done"
  answer,     \* the status last sent to each client, with the report
  buffered,   \* Stats.Buffered of the sampler
  passed,     \* history: what each client's attempts passed to the sink
  lost        \* history: the successes each client did not hear of

vars == <<request, phase, answer, buffered, passed, lost>>

\* The partial success: the first few rejections, and how many there are.
summarise(rejections) ==
  LET named == SubSeq(rejections, 1, IF Len(rejections) < MaxReported THEN Len(rejections) ELSE MaxReported)
  IN [named |-> named, count |-> Len(rejections)]

Answer(status, rejections) == [status |-> status, report |-> summarise(rejections)]

(***************************************************************************)
(* The handlers, up to the sink.                                           *)
(***************************************************************************)

\* Mutant of ReadLimit: nothing is read past the cap.
ReadLimitExact == MaxBody

\* io.LimitReader's argument in readBody.
ReadLimit == MaxBody + 1

\* readBody, with the size cap on what gzip unpacks.
readBody(r) == SubSeq(r.body, 1, IF Len(r.body) < ReadLimit THEN Len(r.body) ELSE ReadLimit)
UnreadableBody(r) == r.coding \notin {"identity", "gzip"} \/ ~r.intact
TooLargeBody(r) == ~UnreadableBody(r) /\ Len(readBody(r)) > MaxBody

\* The status ServeHTTP refuses a request with before it looks at any span, or
\* 200.  A request over gRPC has been decoded before Export sees it.
Refusal(r) ==
  CASE r.via = "grpc" -> 200
    [] r.via = "http" /\ ~r.post -> 405
    [] r.via = "http" /\ r.post /\ r.media \notin {"protobuf", "json"} -> 415
    [] r.via = "http" /\ r.post /\ r.media \in {"protobuf", "json"} ->
         IF UnreadableBody(r) THEN 400
         ELSE IF TooLargeBody(r) THEN 413
         ELSE IF ~r.decodes THEN 400 ELSE 200

\* What unmarshal makes of the body.
Message(r) == IF r.via = "grpc" THEN r.body ELSE readBody(r)

Init ==
  /\ request \in Requests
  /\ phase = [c \in Client |-> "send"]
  /\ answer = [c \in Client |-> Answer(0, << >>)]
  /\ buffered = 0
  /\ passed = [c \in Client |-> << >>]
  /\ lost = [c \in Client |-> 0]

Send(c) ==
  /\ phase[c] = "send"
  /\ phase' = [phase EXCEPT ![c] = "serving"]
  /\ UNCHANGED <<request, answer, buffered, passed, lost>>

Reply(c, a) ==
  /\ phase' = [phase EXCEPT ![c] = "answered"]
  /\ answer' = [answer EXCEPT ![c] = a]
  /\ UNCHANGED <<request, lost>>

ServeRefused(c) ==
  /\ Refusal(request[c]) # 200
  /\ Reply(c, Answer(Refusal(request[c]), << >>))
  /\ UNCHANGED <<buffered, passed>>

\* export of what Translate got out of the message, if that is no span at all.
ExportNothing(c, got) ==
  /\ got.spans = << >>
  /\ Reply(c, Answer(200, got.rejections))
  /\ UNCHANGED <<buffered, passed>>

\* The sink's ErrBatchTooLarge, which is no reason to retry.
ExportTooLarge(c, got) ==
  /\ Len(got.spans) > MaxSpans
  /\ Reply(c, Answer(500, << >>))
  /\ UNCHANGED <<buffered, passed>>

\* Mutant of Full: the last place is not given away.
FullEarly(room) == buffered + room >= MaxSpans

\* Whether the sampler has no room for so many spans.
Full(room) == buffered + room > MaxSpans

\* Mutant of ExportFull: what fits is taken.
ExportFullPartly(c, got, room) ==
  /\ Len(got.spans) \in 1..MaxSpans
  /\ Full(room)
  /\ buffered' = MaxSpans
  /\ passed' = [passed EXCEPT ![c] = Append(@, SubSeq(got.spans, 1, MaxSpans - buffered))]
  /\ Reply(c, Answer(503, << >>))

\* The sink's ErrSinkFull, over gRPC codes.Unavailable.
ExportFull(c, got, room) ==
  /\ Len(got.spans) \in 1..MaxSpans
  /\ Full(room)
  /\ Reply(c, Answer(503, << >>))
  /\ UNCHANGED <<buffered, passed>>

ExportAccepted(c, got, room) ==
  /\ Len(got.spans) \in 1..MaxSpans
  /\ ~Full(room)
  /\ buffered' = buffered + room
  /\ passed' = [passed EXCEPT ![c] = Append(@, got.spans)]
  /\ Reply(c, Answer(200, got.rejections))

\* One request, from the handler's first line to its answer.  Of a batch, the
\* spans of dropped traces take no room.
Export(c) ==
  /\ phase[c] = "serving"
  /\ \/ ServeRefused(c)
     \/ /\ Refusal(request[c]) = 200
        /\ \E got \in {Translate(Message(request[c]))} :
             \/ ExportNothing(c, got) \/ ExportTooLarge(c, got)
             \/ \E room \in 0..Len(got.spans) : ExportFull(c, got, room) \/ ExportAccepted(c, got, room)

(***************************************************************************)
(* The exporter and the sampler's sweeps.                                  *)
(***************************************************************************)

Receive(c) ==
  /\ phase[c] = "answered"
  /\ phase' = [phase EXCEPT ![c] = IF answer[c].status = 503 THEN "send" ELSE "done"]
  /\ UNCHANGED <<request, answer, buffered, passed, lost>>

LoseAnswer(c) ==
  /\ phase[c] = "answered" /\ lost[c] < MaxLost
  /\ phase' = [phase EXCEPT ![c] = "send"]
  /\ lost' = [lost EXCEPT ![c] = @ + 1]
  /\ UNCHANGED <<request, answer, buffered, passed>>

\* A sweep takes traces out of the buffer.
Drain ==
  /\ buffered > 0
  /\ \E left \in 0..(buffered - 1) : buffered' = left
  /\ UNCHANGED <<request, phase, answer, passed, lost>>

Next == Drain \/ \E c \in Client : Send(c) \/ Export(c) \/ Receive(c) \/ LoseAnswer(c)

\* A handler that runs answers, a client told to retry does, and the sampler
\* sweeps for as long as spans are buffered.
Fairness ==
  /\ WF_vars(Drain)
  /\ \A c \in Client : WF_vars(Send(c)) /\ WF_vars(Export(c)) /\ WF_vars(Receive(c))

Spec == Init /\ [][Next]_vars /\ Fairness

(***************************************************************************)
(* Properties.                                                             *)
(***************************************************************************)

\* The spans a client was given to export, in order, each with its resource.
Exported(c) ==
  LET Block(rs) == [j \in DOMAIN rs.spans |-> [ps |-> rs.spans[j], resource |-> rs.resource]]
      body == request[c].body
  IN FlattenSeq([i \in DOMAIN body |-> Block(body[i])])

\* What the protocol and the span model ask of a span.
Acceptable(ps) ==
  LET ID == {id \in {ps.trace, ps.span, ps.parent} : Len(id) = IdLen /\ \E i \in DOMAIN id : id[i] # 0}
  IN /\ ps.trace \in ID /\ ps.span \in ID
     /\ ps.parent \in {<< >>, Zero} \cup (ID \ {ps.span})
     /\ ps.name # << >>
     /\ ps.start > 0 /\ ps.end > 0 /\ Int64(ps.end) >= Int64(ps.start)

\* The places of the acceptable spans among them, and of the others.
GoodAt(c) == {i \in DOMAIN Exported(c) : Acceptable(Exported(c)[i].ps)}
BadAt(c) == DOMAIN Exported(c) \ GoodAt(c)

\* How many of the places S come up to i.
Rank(S, i) == Cardinality({j \in S : j <= i})

\* The spans of the last attempt that reached the sink.
Taken(c) == IF passed[c] = << >> THEN << >> ELSE passed[c][Len(passed[c])]

\* The same, once all exports are over, written to a segment as one batch.
Stored(c) == IF \A d \in Client : phase[d] = "done" THEN Taken(c) ELSE << >>

\* A client told of success can forget its batch: every acceptable span of it,
\* in order and with the resource it came with, has reached the sink.
SuccessMeansPassedOn ==
  \A c \in Client : answer[c].status = 200 =>
    /\ Len(Taken(c)) = Cardinality(GoodAt(c))
    /\ \A i \in GoodAt(c) :
         LET span == Taken(c)[Rank(GoodAt(c), i)]
         IN span.span = Exported(c)[i].ps.span /\ span.resource = keyValues(Exported(c)[i].resource)

\* The partial success counts exactly the spans that were left out and names
\* the first of them, by their place in the whole request.
ReportNamesRejected ==
  \A c \in Client : answer[c].status = 200 =>
    LET report == answer[c].report
    IN /\ report.count = Cardinality(BadAt(c))
       /\ Len(report.named) = Min({report.count, MaxReported})
       /\ \A i \in BadAt(c) : Rank(BadAt(c), i) <= MaxReported => report.named[Rank(BadAt(c), i)] = i - 1

\* A batch reaches the sink again only if the answer to it was lost: an answer
\* that asks for a retry is never sent after spans were taken.
RetryDoesNotDuplicate == \A c \in Client : Len(passed[c]) <= 1 + lost[c]

\* A span that was accepted is read back from disk as it was, and Validate,
\* which the replay calls again, has nothing against it: an accepted span never
\* makes the store refuse to open.
AcceptedIsReadBack ==
  \A c \in Client : \A s \in ToSet(Stored(c)) : decodeSpan(encodeSpan(s)) = {s} /\ Validate(s)

\* No part of a stored span, and nothing longer, reads as a span.
OnlyWholeSpansDecode ==
  \A c \in Client : \A p \in {encodeSpan(s) : s \in ToSet(Stored(c))} :
    /\ \A k \in 0..(Len(p) - 1) : decodeSpan(SubSeq(p, 1, k)) = {}
    /\ \A b \in 0..(2 * Base - 1) : decodeSpan(Append(p, b)) = {}

\* Wherever a crash cuts a segment, replay finds every whole record before the
\* cut and nothing else, and truncates right behind them.
TornSegmentKeepsWholeRecords ==
  \A spans \in {Stored(c) : c \in Client} :
    LET End(k) == Len(Records(SubSeq(spans, 1, k)))
    IN (\A s \in ToSet(spans) : ~Oversize(s)) =>
         \A k \in DOMAIN spans :
           \A data \in {SubSeq(Records(spans), 1, cut) : cut \in End(k - 1)..(End(k) - 1)} :
             intactPrefix(data) = [spans |-> SubSeq(spans, 1, k - 1), good |-> End(k - 1)]

\* A request the endpoint takes, with no more spans than the sampler can hold.
Fits(c) ==
  LET r == request[c]
  IN /\ r.via = "http" => /\ r.post /\ r.media \in {"protobuf", "json"} /\ r.decodes
                          /\ r.coding \in {"identity", "gzip"} /\ r.intact /\ Len(r.body) <= MaxBody
     /\ Cardinality(GoodAt(c)) \in 1..MaxSpans

\* Every export comes to an end, and one that fits ends with its spans taken,
\* however full the sampler was when it first arrived.
ExportsEnd == \A c \in Client : <>(phase[c] = "done" /\ (Fits(c) => passed[c] # << >>))
=============================================================================
