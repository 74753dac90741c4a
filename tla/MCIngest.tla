------------------------------ MODULE MCIngest ------------------------------
(***************************************************************************)
(* An instance of Ingest for TLC: a client whose one span takes every      *)
(* shape in turn, and two clients that compete for a buffer one of them    *)
(* fills on its own.                                                       *)
(***************************************************************************)
EXTENDS Ingest

CONSTANTS c1, c2

Name == <<1>>
Unknown == <<3>>

Plain == [trace |-> <<1>>, span |-> <<1>>, parent |-> << >>, name |-> <<1>>, kind |-> 1, start |-> 1,
          end |-> 2, code |-> 0, message |-> << >>, attributes |-> << >>]
Second == [Plain EXCEPT !.span = <<2>>, !.parent = <<1>>]
Bad == [Plain EXCEPT !.name = << >>]

Ids == {<< >>, <<0>>, <<1>>, <<2, 2>>}
Values == {[kind |-> "none", v |-> << >>], [kind |-> "string", v |-> << >>], [kind |-> "string", v |-> <<2>>],
           [kind |-> "bool", v |-> <<0>>], [kind |-> "int", v |-> <<-4>>],
           [kind |-> "double", v |-> <<0, 5>>], [kind |-> "bytes", v |-> <<6>>], [kind |-> "array", v |-> <<1, 1, 1, 1>>]}
KeyValues == [key : {<< >>, Name}, value : Values]
KeyValueLists == {<< >>} \cup [1..1 -> KeyValues] \cup [1..2 -> {kv \in KeyValues : kv.value.kind \in {"none", "string"}}]

Times == {[Plain EXCEPT !.start = s, !.end = e] : s, e \in 0..7}
Identified == {[Plain EXCEPT !.trace = t, !.span = s, !.parent = p] : t, s, p \in Ids}
Named == {[Plain EXCEPT !.name = n, !.kind = k, !.code = k % 4, !.message = m] :
            n \in {<< >>, <<1, 2, 3, 1>>}, k \in 0..6, m \in {<< >>, <<2>>}}
Attributed == {[Plain EXCEPT !.attributes = kvs] : kvs \in KeyValueLists}

Http(body) == [via |-> "http", post |-> TRUE, media |-> "protobuf", coding |-> "gzip", intact |-> TRUE,
               decodes |-> TRUE, body |-> body]
Block(resource, spans) == [resource |-> resource, spans |-> spans]
Of(spans) == <<Block(<< >>, spans)>>

Shapes == {Of(<<ps>>) : ps \in Times \cup Identified \cup Named \cup Attributed}
          \cup {<<Block(kvs, <<Plain>>)>> : kvs \in KeyValueLists}
Refused == {[Http(Of(<<Plain>>)) EXCEPT !.post = FALSE], [Http(Of(<<Plain>>)) EXCEPT !.media = "other"],
            [Http(Of(<<Plain>>)) EXCEPT !.coding = "other"], [Http(Of(<<Plain>>)) EXCEPT !.intact = FALSE],
            [Http(Of(<<Plain>>)) EXCEPT !.decodes = FALSE, !.media = "json"]}
Alone == [via |-> "grpc", post |-> TRUE, media |-> "other", coding |-> "identity", intact |-> TRUE, decodes |-> TRUE,
          body |-> << >>]

Tagged == <<[key |-> Name, value |-> [kind |-> "string", v |-> <<2>>]]>>
Bodies == {Of(<<Plain>>), Of(<<Plain, Second>>), Of(<<Plain, Bad, Second>>), Of(<<Plain, Second, Plain>>),
           <<Block(Tagged, <<Bad, Plain>>), Block(<< >>, <<Bad, Bad>>)>>,
           <<Block(Tagged, <<Bad>>), Block(<< >>, <<Plain>>), Block(<< >>, <<Second>>)>>}

MCRequests ==
  {c1 :> Http(b) @@ c2 :> Alone : b \in Shapes} \cup
  {c1 :> r @@ c2 :> Alone : r \in Refused} \cup
  {c1 :> Http(a) @@ c2 :> [Alone EXCEPT !.body = b] : a, b \in Bodies}
=============================================================================
