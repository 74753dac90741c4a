------------------------------- MODULE Codec -------------------------------
(***************************************************************************)
(* internal/storage/codec.go and the records of a segment: the bytes a     *)
(* span is stored as.  A varint byte carries a digit below Base (128 in    *)
(* the code), plus Base if another follows.  Of the record header, the     *)
(* length is modelled; the checksum is taken to match what was written.    *)
(***************************************************************************)
EXTENDS Translate

CONSTANTS
  Base,
  FloatLen,    \* the bytes of a float
  MaxRecord

codecVersion == 1
recordHeader == 2

(***************************************************************************)
(* Encoding.                                                               *)
(***************************************************************************)

\* encoding/binary: the digits of n, the lowest first.
AppendUvarint(n) ==
  LET digits[i \in Nat] == IF i < Base THEN <<i>> ELSE <<Base + (i % Base)>> \o digits[i \div Base]
  IN digits[n]
AppendVarint(n) == AppendUvarint(IF n >= 0 THEN 2 * n ELSE -2 * n - 1)

appendString(s) == AppendUvarint(Len(s)) \o s

\* Nothing follows the kind of an invalid value.
appendValue(v) ==
  <<v.kind>> \o (CASE v.kind = 1 -> appendString(v.v)
                   [] v.kind = 3 -> AppendVarint(v.v[1])
                   [] OTHER -> v.v)
appendAttributes(kvs) ==
  AppendUvarint(Len(kvs)) \o
  FlattenSeq([i \in DOMAIN kvs |-> appendString(kvs[i].key) \o appendValue(kvs[i].value)])

encodeSpan(s) ==
  FlattenSeq(<< <<codecVersion>>, s.trace, s.span, s.parent,
                appendString(s.name), <<s.kind>>, appendString(s.service),
                AppendVarint(s.start[1]), AppendVarint(s.end[1]),
                <<s.code>>, appendString(s.message),
                appendAttributes(s.attributes), appendAttributes(s.resource) >>)

(***************************************************************************)
(* Decoding.  A reader of the decoder gives the decoder it leaves behind,  *)
(* with what it returns added to out, or none if it fails: err sticks.     *)
(***************************************************************************)

decoder(p) == [buf |-> p, out |-> << >>]

\* What is left of buf after n bytes, and what a reader of them returns.
Took(d, n, what) == [buf |-> SubSeq(d.buf, n + 1, Len(d.buf)), out |-> Append(d.out, what)]

bytes(d, n) == IF Len(d.buf) < n THEN {} ELSE {Took(d, n, SubSeq(d.buf, 1, n))}
byte(d) == IF d.buf = << >> THEN {} ELSE {Took(d, 1, d.buf[1])}

\* binary.Uvarint: it fails if no last digit is there, or on overflow.
Number(digits) ==
  LET from[i \in 1..(Len(digits) + 1)] ==
        IF i > Len(digits) THEN 0 ELSE (digits[i] % Base) + Base * from[i + 1]
  IN from[1]
uvarint(d) ==
  LET ends == {i \in DOMAIN d.buf : d.buf[i] < Base /\ \A j \in 1..(i - 1) : d.buf[j] >= Base}
  IN {u \in {Took(d, n, Number(SubSeq(d.buf, 1, n))) : n \in ends} : Last(u.out) < 2^Width}
varint(d) ==
  {[u EXCEPT !.out[Len(u.out)] = IF @ % 2 = 0 THEN @ \div 2 ELSE -((@ + 1) \div 2)] : u \in uvarint(d)}

string(d) ==
  LET Bytes(u) == bytes([u EXCEPT !.out = d.out], Last(u.out))
  IN UNION {Bytes(u) : u \in uvarint(d)}

\* One turn of the loop of attributes; k has read the key and the kind.
attributeValue(k) ==
  CASE k.out[2] = 0 -> {[k EXCEPT !.out = Append(@, << >>)]}
    [] k.out[2] = 1 -> string(k)
    [] k.out[2] = 2 -> {[b EXCEPT !.out[3] = <<IF @ = 1 THEN 1 ELSE 0>>] : b \in byte(k)}
    [] k.out[2] = 3 -> {[n EXCEPT !.out[3] = <<@>>] : n \in varint(k)}
    [] k.out[2] = 4 -> bytes(k, FloatLen)
    [] OTHER -> {}
attribute(d) ==
  LET kinds == UNION {byte(s) : s \in string([d EXCEPT !.out = << >>])}
      KeyValue(v) == [key |-> v.out[1], value |-> [kind |-> v.out[2], v |-> v.out[3]]]
  IN {[v EXCEPT !.out = Append(d.out, KeyValue(v))] : v \in UNION {attributeValue(k) : k \in kinds}}

\* Mutant of attributes: an attribute is taken to need more than two bytes.
attributesBound(d) ==
  LET bounded == {u \in uvarint(d) : Last(u.out) = 0 \/ Last(u.out) < Len(u.buf) \div 2}
      Loop(u) == FoldLeft(LAMBDA ds, i : UNION {attribute(a) : a \in ds},
                          {[u EXCEPT !.out = << >>]}, [i \in 1..Last(u.out) |-> i])
  IN {[a EXCEPT !.out = Append(d.out, @)] : a \in UNION {Loop(u) : u \in bounded}}

attributes(d) ==
  LET bounded == {u \in uvarint(d) : Last(u.out) <= Len(u.buf) \div 2}
      Loop(u) == FoldLeft(LAMBDA ds, i : UNION {attribute(a) : a \in ds},
                          {[u EXCEPT !.out = << >>]}, [i \in 1..Last(u.out) |-> i])
  IN {[a EXCEPT !.out = Append(d.out, @)] : a \in UNION {Loop(u) : u \in bounded}}

\* The fields in the order decodeSpan reads them.
Fields == <<"byte", "id", "id", "id", "string", "byte", "string", "varint", "varint",
            "byte", "string", "attributes", "attributes">>
Field(d, f) ==
  CASE f = "byte" -> byte(d)
    [] f = "id" -> bytes(d, IdLen)
    [] f = "string" -> string(d)
    [] f = "varint" -> varint(d)
    [] f = "attributes" -> attributes(d)
Read(p) == FoldLeft(LAMBDA ds, f : UNION {Field(d, f) : d \in ds}, {decoder(p)}, Fields)

\* Mutant of Decoded: bytes that are left over do not matter.
DecodedLoosely(d) == d.out[1] = codecVersion
Decoded(d) == d.out[1] = codecVersion /\ d.buf = << >>

\* The span, or none if decodeSpan returns an error.
decodeSpan(p) ==
  {[trace |-> d.out[2], span |-> d.out[3], parent |-> d.out[4], name |-> d.out[5], kind |-> d.out[6],
    service |-> d.out[7], start |-> <<d.out[8]>>, end |-> <<d.out[9]>>, code |-> d.out[10],
    message |-> d.out[11], attributes |-> d.out[12], resource |-> d.out[13]] :
   d \in {d \in Read(p) : Decoded(d)}}

(***************************************************************************)
(* The records of a segment.                                               *)
(***************************************************************************)

\* What Disk.Write appends for a batch; it fails if a payload is too large.
Records(spans) ==
  FlattenSeq([i \in DOMAIN spans |->
                LET payload == encodeSpan(spans[i]) IN <<Len(payload), 0>> \o payload])
Oversize(s) == Len(encodeSpan(s)) > MaxRecord

\* The span of the record at the start of data, and the record's length: none
\* if readRecord fails.
readRecord(data) ==
  IF Len(data) < recordHeader \/ data[1] > MaxRecord \/ Len(data) < recordHeader + data[1] THEN {}
  ELSE {[n |-> recordHeader + data[1], span |-> s] :
          s \in decodeSpan(SubSeq(data, recordHeader + 1, recordHeader + data[1]))}

\* Mutant of intactPrefix: the offset of a bad record is taken to be past it.
intactPrefixPast(data) ==
  LET from[good \in 0..Len(data)] ==
        LET got == readRecord(SubSeq(data, good + 1, Len(data)))
            r == CHOOSE r \in got : TRUE
        IN IF got = {} THEN [spans |-> << >>, good |-> Len(data)]
           ELSE [from[good + r.n] EXCEPT !.spans = <<r.span>> \o @]
  IN from[0]

intactPrefix(data) ==
  LET from[good \in 0..Len(data)] ==
        LET got == readRecord(SubSeq(data, good + 1, Len(data)))
            r == CHOOSE r \in got : TRUE
        IN IF got = {} THEN [spans |-> << >>, good |-> good]
           ELSE [from[good + r.n] EXCEPT !.spans = <<r.span>> \o @]
  IN from[0]
=============================================================================
