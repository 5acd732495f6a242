-------------------------------- MODULE MsgPack --------------------------------
(***************************************************************************)
(* The decoding of a sync payload's bytes (fish-rt-adapter sign.rs):       *)
(* MessagePackDecoder, which makes a JSON value of them.                   *)
(*                                                                         *)
(* A value is a record whose only field says what it is.  Texts are        *)
(* sequences of bytes.  The decoder's position is the rest of its data,    *)
(* and what can fail has a set for a result: {} for an error.              *)
(***************************************************************************)
EXTENDS Base64

Null == [null |-> TRUE]
Is(kind, value) == kind \in DOMAIN value
------------------------------------------------------------------------------
(* from_utf8 (external), but for overlong forms and surrogates.            *)
Width(lead) ==
  CASE lead \in 0..127 -> 1 [] lead \in 194..223 -> 2 [] lead \in 224..239 -> 3
    [] lead \in 240..244 -> 4 [] OTHER -> 0

Continues(byte) == byte \in 128..191

IsUtf8(b) ==
  \A i \in DOMAIN b :
    \/ \E j \in 1..3 :
         i > j /\ Width(b[i - j]) > j /\ \A k \in 0..(j - 1) : Continues(b[i - k])
    \/ Width(b[i]) > 0 /\ \A k \in 1..(Width(b[i]) - 1) : i + k <= Len(b) /\ Continues(b[i + k])

Unsigned(bytes) ==
  LET number[i \in 0..Len(bytes)] ==
        IF i = 0 THEN 0 ELSE 256 * number[i - 1] + bytes[i]
  IN  number[Len(bytes)]

(* Mutant: the cast to i8 is forgotten.                                    *)
SignLost(bytes) ==
  FoldLeft(LAMBDA acc, b : 256 * acc + b,
           IF Head(bytes) < 128 \/ Len(bytes) = 1 THEN Head(bytes) ELSE Head(bytes) - 256,
           Tail(bytes))

Signed(bytes) ==
  FoldLeft(LAMBDA acc, b : 256 * acc + b,
           IF Head(bytes) < 128 THEN Head(bytes) ELSE Head(bytes) - 256, Tail(bytes))

(* Number::from_f64 refuses NaN and the infinities.                        *)
Finite(bytes) ==
  ~(bytes[1] % 128 = 127 /\ bytes[2] >= IF Len(bytes) = 4 THEN 128 ELSE 240)

Digits[n \in Nat] ==
  IF n < 10 THEN <<48 + n>> ELSE Append(Digits[n \div 10], 48 + (n % 10))

Decimal(n) == IF n < 0 THEN <<45>> \o Digits[-n] ELSE Digits[n]

(* value_to_key; the JSON text of the remaining kinds is known by the      *)
(* value itself.                                                           *)
KeyOf(value) ==
  CASE Is("string", value) -> value.string
    [] Is("null", value) -> <<110, 117, 108, 108>>
    [] Is("bool", value) -> IF value.bool THEN <<116, 114, 117, 101>>
                                          ELSE <<102, 97, 108, 115, 101>>
    [] Is("number", value) -> Decimal(value.number)
    [] OTHER -> <<-1, value>>

(* The map of the values at odd places to those after them.                *)
ObjectOf(items) ==
  LET entries == 1..(Len(items) \div 2)
      key == [i \in entries |-> KeyOf(items[2 * i - 1])]
  IN  [k \in {key[i] : i \in entries} |-> items[2 * Max({i \in entries : key[i] = k})]]

(* What a format byte announces: a value, or how many make it up.          *)
Announced(kind, value, count, rest) ==
  [kind |-> kind, value |-> value, count |-> count, rest |-> rest]

Done(value, rest) == {Announced("plain", value, 0, rest)}

(* Mutant: the end of the data is one byte too far.                        *)
TakePastEnd(count, data) ==
  IF count > Len(data) + 1 \/ (data = <<>> /\ count > 0) THEN {}
  ELSE {[bytes |-> SubSeq(data, 1, IF count < Len(data) THEN count ELSE Len(data)),
         rest |-> SubSeq(data, count + 1, Len(data))]}

(* read_bytes, and read_byte for one                                       *)
Take(count, data) ==
  IF count > Len(data) THEN {}
  ELSE {[bytes |-> SubSeq(data, 1, count), rest |-> SubSeq(data, count + 1, Len(data))]}

(* A size, given by the format byte or by the `width' bytes that follow.   *)
Fixed(size, data) == {[size |-> size, rest |-> data]}

Sized(width, data) == {[size |-> Unsigned(r.bytes), rest |-> r.rest] : r \in Take(width, data)}

Chunk(sizes) == UNION {Take(s.size, s.rest) : s \in sizes}

(* read_string and read_bin                                                *)
String(sizes) ==
  UNION {Done([string |-> r.bytes], r.rest) : r \in {q \in Chunk(sizes) : IsUtf8(q.bytes)}}

Bin(sizes) ==
  UNION {Done([string |-> IF IsUtf8(r.bytes) THEN r.bytes ELSE Encode64(r.bytes)], r.rest) :
           r \in Chunk(sizes)}

Array(sizes) == {Announced("array", Null, s.size, s.rest) : s \in sizes}

Map(sizes) == {Announced("object", Null, 2 * s.size, s.rest) : s \in sizes}

Number(signed, width, data) ==
  UNION {Done([number |-> IF signed THEN Signed(r.bytes) ELSE Unsigned(r.bytes)], r.rest) :
           r \in Take(width, data)}

Float(width, data) ==
  UNION {Done([float |-> r.bytes], r.rest) : r \in {q \in Take(width, data) : Finite(q.bytes)}}

(* The widths of lengths and numbers, in the order of their format bytes.  *)
FieldWidth == <<1, 2, 4, 8>>

(* decode_value's match: by ranges of the format byte.                     *)
DecodeFormat(format, data) ==
  CASE format \in 0..127 -> Done([number |-> format], data)
    [] format \in 128..143 -> Map(Fixed(format % 16, data))
    [] format \in 144..159 -> Array(Fixed(format % 16, data))
    [] format \in 160..191 -> String(Fixed(format % 32, data))
    [] format = 192 -> Done(Null, data)
    [] format \in 194..195 -> Done([bool |-> format = 195], data)
    [] format \in 196..198 -> Bin(Sized(FieldWidth[format - 195], data))
    [] format \in 202..203 -> Float(4 * (format - 201), data)
    [] format \in 204..207 -> Number(FALSE, FieldWidth[format - 203], data)
    [] format \in 208..211 -> Number(TRUE, FieldWidth[format - 207], data)
    [] format \in 217..219 -> String(Sized(FieldWidth[format - 216], data))
    [] format \in 220..221 -> Array(Sized(FieldWidth[format - 218], data))
    [] format \in 222..223 -> Map(Sized(FieldWidth[format - 220], data))
    [] format \in 224..255 -> Done([number |-> format - 256], data)
    [] OTHER -> {}

Announce(data) == UNION {DecodeFormat(r.bytes[1], r.rest) : r \in Take(1, data)}

(* The value that was announced, of the values that make it up.            *)
Made(head, items) ==
  CASE head.kind = "array" -> [array |-> items]
    [] head.kind = "object" -> [object |-> ObjectOf(items)]
    [] OTHER -> head.value

(* Bytes and how many values are expected of them: one after the other,    *)
(* each with those that make it up, and what is left of the data.          *)
Tasks == Nat \X Seq(0..255)

InARow(head, inner, others) ==
  [items |-> <<Made(head, inner.items)>> \o others.items, rest |-> others.rest]

Items[task \in Tasks] ==
  IF task[1] = 0 THEN {[items |-> <<>>, rest |-> task[2]]}
  ELSE UNION {UNION {{InARow(head, inner, others) :
                        others \in Items[<<task[1] - 1, inner.rest>>]} :
                       inner \in Items[<<head.count, head.rest>>]} :
                head \in Announce(task[2])}

DecodeValue(data) ==
  {[value |-> r.items[1], rest |-> r.rest] : r \in Items[<<1, data>>]}

(* MessagePackDecoder::decode: what is left over is ignored.               *)
Decode(data) == {r.value : r \in DecodeValue(data)}
==============================================================================
