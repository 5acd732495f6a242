---------------------------- MODULE MsgPackFormat ----------------------------
(***************************************************************************)
(* The decoder of MsgPack against the format's description.                *)
(***************************************************************************)
EXTENDS PureFunctions
------------------------------------------------------------------------------
(* MessagePack as its format description has it (external): the set of all *)
(* encodings of a value, in whatever width, and with a map's entries in    *)
(* any order and repeated ones before those that replace them.             *)

RECURSIVE BigEndian(_, _)
BigEndian(n, width) ==
  IF width = 0 THEN <<>> ELSE Append(BigEndian(n \div 256, width - 1), n % 256)

Widths(first, n) ==
  {<<first + i>> \o BigEndian(n, 2^i) : i \in {j \in 0..2 : j = 2 \/ n < 256^(2^j)}}

EncodeNumber(n) ==
  (IF n \in 0..127 THEN {<<n>>} ELSE {})
  \cup (IF n \in -32..-1 THEN {<<256 + n>>} ELSE {})
  \cup (IF n >= 0 THEN Widths(204, n) \cup {<<207>> \o BigEndian(n, 8)} ELSE {})
  \cup {<<208 + i>> \o BigEndian(n, 2^i) :
          i \in {j \in 0..3 : j >= 2 \/ n \in -(128 * 256^j)..(128 * 256^j - 1)}}

EncodeString(s) ==
  {h \o s : h \in (IF Len(s) < 32 THEN {<<160 + Len(s)>>} ELSE {})
                  \cup Widths(217, Len(s))
                  \cup (IF IsUtf8(s) THEN Widths(196, Len(s)) ELSE {})}

Header(small, wide, n) ==
  (IF n < 16 THEN {<<small + n>>} ELSE {}) \cup
  {<<wide + i - 1>> \o BigEndian(n, 2^i) : i \in 1..2}

Joined(Left, Right) == {l \o r : l \in Left, r \in Right}

RECURSIVE Encodings(_)

EncodeAll(values) ==
  FoldLeft(LAMBDA acc, v : Joined(acc, Encodings(v)), {<<>>}, values)

(* A key may be any value that has it for its text.                        *)
Keys(text) ==
  {[string |-> text]} \cup {k \in {Null, [bool |-> TRUE], [number |-> 1]} : KeyOf(k) = text}

Entries(f, order) ==
  FoldLeft(LAMBDA acc, k : {a \o <<key, f[k]>> : a \in acc, key \in Keys(k)}, {<<>>}, order)

EncodeObject(f) ==
  LET orders == SetToSeqs(DOMAIN f)
      doubled == {<<[string |-> o[1]], Null>> \o e :
                    o \in orders \ {<<>>}, e \in UNION {Entries(f, p) : p \in orders}}
      plain == UNION {Entries(f, o) : o \in orders}
  IN  UNION {Joined(Header(128, 222, Len(e) \div 2), EncodeAll(e)) : e \in plain \cup doubled}

Encodings(v) ==
  CASE Is("null", v) -> {<<192>>}
    [] Is("bool", v) -> {<<IF v.bool THEN 195 ELSE 194>>}
    [] Is("number", v) -> EncodeNumber(v.number)
    [] Is("float", v) -> {<<IF Len(v.float) = 4 THEN 202 ELSE 203>> \o v.float}
    [] Is("string", v) -> EncodeString(v.string)
    [] Is("blob", v) -> {h \o v.blob : h \in Widths(196, Len(v.blob))}
    [] Is("array", v) -> Joined(Header(144, 220, Len(v.array)), EncodeAll(v.array))
    [] Is("object", v) -> EncodeObject(v.object)
------------------------------------------------------------------------------
(* What a value is decoded to: bytes that are not UTF-8 to their base64,   *)
(* or to nothing where a string was announced, as are the infinities.      *)
Meaning(v) ==
  CASE Is("blob", v) -> {[string |-> IF IsUtf8(v.blob) THEN v.blob ELSE Encode64(v.blob)]}
    [] Is("string", v) -> {u \in {v} : IsUtf8(v.string)}
    [] Is("float", v) -> {u \in {v} : Finite(v.float)}
    [] OTHER -> {v}

(* Whatever encoding of a value the peer chose, the decoder gives back     *)
(* that value, keys as the text of whatever they were, and ignores what    *)
(* follows it (sign.rs 67-273).                                            *)
DecodesEncodings ==
  probe.what = "pack" /\ probe.state # "cut" => Decode(probe.bytes) = Meaning(probe.value)
==============================================================================
