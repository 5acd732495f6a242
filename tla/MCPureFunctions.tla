--------------------------- MODULE MCPureFunctions ---------------------------
(* PureFunctions on payloads of every length of a last group, on the       *)
(* attributes the macro knows and on all encodings of values at the        *)
(* boundaries of every format.                                             *)
EXTENDS MsgPackFormat, TLC

MCPayloads == {<<>>, <<0>>, <<255, 16>>, <<1, 2, 3>>, <<129, 161, 107, 255>>}

Method(name, receiver, attrs) == [name |-> name, receiver |-> receiver, attrs |-> attrs]

Attr(path, args) == [path |-> path, args |-> args]

Ping == Attr("message", <<Literal("/ping")>>)
Rest == Attr("message", <<Bare("fallback")>>)
Other == Attr("other", <<>>)

MCAttrs ==
  {<<>>, <<Other>>, <<Ping>>, <<Other, Rest>>, <<Ping, Rest>>,
   <<Attr("event", <<Literal("system")>>)>>, <<Attr("message", <<Literal("x"), Bare("fallback")>>)>>,
   <<Attr("message", <<Pair("pattern", "x"), Pair("kind", "other")>>)>>,
   <<Attr("command", <<Pair("keyword", "x"), Pair("kind", "prefix")>>)>>}

MCMethods ==
  {Method(n, r, a) : n \in {"a", "b"}, r \in {"MutRef"}, a \in MCAttrs}
  \cup {Method("a", "Owned", <<Ping>>), Method("b", "Ref", <<Ping>>)}
------------------------------------------------------------------------------
Rep(n, byte) == [i \in 1..n |-> byte]

Numbers == {-2147483647, -65536, -32769, -32768, -129, -128, -33, -32, -1,
            0, 127, 128, 255, 256, 32767, 32768, 65535, 65536, 2147483647}

Strings == {<<>>, <<49>>, <<195, 169>>, <<226, 130, 172>>, <<240, 159, 144, 159>>,
            Rep(31, 97), Rep(32, 97), Rep(256, 97)}

(* Cut inside a character, a lone continuation, and no character at all.   *)
Blobs == {<<195>>, <<130, 97>>, <<255, 0>>, <<97, 255, 254, 253>>}

Str(text) == [string |-> text]
Num(n) == [number |-> n]

Flat ==
  {Null, [bool |-> TRUE], [bool |-> FALSE]}
  \cup {Num(n) : n \in Numbers} \cup {Str(s) : s \in Strings \cup {<<195>>}}
  \cup {[blob |-> b] : b \in Blobs}
  \cup {[float |-> f] : f \in {<<63, 128, 0, 0>>, <<127, 128, 0, 0>>, <<255, 192, 0, 0>>,
                               <<127, 240, 0, 0, 0, 0, 0, 0>>, <<127, 239, 0, 0, 0, 0, 0, 1>>}}

MCValues ==
  Flat \cup {
    [array |-> <<>>], [object |-> <<>>], [array |-> <<Num(1), Str(<<49>>)>>],
    [array |-> Rep(15, Null)], [array |-> Rep(16, Null)],
    [object |-> (<<49>> :> Num(-1))],
    [object |-> (<<49>> :> Null) @@ (<<110, 117, 108, 108>> :> [bool |-> TRUE])],
    [object |-> (<<116, 114, 117, 101>> :> [object |-> (<<>> :> Null)])],
    [object |-> (<<116, 114, 117, 101>> :> [array |-> <<Null>>])],
    [array |-> <<[object |-> (<<49>> :> Null)], Num(1)>>]}

MCMessages == {[value |-> v, encodings |-> Encodings(v)] : v \in MCValues}
==============================================================================
