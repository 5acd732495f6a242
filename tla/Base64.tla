------------------------------- MODULE Base64 --------------------------------
(***************************************************************************)
(* Base64 with padding (external), and the text of a sync payload, which   *)
(* is base64 up to noise and missing padding (fish-rt-adapter sign.rs).    *)
(*                                                                         *)
(* Texts are sequences of characters' codes.  What can fail has a set for  *)
(* a result: {} for an error.                                              *)
(***************************************************************************)
EXTENDS Integers, SequenceOps

CharOf(s) ==
  CASE s < 26 -> 65 + s [] s \in 26..51 -> 71 + s [] s \in 52..61 -> s - 4
    [] s = 62 -> 43 [] s = 63 -> 47

Chars == [s \in 0..63 |-> CharOf(s)]

Equals == 61  \* '='

Alphabet == Range(Chars) \cup {Equals}

At(s, i) == IF i <= Len(s) THEN s[i] ELSE 0

(* Three bytes are four digits of six bits.                                *)
Sextet(bytes, i) ==
  LET b(k) == At(bytes, 3 * ((i - 1) \div 4) + k)
  IN  CASE i % 4 = 1 -> b(1) \div 4
        [] i % 4 = 2 -> (b(1) % 4) * 16 + b(2) \div 16
        [] i % 4 = 3 -> (b(2) % 16) * 4 + b(3) \div 64
        [] i % 4 = 0 -> b(3) % 64

Octet(sextets, i) ==
  LET s(k) == At(sextets, 4 * ((i - 1) \div 3) + k)
  IN  CASE i % 3 = 1 -> s(1) * 4 + s(2) \div 16
        [] i % 3 = 2 -> (s(2) % 16) * 16 + s(3) \div 4
        [] i % 3 = 0 -> (s(3) % 4) * 64 + s(4)

Pad(s) == s \o [i \in 1..((4 - (Len(s) % 4)) % 4) |-> Equals]

Encode64(bytes) ==
  Pad([i \in 1..((8 * Len(bytes) + 5) \div 6) |-> Chars[Sextet(bytes, i)]])

Decode64(text) ==
  LET digits == Kept(text, Range(text) \ {Equals})
      sextets == [i \in DOMAIN digits |-> CHOOSE s \in 0..63 : Chars[s] = digits[i]]
      bytes == [i \in 1..((6 * Len(digits)) \div 8) |-> Octet(sextets, i)]
  IN  {b \in {bytes} : Range(digits) \subseteq Range(Chars) /\ Encode64(b) = text}

(* Mutant: the text is decoded as it comes but for the noise.              *)
CleanUnpadded(raw) == Kept(raw, Alphabet)

(* clean_base64_input                                                      *)
Clean(raw) == Pad(Kept(raw, Alphabet))

DecodePayload(raw) == Decode64(Clean(raw))
==============================================================================
