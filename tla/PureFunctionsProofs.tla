------------------------- MODULE PureFunctionsProofs -------------------------
(***************************************************************************)
(* Proofs about PureFunctions for every payload, any noise, every message  *)
(* and every impl block.                                                   *)
(***************************************************************************)
EXTENDS PureFunctions, SequenceLemmas

(* What a plugin's handlers have of the methods they are made of.          *)
LEMMA HandlersFit ==
  ASSUME NEW methods, NEW f \in Handlers(methods)
  PROVE  /\ DOMAIN f = DOMAIN methods
         /\ \A i \in DOMAIN methods :
              f[i].id = methods[i].name /\ methods[i].receiver \in {"Ref", "MutRef"}
<1>1. DOMAIN f = DOMAIN methods /\ \A i \in DOMAIN methods : f[i] \in HandlerOf(methods[i])
  BY DEF Handlers
<1>2. ASSUME NEW m, NEW h \in HandlerOf(m)
      PROVE  h.id = m.name /\ m.receiver \in {"Ref", "MutRef"}
  <2> DEFINE routes == IF m.receiver \notin {"Ref", "MutRef"} THEN {}
                       ELSE IF Head(HandlerAttrs(m)).path = "event"
                            THEN ParseEventAttr(Head(HandlerAttrs(m)).args)
                            ELSE ParseMessageAttr(Head(HandlerAttrs(m)).args)
  <2>1. HandlerOf(m) = {[id |-> m.name, kind |-> r.kind, pattern |-> r.pattern] : r \in routes}
    BY DEF HandlerOf
  <2>2. routes # {} => m.receiver \in {"Ref", "MutRef"}
    OBVIOUS
  <2> HIDE DEF routes
  <2>3. PICK r \in routes : h = [id |-> m.name, kind |-> r.kind, pattern |-> r.pattern]
    BY <2>1
  <2>4. QED BY <2>2, <2>3
<1>3. QED BY <1>1, <1>2

(* The handlers of a block that compiles call methods that stay, and are   *)
(* apart if these are.                                                     *)
LEMMA ExpansionFits ==
  ASSUME NEW block, IsSeq(block), NEW e \in Expand(block)
  PROVE  LET names == [i \in DOMAIN e.kept |-> e.kept[i].name]
             ids == [i \in DOMAIN e.handlers |-> e.handlers[i].id]
         IN  /\ \A i \in DOMAIN ids :
                  \E m \in Range(e.kept) : m.name = ids[i] /\ m.receiver \in {"Ref", "MutRef"}
             /\ IsInjective(names) => IsInjective(ids)
<1> DEFINE One == {m \in Range(block) : HasOne(m)}
           Few == {m \in Range(block) : Len(HandlerAttrs(m)) <= 1}
           handled == Kept(block, One)
           stays == Kept(block, Few)
           names == [i \in DOMAIN e.kept |-> e.kept[i].name]
           ids == [i \in DOMAIN e.handlers |-> e.handlers[i].id]
<1>1. PICK f \in Handlers(handled) : e.handlers = f /\ e.kept = stays
  <2>1. Expand(block) = {[handlers |-> h, kept |-> stays] : h \in Handlers(handled)}
    BY DEF Expand, Stay
  <2> HIDE DEF stays, handled
  <2>2. PICK f \in Handlers(handled) : e = [handlers |-> f, kept |-> stays]
    BY <2>1
  <2>3. QED BY <2>2
<1>2. One \subseteq Few /\ One \cap Range(block) \subseteq Few
  <2>1. \A n : n = 1 => n <= 1
    OBVIOUS
  <2>2. \A m : HasOne(m) => Len(HandlerAttrs(m)) <= 1
    BY <2>1, Zenon DEF HasOne
  <2>3. QED BY <2>2
<1> HIDE DEF One, Few
<1>3. /\ IsSeq(handled) /\ IsSeq(stays) /\ Range(handled) \subseteq Range(stays)
      /\ IsInjective(stays) => IsInjective(handled)
  <2>1. handled = Kept(stays, One)
    BY <1>2, KeptTwice
  <2>2. /\ IsSeq(handled) /\ IsSeq(stays)
        /\ Range(handled) = Range(block) \cap One /\ Range(stays) = Range(block) \cap Few
    BY KeptFacts
  <2> HIDE DEF handled, stays
  <2>3. QED BY <1>2, <2>1, <2>2, KeptFacts
<1> HIDE DEF handled, stays
<1>4. /\ DOMAIN f = DOMAIN handled
      /\ \A i \in DOMAIN handled :
           f[i].id = handled[i].name /\ handled[i].receiver \in {"Ref", "MutRef"}
  BY HandlersFit
<1>5. /\ DOMAIN ids = DOMAIN handled /\ \A i \in DOMAIN handled : ids[i] = handled[i].name
      /\ DOMAIN names = DOMAIN stays /\ \A i \in DOMAIN stays : names[i] = stays[i].name
  BY <1>1, <1>4
<1> HIDE DEF ids, names
<1>6. ASSUME NEW i \in DOMAIN handled PROVE handled[i] \in Range(stays)
  BY <1>3 DEF Range
<1>7. \A i \in DOMAIN ids :
        \E m \in Range(e.kept) : m.name = ids[i] /\ m.receiver \in {"Ref", "MutRef"}
  BY <1>1, <1>4, <1>5, <1>6
<1>8. ASSUME IsInjective(names) PROVE IsInjective(ids)
  <2>1. IsInjective(stays)
    BY <1>5, <1>8 DEF IsInjective
  <2>2. ASSUME NEW i \in DOMAIN ids, NEW j \in DOMAIN ids, ids[i] = ids[j] PROVE i = j
    <3>1. PICK k \in DOMAIN stays : handled[i] = stays[k]
      BY <1>5, <1>6 DEF Range
    <3>2. PICK l \in DOMAIN stays : handled[j] = stays[l]
      BY <1>5, <1>6 DEF Range
    <3>3. names[k] = names[l]
      BY <1>5, <2>2, <3>1, <3>2
    <3>4. handled[i] = handled[j]
      <4>1. k \in DOMAIN names /\ l \in DOMAIN names
        BY <1>5
      <4>2. k = l
        BY <1>8, <3>3, <4>1 DEF IsInjective
      <4>3. QED BY <3>1, <3>2, <4>2
    <3>5. QED BY <1>3, <1>5, <2>1, <3>4 DEF IsInjective
  <2>3. QED BY <2>2 DEF IsInjective
<1>9. QED BY <1>7, <1>8 DEF ids, names
------------------------------------------------------------------------------
(* A payload's digits, with q padding characters after them.               *)
DigitCount(n) == (8 * n + 5) \div 6

Missing(n) == (4 - (n % 4)) % 4

DigitsOf(bytes) == [i \in 1..DigitCount(Len(bytes)) |-> Chars[Sextet(bytes, i)]]

Padding(q) == [i \in 1..q |-> Equals]

Padded(bytes, q) == DigitsOf(bytes) \o Padding(q)

(* Digits are characters of the alphabet, all different, and none is '='.  *)
LEMMA CharFacts ==
  /\ \A s \in 0..63 : CharOf(s) \in Int /\ CharOf(s) # Equals
  /\ \A s, t \in 0..63 : CharOf(s) = CharOf(t) => s = t
<1>1. \A s \in 0..63 :
        \/ s < 26 /\ CharOf(s) = 65 + s
        \/ s \in 26..51 /\ CharOf(s) = 71 + s
        \/ s \in 52..61 /\ CharOf(s) = s - 4
        \/ s = 62 /\ CharOf(s) = 43
        \/ s = 63 /\ CharOf(s) = 47
  BY DEF CharOf
<1>2. ASSUME NEW s \in 0..63 PROVE CharOf(s) \in Int /\ CharOf(s) # 61
  BY <1>1
<1>3. ASSUME NEW s \in 0..63, NEW t \in 0..63, CharOf(s) = CharOf(t) PROVE s = t
  <2>1. \/ s < 26 /\ CharOf(s) \in 65..90 /\ s = CharOf(s) - 65
        \/ s \in 26..51 /\ CharOf(s) \in 97..122 /\ s = CharOf(s) - 71
        \/ s \in 52..61 /\ CharOf(s) \in 48..57 /\ s = CharOf(s) + 4
        \/ s = 62 /\ CharOf(s) = 43
        \/ s = 63 /\ CharOf(s) = 47
    BY <1>1
  <2>2. \/ t < 26 /\ CharOf(t) \in 65..90 /\ t = CharOf(t) - 65
        \/ t \in 26..51 /\ CharOf(t) \in 97..122 /\ t = CharOf(t) - 71
        \/ t \in 52..61 /\ CharOf(t) \in 48..57 /\ t = CharOf(t) + 4
        \/ t = 62 /\ CharOf(t) = 43
        \/ t = 63 /\ CharOf(t) = 47
    BY <1>1
  <2>3. QED BY <1>3, <2>1, <2>2
<1>4. QED BY <1>2, <1>3 DEF Equals

(* What becomes of three bytes x, y, z, and of four sextets a, b, c, d.    *)
FirstSextet(x) == x \div 4
SecondSextet(x, y) == (x % 4) * 16 + y \div 16
ThirdSextet(y, z) == (y % 16) * 4 + z \div 64
FourthSextet(z) == z % 64

FirstOctet(a, b) == a * 4 + b \div 16
SecondOctet(b, c) == (b % 16) * 16 + c \div 4
ThirdOctet(c, d) == (c % 4) * 64 + d

(* They are the q-th three bytes, or the q-th four sextets.                *)
ThreeAt(bytes, q, x, y, z) ==
  x = At(bytes, 3 * q + 1) /\ y = At(bytes, 3 * q + 2) /\ z = At(bytes, 3 * q + 3)

FourAt(sextets, q, a, b, c, d) ==
  /\ a = At(sextets, 4 * q + 1) /\ b = At(sextets, 4 * q + 2)
  /\ c = At(sextets, 4 * q + 3) /\ d = At(sextets, 4 * q + 4)

(* The sextets there, and the octets, are what becomes of them.            *)
FourSextets(bytes, q, x, y, z) ==
  /\ Sextet(bytes, 4 * q + 1) = FirstSextet(x)
  /\ Sextet(bytes, 4 * q + 2) = SecondSextet(x, y)
  /\ Sextet(bytes, 4 * q + 3) = ThirdSextet(y, z)
  /\ Sextet(bytes, 4 * q + 4) = FourthSextet(z)

ThreeOctets(sextets, q, a, b, c, d) ==
  /\ Octet(sextets, 3 * q + 1) = FirstOctet(a, b)
  /\ Octet(sextets, 3 * q + 2) = SecondOctet(b, c)
  /\ Octet(sextets, 3 * q + 3) = ThirdOctet(c, d)

(* Sextets are numbers of six bits, and the octets undo them.              *)
SixBits(x, y, z) ==
  /\ FirstSextet(x) \in 0..63 /\ SecondSextet(x, y) \in 0..63
  /\ ThirdSextet(y, z) \in 0..63 /\ FourthSextet(z) \in 0..63

PutTogether(x, y, z) ==
  /\ FirstOctet(FirstSextet(x), SecondSextet(x, y)) = x
  /\ SecondOctet(SecondSextet(x, y), ThirdSextet(y, z)) = y
  /\ ThirdOctet(ThirdSextet(y, z), FourthSextet(z)) = z

(* The sextets of the q-th three bytes.                                    *)
LEMMA SextetIs ==
  ASSUME NEW bytes, NEW q \in Nat, NEW x, NEW y, NEW z, ThreeAt(bytes, q, x, y, z)
  PROVE  FourSextets(bytes, q, x, y, z)
<1>1. ASSUME NEW i, (i - 1) \div 4 = q
      PROVE  /\ i % 4 = 1 => Sextet(bytes, i) = FirstSextet(x)
             /\ i % 4 = 2 => Sextet(bytes, i) = SecondSextet(x, y)
             /\ i % 4 = 3 => Sextet(bytes, i) = ThirdSextet(y, z)
             /\ i % 4 = 0 => Sextet(bytes, i) = FourthSextet(z)
  BY <1>1 DEF Sextet, ThreeAt, FirstSextet, SecondSextet, ThirdSextet, FourthSextet
<1>2. Sextet(bytes, 4 * q + 1) = FirstSextet(x)
  <2>1. PICK i : i = 4 * q + 1
    OBVIOUS
  <2>2. (i - 1) \div 4 = q
    BY <2>1
  <2>3. i % 4 = 1
    BY <2>1
  <2>4. Sextet(bytes, i) = FirstSextet(x)
    BY <1>1, <2>2, <2>3
  <2>5. QED BY <2>1, <2>4
<1>3. Sextet(bytes, 4 * q + 2) = SecondSextet(x, y)
  <2>1. PICK i : i = 4 * q + 2
    OBVIOUS
  <2>2. (i - 1) \div 4 = q
    BY <2>1
  <2>3. i % 4 = 2
    BY <2>1
  <2>4. Sextet(bytes, i) = SecondSextet(x, y)
    BY <1>1, <2>2, <2>3
  <2>5. QED BY <2>1, <2>4
<1>4. Sextet(bytes, 4 * q + 3) = ThirdSextet(y, z)
  <2>1. PICK i : i = 4 * q + 3
    OBVIOUS
  <2>2. (i - 1) \div 4 = q
    BY <2>1
  <2>3. i % 4 = 3
    BY <2>1
  <2>4. Sextet(bytes, i) = ThirdSextet(y, z)
    BY <1>1, <2>2, <2>3
  <2>5. QED BY <2>1, <2>4
<1>5. Sextet(bytes, 4 * q + 4) = FourthSextet(z)
  <2>1. PICK i : i = 4 * q + 4
    OBVIOUS
  <2>2. (i - 1) \div 4 = q
    BY <2>1
  <2>3. i % 4 = 0
    BY <2>1
  <2>4. Sextet(bytes, i) = FourthSextet(z)
    BY <1>1, <2>2, <2>3
  <2>5. QED BY <2>1, <2>4
<1>6. QED BY <1>2, <1>3, <1>4, <1>5 DEF FourSextets

(* What is read of bytes are numbers of eight bits.                        *)
LEMMA BytesAt ==
  ASSUME NEW bytes \in Seq(0..255), NEW q \in Nat
  PROVE  \E x \in 0..255, y \in 0..255, z \in 0..255 : ThreeAt(bytes, q, x, y, z)
<1>1. Len(bytes) \in Nat /\ \A j \in 1..Len(bytes) : bytes[j] \in 0..255
  BY LenProperties, ElementOfSeq
<1>2. \A j \in Nat \ {0} : At(bytes, j) \in 0..255
  BY <1>1 DEF At
<1>3. PICK x \in 0..255 : x = At(bytes, 3 * q + 1)
  <2>1. 3 * q + 1 \in Nat \ {0}
    OBVIOUS
  <2>2. QED BY <1>2, <2>1, Zenon
<1>4. PICK y \in 0..255 : y = At(bytes, 3 * q + 2)
  <2>1. 3 * q + 2 \in Nat \ {0}
    OBVIOUS
  <2>2. QED BY <1>2, <2>1, Zenon
<1>5. PICK z \in 0..255 : z = At(bytes, 3 * q + 3)
  <2>1. 3 * q + 3 \in Nat \ {0}
    OBVIOUS
  <2>2. QED BY <1>2, <2>1, Zenon
<1>6. ThreeAt(bytes, q, x, y, z)
  BY <1>3, <1>4, <1>5, Zenon DEF ThreeAt
<1>7. QED BY <1>6, Zenon

(* Taking apart what was put together of bits.                             *)
LEMMA Bits ==
  ASSUME NEW x \in 0..255, NEW y \in 0..255, NEW z \in 0..255
  PROVE  SixBits(x, y, z) /\ PutTogether(x, y, z)
<1>1. PICK a \in 0..63, e \in 0..3, f \in 0..15, g \in 0..15, h \in 0..3, l \in 0..63 :
        /\ a = x \div 4 /\ e = x % 4 /\ f = y \div 16 /\ g = y % 16
        /\ h = z \div 64 /\ l = z % 64
  <2>1. x \div 4 \in 0..63 /\ x % 4 \in 0..3
    OBVIOUS
  <2>2. y \div 16 \in 0..15 /\ y % 16 \in 0..15
    OBVIOUS
  <2>3. z \div 64 \in 0..3 /\ z % 64 \in 0..63
    OBVIOUS
  <2>4. QED BY <2>1, <2>2, <2>3, Zenon
<1>2. x = a * 4 + e
  BY <1>1
<1>3. y = f * 16 + g
  BY <1>1
<1>4. z = h * 64 + l
  BY <1>1
<1>5. PICK b \in 0..63, c \in 0..63 : b = e * 16 + f /\ c = g * 4 + h
  <2>1. e * 16 + f \in 0..63 /\ g * 4 + h \in 0..63
    OBVIOUS
  <2>2. QED BY <2>1, Zenon
<1>6. b \div 16 = e /\ b % 16 = f
  BY <1>5
<1>7. c \div 4 = g /\ c % 4 = h
  BY <1>5
<1>8. FirstSextet(x) = a /\ SecondSextet(x, y) = b /\ ThirdSextet(y, z) = c /\ FourthSextet(z) = l
  BY <1>1, <1>5 DEF FirstSextet, SecondSextet, ThirdSextet, FourthSextet
<1>9. FirstOctet(a, b) = x
  BY <1>2, <1>6 DEF FirstOctet
<1>10. SecondOctet(b, c) = y
  BY <1>3, <1>6, <1>7 DEF SecondOctet
<1>11. ThirdOctet(c, l) = z
  <2>1. (c % 4) * 64 + l = h * 64 + l
    BY <1>7
  <2>2. QED BY <1>4, <2>1, Zenon DEF ThirdOctet
<1>12. SixBits(x, y, z)
  BY <1>8 DEF SixBits
<1>13. PutTogether(x, y, z)
  BY <1>8, <1>9, <1>10, <1>11 DEF PutTogether
<1>14. QED BY <1>12, <1>13

(* The sextets of bytes are numbers of six bits.                           *)
LEMMA SextetType ==
  ASSUME NEW bytes \in Seq(0..255), NEW i \in Nat \ {0}
  PROVE  Sextet(bytes, i) \in 0..63
<1>1. PICK q \in Nat : q = (i - 1) \div 4
  OBVIOUS
<1>2. i = 4 * q + 1 \/ i = 4 * q + 2 \/ i = 4 * q + 3 \/ i = 4 * q + 4
  BY <1>1
<1>3. PICK x \in 0..255, y \in 0..255, z \in 0..255 : ThreeAt(bytes, q, x, y, z)
  BY BytesAt, ZenonT(60)
<1>4. FourSextets(bytes, q, x, y, z)
  BY <1>3, SextetIs, Zenon
<1>5. SixBits(x, y, z)
  BY Bits, ZenonT(60)
<1>6. CASE i = 4 * q + 1
  <2>1. Sextet(bytes, i) = FirstSextet(x)
    BY <1>4, <1>6, Zenon DEF FourSextets
  <2>2. QED BY <1>5, <2>1 DEF SixBits
<1>7. CASE i = 4 * q + 2
  <2>1. Sextet(bytes, i) = SecondSextet(x, y)
    BY <1>4, <1>7, Zenon DEF FourSextets
  <2>2. QED BY <1>5, <2>1 DEF SixBits
<1>8. CASE i = 4 * q + 3
  <2>1. Sextet(bytes, i) = ThirdSextet(y, z)
    BY <1>4, <1>8, Zenon DEF FourSextets
  <2>2. QED BY <1>5, <2>1 DEF SixBits
<1>9. CASE i = 4 * q + 4
  <2>1. Sextet(bytes, i) = FourthSextet(z)
    BY <1>4, <1>9, Zenon DEF FourSextets
  <2>2. QED BY <1>5, <2>1 DEF SixBits
<1>10. QED BY <1>2, <1>6, <1>7, <1>8, <1>9, Zenon

(* The octets of the q-th four sextets.                                    *)
LEMMA OctetIs ==
  ASSUME NEW sextets, NEW q \in Nat, NEW a, NEW b, NEW c, NEW d,
         FourAt(sextets, q, a, b, c, d)
  PROVE  ThreeOctets(sextets, q, a, b, c, d)
<1>1. ASSUME NEW j, (j - 1) \div 3 = q
      PROVE  /\ j % 3 = 1 => Octet(sextets, j) = FirstOctet(a, b)
             /\ j % 3 = 2 => Octet(sextets, j) = SecondOctet(b, c)
             /\ j % 3 = 0 => Octet(sextets, j) = ThirdOctet(c, d)
  BY <1>1 DEF Octet, FourAt, FirstOctet, SecondOctet, ThirdOctet
<1>2. Octet(sextets, 3 * q + 1) = FirstOctet(a, b)
  <2>1. PICK j : j = 3 * q + 1
    OBVIOUS
  <2>2. (j - 1) \div 3 = q
    BY <2>1
  <2>3. j % 3 = 1
    BY <2>1
  <2>4. Octet(sextets, j) = FirstOctet(a, b)
    BY <1>1, <2>2, <2>3
  <2>5. QED BY <2>1, <2>4
<1>3. Octet(sextets, 3 * q + 2) = SecondOctet(b, c)
  <2>1. PICK j : j = 3 * q + 2
    OBVIOUS
  <2>2. (j - 1) \div 3 = q
    BY <2>1
  <2>3. j % 3 = 2
    BY <2>1
  <2>4. Octet(sextets, j) = SecondOctet(b, c)
    BY <1>1, <2>2, <2>3
  <2>5. QED BY <2>1, <2>4
<1>4. Octet(sextets, 3 * q + 3) = ThirdOctet(c, d)
  <2>1. PICK j : j = 3 * q + 3
    OBVIOUS
  <2>2. (j - 1) \div 3 = q
    BY <2>1
  <2>3. j % 3 = 0
    BY <2>1
  <2>4. Octet(sextets, j) = ThirdOctet(c, d)
    BY <1>1, <2>2, <2>3
  <2>5. QED BY <2>1, <2>4
<1>5. QED BY <1>2, <1>3, <1>4 DEF ThreeOctets

(* The octets of the sextets of bytes are the bytes.                       *)
LEMMA OctetsOfSextets ==
  ASSUME NEW bytes \in Seq(0..255), NEW k, k = DigitCount(Len(bytes)),
         NEW sextets, sextets = [i \in 1..k |-> Sextet(bytes, i)],
         NEW j \in 1..Len(bytes)
  PROVE  Octet(sextets, j) = bytes[j]
<1>1. PICK n \in Nat : n = Len(bytes)
  BY LenProperties
<1>2. k \in Nat /\ k = (8 * n + 5) \div 6
  BY <1>1 DEF DigitCount
<1>3. IsSeq(sextets) /\ Len(sextets) = k /\ \A i \in 1..k : sextets[i] = Sextet(bytes, i)
  <2>1. sextets = [i \in 1..k |-> sextets[i]]
    OBVIOUS
  <2>2. QED BY <1>2, <2>1, FunctionIsSeq
<1>4. \A i \in 1..k : At(sextets, i) = Sextet(bytes, i)
  BY <1>2, <1>3 DEF At
<1>5. j \in 1..n /\ j \in Nat
  BY <1>1
<1>6. PICK q \in Nat : q = (j - 1) \div 3
  BY <1>5
<1>7. PICK x \in 0..255, y \in 0..255, z \in 0..255 : ThreeAt(bytes, q, x, y, z)
  BY BytesAt, ZenonT(60)
<1>8. PICK a, b, c, d : FourAt(sextets, q, a, b, c, d)
  BY DEF FourAt
<1>9. At(bytes, j) = bytes[j]
  BY <1>1, <1>5 DEF At
<1>10. FourSextets(bytes, q, x, y, z) /\ PutTogether(x, y, z) /\ ThreeOctets(sextets, q, a, b, c, d)
  <2>1. FourSextets(bytes, q, x, y, z)
    BY <1>7, SextetIs, Zenon
  <2>2. PutTogether(x, y, z)
    BY Bits, ZenonT(60)
  <2>3. ThreeOctets(sextets, q, a, b, c, d)
    BY <1>8, OctetIs, Zenon
  <2>4. QED BY <2>1, <2>2, <2>3
<1>11. CASE j = 3 * q + 1
  <2>1. 4 * q + 1 \in 1..k /\ 4 * q + 2 \in 1..k
    BY <1>2, <1>5, <1>11
  <2>2. /\ At(sextets, 4 * q + 1) = Sextet(bytes, 4 * q + 1)
        /\ At(sextets, 4 * q + 2) = Sextet(bytes, 4 * q + 2)
    BY <1>4, <2>1, Zenon
  <2>3. a = FirstSextet(x) /\ b = SecondSextet(x, y)
    BY <1>8, <1>10, <2>2, Zenon DEF FourAt, FourSextets
  <2>4. FirstOctet(a, b) = x
    BY <1>10, <2>3, Zenon DEF PutTogether
  <2>5. Octet(sextets, j) = FirstOctet(a, b)
    BY <1>10, <1>11, Zenon DEF ThreeOctets
  <2>6. At(bytes, j) = x
    BY <1>7, <1>11, Zenon DEF ThreeAt
  <2>7. QED BY <1>9, <2>4, <2>5, <2>6, Zenon
<1>12. CASE j = 3 * q + 2
  <2>1. 4 * q + 2 \in 1..k /\ 4 * q + 3 \in 1..k
    BY <1>2, <1>5, <1>12
  <2>2. /\ At(sextets, 4 * q + 2) = Sextet(bytes, 4 * q + 2)
        /\ At(sextets, 4 * q + 3) = Sextet(bytes, 4 * q + 3)
    BY <1>4, <2>1, Zenon
  <2>3. b = SecondSextet(x, y) /\ c = ThirdSextet(y, z)
    BY <1>8, <1>10, <2>2, Zenon DEF FourAt, FourSextets
  <2>4. SecondOctet(b, c) = y
    BY <1>10, <2>3, Zenon DEF PutTogether
  <2>5. Octet(sextets, j) = SecondOctet(b, c)
    BY <1>10, <1>12, Zenon DEF ThreeOctets
  <2>6. At(bytes, j) = y
    BY <1>7, <1>12, Zenon DEF ThreeAt
  <2>7. QED BY <1>9, <2>4, <2>5, <2>6, Zenon
<1>13. CASE j = 3 * q + 3
  <2>1. 4 * q + 3 \in 1..k /\ 4 * q + 4 \in 1..k
    BY <1>2, <1>5, <1>13
  <2>2. /\ At(sextets, 4 * q + 3) = Sextet(bytes, 4 * q + 3)
        /\ At(sextets, 4 * q + 4) = Sextet(bytes, 4 * q + 4)
    BY <1>4, <2>1, Zenon
  <2>3. c = ThirdSextet(y, z) /\ d = FourthSextet(z)
    BY <1>8, <1>10, <2>2, Zenon DEF FourAt, FourSextets
  <2>4. ThirdOctet(c, d) = z
    BY <1>10, <2>3, Zenon DEF PutTogether
  <2>5. Octet(sextets, j) = ThirdOctet(c, d)
    BY <1>10, <1>13, Zenon DEF ThreeOctets
  <2>6. At(bytes, j) = z
    BY <1>7, <1>13, Zenon DEF ThreeAt
  <2>7. QED BY <1>9, <2>4, <2>5, <2>6, Zenon
<1>14. j = 3 * q + 1 \/ j = 3 * q + 2 \/ j = 3 * q + 3
  BY <1>5, <1>6
<1>15. QED BY <1>11, <1>12, <1>13, <1>14

(* The digits are characters, and none of them is '='.                     *)
LEMMA DigitsFacts ==
  ASSUME NEW bytes \in Seq(0..255), NEW k, k = DigitCount(Len(bytes))
  PROVE  /\ k \in Nat /\ IsSeq(DigitsOf(bytes)) /\ Len(DigitsOf(bytes)) = k
         /\ DigitsOf(bytes) \in Seq(Range(Chars))
         /\ Equals \notin Range(Chars)
         /\ \A i \in 1..k : DigitsOf(bytes)[i] = Chars[Sextet(bytes, i)]
<1>1. k \in Nat
  BY LenProperties DEF DigitCount
<1>2. DigitsOf(bytes) = [i \in 1..k |-> Chars[Sextet(bytes, i)]]
  BY DEF DigitsOf
<1>3. \A i \in 1..k : Chars[Sextet(bytes, i)] \in Range(Chars)
  <2>1. ASSUME NEW i \in 1..k PROVE Sextet(bytes, i) \in 0..63
    <3>1. i \in Nat \ {0}
      BY <1>1
    <3>2. QED BY <3>1, SextetType, Zenon
  <2>2. DOMAIN Chars = 0..63
    BY DEF Chars
  <2>3. \A s \in DOMAIN Chars : Chars[s] \in Range(Chars)
    BY DEF Range
  <2>4. QED BY <2>1, <2>2, <2>3, Zenon
<1>4. Equals \notin Range(Chars)
  BY CharFacts DEF Range, Chars
<1>5. DigitsOf(bytes) \in Seq(Range(Chars)) /\ Len(DigitsOf(bytes)) = k
  <2> DEFINE C == Range(Chars)
             c(i) == Chars[Sextet(bytes, i)]
  <2>1. \A i \in 1..k : c(i) \in C
    BY <1>3
  <2>2. DigitsOf(bytes) = [i \in 1..k |-> c(i)]
    BY <1>2
  <2> HIDE DEF C, c
  <2>3. DigitsOf(bytes) \in Seq(C) /\ Len(DigitsOf(bytes)) = k
    BY <1>1, <2>1, <2>2
  <2>4. QED BY <2>3 DEF C
<1>6. QED BY <1>1, <1>2, <1>4, <1>5 DEF IsSeq

(* Padding is as long as it says.                                          *)
LEMMA PaddingFacts ==
  ASSUME NEW q \in Nat
  PROVE  /\ IsSeq(Padding(q)) /\ Len(Padding(q)) = q /\ Padding(q) \in Seq({Equals})
         /\ \A i \in 1..q : Padding(q)[i] = Equals
<1>1. Padding(q) = [i \in 1..q |-> Equals] /\ Equals \in {Equals}
  BY DEF Padding
<1> DEFINE e == Equals
<1>2. Padding(q) = [i \in 1..q |-> e] /\ e \in {e}
  BY <1>1
<1> HIDE DEF e
<1>3. Padding(q) \in Seq({e}) /\ Len(Padding(q)) = q /\ \A i \in 1..q : Padding(q)[i] = e
  BY <1>2
<1>4. QED BY <1>3 DEF e, IsSeq

LEMMA MorePadding ==
  ASSUME NEW q \in Nat, NEW r \in Nat, NEW s \in Nat, s = q + r
  PROVE  Padding(q) \o Padding(r) = Padding(s)
<1> DEFINE a == Padding(q)
           b == Padding(r)
           c == Padding(s)
<1>1. /\ IsSeq(a) /\ Len(a) = q /\ \A i \in 1..q : a[i] = Equals
      /\ IsSeq(b) /\ Len(b) = r /\ \A i \in 1..r : b[i] = Equals
      /\ IsSeq(c) /\ Len(c) = s /\ \A i \in 1..s : c[i] = Equals
  BY PaddingFacts
<1> HIDE DEF a, b, c
<1>2. /\ IsSeq(a \o b) /\ Len(a \o b) = q + r
      /\ \A i \in 1..Len(a \o b) : (a \o b)[i] = IF i <= q THEN a[i] ELSE b[i - q]
  BY <1>1, ConcatFacts
<1>3. \A i \in 1..s : (a \o b)[i] = Equals
  BY <1>1, <1>2
<1>4. a \o b = c
  BY <1>1, <1>2, <1>3, SameSeq
<1>5. QED BY <1>4 DEF a, b, c

LEMMA MissingFacts ==
  ASSUME NEW k \in Nat, NEW q \in 0..Missing(k)
  PROVE  /\ Missing(k) \in Nat /\ Missing(k + q) \in Nat /\ q \in Nat
         /\ q + Missing(k + q) = Missing(k)
<1>1. PICK a \in Nat, r \in 0..3 : k = 4 * a + r
  <2>1. k = 4 * (k \div 4) + (k % 4) /\ k \div 4 \in Nat /\ k % 4 \in 0..3
    OBVIOUS
  <2>2. QED BY <2>1
<1>2. k % 4 = r
  BY <1>1
<1>3. Missing(k) = (4 - r) % 4
  BY <1>2 DEF Missing
<1>4. q \in 0..3 /\ r + q <= 4 /\ (r = 0 => q = 0)
  BY <1>3
<1>5. (k + q) % 4 = (r + q) % 4
  BY <1>1, <1>4
<1>6. Missing(k + q) = (4 - ((r + q) % 4)) % 4
  BY <1>5 DEF Missing
<1>7. q + ((4 - ((r + q) % 4)) % 4) = (4 - r) % 4
  BY <1>4
<1>8. QED BY <1>3, <1>4, <1>6, <1>7

(* What padding is missing is added, however much of it is there.          *)
LEMMA PadPads ==
  ASSUME NEW bytes \in Seq(0..255), NEW k, k = DigitCount(Len(bytes)),
         NEW q \in 0..Missing(k)
  PROVE  /\ Pad(Padded(bytes, q)) = Padded(bytes, Missing(k))
         /\ Encode64(bytes) = Padded(bytes, Missing(k))
         /\ Missing(k) \in Nat /\ q \in Nat
<1> DEFINE d == DigitsOf(bytes)
<1>1. k \in Nat /\ IsSeq(d) /\ Len(d) = k
  BY DigitsFacts
<1>2. /\ Missing(k) \in Nat /\ Missing(k + q) \in Nat /\ q \in Nat
      /\ q + Missing(k + q) = Missing(k)
  BY <1>1, MissingFacts
<1>3. PICK r \in Nat : r = Missing(k + q)
  BY <1>2
<1>4. \A s : Pad(s) = s \o Padding(Missing(Len(s)))
  BY DEF Pad, Padding, Missing
<1>5. Encode64(bytes) = Pad(d)
  BY DEF Encode64, DigitsOf, DigitCount
<1> HIDE DEF d
<1>6. IsSeq(Padding(q)) /\ Len(Padding(q)) = q /\ IsSeq(Padding(r))
  BY <1>2, PaddingFacts
<1>7. Len(d \o Padding(q)) = k + q
  BY <1>1, <1>6, ConcatFacts
<1>8. Pad(d \o Padding(q)) = (d \o Padding(q)) \o Padding(r)
  BY <1>3, <1>4, <1>7
<1>9. (d \o Padding(q)) \o Padding(r) = d \o (Padding(q) \o Padding(r))
  <2>1. Regroups(d, Padding(q), Padding(r))
    BY <1>1, <1>6, ThreeInARow, Zenon
  <2>2. QED BY <2>1 DEF Regroups
<1>10. PICK m \in Nat : m = Missing(k)
  BY <1>2
<1>11. Padding(q) \o Padding(r) = Padding(m)
  <2>1. q \in Nat /\ m = q + r
    BY <1>2, <1>3, <1>10
  <2>2. QED BY <2>1, MorePadding
<1>12. QED BY <1>1, <1>2, <1>4, <1>5, <1>8, <1>9, <1>10, <1>11 DEF Padded, d

(* As many octets as there were.                                           *)
LEMMA OctetCount ==
  ASSUME NEW n \in Nat, NEW k, k = DigitCount(n)
  PROVE  (6 * k) \div 8 = n
<1>1. k \in Nat /\ 8 * n <= 6 * k /\ 6 * k <= 8 * n + 5
  BY DEF DigitCount
<1>2. QED BY <1>1

(* What is encoded is decoded.                                             *)
LEMMA DecodesEncoded ==
  ASSUME NEW bytes \in Seq(0..255)
  PROVE  Decode64(Encode64(bytes)) = {bytes}
<1> DEFINE text == Encode64(bytes)
           rest == Range(text) \ {Equals}
           digits == Kept(text, rest)
           d == DigitsOf(bytes)
           sextets == [i \in DOMAIN digits |-> CHOOSE s \in 0..63 : Chars[s] = digits[i]]
           all == [i \in 1..((6 * Len(digits)) \div 8) |-> Octet(sextets, i)]
<1>1. PICK n \in Nat : n = Len(bytes)
  BY LenProperties
<1>2. PICK k \in Nat : k = DigitCount(n)
  BY <1>1, DigitsFacts
<1>3. /\ IsSeq(d) /\ Len(d) = k /\ d \in Seq(Range(Chars)) /\ Equals \notin Range(Chars)
      /\ \A i \in 1..k : d[i] = Chars[Sextet(bytes, i)]
  BY <1>1, <1>2, DigitsFacts
<1>4. PICK m \in Nat : text = d \o Padding(m)
  <2>1. 0 \in 0..Missing(k)
    BY DEF Missing
  <2>2. text = Padded(bytes, Missing(k)) /\ Missing(k) \in Nat
    BY <1>1, <1>2, <2>1, PadPads
  <2>3. QED BY <2>2 DEF Padded
<1> HIDE DEF text, d
<1>5. IsSeq(Padding(m)) /\ Padding(m) \in Seq({Equals})
  BY PaddingFacts
<1>6. Range(d) \subseteq Range(Chars) /\ Range(d) \subseteq rest
  <2>1. Range(d) \subseteq Range(Chars)
    BY <1>3, RangeOfSeq
  <2>2. Range(d) \subseteq Range(text)
    BY <1>3, <1>4, <1>5, ConcatElements
  <2>3. QED BY <1>3, <2>1, <2>2
<1> HIDE DEF rest
<1>7. digits = d
  <2>1. Kept(d, rest) = d
    <3>1. d \in Seq(Range(d))
      <4>1. PICK R : R = Range(d)
        OBVIOUS
      <4>2. d = [i \in 1..k |-> d[i]] /\ \A i \in 1..k : d[i] \in R
        BY <1>3, <4>1, SeqFacts DEF Range
      <4>3. d \in Seq(R)
        BY <4>2
      <4>4. QED BY <4>1, <4>3
    <3>2. QED BY <1>6, <3>1, KeptAllOrNone
  <2>2. Kept(Padding(m), rest) = <<>>
    <3>1. {Equals} \cap rest = {}
      BY DEF rest
    <3>2. QED BY <1>5, <3>1, KeptAllOrNone
  <2>3. digits = d \o <<>>
    <3>1. Kept(d \o Padding(m), rest) = Kept(d, rest) \o Kept(Padding(m), rest)
      <4>1. PICK p : p = Padding(m)
        OBVIOUS
      <4>2. IsSeq(d) /\ IsSeq(p)
        BY <1>3, <1>5, <4>1
      <4>3. Kept(d \o p, rest) = Kept(d, rest) \o Kept(p, rest)
        BY <4>2, KeptConcat
      <4>4. QED BY <4>1, <4>3
    <3>2. QED BY <1>4, <2>1, <2>2, <3>1, Zenon DEF digits
  <2>4. QED BY <1>3, <2>3, ConcatEmptySeq
<1> HIDE DEF digits
<1>8. sextets = [i \in 1..k |-> Sextet(bytes, i)]
  <2>1. DOMAIN digits = 1..k
    BY <1>3, <1>7, SeqFacts
  <2>2. ASSUME NEW i \in 1..k
        PROVE  (CHOOSE s \in 0..63 : Chars[s] = digits[i]) = Sextet(bytes, i)
    <3>1. PICK t \in 0..63 : t = Sextet(bytes, i)
      <4>1. i \in Nat \ {0}
        OBVIOUS
      <4>2. QED BY <4>1, SextetType, Zenon
    <3>2. digits[i] = CharOf(t)
      BY <1>3, <1>7, <3>1 DEF Chars
    <3>3. \A s \in 0..63 : Chars[s] = digits[i] => s = t
      BY <3>2, CharFacts DEF Chars
    <3>4. Chars[t] = digits[i]
      BY <3>2 DEF Chars
    <3>5. QED BY <3>1, <3>3, <3>4
  <2>3. QED BY <2>1, <2>2
<1> HIDE DEF sextets
<1>9. all = bytes
  <2>1. (6 * Len(digits)) \div 8 = n
    BY <1>2, <1>3, <1>7, OctetCount
  <2>2. \A i \in 1..n : Octet(sextets, i) = bytes[i]
    BY <1>1, <1>2, <1>8, OctetsOfSextets
  <2>3. all = [i \in 1..n |-> bytes[i]]
    BY <2>1, <2>2
  <2>4. bytes = [i \in 1..n |-> bytes[i]]
    BY <1>1
  <2>5. QED BY <2>3, <2>4
<1> HIDE DEF all
<1>10. Decode64(text) = {b \in {all} : Range(digits) \subseteq Range(Chars) /\ Encode64(b) = text}
  BY DEF Decode64, all, sextets, digits, rest
<1>11. Range(digits) \subseteq Range(Chars) /\ Encode64(all) = text
  BY <1>6, <1>7, <1>9 DEF text
<1>12. QED BY <1>9, <1>10, <1>11 DEF text
------------------------------------------------------------------------------
(* What is left of a text when the noise is taken out is the encoded       *)
(* payload but for some padding at its end.                                *)
TextInv ==
  probe.what = "text" =>
    /\ probe.bytes \in Payloads /\ IsSeq(probe.raw)
    /\ \E q \in 0..Missing(DigitCount(Len(probe.bytes))) :
         Kept(probe.raw, Alphabet) = Padded(probe.bytes, q)

BlockInv == probe.what = "block" => IsSeq(probe.methods)

LEMMA EncodedText ==
  ASSUME NEW bytes \in Seq(0..255)
  PROVE  /\ IsSeq(Encode64(bytes))
         /\ \E q \in 0..Missing(DigitCount(Len(bytes))) :
              Kept(Encode64(bytes), Alphabet) = Padded(bytes, q)
<1> DEFINE d == DigitsOf(bytes)
<1>1. PICK k \in Nat : k = DigitCount(Len(bytes))
  BY DigitsFacts
<1>2. PICK m \in Nat : m = Missing(k)
  BY DEF Missing
<1>3. 0 \in 0..m /\ m \in 0..m
  OBVIOUS
<1>4. Encode64(bytes) = Padded(bytes, m)
  BY <1>1, <1>2, <1>3, PadPads
<1>5. Encode64(bytes) = d \o Padding(m)
  BY <1>4 DEF Padded
<1>6. /\ IsSeq(d) /\ d \in Seq(Range(Chars))
      /\ IsSeq(Padding(m)) /\ Padding(m) \in Seq({Equals})
  BY <1>1, DigitsFacts, PaddingFacts
<1> HIDE DEF d
<1>7. Range(Chars) \subseteq Alphabet /\ {Equals} \subseteq Alphabet
  BY DEF Alphabet
<1>8. Kept(d, Alphabet) = d /\ Kept(Padding(m), Alphabet) = Padding(m)
  BY <1>6, <1>7, KeptAllOrNone
<1>9. PICK p : p = Padding(m)
  OBVIOUS
<1>10. IsSeq(d) /\ IsSeq(p)
  BY <1>6, <1>9
<1>11. Kept(d \o p, Alphabet) = Kept(d, Alphabet) \o Kept(p, Alphabet) /\ IsSeq(d \o p)
  <2>1. Kept(d \o p, Alphabet) = Kept(d, Alphabet) \o Kept(p, Alphabet)
    BY <1>10, KeptConcat
  <2>2. IsSeq(d \o p)
    BY <1>10, ConcatFacts
  <2>3. QED BY <2>1, <2>2
<1>12. QED BY <1>1, <1>2, <1>3, <1>4, <1>5, <1>8, <1>9, <1>11

(* A text whose last padding is taken away has less of it.                 *)
LEMMA PaddingIsLost ==
  ASSUME NEW bytes \in Seq(0..255), NEW s, IsSeq(s), s # <<>>, Last(s) = Equals,
         NEW m \in Nat, NEW q \in 0..m, Kept(s, Alphabet) = Padded(bytes, q)
  PROVE  /\ IsSeq(Front(s))
         /\ \E r \in 0..m : Kept(Front(s), Alphabet) = Padded(bytes, r)
<1> DEFINE d == DigitsOf(bytes)
           one == <<Equals>>
<1>1. IsSeq(Front(s)) /\ s = Front(s) \o <<Last(s)>>
  BY LastFacts
<1>2. Equals \in Alphabet
  BY DEF Alphabet
<1>3. PICK t : t = Front(s)
  OBVIOUS
<1>4. IsSeq(t) /\ s = t \o one
  BY <1>1, <1>3
<1>5. Kept(s, Alphabet) = Kept(t, Alphabet) \o one
  BY <1>2, <1>4, KeptOne
<1>6. IsSeq(Kept(t, Alphabet))
  BY <1>4, KeptFacts
<1>7. PICK k \in Nat : k = DigitCount(Len(bytes))
  BY DigitsFacts
<1>8. /\ IsSeq(d) /\ Len(d) = k /\ d \in Seq(Range(Chars)) /\ Equals \notin Range(Chars)
  BY <1>7, DigitsFacts
<1>9. IsSeq(one) /\ Len(one) = 1 /\ one[1] = Equals
  BY ShortSeqs
<1> HIDE DEF d, one
<1>10. PICK u : IsSeq(u) /\ u = Kept(t, Alphabet)
  BY <1>6
<1>11. u \o one = d \o Padding(q)
  BY <1>5, <1>10 DEF Padded, d
<1>12. q # 0
  <2> SUFFICES ASSUME q = 0 PROVE FALSE
    OBVIOUS
  <2>1. Padding(q) = <<>>
    BY DEF Padding
  <2>2. u \o one = d
    BY <1>8, <1>11, <2>1, ConcatEmptySeq
  <2>3. Range(u \o one) = Range(u) \cup Range(one)
    BY <1>9, <1>10, ConcatElements
  <2>4. Equals \in Range(one)
    BY ShortSeqs DEF one
  <2>5. Range(d) \subseteq Range(Chars)
    BY <1>8, RangeOfSeq
  <2>6. QED BY <1>8, <2>2, <2>3, <2>4, <2>5
<1>13. PICK r \in 0..m : q = r + 1
  <2>1. q - 1 \in 0..m /\ q = (q - 1) + 1
    BY <1>12
  <2>2. QED BY <2>1
<1>14. Padding(q) = Padding(r) \o one
  <2>1. 1 \in Nat /\ r \in Nat /\ q \in Nat
    OBVIOUS
  <2>2. Padding(r) \o Padding(1) = Padding(q)
    BY <1>13, <2>1, MorePadding
  <2>3. Padding(1) = one
    <3>1. IsSeq(Padding(1)) /\ Len(Padding(1)) = 1 /\ \A i \in 1..1 : Padding(1)[i] = Equals
      BY <2>1, PaddingFacts
    <3>2. PICK p : p = Padding(1)
      OBVIOUS
    <3>3. IsSeq(p) /\ Len(p) = Len(one) /\ \A i \in 1..Len(p) : p[i] = one[i]
      BY <1>9, <3>1, <3>2
    <3>4. QED BY <1>9, <3>2, <3>3, SameSeq
  <2>4. QED BY <2>2, <2>3
<1>15. IsSeq(Padding(r))
  BY PaddingFacts
<1>16. PICK p : p = Padding(r)
  OBVIOUS
<1>17. d \o (p \o one) = (d \o p) \o one /\ IsSeq(d \o p)
  <2>1. IsSeq(p)
    BY <1>15, <1>16
  <2>2. IsSeq(d) /\ IsSeq(one)
    BY <1>8, <1>9
  <2>3. IsSeq(d \o p)
    BY <2>1, <2>2, ConcatFacts
  <2>4. (d \o p) \o one = d \o (p \o one)
    <3>1. Regroups(d, p, one)
      BY <2>1, <2>2, ThreeInARow, Zenon
    <3>2. QED BY <3>1 DEF Regroups
  <2>5. QED BY <2>3, <2>4
<1>18. PICK v : IsSeq(v) /\ v = d \o p
  BY <1>17
<1>19. u \o one = v \o one
  BY <1>11, <1>14, <1>16, <1>17, <1>18
<1>20. u = v
  <2>1. PICK e : e = Equals
    OBVIOUS
  <2>2. u \o <<e>> = v \o <<e>>
    BY <1>19, <2>1 DEF one
  <2>3. IsSeq(u) /\ IsSeq(v)
    BY <1>10, <1>18
  <2>4. QED BY <2>2, <2>3, SameFront, Zenon
<1>21. QED BY <1>1, <1>3, <1>10, <1>16, <1>18, <1>20 DEF Padded, d

LEMMA TextHolds ==
  Spec => []TextInv
<1> USE PureAssumption
<1>1. Init => TextInv
  <2> SUFFICES ASSUME Init, probe.what = "text" PROVE TextInv
    BY DEF TextInv
  <2>1. PICK b \in Payloads : probe = Text(b, Encode64(b), 0)
    BY DEF Init, Block, Pack
  <2>2. probe.bytes = b /\ probe.raw = Encode64(b)
    BY <2>1 DEF Text
  <2>3. b \in Seq(0..255)
    BY DEF PureAssumption
  <2>4. /\ IsSeq(Encode64(b))
        /\ \E q \in 0..Missing(DigitCount(Len(b))) : Kept(Encode64(b), Alphabet) = Padded(b, q)
    BY <2>3, EncodedText
  <2>5. QED BY <2>2, <2>4 DEF TextInv
<1>2. ASSUME TextInv, [Next]_probe PROVE TextInv'
  <2>1. CASE Unpad
    <3>1. /\ probe.what = "text" /\ probe.raw # <<>> /\ Last(probe.raw) = Equals
          /\ probe' = Text(probe.bytes, Front(probe.raw), probe.noise)
      BY <2>1 DEF Unpad
    <3>2. PICK m \in Nat : m = Missing(DigitCount(Len(probe.bytes)))
      <4>1. probe.bytes \in Seq(0..255)
        BY <1>2, <3>1 DEF TextInv, PureAssumption
      <4>2. PICK k \in Nat : k = DigitCount(Len(probe.bytes))
        BY <4>1, DigitsFacts
      <4>3. Missing(k) \in Nat
        BY DEF Missing
      <4>4. QED BY <4>2, <4>3
    <3>3. /\ probe.bytes \in Payloads /\ probe.bytes \in Seq(0..255) /\ IsSeq(probe.raw)
      BY <1>2, <3>1 DEF TextInv, PureAssumption
    <3>4. PICK q \in 0..m : Kept(probe.raw, Alphabet) = Padded(probe.bytes, q)
      BY <1>2, <3>1, <3>2 DEF TextInv
    <3>5. IsSeq(Front(probe.raw))
          /\ \E r \in 0..m : Kept(Front(probe.raw), Alphabet) = Padded(probe.bytes, r)
      BY <3>1, <3>3, <3>4, PaddingIsLost
    <3>6. probe'.bytes = probe.bytes /\ probe'.raw = Front(probe.raw)
      BY <3>1 DEF Text
    <3>7. QED BY <3>2, <3>3, <3>5, <3>6 DEF TextInv
  <2>2. ASSUME NEW c \in Noise, AddNoise(c) PROVE TextInv'
    <3>1. PICK i \in 1..(Len(probe.raw) + 1) :
            /\ probe.what = "text"
            /\ probe' = Text(probe.bytes, InsertAt(probe.raw, i, c), probe.noise + 1)
      BY <2>2 DEF AddNoise
    <3>2. c \notin Alphabet
      BY DEF PureAssumption
    <3>3. IsSeq(probe.raw)
      BY <1>2, <3>1 DEF TextInv
    <3>4. PICK s : s = InsertAt(probe.raw, i, c)
      OBVIOUS
    <3>5. IsSeq(s) /\ Kept(s, Alphabet) = Kept(probe.raw, Alphabet)
      BY <3>2, <3>3, <3>4, KeptInserted
    <3>6. probe'.bytes = probe.bytes /\ probe'.raw = s
      BY <3>1, <3>4 DEF Text
    <3>7. QED BY <1>2, <3>1, <3>5, <3>6 DEF TextInv
  <2>3. ASSUME NEW method, AddMethod(method) PROVE TextInv'
    <3>1. probe'.what = "block"
      BY <2>3 DEF AddMethod, Block
    <3>2. QED BY <3>1 DEF TextInv
  <2>4. CASE Cut \/ \E byte \in Trailing : Follow(byte)
    <3>1. probe'.what = "pack"
      BY <2>4 DEF Cut, Follow, Pack
    <3>2. QED BY <3>1 DEF TextInv
  <2>5. CASE UNCHANGED probe
    BY <1>2, <2>5 DEF TextInv
  <2>6. QED BY <1>2, <2>1, <2>2, <2>3, <2>4, <2>5 DEF Next
<1>3. QED BY <1>1, <1>2, PTL DEF Spec

LEMMA BlockHolds ==
  Spec => []BlockInv
<1>1. Init => BlockInv
  <2>1. IsSeq(<<>>)
    BY SeqFacts
  <2>2. ASSUME Init, probe.what = "block" PROVE probe.methods = <<>>
    BY <2>2 DEF Init, Text, Block, Pack
  <2>3. QED BY <2>1, <2>2 DEF BlockInv
<1>2. ASSUME BlockInv, [Next]_probe PROVE BlockInv'
  <2>1. ASSUME NEW method, AddMethod(method) PROVE BlockInv'
    <3>1. probe.what = "block" /\ probe' = Block(Append(probe.methods, method))
      BY <2>1 DEF AddMethod
    <3>2. IsSeq(probe.methods)
      BY <1>2, <3>1 DEF BlockInv
    <3>3. IsSeq(Append(probe.methods, method))
      BY <3>2, AppendFacts
    <3>4. QED BY <3>1, <3>3 DEF BlockInv, Block
  <2>2. CASE Unpad \/ \E c \in Noise : AddNoise(c)
    <3>1. probe'.what = "text"
      BY <2>2 DEF Unpad, AddNoise, Text
    <3>2. QED BY <3>1 DEF BlockInv
  <2>3. CASE Cut \/ \E byte \in Trailing : Follow(byte)
    <3>1. probe'.what = "pack"
      BY <2>3 DEF Cut, Follow, Pack
    <3>2. QED BY <3>1 DEF BlockInv
  <2>4. CASE UNCHANGED probe
    BY <1>2, <2>4 DEF BlockInv
  <2>5. QED BY <1>2, <2>1, <2>2, <2>3, <2>4 DEF Next
<1>3. QED BY <1>1, <1>2, PTL DEF Spec

(* A payload survives any amount of noise in its base64, at any places,    *)
(* and the loss of its padding (sign.rs 50-65).                            *)
THEOREM PayloadsAreRecovered ==
  Spec => []CleanRecovers
<1>1. ASSUME TextInv PROVE CleanRecovers
  <2> SUFFICES ASSUME probe.what = "text" PROVE DecodePayload(probe.raw) = {probe.bytes}
    BY DEF CleanRecovers
  <2>1. probe.bytes \in Seq(0..255)
    BY <1>1, PureAssumption DEF TextInv, PureAssumption
  <2>2. PICK k \in Nat : k = DigitCount(Len(probe.bytes))
    BY <2>1, DigitsFacts
  <2>3. PICK q \in 0..Missing(k) : Kept(probe.raw, Alphabet) = Padded(probe.bytes, q)
    BY <1>1, <2>2 DEF TextInv
  <2>4. Pad(Padded(probe.bytes, q)) = Encode64(probe.bytes)
    BY <2>1, <2>2, PadPads
  <2>5. Clean(probe.raw) = Encode64(probe.bytes)
    BY <2>3, <2>4 DEF Clean
  <2>6. QED BY <2>1, <2>5, DecodesEncoded DEF DecodePayload
<1>2. QED BY <1>1, TextHolds, PTL

(* The handlers the macro makes of any impl block call methods that stay   *)
(* in it, and no two that stay apart share an id (lib.rs 69-145).          *)
THEOREM HandlersAreThere ==
  Spec => []HandlersCallMethods
<1>1. ASSUME BlockInv PROVE HandlersCallMethods
  BY <1>1, ExpansionFits DEF BlockInv, HandlersCallMethods
<1>2. QED BY <1>1, BlockHolds, PTL
------------------------------------------------------------------------------
(* What is left of the bytes after the first k, and that others begin with *)
(* the same k.                                                             *)
Bytes == Seq(0..255)

After(d, k) == SubSeq(d, k + 1, Len(d))

Begins(e, d, k) == k <= Len(e) /\ \A i \in 1..k : e[i] = d[i]

(* Bytes are numbers from 0 to 255.                                        *)
LEMMA BytesFacts ==
  ASSUME NEW d \in Bytes
  PROVE  Len(d) \in Nat /\ \A i \in 1..Len(d) : d[i] \in 0..255
<1>1. Len(d) \in Nat /\ DOMAIN d = 1..Len(d)
  BY LenProperties DEF Bytes
<1>2. ASSUME NEW i \in 1..Len(d) PROVE d[i] \in 0..255
  BY <1>1, ElementOfSeq DEF Bytes
<1>3. QED BY <1>1, <1>2

(* What is left after the first k bytes are the others.                    *)
LEMMA AfterFacts ==
  ASSUME NEW d \in Bytes, NEW k \in 0..Len(d)
  PROVE  /\ After(d, k) \in Bytes /\ Len(d) \in Nat /\ Len(After(d, k)) = Len(d) - k
         /\ \A i \in 1..(Len(d) - k) : After(d, k)[i] = d[i + k]
<1>1. Len(d) \in Nat /\ k \in Nat /\ k <= Len(d) /\ \A i \in 1..Len(d) : d[i] \in 0..255
  BY BytesFacts
<1>2. PICK m \in Int, n \in Int : m = k + 1 /\ n = Len(d)
  BY <1>1
<1>3. \A i \in m..n : d[i] \in 0..255
  BY <1>1, <1>2
<1>4. /\ SubSeq(d, m, n) \in Bytes
      /\ Len(SubSeq(d, m, n)) = IF m <= n THEN n - m + 1 ELSE 0
      /\ \A i \in 1..(n - m + 1) : SubSeq(d, m, n)[i] = d[m + i - 1]
  BY <1>3, SubSeqProperties DEF Bytes
<1>5. SubSeq(d, m, n) = After(d, k) /\ n - m + 1 = Len(d) - k
  BY <1>1, <1>2 DEF After
<1>6. Len(After(d, k)) = Len(d) - k
  BY <1>1, <1>2, <1>4, <1>5
<1>7. ASSUME NEW i \in 1..(Len(d) - k) PROVE After(d, k)[i] = d[i + k]
  <2>1. m + i - 1 = i + k
    BY <1>1, <1>2
  <2>2. QED BY <1>4, <1>5, <2>1
<1>8. QED BY <1>1, <1>4, <1>5, <1>6, <1>7

(* Bytes are the same if they are one by one.                              *)
LEMMA SameBytes ==
  ASSUME NEW d \in Bytes, NEW e \in Bytes, Len(d) = Len(e), \A i \in 1..Len(d) : d[i] = e[i]
  PROVE  d = e
BY SeqEqual DEF Bytes

(* What is left of what is left.                                           *)
LEMMA AfterAfter ==
  ASSUME NEW d \in Bytes, NEW k \in 0..Len(d), NEW j \in 0..(Len(d) - k)
  PROVE  After(After(d, k), j) = After(d, k + j) /\ k + j \in 0..Len(d)
<1>1. PICK n \in Nat : n = Len(d)
  BY AfterFacts
<1>2. k + j \in 0..n /\ k \in 0..n /\ j \in 0..(n - k)
  BY <1>1
<1> DEFINE a == After(d, k)  b == After(a, j)  c == After(d, k + j)
<1>3. a \in Bytes /\ Len(a) = n - k /\ \A i \in 1..(n - k) : a[i] = d[i + k]
  BY <1>1, AfterFacts
<1>4. c \in Bytes /\ Len(c) = n - (k + j) /\ \A i \in 1..(n - (k + j)) : c[i] = d[i + (k + j)]
  BY <1>1, <1>2, AfterFacts
<1> HIDE DEF a
<1>5. b \in Bytes /\ Len(b) = (n - k) - j /\ \A i \in 1..((n - k) - j) : b[i] = a[i + j]
  <2>1. j \in 0..Len(a)
    BY <1>2, <1>3
  <2>2. /\ After(a, j) \in Bytes /\ Len(After(a, j)) = Len(a) - j
        /\ \A i \in 1..(Len(a) - j) : After(a, j)[i] = a[i + j]
    BY <1>3, <2>1, AfterFacts
  <2>3. QED BY <1>3, <2>2
<1> HIDE DEF b, c
<1>6. (n - k) - j = n - (k + j)
  BY <1>2
<1>7. ASSUME NEW i \in 1..(n - (k + j)) PROVE b[i] = c[i]
  <2>1. i + j \in 1..(n - k) /\ (i + j) + k = i + (k + j) /\ i \in 1..((n - k) - j)
    BY <1>2
  <2>2. b[i] = a[i + j] /\ a[i + j] = d[(i + j) + k] /\ c[i] = d[i + (k + j)]
    BY <1>3, <1>4, <1>5, <2>1
  <2>3. QED BY <2>1, <2>2
<1>8. b = c
  BY <1>4, <1>5, <1>6, <1>7, SameBytes
<1>9. QED BY <1>1, <1>2, <1>8 DEF a, b, c

(* Nothing is lost if nothing is read.                                     *)
LEMMA AfterNothing ==
  ASSUME NEW d \in Bytes
  PROVE  After(d, 0) = d /\ Len(d) \in Nat /\ 0 \in 0..Len(d)
<1>1. Len(d) \in Nat
  BY LenProperties DEF Bytes
<1>2. 0 \in 0..Len(d)
  BY <1>1
<1>3. /\ After(d, 0) \in Bytes /\ Len(After(d, 0)) = Len(d) - 0
      /\ \A i \in 1..(Len(d) - 0) : After(d, 0)[i] = d[i + 0]
  BY <1>2, AfterFacts
<1>4. Len(d) - 0 = Len(d) /\ \A i \in 1..Len(d) : i + 0 = i
  BY <1>1
<1>5. QED BY <1>1, <1>2, <1>3, <1>4, SameBytes

(* Bytes that begin alike go on alike.                                     *)
LEMMA BeginsAfter ==
  ASSUME NEW d \in Bytes, NEW e \in Bytes, NEW k \in 0..Len(d), NEW j \in 0..(Len(d) - k),
         Begins(e, d, k + j)
  PROVE  /\ Begins(e, d, k) /\ k \in 0..Len(e) /\ j \in 0..(Len(e) - k)
         /\ Begins(After(e, k), After(d, k), j)
<1>1. PICK n \in Nat, m \in Nat : n = Len(d) /\ m = Len(e)
  BY AfterNothing
<1>2. k \in 0..n /\ j \in 0..(n - k) /\ k + j <= m /\ \A i \in 1..(k + j) : e[i] = d[i]
  BY <1>1 DEF Begins
<1>3. k \in 0..m /\ j \in 0..(m - k) /\ Begins(e, d, k)
  BY <1>1, <1>2 DEF Begins
<1>4. Len(After(e, k)) = m - k /\ \A i \in 1..(m - k) : After(e, k)[i] = e[i + k]
  BY <1>1, <1>3, AfterFacts
<1>5. \A i \in 1..(n - k) : After(d, k)[i] = d[i + k]
  BY <1>1, <1>2, AfterFacts
<1>6. ASSUME NEW i \in 1..j PROVE After(e, k)[i] = After(d, k)[i]
  <2>1. i \in 1..(n - k) /\ i \in 1..(m - k) /\ i + k \in 1..(k + j)
    BY <1>2, <1>3
  <2>2. QED BY <1>2, <1>4, <1>5, <2>1
<1>7. j <= m - k
  BY <1>3
<1>8. QED BY <1>1, <1>3, <1>4, <1>6, <1>7 DEF Begins

(* Bytes begin like themselves.                                            *)
LEMMA BeginsItself ==
  ASSUME NEW d \in Bytes, NEW k \in 0..Len(d)
  PROVE  Begins(d, d, k)
<1>1. Len(d) \in Nat
  BY AfterNothing
<1>2. QED BY <1>1 DEF Begins

(* The first n bytes.                                                      *)
LEMMA FirstFacts ==
  ASSUME NEW d \in Bytes, NEW n \in 0..Len(d)
  PROVE  /\ SubSeq(d, 1, n) \in Bytes /\ Len(SubSeq(d, 1, n)) = n
         /\ \A i \in 1..n : SubSeq(d, 1, n)[i] = d[i]
<1>1. Len(d) \in Nat /\ n \in Nat /\ n <= Len(d) /\ \A i \in 1..Len(d) : d[i] \in 0..255
  BY BytesFacts
<1>2. PICK m \in Int : m = 1
  OBVIOUS
<1>3. \A i \in m..n : d[i] \in 0..255
  BY <1>1, <1>2
<1>4. /\ SubSeq(d, m, n) \in Bytes
      /\ Len(SubSeq(d, m, n)) = IF m <= n THEN n - m + 1 ELSE 0
      /\ \A i \in 1..(n - m + 1) : SubSeq(d, m, n)[i] = d[m + i - 1]
  <2>1. n \in Int
    BY <1>1
  <2>2. QED BY <1>3, <2>1, SubSeqProperties DEF Bytes
<1>5. Len(SubSeq(d, 1, n)) = n
  BY <1>1, <1>2, <1>4
<1>6. ASSUME NEW i \in 1..n PROVE SubSeq(d, 1, n)[i] = d[i]
  <2>1. n - m + 1 = n /\ m + i - 1 = i
    BY <1>1, <1>2
  <2>2. QED BY <1>2, <1>4, <2>1
<1>7. QED BY <1>2, <1>4, <1>5, <1>6
----
(* The first n bytes are taken, whatever follows them.                     *)
Piece(b, x) == {[bytes |-> b, rest |-> x]}

(* What is taken of the data is fixed by the bytes taken.                   *)
LEMMA TakeTakes ==
  ASSUME NEW d \in Bytes, NEW n \in Nat, Take(n, d) # {}
  PROVE  /\ n \in 0..Len(d)
         /\ \E b \in Bytes :
              /\ Len(b) = n /\ \A i \in 1..n : b[i] = d[i]
              /\ \A e \in Bytes : Begins(e, d, n) => Take(n, e) = Piece(b, After(e, n))
<1>1. PICK l \in Nat : l = Len(d)
  BY AfterNothing
<1>2. n <= l
  BY <1>1 DEF Take
<1>3. n \in 0..Len(d)
  BY <1>1, <1>2
<1>5. PICK b \in Bytes : b = SubSeq(d, 1, n) /\ Len(b) = n /\ \A i \in 1..n : b[i] = d[i]
  BY <1>3, FirstFacts
<1>6. ASSUME NEW e \in Bytes, Begins(e, d, n) PROVE Take(n, e) = Piece(b, After(e, n))
  <2>1. n <= Len(e) /\ \A i \in 1..n : e[i] = d[i]
    BY <1>6 DEF Begins
  <2>2. PICK a \in Bytes : a = SubSeq(e, 1, n) /\ Len(a) = n /\ \A i \in 1..n : a[i] = e[i]
    <3>1. n \in 0..Len(e)
      BY <2>1, AfterNothing
    <3>2. QED BY <3>1, FirstFacts
  <2>3. a = b
    BY <1>5, <2>1, <2>2, SameBytes
  <2>4. ~(n > Len(e))
    <3>1. Len(e) \in Nat
      BY AfterNothing
    <3>2. QED BY <2>1, <3>1
  <2>5. Take(n, e) = {[bytes |-> a, rest |-> SubSeq(e, n + 1, Len(e))]}
    BY <2>2, <2>4 DEF Take
  <2>6. QED BY <2>3, <2>5 DEF Piece, After
<1>7. QED BY <1>3, <1>5, <1>6

(* f holds the number the first i bytes make, for each i up to n.          *)
Numbers(f, n, b) ==
  f = [i \in 0..n |-> IF i = 0 THEN 0 ELSE 256 * f[i - 1] + b[i]]

(* There is such a function for any number of bytes.                        *)
LEMMA NumbersExist ==
  ASSUME NEW b, NEW n \in Nat
  PROVE  \E f : Numbers(f, n, b)
<1> DEFINE T == {k \in Nat : \E f : Numbers(f, k, b)}
<1>1. 0 \in T
  <2> DEFINE f == [i \in 0..0 |-> 0]
  <2>1. DOMAIN f = 0..0 /\ \A i \in 0..0 : i = 0 /\ f[i] = 0
    OBVIOUS
  <2>2. f = [i \in 0..0 |-> IF i = 0 THEN 0 ELSE 256 * f[i - 1] + b[i]]
    BY <2>1
  <2>3. Numbers(f, 0, b)
    BY <2>2 DEF Numbers
  <2>4. QED BY <2>3
<1>2. ASSUME NEW k \in Nat, k \in T PROVE k + 1 \in T
  <2>1. PICK f : Numbers(f, k, b)
    BY <1>2
  <2> DEFINE g == [i \in 0..(k + 1) |-> IF i <= k THEN f[i] ELSE 256 * f[k] + b[k + 1]]
  <2>2. \A i \in 0..k : f[i] = IF i = 0 THEN 0 ELSE 256 * f[i - 1] + b[i]
    BY <2>1 DEF Numbers
  <2>3. /\ g = [i \in 0..(k + 1) |-> g[i]]
        /\ \A i \in 0..(k + 1) : g[i] = IF i <= k THEN f[i] ELSE 256 * f[k] + b[k + 1]
    OBVIOUS
  <2> HIDE DEF g
  <2>4. ASSUME NEW i \in 0..(k + 1)
        PROVE  g[i] = IF i = 0 THEN 0 ELSE 256 * g[i - 1] + b[i]
    <3>1. CASE i <= k
      <4>1. i \in 0..k /\ g[i] = f[i]
        BY <2>3, <3>1
      <4>2. i # 0 => i - 1 \in 0..(k + 1) /\ i - 1 <= k
        BY <3>1
      <4>3. i # 0 => g[i - 1] = f[i - 1]
        BY <2>3, <4>2
      <4>4. QED BY <2>2, <4>1, <4>3
    <3>2. CASE ~(i <= k)
      <4>1. i = k + 1 /\ i # 0 /\ i - 1 = k /\ k \in 0..(k + 1) /\ k <= k
        BY <3>2
      <4>2. g[k] = f[k]
        BY <2>3, <4>1
      <4>3. g[i] = 256 * f[k] + b[k + 1]
        BY <2>3, <3>2
      <4>4. QED BY <4>1, <4>2, <4>3
    <3>3. QED BY <3>1, <3>2
  <2>5. Numbers(g, k + 1, b)
    BY <2>3, <2>4 DEF Numbers
  <2>6. QED BY <2>5
<1> HIDE DEF T
<1>3. Nat \subseteq T
  BY <1>1, <1>2, NumberInduction
<1>4. n \in T
  BY <1>3
<1>5. QED BY <1>4 DEF T

(* A big-endian number is a natural number.                                 *)
LEMMA UnsignedIsNat ==
  ASSUME NEW b \in Bytes
  PROVE  Unsigned(b) \in Nat
<1>1. Len(b) \in Nat /\ \A i \in 1..Len(b) : b[i] \in 0..255
  BY BytesFacts
<1> DEFINE n == Len(b)
           f == CHOOSE g : g = [i \in 0..n |-> IF i = 0 THEN 0 ELSE 256 * g[i - 1] + b[i]]
<1>2. \E g : g = [i \in 0..n |-> IF i = 0 THEN 0 ELSE 256 * g[i - 1] + b[i]]
  BY <1>1, NumbersExist DEF Numbers
<1>3. f = [i \in 0..n |-> IF i = 0 THEN 0 ELSE 256 * f[i - 1] + b[i]]
  BY <1>2
<1>4. Unsigned(b) = f[n]
  BY DEF Unsigned
<1> HIDE DEF f
<1>5. \A i \in 0..n : f[i] = IF i = 0 THEN 0 ELSE 256 * f[i - 1] + b[i]
  BY <1>3
<1> DEFINE T == {k \in Nat : k <= n => f[k] \in Nat}
<1>6. 0 \in T
  <2>1. 0 \in 0..n
    BY <1>1
  <2>2. QED BY <1>5, <2>1
<1>7. ASSUME NEW k \in Nat, k \in T PROVE k + 1 \in T
  <2> SUFFICES ASSUME k + 1 <= n PROVE f[k + 1] \in Nat
    OBVIOUS
  <2>1. k + 1 \in 0..n /\ k + 1 \in 1..n /\ k + 1 # 0 /\ (k + 1) - 1 = k /\ k <= n
    BY <1>1
  <2>2. f[k] \in Nat
    BY <1>7, <2>1
  <2>3. b[k + 1] \in 0..255
    BY <1>1, <2>1
  <2>4. f[k + 1] = 256 * f[k] + b[k + 1]
    BY <1>5, <2>1
  <2>5. PICK p \in Nat, q \in 0..255 : p = f[k] /\ q = b[k + 1]
    BY <2>2, <2>3
  <2>6. 256 * p + q \in Nat
    OBVIOUS
  <2>7. QED BY <2>4, <2>5, <2>6
<1> HIDE DEF T
<1>8. Nat \subseteq T
  BY <1>6, <1>7, NumberInduction
<1>9. n \in T
  BY <1>1, <1>8
<1>10. QED BY <1>1, <1>4, <1>9 DEF T
----
(* A size and where the bytes go on; a length that is read is fixed by its *)
(* own bytes.                                                              *)
One(s, d, j) == {[size |-> s, rest |-> After(d, j)]}

(* A size that is read is fixed by its own bytes.                           *)
LEMMA SizedIs ==
  ASSUME NEW d \in Bytes, NEW n \in Nat, Sized(n, d) # {}
  PROVE  /\ n \in 0..Len(d)
         /\ \E s \in Nat : \A e \in Bytes : Begins(e, d, n) => Sized(n, e) = One(s, e, n)
<1>1. Take(n, d) # {}
  BY DEF Sized
<1>2. n \in 0..Len(d)
  BY <1>1, TakeTakes
<1>3. PICK b \in Bytes : \A e \in Bytes : Begins(e, d, n) => Take(n, e) = Piece(b, After(e, n))
  BY <1>1, TakeTakes
<1>4. Unsigned(b) \in Nat
  BY UnsignedIsNat
<1>5. ASSUME NEW e \in Bytes, Begins(e, d, n) PROVE Sized(n, e) = One(Unsigned(b), e, n)
  <2>1. Sized(n, e) = {[size |-> Unsigned(r.bytes), rest |-> r.rest] : r \in Piece(b, After(e, n))}
    BY <1>3, <1>5 DEF Sized
  <2>2. QED BY <2>1 DEF Piece, One
<1>6. QED BY <1>2, <1>4, <1>5

(* The chunk of a size is fixed by its own bytes.                          *)
LEMMA ChunkIs ==
  ASSUME NEW d \in Bytes, NEW s \in Nat, NEW j \in 0..Len(d), Chunk(One(s, d, j)) # {}
  PROVE  /\ s \in 0..(Len(d) - j)
         /\ \E b \in Bytes : \A e \in Bytes :
              Begins(e, d, j + s) => Chunk(One(s, e, j)) = Piece(b, After(e, j + s))
<1>1. \A e : Chunk(One(s, e, j)) = Take(s, After(e, j))
  BY DEF Chunk, One
<1>2. After(d, j) \in Bytes /\ Len(After(d, j)) = Len(d) - j
  BY AfterFacts
<1>3. Take(s, After(d, j)) # {}
  BY <1>1
<1>4. s \in 0..(Len(d) - j)
  BY <1>2, <1>3, TakeTakes
<1>5. PICK b \in Bytes : \A a \in Bytes :
        Begins(a, After(d, j), s) => Take(s, a) = Piece(b, After(a, s))
  BY <1>2, <1>3, TakeTakes
<1>6. ASSUME NEW e \in Bytes, Begins(e, d, j + s)
      PROVE  Chunk(One(s, e, j)) = Piece(b, After(e, j + s))
  <2>1. j \in 0..Len(e) /\ s \in 0..(Len(e) - j) /\ Begins(After(e, j), After(d, j), s)
    BY <1>4, <1>6, BeginsAfter
  <2>2. After(e, j) \in Bytes /\ After(After(e, j), s) = After(e, j + s)
    BY <2>1, AfterFacts, AfterAfter
  <2>3. QED BY <1>1, <1>5, <2>1, <2>2
<1>7. QED BY <1>4, <1>6

(* What follows a header of j bytes is announced by d and by whatever      *)
(* begins like it.                                                         *)
LEMMA StringIs ==
  ASSUME NEW sizes, NEW b, NEW x, Chunk(sizes) = Piece(b, x)
  PROVE  String(sizes) = IF IsUtf8(b) THEN Done([string |-> b], x) ELSE {}
<1>1. Chunk(sizes) = {[bytes |-> b, rest |-> x]}
  BY DEF Piece
<1>2. {q \in Chunk(sizes) : IsUtf8(q.bytes)} = IF IsUtf8(b) THEN {[bytes |-> b, rest |-> x]} ELSE {}
  BY <1>1
<1>3. CASE IsUtf8(b)
  <2> DEFINE v(a) == [string |-> a]
  <2>1. {q \in Chunk(sizes) : IsUtf8(q.bytes)} = {[bytes |-> b, rest |-> x]}
    BY <1>2, <1>3
  <2>2. String(sizes) = UNION {Done(v(r.bytes), r.rest) : r \in {[bytes |-> b, rest |-> x]}}
    BY <2>1 DEF String
  <2> HIDE DEF v
  <2>3. String(sizes) = Done(v(b), x)
    BY <2>2
  <2>4. QED BY <1>3, <2>3 DEF v
<1>4. CASE ~IsUtf8(b)
  <2>1. {q \in Chunk(sizes) : IsUtf8(q.bytes)} = {}
    BY <1>2, <1>4
  <2>2. String(sizes) = UNION {Done([string |-> r.bytes], r.rest) : r \in {}}
    BY <2>1 DEF String
  <2>3. QED BY <1>4, <2>2
<1>5. QED BY <1>3, <1>4

(* A blob is what its chunk makes of it.                                    *)
LEMMA BinIs ==
  ASSUME NEW sizes, NEW b, NEW x, Chunk(sizes) = Piece(b, x)
  PROVE  Bin(sizes) = Done([string |-> IF IsUtf8(b) THEN b ELSE Encode64(b)], x)
<1> DEFINE v(a) == [string |-> IF IsUtf8(a) THEN a ELSE Encode64(a)]
<1>1. Bin(sizes) = UNION {Done(v(r.bytes), r.rest) : r \in {[bytes |-> b, rest |-> x]}}
  BY DEF Bin, Piece
<1> HIDE DEF v
<1>2. Bin(sizes) = Done(v(b), x)
  BY <1>1
<1>3. QED BY <1>2 DEF v

(* A number is what its bytes make of it.                                   *)
LEMMA NumberIs ==
  ASSUME NEW signed, NEW n, NEW d, NEW b, NEW x, Take(n, d) = Piece(b, x)
  PROVE  Number(signed, n, d) = Done([number |-> IF signed THEN Signed(b) ELSE Unsigned(b)], x)
<1> DEFINE v(a) == [number |-> IF signed THEN Signed(a) ELSE Unsigned(a)]
<1>1. Number(signed, n, d) = UNION {Done(v(r.bytes), r.rest) : r \in {[bytes |-> b, rest |-> x]}}
  BY DEF Number, Piece
<1> HIDE DEF v
<1>2. Number(signed, n, d) = Done(v(b), x)
  BY <1>1
<1>3. QED BY <1>2 DEF v

(* A float is its bytes, if they are finite.                                *)
LEMMA FloatIs ==
  ASSUME NEW n, NEW d, NEW b, NEW x, Take(n, d) = Piece(b, x)
  PROVE  Float(n, d) = IF Finite(b) THEN Done([float |-> b], x) ELSE {}
<1>1. Take(n, d) = {[bytes |-> b, rest |-> x]}
  BY DEF Piece
<1>2. {q \in Take(n, d) : Finite(q.bytes)} = IF Finite(b) THEN {[bytes |-> b, rest |-> x]} ELSE {}
  BY <1>1
<1>3. CASE Finite(b)
  <2> DEFINE v(a) == [float |-> a]
  <2>1. {q \in Take(n, d) : Finite(q.bytes)} = {[bytes |-> b, rest |-> x]}
    BY <1>2, <1>3
  <2>2. Float(n, d) = UNION {Done(v(r.bytes), r.rest) : r \in {[bytes |-> b, rest |-> x]}}
    BY <2>1 DEF Float
  <2> HIDE DEF v
  <2>3. Float(n, d) = Done(v(b), x)
    BY <2>2
  <2>4. QED BY <1>3, <2>3 DEF v
<1>4. CASE ~Finite(b)
  <2>1. {q \in Take(n, d) : Finite(q.bytes)} = {}
    BY <1>2, <1>4
  <2>2. Float(n, d) = UNION {Done([float |-> r.bytes], r.rest) : r \in {}}
    BY <2>1 DEF Float
  <2>3. QED BY <1>4, <2>2
<1>5. QED BY <1>3, <1>4

(* What each format byte announces.                                        *)
FormatIs(f, d) ==
  /\ f \in 0..127 => DecodeFormat(f, d) = Done([number |-> f], d)
  /\ f \in 128..143 => DecodeFormat(f, d) = Map(Fixed(f % 16, d))
  /\ f \in 144..159 => DecodeFormat(f, d) = Array(Fixed(f % 16, d))
  /\ f \in 160..191 => DecodeFormat(f, d) = String(Fixed(f % 32, d))
  /\ f = 192 => DecodeFormat(f, d) = Done(Null, d)
  /\ f \in 194..195 => DecodeFormat(f, d) = Done([bool |-> f = 195], d)
  /\ f \in 196..198 => DecodeFormat(f, d) = Bin(Sized(FieldWidth[f - 195], d))
  /\ f \in 202..203 => DecodeFormat(f, d) = Float(4 * (f - 201), d)
  /\ f \in 204..207 => DecodeFormat(f, d) = Number(FALSE, FieldWidth[f - 203], d)
  /\ f \in 208..211 => DecodeFormat(f, d) = Number(TRUE, FieldWidth[f - 207], d)
  /\ f \in 217..219 => DecodeFormat(f, d) = String(Sized(FieldWidth[f - 216], d))
  /\ f \in 220..221 => DecodeFormat(f, d) = Array(Sized(FieldWidth[f - 218], d))
  /\ f \in 222..223 => DecodeFormat(f, d) = Map(Sized(FieldWidth[f - 220], d))
  /\ f \in 224..255 => DecodeFormat(f, d) = Done([number |-> f - 256], d)
  /\ f = 193 \/ f \in 199..201 \/ f \in 212..216 => DecodeFormat(f, d) = {}

(* The cases of the match are apart.                                        *)
LEMMA Formats ==
  ASSUME NEW f \in 0..255, NEW d
  PROVE  FormatIs(f, d)
<1> DEFINE v1 == Done([number |-> f], d)
           v2 == Map(Fixed(f % 16, d))
           v3 == Array(Fixed(f % 16, d))
           v4 == String(Fixed(f % 32, d))
           v5 == Done(Null, d)
           v6 == Done([bool |-> f = 195], d)
           v7 == Bin(Sized(FieldWidth[f - 195], d))
           v8 == Float(4 * (f - 201), d)
           v9 == Number(FALSE, FieldWidth[f - 203], d)
           v10 == Number(TRUE, FieldWidth[f - 207], d)
           v11 == String(Sized(FieldWidth[f - 216], d))
           v12 == Array(Sized(FieldWidth[f - 218], d))
           v13 == Map(Sized(FieldWidth[f - 220], d))
           v14 == Done([number |-> f - 256], d)
<1>1. DecodeFormat(f, d) =
        CASE f \in 0..127 -> v1 [] f \in 128..143 -> v2 [] f \in 144..159 -> v3
          [] f \in 160..191 -> v4 [] f = 192 -> v5 [] f \in 194..195 -> v6
          [] f \in 196..198 -> v7 [] f \in 202..203 -> v8 [] f \in 204..207 -> v9
          [] f \in 208..211 -> v10 [] f \in 217..219 -> v11 [] f \in 220..221 -> v12
          [] f \in 222..223 -> v13 [] f \in 224..255 -> v14 [] OTHER -> {}
  BY SMTT(60) DEF DecodeFormat
<1> HIDE DEF v1, v2, v3, v4, v5, v6, v7, v8, v9, v10, v11, v12, v13, v14
<1>2. /\ f \in 0..127 => DecodeFormat(f, d) = v1
      /\ f \in 128..143 => DecodeFormat(f, d) = v2
      /\ f \in 144..159 => DecodeFormat(f, d) = v3
      /\ f \in 160..191 => DecodeFormat(f, d) = v4
      /\ f = 192 => DecodeFormat(f, d) = v5
  BY <1>1, SMTT(60)
<1>3. /\ f \in 194..195 => DecodeFormat(f, d) = v6
      /\ f \in 196..198 => DecodeFormat(f, d) = v7
      /\ f \in 202..203 => DecodeFormat(f, d) = v8
      /\ f \in 204..207 => DecodeFormat(f, d) = v9
      /\ f \in 208..211 => DecodeFormat(f, d) = v10
  BY <1>1, SMTT(60)
<1>4. /\ f \in 217..219 => DecodeFormat(f, d) = v11
      /\ f \in 220..221 => DecodeFormat(f, d) = v12
      /\ f \in 222..223 => DecodeFormat(f, d) = v13
      /\ f \in 224..255 => DecodeFormat(f, d) = v14
  BY <1>1, SMTT(60)
<1>5. f = 193 \/ f \in 199..201 \/ f \in 212..216 => DecodeFormat(f, d) = {}
  BY <1>1, SMTT(60)
<1>6. /\ f \in 0..127 => DecodeFormat(f, d) = Done([number |-> f], d)
      /\ f \in 128..143 => DecodeFormat(f, d) = Map(Fixed(f % 16, d))
      /\ f \in 144..159 => DecodeFormat(f, d) = Array(Fixed(f % 16, d))
      /\ f \in 160..191 => DecodeFormat(f, d) = String(Fixed(f % 32, d))
      /\ f = 192 => DecodeFormat(f, d) = Done(Null, d)
      /\ f \in 194..195 => DecodeFormat(f, d) = Done([bool |-> f = 195], d)
      /\ f \in 196..198 => DecodeFormat(f, d) = Bin(Sized(FieldWidth[f - 195], d))
  BY <1>2, <1>3, Zenon DEF v1, v2, v3, v4, v5, v6, v7
<1>7. /\ f \in 202..203 => DecodeFormat(f, d) = Float(4 * (f - 201), d)
      /\ f \in 204..207 => DecodeFormat(f, d) = Number(FALSE, FieldWidth[f - 203], d)
      /\ f \in 208..211 => DecodeFormat(f, d) = Number(TRUE, FieldWidth[f - 207], d)
      /\ f \in 217..219 => DecodeFormat(f, d) = String(Sized(FieldWidth[f - 216], d))
      /\ f \in 220..221 => DecodeFormat(f, d) = Array(Sized(FieldWidth[f - 218], d))
      /\ f \in 222..223 => DecodeFormat(f, d) = Map(Sized(FieldWidth[f - 220], d))
      /\ f \in 224..255 => DecodeFormat(f, d) = Done([number |-> f - 256], d)
  BY <1>3, <1>4, Zenon DEF v8, v9, v10, v11, v12, v13, v14
<1>8. QED BY <1>5, <1>6, <1>7, Zenon DEF FormatIs

(* F announces one thing of d and, with other rests, of what begins like   *)
(* it as far as that goes.                                                 *)
Told(kind, value, count, e, k) == {Announced(kind, value, count, After(e, k))}

Settles(F, d) ==
  \E kind, value : \E count \in Nat, k \in 0..Len(d) : \A e \in Bytes :
    Begins(e, d, k) => F[e] = Told(kind, value, count, e, k)

(* A finished value is an announcement of no others.                        *)
LEMMA DoneIsTold ==
  \A value, e, k : Done(value, After(e, k)) = Told("plain", value, 0, e, k)
BY DEF Done, Told

(* A value without bytes of its own settles.                                *)
LEMMA DoneSettles ==
  ASSUME NEW d \in Bytes, NEW value, NEW F, \A e \in Bytes : F[e] = Done(value, e)
  PROVE  Settles(F, d)
<1>1. ASSUME NEW e \in Bytes PROVE F[e] = Told("plain", value, 0, e, 0)
  <2>1. After(e, 0) = e
    BY AfterNothing
  <2>2. F[e] = Done(value, e)
    OBVIOUS
  <2>3. QED BY <2>1, <2>2, DoneIsTold
<1>2. 0 \in 0..Len(d)
  BY AfterNothing
<1>3. QED BY <1>1, <1>2 DEF Settles

(* A number settles with its bytes.                                         *)
LEMMA NumberSettles ==
  ASSUME NEW d \in Bytes, NEW signed, NEW n \in Nat,
         NEW F, \A e \in Bytes : F[e] = Number(signed, n, e), F[d] # {}
  PROVE  Settles(F, d)
<1>1. Take(n, d) # {}
  <2>1. Number(signed, n, d) # {}
    OBVIOUS
  <2> DEFINE v(a) == [number |-> IF signed THEN Signed(a) ELSE Unsigned(a)]
  <2>2. Number(signed, n, d) = UNION {Done(v(r.bytes), r.rest) : r \in Take(n, d)}
    BY DEF Number
  <2> HIDE DEF v
  <2>3. QED BY <2>1, <2>2
<1>2. n \in 0..Len(d)
  BY <1>1, TakeTakes
<1>3. PICK b \in Bytes : \A e \in Bytes : Begins(e, d, n) => Take(n, e) = Piece(b, After(e, n))
  BY <1>1, TakeTakes
<1>4. PICK v : v = [number |-> IF signed THEN Signed(b) ELSE Unsigned(b)]
  OBVIOUS
<1>5. ASSUME NEW e \in Bytes, Begins(e, d, n) PROVE F[e] = Told("plain", v, 0, e, n)
  <2>1. Take(n, e) = Piece(b, After(e, n))
    BY <1>3, <1>5
  <2>2. Number(signed, n, e) =
          Done([number |-> IF signed THEN Signed(b) ELSE Unsigned(b)], After(e, n))
    BY <2>1, NumberIs
  <2>3. QED BY <1>4, <2>2, DoneIsTold
<1>6. QED BY <1>2, <1>5 DEF Settles

(* A float settles with its bytes.                                          *)
LEMMA FloatSettles ==
  ASSUME NEW d \in Bytes, NEW n \in Nat,
         NEW F, \A e \in Bytes : F[e] = Float(n, e), F[d] # {}
  PROVE  Settles(F, d)
<1>1. Take(n, d) # {}
  <2>1. Float(n, d) # {}
    OBVIOUS
  <2> DEFINE v(a) == [float |-> a]
  <2>2. Float(n, d) =
          UNION {Done(v(r.bytes), r.rest) : r \in {q \in Take(n, d) : Finite(q.bytes)}}
    BY DEF Float
  <2> HIDE DEF v
  <2>3. QED BY <2>1, <2>2
<1>2. n \in 0..Len(d)
  BY <1>1, TakeTakes
<1>3. PICK b \in Bytes : \A e \in Bytes : Begins(e, d, n) => Take(n, e) = Piece(b, After(e, n))
  BY <1>1, TakeTakes
<1>4. PICK v : v = [float |-> b]
  OBVIOUS
<1>5. ASSUME NEW e \in Bytes, Begins(e, d, n)
      PROVE  Float(n, e) = IF Finite(b) THEN Done(v, After(e, n)) ELSE {}
  <2>1. Take(n, e) = Piece(b, After(e, n))
    BY <1>3, <1>5
  <2>2. QED BY <1>4, <2>1, FloatIs
<1>6. Finite(b)
  <2>1. Begins(d, d, n)
    BY <1>2, BeginsItself
  <2>2. QED BY <1>5, <2>1
<1>7. ASSUME NEW e \in Bytes, Begins(e, d, n) PROVE F[e] = Told("plain", v, 0, e, n)
  <2>1. F[e] = Done(v, After(e, n))
    BY <1>5, <1>6, <1>7
  <2>2. QED BY <2>1, DoneIsTold
<1>8. QED BY <1>2, <1>7 DEF Settles

(* What is announced with a size.                                          *)
Opening(kind, sizes) ==
  CASE kind = "string" -> String(sizes) [] kind = "bin" -> Bin(sizes)
    [] kind = "array" -> Array(sizes) [] kind = "map" -> Map(sizes)

Kinds == {"string", "bin", "array", "map"}

(* No text and no blob without its chunk.                                   *)
LEMMA NoChunk ==
  ASSUME NEW sizes, Chunk(sizes) = {}
  PROVE  String(sizes) = {} /\ Bin(sizes) = {}
<1>1. {q \in Chunk(sizes) : IsUtf8(q.bytes)} = {}
  OBVIOUS
<1>2. String(sizes) = UNION {Done([string |-> r.bytes], r.rest) : r \in {}}
  BY <1>1 DEF String
<1>3. Bin(sizes) =
        UNION {Done([string |-> IF IsUtf8(r.bytes) THEN r.bytes ELSE Encode64(r.bytes)], r.rest) :
                 r \in {}}
  BY DEF Bin
<1>4. QED BY <1>2, <1>3

(* A text or blob settles with its chunk.                                   *)
LEMMA ChunkSettles ==
  ASSUME NEW d \in Bytes, NEW kind \in {"string", "bin"}, NEW s \in Nat, NEW j \in 0..Len(d),
         NEW F, F[d] # {},
         \A e \in Bytes : Begins(e, d, j) => F[e] = Opening(kind, One(s, e, j))
  PROVE  Settles(F, d)
<1>1. Begins(d, d, j) /\ Len(d) \in Nat
  BY BeginsItself, AfterNothing
<1>2. /\ \A sizes : Opening("string", sizes) = String(sizes)
      /\ \A sizes : Opening("bin", sizes) = Bin(sizes)
  BY DEF Opening
<1>3. Opening(kind, One(s, d, j)) # {}
  BY <1>1
<1>4. Chunk(One(s, d, j)) # {}
  <2>1. String(One(s, d, j)) # {} \/ Bin(One(s, d, j)) # {}
    BY <1>2, <1>3
  <2>2. QED BY <2>1, NoChunk
<1>5. s \in 0..(Len(d) - j)
  BY <1>4, ChunkIs
<1>6. PICK k \in 0..Len(d) : k = j + s
  BY <1>1, <1>5
<1>7. PICK b \in Bytes : \A e \in Bytes :
        Begins(e, d, k) => Chunk(One(s, e, j)) = Piece(b, After(e, k))
  BY <1>4, <1>6, ChunkIs
<1>8. PICK v : v = [string |-> IF kind = "string" \/ IsUtf8(b) THEN b ELSE Encode64(b)]
  OBVIOUS
<1>9. ASSUME NEW e \in Bytes, Begins(e, d, k)
      PROVE  F[e] = IF kind = "string" /\ ~IsUtf8(b) THEN {} ELSE Done(v, After(e, k))
  <2>1. Begins(e, d, j)
    BY <1>5, <1>6, <1>9, BeginsAfter
  <2>2. F[e] = Opening(kind, One(s, e, j)) /\ Chunk(One(s, e, j)) = Piece(b, After(e, k))
    BY <1>7, <1>9, <2>1
  <2>3. CASE kind = "string"
    <3>1. String(One(s, e, j)) = IF IsUtf8(b) THEN Done([string |-> b], After(e, k)) ELSE {}
      BY <2>2, StringIs
    <3>2. v = [string |-> b]
      BY <1>8, <2>3
    <3>3. QED BY <1>2, <2>2, <2>3, <3>1, <3>2
  <2>4. CASE kind = "bin"
    <3>1. Bin(One(s, e, j)) = Done([string |-> IF IsUtf8(b) THEN b ELSE Encode64(b)], After(e, k))
      BY <2>2, BinIs
    <3>2. v = [string |-> IF IsUtf8(b) THEN b ELSE Encode64(b)]
      BY <1>8, <2>4
    <3>3. QED BY <1>2, <2>2, <2>4, <3>1, <3>2
  <2>5. QED BY <2>3, <2>4
<1>10. ~(kind = "string" /\ ~IsUtf8(b))
  <2>1. Begins(d, d, k)
    BY BeginsItself
  <2>2. QED BY <1>9, <2>1
<1>11. ASSUME NEW e \in Bytes, Begins(e, d, k) PROVE F[e] = Told("plain", v, 0, e, k)
  <2>1. F[e] = Done(v, After(e, k))
    BY <1>9, <1>10, <1>11
  <2>2. QED BY <2>1, DoneIsTold
<1>12. QED BY <1>11 DEF Settles

(* What is announced with a size settles after the size.                    *)
LEMMA OpeningSettles ==
  ASSUME NEW d \in Bytes, NEW kind \in Kinds, NEW s \in Nat, NEW j \in 0..Len(d),
         NEW F, F[d] # {},
         \A e \in Bytes : Begins(e, d, j) => F[e] = Opening(kind, One(s, e, j))
  PROVE  Settles(F, d)
<1>1. CASE kind \in {"string", "bin"}
  BY <1>1, ChunkSettles
<1>2. CASE kind = "array"
  <2>1. \A sizes : Opening("array", sizes) = Array(sizes)
    BY DEF Opening
  <2>2. \A e : Array(One(s, e, j)) = Told("array", Null, s, e, j)
    BY DEF Array, One, Told
  <2>3. QED BY <1>2, <2>1, <2>2 DEF Settles
<1>3. CASE kind = "map"
  <2>1. \A sizes : Opening("map", sizes) = Map(sizes)
    BY DEF Opening
  <2>2. \A e : Map(One(s, e, j)) = Told("object", Null, 2 * s, e, j)
    BY DEF Map, One, Told
  <2>3. 2 * s \in Nat
    OBVIOUS
  <2>4. QED BY <1>3, <2>1, <2>2, <2>3 DEF Settles
<1>4. QED BY <1>1, <1>2, <1>3 DEF Kinds

(* The same with a size in the format byte.                                 *)
LEMMA FixedSettles ==
  ASSUME NEW d \in Bytes, NEW kind \in Kinds, NEW s \in Nat,
         NEW F, F[d] # {}, \A e \in Bytes : F[e] = Opening(kind, Fixed(s, e))
  PROVE  Settles(F, d)
<1>1. ASSUME NEW e \in Bytes PROVE Fixed(s, e) = One(s, e, 0)
  <2>1. After(e, 0) = e
    BY AfterNothing
  <2>2. QED BY <2>1 DEF Fixed, One
<1>2. 0 \in 0..Len(d)
  BY AfterNothing
<1>3. QED BY <1>1, <1>2, OpeningSettles

(* The same with a size that is read.                                       *)
LEMMA SizedSettles ==
  ASSUME NEW d \in Bytes, NEW kind \in Kinds, NEW n \in Nat,
         NEW F, F[d] # {}, \A e \in Bytes : F[e] = Opening(kind, Sized(n, e))
  PROVE  Settles(F, d)
<1>1. Opening(kind, {}) = {}
  <2>1. String({}) = {} /\ Bin({}) = {} /\ Array({}) = {} /\ Map({}) = {}
    <3>1. Chunk({}) = {}
      BY DEF Chunk
    <3>2. QED BY <3>1, NoChunk DEF Array, Map
  <2>2. QED BY <2>1 DEF Opening, Kinds
<1>2. Sized(n, d) # {}
  BY <1>1
<1>3. PICK s \in Nat : \A e \in Bytes : Begins(e, d, n) => Sized(n, e) = One(s, e, n)
  BY <1>2, SizedIs
<1>4. n \in 0..Len(d)
  BY <1>2, SizedIs
<1>5. QED BY <1>3, <1>4, OpeningSettles

(* The widths are natural numbers.                                          *)
LEMMA WidthFacts ==
  \A i \in 1..4 : FieldWidth[i] \in Nat
<1>1. FieldWidth[1] = 1 /\ FieldWidth[2] = 2 /\ FieldWidth[3] = 4 /\ FieldWidth[4] = 8
  BY DEF FieldWidth
<1>2. ASSUME NEW i \in 1..4 PROVE i = 1 \/ i = 2 \/ i = 3 \/ i = 4
  OBVIOUS
<1>3. QED BY <1>1, <1>2

(* Whatever the format byte, what it announces settles.                     *)
LEMMA FormatSettles ==
  ASSUME NEW d \in Bytes, NEW f \in 0..255,
         NEW F, F[d] # {}, \A e \in Bytes : F[e] = DecodeFormat(f, e)
  PROVE  Settles(F, d)
<1>1. \A e : FormatIs(f, e)
  BY Formats
<1>2. /\ \A sizes : Opening("string", sizes) = String(sizes)
      /\ \A sizes : Opening("bin", sizes) = Bin(sizes)
      /\ \A sizes : Opening("array", sizes) = Array(sizes)
      /\ \A sizes : Opening("map", sizes) = Map(sizes)
  BY DEF Opening
<1>3. {"string", "bin", "array", "map"} \subseteq Kinds
  BY DEF Kinds
<1>4. ASSUME NEW value, \A e \in Bytes : DecodeFormat(f, e) = Done(value, e)
      PROVE  Settles(F, d)
  BY <1>4, DoneSettles
<1>5. ASSUME NEW kind \in Kinds, NEW s \in Nat,
             \A e \in Bytes : DecodeFormat(f, e) = Opening(kind, Fixed(s, e))
      PROVE  Settles(F, d)
  BY <1>5, FixedSettles
<1>6. ASSUME NEW kind \in Kinds, NEW i \in 1..4,
             \A e \in Bytes : DecodeFormat(f, e) = Opening(kind, Sized(FieldWidth[i], e))
      PROVE  Settles(F, d)
  <2>1. PICK n \in Nat : n = FieldWidth[i]
    BY WidthFacts
  <2>2. QED BY <1>6, <2>1, SizedSettles
<1>7. ASSUME NEW signed, NEW i \in 1..4,
             \A e \in Bytes : DecodeFormat(f, e) = Number(signed, FieldWidth[i], e)
      PROVE  Settles(F, d)
  <2>1. PICK n \in Nat : n = FieldWidth[i]
    BY WidthFacts
  <2>2. QED BY <1>7, <2>1, NumberSettles
<1>8. CASE f \in 0..127
  <2>1. ASSUME NEW e \in Bytes PROVE DecodeFormat(f, e) = Done([number |-> f], e)
    BY <1>1, <1>8, ZenonT(60) DEF FormatIs
  <2>2. QED BY <1>4, <2>1
<1>9. CASE f \in 128..143
  <2>1. PICK r \in Nat : r = f % 16
    OBVIOUS
  <2>2. ASSUME NEW e \in Bytes PROVE DecodeFormat(f, e) = Map(Fixed(r, e))
    BY <1>1, <1>9, <2>1, ZenonT(60) DEF FormatIs
  <2>3. \A e \in Bytes : DecodeFormat(f, e) = Opening("map", Fixed(r, e))
    BY <1>2, <2>2
  <2>4. QED BY <1>3, <1>5, <2>3
<1>10. CASE f \in 144..159
  <2>1. PICK r \in Nat : r = f % 16
    OBVIOUS
  <2>2. ASSUME NEW e \in Bytes PROVE DecodeFormat(f, e) = Array(Fixed(r, e))
    BY <1>1, <1>10, <2>1, ZenonT(60) DEF FormatIs
  <2>3. \A e \in Bytes : DecodeFormat(f, e) = Opening("array", Fixed(r, e))
    BY <1>2, <2>2
  <2>4. QED BY <1>3, <1>5, <2>3
<1>11. CASE f \in 160..191
  <2>1. PICK r \in Nat : r = f % 32
    OBVIOUS
  <2>2. ASSUME NEW e \in Bytes PROVE DecodeFormat(f, e) = String(Fixed(r, e))
    BY <1>1, <1>11, <2>1, ZenonT(60) DEF FormatIs
  <2>3. \A e \in Bytes : DecodeFormat(f, e) = Opening("string", Fixed(r, e))
    BY <1>2, <2>2
  <2>4. QED BY <1>3, <1>5, <2>3
<1>12. CASE f = 192
  <2>1. ASSUME NEW e \in Bytes PROVE f = 192 => DecodeFormat(f, e) = Done(Null, e)
    BY <1>1, ZenonT(60) DEF FormatIs
  <2>2. QED BY <1>4, <1>12, <2>1
<1>13. CASE f \in 194..195
  <2>1. ASSUME NEW e \in Bytes PROVE DecodeFormat(f, e) = Done([bool |-> f = 195], e)
    BY <1>1, <1>13, ZenonT(60) DEF FormatIs
  <2>2. QED BY <1>4, <2>1
<1>14. CASE f \in 196..198
  <2>1. PICK i \in 1..4 : i = f - 195
    BY <1>14
  <2>2. ASSUME NEW e \in Bytes PROVE DecodeFormat(f, e) = Bin(Sized(FieldWidth[i], e))
    BY <1>1, <1>14, <2>1, ZenonT(60) DEF FormatIs
  <2>3. \A e \in Bytes : DecodeFormat(f, e) = Opening("bin", Sized(FieldWidth[i], e))
    BY <1>2, <2>2
  <2>4. QED BY <1>3, <1>6, <2>3
<1>15. CASE f \in 202..203
  <2>1. ASSUME NEW e \in Bytes PROVE DecodeFormat(f, e) = Float(4 * (f - 201), e)
    BY <1>1, <1>15, ZenonT(60) DEF FormatIs
  <2>2. PICK n \in Nat : n = 4 * (f - 201)
    BY <1>15
  <2>3. QED BY <2>1, <2>2, FloatSettles
<1>16. CASE f \in 204..207
  <2>1. ASSUME NEW e \in Bytes PROVE DecodeFormat(f, e) = Number(FALSE, FieldWidth[f - 203], e)
    BY <1>1, <1>16, ZenonT(60) DEF FormatIs
  <2>2. f - 203 \in 1..4
    BY <1>16
  <2>3. QED BY <1>7, <2>1, <2>2, ZenonT(60)
<1>17. CASE f \in 208..211
  <2>1. ASSUME NEW e \in Bytes PROVE DecodeFormat(f, e) = Number(TRUE, FieldWidth[f - 207], e)
    BY <1>1, <1>17, ZenonT(60) DEF FormatIs
  <2>2. f - 207 \in 1..4
    BY <1>17
  <2>3. QED BY <1>7, <2>1, <2>2, ZenonT(60)
<1>18. CASE f \in 217..219
  <2>1. PICK i \in 1..4 : i = f - 216
    BY <1>18
  <2>2. ASSUME NEW e \in Bytes PROVE DecodeFormat(f, e) = String(Sized(FieldWidth[i], e))
    BY <1>1, <1>18, <2>1, ZenonT(60) DEF FormatIs
  <2>3. \A e \in Bytes : DecodeFormat(f, e) = Opening("string", Sized(FieldWidth[i], e))
    BY <1>2, <2>2
  <2>4. QED BY <1>3, <1>6, <2>3
<1>19. CASE f \in 220..221
  <2>1. PICK i \in 1..4 : i = f - 218
    BY <1>19
  <2>2. ASSUME NEW e \in Bytes PROVE DecodeFormat(f, e) = Array(Sized(FieldWidth[i], e))
    BY <1>1, <1>19, <2>1, ZenonT(60) DEF FormatIs
  <2>3. \A e \in Bytes : DecodeFormat(f, e) = Opening("array", Sized(FieldWidth[i], e))
    BY <1>2, <2>2
  <2>4. QED BY <1>3, <1>6, <2>3
<1>20. CASE f \in 222..223
  <2>1. PICK i \in 1..4 : i = f - 220
    BY <1>20
  <2>2. ASSUME NEW e \in Bytes PROVE DecodeFormat(f, e) = Map(Sized(FieldWidth[i], e))
    BY <1>1, <1>20, <2>1, ZenonT(60) DEF FormatIs
  <2>3. \A e \in Bytes : DecodeFormat(f, e) = Opening("map", Sized(FieldWidth[i], e))
    BY <1>2, <2>2
  <2>4. QED BY <1>3, <1>6, <2>3
<1>21. CASE f \in 224..255
  <2>1. ASSUME NEW e \in Bytes PROVE DecodeFormat(f, e) = Done([number |-> f - 256], e)
    BY <1>1, <1>21, ZenonT(60) DEF FormatIs
  <2>2. QED BY <1>4, <2>1
<1>22. ~(f = 193 \/ f \in 199..201 \/ f \in 212..216)
  BY <1>1, ZenonT(60) DEF FormatIs
<1>23. \/ f \in 0..127 \/ f \in 128..143 \/ f \in 144..159 \/ f \in 160..191
       \/ f = 192 \/ f \in 194..195 \/ f \in 196..198 \/ f \in 202..203
       \/ f \in 204..207 \/ f \in 208..211 \/ f \in 217..219 \/ f \in 220..221
       \/ f \in 222..223 \/ f \in 224..255
  BY <1>22
<1>24. QED
  BY <1>8, <1>9, <1>10, <1>11, <1>12, <1>13, <1>14, <1>15, <1>16, <1>17, <1>18, <1>19,
     <1>20, <1>21, <1>23, ZenonT(60)

(* What any bytes open with is settled by their beginning, of one byte at  *)
(* least.                                                                  *)
LEMMA AnnounceSettles ==
  ASSUME NEW d \in Bytes, Announce(d) # {}
  PROVE  \E kind, value : \E count \in Nat, k \in 1..Len(d) : \A e \in Bytes :
           Begins(e, d, k) => Announce(e) = Told(kind, value, count, e, k)
<1>1. ASSUME NEW e \in Bytes, e # <<>>
      PROVE  1 \in 1..Len(e) /\ e[1] \in 0..255 /\ Take(1, e) = Piece(<<e[1]>>, After(e, 1))
  <2>1. Len(e) \in Nat /\ Len(e) # 0 /\ DOMAIN e = 1..Len(e)
    BY <1>1, EmptySeq, LenProperties DEF Bytes
  <2>2. 1 \in 1..Len(e) /\ e[1] \in 0..255
    BY <2>1, ElementOfSeq DEF Bytes
  <2>3. Take(1, e) # {}
    <3>1. ~(1 > Len(e))
      BY <2>1
    <3>2. QED BY <3>1 DEF Take
  <2>4. PICK b \in Bytes : /\ Len(b) = 1 /\ \A i \in 1..1 : b[i] = e[i]
                           /\ \A g \in Bytes : Begins(g, e, 1) => Take(1, g) = Piece(b, After(g, 1))
    BY <2>3, TakeTakes
  <2>5. b = <<e[1]>>
    <3>1. <<e[1]>> \in Bytes /\ Len(<<e[1]>>) = 1 /\ <<e[1]>>[1] = e[1]
      BY <2>2 DEF Bytes
    <3>2. \A i \in 1..1 : i = 1
      OBVIOUS
    <3>3. \A i \in 1..1 : b[i] = <<e[1]>>[i]
      BY <2>4, <3>1, <3>2
    <3>4. QED BY <2>4, <3>1, <3>3, SameBytes
  <2>6. Begins(e, e, 1)
    BY <2>2 DEF Begins
  <2>7. QED BY <2>2, <2>4, <2>5, <2>6
<1>2. ASSUME NEW e \in Bytes, e # <<>>
      PROVE  Announce(e) = DecodeFormat(e[1], After(e, 1)) /\ 1 \in 1..Len(e)
  <2>1. PICK x, y : x = e[1] /\ y = After(e, 1) /\ <<x>>[1] = x
    OBVIOUS
  <2>2. Announce(e) = UNION {DecodeFormat(r.bytes[1], r.rest) : r \in Piece(<<x>>, y)}
    BY <1>1, <1>2, <2>1 DEF Announce
  <2>3. Announce(e) = DecodeFormat(<<x>>[1], y)
    BY <2>2 DEF Piece
  <2>4. QED BY <1>1, <1>2, <2>1, <2>3
<1>3. d # <<>>
  <2>1. Take(1, d) # {}
    BY DEF Announce
  <2>2. 1 \in 0..Len(d)
    BY <2>1, TakeTakes
  <2>3. QED BY <2>2
<1>4. 1 \in 1..Len(d) /\ 1 \in 0..Len(d) /\ Len(d) \in Nat
  <2>1. 1 \in 1..Len(d) /\ Len(d) \in Nat
    BY <1>1, <1>3, AfterNothing
  <2>2. QED BY <2>1
<1>5. PICK f \in 0..255 : f = d[1]
  BY <1>1, <1>3
<1>6. PICK a \in Bytes : a = After(d, 1) /\ Len(a) = Len(d) - 1
  BY <1>4, AfterFacts
<1> DEFINE F == [g \in Bytes |-> DecodeFormat(f, g)]
<1>7. \A g \in Bytes : F[g] = DecodeFormat(f, g)
  OBVIOUS
<1> HIDE DEF F
<1>8. F[a] # {}
  BY <1>2, <1>3, <1>5, <1>6, <1>7
<1>9. Settles(F, a)
  BY <1>7, <1>8, FormatSettles
<1>10. PICK kind, value : \E count \in Nat, k \in 0..Len(a) : \A e \in Bytes :
         Begins(e, a, k) => F[e] = Told(kind, value, count, e, k)
  BY <1>9, Zenon DEF Settles
<1>11. PICK count \in Nat, j \in 0..Len(a) : \A e \in Bytes :
        Begins(e, a, j) => F[e] = Told(kind, value, count, e, j)
  BY <1>10, Zenon
<1>12. Len(d) \in Nat /\ 1 \in 0..Len(d) /\ j \in 0..(Len(d) - 1) /\ 1 + j \in 1..Len(d)
  BY <1>4, <1>6
<1>13. ASSUME NEW e \in Bytes, Begins(e, d, 1 + j)
      PROVE  Announce(e) = Told(kind, value, count, e, 1 + j)
  <2>1. /\ Begins(e, d, 1) /\ 1 \in 0..Len(e) /\ j \in 0..(Len(e) - 1)
        /\ Begins(After(e, 1), a, j)
    BY <1>6, <1>12, <1>13, BeginsAfter
  <2>2. e[1] = f
    <3>1. 1 \in 1..1
      OBVIOUS
    <3>2. QED BY <1>5, <2>1, <3>1 DEF Begins
  <2>3. e # <<>>
    BY <2>1
  <2>4. After(e, 1) \in Bytes /\ After(After(e, 1), j) = After(e, 1 + j)
    BY <2>1, AfterFacts, AfterAfter
  <2>5. Announce(e) = F[After(e, 1)]
    BY <1>2, <1>7, <2>2, <2>3, <2>4
  <2>6. F[After(e, 1)] = Told(kind, value, count, After(e, 1), j)
    BY <1>11, <2>1, <2>4
  <2>7. QED BY <2>4, <2>5, <2>6 DEF Told
<1>14. QED BY <1>12, <1>13

(* What is announced is shorter than what it is part of.                   *)
LEMMA AnnounceShrinks ==
  ASSUME NEW d \in Bytes, NEW h \in Announce(d)
  PROVE  /\ h.count \in Nat /\ h.rest \in Bytes
         /\ Len(h.rest) \in Nat /\ Len(d) \in Nat /\ Len(h.rest) < Len(d)
<1>1. PICK kind, value : \E count \in Nat, k \in 1..Len(d) : \A e \in Bytes :
        Begins(e, d, k) => Announce(e) = Told(kind, value, count, e, k)
  BY AnnounceSettles
<1>2. PICK count \in Nat, k \in 1..Len(d) : \A e \in Bytes :
        Begins(e, d, k) => Announce(e) = Told(kind, value, count, e, k)
  BY <1>1, Zenon
<1>3. Len(d) \in Nat /\ k \in 0..Len(d)
  BY AfterNothing
<1>4. Announce(d) = Told(kind, value, count, d, k)
  BY <1>2, <1>3, BeginsItself
<1>5. h = Announced(kind, value, count, After(d, k))
  BY <1>4 DEF Told
<1>6. After(d, k) \in Bytes /\ Len(After(d, k)) = Len(d) - k
  BY <1>3, AfterFacts
<1>7. h.count = count /\ h.rest = After(d, k)
  BY <1>5 DEF Announced
<1>8. QED BY <1>3, <1>6, <1>7

(* The body of Items with f for Items, and what it needs of f: it looks at *)
(* less data only, if f leaves no more than there was.                     *)
Rows(f, c, head, inner) == {InARow(head, inner, others) : others \in f[<<c - 1, inner.rest>>]}

HeadRows(f, c, head) == UNION {Rows(f, c, head, inner) : inner \in f[<<head.count, head.rest>>]}

Body(f, c, d) ==
  IF c = 0 THEN {[items |-> <<>>, rest |-> d]}
  ELSE UNION {HeadRows(f, c, head) : head \in Announce(d)}

Short(n) == {t \in Tasks : Len(t[2]) < n}

Shrinks(f, n) == \A t \in Short(n) : \A r \in f[t] : r.rest \in Bytes /\ Len(r.rest) <= Len(t[2])

Agree(f, g, n) == \A t \in Short(n) : f[t] = g[t]

(* Tasks with less than n bytes.                                            *)
LEMMA ShortFacts ==
  /\ \A n : \A c \in Nat, d \in Bytes : Len(d) < n => <<c, d>> \in Short(n)
  /\ \A n : \A t \in Short(n) : /\ t[1] \in Nat /\ t[2] \in Bytes /\ t = <<t[1], t[2]>>
                                /\ Len(t[2]) \in Nat /\ Len(t[2]) < n
<1>1. \A d \in Bytes : Len(d) \in Nat
  BY AfterNothing
<1>2. Tasks = Nat \X Bytes
  BY DEF Tasks, Bytes
<1>3. QED BY <1>1, <1>2 DEF Short

(* Where the body looks.                                                   *)
LEMMA Looks ==
  ASSUME NEW d \in Bytes, NEW n \in Nat, Len(d) <= n, NEW c \in Nat, c # 0,
         NEW f, Shrinks(f, n), NEW head \in Announce(d)
  PROVE  /\ <<head.count, head.rest>> \in Short(n)
         /\ \A inner \in f[<<head.count, head.rest>>] :
              /\ <<c - 1, inner.rest>> \in Short(n)
              /\ Len(inner.rest) \in Nat /\ Len(inner.rest) < Len(d)
<1>1. /\ head.count \in Nat /\ head.rest \in Bytes
      /\ Len(head.rest) \in Nat /\ Len(d) \in Nat /\ Len(head.rest) < Len(d)
  BY AnnounceShrinks
<1>2. Len(head.rest) < n
  BY <1>1
<1>3. PICK t : t = <<head.count, head.rest>> /\ t \in Short(n) /\ t[2] = head.rest
  <2>1. <<head.count, head.rest>> \in Short(n)
    BY <1>1, <1>2, ShortFacts
  <2>2. <<head.count, head.rest>>[2] = head.rest
    OBVIOUS
  <2>3. QED BY <2>1, <2>2
<1>4. ASSUME NEW inner \in f[t]
      PROVE  /\ <<c - 1, inner.rest>> \in Short(n)
             /\ Len(inner.rest) \in Nat /\ Len(inner.rest) < Len(d)
  <2>1. inner.rest \in Bytes /\ Len(inner.rest) <= Len(head.rest)
    BY <1>3, <1>4 DEF Shrinks
  <2>2. Len(inner.rest) \in Nat
    BY <2>1, AfterNothing
  <2>3. Len(inner.rest) < n /\ Len(inner.rest) < Len(d) /\ c - 1 \in Nat
    BY <1>1, <2>1, <2>2
  <2>4. QED BY <2>1, <2>2, <2>3, ShortFacts
<1>5. QED BY <1>3, <1>4

(* Functions that agree on less data have the same body.                    *)
LEMMA SameBody ==
  ASSUME NEW c \in Nat, NEW d \in Bytes, NEW n \in Nat, Len(d) <= n,
         NEW f, NEW g, Shrinks(f, n), Agree(f, g, n)
  PROVE  Body(f, c, d) = Body(g, c, d)
<1>1. CASE c = 0
  BY <1>1 DEF Body
<1>2. CASE c # 0
  <2>1. ASSUME NEW head \in Announce(d) PROVE HeadRows(f, c, head) = HeadRows(g, c, head)
    <3>1. PICK t : t = <<head.count, head.rest>>
      OBVIOUS
    <3>2. f[t] = g[t]
      BY <1>2, <3>1, Looks DEF Agree
    <3>3. ASSUME NEW inner \in f[t] PROVE Rows(f, c, head, inner) = Rows(g, c, head, inner)
      <4>1. PICK u : u = <<c - 1, inner.rest>> /\ u \in Short(n)
        BY <1>2, <3>1, Looks
      <4>2. f[u] = g[u]
        BY <4>1 DEF Agree
      <4>3. QED BY <4>1, <4>2 DEF Rows
    <3>4. QED BY <3>1, <3>2, <3>3 DEF HeadRows
  <2>2. {HeadRows(f, c, head) : head \in Announce(d)} =
          {HeadRows(g, c, head) : head \in Announce(d)}
    BY <2>1
  <2>3. QED BY <1>2, <2>2 DEF Body
<1>3. QED BY <1>1, <1>2

(* The body leaves no more than there was.                                  *)
LEMMA BodyShrinks ==
  ASSUME NEW c \in Nat, NEW d \in Bytes, NEW n \in Nat, Len(d) <= n,
         NEW f, Shrinks(f, n), NEW r \in Body(f, c, d)
  PROVE  r.rest \in Bytes /\ Len(r.rest) <= Len(d)
<1>1. CASE c = 0
  <2>1. r.rest = d
    BY <1>1 DEF Body
  <2>2. Len(d) \in Nat
    BY AfterNothing
  <2>3. QED BY <2>1, <2>2
<1>2. CASE c # 0
  <2>1. PICK head \in Announce(d) : r \in HeadRows(f, c, head)
    BY <1>2 DEF Body
  <2>2. PICK t : t = <<head.count, head.rest>>
    OBVIOUS
  <2>3. PICK inner \in f[t] : r \in Rows(f, c, head, inner)
    BY <2>1, <2>2 DEF HeadRows
  <2>4. PICK u : /\ u = <<c - 1, inner.rest>> /\ u \in Short(n)
                 /\ Len(inner.rest) \in Nat /\ Len(inner.rest) < Len(d)
    BY <1>2, <2>2, Looks
  <2>5. PICK others \in f[u] : r = InARow(head, inner, others)
    BY <2>3, <2>4 DEF Rows
  <2>6. r.rest = others.rest
    BY <2>5 DEF InARow
  <2>7. others.rest \in Bytes /\ Len(others.rest) <= Len(inner.rest)
    <3>1. u[2] = inner.rest
      BY <2>4
    <3>2. QED BY <2>4, <3>1 DEF Shrinks
  <2>8. Len(others.rest) \in Nat /\ Len(d) \in Nat
    BY <2>7, AfterNothing
  <2>9. QED BY <2>4, <2>6, <2>7, <2>8
<1>3. QED BY <1>1, <1>2

(* Functions that compute the body on shorter data exist for every length. *)
Computes(f, n) == f = [t \in Short(n) |-> Body(f, t[1], t[2])]

Solves(f, n) == Computes(f, n) /\ Shrinks(f, n)

(* A solution is its body.                                                  *)
LEMMA SolvesAt ==
  ASSUME NEW f, NEW n, Solves(f, n), NEW t \in Short(n)
  PROVE  f[t] = Body(f, t[1], t[2])
<1>1. f = [u \in Short(n) |-> Body(f, u[1], u[2])]
  BY DEF Solves, Computes
<1>2. QED BY <1>1

(* Solutions agree as far as both go.                                       *)
LEMMA SolutionsAgree ==
  ASSUME NEW n \in Nat, NEW m \in Nat, n <= m, NEW f, NEW g, Solves(f, n), Solves(g, m)
  PROVE  Agree(f, g, n)
<1> DEFINE T == {k \in Nat : k <= n => Agree(f, g, k)}
<1>1. 0 \in T
  BY ShortFacts DEF Agree
<1>2. ASSUME NEW k \in Nat, k \in T PROVE k + 1 \in T
  <2> SUFFICES ASSUME k + 1 <= n, NEW t \in Short(k + 1) PROVE f[t] = g[t]
    BY DEF Agree
  <2>1. k <= n /\ Agree(f, g, k)
    BY <1>2
  <2>2. t \in Tasks /\ t[1] \in Nat /\ t[2] \in Bytes /\ Len(t[2]) \in Nat /\ Len(t[2]) < k + 1
    BY ShortFacts DEF Short
  <2>3. Len(t[2]) <= k /\ Len(t[2]) < n /\ Len(t[2]) < m
    BY <2>1, <2>2
  <2>4. t \in Short(n) /\ t \in Short(m)
    BY <2>2, <2>3 DEF Short
  <2>5. f[t] = Body(f, t[1], t[2]) /\ g[t] = Body(g, t[1], t[2])
    BY <2>4, SolvesAt
  <2>6. Shrinks(f, k)
    <3>1. ASSUME NEW u \in Short(k) PROVE u \in Short(n)
      <4>1. u \in Tasks /\ Len(u[2]) \in Nat /\ Len(u[2]) < k
        BY ShortFacts DEF Short
      <4>2. Len(u[2]) < n
        BY <2>1, <4>1
      <4>3. QED BY <4>1, <4>2 DEF Short
    <3>2. QED BY <3>1 DEF Solves, Shrinks
  <2>7. Body(f, t[1], t[2]) = Body(g, t[1], t[2])
    BY <2>1, <2>2, <2>3, <2>6, SameBody
  <2>8. QED BY <2>5, <2>7
<1> HIDE DEF T
<1>3. Nat \subseteq T
  BY <1>1, <1>2, NumberInduction
<1>4. n \in T /\ n <= n
  BY <1>3
<1>5. QED BY <1>4 DEF T

(* A solution for every length, each from the one before.                   *)
LEMMA SolutionsExist ==
  ASSUME NEW n \in Nat
  PROVE  \E f : Solves(f, n)
<1> DEFINE T == {k \in Nat : \E f : Solves(f, k)}
<1>1. 0 \in T
  <2> DEFINE f == [t \in Short(0) |-> {}]
  <2>1. Short(0) = {}
    BY ShortFacts
  <2>2. f = [t \in Short(0) |-> Body(f, t[1], t[2])]
    BY <2>1
  <2>3. Solves(f, 0)
    BY <2>1, <2>2 DEF Solves, Computes, Shrinks
  <2>4. QED BY <2>3
<1>2. ASSUME NEW k \in Nat, k \in T PROVE k + 1 \in T
  <2>1. PICK f : Solves(f, k)
    BY <1>2
  <2> DEFINE g == [t \in Short(k + 1) |-> Body(f, t[1], t[2])]
  <2>2. \A t \in Short(k + 1) : g[t] = Body(f, t[1], t[2])
    OBVIOUS
  <2>3. g = [t \in Short(k + 1) |-> g[t]]
    OBVIOUS
  <2> HIDE DEF g
  <2>4. ASSUME NEW t \in Short(k + 1)
        PROVE  t[1] \in Nat /\ t[2] \in Bytes /\ Len(t[2]) \in Nat /\ Len(t[2]) <= k
    <3>1. t[1] \in Nat /\ t[2] \in Bytes /\ Len(t[2]) \in Nat /\ Len(t[2]) < k + 1
      BY ShortFacts
    <3>2. QED BY <3>1
  <2>5. Shrinks(f, k)
    BY <2>1 DEF Solves
  <2>6. Shrinks(g, k + 1)
    <3> SUFFICES ASSUME NEW t \in Short(k + 1), NEW r \in g[t]
                 PROVE  r.rest \in Bytes /\ Len(r.rest) <= Len(t[2])
      BY DEF Shrinks
    <3>1. r \in Body(f, t[1], t[2])
      BY <2>2
    <3>2. QED BY <2>4, <2>5, <3>1, BodyShrinks
  <2>7. Agree(f, g, k)
    <3> SUFFICES ASSUME NEW t \in Short(k) PROVE f[t] = g[t]
      BY DEF Agree
    <3>1. t \in Short(k + 1)
      <4>1. t \in Tasks /\ Len(t[2]) \in Nat /\ Len(t[2]) < k
        BY ShortFacts DEF Short
      <4>2. Len(t[2]) < k + 1
        BY <4>1
      <4>3. QED BY <4>1, <4>2 DEF Short
    <3>2. f[t] = Body(f, t[1], t[2])
      BY <2>1, SolvesAt
    <3>3. QED BY <2>2, <3>1, <3>2
  <2>8. \A t \in Short(k + 1) : g[t] = Body(g, t[1], t[2])
    BY <2>2, <2>4, <2>5, <2>7, SameBody
  <2>9. g = [t \in Short(k + 1) |-> Body(g, t[1], t[2])]
    BY <2>3, <2>8
  <2>10. QED BY <2>6, <2>9 DEF Solves, Computes
<1> HIDE DEF T
<1>3. Nat \subseteq T
  BY <1>1, <1>2, NumberInduction
<1>4. n \in T
  BY <1>3
<1>5. QED BY <1>4 DEF T

(* Items is what its definition says.                                      *)
LEMMA ItemsIs ==
  \A c \in Nat, d \in Bytes : Items[<<c, d>>] = Body(Items, c, d)
<1> DEFINE s == [n \in Nat |-> CHOOSE f : Solves(f, n)]
           F == [t \in Tasks |-> s[Len(t[2]) + 1][t]]
<1>1. \A n \in Nat : Solves(s[n], n)
  BY SolutionsExist
<1>2. \A t \in Tasks : t[1] \in Nat /\ t[2] \in Bytes /\ Len(t[2]) \in Nat
  BY AfterNothing DEF Tasks, Bytes
<1>3. /\ F = [t \in Tasks |-> F[t]]
      /\ \A t \in Tasks : F[t] = s[Len(t[2]) + 1][t]
  OBVIOUS
<1> HIDE DEF s, F
<1>4. ASSUME NEW t \in Tasks PROVE F[t] = Body(F, t[1], t[2])
  <2>1. PICK n \in Nat : n = Len(t[2])
    BY <1>2
  <2>2. PICK f : f = s[n + 1] /\ Solves(f, n + 1)
    BY <1>1, <2>1
  <2>3. t \in Short(n + 1)
    BY <2>1 DEF Short
  <2>4. F[t] = Body(f, t[1], t[2])
    BY <1>3, <2>1, <2>2, <2>3, SolvesAt
  <2>5. ASSUME NEW u \in Short(n) PROVE f[u] = F[u] /\ u \in Short(n + 1)
    <3>1. u \in Tasks /\ Len(u[2]) \in Nat /\ Len(u[2]) < n
      BY ShortFacts DEF Short
    <3>2. Len(u[2]) + 1 \in Nat /\ Len(u[2]) + 1 <= n + 1 /\ Len(u[2]) < n + 1
      BY <3>1
    <3>3. u \in Short(Len(u[2]) + 1) /\ u \in Short(n + 1)
      BY <3>1, <3>2 DEF Short
    <3>4. Agree(s[Len(u[2]) + 1], f, Len(u[2]) + 1)
      BY <1>1, <2>2, <3>2, SolutionsAgree
    <3>5. s[Len(u[2]) + 1][u] = f[u]
      BY <3>3, <3>4 DEF Agree
    <3>6. QED BY <1>3, <3>1, <3>3, <3>5
  <2>6. Agree(f, F, n)
    BY <2>5 DEF Agree
  <2>7. Shrinks(f, n)
    BY <2>2, <2>5 DEF Solves, Shrinks
  <2>8. n <= n /\ Len(t[2]) <= n
    BY <2>1
  <2>9. QED BY <1>2, <2>1, <2>4, <2>6, <2>7, <2>8, SameBody
<1>5. F = [t \in Tasks |-> Body(F, t[1], t[2])]
  BY <1>3, <1>4
<1>6. Items = CHOOSE f : f = [t \in Tasks |-> Body(f, t[1], t[2])]
  BY DEF Items, Body, HeadRows, Rows
<1>7. Items = [t \in Tasks |-> Body(Items, t[1], t[2])]
  BY <1>5, <1>6
<1>8. ASSUME NEW c \in Nat, NEW d \in Bytes PROVE Items[<<c, d>>] = Body(Items, c, d)
  <2>1. <<c, d>> \in Tasks /\ <<c, d>>[1] = c /\ <<c, d>>[2] = d
    BY DEF Tasks, Bytes
  <2>2. \A t \in Tasks : Items[t] = Body(Items, t[1], t[2])
    BY <1>7
  <2>3. Items[<<c, d>>] = Body(Items, <<c, d>>[1], <<c, d>>[2])
    BY <2>1, <2>2
  <2>4. QED BY <2>1, <2>3
<1>9. QED BY <1>8

(* So many values in a row are settled by the bytes they are made of: the  *)
(* same values whatever follows, and what follows is left over.            *)
Left(items, e, k) == {[items |-> items, rest |-> After(e, k)]}

Settled(c, d, items, k) ==
  \A e \in Bytes : Begins(e, d, k) => Items[<<c, e>>] = Left(items, e, k)

(* Values that are decoded are settled by the bytes that were read.         *)
LEMMA ItemsSettle ==
  ASSUME NEW c \in Nat, NEW d \in Bytes, Items[<<c, d>>] # {}
  PROVE  \E items : \E k \in 0..Len(d) : Settled(c, d, items, k)
<1> DEFINE T == {n \in Nat : \A a \in Nat : \A b \in Bytes :
                   Len(b) < n /\ Items[<<a, b>>] # {} =>
                     \E items : \E k \in 0..Len(b) : Settled(a, b, items, k)}
<1>1. 0 \in T
  <2>1. \A b \in Bytes : ~(Len(b) < 0)
    BY AfterNothing
  <2>2. QED BY <2>1
<1>2. ASSUME NEW n \in Nat, n \in T PROVE n + 1 \in T
  <2> SUFFICES ASSUME NEW a \in Nat, NEW b \in Bytes, Len(b) < n + 1, Items[<<a, b>>] # {}
               PROVE  \E items : \E k \in 0..Len(b) : Settled(a, b, items, k)
    OBVIOUS
  <2>1. Len(b) \in Nat /\ Len(b) <= n
    BY AfterNothing
  <2>2. ASSUME NEW x \in Nat, NEW y \in Bytes, Len(y) < Len(b), Items[<<x, y>>] # {}
        PROVE  \E items : \E k \in 0..Len(y) : Settled(x, y, items, k)
    <3>1. Len(y) < n
      <4>1. Len(y) \in Nat
        BY AfterNothing
      <4>2. QED BY <2>1, <2>2, <4>1
    <3>2. QED BY <1>2, <2>2, <3>1
  <2> HIDE DEF T
  <2>3. CASE a = 0
    <3>1. ASSUME NEW e \in Bytes PROVE Items[<<a, e>>] = Left(<<>>, e, 0)
      <4>1. Items[<<a, e>>] = {[items |-> <<>>, rest |-> e]}
        BY <2>3, ItemsIs DEF Body
      <4>2. QED BY <4>1, AfterNothing DEF Left
    <3>2. 0 \in 0..Len(b)
      BY <2>1
    <3>3. Settled(a, b, <<>>, 0)
      BY <3>1 DEF Settled
    <3>4. QED BY <3>2, <3>3
  <2>4. CASE a # 0
    <3>1. ASSUME NEW e \in Bytes
          PROVE  Items[<<a, e>>] = UNION {HeadRows(Items, a, head) : head \in Announce(e)}
      BY <2>4, ItemsIs DEF Body
    <3>2. PICK head0 \in Announce(b) : HeadRows(Items, a, head0) # {}
      BY <3>1
    <3>3. PICK kind, value : \E count \in Nat, k \in 1..Len(b) : \A e \in Bytes :
            Begins(e, b, k) => Announce(e) = Told(kind, value, count, e, k)
      BY <3>2, AnnounceSettles
    <3>4. PICK count \in Nat, k \in 1..Len(b) : \A e \in Bytes :
            Begins(e, b, k) => Announce(e) = Told(kind, value, count, e, k)
      BY <3>3, Zenon
    <3>5. k \in 0..Len(b)
      BY <2>1
    <3>6. PICK y \in Bytes : y = After(b, k) /\ Len(y) = Len(b) - k /\ Len(y) < Len(b)
      <4>1. After(b, k) \in Bytes /\ Len(After(b, k)) = Len(b) - k
        BY <3>5, AfterFacts
      <4>2. Len(b) - k < Len(b)
        BY <2>1
      <4>3. QED BY <4>1, <4>2
    <3>7. head0 = Announced(kind, value, count, y)
      <4>1. Announce(b) = Told(kind, value, count, b, k)
        BY <3>4, <3>5, BeginsItself
      <4>2. QED BY <3>2, <3>6, <4>1 DEF Told
    <3>8. PICK inner0 \in Items[<<count, y>>] : Rows(Items, a, head0, inner0) # {}
      <4>1. head0.count = count /\ head0.rest = y
        BY <3>7 DEF Announced
      <4>2. QED BY <3>2, <4>1 DEF HeadRows
    <3>9. PICK parts : \E j \in 0..Len(y) : Settled(count, y, parts, j)
      BY <2>2, <3>6, <3>8
    <3>10. PICK j \in 0..Len(y) : Settled(count, y, parts, j)
      BY <3>9
    <3>11. /\ j \in 0..(Len(b) - k) /\ After(y, j) = After(b, k + j)
           /\ k + j \in 0..Len(b) /\ Len(y) \in Nat
      BY <3>5, <3>6, <3>10, AfterAfter, AfterNothing
    <3>12. PICK z \in Bytes : z = After(b, k + j) /\ Len(z) = Len(b) - (k + j) /\ Len(z) < Len(b)
      <4>1. After(b, k + j) \in Bytes /\ Len(After(b, k + j)) = Len(b) - (k + j)
        BY <3>11, AfterFacts
      <4>2. Len(b) - (k + j) < Len(b)
        BY <2>1, <3>11
      <4>3. QED BY <4>1, <4>2
    <3>13. inner0 = [items |-> parts, rest |-> z]
      <4>1. Begins(y, y, j)
        BY BeginsItself
      <4>2. Items[<<count, y>>] = Left(parts, y, j)
        BY <3>10, <4>1 DEF Settled
      <4>3. QED BY <3>8, <3>11, <3>12, <4>2 DEF Left
    <3>14. a - 1 \in Nat /\ Items[<<a - 1, z>>] # {}
      <4>1. inner0.rest = z
        BY <3>13
      <4>2. QED BY <2>4, <3>8, <4>1 DEF Rows
    <3>15. PICK more : \E i \in 0..Len(z) : Settled(a - 1, z, more, i)
      BY <2>2, <3>12, <3>14
    <3>16. PICK i \in 0..Len(z) : Settled(a - 1, z, more, i)
      BY <3>15
    <3>17. PICK l \in 0..Len(b) : l = (k + j) + i /\ i \in 0..(Len(b) - (k + j))
      BY <2>1, <3>11, <3>12, SMTT(60)
    <3>18. PICK made : \A x : Made(Announced(kind, value, count, x), parts) = made
      BY DEF Made, Announced
    <3>19. ASSUME NEW e \in Bytes, Begins(e, b, l)
           PROVE  Items[<<a, e>>] = Left(<<made>> \o more, e, l)
      <4>1. /\ Begins(e, b, k + j) /\ k + j \in 0..Len(e) /\ i \in 0..(Len(e) - (k + j))
            /\ Begins(After(e, k + j), z, i)
        BY <3>11, <3>12, <3>17, <3>19, BeginsAfter
      <4>2. /\ Begins(e, b, k) /\ k \in 0..Len(e) /\ j \in 0..(Len(e) - k)
            /\ Begins(After(e, k), y, j)
        BY <3>5, <3>6, <3>11, <4>1, BeginsAfter
      <4>3. PICK p \in Bytes : p = After(e, k)
        BY <4>2, AfterFacts
      <4>4. PICK q \in Bytes : q = After(e, k + j) /\ q = After(p, j)
        BY <4>1, <4>2, <4>3, AfterFacts, AfterAfter, ZenonT(60)
      <4>5. After(q, i) = After(e, l)
        BY <3>17, <4>1, <4>4, AfterAfter, ZenonT(60)
      <4>6. Announce(e) = {Announced(kind, value, count, p)}
        BY <3>4, <4>2, <4>3 DEF Told
      <4>7. Items[<<count, p>>] = {[items |-> parts, rest |-> q]}
        BY <3>10, <4>2, <4>3, <4>4 DEF Settled, Left
      <4>8. Items[<<a - 1, q>>] = {[items |-> more, rest |-> After(e, l)]}
        BY <3>16, <4>1, <4>4, <4>5 DEF Settled, Left
      <4>9. PICK h, o, r : /\ h = Announced(kind, value, count, p)
                           /\ o = [items |-> parts, rest |-> q]
                           /\ r = [items |-> more, rest |-> After(e, l)]
        OBVIOUS
      <4>10. h.count = count /\ h.rest = p /\ o.rest = q /\ o.items = parts
        BY <4>9 DEF Announced
      <4>11. Rows(Items, a, h, o) = {InARow(h, o, r)}
        BY <4>8, <4>9, <4>10 DEF Rows
      <4>12. HeadRows(Items, a, h) = {InARow(h, o, r)}
        BY <4>7, <4>9, <4>10, <4>11, SMTT(60) DEF HeadRows
      <4>13. Items[<<a, e>>] = {InARow(h, o, r)}
        BY <3>1, <4>6, <4>9, <4>12, SMTT(60)
      <4>14. Made(h, parts) = made
        BY <3>18, <4>9
      <4>15. InARow(h, o, r) = [items |-> <<made>> \o more, rest |-> After(e, l)]
        BY <4>9, <4>10, <4>14 DEF InARow
      <4>16. QED BY <4>13, <4>15 DEF Left
    <3>20. Settled(a, b, <<made>> \o more, l)
      BY <3>19 DEF Settled
    <3>21. QED BY <3>20
  <2>5. QED BY <2>3, <2>4
<1> HIDE DEF T
<1>3. Nat \subseteq T
  BY <1>1, <1>2, NumberInduction
<1>4. PICK n \in Nat : n = Len(d) + 1 /\ Len(d) < n
  <2>1. Len(d) \in Nat
    BY AfterNothing
  <2>2. QED BY <2>1
<1>5. n \in T
  BY <1>3
<1>6. QED BY <1>4, <1>5 DEF T

(* What is decoded of settled bytes, and of none.                          *)
LEMMA DecodeIs ==
  /\ \A d \in Bytes : Items[<<1, d>>] = {} => Decode(d) = {}
  /\ \A d, e \in Bytes : \A items : \A k \in 0..Len(d) :
       Settled(1, d, items, k) /\ Begins(e, d, k) =>
         /\ DecodeValue(e) = {[value |-> items[1], rest |-> After(e, k)]}
         /\ Decode(e) = {items[1]}
<1>1. ASSUME NEW d \in Bytes, Items[<<1, d>>] = {} PROVE Decode(d) = {}
  BY <1>1 DEF Decode, DecodeValue
<1>2. ASSUME NEW d \in Bytes, NEW e \in Bytes, NEW items, NEW k \in 0..Len(d),
             Settled(1, d, items, k), Begins(e, d, k)
      PROVE  /\ DecodeValue(e) = {[value |-> items[1], rest |-> After(e, k)]}
             /\ Decode(e) = {items[1]}
  <2>1. Items[<<1, e>>] = {[items |-> items, rest |-> After(e, k)]}
    BY <1>2 DEF Settled, Left
  <2>2. DecodeValue(e) = {[value |-> items[1], rest |-> After(e, k)]}
    BY <2>1 DEF DecodeValue
  <2>3. QED BY <2>2 DEF Decode
<1>3. QED BY <1>1, <1>2, Zenon

(* Bytes have one meaning or none, and the bytes that are read decide it:  *)
(* what follows them changes nothing (sign.rs 81-83 leaves it unread).     *)
THEOREM FollowersAreIgnored ==
  ASSUME NEW d \in Seq(0..255), NEW t \in Seq(0..255), Decode(d) # {}
  PROVE  Decode(d \o t) = Decode(d) /\ \E v : Decode(d) = {v}
<1>1. d \in Bytes /\ t \in Bytes
  BY DEF Bytes
<1>2. Items[<<1, d>>] # {}
  BY <1>1, DecodeIs
<1>3. PICK items : \E k \in 0..Len(d) : Settled(1, d, items, k)
  BY <1>1, <1>2, ItemsSettle
<1>4. PICK k \in 0..Len(d) : Settled(1, d, items, k)
  BY <1>3
<1>5. d \o t \in Bytes /\ Begins(d \o t, d, k)
  <2>1. /\ d \o t \in Bytes /\ Len(d \o t) = Len(d) + Len(t)
        /\ \A i \in 1..Len(d) : (d \o t)[i] = d[i]
    BY ConcatProperties DEF Bytes
  <2>2. Len(d) \in Nat /\ Len(t) \in Nat
    BY <1>1, AfterNothing
  <2>3. k <= Len(d \o t) /\ \A i \in 1..k : i \in 1..Len(d)
    BY <2>1, <2>2
  <2>4. QED BY <2>1, <2>3 DEF Begins
<1>6. Begins(d, d, k)
  BY <1>1, BeginsItself
<1>7. Decode(d \o t) = {items[1]} /\ Decode(d) = {items[1]}
  BY <1>1, <1>4, <1>5, <1>6, DecodeIs
<1>8. QED BY <1>7

(* If all bytes are read, or none of them make sense, then no fewer of     *)
(* them pass for a message: the decoder cannot mistake a message that was  *)
(* cut short for a smaller one (sign.rs 158-218).                          *)
LEMMA NoPrefixPasses ==
  ASSUME NEW d \in Bytes, \A r \in DecodeValue(d) : r.rest = <<>>,
         NEW e \in Bytes, Begins(d, e, Len(e)), Len(e) < Len(d)
  PROVE  Decode(e) = {}
<1> SUFFICES ASSUME Items[<<1, e>>] # {} PROVE FALSE
  BY DecodeIs
<1>1. Len(d) \in Nat /\ Len(e) \in Nat
  BY AfterNothing
<1>2. PICK items : \E k \in 0..Len(e) : Settled(1, e, items, k)
  BY ItemsSettle
<1>3. PICK k \in 0..Len(e) : Settled(1, e, items, k)
  BY <1>2
<1>4. Begins(d, e, k)
  BY <1>1 DEF Begins
<1>5. DecodeValue(d) = {[value |-> items[1], rest |-> After(d, k)]}
  BY <1>3, <1>4, DecodeIs
<1>6. After(d, k) = <<>>
  BY <1>5
<1>7. k \in 0..Len(d) /\ Len(d) - k # 0
  BY <1>1
<1>8. Len(After(d, k)) = Len(d) - k
  BY <1>7, AfterFacts
<1>9. QED BY <1>6, <1>7, <1>8

(* The same of the decoder alone.                                          *)
THEOREM NoPrefixIsDecoded ==
  ASSUME NEW d \in Seq(0..255), \A r \in DecodeValue(d) : r.rest = <<>>,
         NEW n \in 0..Len(d), n < Len(d)
  PROVE  Decode(SubSeq(d, 1, n)) = {}
<1>1. d \in Bytes
  BY DEF Bytes
<1>2. PICK e \in Bytes : e = SubSeq(d, 1, n) /\ Len(e) = n /\ \A i \in 1..n : e[i] = d[i]
  BY <1>1, FirstFacts
<1>3. Begins(d, e, Len(e)) /\ Len(e) < Len(d)
  BY <1>2 DEF Begins
<1>4. QED BY <1>1, <1>2, <1>3, NoPrefixPasses

(* Packed bytes that nothing follows are the beginning of an encoding, and *)
(* not all of it if they were cut.                                         *)
PackInv ==
  probe.what = "pack" /\ probe.state # "followed" =>
    /\ probe.bytes \in Bytes
    /\ \E m \in Messages : \E b \in m.encodings :
         /\ Begins(b, probe.bytes, Len(probe.bytes))
         /\ probe.state = "cut" => Len(probe.bytes) < Len(b)

(* A cut takes the last byte of a beginning: the rest is a shorter one.     *)
LEMMA PackHolds ==
  Spec => []PackInv
<1>1. Init => PackInv
  <2> SUFFICES ASSUME Init, probe.what = "pack" PROVE PackInv
    BY DEF PackInv
  <2>1. PICK m \in Messages : \E b \in m.encodings : probe = Pack(m.value, b, "whole")
    BY DEF Init, Block, Text
  <2>2. PICK b \in m.encodings : probe = Pack(m.value, b, "whole")
    BY <2>1
  <2>3. b \in Bytes
    BY MessageAssumption DEF Bytes
  <2>4. probe.bytes = b /\ probe.state = "whole"
    BY <2>2 DEF Pack
  <2>5. Begins(b, b, Len(b))
    BY <2>3, AfterNothing DEF Begins
  <2>6. QED BY <2>3, <2>4, <2>5 DEF PackInv
<1>2. ASSUME PackInv, [Next]_probe PROVE PackInv'
  <2>1. CASE Cut
    <3>1. /\ probe.what = "pack" /\ probe.state # "followed" /\ probe.bytes # <<>>
          /\ probe' = Pack(probe.value, Front(probe.bytes), "cut")
      BY <2>1 DEF Cut
    <3>2. PICK s \in Bytes : s = probe.bytes
      BY <1>2, <3>1 DEF PackInv
    <3>3. PICK m \in Messages : \E b \in m.encodings : Begins(b, s, Len(s))
      BY <1>2, <3>1, <3>2 DEF PackInv
    <3>4. PICK b \in m.encodings : Begins(b, s, Len(s))
      BY <3>3
    <3>5. b \in Bytes
      BY MessageAssumption DEF Bytes
    <3>6. Len(s) \in Nat /\ Len(b) \in Nat /\ Len(s) # 0
      <4>1. Len(s) \in Nat /\ Len(b) \in Nat
        BY <3>5, AfterNothing
      <4>2. s # <<>> /\ s \in Seq(0..255)
        BY <3>1, <3>2, Zenon DEF Bytes
      <4>3. Len(s) # 0
        BY <4>2, EmptySeq
      <4>4. QED BY <4>1, <4>3
    <3>7. Len(s) <= Len(b) /\ \A i \in 1..Len(s) : b[i] = s[i]
      BY <3>4 DEF Begins
    <3>8. PICK n \in 0..Len(s) : n = Len(s) - 1 /\ n < Len(b) /\ n <= Len(b)
      <4>1. PICK l \in Nat, k \in Nat : l = Len(s) /\ k = Len(b) /\ l # 0 /\ l <= k
        BY <3>6, <3>7
      <4>2. l - 1 \in 0..l /\ l - 1 < k /\ l - 1 <= k
        BY <4>1
      <4>3. QED BY <4>1, <4>2
    <3>9. PICK t \in Bytes : t = Front(s) /\ Len(t) = n /\ \A i \in 1..n : t[i] = s[i]
      BY <3>8, FirstFacts DEF Front
    <3>10. Begins(b, t, Len(t)) /\ Len(t) < Len(b)
      <4>1. \A i \in 1..n : i \in 1..Len(s)
        BY <3>6, <3>8
      <4>2. QED BY <3>7, <3>8, <3>9, <4>1 DEF Begins
    <3>11. probe'.bytes = t
      BY <3>1, <3>2, <3>9 DEF Pack
    <3>12. QED BY <3>10, <3>11 DEF PackInv
  <2>2. ASSUME NEW byte, Follow(byte) PROVE PackInv'
    <3>1. probe'.state = "followed"
      BY <2>2 DEF Follow, Pack
    <3>2. QED BY <3>1 DEF PackInv
  <2>3. CASE Unpad \/ (\E c \in Noise : AddNoise(c)) \/ (\E method \in Methods : AddMethod(method))
    <3>1. probe'.what # "pack"
      BY <2>3 DEF Unpad, AddNoise, AddMethod, Text, Block
    <3>2. QED BY <3>1 DEF PackInv
  <2>4. CASE UNCHANGED probe
    BY <1>2, <2>4 DEF PackInv
  <2>5. QED BY <1>2, <2>1, <2>2, <2>3, <2>4 DEF Next
<1>3. QED BY <1>1, <1>2, PTL DEF Spec

(* A packed message that was cut short anywhere is rejected (sign.rs       *)
(* 158-218).                                                               *)
THEOREM CutMessagesAreRejected ==
  Spec => []PrefixRejected
<1>1. ASSUME PackInv PROVE PrefixRejected
  <2> SUFFICES ASSUME probe.what = "pack", probe.state = "cut" PROVE Decode(probe.bytes) = {}
    BY DEF PrefixRejected
  <2>1. PICK e \in Bytes : e = probe.bytes
    BY <1>1 DEF PackInv
  <2>2. PICK m \in Messages : \E b \in m.encodings : Begins(b, e, Len(e)) /\ Len(e) < Len(b)
    BY <1>1, <2>1 DEF PackInv
  <2>3. PICK b \in m.encodings : Begins(b, e, Len(e)) /\ Len(e) < Len(b)
    BY <2>2
  <2>4. b \in Bytes /\ \A r \in DecodeValue(b) : r.rest = <<>>
    BY MessageAssumption DEF Bytes
  <2>5. QED BY <2>1, <2>3, <2>4, NoPrefixPasses
<1>2. QED BY <1>1, PackHolds, PTL
==============================================================================
