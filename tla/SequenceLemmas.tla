--------------------------- MODULE SequenceLemmas ---------------------------
(***************************************************************************)
(* What the sequence operators of the models compute, for every sequence:  *)
(* FlattenSeq, which is a recursive function, and Kept, made of it.        *)
(*                                                                         *)
(* Induction over numbers and sequences is by their least counterexample,  *)
(* so that the claim is a set and not an operator: see LeastNumber,        *)
(* FlatteningExists and SequenceInduction.                                 *)
(***************************************************************************)
EXTENDS SequenceOps, SequenceTheorems, WellFoundedInduction, TLAPS

(* Sequences whose elements' type does not matter here.                    *)
IsSeq(s) == \E S : s \in Seq(S)

(* A sequence is a function on 1..Len; so is the empty one.                *)
LEMMA SeqFacts ==
  /\ IsSeq(<<>>) /\ Len(<<>>) = 0
  /\ \A s : IsSeq(s) => Len(s) \in Nat /\ DOMAIN s = 1..Len(s)
<1>1. \A S : <<>> \in Seq(S)
  OBVIOUS
<1>2. ASSUME NEW s, IsSeq(s) PROVE Len(s) \in Nat /\ DOMAIN s = 1..Len(s)
  BY <1>2, LenProperties DEF IsSeq
<1>3. Len(<<>>) = 0
  OBVIOUS
<1>4. QED BY <1>1, <1>2, <1>3 DEF IsSeq

(* What is appended is last; the rest stays.                               *)
LEMMA AppendFacts ==
  ASSUME NEW s, IsSeq(s), NEW x
  PROVE  /\ IsSeq(Append(s, x)) /\ Len(s) \in Nat /\ Len(Append(s, x)) = Len(s) + 1
         /\ \A i \in 1..Len(s) : Append(s, x)[i] = s[i]
         /\ Append(s, x)[Len(s) + 1] = x
<1>1. PICK S : s \in Seq(S)
  BY DEF IsSeq
<1>2. s \in Seq(S \cup {x}) /\ x \in S \cup {x}
  BY <1>1, SeqMonotonic
<1>3. QED BY <1>2, AppendProperties, LenProperties DEF IsSeq

(* Taking the head leaves the others, each one place further to the front. *)
LEMMA TailFacts ==
  ASSUME NEW s, IsSeq(s), s # <<>>
  PROVE  /\ IsSeq(Tail(s)) /\ Len(s) \in Nat \ {0} /\ Len(Tail(s)) = Len(s) - 1
         /\ Head(s) = s[1]
         /\ \A i \in 1..Len(Tail(s)) : Tail(s)[i] = s[i + 1]
<1>1. PICK S : s \in Seq(S)
  BY DEF IsSeq
<1>2. QED BY <1>1, HeadTailProperties, EmptySeq, LenProperties DEF IsSeq

(* A concatenation is the one sequence and then the other.                 *)
LEMMA ConcatFacts ==
  ASSUME NEW s, IsSeq(s), NEW t, IsSeq(t)
  PROVE  /\ IsSeq(s \o t) /\ Len(s) \in Nat /\ Len(t) \in Nat
         /\ Len(s \o t) = Len(s) + Len(t)
         /\ \A i \in 1..Len(s \o t) :
              (s \o t)[i] = IF i <= Len(s) THEN s[i] ELSE t[i - Len(s)]
<1>1. PICK S, T : s \in Seq(S) /\ t \in Seq(T)
  BY DEF IsSeq
<1>2. s \in Seq(S \cup T) /\ t \in Seq(S \cup T)
  BY <1>1, SeqMonotonic
<1>3. QED BY <1>2, ConcatProperties, LenProperties DEF IsSeq
------------------------------------------------------------------------------
(* A set of numbers that is not empty has a least one: a proof by          *)
(* induction looks at the least number its claim fails for.                *)
LEMMA LeastNumber ==
  ASSUME NEW T, T \subseteq Nat, T # {}
  PROVE  \E n \in T : \A m \in T : n <= m
<1> DEFINE Less == {ss \in Nat \X Nat : ss[1] < ss[2]}
<1>1. \A m, n \in Nat : m < n => <<m, n>> \in Less
  OBVIOUS
<1>2. IsWellFoundedOn(Less, Nat)
  BY NatLessThanWellFounded DEF OpToRel
<1> HIDE DEF Less
<1>3. \E n \in T : \A m \in T : ~(<<m, n>> \in Less)
  BY <1>2, WFMin
<1>4. PICK n \in T : \A m \in T : ~(<<m, n>> \in Less)
  BY <1>3
<1>5. ASSUME NEW m \in T PROVE n <= m
  <2>1. m \in Nat /\ n \in Nat
    OBVIOUS
  <2>2. ~(m < n)
    BY <1>1, <1>4, <2>1
  <2>3. QED BY <2>1, <2>2
<1>6. QED BY <1>5

(* f puts the first sequences of ss together, one after the other, as the  *)
(* definition of FlattenSeq does.                                          *)
Flattens(f, n, ss) ==
  f = [i \in 1..n |-> IF i = 1 THEN ss[i] ELSE f[i - 1] \o ss[i]]

(* Such a function exists for every number of sequences.                   *)
LEMMA FlatteningExists ==
  ASSUME NEW ss, NEW n \in Nat
  PROVE  \E f : Flattens(f, n, ss)
<1> DEFINE Bad == {k \in Nat : ~\E f : Flattens(f, k, ss)}
<1>1. ASSUME NEW k \in Bad, \A m \in Bad : k <= m PROVE FALSE
  <2>1. CASE k = 0
    <3>1. Flattens(<<>>, 0, ss)
      BY DEF Flattens
    <3>2. QED BY <2>1, <3>1
  <2>2. CASE k # 0
    <3>1. k \in Nat /\ k - 1 \in Nat /\ k - 1 \notin Bad
      BY <1>1, <2>2
    <3>2. PICK f : Flattens(f, k - 1, ss)
      BY <3>1
    <3> DEFINE g == [i \in 1..k |-> IF i = 1 THEN ss[i]
                                    ELSE IF i < k THEN f[i] ELSE f[k - 1] \o ss[k]]
    <3>3. /\ DOMAIN g = 1..k /\ g = [i \in 1..k |-> g[i]]
          /\ \A i \in 1..k : g[i] = IF i = 1 THEN ss[i]
                                 ELSE IF i < k THEN f[i] ELSE f[k - 1] \o ss[k]
      OBVIOUS
    <3>4. \A i \in 1..k - 1 : f[i] = IF i = 1 THEN ss[i] ELSE f[i - 1] \o ss[i]
      BY <3>2 DEF Flattens
    <3> HIDE DEF g, Bad
    <3>5. ASSUME NEW i \in 1..k - 1 PROVE g[i] = f[i]
      <4>1. i \in 1..k /\ i < k
        BY <3>1
      <4>2. g[i] = IF i = 1 THEN ss[i] ELSE f[i]
        BY <3>3, <4>1
      <4>3. i = 1 => f[i] = ss[i]
        BY <3>4
      <4>4. QED BY <4>2, <4>3
    <3>6. ASSUME NEW i \in 1..k, i # 1 PROVE g[i] = g[i - 1] \o ss[i]
      <4>1. i - 1 \in 1..k - 1 /\ g[i - 1] = f[i - 1]
        BY <3>1, <3>5, <3>6
      <4>2. CASE i = k
        <5>1. g[k] = f[k - 1] \o ss[k]
          <6>1. k \in 1..k /\ ~(k < k)
            BY <3>1, <2>2
          <6>2. QED BY <3>3, <3>6, <4>2, <6>1
        <5>2. QED BY <4>1, <4>2, <5>1
      <4>3. CASE i < k
        <5>1. i \in 1..k - 1
          BY <3>1, <4>3
        <5>2. g[i] = f[i] /\ f[i] = f[i - 1] \o ss[i]
          BY <3>4, <3>5, <3>6, <5>1
        <5>3. QED BY <4>1, <5>2
      <4>4. i = k \/ i < k
        BY <3>1
      <4>5. QED BY <4>2, <4>3, <4>4
    <3>7. \A i \in 1..k : g[i] = IF i = 1 THEN ss[i] ELSE g[i - 1] \o ss[i]
      BY <3>3, <3>6
    <3>8. Flattens(g, k, ss)
      BY <3>3, <3>7 DEF Flattens
    <3>9. QED BY <3>8 DEF Bad
  <2>3. QED BY <2>1, <2>2
<1>2. Bad = {}
  BY <1>1, LeastNumber
<1>3. QED BY <1>2

(* FlattenSeq is the last value of such a function.                        *)
LEMMA FlattenIs ==
  ASSUME NEW ss, Len(ss) \in Nat \ {0}
  PROVE  \E f : Flattens(f, Len(ss), ss) /\ FlattenSeq(ss) = f[Len(ss)]
<1> DEFINE n == Len(ss)
           f == CHOOSE f : f = [i \in 1..n |-> IF i = 1 THEN ss[i] ELSE f[i - 1] \o ss[i]]
<1>1. \E g : g = [i \in 1..n |-> IF i = 1 THEN ss[i] ELSE g[i - 1] \o ss[i]]
  BY FlatteningExists DEF Flattens
<1>2. f = [i \in 1..n |-> IF i = 1 THEN ss[i] ELSE f[i - 1] \o ss[i]]
  BY <1>1
<1>3. FlattenSeq(ss) = f[n]
  BY DEF FlattenSeq
<1>4. QED BY <1>2, <1>3 DEF Flattens

(* Functions that share no value have different ones everywhere.           *)
LEMMA NoneShared ==
  ASSUME NEW f, NEW g, Range(f) \cap Range(g) = {}, NEW i \in DOMAIN f, NEW j \in DOMAIN g
  PROVE  f[i] # g[j]
BY DEF Range

(* A concatenation has the elements of both, each once if each has its own *)
(* once and they share none.                                               *)
LEMMA ConcatElements ==
  ASSUME NEW s, IsSeq(s), NEW t, IsSeq(t)
  PROVE  /\ IsSeq(s \o t) /\ Range(s \o t) = Range(s) \cup Range(t)
         /\ IsInjective(s) /\ IsInjective(t) /\ Range(s) \cap Range(t) = {}
              => IsInjective(s \o t)
<1> DEFINE st == s \o t
           m == Len(s)
           n == Len(t)
<1>1. /\ IsSeq(st) /\ m \in Nat /\ n \in Nat /\ DOMAIN st = 1..m + n
      /\ DOMAIN s = 1..m /\ DOMAIN t = 1..n
      /\ \A i \in 1..m + n : st[i] = IF i <= m THEN s[i] ELSE t[i - m]
  BY ConcatFacts, SeqFacts
<1> HIDE DEF st, m, n
<1>2. /\ \A i \in 1..m : i \in DOMAIN st /\ st[i] = s[i]
      /\ \A i \in 1..n : m + i \in DOMAIN st /\ st[m + i] = t[i]
  <2>1. ASSUME NEW i \in 1..m PROVE i \in 1..m + n /\ i <= m
    BY <1>1
  <2>2. ASSUME NEW i \in 1..n PROVE m + i \in 1..m + n /\ ~(m + i <= m) /\ m + i - m = i
    BY <1>1
  <2>3. QED BY <1>1, <2>1, <2>2
<1>3. \A i \in DOMAIN st :
        \/ i \in 1..m /\ st[i] = s[i]
        \/ i - m \in 1..n /\ st[i] = t[i - m] /\ i = m + (i - m)
  BY <1>1
<1>4. Range(st) = Range(s) \cup Range(t)
  <2>1. ASSUME NEW x \in Range(st) PROVE x \in Range(s) \cup Range(t)
    BY <1>1, <1>3 DEF Range
  <2>2. ASSUME NEW x \in Range(s) PROVE x \in Range(st)
    <3>1. PICK i \in 1..m : x = s[i]
      BY <1>1 DEF Range
    <3>2. QED BY <1>2, <3>1 DEF Range
  <2>3. ASSUME NEW x \in Range(t) PROVE x \in Range(st)
    <3>1. PICK i \in 1..n : x = t[i]
      BY <1>1 DEF Range
    <3>2. QED BY <1>2, <3>1 DEF Range
  <2>4. QED BY <2>1, <2>2, <2>3
<1>5. ASSUME IsInjective(s), IsInjective(t), Range(s) \cap Range(t) = {}
      PROVE  IsInjective(st)
  <2>1. ASSUME NEW i \in DOMAIN st, NEW j \in DOMAIN st, st[i] = st[j] PROVE i = j
    <3>1. CASE i \in 1..m /\ j \in 1..m
      BY <1>1, <1>2, <1>5, <2>1, <3>1 DEF IsInjective
    <3>2. CASE i \in 1..m /\ j - m \in 1..n /\ st[j] = t[j - m]
      <4>1. s[i] = t[j - m]
        BY <1>2, <2>1, <3>2
      <4>2. QED BY <1>1, <1>5, <3>2, <4>1, NoneShared
    <3>3. CASE j \in 1..m /\ i - m \in 1..n /\ st[i] = t[i - m]
      <4>1. s[j] = t[i - m]
        BY <1>2, <2>1, <3>3
      <4>2. QED BY <1>1, <1>5, <3>3, <4>1, NoneShared
    <3>4. CASE /\ i - m \in 1..n /\ st[i] = t[i - m] /\ i = m + (i - m)
               /\ j - m \in 1..n /\ st[j] = t[j - m] /\ j = m + (j - m)
      <4>1. i - m = j - m
        BY <1>1, <1>5, <2>1, <3>4 DEF IsInjective
      <4>2. QED BY <3>4, <4>1
    <3>5. QED BY <1>3, <3>1, <3>2, <3>3, <3>4
  <2>2. QED BY <2>1 DEF IsInjective
<1>6. QED BY <1>1, <1>4, <1>5 DEF st

(* Each has its elements once, and none of another's.                      *)
Disjointly(ss) ==
  \A i \in 1..Len(ss) :
    IsInjective(ss[i]) /\ \A j \in 1..Len(ss) : i # j => Range(ss[i]) \cap Range(ss[j]) = {}

(* FlattenSeq has the elements of all sequences, each once if each has its *)
(* own once and no two share one.                                          *)
LEMMA FlattenFacts ==
  ASSUME NEW ss, IsSeq(ss), \A i \in 1..Len(ss) : IsSeq(ss[i])
  PROVE  /\ IsSeq(FlattenSeq(ss))
         /\ Range(FlattenSeq(ss)) = UNION {Range(ss[i]) : i \in 1..Len(ss)}
         /\ Disjointly(ss) => IsInjective(FlattenSeq(ss))
<1>1. Len(ss) \in Nat
  BY SeqFacts
<1>2. CASE Len(ss) = 0
  <2>1. ss = <<>>
    BY <1>2, EmptySeq DEF IsSeq
  <2>2. FlattenSeq(ss) = <<>>
    BY <1>2, <2>1 DEF FlattenSeq
  <2>3. DOMAIN <<>> = {} /\ Range(<<>>) = {} /\ IsInjective(<<>>)
    BY DEF Range, IsInjective
  <2>4. QED BY <1>2, <2>2, <2>3, SeqFacts
<1>3. CASE Len(ss) # 0
  <2> DEFINE n == Len(ss)
             Union(k) == UNION {Range(ss[i]) : i \in 1..k}
             Good(x, k) == /\ IsSeq(x) /\ Range(x) = Union(k)
                           /\ Disjointly(ss) => IsInjective(x)
  <2>1. PICK f : Flattens(f, n, ss) /\ FlattenSeq(ss) = f[n]
    BY <1>1, <1>3, FlattenIs
  <2>2. \A i \in 1..n : f[i] = IF i = 1 THEN ss[i] ELSE f[i - 1] \o ss[i]
    BY <2>1 DEF Flattens
  <2> DEFINE Bad == {k \in 1..n : ~Good(f[k], k)}
  <2>3. ASSUME NEW k \in Bad, \A m \in Bad : k <= m PROVE FALSE
    <3>1. k \in 1..n /\ n \in Nat
      BY <1>1
    <3>2. IsSeq(ss[k]) /\ (Disjointly(ss) => IsInjective(ss[k]))
      BY <3>1 DEF Disjointly
    <3>3. CASE k = 1
      <4>1. f[k] = ss[k] /\ Union(k) = Range(ss[k])
        BY <2>2, <3>1, <3>3
      <4>2. QED BY <3>2, <4>1
    <3>4. CASE k # 1
      <4>1. k - 1 \in 1..n /\ k - 1 \notin Bad /\ f[k] = f[k - 1] \o ss[k]
        <5> HIDE DEF Bad
        <5>1. k - 1 \in 1..n /\ ~(k <= k - 1)
          BY <3>1, <3>4
        <5>2. f[k] = f[k - 1] \o ss[k]
          BY <2>2, <3>1, <3>4
        <5>3. QED BY <2>3, <5>1, <5>2
      <4>2. Good(f[k - 1], k - 1)
        BY <4>1
      <4>3. Union(k) = Union(k - 1) \cup Range(ss[k])
        <5>1. 1..k = (1..k - 1) \cup {k}
          BY <3>1
        <5>2. QED BY <5>1
      <4>4. Disjointly(ss) => Union(k - 1) \cap Range(ss[k]) = {}
        <5>1. \A i \in 1..k - 1 : i \in 1..n /\ i # k
          BY <3>1
        <5>2. QED BY <3>1, <5>1 DEF Disjointly
      <4> HIDE DEF Union, Bad
      <4>5. Good(f[k], k)
        BY <3>2, <4>1, <4>2, <4>3, <4>4, ConcatElements
      <4>6. QED BY <3>1, <4>5 DEF Bad
    <3>5. QED BY <3>3, <3>4
  <2>4. Bad \subseteq Nat
    BY <1>1
  <2>5. Bad = {}
    BY <2>3, <2>4, LeastNumber
  <2>6. n \in 1..n
    BY <1>1, <1>3
  <2>7. Good(f[n], n)
    BY <2>5, <2>6
  <2>8. QED BY <2>1, <2>7
<1>4. QED BY <1>2, <1>3
------------------------------------------------------------------------------
(* A function on the first numbers is a sequence of that length.           *)
LEMMA FunctionIsSeq ==
  ASSUME NEW n \in Nat, NEW f, f = [i \in 1..n |-> f[i]]
  PROVE  IsSeq(f) /\ Len(f) = n /\ DOMAIN f = 1..n
<1>1. f \in [1..n -> Range(f)]
  BY DEF Range
<1>2. f \in Seq(Range(f))
  BY <1>1
<1>3. DOMAIN f = 1..n /\ Len(f) \in Nat /\ DOMAIN f = 1..Len(f)
  BY <1>1, <1>2, LenProperties
<1>4. Len(f) = n
  BY <1>3
<1>5. QED BY <1>2, <1>3, <1>4 DEF IsSeq

(* The sequences of no element and of one.                                 *)
LEMMA ShortSeqs ==
  /\ IsSeq(<<>>) /\ Range(<<>>) = {} /\ IsInjective(<<>>)
  /\ \A x : IsSeq(<<x>>) /\ Range(<<x>>) = {x} /\ IsInjective(<<x>>)
<1>1. IsSeq(<<>>) /\ DOMAIN <<>> = {}
  BY SeqFacts
<1>2. Range(<<>>) = {} /\ IsInjective(<<>>)
  BY <1>1 DEF Range, IsInjective
<1>3. ASSUME NEW x PROVE IsSeq(<<x>>) /\ Range(<<x>>) = {x} /\ IsInjective(<<x>>)
  <2>1. <<x>> \in Seq({x})
    OBVIOUS
  <2>2. DOMAIN <<x>> = 1..1 /\ <<x>>[1] = x
    OBVIOUS
  <2>3. \A i \in 1..1 : i = 1
    OBVIOUS
  <2>4. 1 \in 1..1
    OBVIOUS
  <2> DEFINE s == <<x>>
  <2>5. DOMAIN s = 1..1 /\ s[1] = x
    BY <2>2
  <2> HIDE DEF s
  <2>6. Range(s) = {x} /\ IsInjective(s)
    BY <2>3, <2>4, <2>5 DEF Range, IsInjective
  <2>7. QED BY <2>1, <2>6 DEF IsSeq, s
<1>4. QED BY <1>1, <1>2, <1>3

(* Kept has those elements of a sequence that are in the set, as often.    *)
LEMMA KeptFacts ==
  ASSUME NEW seq, IsSeq(seq), NEW set
  PROVE  /\ IsSeq(Kept(seq, set)) /\ Range(Kept(seq, set)) = Range(seq) \cap set
         /\ IsInjective(seq) => IsInjective(Kept(seq, set))
<1> DEFINE n == Len(seq)
           part(x) == IF x \in set THEN <<x>> ELSE <<>>
           ss == [i \in 1..n |-> part(seq[i])]
<1>1. n \in Nat /\ DOMAIN seq = 1..n
  BY SeqFacts
<1>2. ss = [i \in 1..n |-> ss[i]]
  OBVIOUS
<1>3. \A i \in 1..n : ss[i] = part(seq[i])
  OBVIOUS
<1>4. Kept(seq, set) = FlattenSeq(ss)
  BY <1>1 DEF Kept
<1>5. \A x : /\ IsSeq(part(x)) /\ IsInjective(part(x))
             /\ Range(part(x)) = {x} \cap set
  <2>1. ASSUME NEW x, x \in set
        PROVE  IsSeq(part(x)) /\ IsInjective(part(x)) /\ Range(part(x)) = {x} \cap set
    BY <2>1, ShortSeqs
  <2>2. ASSUME NEW x, x \notin set
        PROVE  IsSeq(part(x)) /\ IsInjective(part(x)) /\ Range(part(x)) = {x} \cap set
    BY <2>2, ShortSeqs
  <2> HIDE DEF part
  <2>3. QED BY <2>1, <2>2
<1> HIDE DEF n, ss, part
<1>6. IsSeq(ss) /\ Len(ss) = n
  BY <1>1, <1>2, FunctionIsSeq
<1>7. /\ IsSeq(FlattenSeq(ss))
      /\ Range(FlattenSeq(ss)) = UNION {Range(ss[i]) : i \in 1..n}
      /\ Disjointly(ss) => IsInjective(FlattenSeq(ss))
  BY <1>3, <1>5, <1>6, FlattenFacts
<1>8. UNION {Range(ss[i]) : i \in 1..n} = Range(seq) \cap set
  <2>1. \A i \in 1..n : Range(ss[i]) = {seq[i]} \cap set
    BY <1>3, <1>5
  <2>2. Range(seq) = {seq[i] : i \in 1..n}
    BY <1>1 DEF Range
  <2>3. QED BY <2>1, <2>2
<1>9. ASSUME IsInjective(seq) PROVE Disjointly(ss)
  <2>1. \A i \in 1..n : IsInjective(ss[i]) /\ Range(ss[i]) = {seq[i]} \cap set
    BY <1>3, <1>5
  <2>2. \A i, j \in 1..n : i # j => seq[i] # seq[j]
    BY <1>1, <1>9 DEF IsInjective
  <2>3. QED BY <1>6, <2>1, <2>2 DEF Disjointly
<1>10. QED BY <1>4, <1>7, <1>8, <1>9
------------------------------------------------------------------------------
(* What holds of 0 and with each number of the next holds of all of them.  *)
LEMMA NumberInduction ==
  ASSUME NEW T, 0 \in T, \A n \in Nat : n \in T => n + 1 \in T
  PROVE  Nat \subseteq T
<1> DEFINE Bad == {n \in Nat : n \notin T}
<1>1. ASSUME NEW n \in Bad, \A m \in Bad : n <= m PROVE FALSE
  <2>1. n \in Nat /\ n \notin T /\ n # 0
    OBVIOUS
  <2>2. n - 1 \in Nat /\ ~(n <= n - 1) /\ (n - 1) + 1 = n
    BY <2>1
  <2>3. n - 1 \in T
    BY <1>1, <2>2
  <2>4. QED BY <2>1, <2>2, <2>3
<1>2. Bad = {}
  BY <1>1, LeastNumber
<1>3. QED BY <1>2

(* The same of sequences, which grow at their end.                         *)
LEMMA SequenceInduction ==
  ASSUME NEW S, NEW T, <<>> \in T, \A s \in Seq(S), x \in S : s \in T => s \o <<x>> \in T
  PROVE  Seq(S) \subseteq T
<1> DEFINE N == {n \in Nat : \A s \in Seq(S) : Len(s) = n => s \in T}
<1>1. 0 \in N
  BY EmptySeq
<1>2. ASSUME NEW n \in Nat, n \in N PROVE n + 1 \in N
  <2>1. ASSUME NEW s \in Seq(S), Len(s) = n + 1 PROVE s \in T
    <3>1. s # <<>>
      BY <2>1, EmptySeq
    <3>2. PICK t \in Seq(S), x \in S : s = Append(t, x)
      BY <3>1, SequenceEmptyOrAppend
    <3>3. s = t \o <<x>> /\ Len(s) = Len(t) + 1 /\ Len(t) \in Nat
      BY <3>2, AppendIsConcat, AppendProperties, LenProperties
    <3>4. t \in T
      BY <1>2, <2>1, <3>3
    <3>5. QED BY <3>3, <3>4
  <2>2. QED BY <2>1
<1> HIDE DEF N
<1>3. Nat \subseteq N
  BY <1>1, <1>2, NumberInduction
<1>4. ASSUME NEW s \in Seq(S) PROVE s \in T
  <2>1. Len(s) \in Nat
    BY LenProperties
  <2>2. QED BY <1>3, <2>1 DEF N
<1>5. QED BY <1>4

(* Sequences are what they have at each place, and three in a row are one. *)
LEMMA SameSeq ==
  ASSUME NEW s, IsSeq(s), NEW t, IsSeq(t), Len(s) = Len(t),
         \A i \in 1..Len(s) : s[i] = t[i]
  PROVE  s = t
<1>1. PICK S, T : s \in Seq(S) /\ t \in Seq(T)
  BY DEF IsSeq
<1>2. s \in Seq(S \cup T) /\ t \in Seq(S \cup T)
  BY <1>1, SeqMonotonic
<1>3. QED BY <1>2, SeqEqual

(* Three in a row are the same, whichever two are put together first.      *)
Regroups(s, t, u) == (s \o t) \o u = s \o (t \o u)

LEMMA ThreeInARow ==
  ASSUME NEW s, IsSeq(s), NEW t, IsSeq(t), NEW u, IsSeq(u)
  PROVE  Regroups(s, t, u)
<1>1. PICK S, T, U : s \in Seq(S) /\ t \in Seq(T) /\ u \in Seq(U)
  BY DEF IsSeq
<1>2. PICK V : S \subseteq V /\ T \subseteq V /\ U \subseteq V
  <2>1. S \subseteq S \cup T \cup U /\ T \subseteq S \cup T \cup U /\ U \subseteq S \cup T \cup U
    OBVIOUS
  <2>2. QED BY <2>1, Zenon
<1>3. s \in Seq(V) /\ t \in Seq(V) /\ u \in Seq(V)
  BY <1>1, <1>2, SeqMonotonic, Zenon
<1>4. QED BY <1>3, ConcatAssociative, SMTT(60) DEF Regroups

(* Two sequences that begin alike are flattened alike that far.            *)
LEMMA FlattensAlike ==
  ASSUME NEW m \in Nat, NEW n \in Nat, m <= n, NEW ss, NEW tt, NEW f, NEW g,
         Flattens(f, m, ss), Flattens(g, n, tt), \A i \in 1..m : ss[i] = tt[i]
  PROVE  \A i \in 1..m : f[i] = g[i]
<1> DEFINE T == {i \in Nat : i \in 1..m => f[i] = g[i]}
<1>1. /\ \A i \in 1..m : f[i] = IF i = 1 THEN ss[i] ELSE f[i - 1] \o ss[i]
      /\ \A i \in 1..n : g[i] = IF i = 1 THEN tt[i] ELSE g[i - 1] \o tt[i]
  BY DEF Flattens
<1>2. 0 \in T
  OBVIOUS
<1>3. ASSUME NEW i \in Nat, i \in T, i + 1 \in 1..m PROVE f[i + 1] = g[i + 1]
  <2>1. i + 1 \in 1..n /\ i + 1 - 1 = i /\ (i + 1 # 1 => i \in 1..m) /\ ss[i + 1] = tt[i + 1]
    BY <1>3
  <2>2. /\ f[i + 1] = IF i + 1 = 1 THEN ss[i + 1] ELSE f[i] \o ss[i + 1]
        /\ g[i + 1] = IF i + 1 = 1 THEN tt[i + 1] ELSE g[i] \o tt[i + 1]
    BY <1>1, <1>3, <2>1
  <2>3. i + 1 # 1 => f[i] = g[i]
    BY <1>3, <2>1
  <2>4. QED BY <2>1, <2>2, <2>3
<1>4. \A i \in Nat : i \in T => i + 1 \in T
  BY <1>3
<1> HIDE DEF T
<1>5. Nat \subseteq T
  BY <1>2, <1>4, NumberInduction
<1>6. QED BY <1>5 DEF T

(* One more sequence at the end is put at the end.                         *)
LEMMA FlattenOneMore ==
  ASSUME NEW ss, IsSeq(ss), NEW x, IsSeq(x)
  PROVE  FlattenSeq(ss \o <<x>>) = FlattenSeq(ss) \o x
<1> DEFINE tt == ss \o <<x>>
           n == Len(ss)
<1>1. IsSeq(<<x>>) /\ Len(<<x>>) = 1 /\ <<x>>[1] = x
  BY ShortSeqs
<1>2. /\ n \in Nat /\ Len(tt) = n + 1 /\ IsSeq(tt)
      /\ \A i \in 1..n : tt[i] = ss[i]
      /\ tt[n + 1] = x
  <2>1. /\ IsSeq(tt) /\ n \in Nat /\ Len(tt) = n + 1
        /\ \A i \in 1..Len(tt) : tt[i] = IF i <= n THEN ss[i] ELSE <<x>>[i - n]
    BY <1>1, ConcatFacts
  <2> HIDE DEF tt, n
  <2>2. /\ \A i \in 1..n : i \in 1..Len(tt) /\ i <= n
        /\ n + 1 \in 1..Len(tt) /\ ~(n + 1 <= n) /\ n + 1 - n = 1
    BY <2>1
  <2>3. QED BY <1>1, <2>1, <2>2
<1> HIDE DEF tt, n
<1>3. PICK g : Flattens(g, n + 1, tt) /\ FlattenSeq(tt) = g[n + 1]
  <2>1. Len(tt) \in Nat \ {0}
    BY <1>2
  <2>2. \E g : Flattens(g, Len(tt), tt) /\ FlattenSeq(tt) = g[Len(tt)]
    BY <2>1, FlattenIs
  <2>3. QED BY <1>2, <2>2
<1>4. \A i \in 1..n + 1 : g[i] = IF i = 1 THEN tt[i] ELSE g[i - 1] \o tt[i]
  BY <1>3 DEF Flattens
<1>5. CASE n = 0
  <2>1. ss = <<>>
    BY <1>5, EmptySeq DEF IsSeq, n
  <2>2. FlattenSeq(ss) = <<>>
    BY <1>5, <2>1 DEF FlattenSeq, n
  <2>3. <<>> \o x = x
    BY ConcatEmptySeq DEF IsSeq
  <2>4. g[1] = tt[1] /\ tt[1] = x
    BY <1>2, <1>4, <1>5
  <2>5. QED BY <1>3, <1>5, <2>2, <2>3, <2>4 DEF tt
<1>6. CASE n # 0
  <2>1. PICK f : Flattens(f, n, ss) /\ FlattenSeq(ss) = f[n]
    BY <1>2, <1>6, FlattenIs DEF n
  <2>2. f[n] = g[n]
    <3>1. \A i \in 1..n : ss[i] = tt[i]
      BY <1>2
    <3>2. n \in Nat /\ n + 1 \in Nat /\ n <= n + 1 /\ n \in 1..n
      BY <1>2, <1>6
    <3>3. \A i \in 1..n : f[i] = g[i]
      BY <1>3, <2>1, <3>1, <3>2, FlattensAlike
    <3>4. QED BY <3>2, <3>3
  <2>3. PICK m : m = n + 1
    OBVIOUS
  <2>4. m \in 1..n + 1 /\ m # 1 /\ m - 1 = n
    BY <1>2, <1>6, <2>3
  <2>5. g[m] = g[m - 1] \o tt[m]
    BY <1>4, <2>4
  <2>6. g[m] = g[n] \o x /\ FlattenSeq(tt) = g[m]
    BY <1>2, <1>3, <2>3, <2>4, <2>5
  <2>7. QED BY <2>1, <2>2, <2>6 DEF tt
<1>7. QED BY <1>5, <1>6

(* Kept, an element at a time.                                             *)
LEMMA KeptOneMore ==
  ASSUME NEW s, IsSeq(s), NEW x, NEW S
  PROVE  /\ Kept(<<>>, S) = <<>>
         /\ x \in S => Kept(s \o <<x>>, S) = Kept(s, S) \o <<x>>
         /\ x \notin S => Kept(s \o <<x>>, S) = Kept(s, S)
<1> DEFINE part(y) == IF y \in S THEN <<y>> ELSE <<>>
           parts(u) == [i \in DOMAIN u |-> part(u[i])]
<1>1. \A u : Kept(u, S) = FlattenSeq(parts(u))
  BY DEF Kept
<1>2. ASSUME NEW u, IsSeq(u)
      PROVE  /\ IsSeq(parts(u)) /\ Len(parts(u)) = Len(u)
             /\ \A i \in 1..Len(u) : parts(u)[i] = part(u[i])
  <2>1. Len(u) \in Nat /\ DOMAIN u = 1..Len(u)
    BY <1>2, SeqFacts
  <2> DEFINE f == parts(u)
  <2>2. f = [i \in 1..Len(u) |-> f[i]] /\ \A i \in 1..Len(u) : f[i] = part(u[i])
    BY <2>1
  <2> HIDE DEF f, part
  <2>3. IsSeq(f) /\ Len(f) = Len(u)
    BY <2>1, <2>2, FunctionIsSeq
  <2>4. QED BY <2>2, <2>3 DEF f
<1>3. Kept(<<>>, S) = <<>>
  <2>1. IsSeq(parts(<<>>)) /\ Len(parts(<<>>)) = 0
    BY <1>2, SeqFacts
  <2> HIDE DEF parts
  <2>2. parts(<<>>) = <<>>
    BY <2>1, EmptySeq DEF IsSeq
  <2>3. FlattenSeq(<<>>) = <<>>
    BY SeqFacts DEF FlattenSeq
  <2>4. QED BY <1>1, <2>2, <2>3
<1>4. IsSeq(part(x))
  BY ShortSeqs
<1>5. parts(s \o <<x>>) = parts(s) \o <<part(x)>>
  <2> DEFINE y == part(x)
             o == <<x>>
             p == <<y>>
  <2>1. IsSeq(o) /\ Len(o) = 1 /\ o[1] = x /\ IsSeq(p) /\ Len(p) = 1 /\ p[1] = y
    <3>1. \A z : Len(<<z>>) = 1 /\ <<z>>[1] = z
      OBVIOUS
    <3> HIDE DEF part
    <3>2. QED BY <3>1, ShortSeqs
  <2> HIDE DEF o, p, part
  <2> DEFINE t == s \o o
             n == Len(s)
             f == parts(s)
  <2>2. /\ IsSeq(t) /\ n \in Nat /\ Len(t) = n + 1
        /\ \A i \in 1..n + 1 : t[i] = IF i <= n THEN s[i] ELSE o[i - n]
    <3>1. /\ IsSeq(t) /\ Len(s) \in Nat /\ Len(t) = Len(s) + Len(o)
          /\ \A i \in 1..Len(t) : t[i] = IF i <= Len(s) THEN s[i] ELSE o[i - Len(s)]
      BY <2>1, ConcatFacts, Zenon
    <3> HIDE DEF t
    <3>2. QED BY <2>1, <3>1
  <2>3. IsSeq(f) /\ Len(f) = n /\ \A i \in 1..n : f[i] = part(s[i])
    BY <1>2
  <2>4. IsSeq(parts(t)) /\ Len(parts(t)) = n + 1 /\ \A i \in 1..n + 1 : parts(t)[i] = part(t[i])
    BY <1>2, <2>2
  <2> HIDE DEF parts, n, f
  <2> DEFINE v == f \o p
  <2>5. /\ IsSeq(v) /\ Len(v) = n + 1
        /\ \A i \in 1..n + 1 : v[i] = IF i <= n THEN f[i] ELSE p[i - n]
    <3>1. /\ IsSeq(v) /\ Len(v) = Len(f) + Len(p)
          /\ \A i \in 1..Len(v) : v[i] = IF i <= Len(f) THEN f[i] ELSE p[i - Len(f)]
      BY <2>1, <2>3, ConcatFacts
    <3> HIDE DEF v
    <3>2. QED BY <2>1, <2>3, <3>1
  <2> HIDE DEF t, v
  <2>6. ASSUME NEW i \in 1..n + 1 PROVE v[i] = parts(t)[i]
    <3>1. CASE i <= n
      <4>1. i \in 1..n
        BY <2>2, <3>1
      <4>2. v[i] = part(s[i]) /\ parts(t)[i] = part(s[i])
        BY <2>2, <2>3, <2>4, <2>5, <3>1, <4>1
      <4>3. QED BY <4>2
    <3>2. CASE i = n + 1
      <4>1. ~(n + 1 <= n) /\ n + 1 - n = 1
        BY <2>2
      <4>2. t[i] = x /\ v[i] = y
        BY <2>1, <2>2, <2>5, <3>2, <4>1
      <4>3. QED BY <2>4, <4>2
    <3>3. QED BY <2>2, <3>1, <3>2
  <2>7. parts(t) = v
    BY <2>2, <2>4, <2>5, <2>6, SameSeq
  <2>8. QED BY <2>7 DEF t, v, o, p, f
<1>6. Kept(s \o <<x>>, S) = Kept(s, S) \o part(x)
  <2>1. IsSeq(parts(s))
    BY <1>2
  <2> HIDE DEF parts, part
  <2>2. FlattenSeq(parts(s) \o <<part(x)>>) = FlattenSeq(parts(s)) \o part(x)
    BY <1>4, <2>1, FlattenOneMore, Zenon
  <2>3. QED BY <1>1, <1>5, <2>2
<1>7. Kept(s, S) \o <<>> = Kept(s, S)
  BY KeptFacts, ConcatEmptySeq DEF IsSeq
<1>8. QED BY <1>3, <1>6, <1>7

LEMMA KeptOne ==
  ASSUME NEW S, NEW x \in S, NEW s, IsSeq(s)
  PROVE  Kept(s \o <<x>>, S) = Kept(s, S) \o <<x>>
BY KeptOneMore

LEMMA KeptNoMore ==
  ASSUME NEW S, NEW x, x \notin S, NEW s, IsSeq(s)
  PROVE  Kept(s \o <<x>>, S) = Kept(s, S)
BY KeptOneMore

(* Where all elements are in the set, or none is.                          *)
LEMMA KeptAllOrNone ==
  ASSUME NEW S, NEW A
  PROVE  /\ A \subseteq S => \A s \in Seq(A) : Kept(s, S) = s
         /\ A \cap S = {} => \A s \in Seq(A) : Kept(s, S) = <<>>
<1>1. ASSUME A \subseteq S PROVE \A s \in Seq(A) : Kept(s, S) = s
  <2> DEFINE T == {s \in Seq(A) : Kept(s, S) = s}
  <2>1. <<>> \in T
    BY KeptOneMore, SeqFacts, EmptySeq
  <2>2. ASSUME NEW s \in Seq(A), NEW x \in A, s \in T PROVE s \o <<x>> \in T
    <3>1. s \o <<x>> \in Seq(A) /\ IsSeq(s)
      BY ConcatProperties DEF IsSeq
    <3>2. x \in S
      BY <1>1
    <3>3. Kept(s \o <<x>>, S) = Kept(s, S) \o <<x>>
      BY <3>1, <3>2, KeptOne, KeptNoMore
    <3>4. QED BY <2>2, <3>1, <3>3
  <2> HIDE DEF T
  <2>3. Seq(A) \subseteq T
    BY <2>1, <2>2, SequenceInduction
  <2>4. QED BY <2>3 DEF T
<1>2. ASSUME A \cap S = {} PROVE \A s \in Seq(A) : Kept(s, S) = <<>>
  <2> DEFINE T == {s \in Seq(A) : Kept(s, S) = <<>>}
  <2>1. <<>> \in T
    BY KeptOneMore, SeqFacts, EmptySeq
  <2>2. ASSUME NEW s \in Seq(A), NEW x \in A, s \in T PROVE s \o <<x>> \in T
    <3>1. s \o <<x>> \in Seq(A) /\ IsSeq(s) /\ x \notin S
      BY <1>2, ConcatProperties DEF IsSeq
    <3>2. Kept(s \o <<x>>, S) = Kept(s, S)
      BY <3>1, KeptOne, KeptNoMore
    <3>3. QED BY <2>2, <3>1, <3>2
  <2> HIDE DEF T
  <2>3. Seq(A) \subseteq T
    BY <2>1, <2>2, SequenceInduction
  <2>4. QED BY <2>3 DEF T
<1>3. QED BY <1>1, <1>2

(* What is kept of a concatenation is what is kept of its parts.           *)
LEMMA KeptConcat ==
  ASSUME NEW s, IsSeq(s), NEW t, IsSeq(t), NEW S
  PROVE  Kept(s \o t, S) = Kept(s, S) \o Kept(t, S)
<1>1. PICK A : s \in Seq(A) /\ t \in Seq(A)
  <2>1. PICK B, C : s \in Seq(B) /\ t \in Seq(C)
    BY DEF IsSeq
  <2>2. s \in Seq(B \cup C) /\ t \in Seq(B \cup C)
    BY <2>1, SeqMonotonic
  <2>3. QED BY <2>2
<1> DEFINE T == {u \in Seq(A) : Kept(s \o u, S) = Kept(s, S) \o Kept(u, S)}
<1>2. <<>> \in T
  <2>1. s \o <<>> = s /\ Kept(s, S) \o <<>> = Kept(s, S)
    BY KeptFacts, ConcatEmptySeq DEF IsSeq
  <2>2. Kept(<<>>, S) = <<>>
    BY KeptOneMore, SeqFacts
  <2>3. QED BY <2>1, <2>2, EmptySeq
<1>3. ASSUME NEW u \in Seq(A), NEW x \in A, u \in T PROVE u \o <<x>> \in T
  <2>1. /\ <<x>> \in Seq(A) /\ u \o <<x>> \in Seq(A) /\ s \o u \in Seq(A)
        /\ IsSeq(u) /\ IsSeq(s \o u) /\ s \o (u \o <<x>>) = (s \o u) \o <<x>>
    BY <1>1, ConcatProperties, ConcatAssociative DEF IsSeq
  <2>2. CASE x \in S
    <3>1. /\ Kept((s \o u) \o <<x>>, S) = Kept(s \o u, S) \o <<x>>
          /\ Kept(u \o <<x>>, S) = Kept(u, S) \o <<x>>
      BY <2>1, <2>2, KeptOne, KeptNoMore
    <3>2. Kept(s \o u, S) = Kept(s, S) \o Kept(u, S)
      BY <1>3
    <3>3. (Kept(s, S) \o Kept(u, S)) \o <<x>> = Kept(s, S) \o (Kept(u, S) \o <<x>>)
      <4>1. IsSeq(Kept(s, S)) /\ IsSeq(Kept(u, S)) /\ IsSeq(<<x>>)
        BY <2>1, KeptFacts, ShortSeqs
      <4>2. PICK a, b, o : a = Kept(s, S) /\ b = Kept(u, S) /\ o = <<x>>
        OBVIOUS
      <4>3. IsSeq(a) /\ IsSeq(b) /\ IsSeq(o)
        BY <4>1, <4>2
      <4>4. Regroups(a, b, o)
        BY <4>3, ThreeInARow, Zenon
      <4>5. QED BY <4>2, <4>4 DEF Regroups
    <3>4. Kept(s \o (u \o <<x>>), S) = (Kept(s, S) \o Kept(u, S)) \o <<x>>
      BY <2>1, <3>1, <3>2, Zenon
    <3>5. QED BY <2>1, <3>1, <3>3, <3>4
  <2>3. CASE x \notin S
    <3>1. Kept((s \o u) \o <<x>>, S) = Kept(s \o u, S) /\ Kept(u \o <<x>>, S) = Kept(u, S)
      BY <2>1, <2>3, KeptOne, KeptNoMore
    <3>2. QED BY <1>3, <2>1, <3>1
  <2>4. QED BY <2>2, <2>3
<1> HIDE DEF T
<1>4. Seq(A) \subseteq T
  BY <1>2, <1>3, SequenceInduction
<1>5. QED BY <1>1, <1>4 DEF T

(* To keep some of those already kept is to keep these at once.            *)
LEMMA KeptTwice ==
  ASSUME NEW s, IsSeq(s), NEW S, NEW R, R \cap Range(s) \subseteq S
  PROVE  Kept(Kept(s, S), R) = Kept(s, R)
<1> DEFINE A == Range(s)
           T == {u \in Seq(A) : Kept(Kept(u, S), R) = Kept(u, R)}
<1>1. s \in Seq(A)
  <2>1. Len(s) \in Nat /\ DOMAIN s = 1..Len(s)
    BY SeqFacts
  <2>2. s = [i \in 1..Len(s) |-> s[i]]
    BY <2>1, LenProperties DEF IsSeq
  <2>3. s \in [1..Len(s) -> A]
    BY <2>1, <2>2 DEF Range
  <2>4. QED BY <2>1, <2>3
<1>2. <<>> \in T
  BY KeptOneMore, SeqFacts, EmptySeq
<1>3. ASSUME NEW u \in Seq(A), NEW x \in A, u \in T PROVE u \o <<x>> \in T
  <2>1. IsSeq(u) /\ IsSeq(Kept(u, S))
    BY KeptFacts DEF IsSeq
  <2>2. Kept(Kept(u, S), R) = Kept(u, R)
    BY <1>3
  <2>3. x \in R => x \in S
    OBVIOUS
  <2>4. u \o <<x>> \in Seq(A)
    <3> HIDE DEF A
    <3>1. <<x>> \in Seq(A)
      OBVIOUS
    <3>2. QED BY <3>1, ConcatProperties
  <2> HIDE DEF A
  <2>5. Kept(Kept(u \o <<x>>, S), R) = Kept(u \o <<x>>, R)
    <3>1. CASE x \in S
      <4>1. Kept(u \o <<x>>, S) = Kept(u, S) \o <<x>>
        BY <2>1, <3>1, KeptOne, KeptNoMore
      <4>2. CASE x \in R
        <5>1. /\ Kept(Kept(u, S) \o <<x>>, R) = Kept(Kept(u, S), R) \o <<x>>
              /\ Kept(u \o <<x>>, R) = Kept(u, R) \o <<x>>
          BY <2>1, <4>2, KeptOne, KeptNoMore
        <5>2. QED BY <2>2, <4>1, <5>1
      <4>3. CASE x \notin R
        <5>1. /\ Kept(Kept(u, S) \o <<x>>, R) = Kept(Kept(u, S), R)
              /\ Kept(u \o <<x>>, R) = Kept(u, R)
          BY <2>1, <4>3, KeptOne, KeptNoMore
        <5>2. QED BY <2>2, <4>1, <5>1
      <4>4. QED BY <4>2, <4>3
    <3>2. CASE x \notin S
      <4>1. Kept(u \o <<x>>, S) = Kept(u, S) /\ Kept(u \o <<x>>, R) = Kept(u, R)
        BY <2>1, <2>3, <3>2, KeptOne, KeptNoMore
      <4>2. QED BY <2>2, <4>1
    <3>3. QED BY <3>1, <3>2
  <2>6. QED BY <2>4, <2>5
<1> HIDE DEF T, A
<1>4. Seq(A) \subseteq T
  BY <1>2, <1>3, SequenceInduction
<1>5. QED BY <1>1, <1>4 DEF T
------------------------------------------------------------------------------
(* Nothing but the last element can be said to be last.                    *)
LEMMA LastFacts ==
  ASSUME NEW s, IsSeq(s), s # <<>>
  PROVE  IsSeq(Front(s)) /\ s = Front(s) \o <<Last(s)>>
<1>1. PICK S : s \in Seq(S)
  BY DEF IsSeq
<1>2. Len(s) \in 1..Len(s)
  BY <1>1, LenProperties, EmptySeq
<1>3. 1 \in 1..Len(s) /\ Len(s) \in Nat
  BY <1>1, <1>2, LenProperties
<1>4. SubSeq(s, 1, Len(s)) = SubSeq(s, 1, Len(s) - 1) \o <<s[Len(s)]>>
  BY <1>1, <1>2, <1>3, SubSeqRecursiveSecond
<1>5. s = Front(s) \o <<Last(s)>>
  BY <1>1, <1>4, SubSeqFull DEF Front, Last
<1>6. IsSeq(Front(s))
  <2>1. PICK n \in Int : n = Len(s) - 1
    <3>1. Len(s) - 1 \in Int
      BY <1>3
    <3>2. QED BY <3>1, Zenon
  <2>2. \A i \in 1..n : s[i] \in S
    BY <1>1, <1>3, <2>1, ElementOfSeq
  <2>3. SubSeq(s, 1, n) \in Seq(S)
    BY <2>2, SubSeqProperties
  <2>4. QED BY <2>1, <2>3 DEF Front, IsSeq
<1>7. QED BY <1>5, <1>6

LEMMA SameFront ==
  ASSUME NEW s, IsSeq(s), NEW x, NEW t, IsSeq(t), NEW y, s \o <<x>> = t \o <<y>>
  PROVE  s = t /\ x = y
<1> DEFINE a == <<x>>
           b == <<y>>
<1>1. IsSeq(a) /\ IsSeq(b) /\ Len(a) = 1 /\ Len(b) = 1 /\ a[1] = x /\ b[1] = y
  BY ShortSeqs
<1> HIDE DEF a, b
<1>2. s \o a = t \o b
  BY DEF a, b
<1>3. PICK m \in Nat, n \in Nat : m = Len(s) /\ n = Len(t)
  BY SeqFacts
<1>4. PICK u : u = s \o a
  OBVIOUS
<1>5. /\ Len(u) = m + 1
      /\ \A i \in 1..Len(u) : u[i] = IF i <= m THEN s[i] ELSE a[i - m]
  <2>1. /\ Len(s \o a) = Len(s) + Len(a)
        /\ \A i \in 1..Len(s \o a) : (s \o a)[i] = IF i <= Len(s) THEN s[i] ELSE a[i - Len(s)]
    BY <1>1, ConcatFacts, Zenon
  <2>2. QED BY <1>1, <1>3, <1>4, <2>1
<1>6. /\ Len(u) = n + 1
      /\ \A i \in 1..Len(u) : u[i] = IF i <= n THEN t[i] ELSE b[i - n]
  <2>1. /\ Len(t \o b) = Len(t) + Len(b)
        /\ \A i \in 1..Len(t \o b) : (t \o b)[i] = IF i <= Len(t) THEN t[i] ELSE b[i - Len(t)]
    BY <1>1, ConcatFacts, Zenon
  <2>2. u = t \o b
    BY <1>2, <1>4
  <2>3. QED BY <1>1, <1>3, <2>1, <2>2
<1>7. m = n
  BY <1>5, <1>6
<1>8. \A i \in 1..m : s[i] = t[i]
  BY <1>5, <1>6, <1>7
<1>9. s = t
  BY <1>3, <1>7, <1>8, SameSeq
<1>10. x = y
  <2>1. m + 1 \in 1..Len(u) /\ ~(m + 1 <= m) /\ m + 1 - m = 1
    BY <1>5
  <2>2. u[m + 1] = a[1] /\ u[m + 1] = b[1]
    BY <1>5, <1>6, <1>7, <2>1
  <2>3. QED BY <1>1, <2>2
<1>11. QED BY <1>9, <1>10

(* An element put between others is kept only if it is in the set.         *)
LEMMA KeptInserted ==
  ASSUME NEW s, IsSeq(s), NEW i \in 1..(Len(s) + 1), NEW x, NEW S, x \notin S
  PROVE  IsSeq(InsertAt(s, i, x)) /\ Kept(InsertAt(s, i, x), S) = Kept(s, S)
<1>1. PICK R : s \in Seq(R)
  BY DEF IsSeq
<1>2. PICK n \in Nat : n = Len(s)
  BY <1>1, LenProperties
<1>3. PICK k \in 0..n : k = i - 1
  BY <1>2
<1>4. i = k + 1 /\ i \in Int /\ k \in Int /\ k \in 1 - 1..n /\ n \in k..n /\ 1 \in 1..n + 1
  BY <1>2, <1>3
<1>5. SubSeq(s, 1, k) \o SubSeq(s, k + 1, n) = SubSeq(s, 1, n)
  BY <1>1, <1>2, <1>4, ConcatAdjacentSubSeq
<1>6. SubSeq(s, 1, n) = s
  BY <1>1, <1>2, SubSeqFull
<1>7. \A j \in 1..n : s[j] \in R
  BY <1>1, <1>2, ElementOfSeq
<1>8. (\A j \in 1..k : s[j] \in R) /\ (\A j \in i..n : s[j] \in R)
  BY <1>3, <1>4, <1>7
<1>9. SubSeq(s, 1, k) \in Seq(R) /\ SubSeq(s, i, n) \in Seq(R)
  BY <1>4, <1>8, SubSeqProperties
<1>10. InsertAt(s, i, x) = (SubSeq(s, 1, k) \o <<x>>) \o SubSeq(s, i, n)
  BY <1>2, <1>3 DEF InsertAt
<1>11. PICK t : t = SubSeq(s, 1, k)
  OBVIOUS
<1>12. PICK u : u = SubSeq(s, i, n)
  OBVIOUS
<1>13. IsSeq(t) /\ IsSeq(u)
  BY <1>9, <1>11, <1>12 DEF IsSeq
<1>14. s = t \o u
  BY <1>4, <1>5, <1>6, <1>11, <1>12
<1>15. PICK a : a = t \o <<x>>
  OBVIOUS
<1>16. IsSeq(a)
  <2>1. IsSeq(<<x>>)
    BY ShortSeqs, Zenon
  <2>2. IsSeq(t \o <<x>>)
    BY <1>13, <2>1, ConcatFacts, Zenon
  <2>3. QED BY <1>15, <2>2
<1>17. Kept(a, S) = Kept(t, S)
  BY <1>13, <1>15, KeptNoMore
<1>18. IsSeq(a \o u)
  BY <1>13, <1>16, ConcatFacts
<1>19. Kept(a \o u, S) = Kept(a, S) \o Kept(u, S)
  BY <1>13, <1>16, KeptConcat, SMTT(60)
<1>20. Kept(t \o u, S) = Kept(t, S) \o Kept(u, S)
  BY <1>13, KeptConcat, SMTT(60)
<1>21. InsertAt(s, i, x) = a \o u
  BY <1>10, <1>11, <1>12, <1>15
<1>22. QED BY <1>14, <1>17, <1>18, <1>19, <1>20, <1>21
==============================================================================
