-------------------------- MODULE ExchangeProofs --------------------------
(***************************************************************************)
(* Proofs about PluginHandlers and Exchange for every set of frames and    *)
(* chains, any number of tasks, handlers, connections and events.  First,  *)
(* the handlers alone (HSpec); then, that a conversation is a behaviour of *)
(* theirs, so that what is shown of them holds of it; that replies go to   *)
(* whom they answer; and that what the writers send reaches the server in  *)
(* the order it must, with the types (WInv).                               *)
(***************************************************************************)
EXTENDS Exchange, SequenceTheorems, FiniteSetTheorems, TLAPS

Waits(t) == \E i \in DOMAIN asked : asked[i] = t

Once == \A i, j \in DOMAIN asked : asked[i] = asked[j] => i = j

(* Exactly the tasks that are not idle have a place in the lock's line,    *)
(* and those inside their method hold a guard.                             *)
Turns == \A t \in Tasks : stage[t] # "idle" <=> Waits(t)

GuardsHeld == \A t \in Tasks : Inside(t) => t \in Guards

Updating == \E t \in Tasks : Inside(t) /\ receiver[t] = "MutRef"

(* An update is half made by the one writer inside or was cut off.         *)
Halves ==
  store.begun = store.done + count["cut_updates"] + (IF Updating THEN 1 ELSE 0)

IInv == HTypeOK /\ Once /\ Turns /\ GuardsHeld /\ StateIsolated /\ Halves
------------------------------------------------------------------------------
(* What becomes of a sequence when one place of it is taken out.           *)
LEMMA RemoveAtFacts ==
  ASSUME NEW S, NEW s \in Seq(S), NEW i \in DOMAIN s
  PROVE  /\ RemoveAt(s, i) \in Seq(S)
         /\ DOMAIN s = 1..Len(s) /\ Len(s) \in Nat
         /\ DOMAIN RemoveAt(s, i) = 1..(Len(s) - 1)
         /\ \A j \in 1..(Len(s) - 1) : RemoveAt(s, i)[j] = IF j < i THEN s[j] ELSE s[j + 1]
<1> DEFINE l == SubSeq(s, 1, i - 1)
           r == SubSeq(s, i + 1, Len(s))
<1>1. Len(s) \in Nat /\ i \in 1..Len(s) /\ DOMAIN s = 1..Len(s)
  BY LenProperties
<1>2. l \in Seq(S) /\ Len(l) = i - 1 /\ \A j \in 1..(i - 1) : l[j] = s[j]
  <2>1. \A j \in 1..(i - 1) : s[j] \in S
    BY <1>1, ElementOfSeq
  <2>2. i - 1 \in Int
    BY <1>1
  <2>3. /\ l \in Seq(S)
        /\ Len(l) = IF 1 <= i - 1 THEN (i - 1) - 1 + 1 ELSE 0
        /\ \A j \in 1..((i - 1) - 1 + 1) : l[j] = s[1 + j - 1]
    BY <2>1, <2>2, SubSeqProperties
  <2> HIDE DEF l
  <2>4. QED BY <1>1, <2>3
<1>3. r \in Seq(S) /\ Len(r) = Len(s) - i /\ \A j \in 1..(Len(s) - i) : r[j] = s[i + j]
  <2>1. \A j \in (i + 1)..Len(s) : s[j] \in S
    BY <1>1, ElementOfSeq
  <2>2. i + 1 \in Int /\ Len(s) \in Int
    BY <1>1
  <2>3. /\ r \in Seq(S)
        /\ Len(r) = IF i + 1 <= Len(s) THEN Len(s) - (i + 1) + 1 ELSE 0
        /\ \A j \in 1..(Len(s) - (i + 1) + 1) : r[j] = s[(i + 1) + j - 1]
    BY <2>1, <2>2, SubSeqProperties
  <2> HIDE DEF r
  <2>4. Len(s) - i \in Nat /\ \A j \in 1..(Len(s) - i) : (i + 1) + j - 1 = i + j
    BY <1>1
  <2>5. Len(r) = Len(s) - i
    BY <1>1, <2>3
  <2>6. QED BY <1>1, <2>3, <2>4, <2>5
<1>4. RemoveAt(s, i) = l \o r
  BY DEF RemoveAt
<1> HIDE DEF l, r
<1>5. /\ l \o r \in Seq(S)
      /\ Len(l \o r) = Len(l) + Len(r)
      /\ \A j \in 1..(Len(l) + Len(r)) : (l \o r)[j] = IF j <= Len(l) THEN l[j] ELSE r[j - Len(l)]
  BY <1>2, <1>3, ConcatProperties
<1>6. DOMAIN (l \o r) = 1..(Len(s) - 1)
  <2>1. Len(l \o r) = Len(s) - 1
    BY <1>1, <1>2, <1>3, <1>5
  <2>2. DOMAIN (l \o r) = 1..Len(l \o r)
    BY <1>5, LenProperties
  <2> QED BY <2>1, <2>2
<1>7. ASSUME NEW j \in 1..(Len(s) - 1)
      PROVE  (l \o r)[j] = IF j < i THEN s[j] ELSE s[j + 1]
  <2>1. j \in 1..(Len(l) + Len(r)) /\ (j <= Len(l) <=> j < i)
    BY <1>1, <1>2, <1>3
  <2>2. CASE j < i
    BY <1>1, <1>2, <1>5, <2>1, <2>2
  <2>3. CASE ~(j < i)
    <3>1. j - (i - 1) \in 1..(Len(s) - i) /\ i + (j - (i - 1)) = j + 1
      BY <1>1, <2>3
    <3>2. (l \o r)[j] = r[j - (i - 1)]
      BY <1>2, <1>5, <2>1, <2>3
    <3>3. QED BY <1>3, <2>3, <3>1, <3>2
  <2>4. QED BY <2>2, <2>3
<1> QED BY <1>1, <1>4, <1>5, <1>6, <1>7

(* A task that leaves the line leaves the others in it, in order, and      *)
(* those that hold a guard keep it.                                        *)
LEMMA LeaveKeeps ==
  ASSUME HTypeOK, Once, NEW t \in Tasks, Leave(t),
         \A u \in Tasks : u # t => receiver'[u] = receiver[u]
  PROVE  /\ asked' \in Seq(Tasks) /\ Once' /\ ~Waits(t)'
         /\ \A u \in Tasks : u # t => (Waits(u) <=> Waits(u)')
         /\ \A u \in Tasks : u # t /\ u \in Guards => u \in Guards'
<1>1. PICK i \in DOMAIN asked : asked[i] = t /\ asked' = RemoveAt(asked, i)
  BY DEF Leave
<1>2. /\ asked' \in Seq(Tasks) /\ DOMAIN asked = 1..Len(asked) /\ Len(asked) \in Nat
      /\ DOMAIN asked' = 1..(Len(asked) - 1)
      /\ \A j \in 1..(Len(asked) - 1) : asked'[j] = IF j < i THEN asked[j] ELSE asked[j + 1]
  BY <1>1, RemoveAtFacts DEF HTypeOK
<1>3. Once' /\ ~Waits(t)'
  <2> DEFINE from(j) == IF j < i THEN j ELSE j + 1
  <2>1. \A j \in DOMAIN asked' :
          from(j) \in DOMAIN asked /\ from(j) # i /\ asked'[j] = asked[from(j)]
    BY <1>1, <1>2
  <2>2. \A j, k \in DOMAIN asked' : from(j) = from(k) => j = k
    BY <1>2
  <2> HIDE DEF from
  <2>3. QED BY <1>1, <2>1, <2>2 DEF Once, Waits
<1>4. ASSUME NEW u \in Tasks, u # t PROVE Waits(u) <=> Waits(u)'
  <2>1. ASSUME NEW j \in DOMAIN asked, asked[j] = u PROVE Waits(u)'
    <3> DEFINE k == IF j < i THEN j ELSE j - 1
    <3>1. k \in DOMAIN asked' /\ asked'[k] = u
      BY <1>1, <1>2, <1>4, <2>1
    <3>2. QED BY <3>1 DEF Waits
  <2>2. Waits(u)' => Waits(u)
    BY <1>1, <1>2 DEF Waits
  <2>3. QED BY <2>1, <2>2 DEF Waits
<1>5. ASSUME NEW u \in Tasks, u # t, u \in Guards PROVE u \in Guards'
  <2>1. PICK j \in DOMAIN asked :
          asked[j] = u /\ (j = 1 \/ \A k \in 1..j : receiver[asked[k]] = "Ref")
    BY <1>5 DEF Guards
  <2> DEFINE n == IF j < i THEN j ELSE j - 1
  <2>2. n \in DOMAIN asked' /\ asked'[n] = u
    BY <1>1, <1>2, <1>5, <2>1
  <2>3. CASE j = 1
    BY <1>1, <1>2, <1>5, <2>1, <2>2, <2>3 DEF Guards
  <2>4. CASE \A k \in 1..j : receiver[asked[k]] = "Ref"
    <3>1. ASSUME NEW k \in 1..n PROVE receiver'[asked'[k]] = "Ref"
      <4>1. PICK m \in 1..j : asked'[k] = asked[m] /\ m # i
        BY <1>2, <1>1, <2>1, <1>5, SMTT(60)
      <4>2. m \in DOMAIN asked /\ asked[m] \in Tasks
        BY <1>2, <2>1, ElementOfSeq DEF HTypeOK
      <4>3. asked[m] # t
        BY <1>1, <4>1, <4>2 DEF Once
      <4>4. QED BY <2>4, <4>1, <4>2, <4>3
    <3>2. QED BY <2>2, <3>1 DEF Guards
  <2>5. QED BY <2>1, <2>3, <2>4
<1> QED BY <1>2, <1>3, <1>4, <1>5

(* A writer with a guard is alone.                                         *)
LEMMA WriterAlone ==
  ASSUME HTypeOK, Once, NEW t \in Guards, NEW u \in Guards, receiver[t] = "MutRef"
  PROVE  u = t
<1>1. DOMAIN asked = 1..Len(asked) /\ Len(asked) \in Nat
  BY LenProperties DEF HTypeOK
<1>2. PICK i \in DOMAIN asked : asked[i] = t /\ i = 1
  BY <1>1 DEF Guards
<1>3. PICK j \in DOMAIN asked :
        asked[j] = u /\ (j = 1 \/ \A k \in 1..j : receiver[asked[k]] = "Ref")
  BY DEF Guards
<1>4. j = 1
  BY <1>1, <1>2, <1>3
<1> QED BY <1>2, <1>3, <1>4
------------------------------------------------------------------------------
(* The counters stay natural numbers, and which of them grow.              *)
LEMMA BumpFacts ==
  ASSUME HTypeOK, NEW names \in SUBSET Kinds
  PROVE  /\ Bump(names) \in [Kinds -> Nat]
         /\ \A k \in Kinds : Bump(names)[k] = IF k \in names THEN count[k] + 1 ELSE count[k]
BY DEF HTypeOK, Bump

(* The halves of an update, of any state.                                  *)
LEMMA HalfFacts ==
  ASSUME NEW s \in States
  PROVE  /\ [s EXCEPT !.begun = @ + 1] \in States /\ [s EXCEPT !.done = @ + 1] \in States
         /\ [s EXCEPT !.begun = @ + 1].begun = s.begun + 1
         /\ [s EXCEPT !.begun = @ + 1].done = s.done
         /\ [s EXCEPT !.done = @ + 1].begun = s.begun
         /\ [s EXCEPT !.done = @ + 1].done = s.done + 1
BY DEF States

(* Every step keeps the types.                                             *)
LEMMA TypeStep == HTypeOK /\ Once /\ [HNext]_hVars => HTypeOK'
<1> SUFFICES ASSUME HTypeOK, Once, [HNext]_hVars PROVE HTypeOK'
  OBVIOUS
<1>1. ASSUME NEW t \in Tasks, NEW kind \in Kind, Begin(t, kind) PROVE HTypeOK'
  <2>1. asked' \in Seq(Tasks) /\ count' \in [Kinds -> Nat]
    BY <1>1, AppendProperties, BumpFacts DEF Begin, HTypeOK, Kinds
  <2>2. QED BY <1>1, <2>1 DEF Begin, HTypeOK, Stages
<1>2. ASSUME NEW t \in Tasks, NEW at \in Running, Enter(t, at) PROVE HTypeOK'
  <2>1. count' \in [Kinds -> Nat]
    BY <1>2, BumpFacts DEF Enter, Called, Kinds
  <2>2. store' \in States
    BY <1>2, HalfFacts DEF Enter, FirstHalf, HTypeOK
  <2>3. QED BY <1>2, <2>1, <2>2 DEF Enter, HTypeOK, Stages
<1>3. ASSUME NEW t \in Tasks, NEW yes \in BOOLEAN, Replied(t, yes) PROVE HTypeOK'
  <2>1. count' \in [Kinds -> Nat]
    BY <1>3, BumpFacts DEF Replied, Kinds
  <2>2. QED BY <1>3, <2>1 DEF Replied, HTypeOK, Stages, Running
<1>4. ASSUME NEW t \in Tasks, Finish(t) PROVE HTypeOK'
  <2>1. asked' \in Seq(Tasks)
    BY <1>4, RemoveAtFacts DEF Finish, Leave, HTypeOK
  <2>2. store' \in States
    BY <1>4, HalfFacts DEF Finish, HTypeOK
  <2>3. QED BY <1>4, <2>1, <2>2 DEF Finish, HTypeOK, Stages, Kind, States, Fresh
<1>5. ASSUME NEW t \in Tasks, BreakOff(t) PROVE HTypeOK'
  <2>1. asked' \in Seq(Tasks)
    BY <1>5, RemoveAtFacts DEF BreakOff, Leave, HTypeOK
  <2>2. count' \in [Kinds -> Nat]
    BY <1>5, BumpFacts DEF BreakOff, CutOff, Kinds
  <2>3. QED BY <1>5, <2>1, <2>2 DEF BreakOff, HTypeOK, Stages, Kind, States, Fresh
<1>6. CASE UNCHANGED hVars
  BY <1>6 DEF hVars, HTypeOK
<1>7. QED BY <1>1, <1>2, <1>3, <1>4, <1>5, <1>6 DEF HNext, Timeout, ReturnError

(* A task that leaves the lock disturbs no other, if the store stays or no *)
(* other is inside.                                                        *)
LEMMA OthersStay ==
  ASSUME IInv, NEW t \in Tasks, Leave(t), NEW r, NEW v,
         stage' = [stage EXCEPT ![t] = "idle"], receiver' = [receiver EXCEPT ![t] = r],
         seen' = [seen EXCEPT ![t] = v],
         store' = store \/ (\A u \in Tasks : Inside(u) => u = t)
  PROVE  Once' /\ Turns' /\ GuardsHeld' /\ StateIsolated'
<1>1. \A u \in Tasks : u # t => receiver'[u] = receiver[u]
  BY DEF IInv, HTypeOK
<1>2. /\ Once' /\ ~Waits(t)'
      /\ \A u \in Tasks : u # t => (Waits(u) <=> Waits(u)')
      /\ \A u \in Tasks : u # t /\ u \in Guards => u \in Guards'
  BY <1>1, LeaveKeeps DEF IInv
<1>3. Turns'
  BY <1>2 DEF IInv, Turns, HTypeOK
<1>4. \A u \in Tasks : Inside(u)' <=> Inside(u) /\ u # t
  BY DEF IInv, Inside, Running, HTypeOK
<1>5. GuardsHeld'
  BY <1>2, <1>4 DEF IInv, GuardsHeld
<1>6. StateIsolated'
  BY <1>4 DEF IInv, StateIsolated, HTypeOK
<1> QED BY <1>2, <1>3, <1>5, <1>6

(* A writer inside its method is the only task inside.                     *)
LEMMA OneInside ==
  ASSUME IInv, NEW t \in Tasks, t \in Guards, receiver[t] = "MutRef"
  PROVE  \A u \in Tasks : Inside(u) => u = t
BY WriterAlone DEF IInv, GuardsHeld

LEMMA BeginStep == ASSUME IInv, NEW t \in Tasks, NEW kind \in Kind, Begin(t, kind) PROVE IInv'
<1>1. /\ DOMAIN asked = 1..Len(asked) /\ Len(asked) \in Nat
      /\ DOMAIN asked' = 1..(Len(asked) + 1)
      /\ \A i \in 1..Len(asked) : asked'[i] = asked[i] /\ asked[i] \in Tasks
      /\ asked'[Len(asked) + 1] = t
  BY AppendProperties, LenProperties, ElementOfSeq DEF IInv, HTypeOK, Begin
<1>2. ~Waits(t)
  BY DEF IInv, Turns, Begin
<1>3. Once'
  BY <1>1, <1>2 DEF IInv, Once, Waits
<1>4. \A u \in Tasks : Waits(u)' <=> Waits(u) \/ u = t
  BY <1>1 DEF Waits
<1>5. Turns'
  BY <1>4 DEF IInv, Turns, Begin, HTypeOK
<1>6. \A u \in Tasks : Inside(u)' <=> Inside(u) /\ u # t
  BY DEF Inside, Running, Begin, IInv, HTypeOK
<1>7. \A u \in Tasks : u # t => receiver'[u] = receiver[u]
  BY DEF Begin, IInv, HTypeOK
<1>8. ASSUME NEW u \in Tasks, u # t, u \in Guards PROVE u \in Guards'
  <2>1. PICK j \in DOMAIN asked :
          asked[j] = u /\ (j = 1 \/ \A k \in 1..j : receiver[asked[k]] = "Ref")
    BY <1>8 DEF Guards
  <2>2. j \in DOMAIN asked' /\ asked'[j] = u
    BY <1>1, <2>1
  <2>3. ASSUME NEW k \in 1..j PROVE asked'[k] = asked[k] /\ receiver'[asked[k]] = receiver[asked[k]]
    <3>1. k \in DOMAIN asked /\ asked'[k] = asked[k] /\ asked[k] \in Tasks
      BY <1>1, <2>1
    <3>2. asked[k] # t
      BY <1>2, <3>1 DEF Waits
    <3>3. QED BY <1>7, <3>1, <3>2
  <2>4. QED BY <2>1, <2>2, <2>3 DEF Guards
<1>9. GuardsHeld' /\ StateIsolated'
  BY <1>6, <1>8 DEF IInv, GuardsHeld, StateIsolated, Begin
<1>10. Updating' <=> Updating
  <2>1. ~Inside(t)
    BY DEF Begin, Inside, Running
  <2>2. QED BY <1>6, <1>7, <2>1 DEF Updating
<1>11. Halves'
  <2>1. count'["cut_updates"] = count["cut_updates"] /\ store' = store
    BY BumpFacts DEF IInv, Begin, Kinds
  <2>2. QED BY <1>10, <2>1 DEF IInv, Halves
<1>12. HTypeOK'
  BY TypeStep DEF IInv, HNext
<1> QED BY <1>3, <1>5, <1>9, <1>11, <1>12 DEF IInv

LEMMA EnterStep ==
  ASSUME IInv, NEW t \in Tasks, NEW at \in Running, Enter(t, at) PROVE IInv'
<1>1. /\ ~Inside(t) /\ t \in Guards /\ UNCHANGED <<asked, receiver>>
      /\ \A u \in Tasks : Inside(u)' <=> Inside(u) \/ u = t
      /\ \A u \in Tasks : seen'[u] = IF u = t THEN store' ELSE seen[u]
      /\ \A u \in Tasks : stage'[u] # "idle" <=> stage[u] # "idle"
  BY DEF Enter, Inside, Running, IInv, HTypeOK
<1>2. Once' /\ Turns' /\ GuardsHeld'
  <2>1. Guards' = Guards /\ \A u \in Tasks : Waits(u)' <=> Waits(u)
    BY <1>1 DEF Guards, Waits
  <2>2. QED BY <1>1, <2>1 DEF IInv, Once, Turns, GuardsHeld
<1>3. count'["cut_updates"] = count["cut_updates"] /\ count["cut_updates"] \in Nat
  BY BumpFacts DEF Enter, Called, IInv, HTypeOK, Kinds
<1>4. store \in States /\ store.begun \in Nat /\ store.done \in Nat
  BY DEF IInv, HTypeOK, States
<1>5. ASSUME receiver[t] = "MutRef" PROVE StateIsolated' /\ Halves'
  <2>1. \A u \in Tasks : ~Inside(u)
    BY <1>1, <1>5, OneInside
  <2>2. ~Updating /\ Updating'
    BY <1>1, <1>5, <2>1 DEF Updating
  <2>3. store' = [store EXCEPT !.begun = @ + 1]
    BY <1>5 DEF Enter, FirstHalf
  <2>4. store'.begun = store.begun + 1 /\ store'.done = store.done
    BY <1>4, <2>3, HalfFacts
  <2>5. Halves'
    BY <1>3, <1>4, <2>2, <2>4 DEF IInv, Halves
  <2>6. StateIsolated'
    BY <1>1, <2>1 DEF StateIsolated
  <2>7. QED BY <2>5, <2>6
<1>6. ASSUME receiver[t] # "MutRef" PROVE StateIsolated' /\ Halves'
  <2>1. store' = store
    BY <1>6 DEF Enter, FirstHalf
  <2>2. Updating' <=> Updating
    BY <1>1, <1>6 DEF Updating
  <2>3. StateIsolated' /\ Halves'
    BY <1>1, <1>3, <2>1, <2>2 DEF IInv, StateIsolated, Halves
  <2>4. QED BY <2>3
<1>7. HTypeOK'
  BY TypeStep DEF IInv, HNext
<1> QED BY <1>2, <1>5, <1>6, <1>7 DEF IInv

LEMMA RepliedStep ==
  ASSUME IInv, NEW t \in Tasks, NEW yes \in BOOLEAN, Replied(t, yes) PROVE IInv'
<1>1. /\ UNCHANGED <<receiver, asked, store, seen>>
      /\ \A u \in Tasks : Inside(u)' <=> Inside(u)
      /\ \A u \in Tasks : stage'[u] # "idle" <=> stage[u] # "idle"
  BY DEF Replied, Inside, Running, IInv, HTypeOK
<1>2. count'["cut_updates"] = count["cut_updates"]
  BY BumpFacts DEF Replied, IInv, Kinds
<1>3. /\ Guards' = Guards /\ (Updating' <=> Updating)
      /\ \A u \in Tasks : Waits(u)' <=> Waits(u)
  BY <1>1 DEF Guards, Updating, Waits
<1>4. HTypeOK'
  BY TypeStep DEF IInv, HNext
<1> QED BY <1>1, <1>2, <1>3, <1>4 DEF IInv, Once, Turns, GuardsHeld, StateIsolated, Halves

LEMMA FinishStep == ASSUME IInv, NEW t \in Tasks, Finish(t) PROVE IInv'
<1>1. /\ Inside(t) /\ t \in Guards
      /\ \A u \in Tasks : Inside(u)' <=> Inside(u) /\ u # t
      /\ \A u \in Tasks : u # t => receiver'[u] = receiver[u]
  BY DEF Finish, Inside, Running, IInv, GuardsHeld, HTypeOK
<1>2. /\ count' = count /\ count["cut_updates"] \in Nat
      /\ store \in States /\ store.begun \in Nat /\ store.done \in Nat
  BY DEF Finish, IInv, HTypeOK, States, Kinds
<1>3. ASSUME receiver[t] = "MutRef"
      PROVE  Halves' /\ Once' /\ Turns' /\ GuardsHeld' /\ StateIsolated'
  <2>1. \A u \in Tasks : Inside(u) => u = t
    BY <1>1, <1>3, OneInside
  <2>2. Updating /\ ~Updating'
    BY <1>1, <1>3, <2>1 DEF Updating
  <2>3. store'.begun = store.begun /\ store'.done = store.done + 1
    BY <1>2, <1>3, HalfFacts DEF Finish
  <2>4. Halves'
    BY <1>2, <2>2, <2>3 DEF IInv, Halves
  <2>5. Once' /\ Turns' /\ GuardsHeld' /\ StateIsolated'
    BY <2>1, OthersStay DEF Finish
  <2>6. QED BY <2>4, <2>5
<1>4. ASSUME receiver[t] # "MutRef"
      PROVE  Halves' /\ Once' /\ Turns' /\ GuardsHeld' /\ StateIsolated'
  <2>1. store' = store
    BY <1>4 DEF Finish
  <2>2. Updating' <=> Updating
    BY <1>1, <1>4 DEF Updating
  <2>3. Halves'
    BY <1>2, <2>1, <2>2 DEF IInv, Halves
  <2>4. Once' /\ Turns' /\ GuardsHeld' /\ StateIsolated'
    BY <2>1, OthersStay DEF Finish
  <2>5. QED BY <2>3, <2>4
<1>5. HTypeOK'
  BY TypeStep DEF IInv, HNext
<1> QED BY <1>3, <1>4, <1>5 DEF IInv

LEMMA BreakOffStep ==
  ASSUME IInv, NEW t \in Tasks, Timeout(t) \/ ReturnError(t) PROVE IInv'
<1>1. BreakOff(t)
  BY DEF Timeout, ReturnError
<1>2. /\ store' = store /\ count["cut_updates"] \in Nat
      /\ store.begun \in Nat /\ store.done \in Nat
      /\ \A u \in Tasks : Inside(u)' <=> Inside(u) /\ u # t
      /\ \A u \in Tasks : u # t => receiver'[u] = receiver[u]
  BY <1>1 DEF BreakOff, Inside, Running, IInv, HTypeOK, States, Kinds
<1>3. Once' /\ Turns' /\ GuardsHeld' /\ StateIsolated'
  BY <1>1, <1>2, OthersStay DEF BreakOff
<1>4. CutOff(t) \in SUBSET Kinds
  BY DEF CutOff, Kinds
<1>5. ASSUME Inside(t) /\ receiver[t] = "MutRef" PROVE Halves'
  <2>1. \A u \in Tasks : Inside(u) => u = t
    BY <1>5, OneInside DEF IInv, GuardsHeld
  <2>2. Updating /\ ~Updating'
    BY <1>2, <1>5, <2>1 DEF Updating
  <2>3. count'["cut_updates"] = count["cut_updates"] + 1
    BY <1>1, <1>4, <1>5, BumpFacts DEF BreakOff, CutOff, IInv, Kinds
  <2>4. QED BY <1>2, <2>2, <2>3 DEF IInv, Halves
<1>6. ASSUME ~(Inside(t) /\ receiver[t] = "MutRef") PROVE Halves'
  <2>1. Updating' <=> Updating
    BY <1>2, <1>6 DEF Updating
  <2>2. count'["cut_updates"] = count["cut_updates"]
    BY <1>1, <1>4, <1>6, BumpFacts DEF BreakOff, CutOff, IInv, Kinds
  <2>3. QED BY <1>2, <2>1, <2>2 DEF IInv, Halves
<1>7. HTypeOK'
  BY TypeStep DEF IInv, HNext
<1> QED BY <1>3, <1>5, <1>6, <1>7 DEF IInv

(* IInv is inductive.                                                      *)
LEMMA InvStep == IInv /\ [HNext]_hVars => IInv'
<1> SUFFICES ASSUME IInv, [HNext]_hVars PROVE IInv'
  OBVIOUS
<1>1. CASE UNCHANGED hVars
  BY <1>1 DEF hVars, IInv, HTypeOK, Once, Turns, Waits, GuardsHeld, Guards, Inside,
              StateIsolated, Halves, Updating
<1> QED
  BY <1>1, BeginStep, EnterStep, RepliedStep, FinishStep, BreakOffStep DEF HNext

LEMMA InvHolds == HSpec => []IInv
<1>1. HInit => IInv
  <2> SUFFICES ASSUME HInit PROVE IInv
    OBVIOUS
  <2>1. Fresh \in States /\ Fresh.begun = 0 /\ Fresh.done = 0 /\ asked \in Seq(Tasks)
    BY EmptySeq DEF HInit, Fresh, States
  <2>2. DOMAIN asked = {}
    BY EmptySeq, LenProperties DEF HInit
  <2>3. HTypeOK
    BY <2>1 DEF HInit, HTypeOK, Stages, Kind
  <2>4. \A t \in Tasks : stage[t] = "idle" /\ ~Inside(t) /\ ~Waits(t)
    BY <2>2 DEF HInit, Inside, Running, Waits
  <2>5. ~Updating /\ store = Fresh /\ count["cut_updates"] = 0
    BY <2>4 DEF HInit, Updating, Kinds
  <2>6. QED BY <2>1, <2>2, <2>3, <2>4, <2>5
            DEF IInv, Once, Turns, GuardsHeld, StateIsolated, Halves
<1>2. QED BY <1>1, InvStep, PTL DEF HSpec

(* The handlers' variables are well typed for any number of tasks.         *)
THEOREM TypeCorrect == HSpec => []HTypeOK
<1>1. IInv => HTypeOK
  BY DEF IInv
<1>2. QED BY <1>1, InvHolds, PTL

(* No handler's write reaches the state while another one is in its        *)
(* method, wherever futures are dropped.                                   *)
THEOREM Isolation == HSpec => []StateIsolated
<1>1. IInv => StateIsolated
  BY DEF IInv
<1>2. QED BY <1>1, InvHolds, PTL

(* A reader sees half of an update only after a handler was cut off.       *)
THEOREM WholeReads == HSpec => []ReadersSeeWhole
<1>1. IInv => ReadersSeeWhole
  <2> SUFFICES ASSUME IInv, NEW t \in Tasks, Inside(t), receiver[t] = "Ref"
               PROVE  store.begun = store.done + count["cut_updates"]
    BY DEF ReadersSeeWhole
  <2>1. ~Updating
    <3> SUFFICES ASSUME NEW u \in Tasks, Inside(u), receiver[u] = "MutRef" PROVE FALSE
      BY DEF Updating
    <3>1. t \in Guards /\ u \in Guards
      BY DEF IInv, GuardsHeld
    <3>2. t = u
      BY <3>1, OneInside
    <3>3. QED BY <3>2
  <2>2. /\ store.done \in Nat /\ count["cut_updates"] \in Nat
    BY DEF IInv, HTypeOK, States, Kinds
  <2>3. QED BY <2>1, <2>2 DEF IInv, Halves
<1>2. QED BY <1>1, InvHolds, PTL
------------------------------------------------------------------------------
Balance == IsFiniteSet(Replying) /\ RepliesBalance

(* What a step does to the set of replies under way, and with it to the    *)
(* balance.                                                                *)
LEMMA ReplyingStays ==
  ASSUME HTypeOK, Balance, Replying' = Replying,
         NEW names \in SUBSET Kinds, count' = Bump(names),
         \/ names \cap {"called", "sent", "reply_failures", "cut_replies"} = {}
         \/ names = {"called", "reply_failures"}
  PROVE  Balance'
<1>1. /\ count["called"] \in Nat /\ count["sent"] \in Nat /\ count["reply_failures"] \in Nat
      /\ count["cut_replies"] \in Nat /\ Cardinality(Replying) \in Nat
  BY FS_CardinalityType DEF Balance, HTypeOK, Kinds
<1>2. \A k \in {"called", "sent", "reply_failures", "cut_replies"} :
        count'[k] = IF k \in names THEN count[k] + 1 ELSE count[k]
  BY BumpFacts DEF Kinds
<1> QED BY <1>1, <1>2 DEF Balance, RepliesBalance

LEMMA ReplyingGrows ==
  ASSUME HTypeOK, Balance, NEW t, t \notin Replying, Replying' = Replying \cup {t},
         count' = Bump({"called"})
  PROVE  Balance'
<1>1. /\ count["called"] \in Nat /\ count["sent"] \in Nat /\ count["reply_failures"] \in Nat
      /\ count["cut_replies"] \in Nat /\ Cardinality(Replying) \in Nat
  BY FS_CardinalityType DEF Balance, HTypeOK, Kinds
<1>2. IsFiniteSet(Replying') /\ Cardinality(Replying') = Cardinality(Replying) + 1
  BY FS_AddElement DEF Balance
<1>3. \A k \in {"called", "sent", "reply_failures", "cut_replies"} :
        count'[k] = IF k = "called" THEN count[k] + 1 ELSE count[k]
  BY BumpFacts DEF Kinds
<1> QED BY <1>1, <1>2, <1>3 DEF Balance, RepliesBalance

LEMMA ReplyingShrinks ==
  ASSUME HTypeOK, Balance, NEW t \in Replying, Replying' = Replying \ {t},
         NEW k \in {"sent", "reply_failures", "cut_replies"},
         NEW names \in SUBSET Kinds, count' = Bump(names),
         names \cap {"called", "sent", "reply_failures", "cut_replies"} = {k}
  PROVE  Balance'
<1>1. /\ count["called"] \in Nat /\ count["sent"] \in Nat /\ count["reply_failures"] \in Nat
      /\ count["cut_replies"] \in Nat /\ Cardinality(Replying) \in Nat
  BY FS_CardinalityType DEF Balance, HTypeOK, Kinds
<1>2. IsFiniteSet(Replying') /\ Cardinality(Replying') = Cardinality(Replying) - 1
  BY FS_RemoveElement DEF Balance
<1>3. \A j \in {"called", "sent", "reply_failures", "cut_replies"} :
        count'[j] = IF j = k THEN count[j] + 1 ELSE count[j]
  BY BumpFacts DEF Kinds
<1>4. CASE k = "sent"
  BY <1>1, <1>2, <1>3, <1>4 DEF Balance, RepliesBalance
<1>5. CASE k = "reply_failures"
  BY <1>1, <1>2, <1>3, <1>5 DEF Balance, RepliesBalance
<1>6. CASE k = "cut_replies"
  BY <1>1, <1>2, <1>3, <1>6 DEF Balance, RepliesBalance
<1> QED BY <1>4, <1>5, <1>6

LEMMA BalanceStep == HTypeOK /\ Balance /\ [HNext]_hVars => Balance'
<1> SUFFICES ASSUME HTypeOK, Balance, [HNext]_hVars PROVE Balance'
  OBVIOUS
<1>1. ASSUME NEW t \in Tasks, NEW kind \in Kind, Begin(t, kind) PROVE Balance'
  <2>1. Replying' = Replying
    BY <1>1 DEF Begin, Replying, HTypeOK
  <2>2. {"started"} \in SUBSET Kinds
    BY DEF Kinds
  <2>3. QED BY <1>1, <2>1, <2>2, ReplyingStays DEF Begin
<1>2. ASSUME NEW t \in Tasks, NEW at \in Running, Enter(t, at) PROVE Balance'
  <2>1. t \notin Replying /\ stage' = [stage EXCEPT ![t] = at] /\ count' = Bump(Called(at))
    BY <1>2 DEF Enter, Replying
  <2>2. CASE at = "reply"
    <3>1. Replying' = Replying \cup {t}
      BY <2>1, <2>2 DEF Replying, HTypeOK
    <3>2. Called(at) = {"called"}
      BY <2>2 DEF Called
    <3>3. QED BY <2>1, <3>1, <3>2, ReplyingGrows
  <2>3. CASE at # "reply"
    <3>1. Replying' = Replying
      BY <2>1, <2>3 DEF Replying, HTypeOK
    <3>2. Called(at) \in {{}, {"called", "reply_failures"}}
      BY <2>3 DEF Called, Running
    <3>3. Called(at) \in SUBSET Kinds
      BY <3>2 DEF Kinds
    <3>4. QED BY <2>1, <3>1, <3>2, <3>3, ReplyingStays
  <2>4. QED BY <2>2, <2>3
<1>3. ASSUME NEW t \in Tasks, NEW yes \in BOOLEAN, Replied(t, yes) PROVE Balance'
  <2> DEFINE k == IF yes THEN "sent" ELSE "reply_failures"
  <2>1. t \in Replying /\ Replying' = Replying \ {t}
    BY <1>3 DEF Replied, Replying, HTypeOK
  <2>2. count' = Bump({k})
    BY <1>3 DEF Replied
  <2>3. /\ k \in {"sent", "reply_failures", "cut_replies"} /\ {k} \in SUBSET Kinds
        /\ {k} \cap {"called", "sent", "reply_failures", "cut_replies"} = {k}
    BY DEF Kinds
  <2> HIDE DEF k
  <2>4. QED BY <2>1, <2>2, <2>3, ReplyingShrinks
<1>4. ASSUME NEW t \in Tasks, Finish(t) PROVE Balance'
  <2>1. Replying' = Replying /\ count' = count
    BY <1>4 DEF Finish, Replying, HTypeOK
  <2>2. QED BY <2>1 DEF Balance, RepliesBalance
<1>5. ASSUME NEW t \in Tasks, BreakOff(t) PROVE Balance'
  <2>1. count' = Bump(CutOff(t)) /\ CutOff(t) \in SUBSET Kinds
    BY <1>5 DEF BreakOff, CutOff, Kinds
  <2>2. CASE t \in Replying
    <3>1. Replying' = Replying \ {t}
      BY <1>5 DEF BreakOff, Replying, HTypeOK
    <3>2. CutOff(t) \cap {"called", "sent", "reply_failures", "cut_replies"} = {"cut_replies"}
      BY <2>2 DEF CutOff, Replying
    <3>3. QED BY <2>1, <2>2, <3>1, <3>2, ReplyingShrinks
  <2>3. CASE t \notin Replying
    <3>1. Replying' = Replying
      BY <1>5, <2>3 DEF BreakOff, Replying, HTypeOK
    <3>2. CutOff(t) \cap {"called", "sent", "reply_failures", "cut_replies"} = {}
      BY <2>3 DEF CutOff, Replying
    <3>3. QED BY <2>1, <3>1, <3>2, ReplyingStays
  <2>4. QED BY <2>2, <2>3
<1>6. CASE UNCHANGED hVars
  BY <1>6 DEF hVars, Balance, RepliesBalance, Replying
<1>7. QED BY <1>1, <1>2, <1>3, <1>4, <1>5, <1>6 DEF HNext, Timeout, ReturnError

(* Every reply was sent, counted as failed or cut off, or is under way.    *)
THEOREM RepliesAccounted == HSpec => []RepliesBalance
<1>1. HInit => Balance
  <2> SUFFICES ASSUME HInit PROVE Balance
    OBVIOUS
  <2>1. Replying = {} /\ \A k \in Kinds : count[k] = 0
    BY DEF HInit, Replying
  <2>2. IsFiniteSet(Replying) /\ Cardinality(Replying) = 0
    BY <2>1, FS_EmptySet
  <2>3. QED BY <2>1, <2>2 DEF Balance, RepliesBalance, Kinds
<1>2. Balance => RepliesBalance
  BY DEF Balance
<1>3. QED BY <1>1, <1>2, BalanceStep, TypeCorrect, PTL DEF HSpec
------------------------------------------------------------------------------
(* No step of the adapter, the heartbeat or the network touches the        *)
(* handlers, and every other one is a step of theirs.                      *)
LEMMA HandlersStep == [Next]_vars => [HNext]_hVars
<1> SUFFICES ASSUME [Next]_vars PROVE [HNext]_hVars
  OBVIOUS
<1>1. CASE Handlers
  <2>1. CASE Discard
    BY <2>1 DEF Discard
  <2>2. ASSUME NEW t \in Tasks, NEW kind \in Kind, NEW chain \in Chains, Start(t, kind, chain)
        PROVE  HNext
    BY <2>2 DEF Start, HNext
  <2>3. ASSUME NEW t \in Tasks, RunToReply(t) PROVE HNext
    <3>1. \/ Enter(t, "reply")
          \/ Enter(t, "failed")
      BY <2>3 DEF RunToReply
    <3>2. QED BY <3>1 DEF HNext, Running
  <2>4. ASSUME NEW t \in Tasks, Return(t) PROVE HNext
    BY <2>4 DEF Return, HNext
  <2>5. ASSUME NEW t \in Tasks, Expire(t) PROVE HNext
    BY <2>5 DEF Expire, HNext
  <2>6. ASSUME NEW t \in Tasks, NEW ok \in BOOLEAN, ReplySent(t, ok) PROVE HNext
    BY <2>6 DEF ReplySent, HNext
  <2>7. ASSUME NEW t \in Tasks, RunWithoutReply(t) PROVE HNext
    BY <2>7 DEF RunWithoutReply, HNext, Running
  <2>8. QED BY <1>1, <2>1, <2>2, <2>3, <2>4, <2>5, <2>6, <2>7 DEF Handlers
<1>2. CASE ~Handlers
  BY <1>2 DEF Next, vars, Opened, Connected, PauseEnds, SinkReturns, ReadEnd, BeatAsks,
              BeatTimesOut, GetToken, Registered, Synced, Acknowledged, BeatEnds, ReadFrame
<1> QED BY <1>1, <1>2

(* A conversation is a behaviour of the plugin's handlers.                 *)
THEOREM ImplementsHandlers == Spec => HSpec
<1>1. Init => HInit
  BY DEF Init
<1>2. QED BY <1>1, HandlersStep, PTL DEF Spec, HSpec

(* In a conversation, with acknowledgements, heartbeats and reconnections  *)
(* going on, the plugin's state is as isolated and its replies are as      *)
(* accounted for as in the handlers alone.                                 *)
THEOREM HandlersInExchange ==
  Spec => [](StateIsolated /\ ReadersSeeWhole /\ RepliesBalance)
BY ImplementsHandlers, Isolation, WholeReads, RepliesAccounted, PTL
------------------------------------------------------------------------------
(* The elements of sequences, whatever these are of.                       *)
IsSeq(s) == s \in Seq(Range(s))

LEMMA RangeFacts ==
  ASSUME NEW S, NEW s \in Seq(S)
  PROVE  IsSeq(s) /\ Range(s) \subseteq S /\ \A i \in 1..Len(s) : s[i] \in Range(s)
<1>1. Len(s) \in Nat /\ DOMAIN s = 1..Len(s) /\ \A i \in 1..Len(s) : s[i] \in S
  BY LenProperties, ElementOfSeq
<1>2. \A i \in 1..Len(s) : s[i] \in Range(s)
  BY <1>1 DEF Range
<1>3. s \in Seq(Range(s))
  BY <1>1, <1>2, s \in [1..Len(s) -> Range(s)], LenProperties
<1> QED BY <1>1, <1>2, <1>3 DEF IsSeq, Range

LEMMA AppendElements ==
  ASSUME NEW s, IsSeq(s), NEW e
  PROVE  IsSeq(Append(s, e)) /\ \A x \in Range(Append(s, e)) : x \in Range(s) \/ x = e
<1> DEFINE S == Range(s) \cup {e}
<1>1. s \in Seq(S) /\ e \in S
  BY SeqMonotonic DEF IsSeq
<1>2. Append(s, e) \in Seq(S)
  BY <1>1, AppendProperties
<1> HIDE DEF S
<1>3. IsSeq(Append(s, e)) /\ Range(Append(s, e)) \subseteq S
  BY <1>2, RangeFacts
<1> QED BY <1>3 DEF S

LEMMA TailElements ==
  ASSUME NEW s, IsSeq(s), s # <<>>
  PROVE  /\ IsSeq(Tail(s)) /\ Range(Tail(s)) \subseteq Range(s) /\ Head(s) \in Range(s)
<1>1. Tail(s) \in Seq(Range(s)) /\ Head(s) \in Range(s)
  BY HeadTailProperties DEF IsSeq
<1> QED BY <1>1, RangeFacts

LEMMA ConcatElements ==
  ASSUME NEW s, IsSeq(s), NEW t, IsSeq(t)
  PROVE  IsSeq(s \o t) /\ \A x \in Range(s \o t) : x \in Range(s) \/ x \in Range(t)
<1> DEFINE S == Range(s) \cup Range(t)
<1>1. s \in Seq(S) /\ t \in Seq(S)
  BY SeqMonotonic DEF IsSeq
<1>2. s \o t \in Seq(S)
  BY <1>1, ConcatProperties
<1> HIDE DEF S
<1>3. IsSeq(s \o t) /\ Range(s \o t) \subseteq S
  BY <1>2, RangeFacts
<1> QED BY <1>3 DEF S

LEMMA RemoveElements ==
  ASSUME NEW s, IsSeq(s), NEW i \in DOMAIN s
  PROVE  IsSeq(RemoveAt(s, i)) /\ Range(RemoveAt(s, i)) \subseteq Range(s)
<1> DEFINE S == Range(s)
           r == RemoveAt(s, i)
<1>1. s \in Seq(S)
  BY DEF IsSeq
<1> HIDE DEF S
<1>2. r \in Seq(S)
  BY <1>1, RemoveAtFacts
<1> HIDE DEF r
<1>3. IsSeq(r) /\ Range(r) \subseteq S
  BY <1>2, RangeFacts
<1> QED BY <1>3 DEF r, S

LEMMA EmptyElements == IsSeq(<<>>) /\ Range(<<>>) = {}
<1> DEFINE S == {}
           s == <<>>
<1>1. s \in Seq(S)
  BY EmptySeq
<1> HIDE DEF S, s
<1>2. IsSeq(s) /\ Range(s) \subseteq S
  BY <1>1, RangeFacts
<1> QED BY <1>2 DEF S, s

LEMMA SingleElement == ASSUME NEW e PROVE IsSeq(<<e>>) /\ Range(<<e>>) = {e}
<1> DEFINE S == {e}
           s == <<e>>
<1>1. s \in Seq(S) /\ Len(s) = 1 /\ s[1] = e
  OBVIOUS
<1> HIDE DEF S, s
<1>2. IsSeq(s) /\ Range(s) \subseteq S /\ \A i \in 1..Len(s) : s[i] \in Range(s)
  BY <1>1, RangeFacts
<1>3. s[1] \in Range(s)
  BY <1>1, <1>2
<1> QED BY <1>1, <1>2, <1>3 DEF S, s
------------------------------------------------------------------------------
(* An event of another user's message, with what its payload names.        *)
GoodEvent(e) ==
  LET payload == e.raw_payload
  IN  /\ IsStr(payload.senderUserId) => e.sender = payload.senderUserId
      /\ IsStr(payload.field2) => e.cid = payload.field2.name
      /\ e.sender # MyId

GoodFrame(f) ==
  f.kind = "reply" =>
    LET e == f.of.event
    IN  GoodEvent(e) /\ f.message.receivers = {At(e.sender), At(MyId)}
        /\ f.message.cid = At(e.cid)

(* The places that hold events or frames, each with what is good in it.    *)
EventsGood == IsSeq(events) /\ \A e \in Range(events) : GoodEvent(e.event)

LineGood == IsSeq(line) /\ \A turn \in Range(line) : GoodFrame(turn.frame)

SinkGood ==
  /\ IsSeq(buffer) /\ \A f \in Range(buffer) : GoodFrame(f)
  /\ IsSeq(wire) /\ \A f \in Range(wire) : GoodFrame(f)

JobsGood ==
  /\ job = [t \in Tasks |-> job[t]]
  /\ \A t \in Tasks : stage[t] # "idle" => GoodEvent(job[t].of.event)

(* All there is of events and replies is good, wherever it is.             *)
Good == EventsGood /\ LineGood /\ SinkGood /\ JobsGood

(* parse_event makes good events only.                                     *)
LEMMA ParsedGood == ASSUME NEW frame, NEW e \in EventsOf(frame) PROVE GoodEvent(e)
<1> DEFINE payload == Head(frame.items).payload
<1>1. e \in ParseEvent(payload)
  BY DEF EventsOf
<1>2. /\ e.raw_payload = payload /\ e.sender = SenderOf(payload) /\ e.cid = CidOf(payload)
      /\ e.sender # MyId
  BY <1>1 DEF ParseEvent, Event
<1>3. IsStr(payload.senderUserId) => SenderOf(payload) = payload.senderUserId
  BY DEF SenderOf, StrOr, Either, IsStr
<1>4. IsStr(payload.field2) => CidOf(payload) = payload.field2.name
  BY DEF CidOf
<1> QED BY <1>2, <1>3, <1>4 DEF GoodEvent

(* Asking for the writer with a good frame, and what a send does.          *)
LEMMA AskGood ==
  ASSUME Good, NEW s, NEW frame, GoodFrame(frame), Ask(s, frame)
  PROVE  IsSeq(line)' /\ \A turn \in Range(line') : GoodFrame(turn.frame)
BY AppendElements DEF Good, LineGood, Ask

LEMMA SendGood ==
  ASSUME Good, NEW s, NEW ok \in BOOLEAN, SendEnds(s, ok)
  PROVE  /\ IsSeq(line') /\ \A turn \in Range(line') : GoodFrame(turn.frame)
         /\ IsSeq(buffer') /\ \A f \in Range(buffer') : GoodFrame(f)
         /\ IsSeq(wire') /\ \A f \in Range(wire') : GoodFrame(f)
<1>1. line # <<>> /\ line' = Tail(line)
  BY DEF SendEnds, Holds
<1>2. IsSeq(line') /\ Range(line') \subseteq Range(line) /\ Head(line) \in Range(line)
  BY <1>1, TailElements DEF Good, LineGood, SinkGood
<1> DEFINE out == Out(Head(line).frame)
<1>3. IsSeq(out) /\ \A f \in Range(out) : GoodFrame(f)
  BY <1>2, EmptyElements, SingleElement DEF Out, Good, LineGood
<1> HIDE DEF out
<1>4. CASE ok
  <2>1. wire' = (wire \o buffer) \o out /\ buffer' = <<>>
    BY <1>4 DEF SendEnds, out
  <2>2. IsSeq(wire \o buffer) /\ \A f \in Range(wire \o buffer) : GoodFrame(f)
    BY ConcatElements DEF Good, LineGood, SinkGood
  <2>3. IsSeq(wire') /\ \A f \in Range(wire') : GoodFrame(f)
    BY <1>3, <2>1, <2>2, ConcatElements
  <2>4. QED BY <1>2, <2>1, <2>3, EmptyElements DEF Good, LineGood, SinkGood
<1>5. CASE ~ok
  BY <1>2, <1>5 DEF SendEnds, Good, LineGood, SinkGood
<1> QED BY <1>4, <1>5
LEMMA DropGood ==
  ASSUME Good, NEW s, DropSend(s)
  PROVE  /\ IsSeq(line') /\ \A turn \in Range(line') : GoodFrame(turn.frame)
         /\ IsSeq(buffer') /\ \A f \in Range(buffer') : GoodFrame(f)
         /\ wire' = wire
<1>1. PICK i \in DOMAIN line : line[i].by = s /\ line' = RemoveAt(line, i)
  BY DEF DropSend
<1>2. IsSeq(line') /\ Range(line') \subseteq Range(line)
  BY <1>1, RemoveElements DEF Good, LineGood, SinkGood
<1>3. CASE buffer' = buffer
  BY <1>2, <1>3 DEF DropSend, Good, LineGood, SinkGood
<1>4. CASE Holds(s) /\ buffer' = buffer \o Out(Head(line).frame)
  <2>1. Head(line) \in Range(line)
    BY <1>4, TailElements DEF Holds, Good, LineGood
  <2> DEFINE out == Out(Head(line).frame)
  <2>2. IsSeq(out) /\ \A f \in Range(out) : GoodFrame(f)
    BY <2>1, EmptyElements, SingleElement DEF Out, Good, LineGood
  <2> HIDE DEF out
  <2>3. buffer' = buffer \o out
    BY <1>4 DEF out
  <2>4. IsSeq(buffer') /\ \A f \in Range(buffer') : GoodFrame(f)
    BY <2>2, <2>3, ConcatElements DEF Good, LineGood, SinkGood
  <2>5. QED BY <1>2, <2>4 DEF DropSend, Good, LineGood, SinkGood
<1> QED BY <1>3, <1>4 DEF DropSend

(* What is asked for besides replies is good for want of a reply.          *)
LEMMA ControlGood ==
  /\ GoodFrame(Swap)
  /\ \A kind \in {"reg", "ackDiff", "beat"} : GoodFrame(Control(kind))
  /\ \A c, f : GoodFrame([kind |-> "ack", conn |-> c, frame |-> f])
BY DEF GoodFrame, Swap, Control

LEMMA ReplyGood ==
  ASSUME NEW of, NEW chain, GoodEvent(of.event)
  PROVE  GoodFrame([kind |-> "reply", of |-> of, message |-> Reply(of.event, chain)])
BY DEF GoodFrame, Reply

(* Each part depends on its own variables only.                            *)
LEMMA Unmoved ==
  /\ EventsGood /\ UNCHANGED events => EventsGood'
  /\ LineGood /\ UNCHANGED line => LineGood'
  /\ SinkGood /\ UNCHANGED <<buffer, wire>> => SinkGood'
  /\ JobsGood /\ UNCHANGED <<job, stage>> => JobsGood'
BY DEF EventsGood, LineGood, SinkGood, JobsGood, GoodEvent, GoodFrame

(* A task that goes on or ends keeps JobsGood.                             *)
LEMMA JobGoesOn ==
  ASSUME JobsGood, HTypeOK, NEW t \in Tasks, NEW at, stage' = [stage EXCEPT ![t] = at],
         \/ stage[t] # "idle" /\ job' = job
         \/ at = "idle" /\ \E n : job' = [job EXCEPT ![t] = n]
  PROVE  JobsGood'
<1>1. stage' \in [Tasks -> {stage[u] : u \in Tasks} \cup {at}] /\ stage'[t] = at
      /\ \A u \in Tasks \ {t} : stage'[u] = stage[u]
  BY DEF HTypeOK
<1>2. CASE stage[t] # "idle" /\ job' = job
  BY <1>1, <1>2 DEF JobsGood
<1>3. CASE at = "idle" /\ \E n : job' = [job EXCEPT ![t] = n]
  <2>1. PICK n : job' = [job EXCEPT ![t] = n]
    BY <1>3
  <2>2. job' = [u \in Tasks |-> IF u = t THEN n ELSE job[u]]
    BY <2>1 DEF JobsGood
  <2>3. QED BY <1>1, <1>3, <2>2 DEF JobsGood
<1> QED BY <1>2, <1>3
------------------------------------------------------------------------------
(* Every step keeps what is good.                                          *)

LEMMA AdapterStep ==
  ASSUME Good, HTypeOK,
         \/ Opened \/ Connected \/ PauseEnds \/ SinkReturns \/ ReadEnd \/ BeatAsks
         \/ BeatTimesOut
         \/ \E ok \in BOOLEAN :
              GetToken(ok) \/ Registered(ok) \/ Synced(ok) \/ Acknowledged(ok) \/ BeatEnds(ok)
         \/ \E frame \in Frames : ReadFrame(frame)
  PROVE  Good'
<1> USE Unmoved DEF Good
<1>1. CASE Opened
  <2>1. LineGood'
    BY <1>1, AskGood, ControlGood DEF Opened, LineGood
  <2>2. QED BY <1>1, <2>1 DEF Opened, wRest, hVars
<1>2. CASE Connected
  <2>1. line # <<>> /\ line' = Tail(line) /\ buffer' = <<>> /\ wire' = <<>>
    BY <1>2 DEF Connected, Swapped, Holds
  <2>2. LineGood'
    BY <2>1, TailElements DEF LineGood
  <2>3. SinkGood'
    BY <2>1, EmptyElements DEF SinkGood
  <2>4. QED BY <1>2, <2>2, <2>3 DEF Connected, hVars
<1>3. CASE PauseEnds
  <2>1. LineGood'
    BY <1>3, AskGood, ControlGood DEF PauseEnds, LineGood
  <2>2. QED BY <1>3, <2>1 DEF PauseEnds, wRest, hVars
<1>4. CASE SinkReturns
  <2>1. PICK event \in EventsOf(current) :
          events' = Append(events, [event |-> event, conn |-> conn, frame |-> read])
    BY <1>4 DEF SinkReturns
  <2>2. GoodEvent(event)
    BY ParsedGood
  <2>3. EventsGood'
    BY <2>1, <2>2, AppendElements DEF EventsGood
  <2>4. QED BY <1>4, <2>3 DEF SinkReturns, wVars, hVars
<1>5. CASE ReadEnd
  BY <1>5 DEF ReadEnd, wVars, hVars
<1>6. CASE BeatAsks
  <2>1. LineGood'
    BY <1>6, AskGood, ControlGood DEF BeatAsks, LineGood
  <2>2. QED BY <1>6, <2>1 DEF BeatAsks, wRest, hVars
<1>7. CASE BeatTimesOut
  BY <1>7 DEF BeatTimesOut, wVars, hVars
<1>8. ASSUME NEW ok \in BOOLEAN, GetToken(ok) PROVE Good'
  <2>1. LineGood'
    BY <1>8, AskGood, ControlGood DEF GetToken, LineGood
  <2>2. QED BY <1>8, <2>1 DEF GetToken, wRest, hVars
<1>9. ASSUME NEW ok \in BOOLEAN, NEW s, SendEnds(s, ok),
             UNCHANGED <<events, job, hVars>>
      PROVE  Good'
  BY <1>9, SendGood DEF hVars, LineGood, SinkGood
<1>10. ASSUME NEW ok \in BOOLEAN, Registered(ok) \/ Synced(ok) \/ Acknowledged(ok) \/ BeatEnds(ok)
       PROVE  Good'
  BY <1>9, <1>10 DEF Registered, Synced, Acknowledged, BeatEnds
<1>11. ASSUME NEW frame \in Frames, ReadFrame(frame) PROVE Good'
  <2>1. LineGood'
    BY <1>11, AskGood, ControlGood DEF ReadFrame, LineGood
  <2>2. QED BY <1>11, <2>1 DEF ReadFrame, wRest, hVars
<1> QED BY <1>1, <1>2, <1>3, <1>4, <1>5, <1>6, <1>7, <1>8, <1>10, <1>11

LEMMA HandlerStep == ASSUME Good, HTypeOK, Handlers PROVE Good'
<1> USE Unmoved DEF Good
<1>1. CASE Discard
  <2>1. EventsGood'
    BY <1>1, TailElements DEF Discard, EventsGood
  <2>2. QED BY <1>1, <2>1 DEF Discard, hVars, wVars
<1>2. ASSUME NEW t \in Tasks, NEW kind \in Kind, NEW chain \in Chains, Start(t, kind, chain)
      PROVE  Good'
  <2>1. EventsGood' /\ GoodEvent(Head(events).event)
    BY <1>2, TailElements DEF Start, EventsGood
  <2> DEFINE new == [kind |-> "reply", of |-> Head(events), chain |-> chain]
  <2>2. job' = [u \in Tasks |-> IF u = t THEN new ELSE job[u]]
    BY <1>2 DEF Start, JobsGood
  <2>3. \A u \in Tasks \ {t} : stage'[u] = stage[u]
    BY <1>2 DEF Start, Begin, HTypeOK
  <2>4. JobsGood'
    BY <2>1, <2>2, <2>3 DEF JobsGood
  <2>5. QED BY <1>2, <2>1, <2>4 DEF Start, wVars
<1>3. ASSUME NEW t \in Tasks, RunToReply(t) PROVE Good'
  <2> DEFINE event == job[t].of.event
             chain == job[t].chain
  <2>1. stage[t] = "lock" /\ \E at : stage' = [stage EXCEPT ![t] = at]
    BY <1>3 DEF RunToReply, Enter
  <2>2. GoodEvent(event)
    BY <2>1 DEF JobsGood
  <2>3. GoodFrame([kind |-> "reply", of |-> job[t].of, message |-> Reply(event, chain)])
    BY <2>2, ReplyGood
  <2>4. LineGood'
    BY <1>3, <2>3, AskGood DEF RunToReply, LineGood
  <2>5. JobsGood'
    BY <1>3, <2>1, JobGoesOn DEF RunToReply
  <2>6. QED BY <1>3, <2>4, <2>5 DEF RunToReply, wRest
<1>4. ASSUME NEW t \in Tasks, Return(t) PROVE Good'
  <2>1. JobsGood'
    BY <1>4, JobGoesOn DEF Return, Finish, ReturnError, BreakOff
  <2>2. QED BY <1>4, <2>1 DEF Return, wVars
<1>5. ASSUME NEW t \in Tasks, Expire(t) PROVE Good'
  <2>1. JobsGood'
    BY <1>5, JobGoesOn DEF Expire, Timeout, BreakOff
  <2>2. LineGood' /\ SinkGood'
    <3>1. CASE DropSend(t)
      BY <3>1, DropGood DEF LineGood, SinkGood, GoodFrame, GoodEvent
    <3>2. CASE UNCHANGED wVars
      BY <3>2 DEF wVars
    <3>3. QED BY <1>5, <3>1, <3>2 DEF Expire
  <2>3. QED BY <1>5, <2>1, <2>2 DEF Expire
<1>6. ASSUME NEW t \in Tasks, NEW ok \in BOOLEAN, ReplySent(t, ok) PROVE Good'
  <2>1. JobsGood'
    BY <1>6, JobGoesOn DEF ReplySent, Replied
  <2>2. LineGood' /\ SinkGood'
    BY <1>6, SendGood DEF ReplySent, LineGood, SinkGood
  <2>3. QED BY <1>6, <2>1, <2>2 DEF ReplySent
<1>7. ASSUME NEW t \in Tasks, RunWithoutReply(t) PROVE Good'
  <2>1. JobsGood'
    BY <1>7, JobGoesOn DEF RunWithoutReply, Enter
  <2>2. QED BY <1>7, <2>1 DEF RunWithoutReply, wVars
<1> QED BY <1>1, <1>2, <1>3, <1>4, <1>5, <1>6, <1>7 DEF Handlers

LEMMA GoodStep == ASSUME Good, HTypeOK, [Next]_vars PROVE Good'
<1>1. CASE Handlers
  BY <1>1, HandlerStep
<1>2. CASE (Break \/ Stall \/ Resume) /\ UNCHANGED <<aVars, events, job, hVars>>
  BY <1>2, Unmoved DEF Good, Break, Stall, Resume, hVars
<1>3. CASE UNCHANGED vars
  BY <1>3, Unmoved DEF Good, vars, hVars, wVars
<1> QED BY <1>1, <1>2, <1>3, AdapterStep DEF Next

(* Every reply goes to the sender of the message it answers, in its own    *)
(* conversation, and the bot never answers itself: whatever the frames and *)
(* the chains, wherever the reply waits, is buffered or was written.       *)
THEOREM RepliesGoToSender == Spec => []RepliesToSender
<1>1. Init => Good
  BY EmptyElements
     DEF Init, HInit, WInit, Good, EventsGood, LineGood, SinkGood, JobsGood
<1>2. Good => RepliesToSender
  BY SMTT(60) DEF Good, LineGood, SinkGood, GoodFrame, GoodEvent, RepliesToSender
<1>3. Spec => []HTypeOK
  BY ImplementsHandlers, TypeCorrect, PTL
<1>4. Good /\ HTypeOK /\ [Next]_vars => Good'
  BY GoodStep
<1> QED BY <1>1, <1>2, <1>3, <1>4, PTL DEF Spec
------------------------------------------------------------------------------
(* What goes out on a connection, as a property of any sequence `w' of     *)
(* frames on a connection `c'.                                             *)
Ordered(w, c) ==
  \A i \in DOMAIN w :
    /\ \A j \in 1..(i - 1) : w[j] # w[i]
    /\ w[i].kind = "ack" =>
         /\ w[i].conn = c
         /\ \E j \in 1..(i - 1) : w[j].kind = "ackDiff"
         /\ \A j \in 1..(i - 1) : w[j].kind = "ack" => w[j].frame < w[i].frame
    /\ w[i].kind = "reply" /\ w[i].of.conn = c =>
         \E j \in 1..(i - 1) : w[j].kind = "ackDiff"

Distinct(s) == \A i, j \in DOMAIN s : s[i] = s[j] => i = j

SyncedIn(w) == \E f \in Range(w) : f.kind = "ackDiff"

(* A frame that may go out once those of `w' have.                         *)
Follows(f, w, c) ==
  /\ f \notin Range(w)
  /\ f.kind = "ack" =>
       /\ f.conn = c /\ SyncedIn(w)
       /\ \A g \in Range(w) : g.kind = "ack" => g.frame < f.frame
  /\ f.kind = "reply" /\ f.of.conn = c => SyncedIn(w)

(* Frames that each may follow, and of which an ACK is alone, may all.     *)
LEMMA ConcatOrdered ==
  ASSUME NEW w, IsSeq(w), NEW b, IsSeq(b), NEW c, Ordered(w, c), Distinct(b),
         \A f \in Range(b) : Follows(f, w, c) /\ (f.kind = "ack" => Len(b) = 1)
  PROVE  Ordered(w \o b, c)
<1> DEFINE S == Range(w) \cup Range(b)
           r == w \o b
<1>1. w \in Seq(S) /\ b \in Seq(S)
  BY SeqMonotonic DEF IsSeq
<1> HIDE DEF S
<1>2. /\ DOMAIN w = 1..Len(w) /\ DOMAIN b = 1..Len(b) /\ DOMAIN r = 1..(Len(w) + Len(b))
      /\ Len(w) \in Nat /\ Len(b) \in Nat
      /\ \A i \in 1..(Len(w) + Len(b)) : r[i] = IF i <= Len(w) THEN w[i] ELSE b[i - Len(w)]
  BY <1>1, ConcatProperties, LenProperties
<1>3. /\ \A i \in DOMAIN w : w[i] \in Range(w)
      /\ \A i \in DOMAIN b : b[i] \in Range(b)
      /\ \A f \in Range(w) : \E i \in DOMAIN w : f = w[i]
  BY DEF Range
<1> HIDE DEF r
<1> SUFFICES Ordered(r, c)
  BY DEF r
<1>4. ASSUME NEW i \in 1..Len(w)
      PROVE  r[i] = w[i] /\ \A j \in 1..(i - 1) : r[j] = w[j]
  BY <1>2
<1>5. ASSUME NEW i \in 1..(Len(w) + Len(b)), i > Len(w)
      PROVE  /\ r[i] = b[i - Len(w)] /\ i - Len(w) \in DOMAIN b
             /\ \A j \in 1..(i - 1) : \/ j \in DOMAIN w /\ r[j] = w[j]
                                      \/ /\ j - Len(w) \in DOMAIN b /\ j - Len(w) # i - Len(w)
                                         /\ r[j] = b[j - Len(w)] /\ Len(b) # 1
             /\ DOMAIN w \subseteq 1..(i - 1) /\ \A j \in DOMAIN w : r[j] = w[j]
  BY <1>2, <1>5, SMTT(60)
<1>6. ASSUME SyncedIn(w), NEW i \in 1..(Len(w) + Len(b)), i > Len(w)
      PROVE  \E j \in 1..(i - 1) : r[j].kind = "ackDiff"
  BY <1>3, <1>5, <1>6 DEF SyncedIn
<1>7. ASSUME NEW i \in DOMAIN r, i > Len(w)
      PROVE  /\ \A j \in 1..(i - 1) : r[j] # r[i]
             /\ r[i].kind = "ack" =>
                  /\ r[i].conn = c
                  /\ \E j \in 1..(i - 1) : r[j].kind = "ackDiff"
                  /\ \A j \in 1..(i - 1) : r[j].kind = "ack" => r[j].frame < r[i].frame
             /\ r[i].kind = "reply" /\ r[i].of.conn = c =>
                  \E j \in 1..(i - 1) : r[j].kind = "ackDiff"
  <2> DEFINE f == r[i]
  <2>1. f \in Range(b) /\ Follows(f, w, c) /\ (f.kind = "ack" => Len(b) = 1)
    BY <1>2, <1>3, <1>5, <1>7
  <2>2. ASSUME NEW j \in 1..(i - 1) PROVE r[j] # f
    <3>1. CASE j \in DOMAIN w /\ r[j] = w[j]
      BY <1>3, <2>1, <3>1 DEF Follows
    <3>2. CASE j - Len(w) \in DOMAIN b /\ j - Len(w) # i - Len(w) /\ r[j] = b[j - Len(w)]
      <4>1. f = b[i - Len(w)] /\ i - Len(w) \in DOMAIN b
        BY <1>2, <1>5, <1>7
      <4>2. QED BY <3>2, <4>1 DEF Distinct
    <3>3. QED BY <1>2, <1>5, <1>7, <3>1, <3>2
  <2>3. f.kind = "ack" => \A j \in 1..(i - 1) : r[j] \in Range(w)
    BY <1>2, <1>3, <1>5, <1>7, <2>1
  <2> HIDE DEF f
  <2>4. SyncedIn(w) => \E j \in 1..(i - 1) : r[j].kind = "ackDiff"
    BY <1>2, <1>6, <1>7
  <2>5. QED BY <2>1, <2>2, <2>3, <2>4 DEF Follows, f
<1>8. QED BY <1>2, <1>4, <1>7 DEF Ordered
------------------------------------------------------------------------------
(* The inductive invariant behind WireInOrder.                             *)

(* Where the adapter handles a frame, and where it reads frames at all.    *)
Handling == {"ack", "sink"}

Reading == {"recv"} \cup Handling

(* Who is in the line asks for what its stage has it write.                *)
AdapterTurn(turn) ==
  /\ turn.by = Adapter
  /\ \/ pc = "swap" /\ turn.frame = Swap
     \/ pc \in {"reg", "ackDiff"} /\ turn.frame = Control(pc)
     \/ pc = "ack" /\ turn.frame = [kind |-> "ack", conn |-> conn, frame |-> read]

BeatTurn(turn) == turn.by = Beat /\ turn.frame = Control("beat")

HandlerTurn(turn) ==
  /\ turn.by \in Tasks /\ stage[turn.by] = "reply"
  /\ turn.frame.kind = "reply" /\ turn.frame.of = job[turn.by].of

OnceInLine == \A i, j \in DOMAIN line : line[i].by = line[j].by => i = j

Asking ==
  /\ OnceInLine
  /\ \A turn \in Range(line) : AdapterTurn(turn) \/ BeatTurn(turn) \/ HandlerTurn(turn)

(* What is on the wire where the adapter is in the handshake or past it.   *)
Handshake ==
  /\ \A f \in Range(wire) : f.kind \in {"reg", "ackDiff", "ack", "reply"}
  /\ pc \in {"token", "reg"} => \A f \in Range(wire) : f.kind = "reply"
  /\ pc \in {"pause", "ackDiff"} => \A f \in Range(wire) : f.kind \in {"reg", "reply"}
  /\ pc \in Reading => SyncedIn(wire)
  /\ \A f \in Range(wire) :
       f.kind = "ack" => f.frame \in 1..read /\ (pc = "ack" => f.frame < read)

(* Of an event: its frame was read before the one that is being handled,   *)
(* and on this connection only once its handshake was over.                *)
Known(e) ==
  /\ e.frame \in 1..read /\ (pc \in Handling => e.frame < read)
  /\ e.conn \in 0..conn /\ (e.conn = conn => SyncedIn(wire))

(* The frames whose events this connection's writer has a reply to.        *)
Answered == {f.of.frame : f \in {g \in Range(wire) \cup Range(buffer) : g.kind = "reply"}}

(* The task may still reply.                                               *)
Pending(t) == stage[t] \in {"lock", "reply"}

(* An event has one place only: in the runtime, with a task that may still *)
(* reply to it, or in a reply that was written.                            *)
Numbered(s) == \A i, j \in DOMAIN s : s[i].frame = s[j].frame => i = j

InRuntime == Numbered(events) /\ \A e \in Range(events) : Known(e) /\ e.frame \notin Answered

WithTasks ==
  \A t \in Tasks : Pending(t) =>
    /\ Known(job[t].of) /\ job[t].of.frame \notin Answered
    /\ \A e \in Range(events) : e.frame # job[t].of.frame
    /\ \A u \in Tasks : Pending(u) /\ job[u].of.frame = job[t].of.frame => u = t

InReplies == \A f \in Range(wire) \cup Range(buffer) : f.kind = "reply" => Known(f.of)

OnePlace == InRuntime /\ WithTasks /\ InReplies

(* A dropped write leaves nothing but a reply in the buffer, and what it   *)
(* leaves did not go out.                                                  *)
Buffered ==
  /\ \A f \in Range(buffer) : f.kind = "reply"
  /\ Distinct(buffer) /\ Range(wire) \cap Range(buffer) = {}

Own ==
  /\ pc \in PC /\ read \in 0..MaxFrames /\ beating \in BOOLEAN
  /\ conn \in 0..MaxConns /\ (pc = "swap" => conn < MaxConns)
  /\ pc \in Handling => read # 0
  /\ {broken, stalled} \subseteq BOOLEAN /\ Len(events) <= Capacity

WInv == Own /\ Asking /\ Handshake /\ OnePlace /\ Buffered /\ WireInOrder
------------------------------------------------------------------------------
(* The line, when someone joins or leaves it.                              *)

LEMMA InRange == ASSUME NEW s PROVE \A x \in Range(s) : \E i \in DOMAIN s : x = s[i]
BY DEF Range

LEMMA LineJoined ==
  ASSUME IsSeq(line), OnceInLine, NEW s, NEW frame, Ask(s, frame),
         \A turn \in Range(line) : turn.by # s
  PROVE  OnceInLine' /\ \A turn \in Range(line') : turn \in Range(line) \/ turn = [by |-> s, frame |-> frame]
<1> DEFINE new == [by |-> s, frame |-> frame]
           S == Range(line) \cup {new}
<1>1. line \in Seq(S) /\ new \in S /\ line' = Append(line, new)
  BY SeqMonotonic DEF IsSeq, Ask
<1>2. new.by = s
  OBVIOUS
<1> HIDE DEF S, new
<1>3. /\ Len(line) \in Nat /\ DOMAIN line = 1..Len(line) /\ DOMAIN line' = 1..(Len(line) + 1)
      /\ \A i \in 1..Len(line) : line'[i] = line[i] /\ line'[Len(line) + 1] = new
  BY <1>1, AppendProperties, LenProperties
<1>4. \A i \in DOMAIN line : line[i].by # s
  BY DEF Range
<1>5. OnceInLine'
  BY <1>2, <1>3, <1>4 DEF OnceInLine
<1> QED BY <1>1, <1>5, AppendElements DEF new

LEMMA LineServed ==
  ASSUME IsSeq(line), OnceInLine, line # <<>>, line' = Tail(line)
  PROVE  /\ OnceInLine' /\ Head(line) \in Range(line)
         /\ \A turn \in Range(line') : turn \in Range(line) /\ turn.by # Head(line).by
<1> DEFINE S == Range(line)
           rest == line'
<1>1. line \in Seq(S) /\ Head(line) = line[1]
  BY DEF IsSeq
<1> HIDE DEF S
<1>2. /\ Len(line) \in Nat \ {0} /\ DOMAIN line = 1..Len(line) /\ DOMAIN rest = 1..(Len(line) - 1)
      /\ \A i \in 1..(Len(line) - 1) : rest[i] = line[i + 1]
  BY <1>1, HeadTailProperties, LenProperties, EmptySeq
<1> HIDE DEF rest
<1>3. \A i, j \in DOMAIN rest : rest[i].by = rest[j].by => i = j
  BY <1>2 DEF OnceInLine
<1>4. \A i \in DOMAIN rest : rest[i].by # line[1].by /\ rest[i] \in Range(line)
  BY <1>2 DEF OnceInLine, Range
<1>5. line[1] \in Range(line)
  BY <1>2 DEF Range
<1>6. \A turn \in Range(rest) : turn \in Range(line) /\ turn.by # line[1].by
  BY <1>4, InRange
<1> QED BY <1>1, <1>3, <1>5, <1>6 DEF rest, OnceInLine

LEMMA LineLeft ==
  ASSUME IsSeq(line), OnceInLine, NEW i \in DOMAIN line, line' = RemoveAt(line, i)
  PROVE  /\ OnceInLine'
         /\ \A turn \in Range(line') : turn \in Range(line) /\ turn.by # line[i].by
<1> DEFINE from(j) == IF j < i THEN j ELSE j + 1
           S == Range(line)
<1>1. line \in Seq(S)
  BY DEF IsSeq
<1> HIDE DEF S
<1>2. /\ Len(line) \in Nat /\ DOMAIN line = 1..Len(line) /\ DOMAIN line' = 1..(Len(line) - 1)
      /\ \A j \in DOMAIN line' : line'[j] = IF j < i THEN line[j] ELSE line[j + 1]
  BY <1>1, RemoveAtFacts
<1>3. /\ \A j \in DOMAIN line' : from(j) \in DOMAIN line /\ from(j) # i /\ line'[j] = line[from(j)]
      /\ \A j, k \in DOMAIN line' : from(j) = from(k) => j = k
  BY <1>2
<1> HIDE DEF from
<1>4. \A j \in DOMAIN line' : line'[j] \in Range(line) /\ line'[j].by # line[i].by
  BY <1>3 DEF OnceInLine, Range
<1> QED BY <1>3, <1>4, InRange DEF OnceInLine
------------------------------------------------------------------------------
(* What may be written next.                                               *)
Fits(f) == f \notin Range(buffer) /\ Follows(f, wire, conn)

(* Whoever has the lock writes what may be written next.                   *)
LEMMA TurnFits ==
  ASSUME WInv, NEW turn \in Range(line), turn.frame # Swap
  PROVE  \/ turn.frame.kind = "beat"
         \/ turn.frame.kind \in {"reg", "ackDiff", "ack", "reply"} /\ Fits(turn.frame)
<1> USE DEF WInv
<1> DEFINE f == turn.frame
<1>1. CASE BeatTurn(turn)
  BY <1>1 DEF BeatTurn, Control
<1>2. CASE AdapterTurn(turn)
  <2>1. CASE pc \in {"reg", "ackDiff"} /\ f = Control(pc)
    <3>1. f.kind = pc /\ f.kind \in {"reg", "ackDiff"}
      BY <2>1 DEF Control
    <3>2. \A g \in Range(wire) \cup Range(buffer) : g.kind # f.kind
      BY <2>1, <3>1 DEF Handshake, Buffered
    <3>3. QED BY <3>1, <3>2 DEF Fits, Follows
  <2>2. CASE pc = "ack" /\ f = [kind |-> "ack", conn |-> conn, frame |-> read]
    <3>1. f.kind = "ack" /\ f.conn = conn /\ f.frame = read
      BY <2>2
    <3>2. SyncedIn(wire) /\ \A g \in Range(wire) : g.kind = "ack" => g.frame < read
      BY <2>2 DEF Handshake, Reading, Handling
    <3>3. read \in Nat
      BY ExchangeAssumption DEF Own
    <3>4. f \notin Range(wire) \cup Range(buffer)
      BY <3>1, <3>2, <3>3 DEF Buffered
    <3>5. QED BY <3>1, <3>2, <3>4 DEF Fits, Follows
  <2>3. QED BY <1>2, <2>1, <2>2 DEF AdapterTurn
<1>3. CASE HandlerTurn(turn)
  <2>1. f.kind = "reply" /\ Known(f.of) /\ f.of.frame \notin Answered
    BY <1>3 DEF HandlerTurn, OnePlace, WithTasks, Pending
  <2>2. f \notin Range(wire) \cup Range(buffer)
    BY <2>1 DEF Answered
  <2>3. QED BY <2>1, <2>2 DEF Fits, Follows, Known
<1> QED BY <1>1, <1>2, <1>3 DEF Asking

(* The frames that Out gives of one that fits.                             *)
LEMMA OutFacts ==
  ASSUME NEW f
  PROVE  /\ f.kind = "beat" => Out(f) = <<>>
         /\ f.kind # "beat" => /\ IsSeq(Out(f)) /\ Range(Out(f)) = {f} /\ Len(Out(f)) = 1
                               /\ Distinct(Out(f))
<1>1. Len(<<f>>) = 1 /\ DOMAIN <<f>> = {1}
  OBVIOUS
<1> QED BY <1>1, SingleElement DEF Out, Distinct

LEMMA RangeConcat ==
  ASSUME NEW s, IsSeq(s), NEW t, IsSeq(t)
  PROVE  Range(s \o t) = Range(s) \cup Range(t)
<1> DEFINE S == Range(s) \cup Range(t)
           r == s \o t
<1>1. s \in Seq(S) /\ t \in Seq(S)
  BY SeqMonotonic DEF IsSeq
<1> HIDE DEF S
<1>2. /\ DOMAIN s = 1..Len(s) /\ DOMAIN t = 1..Len(t) /\ DOMAIN r = 1..(Len(s) + Len(t))
      /\ Len(s) \in Nat /\ Len(t) \in Nat
      /\ \A i \in 1..(Len(s) + Len(t)) : r[i] = IF i <= Len(s) THEN s[i] ELSE t[i - Len(s)]
  BY <1>1, ConcatProperties, LenProperties
<1> HIDE DEF r
<1>3. \A i \in DOMAIN s : i \in DOMAIN r /\ r[i] = s[i]
  BY <1>2
<1>4. \A i \in DOMAIN t : i + Len(s) \in DOMAIN r /\ r[i + Len(s)] = t[i]
  BY <1>2
<1>5. Range(s) \cup Range(t) \subseteq Range(r)
  BY <1>3, <1>4 DEF Range
<1>6. Range(r) \subseteq Range(s) \cup Range(t)
  BY ConcatElements DEF r
<1> QED BY <1>5, <1>6 DEF r
------------------------------------------------------------------------------
(* The property of the wire is Ordered, before a step and after it.        *)
LEMMA WireOrdered ==
  (WireInOrder <=> Ordered(wire, conn)) /\ (WireInOrder' <=> Ordered(wire', conn'))
BY DEF WireInOrder, Ordered

(* What a send does to the wire: the frame and what was buffered go out in *)
(* order, or nothing does.                                                 *)
LEMMA SendOrders ==
  ASSUME Good, WInv, NEW s, NEW ok \in BOOLEAN, SendEnds(s, ok)
  PROVE  LET f == Head(line).frame
         IN  /\ Head(line) \in Range(line) /\ Head(line).by = s /\ f # Swap
             /\ OnceInLine' /\ \A turn \in Range(line') : turn \in Range(line) /\ turn.by # s
             /\ WireInOrder' /\ Buffered'
             /\ conn' = conn /\ UNCHANGED <<broken, stalled>>
             /\ Range(wire) \subseteq Range(wire')
             /\ Range(wire') \subseteq Range(wire) \cup Range(buffer) \cup {f}
             /\ Range(buffer') \subseteq Range(buffer)
             /\ f.kind = "beat" => Range(wire') \subseteq Range(wire) \cup Range(buffer)
             /\ ok /\ f.kind # "beat" => f \in Range(wire')
             /\ ~ok => wire' = wire
<1> DEFINE f == Head(line).frame
           out == Out(f)
           sink == wire \o buffer
<1> USE DEF WInv
<1>1. /\ line # <<>> /\ line' = Tail(line) /\ Head(line).by = s /\ f # Swap
      /\ conn' = conn /\ UNCHANGED <<broken, stalled>>
  BY DEF SendEnds, Holds
<1>2. /\ OnceInLine' /\ Head(line) \in Range(line)
      /\ \A turn \in Range(line') : turn \in Range(line) /\ turn.by # s
  BY <1>1, LineServed DEF Good, LineGood, Asking
<1>3. f.kind # "beat" => Fits(f)
  BY <1>1, <1>2, TurnFits
<1>4. IsSeq(wire) /\ IsSeq(buffer) /\ Ordered(wire, conn)
  BY WireOrdered DEF Good, SinkGood
<1> HIDE DEF f
<1>5. CASE ~ok
  <2>1. UNCHANGED <<wire, buffer>>
    BY <1>5 DEF SendEnds
  <2>2. WireInOrder' /\ Buffered'
    BY <1>1, <2>1 DEF WireInOrder, Buffered, Distinct
  <2> QED BY <1>1, <1>2, <1>5, <2>1, <2>2 DEF f
<1>6. CASE ok
  <2>1. wire' = sink \o out /\ buffer' = <<>>
    <3>1. wire' = (wire \o buffer) \o Out(Head(line).frame) /\ buffer' = <<>>
      BY <1>6 DEF SendEnds
    <3> QED BY <3>1 DEF f
  <2>2. \A g \in Range(buffer) : Follows(g, wire, conn) /\ g.kind # "ack"
    BY DEF Buffered, Follows, OnePlace, InReplies, Known
  <2>3. Ordered(sink, conn)
    BY <1>4, <2>2, ConcatOrdered DEF Buffered
  <2>4. IsSeq(sink) /\ Range(sink) = Range(wire) \cup Range(buffer)
    BY <1>4, ConcatElements, RangeConcat
  <2> HIDE DEF sink, out
  <2>5. CASE f.kind = "beat"
    <3>1. out = <<>>
      BY <2>5, OutFacts DEF out
    <3>2. wire' = sink
      <4> DEFINE S == Range(sink)
      <4>1. sink \in Seq(S)
        BY <2>4 DEF IsSeq
      <4> HIDE DEF S
      <4>2. QED BY <2>1, <3>1, <4>1, ConcatEmptySeq
    <3>3. WireInOrder' /\ Range(wire') = Range(wire) \cup Range(buffer)
      BY <1>1, <2>3, <2>4, <3>2, WireOrdered
    <3>4. QED BY <1>1, <1>2, <1>6, <2>1, <2>5, <3>3, EmptyElements DEF f, Buffered, Distinct
  <2>6. CASE f.kind # "beat"
    <3>1. IsSeq(out) /\ Range(out) = {f} /\ Len(out) = 1 /\ Distinct(out)
      BY <2>6, OutFacts DEF out
    <3>2. Follows(f, sink, conn)
      <4>1. f \notin Range(sink) /\ (SyncedIn(wire) => SyncedIn(sink))
        BY <1>3, <2>4, <2>6 DEF Fits, Follows, SyncedIn
      <4>2. \A g \in Range(sink) : g.kind = "ack" => g \in Range(wire)
        BY <2>4 DEF Buffered
      <4>3. QED BY <1>3, <2>6, <4>1, <4>2 DEF Fits, Follows
    <3>3. Ordered(sink \o out, conn)
      BY <2>3, <2>4, <3>1, <3>2, ConcatOrdered
    <3>4. Range(wire') = Range(wire) \cup Range(buffer) \cup {f}
      BY <2>1, <2>4, <3>1, RangeConcat
    <3> WireInOrder'
      BY <1>1, <2>1, <3>3, WireOrdered
    <3>5. QED BY <1>1, <1>2, <1>6, <2>1, <2>6, <3>4, EmptyElements DEF f, Buffered, Distinct
  <2>7. QED BY <2>5, <2>6
<1>7. QED BY <1>5, <1>6

(* What a dropped send does: its turn is over, and its reply may be left   *)
(* in the buffer.                                                          *)
LEMMA DropOrders ==
  ASSUME Good, WInv, NEW t \in Tasks, stage[t] = "reply", DropSend(t)
  PROVE  /\ OnceInLine' /\ \A turn \in Range(line') : turn \in Range(line) /\ turn.by # t
         /\ UNCHANGED <<conn, wire, broken, stalled>> /\ Buffered'
         /\ \A g \in Range(buffer') : g \in Range(buffer) \/ g.of = job[t].of
<1> USE DEF WInv
<1>1. PICK i \in DOMAIN line : line[i].by = t /\ line' = RemoveAt(line, i)
  BY DEF DropSend
<1>2. OnceInLine' /\ \A turn \in Range(line') : turn \in Range(line) /\ turn.by # t
  BY <1>1, LineLeft DEF Good, LineGood, Asking
<1>3. UNCHANGED <<conn, wire, broken, stalled>>
  BY DEF DropSend
<1>4. CASE buffer' = buffer
  BY <1>2, <1>3, <1>4 DEF Buffered, Distinct
<1>5. CASE Holds(t) /\ buffer' = buffer \o Out(Head(line).frame)
  <2> DEFINE f == Head(line).frame
             out == Out(f)
  <2>1. Head(line) \in Range(line) /\ Head(line).by = t
    BY <1>5, TailElements DEF Holds, Good, LineGood
  <2>2. HandlerTurn(Head(line))
    BY <2>1, ExchangeAssumption DEF Asking, AdapterTurn, BeatTurn
  <2>3. f.kind = "reply" /\ f.of = job[t].of /\ f # Swap
    BY <2>1, <2>2 DEF HandlerTurn, Swap
  <2>4. Fits(f)
    BY <2>1, <2>3, TurnFits
  <2> HIDE DEF f
  <2>5. IsSeq(out) /\ Range(out) = {f} /\ Len(out) = 1
    BY <2>3, OutFacts
  <2>6. buffer' = buffer \o out /\ IsSeq(buffer)
    BY <1>5 DEF f, Good, SinkGood
  <2> HIDE DEF out
  <2>7. Range(buffer') = Range(buffer) \cup {f}
    BY <2>5, <2>6, RangeConcat
  <2>8. Distinct(buffer')
    <3> DEFINE S == Range(buffer) \cup Range(out)
               both == buffer \o out
    <3>1. buffer \in Seq(S) /\ out \in Seq(S)
      BY <2>5, <2>6, SeqMonotonic DEF IsSeq
    <3> HIDE DEF S
    <3>2. /\ Len(buffer) \in Nat /\ DOMAIN buffer = 1..Len(buffer) /\ DOMAIN both = 1..(Len(buffer) + 1)
          /\ \A j \in 1..(Len(buffer) + 1) :
               both[j] = IF j <= Len(buffer) THEN buffer[j] ELSE out[j - Len(buffer)]
      <4>1. /\ both \in Seq(S) /\ Len(both) = Len(buffer) + 1
            /\ \A j \in 1..(Len(buffer) + 1) :
                 both[j] = IF j <= Len(buffer) THEN buffer[j] ELSE out[j - Len(buffer)]
        BY <2>5, <3>1, ConcatProperties, SMTT(60)
      <4> HIDE DEF both
      <4>2. QED BY <3>1, <4>1, LenProperties
    <3>3. DOMAIN out = 1..1 /\ out[1] = f
      BY <2>5, <3>1, LenProperties DEF Range
    <3> HIDE DEF both
    <3>4. \A j \in DOMAIN buffer : both[j] = buffer[j] /\ both[j] # f
      BY <2>4, <3>2 DEF Fits, Range
    <3>5. both[Len(buffer) + 1] = f
      BY <3>2, <3>3
    <3>6. Distinct(both)
      BY <3>2, <3>4, <3>5 DEF Distinct, Buffered
    <3>7. QED BY <2>6, <3>6 DEF both
  <2>9. QED BY <1>2, <1>3, <2>3, <2>4, <2>7, <2>8 DEF Buffered, Fits, Follows
<1>6. QED BY <1>4, <1>5 DEF DropSend
------------------------------------------------------------------------------
(* What each part needs in order to stay.                                  *)

LEMMA AskingStays ==
  ASSUME Asking, OnceInLine',
         \A turn \in Range(line') :
           \/ /\ turn \in Range(line)
              /\ turn.by = Adapter => UNCHANGED <<pc, read, conn>>
              /\ turn.by \in Tasks => /\ stage'[turn.by] = stage[turn.by]
                                      /\ job'[turn.by] = job[turn.by]
           \/ AdapterTurn(turn)' \/ BeatTurn(turn) \/ HandlerTurn(turn)'
  PROVE  Asking'
<1> SUFFICES ASSUME NEW turn \in Range(line')
             PROVE  AdapterTurn(turn)' \/ BeatTurn(turn) \/ HandlerTurn(turn)'
  BY DEF Asking, BeatTurn
<1>1. CASE turn \in Range(line) /\ AdapterTurn(turn) /\ UNCHANGED <<pc, read, conn>>
  BY <1>1 DEF AdapterTurn, Control
<1>2. CASE turn \in Range(line) /\ HandlerTurn(turn) /\ stage'[turn.by] = stage[turn.by]
           /\ job'[turn.by] = job[turn.by]
  BY <1>2 DEF HandlerTurn
<1>3. QED BY <1>1, <1>2 DEF Asking, AdapterTurn, HandlerTurn

LEMMA HandshakeStays ==
  ASSUME Handshake, UNCHANGED <<pc, read>>, Range(wire) \subseteq Range(wire'),
         \A f \in Range(wire') : f \in Range(wire) \/ f.kind = "reply"
  PROVE  Handshake'
BY DEF Handshake, SyncedIn

LEMMA Quiet ==
  ASSUME WInv, UNCHANGED <<conn, wire, buffer>>
  PROVE  WireInOrder' /\ Buffered'
BY DEF WInv, WireInOrder, Buffered, Distinct

(* The adapter goes on reading, or to the next connection.                 *)
Forth ==
  /\ \/ read' = read /\ (pc' \in Handling => pc \in Handling)
     \/ read' = read + 1
  /\ \/ conn' = conn /\ (SyncedIn(wire) => SyncedIn(wire'))
     \/ conn' = conn + 1

LEMMA KnownStays ==
  ASSUME Own, Forth, NEW e, Known(e)
  PROVE  Known(e)'
<1>1. read \in Nat /\ conn \in Nat
  BY ExchangeAssumption, WriterAssumption DEF Own
<1>2. e.frame \in 1..read' /\ (pc' \in Handling => e.frame < read')
  BY <1>1 DEF Forth, Known
<1>3. e.conn \in 0..conn' /\ (e.conn = conn' => SyncedIn(wire'))
  BY <1>1 DEF Forth, Known
<1> QED BY <1>2, <1>3 DEF Known

(* Nothing new turns up but replies to what a task had, which then is done *)
(* with it.                                                                *)
LEMMA OnePlaceStays ==
  ASSUME Own, OnePlace, Forth, Numbered(events'), Range(events') \subseteq Range(events),
         \A t \in Tasks : Pending(t)' => Pending(t) /\ job'[t] = job[t],
         \A f \in Range(wire') \cup Range(buffer') : f.kind = "reply" =>
           \/ f \in Range(wire) \cup Range(buffer)
           \/ \E t \in Tasks : Pending(t) /\ ~Pending(t)' /\ f.of = job[t].of
  PROVE  OnePlace'
<1>1. \A e : Known(e) => Known(e)'
  BY KnownStays
<1>2. \A n \in Answered' :
        n \in Answered \/ \E t \in Tasks : Pending(t) /\ ~Pending(t)' /\ n = job[t].of.frame
  BY DEF Answered
<1>3. InRuntime'
  <2>1. \A e \in Range(events') : Known(e)' /\ e.frame \notin Answered'
    BY <1>1, <1>2 DEF InRuntime, OnePlace, WithTasks
  <2>2. QED BY <2>1 DEF InRuntime, Numbered
<1>4. WithTasks'
  <2>1. ASSUME NEW t \in Tasks, Pending(t)'
        PROVE  /\ Pending(t) /\ job'[t] = job[t]
               /\ Known(job[t].of) /\ job[t].of.frame \notin Answered'
               /\ \A e \in Range(events') : e.frame # job[t].of.frame
               /\ \A u \in Tasks :
                    Pending(u)' /\ job'[u].of.frame = job[t].of.frame => u = t
    BY <1>2, <2>1 DEF OnePlace, WithTasks
  <2>2. \A t \in Tasks : Pending(t)' => \E e : e = job'[t].of /\ Known(e)'
    BY <1>1, <2>1
  <2>3. \A t \in Tasks : Pending(t)' => Known(job[t].of)'
    BY <2>2 DEF Known
  <2>4. QED BY <2>1, <2>3 DEF WithTasks
<1>5. InReplies'
  <2>1. \A f \in Range(wire') \cup Range(buffer') : f.kind = "reply" => Known(f.of)
    BY DEF InReplies, OnePlace, WithTasks
  <2>2. QED BY <1>1, <2>1 DEF InReplies
<1> QED BY <1>3, <1>4, <1>5 DEF OnePlace

(* Who is not in the line.                                                 *)
LEMMA NotInLine ==
  ASSUME Asking
  PROVE  /\ pc \notin {"swap", "reg", "ackDiff", "ack"} => \A turn \in Range(line) : turn.by # Adapter
         /\ \A t \in Tasks : stage[t] # "reply" => \A turn \in Range(line) : turn.by # t
         /\ ~InLine(Beat) => \A turn \in Range(line) : turn.by # Beat
<1>1. ~InLine(Beat) => \A turn \in Range(line) : turn.by # Beat
  BY DEF InLine, Range
<1> QED BY <1>1, ExchangeAssumption DEF Asking, AdapterTurn, BeatTurn, HandlerTurn

(* Events that are taken away leave the others in their places.            *)
LEMMA TailNumbered ==
  ASSUME NEW s, IsSeq(s), Numbered(s), s # <<>>
  PROVE  /\ Numbered(Tail(s)) /\ Range(Tail(s)) \subseteq Range(s) /\ Head(s) \in Range(s)
         /\ \A e \in Range(Tail(s)) : e.frame # Head(s).frame
         /\ Len(s) \in Nat /\ Len(Tail(s)) = Len(s) - 1
<1> DEFINE S == Range(s)
           rest == Tail(s)
<1>1. s \in Seq(S) /\ Head(s) = s[1]
  BY DEF IsSeq
<1> HIDE DEF S
<1>2. /\ Len(s) \in Nat \ {0} /\ DOMAIN s = 1..Len(s)
      /\ DOMAIN rest = 1..(Len(s) - 1) /\ Len(rest) = Len(s) - 1
      /\ \A i \in 1..(Len(s) - 1) : rest[i] = s[i + 1]
  BY <1>1, HeadTailProperties, LenProperties, EmptySeq
<1> HIDE DEF rest
<1>3. Numbered(rest) /\ \A i \in DOMAIN rest : rest[i].frame # s[1].frame
  <2>1. \A i \in DOMAIN rest : i + 1 \in DOMAIN s /\ i + 1 # 1 /\ rest[i] = s[i + 1]
    BY <1>2
  <2>2. \A i, j \in DOMAIN rest : i + 1 = j + 1 => i = j
    BY <1>2
  <2>3. 1 \in DOMAIN s
    BY <1>2
  <2>4. QED BY <2>1, <2>2, <2>3 DEF Numbered
<1>4. \A e \in Range(rest) : e.frame # s[1].frame
  BY <1>3, InRange
<1> QED BY <1>1, <1>2, <1>3, <1>4, TailElements DEF rest

(* An event whose frame no other has may be put after them.                *)
LEMMA AppendNumbered ==
  ASSUME NEW s, IsSeq(s), Numbered(s), NEW e, \A x \in Range(s) : x.frame # e.frame
  PROVE  /\ Numbered(Append(s, e)) /\ \A x \in Range(Append(s, e)) : x \in Range(s) \/ x = e
         /\ Len(s) \in Nat /\ Len(Append(s, e)) = Len(s) + 1
<1> DEFINE S == Range(s) \cup {e}
           all == Append(s, e)
<1>1. s \in Seq(S) /\ e \in S
  BY SeqMonotonic DEF IsSeq
<1> HIDE DEF S
<1>2. /\ Len(s) \in Nat /\ DOMAIN s = 1..Len(s) /\ DOMAIN all = 1..(Len(s) + 1)
      /\ \A i \in 1..Len(s) : all[i] = s[i] /\ all[Len(s) + 1] = e
      /\ Len(all) = Len(s) + 1
  BY <1>1, AppendProperties, LenProperties
<1> HIDE DEF all
<1>3. \A i \in DOMAIN s : s[i].frame # e.frame
  BY DEF Range
<1>4. all[Len(s) + 1] = e
  <2> DEFINE n == Len(s)
  <2>1. Append(s, e)[n + 1] = e
    BY <1>1, AppendProperties
  <2>2. QED BY <2>1 DEF all
<1>5. Numbered(all)
  BY <1>2, <1>3, <1>4 DEF Numbered
<1> QED BY <1>2, <1>5, AppendElements DEF all
------------------------------------------------------------------------------
(* Every step keeps the invariant.                                         *)

(* A step of the adapter that writes nothing.                              *)
LEMMA AdapterAsks ==
  ASSUME Good, HTypeOK, WInv,
         \/ Opened \/ PauseEnds \/ ReadEnd \/ SinkReturns
         \/ \E ok \in BOOLEAN : GetToken(ok)
         \/ \E frame \in Frames : ReadFrame(frame)
  PROVE  WInv'
<1> USE DEF WInv
<1>1. pc \in PC /\ read \in 0..MaxFrames /\ conn \in 0..MaxConns /\ Len(events) <= Capacity
      /\ read \in Nat /\ MaxFrames \in Nat /\ conn \in Nat
  BY ExchangeAssumption, WriterAssumption DEF Own
<1>2. UNCHANGED <<conn, broken, stalled, wire, buffer, job, stage>>
  BY DEF Opened, PauseEnds, ReadEnd, SinkReturns, GetToken, ReadFrame, wRest, wVars, hVars
<1>3. WireInOrder' /\ Buffered'
  BY <1>2, Quiet
<1>4. pc \in {"down", "token", "pause", "recv", "sink"} /\ \A turn \in Range(line) : turn.by # Adapter
  BY NotInLine DEF Opened, PauseEnds, ReadEnd, SinkReturns, GetToken, ReadFrame
<1>5. ASSUME NEW frame, Ask(Adapter, frame), AdapterTurn([by |-> Adapter, frame |-> frame])'
      PROVE  Asking'
  <2>1. OnceInLine' /\ \A turn \in Range(line') : turn \in Range(line) \/ turn = [by |-> Adapter, frame |-> frame]
    BY <1>4, <1>5, LineJoined DEF Good, LineGood, Asking
  <2>2. QED BY <1>2, <1>4, <1>5, <2>1, AskingStays
<1>6. ASSUME line' = line PROVE Asking'
  BY <1>2, <1>4, <1>6, AskingStays DEF Asking, OnceInLine
<1>7. ASSUME Forth, UNCHANGED events PROVE OnePlace'
  BY <1>2, <1>7, OnePlaceStays DEF Pending, OnePlace, InRuntime
<1>8. CASE Opened
  <2>1. pc = "down" /\ pc' = "swap" /\ UNCHANGED <<read, beating, events>> /\ Ask(Adapter, Swap)
        /\ conn < MaxConns
    BY <1>8 DEF Opened
  <2>2. Asking' /\ Own' /\ Handshake'
    BY <1>2, <1>5, <2>1 DEF AdapterTurn, Own, PC, Handshake, Reading, Handling
  <2>3. OnePlace'
    BY <1>2, <1>7, <2>1 DEF Forth, Handling
  <2>4. QED BY <1>3, <2>2, <2>3
<1>9. CASE PauseEnds
  <2>1. pc = "pause" /\ pc' = "ackDiff" /\ UNCHANGED <<read, beating, events>>
        /\ Ask(Adapter, Control("ackDiff"))
    BY <1>9 DEF PauseEnds
  <2>2. Asking' /\ Own' /\ Handshake'
    BY <1>2, <1>5, <2>1 DEF AdapterTurn, Control, Own, PC, Handshake, Reading, Handling
  <2>3. OnePlace'
    BY <1>2, <1>7, <2>1 DEF Forth, Handling
  <2>4. QED BY <1>3, <2>2, <2>3
<1>10. CASE ReadEnd
  <2>1. pc = "recv" /\ pc' = "down" /\ UNCHANGED <<read, beating, events, line>>
    BY <1>10 DEF ReadEnd, wVars
  <2>2. Asking' /\ Own' /\ Handshake'
    BY <1>2, <1>6, <2>1 DEF Own, PC, Handshake, Reading, Handling
  <2>3. OnePlace'
    BY <1>2, <1>7, <2>1 DEF Forth, Handling
  <2>4. QED BY <1>3, <2>2, <2>3
<1>11. ASSUME NEW ok \in BOOLEAN, GetToken(ok) PROVE WInv'
  <2>1. pc = "token" /\ UNCHANGED <<read, beating, events>>
        /\ \/ pc' = "reg" /\ Ask(Adapter, Control("reg"))
           \/ pc' = "down" /\ line' = line
    BY <1>11 DEF GetToken
  <2>2. Asking' /\ Own' /\ Handshake'
    BY <1>2, <1>5, <1>6, <2>1 DEF AdapterTurn, Control, Own, PC, Handshake, Reading, Handling
  <2>3. OnePlace'
    BY <1>2, <1>7, <2>1 DEF Forth, Handling
  <2>4. QED BY <1>3, <2>2, <2>3
<1>12. ASSUME NEW frame \in Frames, ReadFrame(frame) PROVE WInv'
  <2>1. pc = "recv" /\ read < MaxFrames /\ read' = read + 1 /\ UNCHANGED <<beating, events>>
        /\ \/ pc' = "ack" /\ Ask(Adapter, [kind |-> "ack", conn |-> conn, frame |-> read'])
           \/ pc' \in {"recv", "sink"} /\ line' = line
    BY <1>12 DEF ReadFrame, Process
  <2>2. Asking'
    BY <1>2, <1>5, <1>6, <2>1 DEF AdapterTurn
  <2>3. Own' /\ Handshake'
    BY <1>1, <1>2, <2>1 DEF Own, PC, Handshake, Reading, Handling
  <2>4. OnePlace'
    BY <1>2, <1>7, <2>1 DEF Forth
  <2>5. QED BY <1>3, <2>2, <2>3, <2>4
<1>13. CASE SinkReturns
  <2>1. pc = "sink" /\ pc' = "recv" /\ Len(events) < Capacity /\ UNCHANGED <<read, beating, line>>
    BY <1>13 DEF SinkReturns, wVars
  <2>2. PICK event \in EventsOf(current) :
          events' = Append(events, [event |-> event, conn |-> conn, frame |-> read])
    BY <1>13 DEF SinkReturns
  <2> DEFINE new == [event |-> event, conn |-> conn, frame |-> read]
  <2>3. /\ \A e \in Range(events) : e.frame # read
        /\ \A t \in Tasks : Pending(t) => job[t].of.frame # read
        /\ \A f \in Range(wire) \cup Range(buffer) : f.kind = "reply" => f.of.frame # read
    BY <1>1, <2>1 DEF OnePlace, InRuntime, WithTasks, InReplies, Known, Handling
  <2>4. new.frame = read /\ new.conn = conn /\ read \notin Answered
    BY <2>3 DEF Answered
  <2> HIDE DEF new
  <2>5. /\ Numbered(events') /\ \A e \in Range(events') : e \in Range(events) \/ e = new
        /\ Len(events) \in Nat /\ Len(events') = Len(events) + 1
    BY <2>2, <2>3, <2>4, AppendNumbered DEF Good, EventsGood, OnePlace, InRuntime, new
  <2>6. Asking' /\ Own' /\ Handshake'
    BY <1>1, <1>2, <1>6, <2>1, <2>5, ExchangeAssumption DEF Own, PC, Handshake, Reading, Handling
  <2>7. Answered' = Answered
    BY <1>2 DEF Answered
  <2>8. \A e : Known(e) \/ e = new => Known(e)'
    <3>1. read # 0 /\ SyncedIn(wire)
      BY <2>1 DEF Own, Handshake, Reading, Handling
    <3>2. QED BY <1>1, <1>2, <2>1, <2>4, <3>1 DEF Known, Handling
  <2>9. InRuntime'
    BY <2>4, <2>5, <2>7, <2>8 DEF OnePlace, InRuntime
  <2>10. WithTasks'
    <3>1. ASSUME NEW t \in Tasks, Pending(t)'
          PROVE  /\ Known(job[t].of) /\ job'[t] = job[t] /\ Pending(t)
                 /\ job[t].of.frame \notin Answered'
                 /\ \A e \in Range(events') : e.frame # job[t].of.frame
      BY <1>2, <2>3, <2>4, <2>5, <2>7, <3>1 DEF OnePlace, WithTasks, Pending
    <3>2. \A t \in Tasks : Pending(t)' => \E e : e = job'[t].of /\ Known(e)'
      BY <2>8, <3>1
    <3>3. \A t \in Tasks : Pending(t)' => Known(job[t].of)'
      BY <3>2 DEF Known
    <3>4. QED BY <3>1, <3>3 DEF OnePlace, WithTasks
  <2>11. InReplies'
    BY <1>2, <2>8 DEF OnePlace, InReplies
  <2>12. QED BY <1>3, <2>6, <2>9, <2>10, <2>11 DEF OnePlace
<1>14. QED BY <1>8, <1>9, <1>10, <1>11, <1>12, <1>13

(* A new connection, on which nothing is on the wire.                      *)
LEMMA ConnectedStep == ASSUME Good, WInv, Connected PROVE WInv'
<1> USE DEF WInv
<1>1. /\ pc = "swap" /\ pc' = "token" /\ line # <<>> /\ line' = Tail(line)
      /\ Head(line).by = Adapter /\ conn' = conn + 1 /\ wire' = <<>> /\ buffer' = <<>>
      /\ broken' = FALSE /\ stalled' = FALSE
      /\ UNCHANGED <<read, beating, events, job, stage>>
  BY DEF Connected, Swapped, Holds, hVars
<1>2. OnceInLine' /\ \A turn \in Range(line') : turn \in Range(line) /\ turn.by # Adapter
  BY <1>1, LineServed DEF Good, LineGood, Asking
<1>3. Asking'
  BY <1>1, <1>2, AskingStays
<1>4. Range(wire') = {} /\ Range(buffer') = {}
  BY <1>1, EmptyElements
<1>5. WireInOrder' /\ Buffered'
  BY <1>1, <1>4 DEF WireInOrder, Buffered, Distinct
<1>6. Own'
  <2>1. conn' \in 0..MaxConns
    BY <1>1, WriterAssumption DEF Own
  <2>2. pc' \in PC /\ pc' # "swap" /\ pc' \notin Handling
    BY <1>1 DEF PC, Handling
  <2>3. {broken', stalled'} \subseteq BOOLEAN
    BY <1>1
  <2>4. QED BY <1>1, <2>1, <2>2, <2>3 DEF Own
<1>7. Handshake'
  BY <1>1, <1>4 DEF Handshake, Reading, Handling
<1>8. OnePlace'
  BY <1>1, <1>4, OnePlaceStays DEF Forth, Handling, Pending, OnePlace, InRuntime
<1> QED BY <1>3, <1>5, <1>6, <1>7, <1>8

(* The adapter's frame goes out, or not, and with it what was buffered.    *)
LEMMA AdapterWrites ==
  ASSUME Good, WInv, NEW ok \in BOOLEAN, Registered(ok) \/ Synced(ok) \/ Acknowledged(ok)
  PROVE  WInv'
<1> USE DEF WInv
<1> DEFINE f == Head(line).frame
<1>1. SendEnds(Adapter, ok) /\ pc \in {"reg", "ackDiff", "ack"}
      /\ UNCHANGED <<read, events, job, stage>>
  BY DEF Registered, Synced, Acknowledged, hVars
<1>2. /\ Head(line) \in Range(line) /\ Head(line).by = Adapter
      /\ OnceInLine' /\ \A turn \in Range(line') : turn \in Range(line) /\ turn.by # Adapter
      /\ WireInOrder' /\ Buffered'
      /\ conn' = conn /\ UNCHANGED <<broken, stalled>>
      /\ Range(wire) \subseteq Range(wire')
      /\ Range(wire') \subseteq Range(wire) \cup Range(buffer) \cup {f}
      /\ Range(buffer') \subseteq Range(buffer)
      /\ ok /\ f.kind # "beat" => f \in Range(wire')
  BY <1>1, SendOrders
<1>3. /\ pc \in {"reg", "ackDiff"} => f = Control(pc)
      /\ pc = "ack" => f = [kind |-> "ack", conn |-> conn, frame |-> read]
  BY <1>1, <1>2, ExchangeAssumption DEF Asking, AdapterTurn, BeatTurn, HandlerTurn
<1>4. f.kind = pc /\ (pc = "ack" => f.frame = read)
  BY <1>1, <1>3 DEF Control
<1> HIDE DEF f
<1>5. Asking'
  BY <1>1, <1>2, AskingStays
<1>6. \A g \in Range(wire') : g \in Range(wire) \/ g.kind = "reply" \/ g = f
  BY <1>2 DEF Buffered
<1>7. OnePlace'
  <2>1. \A g \in Range(wire') \cup Range(buffer') :
          g.kind = "reply" => g \in Range(wire) \cup Range(buffer)
    BY <1>1, <1>2, <1>4
  <2>2. pc' \in Handling => pc \in Handling
    BY <1>1 DEF Registered, Synced, Acknowledged, Process, Handling
  <2>3. Forth
    BY <1>1, <1>2, <2>2 DEF Forth, SyncedIn
  <2>4. QED BY <1>1, <2>1, <2>3, OnePlaceStays DEF Pending, OnePlace, InRuntime
<1>8. CASE Registered(ok)
  <2>1. pc = "reg" /\ pc' \in {"pause", "down"} /\ beating' = beating
    BY <1>8 DEF Registered
  <2>2. Own'
    BY <1>1, <1>2, <2>1 DEF Own, PC, Handling
  <2>3. Handshake'
    BY <1>1, <1>4, <1>6, <2>1 DEF Handshake, Reading, Handling
  <2>4. QED BY <1>2, <1>5, <1>7, <2>2, <2>3
<1>9. CASE Synced(ok)
  <2>1. /\ pc = "ackDiff" /\ pc' \in {"recv", "down"} /\ (pc' = "recv" => ok)
        /\ beating' \in BOOLEAN
    BY <1>9 DEF Synced, Own
  <2>2. Own'
    BY <1>1, <1>2, <2>1 DEF Own, PC, Handling
  <2>3. pc' = "recv" => SyncedIn(wire')
    BY <1>2, <1>4, <2>1 DEF SyncedIn
  <2>4. Handshake'
    BY <1>1, <1>4, <1>6, <2>1, <2>3 DEF Handshake, Reading, Handling
  <2>5. QED BY <1>2, <1>5, <1>7, <2>2, <2>4
<1>10. CASE Acknowledged(ok)
  <2>1. pc = "ack" /\ pc' \in {"recv", "sink"} /\ beating' = beating
    BY <1>10 DEF Acknowledged, Process
  <2>2. read \in 1..read /\ Own'
    BY <1>1, <1>2, <2>1, ExchangeAssumption DEF Own, PC, Handling
  <2>3. SyncedIn(wire')
    BY <1>2, <2>1 DEF Handshake, SyncedIn, Reading, Handling
  <2>4. Handshake'
    BY <1>1, <1>4, <1>6, <2>1, <2>2, <2>3 DEF Handshake, Reading, Handling
  <2>5. QED BY <1>2, <1>5, <1>7, <2>2, <2>4
<1>11. QED BY <1>8, <1>9, <1>10

(* A heartbeat that goes out takes along what was buffered.                *)
LEMMA BeatStep ==
  ASSUME Good, WInv, BeatAsks \/ BeatTimesOut \/ \E ok \in BOOLEAN : BeatEnds(ok)
  PROVE  WInv'
<1> USE DEF WInv
<1>1. UNCHANGED <<pc, read, conn, events, job, stage, broken, stalled>>
  BY DEF BeatAsks, BeatTimesOut, BeatEnds, SendEnds, aVars, hVars, wVars, wRest
<1>2. beating' \in BOOLEAN
  BY DEF BeatAsks, BeatTimesOut, BeatEnds, aVars, Own
<1>3. Own'
  BY <1>1, <1>2 DEF Own
<1>4. ASSUME Forth,
             \A f \in Range(wire') \cup Range(buffer') : f \in Range(wire) \cup Range(buffer)
      PROVE  OnePlace'
  BY <1>1, <1>4, OnePlaceStays DEF Pending, OnePlace, InRuntime
<1>5. CASE BeatAsks
  <2>1. Ask(Beat, Control("beat")) /\ ~InLine(Beat) /\ UNCHANGED <<wire, buffer>>
    BY <1>5 DEF BeatAsks, wRest
  <2>2. OnceInLine' /\ \A turn \in Range(line') :
                         turn \in Range(line) \/ turn = [by |-> Beat, frame |-> Control("beat")]
    BY <2>1, NotInLine, LineJoined DEF Good, LineGood, Asking
  <2>3. Asking'
    BY <1>1, <2>2, AskingStays DEF BeatTurn
  <2>4. OnePlace' /\ Handshake' /\ WireInOrder' /\ Buffered'
    BY <1>1, <1>4, <2>1, HandshakeStays, Quiet DEF Forth
  <2>5. QED BY <1>3, <2>3, <2>4
<1>6. CASE BeatTimesOut
  <2>1. UNCHANGED <<line, wire, buffer>>
    BY <1>6 DEF BeatTimesOut, wVars
  <2>2. Asking'
    BY <1>1, <2>1, AskingStays DEF Asking, OnceInLine
  <2>3. OnePlace' /\ Handshake' /\ WireInOrder' /\ Buffered'
    BY <1>1, <1>4, <2>1, HandshakeStays, Quiet DEF Forth
  <2>4. QED BY <1>3, <2>2, <2>3
<1>7. ASSUME NEW ok \in BOOLEAN, BeatEnds(ok) PROVE WInv'
  <2>1. SendEnds(Beat, ok)
    BY <1>7 DEF BeatEnds
  <2> DEFINE f == Head(line).frame
  <2>2. /\ Head(line) \in Range(line) /\ Head(line).by = Beat
        /\ OnceInLine' /\ \A turn \in Range(line') : turn \in Range(line) /\ turn.by # Beat
        /\ WireInOrder' /\ Buffered'
        /\ Range(wire) \subseteq Range(wire')
        /\ f.kind = "beat" => Range(wire') \subseteq Range(wire) \cup Range(buffer)
        /\ Range(buffer') \subseteq Range(buffer)
    BY <2>1, SendOrders
  <2>3. f.kind = "beat"
    BY <2>2, ExchangeAssumption DEF Asking, AdapterTurn, BeatTurn, HandlerTurn, Control
  <2> HIDE DEF f
  <2>4. Asking'
    BY <1>1, <2>2, AskingStays
  <2>5. Handshake'
    BY <1>1, <2>2, <2>3, HandshakeStays DEF Buffered
  <2>6. Forth
    BY <1>1, <2>2 DEF Forth, SyncedIn
  <2>7. QED BY <1>3, <1>4, <2>2, <2>3, <2>4, <2>5, <2>6
<1>8. QED BY <1>5, <1>6, <1>7

(* A step of one task concerns no other.                                   *)
LEMMA OneTask ==
  ASSUME HTypeOK, JobsGood, NEW t \in Tasks, NEW at, stage' = [stage EXCEPT ![t] = at],
         job' = job \/ \E new : job' = [job EXCEPT ![t] = new]
  PROVE  /\ stage'[t] = at
         /\ \A u \in Tasks : u # t => stage'[u] = stage[u] /\ job'[u] = job[u]
<1>1. stage'[t] = at /\ \A u \in Tasks : u # t => stage'[u] = stage[u]
  BY DEF HTypeOK
<1>2. \A u \in Tasks : u # t => job'[u] = job[u]
  BY DEF JobsGood
<1> QED BY <1>1, <1>2

(* What handlers do to the adapter, the connection and the events.         *)
LEMMA HandlersAside ==
  ASSUME Good, WInv, Handlers
  PROVE  /\ UNCHANGED <<pc, read, beating, conn, broken, stalled>>
         /\ Numbered(events') /\ Range(events') \subseteq Range(events)
         /\ Own'
<1> DEFINE Still == UNCHANGED <<pc, read, beating, conn, broken, stalled>>
           Taken == events # <<>> /\ events' = Tail(events)
<1>1. ASSUME NEW t \in Tasks, \/ RunToReply(t) \/ RunWithoutReply(t) \/ Return(t) \/ Expire(t)
                              \/ \E ok \in BOOLEAN : ReplySent(t, ok)
      PROVE  Still /\ events' = events
  BY <1>1 DEF RunToReply, RunWithoutReply, Return, Expire, ReplySent, SendEnds, DropSend,
              aVars, wVars, wRest
<1>2. ASSUME Discard \/ \E t \in Tasks, kind \in Kind, chain \in Chains : Start(t, kind, chain)
      PROVE  Still /\ Taken
  BY <1>2 DEF Discard, Start, aVars, wVars
<1> HIDE DEF Still, Taken
<1>3. /\ Numbered(events') /\ Range(events') \subseteq Range(events)
      /\ Len(events') <= Capacity
  <2>1. CASE events' = events
    BY <2>1 DEF WInv, Own, OnePlace, InRuntime, Numbered
  <2>2. CASE events # <<>> /\ events' = Tail(events)
    <3>1. /\ Numbered(Tail(events)) /\ Range(Tail(events)) \subseteq Range(events)
          /\ Len(events) \in Nat /\ Len(Tail(events)) = Len(events) - 1
      BY <2>2, TailNumbered DEF Good, EventsGood, WInv, OnePlace, InRuntime
    <3>2. Len(events) - 1 <= Capacity
      BY <3>1, ExchangeAssumption DEF WInv, Own
    <3>3. QED BY <2>2, <3>1, <3>2
  <2>3. QED BY <1>1, <1>2, <2>1, <2>2 DEF Handlers, Taken
<1>4. Still
  BY <1>1, <1>2 DEF Handlers
<1>5. Own'
  BY <1>3, <1>4 DEF WInv, Own, Still
<1> QED BY <1>3, <1>4, <1>5 DEF Still

(* Where a task does not leave the writer's line or join it.               *)
LEMMA TaskAlone ==
  ASSUME Good, HTypeOK, WInv, Handlers, NEW t \in Tasks, stage[t] # "reply", NEW at,
         stage' = [stage EXCEPT ![t] = at], at \notin {"lock", "reply"},
         job' = job \/ (at = "idle" /\ \E new : job' = [job EXCEPT ![t] = new]),
         UNCHANGED wVars
  PROVE  WInv'
<1> USE DEF WInv
<1>1. /\ stage'[t] = at
      /\ \A u \in Tasks : u # t => stage'[u] = stage[u] /\ job'[u] = job[u]
  BY OneTask DEF Good
<1>2. UNCHANGED <<pc, read, conn, wire, buffer, line>> /\ Own'
      /\ Numbered(events') /\ Range(events') \subseteq Range(events)
  BY HandlersAside DEF wVars
<1>3. WireInOrder' /\ Buffered' /\ Handshake'
  BY <1>2, Quiet, HandshakeStays
<1>4. Asking'
  <2>1. \A turn \in Range(line) : turn.by # t
    BY NotInLine
  <2>2. QED BY <1>1, <1>2, <2>1, AskingStays DEF Asking, OnceInLine
<1>5. OnePlace'
  <2>1. Forth
    BY <1>2 DEF Forth
  <2>2. \A u \in Tasks : Pending(u)' => Pending(u) /\ job'[u] = job[u]
    BY <1>1 DEF Pending
  <2>3. QED BY <1>2, <2>1, <2>2, OnePlaceStays
<1> QED BY <1>2, <1>3, <1>4, <1>5

(* A handler starts: its event leaves the runtime for the task.            *)
LEMMA StartStep ==
  ASSUME Good, HTypeOK, WInv, Handlers, NEW t \in Tasks, NEW kind, NEW chain, Start(t, kind, chain)
  PROVE  WInv'
<1> USE DEF WInv
<1> DEFINE e == Head(events)
           new == [kind |-> "reply", of |-> e, chain |-> chain]
<1>1. /\ events # <<>> /\ events' = Tail(events) /\ UNCHANGED <<conn, wire, buffer, line>>
      /\ stage[t] = "idle" /\ stage' = [stage EXCEPT ![t] = "lock"]
      /\ job' = [job EXCEPT ![t] = new]
  BY DEF Start, Begin, wVars
<1>2. /\ stage'[t] = "lock"
      /\ \A u \in Tasks : u # t => stage'[u] = stage[u] /\ job'[u] = job[u]
  BY <1>1, OneTask DEF Good
<1>3. job'[t].of = e
  BY <1>1 DEF Good, JobsGood
<1>4. UNCHANGED <<pc, read>> /\ Own' /\ Numbered(events') /\ Range(events') \subseteq Range(events)
  BY HandlersAside
<1>5. WireInOrder' /\ Buffered' /\ Handshake'
  BY <1>1, <1>4, Quiet, HandshakeStays
<1>6. Asking'
  <2>1. \A turn \in Range(line) : turn.by # t
    BY <1>1, NotInLine
  <2>2. QED BY <1>1, <1>2, <1>4, <2>1, AskingStays DEF Asking, OnceInLine
<1>7. e \in Range(events) /\ \A x \in Range(events') : x.frame # e.frame
  <2>1. e \in Range(events) /\ \A x \in Range(Tail(events)) : x.frame # e.frame
    BY <1>1, TailNumbered DEF Good, EventsGood, OnePlace, InRuntime
  <2>2. QED BY <1>1, <2>1
<1> HIDE DEF e
<1>8. Answered' = Answered /\ \A x : Known(x) => Known(x)'
  BY <1>1, <1>4 DEF Answered, Known
<1>9. InRuntime' /\ InReplies'
  BY <1>1, <1>4, <1>8 DEF OnePlace, InRuntime, InReplies
<1>10. WithTasks'
  <2>1. ASSUME NEW u \in Tasks, Pending(u)'
        PROVE  \E x : /\ x = job'[u].of /\ Known(x) /\ x.frame \notin Answered
                      /\ \A y \in Range(events') : y.frame # x.frame
                      /\ u # t => Pending(u) /\ x.frame # e.frame /\ x = job[u].of
                      /\ u = t => x = e
    <3>1. CASE u = t
      BY <1>3, <1>7, <3>1 DEF OnePlace, InRuntime
    <3>2. CASE u # t
      <4>1. Pending(u) /\ job'[u] = job[u]
        BY <1>2, <2>1, <3>2 DEF Pending
      <4>2. QED BY <1>4, <1>7, <3>2, <4>1 DEF OnePlace, WithTasks
    <3>3. QED BY <3>1, <3>2
  <2>2. \A u \in Tasks : Pending(u)' => Known(job[u].of)'
    <3>1. \A u \in Tasks : Pending(u)' => \E x : x = job'[u].of /\ Known(x)'
      BY <1>8, <2>1
    <3>2. QED BY <3>1 DEF Known
  <2>3. ASSUME NEW u \in Tasks, NEW v \in Tasks, Pending(u)', Pending(v)',
               job'[u].of.frame = job'[v].of.frame
        PROVE  u = v
    BY <2>1, <2>3 DEF OnePlace, WithTasks
  <2>4. \A u \in Tasks : Pending(u)' =>
          /\ job'[u].of.frame \notin Answered'
          /\ \A y \in Range(events') : y.frame # job'[u].of.frame
    BY <1>8, <2>1
  <2>5. QED BY <2>2, <2>3, <2>4 DEF WithTasks
<1> QED BY <1>4, <1>5, <1>6, <1>9, <1>10 DEF OnePlace

(* A method that gets as far as its reply asks for the writer.             *)
LEMMA RunStep ==
  ASSUME Good, HTypeOK, WInv, Handlers, NEW t \in Tasks, RunToReply(t)
  PROVE  WInv'
<1> USE DEF WInv
<1>1. CASE ~Sendable(job[t].chain)
  <2>1. stage[t] = "lock" /\ stage' = [stage EXCEPT ![t] = "failed"] /\ job' = job /\ UNCHANGED wVars
    BY <1>1 DEF RunToReply, Enter, wRest, wVars
  <2>2. QED BY <2>1, TaskAlone
<1>2. CASE Sendable(job[t].chain)
  <2> DEFINE frame == [kind |-> "reply", of |-> job[t].of,
                       message |-> Reply(job[t].of.event, job[t].chain)]
  <2>1. /\ stage[t] = "lock" /\ stage' = [stage EXCEPT ![t] = "reply"] /\ job' = job
        /\ Ask(t, frame) /\ UNCHANGED <<conn, wire, buffer>>
    BY <1>2 DEF RunToReply, Enter, wRest
  <2>2. /\ stage'[t] = "reply" /\ \A u \in Tasks : u # t => stage'[u] = stage[u]
    BY <2>1, OneTask DEF Good
  <2>3. UNCHANGED <<pc, read>> /\ Own' /\ Numbered(events') /\ Range(events') \subseteq Range(events)
    BY HandlersAside
  <2>4. WireInOrder' /\ Buffered' /\ Handshake'
    BY <2>1, <2>3, Quiet, HandshakeStays
  <2>5. frame.kind = "reply" /\ frame.of = job'[t].of
    BY <2>1
  <2> HIDE DEF frame
  <2>6. Asking'
    <3>1. \A turn \in Range(line) : turn.by # t
      BY <2>1, NotInLine
    <3>2. OnceInLine' /\ \A turn \in Range(line') :
                           turn \in Range(line) \/ turn = [by |-> t, frame |-> frame]
      BY <2>1, <3>1, LineJoined DEF Good, LineGood, Asking
    <3>3. \A turn : turn = [by |-> t, frame |-> frame] => HandlerTurn(turn)'
      BY <2>2, <2>5 DEF HandlerTurn
    <3>4. QED BY <2>1, <2>2, <2>3, <3>1, <3>2, <3>3, AskingStays
  <2>7. OnePlace'
    <3>1. Forth
      BY <2>1, <2>3 DEF Forth
    <3>2. \A u \in Tasks : Pending(u)' => Pending(u) /\ job'[u] = job[u]
      BY <2>1, <2>2 DEF Pending
    <3>3. QED BY <2>1, <2>3, <3>1, <3>2, OnePlaceStays
  <2>8. QED BY <2>3, <2>4, <2>6, <2>7
<1> QED BY <1>1, <1>2

(* A reply goes out, or its error comes back.                              *)
LEMMA ReplyStep ==
  ASSUME Good, HTypeOK, WInv, Handlers, NEW t \in Tasks, NEW ok \in BOOLEAN, ReplySent(t, ok)
  PROVE  WInv'
<1> USE DEF WInv
<1> DEFINE f == Head(line).frame
           at == IF ok THEN "rest" ELSE "failed"
<1>1. /\ stage[t] = "reply" /\ stage' = [stage EXCEPT ![t] = at] /\ job' = job
      /\ SendEnds(t, ok)
  BY DEF ReplySent, Replied
<1>2. stage'[t] \in {"rest", "failed"} /\ \A u \in Tasks : u # t => stage'[u] = stage[u]
  BY <1>1, OneTask DEF Good
<1>3. UNCHANGED <<pc, read, conn>> /\ Own' /\ Numbered(events') /\ Range(events') \subseteq Range(events)
  BY HandlersAside
<1>4. /\ Head(line) \in Range(line) /\ Head(line).by = t
      /\ OnceInLine' /\ \A turn \in Range(line') : turn \in Range(line) /\ turn.by # t
      /\ WireInOrder' /\ Buffered'
      /\ Range(wire) \subseteq Range(wire')
      /\ Range(wire') \subseteq Range(wire) \cup Range(buffer) \cup {f}
      /\ Range(buffer') \subseteq Range(buffer)
  BY <1>1, SendOrders
<1>5. f.kind = "reply" /\ f.of = job[t].of
  BY <1>4, ExchangeAssumption DEF Asking, AdapterTurn, BeatTurn, HandlerTurn
<1> HIDE DEF f
<1>6. Asking'
  BY <1>1, <1>2, <1>3, <1>4, AskingStays
<1>7. Handshake'
  BY <1>3, <1>4, <1>5, HandshakeStays DEF Buffered
<1>8. OnePlace'
  <2>1. Forth
    BY <1>3, <1>4 DEF Forth, SyncedIn
  <2>2. \A u \in Tasks : Pending(u)' => Pending(u) /\ job'[u] = job[u]
    BY <1>1, <1>2 DEF Pending
  <2>3. Pending(t) /\ ~Pending(t)'
    BY <1>1, <1>2 DEF Pending
  <2>4. QED BY <1>3, <1>4, <1>5, <2>1, <2>2, <2>3, OnePlaceStays
<1> QED BY <1>3, <1>4, <1>6, <1>7, <1>8

(* A timeout drops a handler, and with it a send that had begun.           *)
LEMMA ExpireStep ==
  ASSUME Good, HTypeOK, WInv, Handlers, NEW t \in Tasks, Expire(t)
  PROVE  WInv'
<1> USE DEF WInv
<1>1. stage' = [stage EXCEPT ![t] = "idle"] /\ job' = [job EXCEPT ![t] = Nothing]
  BY DEF Expire, Timeout, BreakOff
<1>2. CASE stage[t] # "reply"
  <2>1. UNCHANGED wVars
    BY <1>2 DEF Expire
  <2>2. QED BY <1>1, <1>2, <2>1, TaskAlone
<1>3. CASE stage[t] = "reply"
  <2>1. /\ stage'[t] = "idle"
        /\ \A u \in Tasks : u # t => stage'[u] = stage[u] /\ job'[u] = job[u]
    BY <1>1, OneTask DEF Good
  <2>2. UNCHANGED <<pc, read, conn>> /\ Own' /\ Numbered(events') /\ Range(events') \subseteq Range(events)
    BY HandlersAside
  <2>3. /\ OnceInLine' /\ \A turn \in Range(line') : turn \in Range(line) /\ turn.by # t
        /\ wire' = wire /\ Buffered'
        /\ \A g \in Range(buffer') : g \in Range(buffer) \/ g.of = job[t].of
    BY <1>3, DropOrders DEF Expire
  <2>4. WireInOrder' /\ Handshake'
    BY <2>2, <2>3, WireOrdered, HandshakeStays
  <2>5. Asking'
    BY <2>1, <2>2, <2>3, AskingStays
  <2>6. OnePlace'
    <3>1. Forth
      BY <2>2, <2>3 DEF Forth
    <3>2. \A u \in Tasks : Pending(u)' => Pending(u) /\ job'[u] = job[u]
      BY <2>1 DEF Pending
    <3>3. Pending(t) /\ ~Pending(t)'
      BY <1>3, <2>1 DEF Pending
    <3>4. QED BY <2>2, <2>3, <3>1, <3>2, <3>3, OnePlaceStays
  <2>7. QED BY <2>2, <2>3, <2>4, <2>5, <2>6
<1> QED BY <1>2, <1>3

(* The scheduler discards an event.                                        *)
LEMMA DiscardStep == ASSUME Good, WInv, Handlers, Discard PROVE WInv'
<1> USE DEF WInv
<1>1. UNCHANGED <<pc, read, conn, wire, buffer, line, stage, job>>
  BY DEF Discard, aVars, hVars, wVars
<1>2. Own' /\ Numbered(events') /\ Range(events') \subseteq Range(events)
  BY HandlersAside
<1>3. WireInOrder' /\ Buffered' /\ Handshake'
  BY <1>1, Quiet, HandshakeStays
<1>4. Asking'
  BY <1>1, AskingStays DEF Asking, OnceInLine
<1>5. OnePlace'
  BY <1>1, <1>2, OnePlaceStays DEF Forth, Pending
<1> QED BY <1>2, <1>3, <1>4, <1>5

(* The network, and steps that change nothing here.                        *)
LEMMA NetworkStep ==
  ASSUME WInv,
         \/ (Break \/ Stall \/ Resume) /\ UNCHANGED <<aVars, events, job, hVars>>
         \/ UNCHANGED vars
  PROVE  WInv'
<1> USE DEF WInv
<1>1. UNCHANGED <<pc, read, beating, conn, wire, buffer, line, stage, job, events>>
  BY DEF Break, Stall, Resume, aVars, hVars, wVars, vars
<1>2. {broken', stalled'} \subseteq BOOLEAN
  BY DEF Break, Stall, Resume, aVars, hVars, wVars, vars, Own
<1>3. Own'
  BY <1>1, <1>2 DEF Own
<1>4. WireInOrder' /\ Buffered' /\ Handshake'
  BY <1>1, Quiet, HandshakeStays
<1>5. Asking'
  BY <1>1, AskingStays DEF Asking, OnceInLine
<1>6. OnePlace'
  BY <1>1, OnePlaceStays DEF Forth, Pending, OnePlace, InRuntime
<1> QED BY <1>3, <1>4, <1>5, <1>6

LEMMA WStep == ASSUME Good, HTypeOK, WInv, [Next]_vars PROVE WInv'
<1>1. CASE Handlers
  <2>1. ASSUME NEW t \in Tasks, RunWithoutReply(t) PROVE WInv'
    <3>1. stage[t] = "lock" /\ stage' = [stage EXCEPT ![t] = "rest"] /\ job' = job /\ UNCHANGED wVars
      BY <2>1 DEF RunWithoutReply, Enter
    <3>2. QED BY <1>1, <3>1, TaskAlone
  <2>2. ASSUME NEW t \in Tasks, Return(t) PROVE WInv'
    <3>1. /\ stage[t] # "reply" /\ stage' = [stage EXCEPT ![t] = "idle"]
          /\ job' = [job EXCEPT ![t] = Nothing] /\ UNCHANGED wVars
      BY <2>2 DEF Return, Finish, ReturnError, BreakOff
    <3>2. QED BY <1>1, <3>1, TaskAlone
  <2>3. QED BY <1>1, <2>1, <2>2, StartStep, RunStep, ReplyStep, ExpireStep, DiscardStep DEF Handlers
<1>2. CASE \/ Opened \/ PauseEnds \/ ReadEnd \/ SinkReturns
           \/ \E ok \in BOOLEAN : GetToken(ok)
           \/ \E frame \in Frames : ReadFrame(frame)
  BY <1>2, AdapterAsks
<1>3. CASE BeatAsks \/ BeatTimesOut \/ \E ok \in BOOLEAN : BeatEnds(ok)
  BY <1>3, BeatStep
<1>4. CASE \E ok \in BOOLEAN : Registered(ok) \/ Synced(ok) \/ Acknowledged(ok)
  BY <1>4, AdapterWrites
<1>5. CASE Connected
  BY <1>5, ConnectedStep
<1>6. CASE \/ (Break \/ Stall \/ Resume) /\ UNCHANGED <<aVars, events, job, hVars>>
           \/ UNCHANGED vars
  BY <1>6, NetworkStep
<1> QED BY <1>1, <1>2, <1>3, <1>4, <1>5, <1>6 DEF Next

LEMMA WInvInit == Init => WInv
<1> SUFFICES ASSUME Init PROVE WInv
  OBVIOUS
<1>1. /\ pc = "down" /\ read = 0 /\ beating = FALSE /\ events = <<>> /\ conn = 0
      /\ broken = FALSE /\ stalled = FALSE /\ line = <<>> /\ buffer = <<>> /\ wire = <<>>
      /\ \A t \in Tasks : stage[t] = "idle"
  BY DEF Init, HInit, WInit
<1>2. Range(events) = {} /\ Range(line) = {} /\ Range(buffer) = {} /\ Range(wire) = {}
  BY <1>1, EmptyElements
<1>3. Own
  <2>1. 0 <= Capacity /\ 0 \in 0..MaxFrames /\ 0 \in 0..MaxConns
    BY ExchangeAssumption, WriterAssumption
  <2>2. Len(events) = 0
    BY <1>1
  <2>3. QED BY <1>1, <2>1, <2>2 DEF Own, PC, Handling
<1>4. Asking /\ Buffered /\ WireInOrder /\ Handshake
  BY <1>1, <1>2 DEF Asking, OnceInLine, Buffered, Distinct, WireInOrder, Handshake, Reading, Handling
<1>5. OnePlace
  BY <1>1, <1>2 DEF OnePlace, InRuntime, WithTasks, InReplies, Numbered, Pending
<1> QED BY <1>3, <1>4, <1>5 DEF WInv

LEMMA Writes == Spec => [](Good /\ HTypeOK /\ WInv)
<1>1. Spec => []HTypeOK
  BY ImplementsHandlers, TypeCorrect, PTL
<1>2. Init => Good
  BY EmptyElements
     DEF Init, HInit, WInit, Good, EventsGood, LineGood, SinkGood, JobsGood
<1> QED BY <1>1, <1>2, GoodStep, WStep, WInvInit, PTL DEF Spec

(* What goes out on a connection is in order, whatever the frames, the     *)
(* chains and the number of tasks and connections: no frame goes out       *)
(* twice, the ACKs are those of frames read on this connection in the      *)
(* order they were read, and before the handshake ended nothing answers a  *)
(* message of this connection.                                             *)
THEOREM WireIsInOrder == Spec => []WireInOrder
BY Writes, PTL DEF WInv

(* The conversation's variables keep their types; nobody is in the         *)
(* writer's line twice.                                                    *)
THEOREM ExchangeTypes == Spec => []TypeOK
<1>1. Good /\ HTypeOK /\ WInv => TypeOK
  <2> SUFFICES ASSUME Good, HTypeOK, WInv PROVE TypeOK
    OBVIOUS
  <2>1. \A turn \in Range(line) : turn.by \in Senders
    BY ExchangeAssumption DEF WInv, Asking, AdapterTurn, BeatTurn, HandlerTurn
  <2>2. \A i \in DOMAIN line : line[i] \in Range(line)
    BY DEF Range
  <2>3. QED BY <2>1, <2>2 DEF TypeOK, WInv, Own, Asking, OnceInLine
<1> QED BY <1>1, Writes, PTL
==============================================================================
