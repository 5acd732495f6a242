------------------------ MODULE RuntimeRouterProofs -------------------------
(***************************************************************************)
(* Proofs about RuntimeRouter for every set of callers, texts, plugins,    *)
(* handlers, and every bound.  A caller's arrivals reach the handlers of a *)
(* plugin in order (IInv); the hits of the route tables are the tells      *)
(* begun and to come (BInv); and in a regular layout every handler that an *)
(* arrival is addressed to runs for it exactly once (OInv).  What the      *)
(* route tables hold follows from SequenceLemmas.                          *)
(***************************************************************************)
EXTENDS RuntimeRouter, SequenceLemmas, FiniteSetTheorems

(* The plugins are numbered, and what they have is in sequences.           *)
LEMMA LayoutFacts ==
  ASSUME plugins \in Configurations
  PROVE  /\ \E n \in Nat : Plugins = 1..n
         /\ \A p \in Plugins :
              /\ IsSeq(plugins[p].messages) /\ IsSeq(plugins[p].events)
              /\ IsFiniteSet(DOMAIN plugins[p].messages)
              /\ IsFiniteSet(DOMAIN plugins[p].events)
              /\ \A h \in Range(plugins[p].messages) : IsSeq(h.pats)
<1>1. \E n \in Nat : Plugins = 1..n
  BY RouterAssumption, FS_CardinalityType
<1>2. ASSUME NEW p \in Plugins
      PROVE  /\ IsSeq(plugins[p].messages) /\ IsSeq(plugins[p].events)
             /\ \A h \in Range(plugins[p].messages) : IsSeq(h.pats)
  BY RouterAssumption DEF IsSeq
<1>3. ASSUME NEW s, IsSeq(s) PROVE IsFiniteSet(DOMAIN s)
  <2>1. DOMAIN s = 1..Len(s) /\ Len(s) \in Int
    BY <1>3, SeqFacts
  <2>2. QED BY <2>1, FS_Interval
<1>4. QED BY <1>1, <1>2, <1>3

(* The shapes the variables have, as far as the order needs them.          *)
Shapes ==
  /\ plugins \in Configurations
  /\ IsSeq(arrivals)
  /\ DOMAIN sending = Callers /\ DOMAIN mailbox = Plugins
  /\ DOMAIN busy = Plugins /\ DOMAIN ran = Plugins
  /\ \A c \in Callers :
       sending[c] = [arrival |-> sending[c].arrival, targets |-> sending[c].targets]
  /\ \A p \in Plugins :
       /\ IsSeq(mailbox[p]) /\ IsSeq(ran[p])
       /\ busy[p] = <<>> \/ busy[p] = <<busy[p][1]>>

(* Everything on its way, or over, is an arrival; a caller sends its own.  *)
Known ==
  /\ \A c \in Callers : sending[c] # Nobody =>
       /\ sending[c].arrival \in 1..Len(arrivals)
       /\ arrivals[sending[c].arrival].caller = c
  /\ \A p \in Plugins :
       /\ \A i \in 1..Len(mailbox[p]) : mailbox[p][i].arrival \in 1..Len(arrivals)
       /\ \A i \in 1..Len(ran[p]) : ran[p][i].arrival \in 1..Len(arrivals)
       /\ busy[p] # <<>> => busy[p][1].arrival \in 1..Len(arrivals)

(* Of two arrivals of one caller, the first is not the later one.          *)
InTurn(as, a, b) == as[a].caller = as[b].caller => a <= b

(* What a plugin has run, what it handles, what waits in its mailbox and   *)
(* what is being sent to it follow one another.                            *)
QueuesUp(p) ==
  /\ \A i, j \in 1..Len(mailbox[p]) :
       i < j => InTurn(arrivals, mailbox[p][i].arrival, mailbox[p][j].arrival)
  /\ \A i, j \in 1..Len(ran[p]) :
       i < j => InTurn(arrivals, ran[p][i].arrival, ran[p][j].arrival)
  /\ \A i \in 1..Len(ran[p]), j \in 1..Len(mailbox[p]) :
       InTurn(arrivals, ran[p][i].arrival, mailbox[p][j].arrival)
  /\ busy[p] # <<>> =>
       /\ \A i \in 1..Len(ran[p]) : InTurn(arrivals, ran[p][i].arrival, busy[p][1].arrival)
       /\ \A j \in 1..Len(mailbox[p]) : InTurn(arrivals, busy[p][1].arrival, mailbox[p][j].arrival)

SentLast(c, p) ==
  sending[c] # Nobody =>
    /\ \A i \in 1..Len(mailbox[p]) : InTurn(arrivals, mailbox[p][i].arrival, sending[c].arrival)
    /\ \A i \in 1..Len(ran[p]) : InTurn(arrivals, ran[p][i].arrival, sending[c].arrival)
    /\ busy[p] # <<>> => InTurn(arrivals, busy[p][1].arrival, sending[c].arrival)

IInv ==
  /\ Shapes /\ Known
  /\ \A p \in Plugins : QueuesUp(p) /\ \A c \in Callers : SentLast(c, p)
------------------------------------------------------------------------------
(* A new arrival is later than everything that is on its way.              *)
LEMMA ArriveKeeps ==
  ASSUME IInv, NEW c \in Callers, NEW kind, NEW what, NEW targets,
         Arrive(c, kind, what, targets)
  PROVE  IInv'
<1> DEFINE a == [kind |-> kind, what |-> what, caller |-> c]
           n == Len(arrivals)
<1>1. /\ IsSeq(arrivals') /\ n \in Nat /\ Len(arrivals') = n + 1
      /\ \A i \in 1..n : arrivals'[i] = arrivals[i]
      /\ arrivals'[n + 1] = a
  BY AppendFacts DEF Arrive, IInv, Shapes
<1>2. a.caller = c
  OBVIOUS
<1> HIDE DEF a
<1>3. /\ UNCHANGED <<plugins, mailbox, busy, ran>> /\ DOMAIN sending' = Callers
      /\ \A d \in Callers : d # c => sending'[d] = sending[d]
      /\ \/ sending'[c] = Nobody
         \/ sending'[c] = [arrival |-> n + 1, targets |-> targets]
  BY <1>1 DEF Arrive, IInv, Shapes
<1>4. Shapes'
  BY <1>1, <1>3 DEF IInv, Shapes, Nobody
<1>5. \A i \in 1..n : i \in 1..Len(arrivals') /\ arrivals'[i].caller = arrivals[i].caller
  BY <1>1
<1>6. Known'
  <2>1. \A p \in Plugins :
          /\ \A i \in 1..Len(mailbox[p]) : mailbox[p][i].arrival \in 1..n
          /\ \A i \in 1..Len(ran[p]) : ran[p][i].arrival \in 1..n
          /\ busy[p] # <<>> => busy[p][1].arrival \in 1..n
    BY DEF IInv, Known
  <2>2. \A d \in Callers : sending'[d] # Nobody =>
          sending'[d].arrival \in 1..Len(arrivals') /\ arrivals'[sending'[d].arrival].caller = d
    <3>1. ASSUME NEW d \in Callers, d # c, sending'[d] # Nobody
          PROVE  sending'[d].arrival \in 1..Len(arrivals') /\ arrivals'[sending'[d].arrival].caller = d
      <4>1. sending[d].arrival \in 1..n /\ arrivals[sending[d].arrival].caller = d
        BY <1>3, <3>1 DEF IInv, Known
      <4>2. QED BY <1>3, <1>5, <3>1, <4>1
    <3>2. CASE sending'[c] = [arrival |-> n + 1, targets |-> targets]
      BY <1>1, <1>2, <3>1, <3>2
    <3>3. QED BY <1>3, <3>1, <3>2
  <2>3. QED BY <1>3, <1>5, <2>1, <2>2 DEF Known
<1>7. \A i, j \in 1..n : InTurn(arrivals, i, j) => InTurn(arrivals', i, j)
  BY <1>5 DEF InTurn
<1>8. \A i \in 1..n : InTurn(arrivals', i, n + 1)
  BY <1>1 DEF InTurn
<1>9. ASSUME NEW p \in Plugins PROVE QueuesUp(p)'
  BY <1>3, <1>7, ZenonT(60) DEF IInv, Known, QueuesUp
<1>10. ASSUME NEW p \in Plugins, NEW d \in Callers PROVE SentLast(d, p)'
  <2>1. CASE d # c
    BY <1>3, <1>7, <2>1 DEF IInv, Known, SentLast
  <2>2. CASE d = c
    BY <1>3, <1>8, <2>2 DEF IInv, Known, SentLast
  <2>3. QED BY <2>1, <2>2
<1>11. QED BY <1>4, <1>6, <1>9, <1>10 DEF IInv

(* What Advance does to the callers: one has fewer targets left.           *)
LEMMA AdvanceFacts ==
  ASSUME IInv, NEW c \in Callers, sending[c] # Nobody, Advance(c)
  PROVE  /\ UNCHANGED <<plugins, arrivals, busy, ran>> /\ DOMAIN sending' = Callers
         /\ \A d \in Callers : d # c => sending'[d] = sending[d]
         /\ \/ sending'[c] = Nobody
            \/ /\ sending'[c].arrival = sending[c].arrival
               /\ sending'[c] = [arrival |-> sending'[c].arrival,
                                 targets |-> sending'[c].targets]
<1> DEFINE rest == Tail(sending[c].targets)
<1>1. sending' = [sending EXCEPT ![c] =
                    IF rest = <<>> THEN Nobody ELSE [sending[c] EXCEPT !.targets = rest]]
  BY DEF Advance
<1>2. sending[c] = [arrival |-> sending[c].arrival, targets |-> sending[c].targets]
      /\ DOMAIN sending = Callers
  BY DEF IInv, Shapes
<1> HIDE DEF rest
<1>3. [sending[c] EXCEPT !.targets = rest] = [arrival |-> sending[c].arrival, targets |-> rest]
  BY <1>2
<1>4. /\ DOMAIN sending' = Callers
      /\ \A d \in Callers : d # c => sending'[d] = sending[d]
      /\ sending'[c] = Nobody \/ sending'[c] = [arrival |-> sending[c].arrival, targets |-> rest]
  BY <1>1, <1>2, <1>3
<1>5. QED BY <1>4 DEF Advance

(* Callers that send less keep what was said of them.                      *)
LEMMA FewerSent ==
  ASSUME IInv, NEW c \in Callers, sending[c] # Nobody, Advance(c)
  PROVE  /\ \A d \in Callers :
              /\ sending'[d] = [arrival |-> sending'[d].arrival, targets |-> sending'[d].targets]
              /\ sending'[d] # Nobody =>
                   /\ sending'[d].arrival = sending[d].arrival /\ sending[d] # Nobody
                   /\ sending'[d].arrival \in 1..Len(arrivals')
                   /\ arrivals'[sending'[d].arrival].caller = d
<1>1. ASSUME NEW d \in Callers
      PROVE  /\ sending'[d] = [arrival |-> sending'[d].arrival, targets |-> sending'[d].targets]
             /\ sending'[d] # Nobody =>
                  sending'[d].arrival = sending[d].arrival /\ sending[d] # Nobody
  <2>1. CASE d # c
    BY <2>1, AdvanceFacts DEF IInv, Shapes
  <2>2. CASE d = c
    BY <2>2, AdvanceFacts DEF Nobody
  <2>3. QED BY <2>1, <2>2
<1>2. ASSUME NEW d \in Callers, sending[d] # Nobody
      PROVE  sending[d].arrival \in 1..Len(arrivals) /\ arrivals[sending[d].arrival].caller = d
  BY <1>2 DEF IInv, Known
<1>3. arrivals' = arrivals
  BY AdvanceFacts
<1>4. QED BY <1>1, <1>2, <1>3

(* A tell that is given up moves nothing.                                  *)
LEMMA TellStoppedKeeps ==
  ASSUME IInv, NEW c \in Callers, TellStopped(c)
  PROVE  IInv'
<1>1. sending[c] # Nobody /\ Advance(c) /\ mailbox' = mailbox
  BY DEF TellStopped
<1>2. UNCHANGED <<plugins, arrivals, busy, ran, mailbox>> /\ DOMAIN sending' = Callers
  BY <1>1, AdvanceFacts
<1>3. Shapes' /\ Known'
  BY <1>1, <1>2, FewerSent DEF IInv, Shapes, Known
<1>4. ASSUME NEW p \in Plugins PROVE QueuesUp(p)'
  BY <1>2, SMTT(60) DEF IInv, QueuesUp
<1>5. ASSUME NEW p \in Plugins, NEW d \in Callers PROVE SentLast(d, p)'
  BY <1>1, <1>2, FewerSent DEF IInv, SentLast
<1>6. QED BY <1>3, <1>4, <1>5 DEF IInv

(* What a caller sends goes behind everything it has sent before.          *)
LEMMA TellKeeps ==
  ASSUME IInv, NEW c \in Callers, Tell(c)
  PROVE  IInv'
<1> DEFINE q == Head(sending[c].targets).plugin
           a == sending[c].arrival
<1>1. /\ sending[c] # Nobody /\ Advance(c)
      /\ \E id : mailbox' = [mailbox EXCEPT ![q] = Append(@, [arrival |-> a, id |-> id])]
  BY DEF Tell
<1> HIDE DEF q
<1>2. /\ UNCHANGED <<plugins, arrivals, busy, ran>> /\ DOMAIN sending' = Callers
      /\ a \in 1..Len(arrivals) /\ arrivals[a].caller = c /\ Len(arrivals) \in Nat
  BY <1>1, AdvanceFacts, SeqFacts DEF IInv, Known, Shapes
<1>3. PICK msg : mailbox' = [mailbox EXCEPT ![q] = Append(@, msg)] /\ msg.arrival = a
  <2>1. \A id : [arrival |-> a, id |-> id].arrival = a
    OBVIOUS
  <2>2. QED BY <1>1, <2>1
<1>4. /\ DOMAIN mailbox' = Plugins
      /\ \A p \in Plugins : p # q => mailbox'[p] = mailbox[p]
      /\ q \in Plugins =>
           /\ IsSeq(mailbox'[q]) /\ Len(mailbox[q]) \in Nat
           /\ Len(mailbox'[q]) = Len(mailbox[q]) + 1
           /\ \A i \in 1..Len(mailbox[q]) : mailbox'[q][i] = mailbox[q][i]
           /\ mailbox'[q][Len(mailbox[q]) + 1] = msg
  BY <1>3, AppendFacts DEF IInv, Shapes
<1>5. \A p \in Plugins :
        /\ IsSeq(mailbox'[p]) /\ Len(mailbox[p]) \in Nat
        /\ \/ mailbox'[p] = mailbox[p]
           \/ /\ Len(mailbox'[p]) = Len(mailbox[p]) + 1
              /\ \A i \in 1..Len(mailbox[p]) : mailbox'[p][i] = mailbox[p][i]
              /\ mailbox'[p][Len(mailbox[p]) + 1].arrival = a
  BY <1>3, <1>4, SeqFacts DEF IInv, Shapes
<1>6. Shapes'
  BY <1>1, <1>2, <1>4, <1>5, FewerSent DEF IInv, Shapes
<1>7. Known'
  <2>1. ASSUME NEW p \in Plugins, NEW i \in 1..Len(mailbox'[p])
        PROVE  mailbox'[p][i].arrival \in 1..Len(arrivals')
    BY <1>2, <1>5, SMTT(60) DEF IInv, Known
  <2>2. QED BY <1>1, <1>2, <2>1, FewerSent DEF IInv, Known
<1>8. ASSUME NEW p \in Plugins
      PROVE  /\ \A i \in 1..Len(mailbox[p]) : InTurn(arrivals, mailbox[p][i].arrival, a)
             /\ \A i \in 1..Len(ran[p]) : InTurn(arrivals, ran[p][i].arrival, a)
             /\ busy[p] # <<>> => InTurn(arrivals, busy[p][1].arrival, a)
  BY <1>1 DEF IInv, SentLast
<1>9. ASSUME NEW p \in Plugins PROVE QueuesUp(p)'
  <2>1. CASE mailbox'[p] = mailbox[p]
    BY <1>2, <2>1 DEF IInv, QueuesUp
  <2>2. CASE /\ Len(mailbox'[p]) = Len(mailbox[p]) + 1
             /\ \A i \in 1..Len(mailbox[p]) : mailbox'[p][i] = mailbox[p][i]
             /\ mailbox'[p][Len(mailbox[p]) + 1].arrival = a
    <3>1. Len(mailbox[p]) \in Nat /\ QueuesUp(p)
      BY <1>5 DEF IInv
    <3>2. \A i, j \in 1..Len(mailbox'[p]) :
            i < j => InTurn(arrivals, mailbox'[p][i].arrival, mailbox'[p][j].arrival)
      <4>1. ASSUME NEW i \in 1..Len(mailbox'[p]), NEW j \in 1..Len(mailbox'[p]), i < j
            PROVE  InTurn(arrivals, mailbox'[p][i].arrival, mailbox'[p][j].arrival)
        <5>1. i \in 1..Len(mailbox[p]) /\ mailbox'[p][i] = mailbox[p][i]
          BY <2>2, <3>1, <4>1
        <5>2. CASE j \in 1..Len(mailbox[p])
          BY <2>2, <3>1, <4>1, <5>1, <5>2 DEF QueuesUp
        <5>3. CASE j = Len(mailbox[p]) + 1
          BY <1>8, <2>2, <5>1, <5>3
        <5>4. QED BY <2>2, <3>1, <5>2, <5>3
      <4>2. QED BY <4>1
    <3>3. \A i \in 1..Len(ran[p]), j \in 1..Len(mailbox'[p]) :
            InTurn(arrivals, ran[p][i].arrival, mailbox'[p][j].arrival)
      BY <1>8, <2>2, <3>1, SMTT(60) DEF QueuesUp
    <3>4. busy[p] # <<>> => \A j \in 1..Len(mailbox'[p]) :
            InTurn(arrivals, busy[p][1].arrival, mailbox'[p][j].arrival)
      BY <1>8, <2>2, <3>1, SMTT(60) DEF QueuesUp
    <3>5. QED BY <1>2, <3>1, <3>2, <3>3, <3>4 DEF QueuesUp
  <2>3. QED BY <1>5, <2>1, <2>2
<1>10. ASSUME NEW p \in Plugins, NEW d \in Callers PROVE SentLast(d, p)'
  <2>1. SUFFICES ASSUME sending'[d] # Nobody PROVE SentLast(d, p)'
    BY DEF SentLast
  <2>2. /\ sending[d] # Nobody /\ sending'[d].arrival = sending[d].arrival
        /\ sending[d].arrival \in 1..Len(arrivals)
        /\ arrivals[sending[d].arrival].caller = d
    BY <1>1, <1>2, <2>1, FewerSent
  <2>3. InTurn(arrivals, a, sending[d].arrival)
    BY <1>2, <2>2 DEF InTurn
  <2>4. SentLast(d, p)
    BY DEF IInv
  <2>5. \A i \in 1..Len(mailbox'[p]) : InTurn(arrivals, mailbox'[p][i].arrival, sending[d].arrival)
    <3>1. ASSUME NEW i \in 1..Len(mailbox'[p])
          PROVE  InTurn(arrivals, mailbox'[p][i].arrival, sending[d].arrival)
      <4>1. CASE i \in 1..Len(mailbox[p]) /\ mailbox'[p][i] = mailbox[p][i]
        BY <2>2, <2>4, <4>1 DEF SentLast
      <4>2. CASE mailbox'[p][i].arrival = a
        BY <2>3, <4>2
      <4>3. QED BY <1>5, <4>1, <4>2
    <3>2. QED BY <3>1
  <2>6. QED BY <1>2, <2>2, <2>4, <2>5 DEF SentLast
<1>11. QED BY <1>6, <1>7, <1>9, <1>10 DEF IInv

(* The head of the mailbox is the next one to be handled.                  *)
LEMMA ReceiveKeeps ==
  ASSUME IInv, NEW q \in Plugins, Receive(q)
  PROVE  IInv'
<1>1. /\ UNCHANGED <<plugins, arrivals, sending, ran>>
      /\ busy[q] = <<>> /\ mailbox[q] # <<>> /\ IsSeq(mailbox[q])
      /\ DOMAIN mailbox' = Plugins /\ DOMAIN busy' = Plugins
      /\ busy'[q] = <<Head(mailbox[q])>> /\ mailbox'[q] = Tail(mailbox[q])
      /\ \A p \in Plugins : p # q => busy'[p] = busy[p] /\ mailbox'[p] = mailbox[p]
  BY DEF Receive, IInv, Shapes
<1>2. /\ IsSeq(mailbox'[q]) /\ Len(mailbox[q]) \in Nat \ {0}
      /\ Len(mailbox'[q]) = Len(mailbox[q]) - 1
      /\ busy'[q] # <<>> /\ busy'[q] = <<busy'[q][1]>> /\ busy'[q][1] = mailbox[q][1]
      /\ \A i \in 1..Len(mailbox'[q]) :
           mailbox'[q][i] = mailbox[q][i + 1] /\ i + 1 \in 1..Len(mailbox[q])
      /\ 1 \in 1..Len(mailbox[q])
  BY <1>1, TailFacts
<1>3. Shapes'
  BY <1>1, <1>2 DEF IInv, Shapes
<1>4. Known'
  BY <1>1, <1>2, SMTT(60) DEF IInv, Known
<1>5. ASSUME NEW p \in Plugins PROVE QueuesUp(p)'
  <2>1. CASE p # q
    BY <1>1, <2>1 DEF IInv, QueuesUp
  <2>2. CASE p = q
    <3>1. QueuesUp(q)
      BY DEF IInv
    <3>2. \A i, j \in 1..Len(mailbox'[q]) :
            i < j => InTurn(arrivals, mailbox'[q][i].arrival, mailbox'[q][j].arrival)
      <4>1. ASSUME NEW i \in 1..Len(mailbox'[q]), NEW j \in 1..Len(mailbox'[q]), i < j
            PROVE  InTurn(arrivals, mailbox'[q][i].arrival, mailbox'[q][j].arrival)
        <5>1. /\ i + 1 \in 1..Len(mailbox[q]) /\ mailbox'[q][i] = mailbox[q][i + 1]
              /\ j + 1 \in 1..Len(mailbox[q]) /\ mailbox'[q][j] = mailbox[q][j + 1]
          BY <1>2
        <5>2. InTurn(arrivals, mailbox[q][i + 1].arrival, mailbox[q][j + 1].arrival)
          BY <3>1, <4>1, <5>1 DEF QueuesUp
        <5>3. QED BY <5>1, <5>2
      <4>2. QED BY <4>1
    <3>3. ASSUME NEW i \in 1..Len(ran[q]), NEW j \in 1..Len(mailbox'[q])
          PROVE  InTurn(arrivals, ran[q][i].arrival, mailbox'[q][j].arrival)
      <4>1. mailbox'[q][j] = mailbox[q][j + 1] /\ j + 1 \in 1..Len(mailbox[q])
        BY <1>2
      <4>2. QED BY <3>1, <4>1 DEF QueuesUp
    <3>4. ASSUME NEW i \in 1..Len(ran[q])
          PROVE  InTurn(arrivals, ran[q][i].arrival, busy'[q][1].arrival)
      BY <1>2, <3>1 DEF QueuesUp
    <3>5. ASSUME NEW j \in 1..Len(mailbox'[q])
          PROVE  InTurn(arrivals, busy'[q][1].arrival, mailbox'[q][j].arrival)
      <4>1. /\ mailbox'[q][j] = mailbox[q][j + 1] /\ j + 1 \in 1..Len(mailbox[q])
            /\ 1 < j + 1 /\ busy'[q][1] = mailbox[q][1] /\ 1 \in 1..Len(mailbox[q])
        BY <1>2
      <4>2. InTurn(arrivals, mailbox[q][1].arrival, mailbox[q][j + 1].arrival)
        <5>1. \A k, l \in 1..Len(mailbox[q]) :
                k < l => InTurn(arrivals, mailbox[q][k].arrival, mailbox[q][l].arrival)
          BY <3>1 DEF QueuesUp
        <5>2. PICK k, l \in 1..Len(mailbox[q]) : k = 1 /\ l = j + 1 /\ k < l
          BY <4>1
        <5>3. InTurn(arrivals, mailbox[q][k].arrival, mailbox[q][l].arrival)
          BY <5>1, <5>2
        <5>4. QED BY <5>2, <5>3
      <4>3. QED BY <4>1, <4>2
    <3>6. arrivals' = arrivals /\ ran' = ran
      BY <1>1
    <3>7. \A i, j \in 1..Len(ran[q]) : i < j => InTurn(arrivals, ran[q][i].arrival, ran[q][j].arrival)
      BY <3>1 DEF QueuesUp
    <3>8. QED BY <2>2, <3>2, <3>3, <3>4, <3>5, <3>6, <3>7 DEF QueuesUp
  <2>3. QED BY <2>1, <2>2
<1>6. ASSUME NEW p \in Plugins, NEW d \in Callers PROVE SentLast(d, p)'
  <2>1. CASE p # q
    BY <1>1, <2>1 DEF IInv, SentLast
  <2>2. CASE p = q
    BY <1>1, <1>2, <2>2 DEF IInv, SentLast
  <2>3. QED BY <2>1, <2>2
<1>7. QED BY <1>3, <1>4, <1>5, <1>6 DEF IInv

(* What a message runs all carries the message's arrival.                  *)
LEMMA RunnableFacts ==
  ASSUME IInv, NEW p \in Plugins, busy[p] # <<>>
  PROVE  /\ IsSeq(Runnable(p)) /\ Len(Runnable(p)) \in Nat
         /\ \A i \in 1..Len(Runnable(p)) : Runnable(p)[i].arrival = busy[p][1].arrival
<1> DEFINE ks == IF arrivals[busy[p][1].arrival].kind = "message"
                 THEN Matched(p, busy[p][1]) ELSE MatchedEvents(p, busy[p][1])
           n == Cardinality(ks)
           a == busy[p][1].arrival
           E == {[arrival |-> a, handler |-> Nth(ks, i)] : i \in 1..n}
<1>1. n \in Nat
  <2>1. IsFiniteSet(DOMAIN plugins[p].messages) /\ IsFiniteSet(DOMAIN plugins[p].events)
    BY LayoutFacts DEF IInv, Shapes
  <2>2. \/ ks \subseteq DOMAIN plugins[p].messages
        \/ ks \subseteq DOMAIN plugins[p].events
    BY DEF Matched, HandlerIndex, MatchedEvents
  <2>3. IsFiniteSet(ks)
    BY <2>1, <2>2, FS_Subset
  <2>4. QED BY <2>3, FS_CardinalityType
<1>2. Runnable(p) = [i \in 1..n |-> [arrival |-> a, handler |-> Nth(ks, i)]]
  BY DEF Runnable
<1> HIDE DEF ks, n, a
<1>3. Runnable(p) \in Seq(E) /\ \A i \in 1..n : Runnable(p)[i].arrival = a
  BY <1>1, <1>2
<1>4. Len(Runnable(p)) = n
  BY <1>1, <1>2, <1>3, LenProperties
<1>5. QED BY <1>1, <1>3, <1>4 DEF IsSeq, a

(* A message that is over, done or not, leaves what it has run in order.   *)
LEMMA OverKeeps ==
  ASSUME IInv, NEW q \in Plugins, busy[q] # <<>>, NEW done, IsSeq(done),
         \A i \in 1..Len(done) : done[i].arrival = busy[q][1].arrival,
         UNCHANGED <<plugins, arrivals, sending>>,
         ran' = [ran EXCEPT ![q] = @ \o done],
         busy' = [busy EXCEPT ![q] = <<>>],
         mailbox' = mailbox \/ mailbox' = [mailbox EXCEPT ![q] = <<>>]
  PROVE  IInv'
<1> DEFINE a == busy[q][1].arrival
           n == Len(ran[q])
<1>1. /\ DOMAIN mailbox' = Plugins /\ DOMAIN busy' = Plugins /\ DOMAIN ran' = Plugins
      /\ \A p \in Plugins : p # q => /\ busy'[p] = busy[p] /\ mailbox'[p] = mailbox[p]
                                     /\ ran'[p] = ran[p]
      /\ busy'[q] = <<>> /\ ran'[q] = ran[q] \o done
      /\ IsSeq(ran[q])
      /\ \/ mailbox'[q] = mailbox[q] /\ IsSeq(mailbox[q])
         \/ mailbox'[q] = <<>>
  BY DEF IInv, Shapes
<1>2. /\ IsSeq(ran'[q]) /\ n \in Nat /\ Len(ran'[q]) \in Nat
      /\ \A i \in 1..Len(ran'[q]) :
           \/ i \in 1..n /\ ran'[q][i] = ran[q][i]
           \/ i > n /\ ran'[q][i].arrival = a
  <2>1. /\ IsSeq(ran[q] \o done) /\ n \in Nat /\ Len(done) \in Nat
        /\ Len(ran[q] \o done) = n + Len(done)
        /\ \A i \in 1..Len(ran[q] \o done) :
             (ran[q] \o done)[i] = IF i <= n THEN ran[q][i] ELSE done[i - n]
    BY <1>1, ConcatFacts
  <2>2. \A i \in 1..n + Len(done) : i > n => i - n \in 1..Len(done)
    BY <2>1
  <2>3. QED BY <1>1, <2>1, <2>2
<1>3. IsSeq(mailbox'[q]) /\ \A j \in 1..Len(mailbox'[q]) :
        j \in 1..Len(mailbox[q]) /\ mailbox'[q][j] = mailbox[q][j]
  BY <1>1, SeqFacts
<1>4. Shapes'
  BY <1>1, <1>2, <1>3 DEF IInv, Shapes
<1>5. a \in 1..Len(arrivals) /\ QueuesUp(q)
  BY DEF IInv, Known
<1>6. Known'
  <2>1. ASSUME NEW p \in Plugins
        PROVE  /\ \A i \in 1..Len(mailbox'[p]) : mailbox'[p][i].arrival \in 1..Len(arrivals)
               /\ \A i \in 1..Len(ran'[p]) : ran'[p][i].arrival \in 1..Len(arrivals)
               /\ busy'[p] # <<>> => busy'[p][1].arrival \in 1..Len(arrivals)
    <3>1. CASE p # q
      BY <1>1, <3>1 DEF IInv, Known
    <3>2. CASE p = q
      BY <1>1, <1>2, <1>3, <1>5, <3>2, SMTT(60) DEF IInv, Known
    <3>3. QED BY <3>1, <3>2
  <2>2. QED BY <2>1 DEF IInv, Known
<1>7. InTurn(arrivals, a, a)
  BY <1>5, SeqFacts DEF InTurn, IInv, Shapes
<1>8. /\ \A i \in 1..n : InTurn(arrivals, ran[q][i].arrival, a)
      /\ \A j \in 1..Len(mailbox[q]) : InTurn(arrivals, a, mailbox[q][j].arrival)
  BY <1>5 DEF QueuesUp
<1>9. ASSUME NEW p \in Plugins PROVE QueuesUp(p)'
  <2>1. CASE p # q
    BY <1>1, <2>1 DEF IInv, QueuesUp
  <2>2. CASE p = q
    <3>1. \A i, j \in 1..Len(mailbox'[q]) :
            i < j => InTurn(arrivals, mailbox'[q][i].arrival, mailbox'[q][j].arrival)
      BY <1>3, <1>5 DEF QueuesUp
    <3>2. ASSUME NEW i \in 1..Len(ran'[q]), NEW j \in 1..Len(ran'[q]), i < j
          PROVE  InTurn(arrivals, ran'[q][i].arrival, ran'[q][j].arrival)
      <4>1. CASE i \in 1..n /\ ran'[q][i] = ran[q][i] /\ j \in 1..n /\ ran'[q][j] = ran[q][j]
        BY <1>5, <3>2, <4>1 DEF QueuesUp
      <4>2. CASE i \in 1..n /\ ran'[q][i] = ran[q][i] /\ ran'[q][j].arrival = a
        BY <1>8, <4>2
      <4>3. CASE ran'[q][i].arrival = a /\ ran'[q][j].arrival = a
        BY <1>7, <4>3
      <4>4. QED BY <1>2, <3>2, <4>1, <4>2, <4>3
    <3>3. ASSUME NEW i \in 1..Len(ran'[q]), NEW j \in 1..Len(mailbox'[q])
          PROVE  InTurn(arrivals, ran'[q][i].arrival, mailbox'[q][j].arrival)
      <4>1. CASE i \in 1..n /\ ran'[q][i] = ran[q][i]
        BY <1>3, <1>5, <4>1 DEF QueuesUp
      <4>2. CASE ran'[q][i].arrival = a
        BY <1>3, <1>8, <4>2
      <4>3. QED BY <1>2, <4>1, <4>2
    <3>4. QED BY <1>1, <2>2, <3>1, <3>2, <3>3, SMTT(60) DEF QueuesUp
  <2>3. QED BY <2>1, <2>2
<1>10. ASSUME NEW p \in Plugins, NEW d \in Callers PROVE SentLast(d, p)'
  <2>1. CASE p # q
    BY <1>1, <2>1 DEF IInv, SentLast
  <2>2. CASE p = q
    BY <1>1, <1>2, <1>3, <2>2 DEF IInv, SentLast
  <2>3. QED BY <2>1, <2>2
<1>11. QED BY <1>4, <1>6, <1>9, <1>10 DEF IInv

(* Handling and a panic end the message.                                   *)
LEMMA HandleKeeps ==
  ASSUME IInv, NEW p \in Plugins, Handle(p) \/ Panic(p)
  PROVE  IInv'
<1>1. /\ busy[p] # <<>> /\ UNCHANGED <<plugins, arrivals, sending>>
      /\ busy' = [busy EXCEPT ![p] = <<>>]
      /\ mailbox' = mailbox \/ mailbox' = [mailbox EXCEPT ![p] = <<>>]
  BY DEF Handle, Panic
<1>2. /\ IsSeq(Runnable(p)) /\ Len(Runnable(p)) \in Nat
      /\ \A i \in 1..Len(Runnable(p)) : Runnable(p)[i].arrival = busy[p][1].arrival
  BY <1>1, RunnableFacts
<1>3. \E done :
        /\ IsSeq(done) /\ \A i \in 1..Len(done) : done[i].arrival = busy[p][1].arrival
        /\ ran' = [ran EXCEPT ![p] = @ \o done]
  <2>1. CASE Handle(p)
    BY <1>2, <2>1 DEF Handle
  <2>2. CASE Panic(p)
    <3>1. CASE ran' = [ran EXCEPT ![p] = @ \o <<>>]
      <4>1. IsSeq(<<>>) /\ \A i \in 1..Len(<<>>) : <<>>[i].arrival = busy[p][1].arrival
        BY SeqFacts
      <4>2. QED BY <3>1, <4>1
    <3>2. ASSUME NEW n \in 1..(Len(Runnable(p)) - 1),
                 ran' = [ran EXCEPT ![p] = @ \o SubSeq(Runnable(p), 1, n)]
          PROVE  \E done :
                   /\ IsSeq(done)
                   /\ \A i \in 1..Len(done) : done[i].arrival = busy[p][1].arrival
                   /\ ran' = [ran EXCEPT ![p] = @ \o done]
      <4>1. PICK S : Runnable(p) \in Seq(S)
        BY <1>2 DEF IsSeq
      <4>2. n \in Int /\ 1 <= n /\ \A i \in 1..n : Runnable(p)[i] \in S /\ i \in 1..Len(Runnable(p))
        BY <1>2, <4>1, ElementOfSeq
      <4>3. /\ SubSeq(Runnable(p), 1, n) \in Seq(S)
            /\ Len(SubSeq(Runnable(p), 1, n)) = n
            /\ \A i \in 1..n : SubSeq(Runnable(p), 1, n)[i] = Runnable(p)[i]
        <5>1. /\ SubSeq(Runnable(p), 1, n) \in Seq(S)
              /\ Len(SubSeq(Runnable(p), 1, n)) = (IF 1 <= n THEN n - 1 + 1 ELSE 0)
              /\ \A i \in 1..n - 1 + 1 : SubSeq(Runnable(p), 1, n)[i] = Runnable(p)[1 + i - 1]
          BY <4>2, SubSeqProperties
        <5>2. \A i \in 1..n : 1 + i - 1 = i
          OBVIOUS
        <5>3. n - 1 + 1 = n
          BY <4>2
        <5>4. QED BY <4>2, <5>1, <5>2, <5>3
      <4>4. QED BY <1>2, <3>2, <4>2, <4>3 DEF IsSeq
    <3>3. QED BY <2>2, <3>1, <3>2 DEF Panic
  <2>3. QED BY <2>1, <2>2
<1>4. QED BY <1>1, <1>3, OverKeeps

(* Every step keeps the order of what is on its way.                       *)
LEMMA OrderStep == IInv /\ [Next]_vars => IInv'
<1> SUFFICES ASSUME IInv, [Next]_vars PROVE IInv'
  OBVIOUS
<1>1. ASSUME NEW c \in Callers, \E text \in Texts : DispatchMessage(c, text) PROVE IInv'
  BY <1>1, ArriveKeeps DEF DispatchMessage
<1>2. ASSUME NEW c \in Callers, \E type \in EventTypes : DispatchSystem(c, type) PROVE IInv'
  BY <1>2, ArriveKeeps DEF DispatchSystem
<1>3. ASSUME NEW c \in Callers, Caller(c) PROVE IInv'
  BY <1>3, TellKeeps, TellStoppedKeeps DEF Caller
<1>4. ASSUME NEW p \in Plugins, Actor(p) PROVE IInv'
  BY <1>4, ReceiveKeeps, HandleKeeps DEF Actor
<1>5. CASE UNCHANGED vars
  BY <1>5 DEF vars, IInv, Shapes, Known, QueuesUp, SentLast
<1>6. QED BY <1>1, <1>2, <1>3, <1>4, <1>5 DEF Next

(* A behaviour begins in order: nothing is on its way.                     *)
LEMMA OrderInit == Init => IInv
<1> SUFFICES ASSUME Init PROVE IInv
  OBVIOUS
<1>1. Shapes
  BY SeqFacts DEF Init, Shapes, Nobody
<1>2. \A p \in Plugins : Len(mailbox[p]) = 0 /\ Len(ran[p]) = 0 /\ busy[p] = <<>>
  BY SeqFacts DEF Init
<1>3. \A c \in Callers : sending[c] = Nobody
  BY DEF Init
<1>4. QED BY <1>1, <1>2, <1>3 DEF IInv, Known, QueuesUp, SentLast

(* A caller's arrivals reach the handlers of each plugin in the order they *)
(* came, whatever the tables, the mailboxes and the other callers do.      *)
THEOREM ArrivalsInOrder == Spec => []InOrder
<1>1. IInv => InOrder
  <2> SUFFICES ASSUME IInv, NEW p \in Plugins, NEW i \in DOMAIN ran[p], NEW j \in DOMAIN ran[p],
                      i < j,
                      arrivals[ran[p][i].arrival].caller = arrivals[ran[p][j].arrival].caller
               PROVE  ran[p][i].arrival <= ran[p][j].arrival
    BY DEF InOrder
  <2>1. i \in 1..Len(ran[p]) /\ j \in 1..Len(ran[p])
    BY SeqFacts DEF IInv, Shapes
  <2>2. QED BY <2>1 DEF IInv, QueuesUp, InTurn
<1>2. QED BY <1>1, OrderInit, OrderStep, PTL DEF Spec
------------------------------------------------------------------------------
(* The tables, a handler at a time.                                        *)
EntriesOf(stage, p, k) ==
  IF StageOf(plugins[p].messages[k].route) = stage
  THEN Entries(p, plugins[p].messages[k]) ELSE <<>>

PluginTable(stage, p) ==
  FlattenSeq([k \in DOMAIN plugins[p].messages |-> EntriesOf(stage, p, k)])

(* The entries of a handler are a sequence.                                *)
LEMMA EntriesSeq ==
  ASSUME plugins \in Configurations, NEW stage, NEW p \in Plugins,
         NEW k \in DOMAIN plugins[p].messages
  PROVE  IsSeq(EntriesOf(stage, p, k))
<1> DEFINE h == plugins[p].messages[k]
           entry(i) == [pattern |-> h.pats[i], target |-> Target(p, h.id)]
           es == [i \in 1..Len(h.pats) |-> entry(i)]
<1>1. h \in Range(plugins[p].messages)
  BY DEF Range
<1>2. IsSeq(h.pats)
  BY <1>1, LayoutFacts
<1>3. Len(h.pats) \in Nat /\ DOMAIN h.pats = 1..Len(h.pats)
  BY <1>2, SeqFacts
<1>4. es = [i \in 1..Len(h.pats) |-> es[i]]
  OBVIOUS
<1>5. IsSeq(es)
  BY <1>3, <1>4, FunctionIsSeq
<1>6. IsSeq(<< [pattern |-> "", target |-> Target(p, h.id)] >>)
  <2>1. \A x : <<x>> \in Seq({x})
    OBVIOUS
  <2>2. QED BY <2>1 DEF IsSeq
<1>7. Entries(p, h) = es \/ Entries(p, h) = << [pattern |-> "", target |-> Target(p, h.id)] >>
  BY <1>3 DEF Entries
<1>8. QED BY <1>5, <1>6, <1>7, SeqFacts DEF EntriesOf

(* A table has the entries of all handlers of its stage, and each once if  *)
(* the handlers do not share any.                                          *)
LEMMA TableFacts ==
  ASSUME plugins \in Configurations, NEW stage
  PROVE  /\ IsSeq(Table(stage))
         /\ \A e : e \in Range(Table(stage)) <=>
              \E p \in Plugins : \E k \in DOMAIN plugins[p].messages :
                e \in Range(EntriesOf(stage, p, k))
         /\ /\ \A p \in Plugins : \A k \in DOMAIN plugins[p].messages :
                 IsInjective(EntriesOf(stage, p, k))
            /\ \A p, q \in Plugins :
                 \A j \in DOMAIN plugins[p].messages, k \in DOMAIN plugins[q].messages :
                   <<p, j>> # <<q, k>> =>
                     Range(EntriesOf(stage, p, j)) \cap Range(EntriesOf(stage, q, k)) = {}
            => IsInjective(Table(stage))
<1> DEFINE Alone == \A p \in Plugins : \A k \in DOMAIN plugins[p].messages :
                      IsInjective(EntriesOf(stage, p, k))
           Apart == \A p, q \in Plugins :
                      \A j \in DOMAIN plugins[p].messages, k \in DOMAIN plugins[q].messages :
                        <<p, j>> # <<q, k>> =>
                          Range(EntriesOf(stage, p, j)) \cap Range(EntriesOf(stage, q, k)) = {}
<1>1. ASSUME NEW p \in Plugins
      PROVE  /\ IsSeq(PluginTable(stage, p))
             /\ \A e : e \in Range(PluginTable(stage, p)) <=>
                  \E k \in DOMAIN plugins[p].messages : e \in Range(EntriesOf(stage, p, k))
             /\ Alone /\ Apart => IsInjective(PluginTable(stage, p))
  <2> DEFINE n == Len(plugins[p].messages)
             ss == [k \in 1..n |-> EntriesOf(stage, p, k)]
  <2>1. n \in Nat /\ DOMAIN plugins[p].messages = 1..n
    BY LayoutFacts, SeqFacts
  <2>2. ss = [k \in 1..n |-> ss[k]] /\ \A k \in 1..n : ss[k] = EntriesOf(stage, p, k)
    OBVIOUS
  <2>3. PluginTable(stage, p) = FlattenSeq(ss)
    BY <2>1 DEF PluginTable
  <2> HIDE DEF n, ss
  <2>4. IsSeq(ss) /\ Len(ss) = n
    BY <2>1, <2>2, FunctionIsSeq
  <2>5. \A k \in 1..n : IsSeq(ss[k])
    BY <2>1, <2>2, EntriesSeq
  <2>6. /\ IsSeq(FlattenSeq(ss))
        /\ Range(FlattenSeq(ss)) = UNION {Range(ss[i]) : i \in 1..n}
        /\ Disjointly(ss) => IsInjective(FlattenSeq(ss))
    BY <2>4, <2>5, FlattenFacts
  <2>7. ASSUME Alone, Apart PROVE Disjointly(ss)
    <3>1. ASSUME NEW j \in 1..n, NEW k \in 1..n, j # k
          PROVE  Range(ss[j]) \cap Range(ss[k]) = {}
      BY <2>1, <2>2, <2>7, <3>1
    <3>2. \A k \in 1..n : IsInjective(ss[k])
      BY <2>1, <2>2, <2>7
    <3>3. QED BY <2>4, <3>1, <3>2 DEF Disjointly
  <2>8. \A e : e \in UNION {Range(ss[i]) : i \in 1..n} <=>
               \E k \in 1..n : e \in Range(EntriesOf(stage, p, k))
    BY <2>2
  <2>9. QED BY <2>1, <2>3, <2>6, <2>7, <2>8
<1> DEFINE tt == [p \in Plugins |-> PluginTable(stage, p)]
<1>2. Table(stage) = FlattenSeq(tt)
  BY DEF Table, PluginTable, EntriesOf
<1>3. PICK n \in Nat : Plugins = 1..n
  BY LayoutFacts
<1>4. tt = [p \in 1..n |-> tt[p]] /\ \A p \in Plugins : tt[p] = PluginTable(stage, p)
  BY <1>3
<1> HIDE DEF tt
<1>5. IsSeq(tt) /\ Len(tt) = n
  BY <1>4, FunctionIsSeq
<1>6. \A p \in 1..n : IsSeq(tt[p])
  BY <1>1, <1>3, <1>4
<1>7. /\ IsSeq(FlattenSeq(tt))
      /\ Range(FlattenSeq(tt)) = UNION {Range(tt[p]) : p \in 1..n}
      /\ Disjointly(tt) => IsInjective(FlattenSeq(tt))
  BY <1>5, <1>6, FlattenFacts
<1>8. ASSUME Alone, Apart PROVE Disjointly(tt)
  <2>1. ASSUME NEW p \in 1..n, NEW q \in 1..n, p # q
        PROVE  Range(tt[p]) \cap Range(tt[q]) = {}
    <3>1. ASSUME NEW e \in Range(tt[p]), e \in Range(tt[q]) PROVE FALSE
      <4>1. PICK j \in DOMAIN plugins[p].messages : e \in Range(EntriesOf(stage, p, j))
        BY <1>1, <1>3, <1>4
      <4>2. PICK k \in DOMAIN plugins[q].messages : e \in Range(EntriesOf(stage, q, k))
        BY <1>1, <1>3, <1>4, <3>1
      <4>3. <<p, j>> # <<q, k>>
        BY <2>1
      <4>4. QED BY <1>3, <1>8, <4>1, <4>2, <4>3
    <3>2. QED BY <3>1
  <2>2. \A p \in 1..n : IsInjective(tt[p])
    BY <1>1, <1>3, <1>4, <1>8
  <2>3. QED BY <1>5, <2>1, <2>2 DEF Disjointly
<1>9. \A e : e \in Range(Table(stage)) <=>
        \E p \in Plugins : \E k \in DOMAIN plugins[p].messages : e \in Range(EntriesOf(stage, p, k))
  <2>1. ASSUME NEW e
        PROVE  e \in UNION {Range(tt[p]) : p \in 1..n} <=> \E p \in Plugins : e \in Range(tt[p])
    BY <1>3
  <2>2. QED BY <1>1, <1>2, <1>4, <1>7, <2>1
<1>10. QED BY <1>2, <1>7, <1>8, <1>9

------------------------------------------------------------------------------
(* The targets of a message are as many as the hits of the four tables.    *)
LEMMA TargetsAddUp ==
  ASSUME plugins \in Configurations, NEW text
  PROVE  /\ \A stage \in Range(Stages) : IsSeq(Hits(stage, text)) /\ Len(Hits(stage, text)) \in Nat
         /\ IsSeq(Targets(text))
         /\ Len(Targets(text)) = Len(Hits("exact", text)) + Len(Hits("prefix", text))
                                 + Len(Hits("keyword", text)) + Len(Hits("fallback", text))
<1>1. \A stage : IsSeq(Hits(stage, text)) /\ Len(Hits(stage, text)) \in Nat
  BY TableFacts, KeptFacts, SeqFacts DEF Hits
<1> DEFINE ss == [s \in 1..4 |-> Hits(Stages[s], text)]
           hits == FlattenSeq(ss)
           targets == [i \in 1..Len(hits) |-> hits[i].target]
<1>2. /\ DOMAIN Stages = 1..4 /\ Stages[1] = "exact" /\ Stages[2] = "prefix"
      /\ Stages[3] = "keyword" /\ Stages[4] = "fallback"
  BY DEF Stages
<1>3. /\ ss = [s \in 1..4 |-> ss[s]] /\ \A s \in 1..4 : ss[s] = Hits(Stages[s], text)
      /\ targets = [i \in 1..Len(hits) |-> targets[i]]
  OBVIOUS
<1>4. Targets(text) = [i \in DOMAIN hits |-> hits[i].target]
  BY <1>2 DEF Targets
<1> HIDE DEF ss, targets
<1>5. IsSeq(ss) /\ Len(ss) = 4
  BY <1>3, FunctionIsSeq
<1>6. IsSeq(hits)
  <2>1. \A i \in 1..Len(ss) : IsSeq(ss[i])
    BY <1>1, <1>3, <1>5
  <2>2. QED BY <1>5, <2>1, FlattenFacts, ZenonT(60)
<1>7. Len(hits) \in Nat /\ DOMAIN hits = 1..Len(hits)
  BY <1>6, SeqFacts
<1>8. IsSeq(targets) /\ Len(targets) = Len(hits)
  BY <1>3, <1>7, FunctionIsSeq
<1>9. Targets(text) = targets
  BY <1>4, <1>7 DEF targets
<1>10. Len(hits) = Len(ss[1]) + Len(ss[2]) + Len(ss[3]) + Len(ss[4])
  <2>1. \E f : Flattens(f, Len(ss), ss) /\ FlattenSeq(ss) = f[Len(ss)]
    <3>1. Len(ss) \in Nat \ {0}
      BY <1>5
    <3>2. QED BY <3>1, FlattenIs, Zenon
  <2>2. PICK f : Flattens(f, 4, ss) /\ hits = f[4]
    BY <1>5, <2>1
  <2>3. f[1] = ss[1] /\ f[2] = ss[1] \o ss[2] /\ f[3] = f[2] \o ss[3] /\ f[4] = f[3] \o ss[4]
    <3>1. \A i \in 1..4 : f[i] = IF i = 1 THEN ss[i] ELSE f[i - 1] \o ss[i]
      BY <2>2 DEF Flattens
    <3>2. 1 \in 1..4 /\ 2 \in 1..4 /\ 3 \in 1..4 /\ 4 \in 1..4 /\ 2 # 1 /\ 3 # 1 /\ 4 # 1
      OBVIOUS
    <3>3. f[1] = ss[1] /\ f[2] = f[2 - 1] \o ss[2] /\ f[3] = f[3 - 1] \o ss[3]
          /\ f[4] = f[4 - 1] \o ss[4]
      BY <3>1, <3>2, Zenon
    <3>4. 2 - 1 = 1 /\ 3 - 1 = 2 /\ 4 - 1 = 3
      OBVIOUS
    <3>5. QED BY <3>3, <3>4
  <2>4. \A s \in 1..4 : IsSeq(ss[s])
    BY <1>1, <1>3
  <2>5. IsSeq(f[2]) /\ Len(f[2]) = Len(ss[1]) + Len(ss[2])
    BY <2>3, <2>4, ConcatFacts
  <2>6. IsSeq(f[3]) /\ Len(f[3]) = Len(f[2]) + Len(ss[3])
    BY <2>3, <2>4, <2>5, ConcatFacts
  <2>7. Len(f[4]) = Len(f[3]) + Len(ss[4])
    BY <2>3, <2>4, <2>6, ConcatFacts
  <2>8. QED BY <2>2, <2>5, <2>6, <2>7
<1>11. /\ ss[1] = Hits("exact", text) /\ ss[2] = Hits("prefix", text)
       /\ ss[3] = Hits("keyword", text) /\ ss[4] = Hits("fallback", text)
  BY <1>2, <1>3
<1>12. QED BY <1>1, <1>8, <1>9, <1>10, <1>11

(* The targets of a system event are a sequence.                           *)
LEMMA EventTargetsSeq ==
  ASSUME plugins \in Configurations, NEW type
  PROVE  IsSeq(EventTargets(type))
<1> DEFINE of(p) == Kept(plugins[p].events, {h \in Range(plugins[p].events) : h.type = type})
           told(p) == [i \in DOMAIN of(p) |-> Target(p, of(p)[i].id)]
           ss == [p \in Plugins |-> told(p)]
<1>1. PICK n \in Nat : Plugins = 1..n
  BY LayoutFacts
<1>2. ASSUME NEW p \in Plugins PROVE IsSeq(told(p))
  <2>1. IsSeq(of(p))
    BY LayoutFacts, KeptFacts
  <2>2. Len(of(p)) \in Nat /\ DOMAIN of(p) = 1..Len(of(p))
    BY <2>1, SeqFacts
  <2> HIDE DEF of
  <2>3. told(p) = [i \in 1..Len(of(p)) |-> told(p)[i]]
    BY <2>2
  <2> HIDE DEF told
  <2>4. QED BY <2>2, <2>3, FunctionIsSeq
<1>3. EventTargets(type) = FlattenSeq(ss)
  BY DEF EventTargets
<1> HIDE DEF told
<1>4. ss = [p \in 1..n |-> ss[p]] /\ \A p \in Plugins : ss[p] = told(p)
  BY <1>1
<1> HIDE DEF ss
<1>5. IsSeq(ss) /\ Len(ss) = n
  BY <1>4, FunctionIsSeq
<1>6. QED BY <1>1, <1>2, <1>3, <1>4, <1>5, FlattenFacts

------------------------------------------------------------------------------
(* What a dispatch has left is a sequence that is not over.                *)
Sendings ==
  \A c \in Callers : sending[c] # Nobody =>
    IsSeq(sending[c].targets) /\ sending[c].targets # <<>>

(* The bounds and the types of the counters.                               *)
Bounds ==
  /\ Len(arrivals) <= MaxArrivals /\ tel \in [Counters -> Nat]
  /\ DOMAIN alive = Plugins
  /\ \A p \in Plugins : Len(mailbox[p]) <= Capacity /\ alive[p] \in BOOLEAN

BInv == IInv /\ Sendings /\ Bounds /\ IsFiniteSet(ToCome) /\ RoutingBalance

(* The tells to come of a caller that has some left: all but the first.    *)
LEMMA TellsOfOne ==
  ASSUME NEW c, NEW m \in Nat \ {0}
  PROVE  IsFiniteSet({c} \X (2..m)) /\ Cardinality({c} \X (2..m)) = m - 1
<1>1. IsFiniteSet({c}) /\ Cardinality({c}) = 1
  BY FS_Singleton
<1>2. IsFiniteSet(2..m) /\ Cardinality(2..m) = m - 1
  <2>1. IsFiniteSet(2..m) /\ Cardinality(2..m) = IF 2 > m THEN 0 ELSE m - 2 + 1
    BY FS_Interval
  <2>2. QED BY <2>1
<1>3. /\ IsFiniteSet({c} \X (2..m))
      /\ Cardinality({c} \X (2..m)) = Cardinality({c}) * Cardinality(2..m)
  BY <1>1, <1>2, FS_Product
<1>4. QED BY <1>1, <1>2, <1>3

(* A step of one caller changes the tells to come by its own.              *)
LEMMA OneCallerMoves ==
  ASSUME IsFiniteSet(ToCome), NEW c \in Callers, NEW m \in Nat \ {0}, NEW n \in Nat \ {0},
         TellsToCome(c) = {c} \X (2..m), TellsToCome(c)' = {c} \X (2..n),
         \A d \in Callers : d # c => TellsToCome(d)' = TellsToCome(d)
  PROVE  /\ IsFiniteSet(ToCome') /\ Cardinality(ToCome) \in Nat
         /\ Cardinality(ToCome') = Cardinality(ToCome) - m + n
<1> DEFINE Others == UNION {TellsToCome(d) : d \in Callers \ {c}}
<1>1. ToCome = Others \cup TellsToCome(c)
  BY DEF ToCome
<1>2. ToCome' = Others \cup TellsToCome(c)'
  BY DEF ToCome
<1>3. \A x \in Others : x[1] # c
  <2>1. ASSUME NEW d \in Callers \ {c}, NEW x \in TellsToCome(d) PROVE x[1] # c
    BY DEF TellsToCome
  <2>2. QED BY <2>1
<1> HIDE DEF Others
<1>4. \A k \in Nat \ {0} : Others \cap ({c} \X (2..k)) = {}
  BY <1>3
<1>5. IsFiniteSet(Others)
  BY <1>1, FS_Subset
<1>6. ASSUME NEW k \in Nat \ {0}
      PROVE  /\ IsFiniteSet(Others \cup ({c} \X (2..k))) /\ Cardinality(Others) \in Nat
             /\ Cardinality(Others \cup ({c} \X (2..k))) = Cardinality(Others) + k - 1
  <2>1. IsFiniteSet({c} \X (2..k)) /\ Cardinality({c} \X (2..k)) = k - 1
    BY TellsOfOne
  <2>2. /\ IsFiniteSet(Others \cup ({c} \X (2..k)))
        /\ Cardinality(Others \cup ({c} \X (2..k)))
             = Cardinality(Others) + Cardinality({c} \X (2..k))
                 - Cardinality(Others \cap ({c} \X (2..k)))
    BY <1>5, <2>1, FS_Union
  <2>3. Cardinality(Others \cap ({c} \X (2..k))) = 0
    BY <1>4, FS_EmptySet
  <2>4. Cardinality(Others) \in Nat
    BY <1>5, FS_CardinalityType
  <2>5. QED BY <2>1, <2>2, <2>3, <2>4
<1>7. /\ Cardinality(ToCome) = Cardinality(Others) + m - 1
      /\ Cardinality(ToCome') = Cardinality(Others) + n - 1
      /\ IsFiniteSet(ToCome') /\ Cardinality(Others) \in Nat
  BY <1>1, <1>2, <1>6
<1>8. QED BY <1>7

(* A caller's tells to come, before and after its own steps and those of   *)
(* the others.                                                             *)
LEMMA TellsToComeFacts ==
  ASSUME BInv, NEW c \in Callers
  PROVE  /\ sending[c] = Nobody => TellsToCome(c) = {c} \X (2..1)
         /\ sending[c] # Nobody =>
              /\ Len(sending[c].targets) \in Nat \ {0}
              /\ TellsToCome(c) = {c} \X (2..(IF arrivals[sending[c].arrival].kind = "message"
                                              THEN Len(sending[c].targets) ELSE 1))
<1>1. {c} \X (2..1) = {}
  BY SMT
<1>2. sending[c] # Nobody => Len(sending[c].targets) \in Nat \ {0}
  BY TailFacts DEF BInv, Sendings
<1>3. QED BY <1>1, <1>2 DEF TellsToCome

(* An arrival adds its targets, but the first, to the tells to come.       *)
LEMMA ArriveAdds ==
  ASSUME BInv, NEW c \in Callers, NEW kind, NEW what, NEW targets, IsSeq(targets),
         Arrive(c, kind, what, targets)
  PROVE  /\ Sendings' /\ Len(arrivals') <= MaxArrivals
         /\ IsFiniteSet(ToCome') /\ Cardinality(ToCome) \in Nat
         /\ Cardinality(ToCome') = Cardinality(ToCome)
              + IF kind = "message" /\ targets # <<>> THEN Len(targets) - 1 ELSE 0
<1> DEFINE n == Len(arrivals)
           a == [kind |-> kind, what |-> what, caller |-> c]
           s == [arrival |-> n + 1, targets |-> targets]
<1>1. /\ n \in Nat /\ n < MaxArrivals /\ Len(arrivals') = n + 1
      /\ \A i \in 1..n : arrivals'[i] = arrivals[i]
      /\ arrivals'[n + 1] = a /\ MaxArrivals \in Nat
  BY AppendFacts, RouterAssumption DEF Arrive, BInv, IInv, Shapes
<1>2. a.kind = kind /\ s.arrival = n + 1 /\ s.targets = targets /\ s # Nobody
  BY <1>1 DEF Nobody
<1>3. /\ sending[c] = Nobody
      /\ \A d \in Callers : d # c => sending'[d] = sending[d]
      /\ sending'[c] = IF targets = <<>> THEN Nobody ELSE s
  BY <1>1 DEF Arrive, BInv, IInv, Shapes
<1> HIDE DEF a, s
<1>4. Len(targets) \in Nat /\ (targets # <<>> => Len(targets) \in Nat \ {0})
  BY SeqFacts, TailFacts
<1>5. \A d \in Callers : d # c => TellsToCome(d)' = TellsToCome(d)
  <2>1. ASSUME NEW d \in Callers, d # c PROVE TellsToCome(d)' = TellsToCome(d)
    <3>1. sending'[d] = sending[d]
      BY <1>3, <2>1
    <3>2. sending[d] # Nobody => arrivals'[sending[d].arrival] = arrivals[sending[d].arrival]
      BY <1>1 DEF BInv, IInv, Known
    <3>3. QED BY <3>1, <3>2 DEF TellsToCome
  <2>2. QED BY <2>1
<1> DEFINE m == IF kind = "message" /\ targets # <<>> THEN Len(targets) ELSE 1
<1>6. m \in Nat \ {0}
  BY <1>4
<1>7. TellsToCome(c) = {c} \X (2..1)
  BY <1>3, TellsToComeFacts
<1>8. TellsToCome(c)' = {c} \X (2..m)
  <2>1. {c} \X (2..1) = {}
    BY SMT
  <2>2. CASE targets = <<>>
    <3>1. TellsToCome(c)' = {}
      BY <1>3, <2>2 DEF TellsToCome
    <3>2. m = 1
      BY <2>2
    <3>3. QED BY <2>1, <3>1, <3>2
  <2>3. CASE targets # <<>> /\ kind = "message"
    BY <1>1, <1>2, <1>3, <2>3 DEF TellsToCome
  <2>4. CASE targets # <<>> /\ kind # "message"
    BY <1>1, <1>2, <1>3, <2>1, <2>4 DEF TellsToCome
  <2>5. QED BY <2>2, <2>3, <2>4
<1>9. IsFiniteSet(ToCome)
  BY DEF BInv
<1> HIDE DEF m
<1>10. /\ IsFiniteSet(ToCome') /\ Cardinality(ToCome) \in Nat
       /\ Cardinality(ToCome') = Cardinality(ToCome) - 1 + m
  BY <1>5, <1>6, <1>7, <1>8, <1>9, OneCallerMoves
<1>11. Sendings'
  <2>1. ASSUME NEW d \in Callers, sending'[d] # Nobody
        PROVE  IsSeq(sending'[d].targets) /\ sending'[d].targets # <<>>
    <3>1. CASE d # c
      BY <1>3, <2>1, <3>1 DEF BInv, Sendings
    <3>2. CASE d = c
      BY <1>2, <1>3, <2>1, <3>2
    <3>3. QED BY <3>1, <3>2
  <2>2. QED BY <2>1 DEF Sendings
<1>12. Cardinality(ToCome') = Cardinality(ToCome)
              + IF kind = "message" /\ targets # <<>> THEN Len(targets) - 1 ELSE 0
  BY <1>4, <1>10 DEF m
<1>13. QED BY <1>1, <1>10, <1>11, <1>12

(* A tell that is over takes one from the tells to come, if any is left.   *)
LEMMA AdvanceTakes ==
  ASSUME BInv, NEW c \in Callers, sending[c] # Nobody, Advance(c)
  PROVE  /\ Sendings'
         /\ IsFiniteSet(ToCome') /\ Cardinality(ToCome) \in Nat
         /\ Cardinality(ToCome') = Cardinality(ToCome)
              - IF arrivals[sending[c].arrival].kind = "message" /\ Tail(sending[c].targets) # <<>>
                THEN 1 ELSE 0
<1> DEFINE ts == sending[c].targets
           rest == Tail(ts)
           a == sending[c].arrival
           s == [arrival |-> a, targets |-> rest]
           more == arrivals[a].kind = "message" /\ rest # <<>>
<1>1. /\ arrivals' = arrivals
      /\ \A d \in Callers : d # c => sending'[d] = sending[d]
      /\ sending'[c] = IF rest = <<>> THEN Nobody ELSE s
  <2>1. sending' = [sending EXCEPT ![c] =
                      IF rest = <<>> THEN Nobody ELSE [sending[c] EXCEPT !.targets = rest]]
    BY DEF Advance
  <2>2. sending[c] = [arrival |-> a, targets |-> ts] /\ DOMAIN sending = Callers
    BY DEF BInv, IInv, Shapes
  <2> HIDE DEF rest
  <2>3. [sending[c] EXCEPT !.targets = rest] = s
    BY <2>2
  <2>4. QED BY <2>1, <2>2, <2>3 DEF Advance
<1>2. /\ IsSeq(rest) /\ Len(ts) \in Nat \ {0} /\ Len(rest) = Len(ts) - 1
      /\ Len(rest) \in Nat /\ (rest # <<>> => Len(rest) # 0)
  BY TailFacts, SeqFacts DEF BInv, Sendings
<1>3. rest = <<>> => Len(rest) = 0
  BY SeqFacts
<1>4. s.arrival = a /\ s.targets = rest /\ a \in 1..Len(arrivals) /\ a # 0
  <2>1. a \in 1..Len(arrivals) /\ Len(arrivals) \in Nat
    BY SeqFacts DEF BInv, IInv, Known, Shapes
  <2>2. QED BY <2>1
<1>5. s # Nobody
  BY <1>4 DEF Nobody
<1> HIDE DEF rest, s, ts
<1>6. \A d \in Callers : d # c => TellsToCome(d)' = TellsToCome(d)
  BY <1>1 DEF TellsToCome
<1> DEFINE m == IF arrivals[a].kind = "message" THEN Len(ts) ELSE 1
           k == IF more THEN Len(rest) ELSE 1
<1>7. m \in Nat \ {0} /\ k \in Nat \ {0} /\ k = m - IF more THEN 1 ELSE 0
  BY <1>2, <1>3
<1>8. TellsToCome(c) = {c} \X (2..m)
  BY TellsToComeFacts DEF ts
<1>9. TellsToCome(c)' = {c} \X (2..k)
  <2>1. {c} \X (2..1) = {}
    BY SMT
  <2>2. CASE rest = <<>>
    <3>1. TellsToCome(c)' = {}
      BY <1>1, <2>2 DEF TellsToCome
    <3>2. k = 1
      BY <2>2
    <3>3. QED BY <2>1, <3>1, <3>2
  <2>3. CASE rest # <<>>
    BY <1>1, <1>4, <1>5, <2>1, <2>3 DEF TellsToCome
  <2>4. QED BY <2>2, <2>3
<1>10. IsFiniteSet(ToCome)
  BY DEF BInv
<1>11. Sendings'
  <2>1. ASSUME NEW d \in Callers, sending'[d] # Nobody
        PROVE  IsSeq(sending'[d].targets) /\ sending'[d].targets # <<>>
    <3>1. CASE d # c
      BY <1>1, <2>1, <3>1 DEF BInv, Sendings
    <3>2. CASE d = c
      BY <1>1, <1>2, <1>4, <2>1, <3>2
    <3>3. QED BY <3>1, <3>2
  <2>2. QED BY <2>1 DEF Sendings
<1>12. IsFiniteSet(ToCome') /\ Cardinality(ToCome) \in Nat
       /\ Cardinality(ToCome') = Cardinality(ToCome) - m + k
  <2> HIDE DEF m, k, more
  <2>1. QED BY <1>6, <1>7, <1>8, <1>9, <1>10, OneCallerMoves
<1> HIDE DEF m, k
<1>13. Cardinality(ToCome') = Cardinality(ToCome) - IF more THEN 1 ELSE 0
  BY <1>7, <1>12
<1>14. QED BY <1>11, <1>12, <1>13 DEF rest, ts

(* A message that is dispatched is counted once per target.                *)
LEMMA DispatchBalances ==
  ASSUME BInv, NEW c \in Callers, NEW text \in Texts, DispatchMessage(c, text)
  PROVE  BInv'
<1> DEFINE targets == Targets(text)
           n(stage) == Len(Hits(stage, text))
<1>1. Arrive(c, "message", text, targets)
  BY DEF DispatchMessage
<1>2. /\ n("exact") \in Nat /\ n("prefix") \in Nat /\ n("keyword") \in Nat /\ n("fallback") \in Nat
      /\ IsSeq(targets)
      /\ Len(targets) = n("exact") + n("prefix") + n("keyword") + n("fallback")
  <2>1. /\ "exact" \in Range(Stages) /\ "prefix" \in Range(Stages)
        /\ "keyword" \in Range(Stages) /\ "fallback" \in Range(Stages)
    <3>1. DOMAIN Stages = 1..4 /\ Stages[1] = "exact" /\ Stages[2] = "prefix"
          /\ Stages[3] = "keyword" /\ Stages[4] = "fallback"
      BY DEF Stages
    <3>2. 1 \in 1..4 /\ 2 \in 1..4 /\ 3 \in 1..4 /\ 4 \in 1..4
      OBVIOUS
    <3> HIDE DEF Stages
    <3>3. QED BY <3>1, <3>2 DEF Range
  <2>2. QED BY <2>1, TargetsAddUp DEF BInv, IInv, Shapes
<1> DEFINE none == IF targets = <<>> THEN 1 ELSE 0
           first == IF targets = <<>> THEN 0 ELSE 1
<1>3. tel' = [tel EXCEPT
           !["messages_received"] = @ + 1,
           !["exact_route_hits"] = @ + n("exact"),
           !["prefix_route_hits"] = @ + n("prefix"),
           !["keyword_route_hits"] = @ + n("keyword"),
           !["fallback_dispatches"] = @ + n("fallback"),
           !["unmatched_messages"] = @ + none,
           !["handler_dispatches"] = @ + first]
  BY DEF DispatchMessage
<1> HIDE DEF targets, n
<1>4. IInv'
  BY <1>1, ArriveKeeps DEF BInv
<1>5. /\ Sendings' /\ Len(arrivals') <= MaxArrivals
      /\ IsFiniteSet(ToCome') /\ Cardinality(ToCome) \in Nat
      /\ Cardinality(ToCome') = Cardinality(ToCome)
           + IF targets # <<>> THEN Len(targets) - 1 ELSE 0
  BY <1>1, <1>2, ArriveAdds
<1>6. tel \in [Counters -> Nat]
  BY DEF BInv, Bounds
<1>7. none \in Nat /\ first \in Nat
  OBVIOUS
<1> HIDE DEF none, first
<1>8. /\ tel["exact_route_hits"] \in Nat /\ tel["prefix_route_hits"] \in Nat
      /\ tel["keyword_route_hits"] \in Nat /\ tel["fallback_dispatches"] \in Nat
      /\ tel["handler_dispatches"] \in Nat
      /\ tel["messages_received"] \in Nat /\ tel["unmatched_messages"] \in Nat
  BY <1>6 DEF Counters
<1>9. /\ tel'["exact_route_hits"] = tel["exact_route_hits"] + n("exact")
      /\ tel'["prefix_route_hits"] = tel["prefix_route_hits"] + n("prefix")
      /\ tel'["keyword_route_hits"] = tel["keyword_route_hits"] + n("keyword")
      /\ tel'["fallback_dispatches"] = tel["fallback_dispatches"] + n("fallback")
      /\ tel'["handler_dispatches"] = tel["handler_dispatches"] + first
      /\ tel'["messages_received"] = tel["messages_received"] + 1
      /\ tel'["unmatched_messages"] = tel["unmatched_messages"] + none
  BY <1>3, <1>6 DEF Counters
<1>10. tel' \in [Counters -> Nat]
  <2>1. /\ \A i, j \in Nat : i + j \in Nat
        /\ 1 \in Nat
    OBVIOUS
  <2>2. \A k \in Counters : tel'[k] \in Nat
    <3>1. tel'["exact_route_hits"] \in Nat
      BY <1>2, <1>7, <1>8, <1>9, <2>1, ZenonT(60)
    <3>2. tel'["prefix_route_hits"] \in Nat
      BY <1>2, <1>7, <1>8, <1>9, <2>1, ZenonT(60)
    <3>3. tel'["keyword_route_hits"] \in Nat
      BY <1>2, <1>7, <1>8, <1>9, <2>1, ZenonT(60)
    <3>4. tel'["fallback_dispatches"] \in Nat
      BY <1>2, <1>7, <1>8, <1>9, <2>1, ZenonT(60)
    <3>5. tel'["handler_dispatches"] \in Nat
      BY <1>2, <1>7, <1>8, <1>9, <2>1, ZenonT(60)
    <3>6. tel'["messages_received"] \in Nat
      BY <1>2, <1>7, <1>8, <1>9, <2>1, ZenonT(60)
    <3>7. tel'["unmatched_messages"] \in Nat
      BY <1>2, <1>7, <1>8, <1>9, <2>1, ZenonT(60)
    <3>8. QED BY <3>1, <3>2, <3>3, <3>4, <3>5, <3>6, <3>7 DEF Counters
  <2>3. tel' = [k \in Counters |-> tel'[k]]
    BY <1>3, <1>6
  <2>4. QED BY <2>2, <2>3
<1>11. RoutingBalance'
  <2>1. RoutingBalance
    BY DEF BInv
  <2>2. Len(targets) \in Nat /\ (targets = <<>> => Len(targets) = 0)
    BY <1>2, SeqFacts
  <2>3. Cardinality(ToCome') + first = Cardinality(ToCome) + Len(targets)
    BY <1>5, <2>2 DEF first
  <2>4. Cardinality(ToCome)' = Cardinality(ToCome')
    OBVIOUS
  <2> DEFINE C == Cardinality(ToCome)
             D == Cardinality(ToCome')
             H == tel["exact_route_hits"] + tel["prefix_route_hits"]
                  + tel["keyword_route_hits"] + tel["fallback_dispatches"]
             H2 == tel'["exact_route_hits"] + tel'["prefix_route_hits"]
                   + tel'["keyword_route_hits"] + tel'["fallback_dispatches"]
             t == tel["handler_dispatches"]
             t2 == tel'["handler_dispatches"]
  <2>5. C \in Nat /\ D + first = C + Len(targets) /\ D \in Nat
    BY <1>5, <2>3, FS_CardinalityType
  <2>6. H = t + C
    BY <2>1 DEF RoutingBalance
  <2>7. H2 = H + Len(targets)
    <3> DEFINE e == tel["exact_route_hits"]
               p == tel["prefix_route_hits"]
               k == tel["keyword_route_hits"]
               f == tel["fallback_dispatches"]
               ne == n("exact")
               np == n("prefix")
               nk == n("keyword")
               nf == n("fallback")
    <3>1. /\ e \in Nat /\ p \in Nat /\ k \in Nat /\ f \in Nat
          /\ ne \in Nat /\ np \in Nat /\ nk \in Nat /\ nf \in Nat
          /\ Len(targets) = ne + np + nk + nf
      BY <1>2, <1>8
    <3>2. H2 = (e + ne) + (p + np) + (k + nk) + (f + nf) /\ H = e + p + k + f
      BY <1>9
    <3> HIDE DEF e, p, k, f, ne, np, nk, nf, H, H2
    <3>3. QED BY <3>1, <3>2
  <2>8. t2 = t + first /\ t \in Nat
    BY <1>8, <1>9
  <2> HIDE DEF C, D, H, H2, t, t2
  <2>9. H2 = t2 + D
    <3>1. first \in Nat
      BY <1>7
    <3>2. QED BY <2>2, <2>5, <2>6, <2>7, <2>8, <3>1
  <2>10. QED BY <2>9 DEF RoutingBalance, D, H2, t2
<1>12. Bounds'
  BY <1>1, <1>5, <1>10 DEF Arrive, BInv, Bounds
<1>13. QED BY <1>4, <1>5, <1>11, <1>12 DEF BInv

(* A system event is not counted.                                          *)
LEMMA SystemBalances ==
  ASSUME BInv, NEW c \in Callers, NEW type, DispatchSystem(c, type)
  PROVE  BInv'
<1>1. Arrive(c, "system", type, EventTargets(type)) /\ tel' = tel
  BY DEF DispatchSystem
<1>2. IsSeq(EventTargets(type))
  BY EventTargetsSeq DEF BInv, IInv, Shapes
<1>3. IInv'
  BY <1>1, ArriveKeeps DEF BInv
<1>4. /\ Sendings' /\ Len(arrivals') <= MaxArrivals /\ IsFiniteSet(ToCome')
      /\ Cardinality(ToCome) \in Nat /\ Cardinality(ToCome') = Cardinality(ToCome)
  BY <1>1, <1>2, ArriveAdds
<1>5. RoutingBalance' /\ Bounds'
  BY <1>1, <1>4 DEF Arrive, BInv, Bounds, RoutingBalance
<1>6. QED BY <1>3, <1>4, <1>5 DEF BInv

(* A tell is counted before it begins, whether it arrives or not.          *)
LEMMA TellBalances ==
  ASSUME BInv, NEW c \in Callers, Caller(c)
  PROVE  BInv'
<1> DEFINE counted == /\ arrivals[sending[c].arrival].kind = "message"
                      /\ Tail(sending[c].targets) # <<>>
           to == Head(sending[c].targets)
           msg == [arrival |-> sending[c].arrival, id |-> to.id]
<1>1. /\ sending[c] # Nobody /\ Advance(c)
      /\ \/ /\ Len(mailbox[to.plugin]) < Capacity
            /\ mailbox' = [mailbox EXCEPT ![to.plugin] = Append(@, msg)]
         \/ mailbox' = mailbox
  BY ZenonT(60) DEF Caller, Tell, TellStopped
<1>2. /\ UNCHANGED <<arrivals, alive>>
      /\ tel' = IF counted THEN [tel EXCEPT !["handler_dispatches"] = @ + 1] ELSE tel
  BY <1>1 DEF Advance
<1>3. IInv'
  <2>1. IInv
    BY ZenonT(60) DEF BInv
  <2>2. Tell(c) \/ TellStopped(c)
    BY Zenon DEF Caller
  <2>3. QED BY <2>1, <2>2, TellKeeps, TellStoppedKeeps, ZenonT(60)
<1>4. /\ Sendings' /\ IsFiniteSet(ToCome') /\ Cardinality(ToCome) \in Nat
      /\ Cardinality(ToCome') = Cardinality(ToCome) - IF counted THEN 1 ELSE 0
  BY <1>1, AdvanceTakes
<1> HIDE DEF counted, to, msg
<1>5. tel \in [Counters -> Nat]
  BY DEF BInv, Bounds
<1>6. /\ tel' \in [Counters -> Nat]
      /\ tel'["exact_route_hits"] = tel["exact_route_hits"]
      /\ tel'["prefix_route_hits"] = tel["prefix_route_hits"]
      /\ tel'["keyword_route_hits"] = tel["keyword_route_hits"]
      /\ tel'["fallback_dispatches"] = tel["fallback_dispatches"]
      /\ tel'["handler_dispatches"] = tel["handler_dispatches"] + IF counted THEN 1 ELSE 0
      /\ tel["handler_dispatches"] \in Nat
  BY <1>2, <1>5 DEF Counters
<1>7. RoutingBalance'
  <2>1. RoutingBalance
    BY DEF BInv
  <2>2. QED BY <1>4, <1>6, <2>1 DEF RoutingBalance
<1>8. ASSUME NEW p \in Plugins PROVE Len(mailbox'[p]) <= Capacity
  <2>1. /\ IsSeq(mailbox[p]) /\ Len(mailbox[p]) <= Capacity /\ p \in DOMAIN mailbox
    BY DEF BInv, IInv, Shapes, Bounds
  <2>2. Len(mailbox[p]) \in Nat /\ Len(Append(mailbox[p], msg)) = Len(mailbox[p]) + 1
    BY <2>1, AppendFacts
  <2>3. \/ mailbox'[p] = mailbox[p]
        \/ Len(mailbox[p]) < Capacity /\ mailbox'[p] = Append(mailbox[p], msg)
    BY <1>1, <2>1
  <2>4. QED BY <2>1, <2>2, <2>3, RouterAssumption
<1>9. Bounds'
  BY <1>2, <1>6, <1>8 DEF BInv, Bounds
<1>10. QED BY <1>3, <1>4, <1>7, <1>9, Zenon DEF BInv

(* An actor's step counts nothing and only empties its mailbox.            *)
LEMMA ActorBalances ==
  ASSUME BInv, NEW p \in Plugins, Actor(p)
  PROVE  BInv'
<1>1. IInv'
  BY ReceiveKeeps, HandleKeeps DEF BInv, Actor
<1>2. /\ UNCHANGED <<plugins, arrivals, sending, tel>>
      /\ alive' = alive \/ alive' = [alive EXCEPT ![p] = FALSE]
      /\ \/ mailbox' = mailbox
         \/ mailbox[p] # <<>> /\ mailbox' = [mailbox EXCEPT ![p] = Tail(@)]
         \/ mailbox' = [mailbox EXCEPT ![p] = <<>>]
  BY DEF Actor, Receive, Handle, Panic
<1>3. ToCome' = ToCome
  BY <1>2 DEF ToCome, TellsToCome
<1>4. Sendings' /\ RoutingBalance'
  BY <1>2, <1>3 DEF BInv, Sendings, RoutingBalance
<1>5. ASSUME NEW q \in Plugins PROVE Len(mailbox'[q]) <= Capacity /\ alive'[q] \in BOOLEAN
  <2>1. /\ IsSeq(mailbox[q]) /\ Len(mailbox[q]) <= Capacity /\ q \in DOMAIN mailbox
        /\ alive[q] \in BOOLEAN /\ q \in DOMAIN alive
    BY DEF BInv, IInv, Shapes, Bounds
  <2>2. /\ Len(mailbox[q]) \in Nat
        /\ mailbox[q] # <<>> => Len(Tail(mailbox[q])) = Len(mailbox[q]) - 1
        /\ Len(<<>>) = 0
    BY <2>1, SeqFacts, TailFacts
  <2>3. \/ mailbox'[q] = mailbox[q]
        \/ mailbox[q] # <<>> /\ mailbox'[q] = Tail(mailbox[q])
        \/ mailbox'[q] = <<>>
    BY <1>2, <2>1
  <2>4. Len(mailbox'[q]) <= Capacity
    BY <2>1, <2>2, <2>3, RouterAssumption
  <2>5. alive'[q] \in BOOLEAN
    BY <1>2, <2>1
  <2>6. QED BY <2>4, <2>5
<1>6. Bounds'
  BY <1>2, <1>5 DEF BInv, Bounds
<1>7. QED BY <1>1, <1>3, <1>4, <1>6 DEF BInv

(* Every step keeps the balance and the bounds.                            *)
LEMMA BalanceStep == BInv /\ [Next]_vars => BInv'
<1> SUFFICES ASSUME BInv, [Next]_vars PROVE BInv'
  OBVIOUS
<1>1. ASSUME NEW c \in Callers, NEW text \in Texts, DispatchMessage(c, text) PROVE BInv'
  BY <1>1, DispatchBalances
<1>2. ASSUME NEW c \in Callers, NEW type \in EventTypes, DispatchSystem(c, type) PROVE BInv'
  BY <1>2, SystemBalances
<1>3. ASSUME NEW c \in Callers, Caller(c) PROVE BInv'
  BY <1>3, TellBalances
<1>4. ASSUME NEW p \in Plugins, Actor(p) PROVE BInv'
  BY <1>4, ActorBalances
<1>5. CASE UNCHANGED vars
  <2>1. IInv'
    BY <1>5, OrderStep DEF BInv
  <2>2. ToCome' = ToCome
    BY <1>5 DEF vars, ToCome, TellsToCome
  <2>3. QED BY <1>5, <2>1, <2>2 DEF vars, BInv, Sendings, Bounds, RoutingBalance
<1>6. QED BY <1>1, <1>2, <1>3, <1>4, <1>5 DEF Next

(* A behaviour begins with nothing counted and nothing to come.            *)
LEMMA BalanceInit == Init => BInv
<1> SUFFICES ASSUME Init PROVE BInv
  OBVIOUS
<1>1. IInv
  BY OrderInit
<1>2. \A c \in Callers : sending[c] = Nobody
  BY DEF Init
<1>3. Sendings /\ ToCome = {}
  BY <1>2 DEF Sendings, ToCome, TellsToCome
<1>4. Bounds
  BY SeqFacts, RouterAssumption DEF Init, Bounds
<1>5. IsFiniteSet(ToCome) /\ Cardinality(ToCome) = 0
  BY <1>3, FS_EmptySet
<1>6. RoutingBalance
  BY <1>5 DEF Init, RoutingBalance, Counters
<1>7. QED BY <1>1, <1>3, <1>4, <1>5, <1>6 DEF BInv

(* The hits of the route tables are the tells begun and to come, at every  *)
(* moment of every dispatch, however many run and whichever actor stops.   *)
THEOREM HitsAreTold == Spec => []RoutingBalance
<1>1. BInv => RoutingBalance
  BY DEF BInv
<1>2. QED BY <1>1, BalanceInit, BalanceStep, PTL DEF Spec

(* The variables have their types; no mailbox exceeds its capacity and     *)
(* everything in one is an arrival.                                        *)
THEOREM RouterTypes == Spec => []TypeOK
<1>1. BInv => TypeOK
  <2> SUFFICES ASSUME BInv PROVE TypeOK
    OBVIOUS
  <2>1. Len(arrivals) \in Nat
    BY SeqFacts DEF BInv, IInv, Shapes
  <2>2. ASSUME NEW c \in Callers PROVE sending[c].arrival \in 0..Len(arrivals)
    <3>1. CASE sending[c] = Nobody
      BY <2>1, <3>1 DEF Nobody
    <3>2. CASE sending[c] # Nobody
      BY <2>1, <3>2 DEF BInv, IInv, Known
    <3>3. QED BY <3>1, <3>2
  <2>3. ASSUME NEW p \in Plugins
        PROVE  /\ Len(busy[p]) <= 1
               /\ \A i \in DOMAIN mailbox[p] : mailbox[p][i].arrival \in DOMAIN arrivals
    <3>1. Len(busy[p]) <= 1
      <4>1. \A x : Len(<<x>>) = 1
        OBVIOUS
      <4>2. busy[p] = <<>> \/ busy[p] = <<busy[p][1]>>
        BY DEF BInv, IInv, Shapes
      <4>3. Len(busy[p]) = 0 \/ Len(busy[p]) = 1
        BY <4>1, <4>2, SeqFacts
      <4>4. \A n : n = 0 \/ n = 1 => n <= 1
        OBVIOUS
      <4>5. QED BY <4>3, <4>4, Zenon
    <3>2. DOMAIN mailbox[p] = 1..Len(mailbox[p]) /\ DOMAIN arrivals = 1..Len(arrivals)
      BY SeqFacts DEF BInv, IInv, Shapes
    <3>3. QED BY <3>1, <3>2 DEF BInv, IInv, Known
  <2>4. QED BY <2>2, <2>3 DEF BInv, IInv, Shapes, Bounds, TypeOK
<1>2. QED BY <1>1, BalanceInit, BalanceStep, PTL DEF Spec

------------------------------------------------------------------------------
(* The handlers of a plugin an arrival may run, in a layout, and the name  *)
(* of the k-th of them.                                                    *)
HandlersFor(config, p, a) ==
  IF a.kind = "message" THEN config[p].messages ELSE config[p].events

IdFor(config, p, a, k) == HandlersFor(config, p, a)[k].id

(* The handlers a plugin is told of: those the arrival is meant for, and   *)
(* the ones of regex and fallback routes, whose rule the actor checks.     *)
Meant(config, p, a) ==
  {k \in DOMAIN HandlersFor(config, p, a) :
     IF a.kind = "message"
     THEN \/ a.what \in config[p].messages[k].rule
          \/ StageOf(config[p].messages[k].route) = "fallback"
     ELSE config[p].events[k].type = a.what}

(* What the tells of an arrival's dispatch are to be: one for each handler *)
(* that is meant, of every plugin.                                         *)
IsDue(targets, a) ==
  /\ IsSeq(targets) /\ IsInjective(targets)
  /\ \A x \in Range(targets) : \E p \in Plugins : \E k \in Meant(plugins, p, a) : x = Target(p, IdFor(plugins, p, a, k))
  /\ \A p \in Plugins : \A k \in Meant(plugins, p, a) : Target(p, IdFor(plugins, p, a, k)) \in Range(targets)

(* One entry of a regular handler, in the table of its stage.              *)
EntryOf(p, k) ==
  LET h == plugins[p].messages[k]
  IN  [pattern |-> IF StageOf(h.route) = "fallback" THEN "" ELSE h.pats[1],
       target |-> Target(p, h.id)]

(* A target tells which handler of which plugin is meant.                  *)
LEMMA TargetsApart ==
  ASSUME Regular(plugins)
  PROVE  /\ \A p, q \in Plugins :
              \A j \in DOMAIN plugins[p].messages, k \in DOMAIN plugins[q].messages :
                Target(p, plugins[p].messages[j].id) = Target(q, plugins[q].messages[k].id)
                  => p = q /\ j = k
         /\ \A p, q \in Plugins :
              \A j \in DOMAIN plugins[p].events, k \in DOMAIN plugins[q].events :
                Target(p, plugins[p].events[j].id) = Target(q, plugins[q].events[k].id)
                  => p = q /\ j = k
<1>1. \A p, q, i, j : Target(p, i) = Target(q, j) => p = q /\ i = j
  BY DEF Target
<1>2. \A p \in Plugins :
        /\ \A j, k \in DOMAIN plugins[p].messages :
             plugins[p].messages[j].id = plugins[p].messages[k].id => j = k
        /\ \A j, k \in DOMAIN plugins[p].events :
             plugins[p].events[j].id = plugins[p].events[k].id => j = k
  BY DEF Regular
<1>3. ASSUME NEW p \in Plugins, NEW q \in Plugins,
             NEW j \in DOMAIN plugins[p].messages, NEW k \in DOMAIN plugins[q].messages,
             Target(p, plugins[p].messages[j].id) = Target(q, plugins[q].messages[k].id)
      PROVE  p = q /\ j = k
  BY <1>1, <1>2, <1>3
<1>4. ASSUME NEW p \in Plugins, NEW q \in Plugins,
             NEW j \in DOMAIN plugins[p].events, NEW k \in DOMAIN plugins[q].events,
             Target(p, plugins[p].events[j].id) = Target(q, plugins[q].events[k].id)
      PROVE  p = q /\ j = k
  BY <1>1, <1>2, <1>4
<1>5. QED BY <1>3, <1>4

(* A regular handler has its one entry in the table of its stage.          *)
LEMMA RegularEntries ==
  ASSUME plugins \in Configurations, Regular(plugins), NEW stage, NEW p \in Plugins,
         NEW k \in DOMAIN plugins[p].messages
  PROVE  /\ IsInjective(EntriesOf(stage, p, k))
         /\ Range(EntriesOf(stage, p, k)) =
              IF StageOf(plugins[p].messages[k].route) = stage THEN {EntryOf(p, k)} ELSE {}
<1> DEFINE h == plugins[p].messages[k]
           e == EntryOf(p, k)
<1>1. h \in Range(plugins[p].messages)
  BY DEF Range
<1>2. StageOf(h.route) # "fallback" => DOMAIN h.pats = 1..1
  <2>1. IsSeq(h.pats)
    BY <1>1, LayoutFacts
  <2>2. StageOf(h.route) # "fallback" => Len(h.pats) = 1
    BY <1>1 DEF Regular
  <2>3. QED BY <2>1, <2>2, SeqFacts
<1>3. Entries(p, h) = <<e>>
  <2>1. CASE StageOf(h.route) = "fallback"
    BY <2>1 DEF Entries, EntryOf
  <2>2. CASE StageOf(h.route) # "fallback"
    <3> DEFINE x(i) == [pattern |-> h.pats[i], target |-> Target(p, h.id)]
    <3>1. Entries(p, h) = [i \in 1..1 |-> x(i)]
      BY <1>2, <2>2 DEF Entries
    <3>2. x(1) = e
      BY <2>2 DEF EntryOf
    <3>3. [i \in 1..1 |-> x(i)] = <<x(1)>>
      <4> HIDE DEF x
      <4>1. \A i \in 1..1 : i = 1
        OBVIOUS
      <4>2. [i \in 1..1 |-> x(i)] = [i \in 1..1 |-> x(1)]
        BY <4>1
      <4>3. \A y : [i \in 1..1 |-> y] = <<y>>
        OBVIOUS
      <4>4. QED BY <4>2, <4>3
    <3>4. QED BY <3>1, <3>2, <3>3
  <2>3. QED BY <2>1, <2>2
<1> HIDE DEF h, e
<1>4. CASE StageOf(h.route) = stage
  <2>1. EntriesOf(stage, p, k) = <<e>>
    BY <1>3, <1>4 DEF EntriesOf, h
  <2>2. QED BY <1>4, <2>1, ShortSeqs DEF e, h
<1>5. CASE StageOf(h.route) # stage
  <2>1. EntriesOf(stage, p, k) = <<>>
    BY <1>5 DEF EntriesOf, h
  <2>2. QED BY <1>5, <2>1, ShortSeqs DEF h
<1>6. QED BY <1>4, <1>5

(* A regular handler's entry is hit if, and only if, the handler is meant. *)
LEMMA EntryMatches ==
  ASSUME plugins \in Configurations, Regular(plugins), NEW p \in Plugins,
         NEW k \in DOMAIN plugins[p].messages, NEW text \in Texts, NEW a, a.kind = "message", a.what = text
  PROVE  Matches(StageOf(plugins[p].messages[k].route), EntryOf(p, k).pattern, text)
           <=> k \in Meant(plugins, p, a)
<1> DEFINE h == plugins[p].messages[k]
           stage == StageOf(h.route)
<1>1. h \in Range(plugins[p].messages)
  BY DEF Range
<1>2. /\ stage \in Range(Stages)
      /\ h.route = "exact" => h.rule = IsFullmatch(h.pats)
      /\ h.route = "prefix" => h.rule = IsStartswith(h.pats)
      /\ h.route = "keyword" => h.rule = IsKeywords(h.pats)
      /\ stage # "fallback" => Len(h.pats) = 1
  BY <1>1 DEF Regular
<1>3. stage \in {"exact", "prefix", "keyword", "fallback"}
  <2>1. Range(Stages) = {"exact", "prefix", "keyword", "fallback"}
    BY DEF Range, Stages
  <2>2. QED BY <1>2, <2>1
<1>4. k \in Meant(plugins, p, a) <=> (text \in h.rule \/ stage = "fallback")
  BY DEF Meant, HandlersFor
<1>5. EntryOf(p, k).pattern = IF stage = "fallback" THEN "" ELSE h.pats[1]
  BY DEF EntryOf
<1>6. stage # "fallback" => stage = h.route
  BY DEF StageOf
<1>7. stage # "fallback" => Range(h.pats) = {h.pats[1]}
  <2>1. ASSUME stage # "fallback" PROVE DOMAIN h.pats = 1..1
    <3>1. IsSeq(h.pats)
      BY <1>1, LayoutFacts
    <3>2. QED BY <1>2, <2>1, <3>1, SeqFacts
  <2>2. \A i \in 1..1 : i = 1
    OBVIOUS
  <2>3. 1 \in 1..1
    OBVIOUS
  <2>4. QED BY <2>1, <2>2, <2>3 DEF Range
<1> HIDE DEF h, stage
<1>8. CASE stage = "exact"
  BY <1>2, <1>4, <1>5, <1>6, <1>7, <1>8 DEF Matches, IsFullmatch, h, stage
<1>9. CASE stage = "prefix"
  BY <1>2, <1>4, <1>5, <1>6, <1>7, <1>9 DEF Matches, IsStartswith, h, stage
<1>10. CASE stage = "keyword"
  BY <1>2, <1>4, <1>5, <1>6, <1>7, <1>10 DEF Matches, IsKeywords, h, stage
<1>11. CASE stage = "fallback"
  BY <1>4, <1>11 DEF Matches, h, stage
<1>12. QED BY <1>3, <1>8, <1>9, <1>10, <1>11

(* The tells of a message are due: one for each handler that is meant.     *)
LEMMA MessageTargets ==
  ASSUME plugins \in Configurations, Regular(plugins), NEW text \in Texts,
         NEW a, a.kind = "message", a.what = text
  PROVE  IsDue(Targets(text), a)
<1> DEFINE stageOf(p, k) == StageOf(plugins[p].messages[k].route)
           hits(stage) == Hits(stage, text)
           Ks(p) == DOMAIN plugins[p].messages
<1>1. \A p \in Plugins : Meant(plugins, p, a) \subseteq Ks(p)
  BY DEF Meant, HandlersFor
<1>2. \A p, q \in Plugins : \A j \in Ks(p), k \in Ks(q) :
        EntryOf(p, j).target = EntryOf(q, k).target => p = q /\ j = k
  <2>1. \A p, k : EntryOf(p, k).target = Target(p, plugins[p].messages[k].id)
    BY DEF EntryOf
  <2>2. QED BY <2>1, TargetsApart
<1>3. ASSUME NEW stage
      PROVE  /\ IsSeq(Table(stage)) /\ IsInjective(Table(stage))
             /\ \A e : e \in Range(Table(stage)) <=>
                  \E p \in Plugins : \E k \in Ks(p) : stageOf(p, k) = stage /\ e = EntryOf(p, k)
  <2>1. \A p \in Plugins : \A k \in Ks(p) :
          /\ IsInjective(EntriesOf(stage, p, k))
          /\ Range(EntriesOf(stage, p, k)) =
               IF stageOf(p, k) = stage THEN {EntryOf(p, k)} ELSE {}
    BY RegularEntries
  <2>2. \A p, q \in Plugins : \A j \in Ks(p), k \in Ks(q) :
          <<p, j>> # <<q, k>> =>
            Range(EntriesOf(stage, p, j)) \cap Range(EntriesOf(stage, q, k)) = {}
    <3>1. ASSUME NEW p \in Plugins, NEW q \in Plugins, NEW j \in Ks(p), NEW k \in Ks(q),
                 <<p, j>> # <<q, k>>
          PROVE  Range(EntriesOf(stage, p, j)) \cap Range(EntriesOf(stage, q, k)) = {}
      <4>1. EntryOf(p, j) # EntryOf(q, k)
        BY <1>2, <3>1
      <4>2. QED BY <2>1, <4>1
    <3>2. QED BY <3>1
  <2>3. IsSeq(Table(stage)) /\ IsInjective(Table(stage))
    BY <2>1, <2>2, TableFacts
  <2>4. \A e : e \in Range(Table(stage)) <=>
          \E p \in Plugins : \E k \in Ks(p) : e \in Range(EntriesOf(stage, p, k))
    BY TableFacts
  <2>5. QED BY <2>1, <2>3, <2>4
<1>4. \A p \in Plugins : \A k \in Ks(p) :
        Matches(stageOf(p, k), EntryOf(p, k).pattern, text) <=> k \in Meant(plugins, p, a)
  BY EntryMatches
<1> HIDE DEF stageOf, Ks
<1>5. ASSUME NEW stage
      PROVE  /\ IsSeq(hits(stage)) /\ IsInjective(hits(stage))
             /\ \A e : e \in Range(hits(stage)) <=>
                  \E p \in Plugins : \E k \in Meant(plugins, p, a) :
                    stageOf(p, k) = stage /\ e = EntryOf(p, k)
  <2> DEFINE T == Range(Table(stage))
             S == {e \in T : Matches(stage, e.pattern, text)}
  <2>1. hits(stage) = Kept(Table(stage), S)
    BY DEF Hits
  <2>2. /\ IsSeq(hits(stage)) /\ IsInjective(hits(stage)) /\ Range(hits(stage)) = T \cap S
    BY <1>3, <2>1, KeptFacts
  <2>3. ASSUME NEW e \in Range(hits(stage))
        PROVE  \E p \in Plugins : \E k \in Meant(plugins, p, a) : stageOf(p, k) = stage /\ e = EntryOf(p, k)
    <3>1. e \in T /\ Matches(stage, e.pattern, text)
      BY <2>2
    <3>2. PICK p \in Plugins : \E k \in Ks(p) : stageOf(p, k) = stage /\ e = EntryOf(p, k)
      BY <1>3, <3>1
    <3>3. PICK k \in Ks(p) : stageOf(p, k) = stage /\ e = EntryOf(p, k)
      BY <3>2
    <3>4. k \in Meant(plugins, p, a)
      BY <1>4, <3>1, <3>3
    <3>5. QED BY <3>3, <3>4
  <2>4. ASSUME NEW p \in Plugins, NEW k \in Meant(plugins, p, a), stageOf(p, k) = stage
        PROVE  EntryOf(p, k) \in Range(hits(stage))
    <3>1. k \in Ks(p)
      BY <1>1
    <3>2. EntryOf(p, k) \in T /\ Matches(stage, EntryOf(p, k).pattern, text)
      BY <1>3, <1>4, <2>4, <3>1
    <3>3. QED BY <2>2, <3>2
  <2>5. QED BY <2>2, <2>3, <2>4
<1> HIDE DEF hits
<1> DEFINE ss == [s \in 1..4 |-> hits(Stages[s])]
           all == FlattenSeq(ss)
           n == Len(all)
           targets == [i \in 1..n |-> all[i].target]
<1>6. /\ DOMAIN Stages = 1..4 /\ Range(Stages) = {Stages[s] : s \in 1..4}
      /\ \A s, t \in 1..4 : Stages[s] = Stages[t] => s = t
  BY DEF Stages, Range
<1>7. /\ ss = [s \in 1..4 |-> ss[s]] /\ \A s \in 1..4 : ss[s] = hits(Stages[s])
      /\ targets = [i \in 1..n |-> targets[i]] /\ \A i \in 1..n : targets[i] = all[i].target
  OBVIOUS
<1>8. Targets(text) = [i \in DOMAIN all |-> all[i].target]
  BY <1>6 DEF Targets, hits
<1> HIDE DEF ss, targets
<1>9. IsSeq(ss) /\ Len(ss) = 4
  BY <1>7, FunctionIsSeq
<1>10. /\ IsSeq(all) /\ Range(all) = UNION {Range(ss[s]) : s \in 1..4}
       /\ Disjointly(ss) => IsInjective(all)
  <2>1. \A s \in 1..Len(ss) : IsSeq(ss[s])
    BY <1>5, <1>7, <1>9
  <2>2. QED BY <1>9, <2>1, FlattenFacts
<1>11. \A s \in 1..4 : \A e : e \in Range(ss[s]) <=>
         \E p \in Plugins : \E k \in Meant(plugins, p, a) : stageOf(p, k) = Stages[s] /\ e = EntryOf(p, k)
  BY <1>5, <1>7
<1>12. Disjointly(ss)
  <2>1. ASSUME NEW s \in 1..4, NEW t \in 1..4, s # t, NEW e, e \in Range(ss[s]), e \in Range(ss[t])
        PROVE  FALSE
    <3>1. PICK p \in Plugins : \E k \in Meant(plugins, p, a) : stageOf(p, k) = Stages[s] /\ e = EntryOf(p, k)
      BY <1>11, <2>1
    <3>2. PICK k \in Meant(plugins, p, a) : stageOf(p, k) = Stages[s] /\ e = EntryOf(p, k)
      BY <3>1
    <3>3. PICK q \in Plugins : \E j \in Meant(plugins, q, a) : stageOf(q, j) = Stages[t] /\ e = EntryOf(q, j)
      BY <1>11, <2>1
    <3>4. PICK j \in Meant(plugins, q, a) : stageOf(q, j) = Stages[t] /\ e = EntryOf(q, j)
      BY <3>3
    <3>5. p = q /\ k = j
      <4>1. k \in Ks(p) /\ j \in Ks(q)
        BY <1>1
      <4>2. EntryOf(p, k).target = EntryOf(q, j).target
        BY <3>2, <3>4
      <4>3. QED BY <1>2, <4>1, <4>2
    <3>6. QED BY <1>6, <2>1, <3>2, <3>4, <3>5
  <2>2. \A s \in 1..4 : IsInjective(ss[s])
    BY <1>5, <1>7
  <2>3. \A s, t \in 1..4 : s # t => Range(ss[s]) \cap Range(ss[t]) = {}
    BY <2>1
  <2>4. QED BY <1>9, <2>2, <2>3 DEF Disjointly
<1>13. n \in Nat /\ DOMAIN all = 1..n
  BY <1>10, SeqFacts
<1>14. IsSeq(targets) /\ Len(targets) = n /\ DOMAIN targets = 1..n /\ Targets(text) = targets
  <2>1. Targets(text) = targets
    BY <1>8, <1>13 DEF targets
  <2>2. QED BY <1>7, <1>13, <2>1, FunctionIsSeq
<1>15. \A e : e \in Range(all) <=>
         \E p \in Plugins : \E k \in Meant(plugins, p, a) : e = EntryOf(p, k)
  <2>1. ASSUME NEW e \in Range(all)
        PROVE  \E p \in Plugins : \E k \in Meant(plugins, p, a) : e = EntryOf(p, k)
    BY <1>10, <1>11
  <2>2. ASSUME NEW p \in Plugins, NEW k \in Meant(plugins, p, a) PROVE EntryOf(p, k) \in Range(all)
    <3>1. k \in DOMAIN plugins[p].messages
      BY <1>1 DEF Ks
    <3>2. plugins[p].messages[k] \in Range(plugins[p].messages)
      BY <3>1 DEF Range
    <3>3. stageOf(p, k) \in Range(Stages)
      BY <3>2 DEF Regular, stageOf
    <3>4. PICK s \in 1..4 : stageOf(p, k) = Stages[s]
      BY <1>6, <3>3
    <3>5. EntryOf(p, k) \in Range(ss[s])
      BY <1>11, <3>4
    <3>6. QED BY <1>10, <3>5
  <2>3. QED BY <2>1, <2>2
<1> HIDE DEF n, all
<1>16. \A p, k : EntryOf(p, k).target = Target(p, IdFor(plugins, p, a, k))
  BY DEF EntryOf, IdFor, HandlersFor
<1>17. \A i \in 1..n : all[i] \in Range(all)
  BY <1>13 DEF Range
<1>18. IsInjective(targets)
  <2>1. ASSUME NEW i \in 1..n, NEW j \in 1..n, targets[i] = targets[j] PROVE i = j
    <3>1. all[i].target = all[j].target
      BY <1>7, <2>1
    <3>2. PICK p \in Plugins : \E k \in Meant(plugins, p, a) : all[i] = EntryOf(p, k)
      BY <1>15, <1>17
    <3>3. PICK k \in Meant(plugins, p, a) : all[i] = EntryOf(p, k)
      BY <3>2
    <3>4. PICK q \in Plugins : \E l \in Meant(plugins, q, a) : all[j] = EntryOf(q, l)
      BY <1>15, <1>17
    <3>5. PICK l \in Meant(plugins, q, a) : all[j] = EntryOf(q, l)
      BY <3>4
    <3>6. all[i] = all[j]
      <4>1. p = q /\ k = l
        BY <1>1, <1>2, <3>1, <3>3, <3>5
      <4>2. QED BY <3>3, <3>5, <4>1
    <3>7. QED BY <1>10, <1>12, <1>13, <3>6 DEF IsInjective
  <2>2. QED BY <1>14, <2>1 DEF IsInjective
<1>19. ASSUME NEW x \in Range(targets)
       PROVE  \E p \in Plugins : \E k \in Meant(plugins, p, a) : x = Target(p, IdFor(plugins, p, a, k))
  <2>1. PICK i \in 1..n : x = targets[i]
    BY <1>14 DEF Range
  <2>2. x = all[i].target
    BY <1>7, <2>1
  <2>3. QED BY <1>15, <1>16, <1>17, <2>2
<1>20. ASSUME NEW p \in Plugins, NEW k \in Meant(plugins, p, a)
       PROVE  Target(p, IdFor(plugins, p, a, k)) \in Range(targets)
  <2>1. EntryOf(p, k) \in Range(all)
    BY <1>15
  <2>2. PICK i \in 1..n : all[i] = EntryOf(p, k)
    BY <1>13, <2>1 DEF Range
  <2>3. targets[i] = Target(p, IdFor(plugins, p, a, k))
    BY <1>7, <1>16, <2>2
  <2>4. QED BY <1>14, <2>3 DEF Range
<1>21. QED BY <1>14, <1>18, <1>19, <1>20 DEF IsDue

(* The tells of a system event are due: one for each handler of its type.  *)
LEMMA SystemTargets ==
  ASSUME plugins \in Configurations, Regular(plugins), NEW type,
         NEW a, a.kind = "system", a.what = type
  PROVE  IsDue(EventTargets(type), a)
<1> DEFINE events(p) == plugins[p].events
           of(p) == Kept(events(p), {h \in Range(events(p)) : h.type = type})
           told(p) == [i \in DOMAIN of(p) |-> Target(p, of(p)[i].id)]
           ss == [p \in Plugins |-> told(p)]
           Due(p) == {Target(p, events(p)[k].id) : k \in Meant(plugins, p, a)}
<1>1. PICK n \in Nat : Plugins = 1..n
  BY LayoutFacts
<1>2. ASSUME NEW p \in Plugins
      PROVE  Meant(plugins, p, a) = {k \in DOMAIN events(p) : events(p)[k].type = type}
  BY DEF Meant, HandlersFor
<1>3. \A p, q \in Plugins : \A j \in DOMAIN events(p), k \in DOMAIN events(q) :
        Target(p, events(p)[j].id) = Target(q, events(q)[k].id) => p = q /\ j = k
  BY TargetsApart
<1>4. ASSUME NEW p \in Plugins
      PROVE  IsSeq(told(p)) /\ IsInjective(told(p)) /\ Range(told(p)) = Due(p)
  <2> DEFINE S == {h \in Range(events(p)) : h.type = type}
             m == Len(of(p))
  <2>1. IsSeq(events(p)) /\ IsInjective(events(p))
    <3>1. IsSeq(events(p))
      BY LayoutFacts
    <3>2. \A j, k \in DOMAIN events(p) : events(p)[j] = events(p)[k] => j = k
      BY <1>3
    <3>3. QED BY <3>1, <3>2 DEF IsInjective
  <2>2. /\ IsSeq(of(p)) /\ Range(of(p)) = Range(events(p)) \cap S
        /\ IsInjective(of(p))
    BY <2>1, KeptFacts
  <2>3. m \in Nat /\ DOMAIN of(p) = 1..m
    BY <2>2, SeqFacts
  <2>4. \A h \in Range(of(p)) : \E k \in Meant(plugins, p, a) : h = events(p)[k]
    <3>1. ASSUME NEW h \in Range(of(p)) PROVE \E k \in Meant(plugins, p, a) : h = events(p)[k]
      <4>1. h \in Range(events(p)) /\ h.type = type
        BY <2>2
      <4>2. PICK k \in DOMAIN events(p) : h = events(p)[k]
        BY <4>1 DEF Range
      <4>3. QED BY <1>2, <4>1, <4>2
    <3>2. QED BY <3>1
  <2>5. \A k \in Meant(plugins, p, a) : events(p)[k] \in Range(of(p))
    <3>1. ASSUME NEW k \in Meant(plugins, p, a) PROVE events(p)[k] \in Range(of(p))
      <4>1. k \in DOMAIN events(p) /\ events(p)[k].type = type
        BY <1>2
      <4>2. events(p)[k] \in Range(events(p))
        BY <4>1 DEF Range
      <4>3. QED BY <2>2, <4>1, <4>2
    <3>2. QED BY <3>1
  <2> DEFINE t == told(p)
             o == of(p)
             x(i) == Target(p, o[i].id)
  <2>6. t = [i \in 1..m |-> x(i)]
    BY <2>3
  <2>7. \A i \in 1..m : o[i] \in Range(o)
    BY <2>3 DEF Range
  <2>8. \A i, j \in 1..m : o[i] = o[j] => i = j
    BY <2>2, <2>3 DEF IsInjective
  <2>9. \A h \in Range(o) : \E k \in Meant(plugins, p, a) : h = events(p)[k]
    BY <2>4
  <2>10. \A k \in Meant(plugins, p, a) : \E i \in 1..m : o[i] = events(p)[k]
    BY <2>3, <2>5 DEF Range
  <2>11. \A k \in Meant(plugins, p, a) : k \in DOMAIN events(p)
    BY <1>2
  <2> HIDE DEF t, o, m, events
  <2>12. DOMAIN t = 1..m /\ t = [i \in 1..m |-> t[i]] /\ \A i \in 1..m : t[i] = Target(p, o[i].id)
    BY <2>6
  <2>13. IsSeq(t)
    BY <2>3, <2>12, FunctionIsSeq
  <2>14. IsInjective(t)
    <3>1. ASSUME NEW i \in 1..m, NEW j \in 1..m, t[i] = t[j] PROVE i = j
      <4>1. PICK k \in Meant(plugins, p, a) : o[i] = events(p)[k]
        BY <2>7, <2>9
      <4>2. PICK l \in Meant(plugins, p, a) : o[j] = events(p)[l]
        BY <2>7, <2>9
      <4>3. Target(p, events(p)[k].id) = Target(p, events(p)[l].id)
        BY <2>12, <3>1, <4>1, <4>2
      <4>4. k = l
        BY <1>3, <2>11, <4>3
      <4>5. QED BY <2>8, <4>1, <4>2, <4>4
    <3>2. QED BY <2>12, <3>1 DEF IsInjective
  <2>15. Range(t) = Due(p)
    <3>1. ASSUME NEW y \in Range(t) PROVE y \in Due(p)
      <4>1. PICK i \in 1..m : y = t[i]
        BY <2>12 DEF Range
      <4>2. PICK k \in Meant(plugins, p, a) : o[i] = events(p)[k]
        BY <2>7, <2>9
      <4>3. QED BY <2>12, <4>1, <4>2
    <3>2. ASSUME NEW k \in Meant(plugins, p, a) PROVE Target(p, events(p)[k].id) \in Range(t)
      <4>1. PICK i \in 1..m : o[i] = events(p)[k]
        BY <2>10
      <4>2. t[i] = Target(p, events(p)[k].id)
        BY <2>12, <4>1
      <4>3. QED BY <2>12, <4>2 DEF Range
    <3>3. QED BY <3>1, <3>2
  <2>16. QED BY <2>13, <2>14, <2>15 DEF t
<1>5. EventTargets(type) = FlattenSeq(ss)
  BY DEF EventTargets
<1> HIDE DEF told, events
<1>6. ss = [p \in 1..n |-> ss[p]] /\ \A p \in Plugins : ss[p] = told(p)
  BY <1>1
<1> HIDE DEF ss
<1>7. IsSeq(ss) /\ Len(ss) = n
  BY <1>6, FunctionIsSeq
<1>8. /\ IsSeq(FlattenSeq(ss))
      /\ Range(FlattenSeq(ss)) = UNION {Range(ss[p]) : p \in 1..n}
      /\ Disjointly(ss) => IsInjective(FlattenSeq(ss))
  BY <1>1, <1>4, <1>6, <1>7, FlattenFacts
<1>9. \A p \in 1..n : IsInjective(ss[p]) /\ Range(ss[p]) = Due(p)
  BY <1>1, <1>4, <1>6
<1>10. Disjointly(ss)
  <2>1. ASSUME NEW p \in 1..n, NEW q \in 1..n, p # q, NEW x \in Due(p), x \in Due(q) PROVE FALSE
    <3>1. PICK j \in Meant(plugins, p, a) : x = Target(p, events(p)[j].id)
      OBVIOUS
    <3>2. PICK k \in Meant(plugins, q, a) : x = Target(q, events(q)[k].id)
      BY <2>1
    <3>3. j \in DOMAIN events(p) /\ k \in DOMAIN events(q)
      BY <1>1, <1>2
    <3>4. p \in Plugins /\ q \in Plugins
      BY <1>1
    <3>5. Target(p, events(p)[j].id) = Target(q, events(q)[k].id)
      BY <3>1, <3>2
    <3>6. p = q
      BY <1>3, <3>3, <3>4, <3>5, Zenon
    <3>7. QED BY <2>1, <3>6
  <2>2. \A p, q \in 1..n : p # q => Due(p) \cap Due(q) = {}
    BY <2>1
  <2> HIDE DEF Due
  <2>3. QED BY <1>7, <1>9, <2>2 DEF Disjointly
<1>11. \A p, k : Target(p, IdFor(plugins, p, a, k)) = Target(p, events(p)[k].id)
  BY DEF IdFor, HandlersFor, events
<1>12. ASSUME NEW x \in Range(FlattenSeq(ss))
       PROVE  \E p \in Plugins : \E k \in Meant(plugins, p, a) : x = Target(p, IdFor(plugins, p, a, k))
  <2>1. PICK p \in 1..n : x \in Due(p)
    BY <1>8, <1>9
  <2>2. QED BY <1>1, <1>11, <2>1
<1>13. ASSUME NEW p \in Plugins, NEW k \in Meant(plugins, p, a)
       PROVE  Target(p, IdFor(plugins, p, a, k)) \in Range(FlattenSeq(ss))
  <2>1. Target(p, events(p)[k].id) \in Due(p)
    OBVIOUS
  <2>2. QED BY <1>1, <1>8, <1>9, <1>11, <2>1
<1>14. QED BY <1>5, <1>8, <1>10, <1>12, <1>13 DEF IsDue

------------------------------------------------------------------------------
HandleEvent(m, id) == [arrival |-> m, id |-> id]

Run(m, k) == [arrival |-> m, handler |-> k]

(* Where the m-th arrival is on its way to handler k of p.                 *)
ToBeTold(m, p, k) ==
  \E c \in Callers : /\ sending[c] # Nobody /\ sending[c].arrival = m
                     /\ Target(p, IdFor(plugins, p, arrivals[m], k)) \in Range(sending[c].targets)

Waiting(m, p, k) == HandleEvent(m, IdFor(plugins, p, arrivals[m], k)) \in Range(mailbox[p])

InHand(m, p, k) == busy[p] = <<HandleEvent(m, IdFor(plugins, p, arrivals[m], k))>>

HasRun(m, p, k) == Run(m, k) \in Range(ran[p])

(* It is in one place at a time, and is somewhere until its handler ran.   *)
OnePlace(m, p, k) ==
  /\ ToBeTold(m, p, k) => ~Waiting(m, p, k) /\ ~InHand(m, p, k) /\ ~HasRun(m, p, k)
  /\ Waiting(m, p, k) => ~InHand(m, p, k) /\ ~HasRun(m, p, k)
  /\ InHand(m, p, k) => ~HasRun(m, p, k)

Somewhere(m, p, k) ==
  ToBeTold(m, p, k) \/ Waiting(m, p, k) \/ InHand(m, p, k) \/ HasRun(m, p, k)

(* What is on its way is what is due, once.                                *)
OnlyMeant(config, p, a, id) == \E k \in Meant(config, p, a) : id = IdFor(config, p, a, k)

TellsDue(c) ==
  sending[c] # Nobody =>
    /\ IsSeq(sending[c].targets) /\ sending[c].targets # <<>>
    /\ IsInjective(sending[c].targets)
    /\ \A x \in Range(sending[c].targets) :
         /\ x.plugin \in Plugins /\ x = Target(x.plugin, x.id)
         /\ OnlyMeant(plugins, x.plugin, arrivals[sending[c].arrival], x.id)

EventsDue(p) ==
  /\ IsInjective(mailbox[p])
  /\ \A msg \in Range(mailbox[p]) \cup Range(busy[p]) :
       /\ msg = HandleEvent(msg.arrival, msg.id)
       /\ OnlyMeant(plugins, p, arrivals[msg.arrival], msg.id)

RunsDue(p) ==
  /\ IsInjective(ran[p])
  /\ \A r \in Range(ran[p]) : r = Run(r.arrival, r.handler) /\ r.handler \in Addressed(p, r.arrival)

OnlyDue ==
  /\ \A c \in Callers : TellsDue(c)
  /\ \A p \in Plugins : EventsDue(p) /\ RunsDue(p)

(* Each handler of each arrival is in one place, and one that the arrival  *)
(* is addressed to is somewhere, unless its plugin's actor has stopped.    *)
Placed(m, p) ==
  /\ \A k \in DOMAIN HandlersFor(plugins, p, arrivals[m]) : OnePlace(m, p, k)
  /\ alive[p] => \A k \in Addressed(p, m) : Somewhere(m, p, k)

OInv ==
  /\ IInv /\ Regular(plugins) /\ DOMAIN alive = Plugins
  /\ \A m \in 1..Len(arrivals) : arrivals[m].kind \in {"message", "system"}
  /\ OnlyDue
  /\ \A m \in 1..Len(arrivals), p \in Plugins : Placed(m, p)

(* The first of a sequence that has its elements once is not in the rest.  *)
LEMMA TailElements ==
  ASSUME NEW s, IsSeq(s), s # <<>>
  PROVE  /\ IsSeq(Tail(s)) /\ Head(s) \in Range(s)
         /\ Range(s) = Range(Tail(s)) \cup {Head(s)}
         /\ IsInjective(s) => Head(s) \notin Range(Tail(s)) /\ IsInjective(Tail(s))
<1> DEFINE t == Tail(s)
           n == Len(s)
<1>1. /\ IsSeq(t) /\ n \in Nat \ {0} /\ Len(t) = n - 1 /\ Head(s) = s[1]
      /\ \A i \in 1..n - 1 : t[i] = s[i + 1]
      /\ DOMAIN s = 1..n /\ DOMAIN t = 1..n - 1
  BY TailFacts, SeqFacts
<1> HIDE DEF t, n
<1>2. Head(s) \in Range(s)
  BY <1>1 DEF Range
<1>3. ASSUME NEW x \in Range(t) PROVE \E i \in 1..n : i # 1 /\ i - 1 \in 1..n - 1 /\ x = s[i]
  <2>1. PICK i \in 1..n - 1 : x = t[i]
    BY <1>1 DEF Range
  <2>2. i + 1 \in 1..n /\ i + 1 # 1 /\ i + 1 - 1 \in 1..n - 1 /\ x = s[i + 1]
    BY <1>1, <2>1
  <2>3. QED BY <2>2
<1>4. ASSUME NEW x \in Range(s), x # Head(s) PROVE x \in Range(t)
  <2>1. PICK i \in 1..n : x = s[i]
    BY <1>1 DEF Range
  <2>2. i # 1
    BY <1>1, <1>4, <2>1
  <2>3. i - 1 \in 1..n - 1 /\ i - 1 + 1 = i
    BY <1>1, <2>2
  <2>4. t[i - 1] = x
    BY <1>1, <2>1, <2>3
  <2>5. QED BY <1>1, <2>3, <2>4 DEF Range
<1>5. Range(s) = Range(t) \cup {Head(s)}
  <2>1. ASSUME NEW x \in Range(t) PROVE x \in Range(s)
    BY <1>1, <1>3 DEF Range
  <2>2. QED BY <1>2, <1>4, <2>1
<1>6. ASSUME IsInjective(s) PROVE Head(s) \notin Range(t) /\ IsInjective(t)
  <2>1. \A i, j \in 1..n : s[i] = s[j] => i = j
    BY <1>1, <1>6 DEF IsInjective
  <2>2. 1 \in 1..n
    BY <1>1
  <2>3. Head(s) \notin Range(t)
    BY <1>1, <1>3, <2>1, <2>2
  <2>4. ASSUME NEW i \in 1..n - 1, NEW j \in 1..n - 1, t[i] = t[j] PROVE i = j
    <3>1. i + 1 \in 1..n /\ j + 1 \in 1..n /\ s[i + 1] = s[j + 1]
      BY <1>1, <2>4
    <3>2. i + 1 = j + 1
      BY <2>1, <3>1
    <3>3. QED BY <3>2
  <2>5. QED BY <1>1, <2>3, <2>4 DEF IsInjective
<1>7. QED BY <1>1, <1>2, <1>5, <1>6 DEF t

(* What is appended is one of the elements; it is there once if it was not *)
(* before.                                                                 *)
LEMMA AppendElements ==
  ASSUME NEW s, IsSeq(s), NEW x
  PROVE  /\ IsSeq(Append(s, x)) /\ Range(Append(s, x)) = Range(s) \cup {x}
         /\ IsInjective(s) /\ x \notin Range(s) => IsInjective(Append(s, x))
<1> DEFINE t == Append(s, x)
           n == Len(s)
<1>1. /\ IsSeq(t) /\ n \in Nat /\ DOMAIN s = 1..n /\ DOMAIN t = 1..n + 1
      /\ \A i \in 1..n : t[i] = s[i]
      /\ t[n + 1] = x
  BY AppendFacts, SeqFacts
<1> HIDE DEF t, n
<1>2. 1..n + 1 = (1..n) \cup {n + 1} /\ n + 1 \notin 1..n
  BY <1>1
<1>3. Range(t) = Range(s) \cup {x}
  <2>1. ASSUME NEW y \in Range(t) PROVE y \in Range(s) \cup {x}
    BY <1>1, <1>2 DEF Range
  <2>2. ASSUME NEW y \in Range(s) PROVE y \in Range(t)
    <3>1. PICK i \in 1..n : y = s[i]
      BY <1>1 DEF Range
    <3>2. i \in DOMAIN t /\ t[i] = y
      BY <1>1, <1>2, <3>1
    <3>3. QED BY <3>2 DEF Range
  <2>3. x \in Range(t)
    BY <1>1, <1>2 DEF Range
  <2>4. QED BY <2>1, <2>2, <2>3
<1>4. ASSUME IsInjective(s), x \notin Range(s) PROVE IsInjective(t)
  <2>1. \A i, j \in 1..n : s[i] = s[j] => i = j
    BY <1>1, <1>4 DEF IsInjective
  <2>2. \A i \in 1..n : s[i] # x
    BY <1>1, <1>4 DEF Range
  <2>3. \A i, j \in DOMAIN t : t[i] = t[j] => i = j
    BY <1>1, <1>2, <2>1, <2>2
  <2>4. QED BY <2>3 DEF IsInjective
<1>5. QED BY <1>1, <1>3, <1>4 DEF t

(* Of a plugin's handlers for an arrival no two have one id.               *)
LEMMA IdsApart ==
  ASSUME Regular(plugins), NEW p \in Plugins, NEW a,
         NEW j \in DOMAIN HandlersFor(plugins, p, a), NEW k \in DOMAIN HandlersFor(plugins, p, a),
         IdFor(plugins, p, a, j) = IdFor(plugins, p, a, k)
  PROVE  j = k
<1>1. CASE a.kind = "message"
  BY <1>1 DEF Regular, HandlersFor, IdFor
<1>2. CASE a.kind # "message"
  BY <1>2 DEF Regular, HandlersFor, IdFor
<1>3. QED BY <1>1, <1>2

(* What an arrival is addressed to is meant, and what is meant exists.     *)
LEMMA AddressedIsMeant ==
  ASSUME NEW p, NEW m
  PROVE  /\ Addressed(p, m) \subseteq Meant(plugins, p, arrivals[m])
         /\ \A a : Meant(plugins, p, a) \subseteq DOMAIN HandlersFor(plugins, p, a)
<1>1. \A a : Meant(plugins, p, a) \subseteq DOMAIN HandlersFor(plugins, p, a)
  BY DEF Meant
<1>2. ASSUME NEW k \in Addressed(p, m) PROVE k \in Meant(plugins, p, arrivals[m])
  <2>1. CASE arrivals[m].kind = "message"
    BY <1>2, <2>1 DEF Addressed, Meant, HandlersFor
  <2>2. CASE arrivals[m].kind # "message"
    BY <1>2, <2>2 DEF Addressed, Meant, HandlersFor
  <2>3. QED BY <2>1, <2>2
<1>3. QED BY <1>1, <1>2

------------------------------------------------------------------------------
(* Everything on its way to a handler, or run by it, is an arrival.        *)
LEMMA OnWayKnown ==
  ASSUME IInv, NEW p \in Plugins
  PROVE  /\ \A msg \in Range(mailbox[p]) \cup Range(busy[p]) : msg.arrival \in 1..Len(arrivals)
         /\ \A r \in Range(ran[p]) : r.arrival \in 1..Len(arrivals)
         /\ \A msg : busy[p] = <<msg>> => msg \in Range(busy[p])
         /\ busy[p] # <<>> => Range(busy[p]) = {busy[p][1]}
<1>1. /\ DOMAIN mailbox[p] = 1..Len(mailbox[p])
      /\ DOMAIN ran[p] = 1..Len(ran[p])
  BY SeqFacts DEF IInv, Shapes
<1>2. busy[p] # <<>> => Range(busy[p]) = {busy[p][1]}
  <2>1. busy[p] = <<>> \/ busy[p] = <<busy[p][1]>>
    BY DEF IInv, Shapes
  <2>2. Range(<<busy[p][1]>>) = {busy[p][1]}
    BY ShortSeqs
  <2>3. QED BY <2>1, <2>2
<1>3. busy[p] = <<>> => Range(busy[p]) = {}
  BY ShortSeqs
<1>4. \A msg \in Range(mailbox[p]) : msg.arrival \in 1..Len(arrivals)
  BY <1>1 DEF Range, IInv, Known
<1>5. \A r \in Range(ran[p]) : r.arrival \in 1..Len(arrivals)
  BY <1>1 DEF Range, IInv, Known
<1>6. \A msg \in Range(busy[p]) : msg.arrival \in 1..Len(arrivals)
  <2>1. busy[p] # <<>> => busy[p][1].arrival \in 1..Len(arrivals)
    BY DEF IInv, Known
  <2>2. QED BY <1>2, <1>3, <2>1
<1>7. \A msg : busy[p] = <<msg>> => msg \in Range(busy[p])
  BY ShortSeqs
<1>8. \A msg \in Range(mailbox[p]) \cup Range(busy[p]) : msg.arrival \in 1..Len(arrivals)
  BY <1>4, <1>6
<1>9. QED BY <1>2, <1>5, <1>7, <1>8

(* A new arrival is about to be told to every handler it is meant for, and *)
(* to no other, and nothing of it is anywhere else.                        *)
LEMMA ArriveOnce ==
  ASSUME OInv, NEW c \in Callers, NEW kind \in {"message", "system"}, NEW what, NEW targets,
         Arrive(c, kind, what, targets),
         IsDue(targets, [kind |-> kind, what |-> what, caller |-> c])
  PROVE  OInv'
<1> DEFINE a == [kind |-> kind, what |-> what, caller |-> c]
           n == Len(arrivals)
           s == [arrival |-> n + 1, targets |-> targets]
<1>1. /\ IsSeq(arrivals') /\ n \in Nat /\ Len(arrivals') = n + 1
      /\ \A i \in 1..n : arrivals'[i] = arrivals[i]
      /\ arrivals'[n + 1] = a
      /\ \A i \in 1..n : i # n + 1
  BY AppendFacts DEF Arrive, OInv, IInv, Shapes
<1>2. /\ UNCHANGED <<plugins, mailbox, busy, alive, ran>> /\ sending[c] = Nobody
      /\ \A d \in Callers : d # c => sending'[d] = sending[d]
      /\ sending'[c] = IF targets = <<>> THEN Nobody ELSE s
  BY <1>1 DEF Arrive, OInv, IInv, Shapes
<1>3. /\ a.kind = kind /\ s.arrival = n + 1 /\ s.targets = targets /\ s # Nobody
  BY <1>1 DEF Nobody
<1>4. /\ IsSeq(targets) /\ IsInjective(targets)
      /\ \A x \in Range(targets) :
           \E p \in Plugins : \E k \in Meant(plugins, p, a) : x = Target(p, IdFor(plugins, p, a, k))
      /\ \A p \in Plugins : \A k \in Meant(plugins, p, a) : Target(p, IdFor(plugins, p, a, k)) \in Range(targets)
  BY DEF IsDue
<1>5. IInv'
  BY ArriveKeeps DEF OInv
<1> HIDE DEF a, s
<1>6. \A m \in 1..n, p \in Plugins : Addressed(p, m)' = Addressed(p, m)
  BY <1>1, <1>2 DEF Addressed
<1>7. \A d \in Callers : sending[d] # Nobody => sending[d].arrival \in 1..n
  BY DEF OInv, IInv, Known
<1>8. ASSUME NEW p \in Plugins
      PROVE  /\ \A msg \in Range(mailbox[p]) \cup Range(busy[p]) : msg.arrival \in 1..n
             /\ \A r \in Range(ran[p]) : r.arrival \in 1..n
             /\ \A msg : busy[p] = <<msg>> => msg \in Range(busy[p])
  BY OnWayKnown DEF OInv
<1>9. ASSUME NEW d \in Callers PROVE TellsDue(d)'
  <2>1. CASE d # c /\ sending[d] # Nobody
    <3>1. sending'[d] = sending[d] /\ sending[d].arrival \in 1..n
      BY <1>2, <1>7, <2>1
    <3>2. arrivals'[sending[d].arrival] = arrivals[sending[d].arrival]
      BY <1>1, <3>1
    <3>3. TellsDue(d)
      BY DEF OInv, OnlyDue
    <3>4. QED BY <1>2, <3>1, <3>2, <3>3 DEF TellsDue
  <2>2. CASE d # c /\ sending[d] = Nobody
    BY <1>2, <2>2 DEF TellsDue
  <2>3. CASE d = c /\ targets = <<>>
    BY <1>2, <2>3 DEF TellsDue, Nobody
  <2>4. CASE d = c /\ targets # <<>>
    <3>1. sending'[c] = s
      BY <1>2, <2>4
    <3>2. ASSUME NEW x \in Range(targets)
          PROVE  x.plugin \in Plugins /\ x = Target(x.plugin, x.id) /\ OnlyMeant(plugins, x.plugin, a, x.id)
      <4>1. PICK p \in Plugins : \E k \in Meant(plugins, p, a) : x = Target(p, IdFor(plugins, p, a, k))
        BY <1>4
      <4>2. PICK k \in Meant(plugins, p, a) : x = Target(p, IdFor(plugins, p, a, k))
        BY <4>1
      <4>3. x.plugin = p /\ x.id = IdFor(plugins, p, a, k)
        BY <4>2 DEF Target
      <4>4. QED BY <4>2, <4>3 DEF OnlyMeant
    <3>3. QED BY <1>1, <1>2, <1>3, <1>4, <2>4, <3>1, <3>2 DEF TellsDue
  <2>5. QED BY <2>1, <2>2, <2>3, <2>4
<1>10. ASSUME NEW p \in Plugins PROVE EventsDue(p)' /\ RunsDue(p)'
  <2>1. EventsDue(p) /\ RunsDue(p)
    BY DEF OInv, OnlyDue
  <2>2. EventsDue(p)'
    BY <1>1, <1>2, <1>8, <2>1 DEF EventsDue
  <2>3. RunsDue(p)'
    BY <1>2, <1>6, <1>8, <2>1 DEF RunsDue
  <2>4. QED BY <2>2, <2>3
<1>11. ASSUME NEW m \in 1..n, NEW p \in Plugins PROVE Placed(m, p)'
  <2>1. arrivals'[m] = arrivals[m] /\ Addressed(p, m)' = Addressed(p, m) /\ m # n + 1
    BY <1>1, <1>6
  <2>2. ASSUME NEW k
        PROVE  /\ ToBeTold(m, p, k)' = ToBeTold(m, p, k)
               /\ Waiting(m, p, k)' = Waiting(m, p, k)
               /\ InHand(m, p, k)' = InHand(m, p, k)
               /\ HasRun(m, p, k)' = HasRun(m, p, k)
    <3> DEFINE t == Target(p, IdFor(plugins, p, arrivals[m], k))
               tells(sent) == sent # Nobody /\ sent.arrival = m /\ t \in Range(sent.targets)
    <3>1. ToBeTold(m, p, k) <=> \E d \in Callers : tells(sending[d])
      BY DEF ToBeTold
    <3>2. ToBeTold(m, p, k)' <=> \E d \in Callers : tells(sending'[d])
      BY <1>2, <2>1 DEF ToBeTold
    <3>3. ~tells(sending[c]) /\ ~tells(sending'[c])
      BY <1>2, <1>3, <2>1
    <3> HIDE DEF tells
    <3>4. ToBeTold(m, p, k)' = ToBeTold(m, p, k)
      <4>1. ToBeTold(m, p, k)' <=> ToBeTold(m, p, k)
        BY <1>2, <3>1, <3>2, <3>3
      <4>2. QED BY <4>1 DEF ToBeTold
    <3>5. QED BY <1>2, <2>1, <3>4 DEF Waiting, InHand, HasRun
  <2>3. Placed(m, p)
    BY DEF OInv
  <2>4. QED BY <1>2, <2>1, <2>2, <2>3 DEF Placed, OnePlace, Somewhere
<1>12. ASSUME NEW m, m = n + 1, NEW p \in Plugins PROVE Placed(m, p)'
  <2>1. \A k : ~Waiting(m, p, k)' /\ ~InHand(m, p, k)' /\ ~HasRun(m, p, k)'
    BY <1>1, <1>2, <1>8, <1>12 DEF Waiting, InHand, HasRun, HandleEvent, Run
  <2>2. Addressed(p, m)' \subseteq Meant(plugins, p, a)
    <3>1. Addressed(p, m)' =
            IF a.kind = "message"
            THEN {k \in DOMAIN plugins[p].messages : a.what \in plugins[p].messages[k].rule}
            ELSE {k \in DOMAIN plugins[p].events : plugins[p].events[k].type = a.what}
      BY <1>1, <1>2, <1>12 DEF Addressed
    <3>2. CASE a.kind = "message"
      BY <3>1, <3>2 DEF Meant, HandlersFor
    <3>3. CASE a.kind # "message"
      BY <3>1, <3>3 DEF Meant, HandlersFor
    <3>4. QED BY <3>2, <3>3
  <2>3. ASSUME NEW k \in Meant(plugins, p, a) PROVE ToBeTold(m, p, k)'
    <3>1. Target(p, IdFor(plugins, p, a, k)) \in Range(targets)
      BY <1>4
    <3>2. targets # <<>>
      BY <3>1, ShortSeqs
    <3>3. sending'[c] = s
      BY <1>2, <3>2
    <3>4. QED BY <1>1, <1>2, <1>3, <1>12, <3>1, <3>3 DEF ToBeTold
  <2>4. QED BY <2>1, <2>2, <2>3 DEF Placed, OnePlace, Somewhere
<1>13. ASSUME NEW m \in 1..Len(arrivals')
       PROVE  arrivals'[m].kind \in {"message", "system"} /\ \A p \in Plugins : Placed(m, p)'
  <2>1. CASE m = n + 1
    BY <1>1, <1>3, <1>12, <2>1
  <2>2. CASE m \in 1..n
    <3>1. arrivals'[m] = arrivals[m] /\ arrivals[m].kind \in {"message", "system"}
      BY <1>1, <2>2 DEF OInv
    <3>2. QED BY <1>11, <2>2, <3>1
  <2>3. QED BY <1>1, <2>1, <2>2
<1>14. OnlyDue'
  BY <1>9, <1>10 DEF OnlyDue
<1>15. Regular(plugins)'
  BY <1>2 DEF OInv
<1>16. QED BY <1>2, <1>5, <1>13, <1>14, <1>15 DEF OInv


(* A tell that is over, sent or given up, is the one that was the first.   *)
LEMMA AdvanceOnce ==
  ASSUME OInv, NEW c \in Callers, sending[c] # Nobody, Advance(c)
  PROVE  /\ UNCHANGED <<plugins, arrivals, busy, alive, ran>>
         /\ \A d \in Callers : TellsDue(d)'
         /\ \A m, p, k :
              ToBeTold(m, p, k)' <=>
                /\ ToBeTold(m, p, k)
                /\ ~(/\ m = sending[c].arrival
                     /\ Target(p, IdFor(plugins, p, arrivals[m], k)) = Head(sending[c].targets))
<1> DEFINE t == sending[c].targets
           rest == Tail(t)
           x == Head(t)
           a == sending[c].arrival
           s == [arrival |-> a, targets |-> rest]
<1>1. /\ sending[c] = [arrival |-> a, targets |-> t]
      /\ a \in 1..Len(arrivals) /\ arrivals[a].caller = c
      /\ \A d \in Callers : sending[d] # Nobody => arrivals[sending[d].arrival].caller = d
      /\ DOMAIN sending = Callers
  BY DEF OInv, IInv, Shapes, Known
<1>2. TellsDue(c)
  BY DEF OInv, OnlyDue
<1>3. /\ IsSeq(t) /\ t # <<>> /\ IsInjective(t)
      /\ \A y \in Range(t) : /\ y.plugin \in Plugins /\ y = Target(y.plugin, y.id)
                             /\ OnlyMeant(plugins, y.plugin, arrivals[a], y.id)
  BY <1>2 DEF TellsDue
<1>4. /\ IsSeq(rest) /\ IsInjective(rest) /\ x \notin Range(rest)
      /\ Range(t) = Range(rest) \cup {x}
  BY <1>3, TailElements
<1>5. /\ UNCHANGED <<plugins, arrivals, busy, alive, ran>>
      /\ \A d \in Callers : d # c => sending'[d] = sending[d]
      /\ sending'[c] = IF rest = <<>> THEN Nobody ELSE s
  <2>1. sending' = [sending EXCEPT ![c] =
                      IF rest = <<>> THEN Nobody ELSE [sending[c] EXCEPT !.targets = rest]]
    BY DEF Advance
  <2> HIDE DEF rest
  <2>2. [sending[c] EXCEPT !.targets = rest] = s
    BY <1>1
  <2>3. QED BY <1>1, <2>1, <2>2 DEF Advance
<1>6. s.arrival = a /\ s.targets = rest /\ (rest # <<>> => s # Nobody)
  BY DEF Nobody
<1> HIDE DEF t, rest, x, a, s
<1>7. ASSUME NEW d \in Callers PROVE TellsDue(d)'
  <2>1. CASE d # c
    <3>1. TellsDue(d)
      BY DEF OInv, OnlyDue
    <3>2. QED BY <1>5, <2>1, <3>1 DEF TellsDue
  <2>2. CASE d = c /\ rest = <<>>
    BY <1>5, <2>2 DEF TellsDue
  <2>3. CASE d = c /\ rest # <<>>
    <3>1. sending'[d] = s
      BY <1>5, <2>3
    <3>2. \A y \in Range(rest) : y \in Range(t)
      BY <1>4
    <3>3. QED BY <1>3, <1>4, <1>5, <1>6, <2>3, <3>1, <3>2 DEF TellsDue
  <2>4. QED BY <2>1, <2>2, <2>3
<1>8. ASSUME NEW m, NEW p, NEW k
      PROVE  ToBeTold(m, p, k)' <=>
               ToBeTold(m, p, k) /\ ~(m = a /\ Target(p, IdFor(plugins, p, arrivals[m], k)) = x)
  <2> DEFINE y == Target(p, IdFor(plugins, p, arrivals[m], k))
             tells(sent) == sent # Nobody /\ sent.arrival = m /\ y \in Range(sent.targets)
  <2>1. ToBeTold(m, p, k) <=> \E d \in Callers : tells(sending[d])
    BY DEF ToBeTold
  <2>2. ToBeTold(m, p, k)' <=> \E d \in Callers : tells(sending'[d])
    BY <1>5 DEF ToBeTold
  <2>3. \A d \in Callers : d # c => (tells(sending'[d]) <=> tells(sending[d]))
    BY <1>5
  <2>4. \A d \in Callers : d # c /\ tells(sending[d]) => m # a
    BY <1>1
  <2>5. tells(sending[c]) <=> m = a /\ y \in Range(t)
    BY <1>1 DEF t, a
  <2>6. tells(sending'[c]) <=> m = a /\ y \in Range(rest)
    <3>1. CASE rest = <<>>
      BY <1>5, <3>1, ShortSeqs
    <3>2. CASE rest # <<>>
      BY <1>5, <1>6, <3>2
    <3>3. QED BY <3>1, <3>2
  <2> HIDE DEF tells, y
  <2>7. tells(sending'[c]) <=> tells(sending[c]) /\ ~(m = a /\ y = x)
    BY <1>4, <2>5, <2>6
  <2>8. (\E d \in Callers : tells(sending'[d])) <=> (\E d \in Callers : tells(sending[d])) /\ ~(m = a /\ y = x)
    BY <2>3, <2>4, <2>7
  <2>9. QED BY <2>1, <2>2, <2>8 DEF y
<1>9. QED BY <1>5, <1>7, <1>8 DEF x, t, a

(* A tell to a stopped actor is of no handler that is to run.              *)
LEMMA TellStoppedOnce ==
  ASSUME OInv, NEW c \in Callers, TellStopped(c)
  PROVE  OInv'
<1>1. /\ sending[c] # Nobody /\ Advance(c) /\ mailbox' = mailbox
      /\ ~alive[Head(sending[c].targets).plugin]
  BY DEF TellStopped
<1>2. /\ UNCHANGED <<plugins, arrivals, mailbox, busy, alive, ran>>
      /\ \A d \in Callers : TellsDue(d)'
      /\ \A m, p, k :
           ToBeTold(m, p, k)' <=>
             /\ ToBeTold(m, p, k)
             /\ ~(/\ m = sending[c].arrival
                  /\ Target(p, IdFor(plugins, p, arrivals[m], k)) = Head(sending[c].targets))
  BY <1>1, AdvanceOnce
<1>3. IInv'
  BY TellStoppedKeeps DEF OInv
<1>4. ASSUME NEW p \in Plugins PROVE EventsDue(p)' /\ RunsDue(p)'
  <2>1. EventsDue(p) /\ RunsDue(p)
    BY DEF OInv, OnlyDue
  <2>2. QED BY <1>2, <2>1 DEF EventsDue, RunsDue, Addressed
<1>5. ASSUME NEW m \in 1..Len(arrivals), NEW p \in Plugins PROVE Placed(m, p)'
  <2>1. Placed(m, p)
    BY DEF OInv
  <2>2. ASSUME NEW k
        PROVE  /\ Waiting(m, p, k)' <=> Waiting(m, p, k)
               /\ InHand(m, p, k)' <=> InHand(m, p, k)
               /\ HasRun(m, p, k)' <=> HasRun(m, p, k)
               /\ ToBeTold(m, p, k)' => ToBeTold(m, p, k)
               /\ alive[p] /\ ToBeTold(m, p, k) => ToBeTold(m, p, k)'
    <3>1. /\ Waiting(m, p, k)' <=> Waiting(m, p, k)
          /\ InHand(m, p, k)' <=> InHand(m, p, k)
          /\ HasRun(m, p, k)' <=> HasRun(m, p, k)
      BY <1>2 DEF Waiting, InHand, HasRun
    <3>2. \A i : Target(p, i).plugin = p
      BY DEF Target
    <3>3. alive[p] => Target(p, IdFor(plugins, p, arrivals[m], k)) # Head(sending[c].targets)
      BY <1>1, <3>2
    <3>4. QED BY <1>2, <3>1, <3>3
  <2>3. Addressed(p, m)' = Addressed(p, m)
    BY <1>2 DEF Addressed
  <2>4. \A k \in DOMAIN HandlersFor(plugins, p, arrivals[m]) : OnePlace(m, p, k)'
    BY <2>1, <2>2 DEF Placed, OnePlace
  <2>5. alive[p] => \A k \in Addressed(p, m) : Somewhere(m, p, k)'
    BY <2>1, <2>2 DEF Placed, Somewhere
  <2>6. QED BY <1>2, <2>3, <2>4, <2>5 DEF Placed
<1>6. OnlyDue'
  BY <1>2, <1>4 DEF OnlyDue
<1>7. QED BY <1>2, <1>3, <1>5, <1>6 DEF OInv

(* A tell puts in the mailbox what was to be told, and was nowhere else.   *)
LEMMA TellOnce ==
  ASSUME OInv, NEW c \in Callers, Tell(c)
  PROVE  OInv'
<1> DEFINE x == Head(sending[c].targets)
           a == sending[c].arrival
           q == x.plugin
           msg == HandleEvent(a, x.id)
           First(m, p, k) == m = a /\ Target(p, IdFor(plugins, p, arrivals[m], k)) = x
<1>1. /\ sending[c] # Nobody /\ Advance(c) /\ DOMAIN mailbox = Plugins
      /\ mailbox' = [mailbox EXCEPT ![q] = Append(@, msg)]
  BY DEF Tell, HandleEvent, OInv, IInv, Shapes
<1>2. /\ UNCHANGED <<plugins, arrivals, busy, alive, ran>>
      /\ \A d \in Callers : TellsDue(d)'
      /\ \A m, p, k : ToBeTold(m, p, k)' <=> ToBeTold(m, p, k) /\ ~First(m, p, k)
  BY <1>1, AdvanceOnce
<1>3. IInv'
  BY TellKeeps DEF OInv
<1>4. /\ q \in Plugins /\ x = Target(q, x.id) /\ x \in Range(sending[c].targets)
      /\ OnlyMeant(plugins, q, arrivals[a], x.id) /\ a \in 1..Len(arrivals)
  <2>1. TellsDue(c)
    BY DEF OInv, OnlyDue
  <2>2. IsSeq(sending[c].targets) /\ sending[c].targets # <<>>
    BY <1>1, <2>1 DEF TellsDue
  <2>3. x \in Range(sending[c].targets)
    BY <2>2, TailElements
  <2>4. a \in 1..Len(arrivals)
    BY <1>1 DEF OInv, IInv, Known
  <2>5. QED BY <1>1, <2>1, <2>3, <2>4 DEF TellsDue
<1>5. \A m, p, k : First(m, p, k) => ToBeTold(m, p, k)
  BY <1>1, <1>4 DEF ToBeTold
<1> HIDE DEF x, a, q, msg, First
<1>6. msg \notin Range(mailbox[q])
  <2>1. PICK k \in Meant(plugins, q, arrivals[a]) : x.id = IdFor(plugins, q, arrivals[a], k)
    BY <1>4 DEF OnlyMeant
  <2>2. First(a, q, k)
    BY <1>4, <2>1 DEF First
  <2>3. k \in DOMAIN HandlersFor(plugins, q, arrivals[a])
    BY AddressedIsMeant
  <2>4. OnePlace(a, q, k)
    BY <1>4, <2>3 DEF OInv, Placed
  <2>5. ~Waiting(a, q, k)
    BY <1>5, <2>2, <2>4 DEF OnePlace
  <2>6. QED BY <2>1, <2>5 DEF Waiting, msg
<1>7. /\ \A p \in Plugins : p # q => mailbox'[p] = mailbox[p]
      /\ Range(mailbox'[q]) = Range(mailbox[q]) \cup {msg}
      /\ IsInjective(mailbox[q]) => IsInjective(mailbox'[q])
  <2>1. IsSeq(mailbox[q])
    BY <1>4 DEF OInv, IInv, Shapes
  <2>2. mailbox'[q] = Append(mailbox[q], msg)
    BY <1>1, <1>4
  <2>3. QED BY <1>1, <1>6, <2>1, <2>2, AppendElements
<1>8. ASSUME NEW p \in Plugins PROVE EventsDue(p)' /\ RunsDue(p)'
  <2>1. EventsDue(p) /\ RunsDue(p)
    BY DEF OInv, OnlyDue
  <2>2. msg = HandleEvent(msg.arrival, msg.id) /\ msg.arrival = a /\ msg.id = x.id
    BY DEF HandleEvent, msg
  <2>3. RunsDue(p)'
    BY <1>2, <2>1 DEF RunsDue, Addressed
  <2>4. CASE p # q
    BY <1>2, <1>7, <2>1, <2>3, <2>4 DEF EventsDue
  <2>5. CASE p = q
    BY <1>2, <1>4, <1>7, <2>1, <2>2, <2>3, <2>5 DEF EventsDue
  <2>6. QED BY <2>4, <2>5
<1>9. ASSUME NEW m, NEW p \in Plugins, NEW k
      PROVE  Waiting(m, p, k)' <=> Waiting(m, p, k) \/ First(m, p, k)
  <2> DEFINE i == IdFor(plugins, p, arrivals[m], k)
  <2>1. First(m, p, k) <=> p = q /\ HandleEvent(m, i) = msg
    <3>1. Target(p, i) = x <=> p = q /\ i = x.id
      BY <1>4 DEF Target
    <3>2. HandleEvent(m, i) = msg <=> m = a /\ i = x.id
      BY DEF HandleEvent, msg
    <3>3. QED BY <3>1, <3>2 DEF First
  <2>2. Waiting(m, p, k)' <=> HandleEvent(m, i) \in Range(mailbox'[p])
    BY <1>2 DEF Waiting, HandleEvent
  <2>3. Waiting(m, p, k) <=> HandleEvent(m, i) \in Range(mailbox[p])
    BY DEF Waiting
  <2> HIDE DEF i
  <2>4. QED BY <1>7, <2>1, <2>2, <2>3
<1>10. ASSUME NEW m \in 1..Len(arrivals), NEW p \in Plugins PROVE Placed(m, p)'
  <2>1. Placed(m, p)
    BY DEF OInv
  <2>2. ASSUME NEW k
        PROVE  /\ Waiting(m, p, k)' <=> Waiting(m, p, k) \/ First(m, p, k)
               /\ InHand(m, p, k)' <=> InHand(m, p, k)
               /\ HasRun(m, p, k)' <=> HasRun(m, p, k)
               /\ ToBeTold(m, p, k)' <=> ToBeTold(m, p, k) /\ ~First(m, p, k)
               /\ First(m, p, k) => ToBeTold(m, p, k)
    <3>1. /\ InHand(m, p, k)' <=> InHand(m, p, k)
          /\ HasRun(m, p, k)' <=> HasRun(m, p, k)
      BY <1>2 DEF InHand, HasRun
    <3>2. QED BY <1>2, <1>5, <1>9, <3>1
  <2>3. Addressed(p, m)' = Addressed(p, m)
    BY <1>2 DEF Addressed
  <2>4. \A k \in DOMAIN HandlersFor(plugins, p, arrivals[m]) : OnePlace(m, p, k)'
    BY <2>1, <2>2 DEF Placed, OnePlace
  <2>5. alive[p] => \A k \in Addressed(p, m) : Somewhere(m, p, k)'
    BY <2>1, <2>2 DEF Placed, Somewhere
  <2>6. QED BY <1>2, <2>3, <2>4, <2>5 DEF Placed
<1>11. OnlyDue'
  BY <1>2, <1>8 DEF OnlyDue
<1>12. QED BY <1>2, <1>3, <1>10, <1>11 DEF OInv


(* What is received is in hand, and no more in the mailbox.                *)
LEMMA ReceiveOnce ==
  ASSUME OInv, NEW q \in Plugins, Receive(q)
  PROVE  OInv'
<1> DEFINE msg == Head(mailbox[q])
<1>1. /\ UNCHANGED <<plugins, arrivals, sending, alive, ran>>
      /\ busy[q] = <<>> /\ mailbox[q] # <<>> /\ IsSeq(mailbox[q])
      /\ busy'[q] = <<msg>> /\ mailbox'[q] = Tail(mailbox[q])
      /\ \A p \in Plugins : p # q => busy'[p] = busy[p] /\ mailbox'[p] = mailbox[p]
  BY DEF Receive, OInv, IInv, Shapes
<1>2. IInv'
  BY ReceiveKeeps DEF OInv
<1>3. EventsDue(q) /\ RunsDue(q)
  BY DEF OInv, OnlyDue
<1>4. /\ msg \in Range(mailbox[q]) /\ msg \notin Range(mailbox'[q])
      /\ Range(mailbox[q]) = Range(mailbox'[q]) \cup {msg}
      /\ IsInjective(mailbox'[q])
  BY <1>1, <1>3, TailElements DEF EventsDue
<1> HIDE DEF msg
<1>5. Range(busy'[q]) = {msg}
  BY <1>1, ShortSeqs
<1>6. ASSUME NEW p \in Plugins PROVE EventsDue(p)' /\ RunsDue(p)'
  <2>1. EventsDue(p) /\ RunsDue(p)
    BY DEF OInv, OnlyDue
  <2>2. RunsDue(p)'
    BY <1>1, <2>1 DEF RunsDue, Addressed
  <2>3. CASE p # q
    BY <1>1, <2>1, <2>2, <2>3 DEF EventsDue
  <2>4. CASE p = q
    <3>1. \A e \in Range(mailbox'[q]) \cup Range(busy'[q]) : e \in Range(mailbox[q])
      BY <1>4, <1>5
    <3>2. QED BY <1>1, <1>4, <2>1, <2>2, <2>4, <3>1 DEF EventsDue
  <2>5. QED BY <2>3, <2>4
<1>7. ASSUME NEW m, NEW k
      PROVE  /\ Waiting(m, q, k) <=> Waiting(m, q, k)' \/ InHand(m, q, k)'
             /\ ~(Waiting(m, q, k)' /\ InHand(m, q, k)')
             /\ ~InHand(m, q, k)
  <2> DEFINE e == HandleEvent(m, IdFor(plugins, q, arrivals[m], k))
  <2>1. /\ Waiting(m, q, k) <=> e \in Range(mailbox[q])
        /\ InHand(m, q, k) <=> busy[q] = <<e>>
    BY DEF Waiting, InHand
  <2>2. /\ Waiting(m, q, k)' <=> e \in Range(mailbox'[q])
        /\ InHand(m, q, k)' <=> busy'[q] = <<e>>
    BY <1>1 DEF Waiting, InHand, HandleEvent
  <2> HIDE DEF e
  <2>3. <<msg>> = <<e>> <=> msg = e
    OBVIOUS
  <2>4. <<>> # <<e>>
    OBVIOUS
  <2>5. QED BY <1>1, <1>4, <2>1, <2>2, <2>3, <2>4
<1>8. ASSUME NEW m \in 1..Len(arrivals), NEW p \in Plugins PROVE Placed(m, p)'
  <2>1. Placed(m, p) /\ Addressed(p, m)' = Addressed(p, m)
    BY <1>1 DEF OInv, Addressed
  <2>2. ASSUME NEW k
        PROVE  /\ ToBeTold(m, p, k)' <=> ToBeTold(m, p, k)
               /\ HasRun(m, p, k)' <=> HasRun(m, p, k)
               /\ p # q => (Waiting(m, p, k)' <=> Waiting(m, p, k))
               /\ p # q => (InHand(m, p, k)' <=> InHand(m, p, k))
    BY <1>1 DEF ToBeTold, Waiting, InHand, HasRun
  <2>3. \A k \in DOMAIN HandlersFor(plugins, p, arrivals[m]) : OnePlace(m, p, k)'
    BY <1>7, <2>1, <2>2 DEF Placed, OnePlace
  <2>4. alive[p] => \A k \in Addressed(p, m) : Somewhere(m, p, k)'
    BY <1>7, <2>1, <2>2 DEF Placed, Somewhere
  <2>5. QED BY <1>1, <2>1, <2>3, <2>4 DEF Placed
<1>9. OnlyDue'
  <2>1. ASSUME NEW c \in Callers PROVE TellsDue(c)'
    BY <1>1 DEF OInv, OnlyDue, TellsDue
  <2>2. QED BY <1>6, <2>1 DEF OnlyDue
<1>10. QED BY <1>1, <1>2, <1>8, <1>9 DEF OInv

(* The one of a set of one number.                                         *)
LEMMA NthOfOne ==
  ASSUME NEW k \in Nat
  PROVE  Cardinality({k}) = 1 /\ Nth({k}, 1) = k
<1>1. {j \in {k} : j < k} = {}
  OBVIOUS
<1>2. Cardinality({j \in {k} : j < k}) = 1 - 1
  BY <1>1, FS_EmptySet
<1>3. \A i \in {k} : i = k
  OBVIOUS
<1>4. QED BY <1>2, <1>3, FS_Singleton DEF Nth

(* What is in hand is meant for one handler of its plugin, which it runs   *)
(* if it is addressed to it, and it runs no other.                         *)
LEMMA RunsTheOne ==
  ASSUME OInv, NEW q \in Plugins, busy[q] # <<>>
  PROVE  \E m \in 1..Len(arrivals) : \E k \in DOMAIN HandlersFor(plugins, q, arrivals[m]) :
           /\ busy[q] = <<HandleEvent(m, IdFor(plugins, q, arrivals[m], k))>>
           /\ Runnable(q) = IF k \in Addressed(q, m) THEN <<Run(m, k)>> ELSE <<>>
<1> DEFINE msg == busy[q][1]
           m == msg.arrival
           a == arrivals[m]
<1>1. /\ busy[q] = <<msg>> /\ m \in 1..Len(arrivals) /\ plugins \in Configurations
      /\ Regular(plugins)
  BY DEF OInv, IInv, Shapes, Known
<1>2. EventsDue(q) /\ msg \in Range(busy[q])
  BY <1>1, OnWayKnown DEF OInv, OnlyDue
<1>3. msg = HandleEvent(m, msg.id) /\ OnlyMeant(plugins, q, a, msg.id)
  BY <1>2 DEF EventsDue
<1>4. PICK k \in Meant(plugins, q, a) : msg.id = IdFor(plugins, q, a, k)
  BY <1>3 DEF OnlyMeant
<1>5. k \in DOMAIN HandlersFor(plugins, q, a)
  BY AddressedIsMeant
<1>6. DOMAIN HandlersFor(plugins, q, a) \subseteq Nat
  <2>1. IsSeq(plugins[q].messages) /\ IsSeq(plugins[q].events)
    BY <1>1, LayoutFacts
  <2>2. \A n \in Nat : 1..n \subseteq Nat
    OBVIOUS
  <2>3. DOMAIN plugins[q].messages \subseteq Nat /\ DOMAIN plugins[q].events \subseteq Nat
    BY <2>1, <2>2, SeqFacts
  <2>4. QED BY <2>3 DEF HandlersFor
<1>7. \A j \in DOMAIN HandlersFor(plugins, q, a) : IdFor(plugins, q, a, j) = msg.id => j = k
  BY <1>1, <1>4, <1>5, IdsApart
<1> DEFINE ks == IF a.kind = "message" THEN Matched(q, msg) ELSE MatchedEvents(q, msg)
<1>8. ks = IF k \in Addressed(q, m) THEN {k} ELSE {}
  <2>1. CASE a.kind = "message"
    <3> DEFINE h == plugins[q].messages[k]
    <3>1. \A j \in DOMAIN plugins[q].messages : plugins[q].messages[j].id = msg.id <=> j = k
      BY <1>4, <1>5, <1>7, <2>1 DEF HandlersFor, IdFor
    <3>2. k \in DOMAIN plugins[q].messages /\ k \in Nat
      BY <1>5, <1>6, <2>1 DEF HandlersFor
    <3>3. HandlerIndex(q, msg.id) = {k}
      BY <3>1, <3>2 DEF HandlerIndex
    <3>4. Matched(q, msg) = {j \in {k} : h.route \in {"regex", "fallback"} => a.what \in h.rule}
      BY <3>3 DEF Matched
    <3>5. a.what \in h.rule \/ StageOf(h.route) = "fallback"
      BY <1>4, <2>1 DEF Meant
    <3>6. StageOf(h.route) = "fallback" <=> h.route \in {"regex", "fallback"}
      BY DEF StageOf
    <3>7. k \in Addressed(q, m) <=> a.what \in h.rule
      BY <2>1, <3>2 DEF Addressed
    <3> HIDE DEF h, a, m, msg
    <3>8. QED BY <2>1, <3>4, <3>5, <3>6, <3>7
  <2>2. CASE a.kind # "message"
    <3>1. \A j \in DOMAIN plugins[q].events : plugins[q].events[j].id = msg.id <=> j = k
      BY <1>4, <1>5, <1>7, <2>2 DEF HandlersFor, IdFor
    <3>2. k \in DOMAIN plugins[q].events
      BY <1>5, <2>2 DEF HandlersFor
    <3>3. MatchedEvents(q, msg) = {k}
      BY <3>1, <3>2 DEF MatchedEvents
    <3>4. k \in Addressed(q, m)
      BY <1>4, <2>2, <3>2 DEF Addressed, Meant
    <3>5. QED BY <2>2, <3>3, <3>4
  <2>3. QED BY <2>1, <2>2
<1>9. Runnable(q) = [i \in 1..Cardinality(ks) |-> Run(m, Nth(ks, i))]
  BY DEF Runnable, Run
<1> HIDE DEF ks
<1>10. CASE k \in Addressed(q, m)
  <2>1. ks = {k} /\ Cardinality(ks) = 1 /\ Nth(ks, 1) = k
    BY <1>5, <1>6, <1>8, <1>10, NthOfOne
  <2>2. [i \in 1..1 |-> Run(m, Nth(ks, i))] = [i \in 1..1 |-> Run(m, k)]
    <3>1. \A i \in 1..1 : i = 1
      OBVIOUS
    <3>2. QED BY <2>1, <3>1
  <2>3. \A y : [i \in 1..1 |-> y] = <<y>>
    OBVIOUS
  <2>4. Runnable(q) = <<Run(m, k)>>
    BY <1>9, <2>1, <2>2, <2>3
  <2>5. QED BY <1>1, <1>3, <1>4, <1>5, <1>10, <2>4
<1>11. CASE k \notin Addressed(q, m)
  <2>1. ks = {} /\ Cardinality(ks) = 0
    BY <1>8, <1>11, FS_EmptySet
  <2>2. \A g : [i \in 1..0 |-> g] = <<>>
    OBVIOUS
  <2>3. [i \in 1..0 |-> Run(m, Nth(ks, i))] = [i \in 1..0 |-> 0]
    <3>1. \A i \in 1..0 : FALSE
      OBVIOUS
    <3>2. QED BY <3>1
  <2>4. Runnable(q) = <<>>
    BY <1>9, <2>1, <2>2, <2>3
  <2>5. QED BY <1>1, <1>3, <1>4, <1>5, <1>11, <2>4
<1>12. QED BY <1>10, <1>11


(* Of a plugin whose message is over, nothing has moved but what that      *)
(* message ran.                                                            *)
LEMMA OthersStay ==
  ASSUME OInv, NEW q \in Plugins,
         UNCHANGED <<plugins, arrivals, sending>>,
         \A p \in Plugins : p # q => /\ busy'[p] = busy[p] /\ mailbox'[p] = mailbox[p]
                                     /\ ran'[p] = ran[p] /\ alive'[p] = alive[p]
  PROVE  /\ \A c \in Callers : TellsDue(c)'
         /\ \A m, p, k : ToBeTold(m, p, k)' <=> ToBeTold(m, p, k)
         /\ \A p \in Plugins : p # q => /\ EventsDue(p)' /\ RunsDue(p)'
                                        /\ \A m \in 1..Len(arrivals) : Placed(m, p)'
<1>1. ASSUME NEW c \in Callers PROVE TellsDue(c)'
  <2>1. TellsDue(c)
    BY DEF OInv, OnlyDue
  <2>2. QED BY <2>1 DEF TellsDue
<1>2. \A m, p, k : ToBeTold(m, p, k)' <=> ToBeTold(m, p, k)
  BY DEF ToBeTold
<1>3. ASSUME NEW p \in Plugins, p # q
      PROVE  EventsDue(p)' /\ RunsDue(p)' /\ \A m \in 1..Len(arrivals) : Placed(m, p)'
  <2>1. EventsDue(p) /\ RunsDue(p)
    BY DEF OInv, OnlyDue
  <2>2. EventsDue(p)' /\ RunsDue(p)'
    BY <1>3, <2>1 DEF EventsDue, RunsDue, Addressed
  <2>3. ASSUME NEW m \in 1..Len(arrivals) PROVE Placed(m, p)'
    <3>1. Placed(m, p) /\ Addressed(p, m)' = Addressed(p, m)
      BY DEF OInv, Addressed
    <3>2. ASSUME NEW k
          PROVE  /\ Waiting(m, p, k)' <=> Waiting(m, p, k)
                 /\ InHand(m, p, k)' <=> InHand(m, p, k)
                 /\ HasRun(m, p, k)' <=> HasRun(m, p, k)
      BY <1>3 DEF Waiting, InHand, HasRun
    <3>3. \A k \in DOMAIN HandlersFor(plugins, p, arrivals[m]) : OnePlace(m, p, k)'
      BY <1>2, <3>1, <3>2 DEF Placed, OnePlace
    <3>4. alive[p] => \A k \in Addressed(p, m) : Somewhere(m, p, k)'
      BY <1>2, <3>1, <3>2 DEF Placed, Somewhere
    <3>5. QED BY <1>3, <3>1, <3>3, <3>4 DEF Placed
  <2>4. QED BY <2>2, <2>3
<1>4. QED BY <1>1, <1>2, <1>3

(* What has been handled is run by the handler it was meant for, once.     *)
LEMMA HandleOnce ==
  ASSUME OInv, NEW q \in Plugins, Handle(q)
  PROVE  OInv'
<1>1. /\ UNCHANGED <<plugins, arrivals, sending, mailbox, alive>>
      /\ busy[q] # <<>> /\ busy'[q] = <<>>
      /\ ran'[q] = ran[q] \o Runnable(q) /\ IsSeq(ran[q])
      /\ \A p \in Plugins : p # q => busy'[p] = busy[p] /\ ran'[p] = ran[p]
  BY DEF Handle, OInv, IInv, Shapes
<1>2. IInv'
  BY HandleKeeps DEF OInv
<1>3. PICK m \in 1..Len(arrivals) : \E k \in DOMAIN HandlersFor(plugins, q, arrivals[m]) :
        /\ busy[q] = <<HandleEvent(m, IdFor(plugins, q, arrivals[m], k))>>
        /\ Runnable(q) = IF k \in Addressed(q, m) THEN <<Run(m, k)>> ELSE <<>>
  BY <1>1, RunsTheOne
<1>4. PICK k \in DOMAIN HandlersFor(plugins, q, arrivals[m]) :
        /\ busy[q] = <<HandleEvent(m, IdFor(plugins, q, arrivals[m], k))>>
        /\ Runnable(q) = IF k \in Addressed(q, m) THEN <<Run(m, k)>> ELSE <<>>
  BY <1>3
<1> DEFINE done == IF k \in Addressed(q, m) THEN {Run(m, k)} ELSE {}
<1>5. InHand(m, q, k) /\ Placed(m, q) /\ OnePlace(m, q, k)
  BY <1>4 DEF InHand, OInv, Placed
<1>6. Run(m, k) \notin Range(ran[q])
  BY <1>5 DEF OnePlace, HasRun
<1>7. IsInjective(ran'[q]) /\ Range(ran'[q]) = Range(ran[q]) \cup done
  <2>1. IsInjective(ran[q])
    BY DEF OInv, OnlyDue, RunsDue
  <2>2. IsSeq(Runnable(q)) /\ Range(Runnable(q)) = done /\ IsInjective(Runnable(q))
    BY <1>4, ShortSeqs
  <2>3. Range(ran[q]) \cap Range(Runnable(q)) = {}
    BY <1>6, <2>2
  <2>4. QED BY <1>1, <2>1, <2>2, <2>3, ConcatElements
<1>8. /\ \A c \in Callers : TellsDue(c)'
      /\ \A i, p, j : ToBeTold(i, p, j)' <=> ToBeTold(i, p, j)
      /\ \A p \in Plugins : p # q => /\ EventsDue(p)' /\ RunsDue(p)'
                                     /\ \A i \in 1..Len(arrivals) : Placed(i, p)'
  BY <1>1, OthersStay
<1>9. EventsDue(q)' /\ RunsDue(q)'
  <2>1. EventsDue(q) /\ RunsDue(q)
    BY DEF OInv, OnlyDue
  <2>2. Range(busy'[q]) = {}
    BY <1>1, ShortSeqs
  <2>3. EventsDue(q)'
    BY <1>1, <2>1, <2>2 DEF EventsDue
  <2>4. \A r \in done : r = Run(r.arrival, r.handler) /\ r.handler \in Addressed(q, r.arrival)
    BY DEF Run
  <2>5. \A i : Addressed(q, i)' = Addressed(q, i)
    BY <1>1 DEF Addressed
  <2>6. \A r \in Range(ran'[q]) : r = Run(r.arrival, r.handler) /\ r.handler \in Addressed(q, r.arrival)
    BY <1>7, <2>1, <2>4 DEF RunsDue
  <2>7. RunsDue(q)'
    BY <1>1, <1>7, <2>6 DEF RunsDue, Addressed, Run
  <2>8. QED BY <2>3, <2>7
<1>10. ASSUME NEW i \in 1..Len(arrivals), NEW j \in DOMAIN HandlersFor(plugins, q, arrivals[i])
       PROVE  /\ ~InHand(i, q, j)'
              /\ Waiting(i, q, j)' <=> Waiting(i, q, j)
              /\ InHand(i, q, j) <=> i = m /\ j = k
              /\ HasRun(i, q, j)' <=> HasRun(i, q, j) \/ (i = m /\ j = k /\ k \in Addressed(q, m))
  <2>1. ~InHand(i, q, j)'
    BY <1>1 DEF InHand
  <2>2. Waiting(i, q, j)' <=> Waiting(i, q, j)
    BY <1>1 DEF Waiting
  <2>3. InHand(i, q, j) <=> i = m /\ j = k
    <3>1. \A x, y : <<x>> = <<y>> => x = y
      OBVIOUS
    <3>2. \A x, y : HandleEvent(i, x) = HandleEvent(m, y) => i = m /\ x = y
      BY DEF HandleEvent
    <3>3. InHand(i, q, j) =>
            HandleEvent(i, IdFor(plugins, q, arrivals[i], j)) = HandleEvent(m, IdFor(plugins, q, arrivals[m], k))
      BY <1>4, <3>1 DEF InHand
    <3>4. InHand(i, q, j) => i = m /\ IdFor(plugins, q, arrivals[m], j) = IdFor(plugins, q, arrivals[m], k)
      BY <3>2, <3>3
    <3>5. Regular(plugins)
      BY DEF OInv
    <3>6. InHand(i, q, j) => i = m /\ j = k
      BY <3>4, <3>5, IdsApart
    <3>7. QED BY <1>5, <3>6
  <2>4. Run(i, j) \in done <=> i = m /\ j = k /\ k \in Addressed(q, m)
    BY DEF Run
  <2>5. HasRun(i, q, j)' <=> Run(i, j) \in Range(ran'[q])
    BY DEF HasRun, Run
  <2> HIDE DEF done
  <2>6. HasRun(i, q, j)' <=> HasRun(i, q, j) \/ Run(i, j) \in done
    BY <1>7, <2>5 DEF HasRun
  <2>7. QED BY <2>1, <2>2, <2>3, <2>4, <2>6
<1>11. ASSUME NEW i \in 1..Len(arrivals) PROVE Placed(i, q)'
  <2>1. Placed(i, q) /\ Addressed(q, i)' = Addressed(q, i)
    BY <1>1 DEF OInv, Addressed
  <2>2. ASSUME NEW j \in DOMAIN HandlersFor(plugins, q, arrivals[i]) PROVE OnePlace(i, q, j)'
    BY <1>8, <1>10, <2>1 DEF Placed, OnePlace
  <2>3. ASSUME NEW j \in Addressed(q, i), alive[q] PROVE Somewhere(i, q, j)'
    <3>1. j \in DOMAIN HandlersFor(plugins, q, arrivals[i])
      BY AddressedIsMeant
    <3>2. Somewhere(i, q, j)
      BY <2>1, <2>3 DEF Placed
    <3>3. QED BY <1>8, <1>10, <3>1, <3>2 DEF Somewhere
  <2>4. QED BY <1>1, <2>1, <2>2, <2>3 DEF Placed
<1>12. ASSUME NEW p \in Plugins, NEW i \in 1..Len(arrivals) PROVE Placed(i, p)'
  BY <1>8, <1>11
<1>13. OnlyDue'
  BY <1>8, <1>9 DEF OnlyDue
<1>14. QED BY <1>1, <1>2, <1>12, <1>13 DEF OInv

(* A panic runs nothing of the message in hand, and what waits is lost.    *)
LEMMA PanicOnce ==
  ASSUME OInv, NEW q \in Plugins, Panic(q)
  PROVE  OInv'
<1>1. /\ UNCHANGED <<plugins, arrivals, sending>>
      /\ busy[q] # <<>> /\ busy'[q] = <<>> /\ mailbox'[q] = <<>>
      /\ \A p \in Plugins : p # q => busy'[p] = busy[p] /\ mailbox'[p] = mailbox[p]
  BY DEF Panic, OInv, IInv, Shapes
<1>2. IInv'
  BY HandleKeeps DEF OInv
<1>3. /\ \A p \in Plugins : p # q => ran'[p] = ran[p]
      /\ ran'[q] = ran[q]
  <2>1. Len(Runnable(q)) = 0 \/ Len(Runnable(q)) = 1
    <3>1. \A y : Len(<<y>>) = 1
      OBVIOUS
    <3>2. Runnable(q) = <<>> \/ \E y : Runnable(q) = <<y>>
      BY <1>1, RunsTheOne
    <3>3. QED BY <3>1, <3>2, SeqFacts
  <2>2. 1..(Len(Runnable(q)) - 1) = {}
    <3>1. \A n : n = 0 \/ n = 1 => 1..(n - 1) = {}
      OBVIOUS
    <3>2. QED BY <2>1, <3>1, Zenon
  <2>3. PICK done \in {<<>>} \cup {SubSeq(Runnable(q), 1, n) : n \in 1..(Len(Runnable(q)) - 1)} :
          ran' = [ran EXCEPT ![q] = @ \o done]
    BY DEF Panic
  <2>4. done = <<>>
    BY <2>2, <2>3
  <2>5. IsSeq(ran[q]) /\ DOMAIN ran = Plugins
    BY DEF OInv, IInv, Shapes
  <2>6. ran[q] \o <<>> = ran[q]
    BY <2>5, ConcatEmptySeq DEF IsSeq
  <2>7. QED BY <2>3, <2>4, <2>5, <2>6
<1>4. \A p \in Plugins : alive'[p] = IF p = q THEN FALSE ELSE alive[p]
  BY DEF Panic, OInv, IInv, Shapes
<1>5. /\ \A c \in Callers : TellsDue(c)'
      /\ \A i, p, j : ToBeTold(i, p, j)' <=> ToBeTold(i, p, j)
      /\ \A p \in Plugins : p # q => /\ EventsDue(p)' /\ RunsDue(p)'
                                     /\ \A i \in 1..Len(arrivals) : Placed(i, p)'
  BY <1>1, <1>3, <1>4, OthersStay
<1>6. EventsDue(q)' /\ RunsDue(q)'
  <2>1. RunsDue(q)
    BY DEF OInv, OnlyDue
  <2>2. Range(busy'[q]) = {} /\ Range(mailbox'[q]) = {} /\ IsInjective(mailbox'[q])
    BY <1>1, ShortSeqs
  <2>3. EventsDue(q)'
    BY <2>2 DEF EventsDue
  <2>4. RunsDue(q)'
    BY <1>1, <1>3, <2>1 DEF RunsDue, Addressed
  <2>5. QED BY <2>3, <2>4
<1>7. ASSUME NEW i \in 1..Len(arrivals) PROVE Placed(i, q)'
  <2>1. Placed(i, q)
    BY DEF OInv
  <2>2. ASSUME NEW j
        PROVE  ~InHand(i, q, j)' /\ ~Waiting(i, q, j)' /\ (HasRun(i, q, j)' <=> HasRun(i, q, j))
    BY <1>1, <1>3, ShortSeqs DEF InHand, Waiting, HasRun
  <2>3. \A j \in DOMAIN HandlersFor(plugins, q, arrivals[i]) : OnePlace(i, q, j)'
    BY <1>5, <2>1, <2>2 DEF Placed, OnePlace
  <2>4. ~alive'[q]
    BY <1>4
  <2>5. QED BY <1>1, <2>3, <2>4 DEF Placed
<1>8. ASSUME NEW p \in Plugins, NEW i \in 1..Len(arrivals) PROVE Placed(i, p)'
  BY <1>5, <1>7
<1>9. OnlyDue'
  BY <1>5, <1>6 DEF OnlyDue
<1>10. DOMAIN alive' = Plugins
  BY DEF Panic, OInv
<1>11. QED BY <1>1, <1>2, <1>8, <1>9, <1>10 DEF OInv


(* Every step keeps each handler of each arrival in its one place, if the  *)
(* layout is regular.                                                      *)
LEMMA OnceStep == OInv /\ [Next]_vars => OInv'
<1> SUFFICES ASSUME OInv, [Next]_vars PROVE OInv'
  OBVIOUS
<1>1. plugins \in Configurations /\ Regular(plugins)
  BY DEF OInv, IInv, Shapes
<1>2. ASSUME NEW c \in Callers, NEW text \in Texts, DispatchMessage(c, text) PROVE OInv'
  <2> DEFINE a == [kind |-> "message", what |-> text, caller |-> c]
  <2>1. a.kind = "message" /\ a.what = text
    OBVIOUS
  <2> HIDE DEF a
  <2>2. IsDue(Targets(text), a)
    BY <1>1, <2>1, MessageTargets
  <2>3. Arrive(c, "message", text, Targets(text))
    BY <1>2 DEF DispatchMessage
  <2>4. QED BY <2>2, <2>3, ArriveOnce DEF a
<1>3. ASSUME NEW c \in Callers, NEW type \in EventTypes, DispatchSystem(c, type) PROVE OInv'
  <2> DEFINE a == [kind |-> "system", what |-> type, caller |-> c]
  <2>1. a.kind = "system" /\ a.what = type
    OBVIOUS
  <2> HIDE DEF a
  <2>2. IsDue(EventTargets(type), a)
    BY <1>1, <2>1, SystemTargets
  <2>3. Arrive(c, "system", type, EventTargets(type))
    BY <1>3 DEF DispatchSystem
  <2>4. QED BY <2>2, <2>3, ArriveOnce DEF a
<1>4. ASSUME NEW c \in Callers, Caller(c) PROVE OInv'
  BY <1>4, TellOnce, TellStoppedOnce DEF Caller
<1>5. ASSUME NEW p \in Plugins, Actor(p) PROVE OInv'
  BY <1>5, ReceiveOnce, HandleOnce, PanicOnce DEF Actor
<1>6. CASE UNCHANGED vars
  <2>1. UNCHANGED <<plugins, arrivals, sending, mailbox, busy, alive, ran>>
    BY <1>6 DEF vars
  <2>2. IInv'
    BY OrderStep DEF OInv
  <2>3. ASSUME NEW c \in Callers PROVE TellsDue(c)'
    BY <2>1 DEF OInv, OnlyDue, TellsDue
  <2>4. ASSUME NEW p \in Plugins PROVE EventsDue(p)' /\ RunsDue(p)'
    <3>1. EventsDue(p) /\ RunsDue(p)
      BY DEF OInv, OnlyDue
    <3>2. QED BY <2>1, <3>1 DEF EventsDue, RunsDue, Addressed
  <2>5. ASSUME NEW m \in 1..Len(arrivals), NEW p \in Plugins PROVE Placed(m, p)'
    <3>1. Placed(m, p)
      BY DEF OInv
    <3>2. QED BY <2>1, <3>1 DEF Placed, OnePlace, Somewhere, ToBeTold, Waiting, InHand, HasRun, Addressed
  <2>6. OnlyDue'
    BY <2>3, <2>4 DEF OnlyDue
  <2>7. QED BY <2>1, <2>2, <2>5, <2>6 DEF OInv
<1>7. QED BY <1>2, <1>3, <1>4, <1>5, <1>6 DEF Next

(* A behaviour begins with nothing on its way.                             *)
LEMMA OnceInit ==
  ASSUME \A config \in Configurations : Regular(config)
  PROVE  Init => OInv
<1> SUFFICES ASSUME Init PROVE OInv
  OBVIOUS
<1>1. IInv /\ plugins \in Configurations /\ DOMAIN alive = Plugins /\ Len(arrivals) = 0
  BY OrderInit, SeqFacts DEF Init
<1>2. Regular(plugins)
  BY <1>1
<1>3. \A c \in Callers : TellsDue(c)
  BY DEF Init, TellsDue
<1>4. ASSUME NEW p \in Plugins PROVE EventsDue(p) /\ RunsDue(p)
  <2>1. mailbox[p] = <<>> /\ busy[p] = <<>> /\ ran[p] = <<>>
    BY DEF Init
  <2>2. Range(mailbox[p]) = {} /\ Range(busy[p]) = {} /\ Range(ran[p]) = {}
        /\ IsInjective(mailbox[p]) /\ IsInjective(ran[p])
    BY <2>1, ShortSeqs
  <2>3. QED BY <2>2 DEF EventsDue, RunsDue
<1>5. \A m \in 1..Len(arrivals) : FALSE
  BY <1>1
<1>6. QED BY <1>1, <1>2, <1>3, <1>4, <1>5 DEF OInv, OnlyDue

(* The times something is in a sequence that has its elements once.        *)
LEMMA TimesInSequence ==
  ASSUME NEW s, IsInjective(s), NEW x
  PROVE  Cardinality({i \in DOMAIN s : s[i] = x}) = IF x \in Range(s) THEN 1 ELSE 0
<1>1. CASE x \in Range(s)
  <2>1. PICK j \in DOMAIN s : s[j] = x
    BY <1>1 DEF Range
  <2>2. {i \in DOMAIN s : s[i] = x} = {j}
    BY <2>1 DEF IsInjective
  <2>3. QED BY <1>1, <2>2, FS_Singleton
<1>2. CASE x \notin Range(s)
  <2>1. {i \in DOMAIN s : s[i] = x} = {}
    BY <1>2 DEF Range
  <2>2. QED BY <1>2, <2>1, FS_EmptySet
<1>3. QED BY <1>1, <1>2

(* In a host whose layouts are regular, as the macros make them, every     *)
(* handler an arrival is addressed to runs for it exactly once, and no     *)
(* other does, unless the actor of its plugin has stopped: whatever the    *)
(* tables, the mailboxes, the other callers and the other plugins do.      *)
THEOREM EveryMatchRunsOnce ==
  ASSUME \A config \in Configurations : Regular(config)
  PROVE  Spec => []EveryMatchOnce
<1>1. OInv => EveryMatchOnce
  <2> SUFFICES ASSUME OInv, NEW m \in DOMAIN arrivals, NEW p \in Plugins, ~Underway(m), alive[p],
                      NEW kind \in {"messages", "events"},
                      (kind = "messages") = (arrivals[m].kind = "message"),
                      NEW k \in DOMAIN plugins[p][kind]
               PROVE  Runs(p, m, k) = IF k \in Addressed(p, m) THEN 1 ELSE 0
    BY DEF EveryMatchOnce
  <2>1. m \in 1..Len(arrivals) /\ Len(arrivals) \in Nat
    BY SeqFacts DEF OInv, IInv, Shapes
  <2>2. Placed(m, p) /\ RunsDue(p)
    BY <2>1 DEF OInv, OnlyDue
  <2>3. ASSUME NEW c \in Callers PROVE sending[c].arrival # m
    BY DEF Underway
  <2>4. \A msg \in Range(mailbox[p]) : msg.arrival # m
    BY DEF Underway, Range
  <2>5. busy[p] # <<>> => busy[p][1].arrival # m
    BY DEF Underway
  <2>6. \A id : HandleEvent(m, id).arrival = m
    BY DEF HandleEvent
  <2>7. ~ToBeTold(m, p, k)
    BY <2>3 DEF ToBeTold
  <2>8. ~Waiting(m, p, k)
    BY <2>4, <2>6 DEF Waiting
  <2>9. ~InHand(m, p, k)
    <3>1. \A x : <<x>> # <<>> /\ <<x>>[1] = x
      OBVIOUS
    <3>2. QED BY <2>5, <2>6, <3>1, ZenonT(60) DEF InHand
  <2>10. HasRun(m, p, k) <=> k \in Addressed(p, m)
    <3>1. ASSUME HasRun(m, p, k) PROVE k \in Addressed(p, m)
      <4>1. Run(m, k).arrival = m /\ Run(m, k).handler = k
        BY DEF Run
      <4>2. QED BY <2>2, <3>1, <4>1 DEF HasRun, RunsDue
    <3>2. ASSUME k \in Addressed(p, m) PROVE HasRun(m, p, k)
      BY <2>2, <2>7, <2>8, <2>9, <3>2 DEF Placed, Somewhere
    <3>3. QED BY <3>1, <3>2
  <2>11. Runs(p, m, k) = IF HasRun(m, p, k) THEN 1 ELSE 0
    BY <2>2, TimesInSequence DEF Runs, RunsDue, HasRun, Run
  <2>12. QED BY <2>10, <2>11
<1>2. Init => OInv
  BY OnceInit
<1>3. QED BY <1>1, <1>2, OnceStep, PTL DEF Spec

(* The routes an ActorPluginBuilder has.                                   *)
Routes == {"exact", "prefix", "keyword", "regex", "fallback"}

(* What into_handler makes of a binding (builder.rs 239, 316-328): its id  *)
(* is that of the type's last segment, and it is reached by its one        *)
(* pattern or is in the fallback table.                                    *)
LEMMA IntoHandlerIs ==
  ASSUME NEW b, b.route \in Routes
  PROVE  /\ IntoHandler(b).id = DerivedHandlerId(b.type)
         /\ StageOf(IntoHandler(b).route) \in Range(Stages)
         /\ StageOf(IntoHandler(b).route) # "fallback" => Len(IntoHandler(b).pats) = 1
         /\ IntoHandler(b).route = "exact" => IntoHandler(b).rule = IsFullmatch(IntoHandler(b).pats)
         /\ IntoHandler(b).route = "prefix" => IntoHandler(b).rule = IsStartswith(IntoHandler(b).pats)
         /\ IntoHandler(b).route = "keyword" => IntoHandler(b).rule = IsKeywords(IntoHandler(b).pats)
<1> DEFINE id == DerivedHandlerId(b.type)
           pats == <<b.pattern>>
           h == IntoHandler(b)
<1>1. \A s \in {"exact", "prefix", "keyword", "fallback"} : s \in Range(Stages)
  BY DEF Range, Stages
<1>2. Len(pats) = 1
  OBVIOUS
<1>3. \A i, route, ps, rule :
        LET g == Handler(i, route, ps, rule)
        IN  g.id = i /\ g.route = route /\ g.pats = ps /\ g.rule = rule
  BY DEF Handler
<1>4. CASE b.route = "exact"
  <2>1. h = Handler(id, "exact", pats, IsFullmatch(pats))
    BY <1>4 DEF IntoHandler, Exact
  <2> HIDE DEF h, pats, id
  <2> QED BY <1>1, <1>2, <1>3, <1>4, <2>1 DEF StageOf, h, id
<1>5. CASE b.route = "prefix"
  <2>1. h = Handler(id, "prefix", pats, IsStartswith(pats))
    BY <1>5 DEF IntoHandler, Prefix
  <2> HIDE DEF h, pats, id
  <2> QED BY <1>1, <1>2, <1>3, <1>5, <2>1 DEF StageOf, h, id
<1>6. CASE b.route = "keyword"
  <2>1. h = Handler(id, "keyword", pats, IsKeywords(pats))
    BY <1>6 DEF IntoHandler, Keyword
  <2> HIDE DEF h, pats, id
  <2> QED BY <1>1, <1>2, <1>3, <1>6, <2>1 DEF StageOf, h, id
<1>7. CASE b.route = "regex"
  <2>1. h = Handler(id, "regex", <<>>, b.pattern)
    BY <1>7 DEF IntoHandler, Regex
  <2> HIDE DEF h, id
  <2> QED BY <1>1, <1>3, <1>7, <2>1 DEF StageOf, h, id
<1>8. CASE b.route = "fallback"
  <2>1. h = Handler(id, "fallback", <<>>, Texts)
    BY <1>8 DEF IntoHandler, Fallback
  <2> HIDE DEF h, id
  <2> QED BY <1>1, <1>3, <1>8, <2>1 DEF StageOf, h, id
<1> QED BY <1>4, <1>5, <1>6, <1>7, <1>8 DEF Routes

(* Whatever to_snake_case makes of names, the layout that ActorPluginBuilder *)
(* makes of the bindings of each plugin is regular exactly if no two message *)
(* bindings and no two event bindings of a plugin have types of one id:      *)
(* EveryMatchRunsOnce is about such plugins, and types that differ in their  *)
(* path alone are enough to leave it (builder.rs 215-273, 316-372).          *)
THEOREM BuiltLayoutsAreRegular ==
  ASSUME NEW config, NEW messages, NEW events,
         \A p \in Plugins :
           /\ config[p].messages = CompiledMessageHandlers(messages[p])
           /\ config[p].events = CompiledEventHandlers(events[p])
           /\ \A i \in DOMAIN messages[p] : messages[p][i].route \in Routes
  PROVE  Regular(config) <=>
           \A p \in Plugins : \A bindings \in {messages[p], events[p]} :
             \A i, j \in DOMAIN bindings :
               DerivedHandlerId(bindings[i].type) = DerivedHandlerId(bindings[j].type) => i = j
<1> DEFINE OneEach(bindings) ==
             \A i, j \in DOMAIN bindings :
               DerivedHandlerId(bindings[i].type) = DerivedHandlerId(bindings[j].type) => i = j
           Apart(handlers) ==
             \A j, k \in DOMAIN handlers : handlers[j].id = handlers[k].id => j = k
           Routed(handlers) ==
             \A h \in Range(handlers) :
               /\ StageOf(h.route) \in Range(Stages)
               /\ StageOf(h.route) # "fallback" => Len(h.pats) = 1
               /\ h.route = "exact" => h.rule = IsFullmatch(h.pats)
               /\ h.route = "prefix" => h.rule = IsStartswith(h.pats)
               /\ h.route = "keyword" => h.rule = IsKeywords(h.pats)
<1>1. ASSUME NEW p \in Plugins
      PROVE  Apart(config[p].messages) <=> OneEach(messages[p])
  <2>1. config[p].messages = [i \in DOMAIN messages[p] |-> IntoHandler(messages[p][i])]
    BY DEF CompiledMessageHandlers
  <2>2. ASSUME NEW i \in DOMAIN messages[p]
        PROVE  config[p].messages[i].id = DerivedHandlerId(messages[p][i].type)
    <3>1. config[p].messages[i] = IntoHandler(messages[p][i])
      BY <2>1
    <3>2. messages[p][i].route \in Routes
      OBVIOUS
    <3> QED BY <3>1, <3>2, IntoHandlerIs
  <2>3. DOMAIN config[p].messages = DOMAIN messages[p]
    BY <2>1
  <2> QED BY <2>2, <2>3
<1>2. ASSUME NEW p \in Plugins
      PROVE  Apart(config[p].events) <=> OneEach(events[p])
  <2>1. config[p].events =
          [i \in DOMAIN events[p] |->
             [id |-> DerivedHandlerId(events[p][i].type), type |-> events[p][i].event]]
    BY DEF CompiledEventHandlers
  <2>2. ASSUME NEW i \in DOMAIN events[p]
        PROVE  config[p].events[i].id = DerivedHandlerId(events[p][i].type)
    BY <2>1
  <2>3. DOMAIN config[p].events = DOMAIN events[p]
    BY <2>1
  <2> QED BY <2>2, <2>3
<1>3. ASSUME NEW p \in Plugins
      PROVE  Routed(config[p].messages)
  <2>1. ASSUME NEW h \in Range(config[p].messages)
        PROVE  \E i \in DOMAIN messages[p] : h = IntoHandler(messages[p][i])
    BY DEF CompiledMessageHandlers, Range
  <2>2. ASSUME NEW h \in Range(config[p].messages)
        PROVE  /\ StageOf(h.route) \in Range(Stages)
               /\ StageOf(h.route) # "fallback" => Len(h.pats) = 1
               /\ h.route = "exact" => h.rule = IsFullmatch(h.pats)
               /\ h.route = "prefix" => h.rule = IsStartswith(h.pats)
               /\ h.route = "keyword" => h.rule = IsKeywords(h.pats)
    <3>1. PICK i \in DOMAIN messages[p] : h = IntoHandler(messages[p][i])
      BY <2>1, <2>2
    <3>2. messages[p][i].route \in Routes
      OBVIOUS
    <3> QED BY <3>1, <3>2, IntoHandlerIs
  <2> QED BY <2>2
<1>4. Regular(config) <=>
        \A p \in Plugins :
          Apart(config[p].messages) /\ Apart(config[p].events) /\ Routed(config[p].messages)
  BY DEF Regular
<1> HIDE DEF OneEach, Apart, Routed
<1>5. Regular(config) <=> \A p \in Plugins : OneEach(messages[p]) /\ OneEach(events[p])
  BY <1>1, <1>2, <1>3, <1>4
<1> QED BY <1>5 DEF OneEach
==============================================================================
