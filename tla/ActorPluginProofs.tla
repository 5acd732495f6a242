-------------------------- MODULE ActorPluginProofs --------------------------
(***************************************************************************)
(* Proofs about ActorPlugin for every set of handler tasks and builders,   *)
(* every mailbox and any number of subscriptions by plugin code.           *)
(***************************************************************************)
EXTENDS ActorPlugin, SequenceTheorems, TLAPS

HasBridge(s) == \E i \in DOMAIN s : s[i].who = "bridge"
TwoBridges(s) ==
  \E i, j \in DOMAIN s : i < j /\ s[i].who = "bridge" /\ s[j].who = "bridge"

InMailbox(p) == \E i \in DOMAIN mailbox : mailbox[i] = p

(* The bridges installed so far are on the bus.                            *)
BridgesThere ==
  /\ \A k \in 1..installed : HasBridge(subscribers[Topic(builder[k])])
  /\ \A j, k \in 1..installed :
       j < k /\ Topic(builder[j]) = Topic(builder[k]) => TwoBridges(subscribers[Topic(builder[k])])
  /\ ready = "yes" => installed = Len(builder)

MailboxOnce == \A i, j \in DOMAIN mailbox : mailbox[i] = mailbox[j] => i = j

(* Before a task has sent its message the actor knows nothing of it.       *)
BeforeSending(p) ==
  \/ task[p].at \in {"idle", "register", "installing", "sending"}
  \/ At(p, "deliver") /\ task[p].left # <<>>

Unsent(p) == handled[p] = 0 /\ p \notin busy /\ ~InMailbox(p)

(* A task's message is in one place, and its publication has a bridge to   *)
(* reach or has reached it; where two would be reached none is asked.      *)
Own(p) ==
  /\ BeforeSending(p) => Unsent(p)
  /\ task[p].at \in {"sending", "asked"} => Len(task[p].left) = 1
  /\ At(p, "ok") => handled[p] > 0
  /\ At(p, "deliver") => handled[p] > 0 \/ HasBridge(task[p].left)
  /\ handled[p] <= 1
  /\ p \in busy => handled[p] = 1
  /\ InMailbox(p) => handled[p] = 0
  /\ ~At(p, "idle") /\ Shared(Topic(Publishes(p))) =>
       /\ Unsent(p) /\ task[p].at \notin {"sending", "asked"}
       /\ At(p, "deliver") => TwoBridges(task[p].left)

IInv == TypeOK /\ BridgesThere /\ MailboxOnce /\ \A p \in Tasks : Own(p)
------------------------------------------------------------------------------
(* Appending a subscriber loses no bridge.                                 *)
LEMMA AppendKeeps ==
  ASSUME NEW s \in Seq(Subscribers), NEW e \in Subscribers
  PROVE  /\ Append(s, e) \in Seq(Subscribers)
         /\ HasBridge(s) => HasBridge(Append(s, e))
         /\ TwoBridges(s) => TwoBridges(Append(s, e))
         /\ e.who = "bridge" => HasBridge(Append(s, e))
         /\ e.who = "bridge" /\ HasBridge(s) => TwoBridges(Append(s, e))
<1> DEFINE a == Append(s, e)
<1>1. /\ a \in Seq(Subscribers) /\ Len(s) \in Nat /\ Len(a) = Len(s) + 1
      /\ DOMAIN s = 1..Len(s) /\ DOMAIN a = 1..(Len(s) + 1)
      /\ \A i \in 1..Len(s) : a[i] = s[i]
      /\ a[Len(s) + 1] = e
  BY AppendProperties, LenProperties
<1> HIDE DEF a
<1> QED
  BY <1>1 DEF HasBridge, TwoBridges, a

(* Taking a watcher off the front loses no bridge.                         *)
LEMMA TailKeeps ==
  ASSUME NEW s \in Seq(Subscribers), s # <<>>
  PROVE  /\ Tail(s) \in Seq(Subscribers) /\ Head(s) \in Subscribers
         /\ Len(s) \in Nat \ {0}
         /\ Len(s) = 1 => Tail(s) = <<>>
         /\ Head(s).who # "bridge" /\ HasBridge(s) => HasBridge(Tail(s))
         /\ Head(s).who # "bridge" /\ TwoBridges(s) => TwoBridges(Tail(s))
<1> DEFINE t == Tail(s)
<1>1. /\ t \in Seq(Subscribers) /\ Head(s) \in Subscribers /\ Head(s) = s[1]
      /\ Len(s) \in Nat \ {0} /\ Len(t) = Len(s) - 1
      /\ DOMAIN s = 1..Len(s) /\ DOMAIN t = 1..(Len(s) - 1)
      /\ \A i \in 1..(Len(s) - 1) : t[i] = s[i + 1]
  BY HeadTailProperties, EmptySeq, LenProperties, ElementOfSeq
<1>2. Len(s) = 1 => t = <<>>
  BY <1>1, EmptySeq
<1> HIDE DEF t
<1>3. ASSUME s[1].who # "bridge", NEW i \in DOMAIN s, s[i].who = "bridge"
      PROVE  i - 1 \in DOMAIN t /\ t[i - 1] = s[i]
  BY <1>1, <1>3
<1>4. s[1].who # "bridge" /\ HasBridge(s) => HasBridge(t)
  BY <1>3 DEF HasBridge
<1>5. s[1].who # "bridge" /\ TwoBridges(s) => TwoBridges(t)
  <2>1. SUFFICES ASSUME s[1].who # "bridge",
                        NEW i \in DOMAIN s, NEW j \in DOMAIN s,
                        i < j, s[i].who = "bridge", s[j].who = "bridge"
                 PROVE  TwoBridges(t)
    BY DEF TwoBridges
  <2>2. /\ i - 1 \in DOMAIN t /\ t[i - 1] = s[i]
        /\ j - 1 \in DOMAIN t /\ t[j - 1] = s[j]
    BY <1>3, <2>1
  <2>3. i - 1 < j - 1
    BY <1>1, <2>1
  <2> QED
    BY <2>1, <2>2, <2>3 DEF TwoBridges
<1> QED
  BY <1>1, <1>2, <1>4, <1>5 DEF t

(* A sequence with two bridges has more than one element, one with a       *)
(* bridge is not empty.                                                    *)
LEMMA BridgesCount ==
  ASSUME NEW s \in Seq(Subscribers)
  PROVE  /\ TwoBridges(s) => Len(s) # 1 /\ s # <<>>
         /\ HasBridge(s) => s # <<>>
         /\ Len(s) = 1 => s # <<>>
<1>1. Len(s) \in Nat /\ DOMAIN s = 1..Len(s)
  BY LenProperties
<1>2. s = <<>> => Len(s) = 0
  OBVIOUS
<1> QED
  BY <1>1, <1>2 DEF HasBridge, TwoBridges

(* The topic of a binding is a topic, and its type a type.                 *)
LEMMA BindingTypes ==
  ASSUME TypeOK, NEW k \in DOMAIN builder
  PROVE  /\ builder \in Seq([kind : Kinds, type : Types])
         /\ DOMAIN builder = 1..Len(builder) /\ Len(builder) \in Nat
         /\ builder[k].type \in Types /\ Topic(builder[k]) \in Topics
<1>1. builder \in Builders /\ builder \in Seq([kind : Kinds, type : Types])
  BY ActorPluginAssumption DEF TypeOK
<1>2. builder[k] \in Bindings
  BY <1>1 DEF Bindings
<1>3. DOMAIN builder = 1..Len(builder) /\ Len(builder) \in Nat
  BY <1>1, LenProperties
<1> QED
  BY <1>1, <1>2, <1>3 DEF Types, Topics
------------------------------------------------------------------------------
(* At the start nothing is registered, published or sent.                  *)
LEMMA InitIInv == Init => IInv
<1> SUFFICES ASSUME Init PROVE IInv
  OBVIOUS
<1>1. builder \in Builders /\ Len(builder) \in Nat
  BY ActorPluginAssumption, LenProperties DEF Init
<1>2. Idle \in TaskRecord
  BY EmptySeq DEF Idle, TaskRecord
<1>3. TypeOK
  BY <1>1, <1>2, EmptySeq, ActorPluginAssumption DEF Init, TypeOK, Idle
<1>4. DOMAIN mailbox = {} /\ 1..installed = {}
  BY EmptySeq DEF Init
<1>5. BridgesThere /\ MailboxOnce
  BY <1>4 DEF Init, BridgesThere, MailboxOnce
<1>6. ASSUME NEW p \in Tasks PROVE Own(p)
  BY <1>4 DEF Init, Own, Unsent, InMailbox, BeforeSending, At, Idle
<1> QED
  BY <1>3, <1>5, <1>6 DEF IInv

(* A step of one handler task, which may register bridges but leaves the   *)
(* actor's side alone.                                                     *)
LEMMA TaskStep ==
  ASSUME IInv, NEW p \in Tasks, NEW r \in TaskRecord,
         r.at # "idle" => r.of \in DOMAIN builder,
         task' = [task EXCEPT ![p] = r],
         UNCHANGED <<builder, mailbox, busy, handled>>,
         ready' \in {"no", "busy", "yes"}, installed' \in 0..Len(builder),
         subscribers' \in [Topics -> Seq(Subscribers)],
         actor' \in {"none", "alive", "stopped"},
         BridgesThere', Own(p)'
  PROVE  IInv'
<1>1. TypeOK'
  BY DEF IInv, TypeOK
<1>2. MailboxOnce'
  BY DEF IInv, MailboxOnce
<1>3. ASSUME NEW q \in Tasks, q # p PROVE Own(q)'
  <2>1. task'[q] = task[q]
    BY <1>3 DEF IInv, TypeOK
  <2>2. Own(q)
    BY DEF IInv
  <2> QED
    BY <2>1, <2>2, SMTT(60) DEF Own, BeforeSending, Unsent, InMailbox, At, Publishes, Shared
<1> QED
  BY <1>1, <1>2, <1>3 DEF IInv

(* The same where the bus does not change either.                          *)
LEMMA QuietStep ==
  ASSUME IInv, NEW p \in Tasks, NEW r \in TaskRecord,
         r.at # "idle" => r.of \in DOMAIN builder,
         task' = [task EXCEPT ![p] = r],
         UNCHANGED <<builder, ready, installed, subscribers, mailbox, busy, handled>>,
         actor' \in {"none", "alive", "stopped"},
         Own(p)'
  PROVE  IInv'
<1>1. BridgesThere'
  BY DEF IInv, BridgesThere
<1>2. /\ ready' \in {"no", "busy", "yes"} /\ installed' \in 0..Len(builder)
      /\ subscribers' \in [Topics -> Seq(Subscribers)]
  BY DEF IInv, TypeOK
<1> QED
  BY <1>1, <1>2, TaskStep

(* A step that changes only where the task is, and where that is follows   *)
(* from where it was.                                                      *)
LEMMA GoStep ==
  ASSUME IInv, NEW p \in Tasks, NEW at, Go(p, at), ~At(p, "idle"),
         UNCHANGED <<builder, ready, installed, subscribers, mailbox, busy, handled>>,
         actor' \in {"none", "alive", "stopped"},
         \/ at \in {"failed", "refused", "timedout"}
         \/ at = "ok" /\ handled[p] > 0
         \/ at = "sending" /\ At(p, "deliver") /\ Len(task[p].left) = 1
  PROVE  IInv'
<1> DEFINE r == [task[p] EXCEPT !.at = at]
<1>1. r \in TaskRecord /\ r.at = at /\ r.of = task[p].of /\ r.left = task[p].left
  BY DEF IInv, TypeOK, TaskRecord, Ended
<1>2. r.at # "idle" => r.of \in DOMAIN builder
  BY <1>1 DEF IInv, TypeOK, At
<1>3. task' = [task EXCEPT ![p] = r]
  BY DEF Go
<1>4. task'[p] = r
  BY <1>3 DEF IInv, TypeOK
<1> HIDE DEF r
<1>5. Own(p)
  BY DEF IInv
<1>6. Own(p)'
  <2>1. CASE at \in {"failed", "refused", "timedout", "ok"}
    BY <1>1, <1>4, <1>5, <2>1
    DEF Own, BeforeSending, Unsent, InMailbox, At, Publishes, Shared
  <2>2. CASE at = "sending" /\ At(p, "deliver") /\ Len(task[p].left) = 1
    <3>1. task[p].left \in Seq(Subscribers)
      BY DEF IInv, TypeOK, TaskRecord
    <3>2. task[p].left # <<>> /\ ~TwoBridges(task[p].left)
      BY <2>2, <3>1, BridgesCount
    <3> QED
      BY <1>1, <1>4, <1>5, <2>2, <3>2
      DEF Own, BeforeSending, Unsent, InMailbox, At, Publishes, Shared
  <2> QED
    BY <2>1, <2>2
<1> QED
  BY <1>1, <1>2, <1>3, <1>6, QuietStep
------------------------------------------------------------------------------
(* A handler begins.                                                       *)
LEMMA BeginStep ==
  ASSUME IInv, NEW p \in Tasks, NEW k \in DOMAIN builder, Begin(p, k)
  PROVE  IInv'
<1> DEFINE r == [task[p] EXCEPT !.at = "register", !.of = k]
<1>1. r \in TaskRecord /\ r.at = "register" /\ r.of = k /\ r.left = task[p].left
  <2>1. k \in Nat
    BY BindingTypes DEF IInv
  <2>2. task[p] \in TaskRecord
    BY DEF IInv, TypeOK
  <2> QED
    BY <2>1, <2>2 DEF TaskRecord
<1>2. task' = [task EXCEPT ![p] = r]
  BY DEF Begin, IInv, TypeOK, TaskRecord
<1>3. task'[p] = r
  BY <1>2 DEF IInv, TypeOK
<1> HIDE DEF r
<1>4. Own(p)'
  BY <1>1, <1>3 DEF Begin, IInv, Own, BeforeSending, Unsent, InMailbox, At
<1>5. actor' \in {"none", "alive", "stopped"}
  BY DEF Begin, IInv, TypeOK
<1> QED
  BY <1>1, <1>2, <1>4, <1>5, QuietStep DEF Begin

(* The steps around the OnceCell of ensure_registered.                     *)
LEMMA RegisterStep ==
  ASSUME IInv, NEW p \in Tasks, NEW at \in {"register", "installing"},
         Go(p, at), task[p].at \in {"register", "installing"},
         ready' \in {"busy", "yes"}, ready' = "yes" => installed = Len(builder),
         UNCHANGED <<builder, installed, subscribers, actor, mailbox, busy, handled>>
  PROVE  IInv'
<1> DEFINE r == [task[p] EXCEPT !.at = at]
<1>1. r \in TaskRecord /\ r.at = at /\ r.of = task[p].of /\ r.left = task[p].left
  BY DEF IInv, TypeOK, TaskRecord
<1>2. r.of \in DOMAIN builder
  BY <1>1 DEF IInv, TypeOK
<1>3. task' = [task EXCEPT ![p] = r]
  BY DEF Go
<1>4. task'[p] = r
  BY <1>3 DEF IInv, TypeOK
<1> HIDE DEF r
<1>5. Own(p)
  BY DEF IInv
<1>6. Own(p)'
  BY <1>1, <1>4, <1>5 DEF Own, BeforeSending, Unsent, InMailbox, At, Publishes, Shared
<1>7. BridgesThere'
  BY DEF IInv, BridgesThere
<1> QED
  BY <1>1, <1>2, <1>3, <1>6, <1>7, TaskStep DEF IInv, TypeOK

(* A subscription, whoever makes it, takes no bridge away.                 *)
LEMMA SubscribersGrow ==
  ASSUME IInv, NEW t \in Topics, NEW e \in Subscribers, UNCHANGED builder,
         subscribers' = [subscribers EXCEPT ![t] = Append(@, e)]
  PROVE  /\ subscribers' \in [Topics -> Seq(Subscribers)]
         /\ \A u \in Topics :
              /\ HasBridge(subscribers[u]) => HasBridge(subscribers'[u])
              /\ TwoBridges(subscribers[u]) => TwoBridges(subscribers'[u])
         /\ e.who = "bridge" => HasBridge(subscribers'[t])
         /\ e.who = "bridge" /\ HasBridge(subscribers[t]) => TwoBridges(subscribers'[t])
<1>1. subscribers \in [Topics -> Seq(Subscribers)]
  BY DEF IInv, TypeOK
<1>2. subscribers[t] \in Seq(Subscribers)
  BY <1>1
<1>3. /\ subscribers'[t] = Append(subscribers[t], e)
      /\ \A u \in Topics \ {t} : subscribers'[u] = subscribers[u]
  BY <1>1
<1>4. subscribers' \in [Topics -> Seq(Subscribers)]
  BY <1>1, <1>2, AppendKeeps
<1> QED
  BY <1>2, <1>3, <1>4, AppendKeeps

(* One more bridge.                                                        *)
LEMMA InstallStep ==
  ASSUME IInv, NEW p \in Tasks, Install(p)
  PROVE  IInv'
<1> DEFINE n == installed + 1
           e == Subscriber("bridge", builder[n].type)
           t == Topic(builder[n])
<1>1. /\ n \in DOMAIN builder /\ n \in 1..Len(builder) /\ installed \in Nat
      /\ DOMAIN builder = 1..Len(builder) /\ Len(builder) \in Nat
  <2>1. builder \in Seq([kind : Kinds, type : Types])
    BY ActorPluginAssumption DEF IInv, TypeOK
  <2>2. DOMAIN builder = 1..Len(builder) /\ Len(builder) \in Nat
    BY <2>1, LenProperties
  <2> QED
    BY <2>2 DEF Install, IInv, TypeOK
<1>2. t \in Topics /\ e \in Subscribers /\ e.who = "bridge"
  BY <1>1, BindingTypes DEF IInv, Subscriber, Subscribers
<1>3. /\ installed' = n /\ subscribers' = [subscribers EXCEPT ![t] = Append(@, e)]
      /\ UNCHANGED <<builder, ready, task, actor, mailbox, busy, handled>>
  BY DEF Install
<1>4. \A k \in 1..installed : k \in 1..n /\ Topic(builder[k]) \in Topics
  <2>1. \A k \in 1..installed : k \in DOMAIN builder /\ k \in 1..n
    BY <1>1
  <2> QED
    BY <2>1, BindingTypes DEF IInv
<1> HIDE DEF e, t
<1>5. /\ subscribers' \in [Topics -> Seq(Subscribers)]
      /\ \A u \in Topics :
           /\ HasBridge(subscribers[u]) => HasBridge(subscribers'[u])
           /\ TwoBridges(subscribers[u]) => TwoBridges(subscribers'[u])
      /\ HasBridge(subscribers'[t])
      /\ HasBridge(subscribers[t]) => TwoBridges(subscribers'[t])
  BY <1>2, <1>3, SubscribersGrow
<1>6. BridgesThere'
  <2>1. ASSUME NEW k \in 1..n PROVE HasBridge(subscribers'[Topic(builder[k])])
    <3>1. CASE k = n
      BY <1>5, <3>1 DEF t
    <3>2. CASE k \in 1..installed
      BY <1>4, <1>5, <3>2 DEF IInv, BridgesThere
    <3> QED
      BY <1>1, <3>1, <3>2
  <2>2. ASSUME NEW j \in 1..n, NEW k \in 1..n, j < k, Topic(builder[j]) = Topic(builder[k])
        PROVE  TwoBridges(subscribers'[Topic(builder[k])])
    <3>1. CASE k = n
      <4>1. j \in 1..installed
        BY <1>1, <2>2, <3>1
      <4>2. HasBridge(subscribers[t])
        BY <2>2, <3>1, <4>1 DEF IInv, BridgesThere, t
      <4> QED
        BY <1>5, <3>1, <4>2 DEF t
    <3>2. CASE k \in 1..installed
      <4>1. j \in 1..installed
        BY <1>1, <2>2, <3>2
      <4> QED
        BY <1>4, <1>5, <2>2, <3>2, <4>1 DEF IInv, BridgesThere
    <3> QED
      BY <1>1, <3>1, <3>2
  <2>3. ready' # "yes"
    <3>1. installed < Len(builder)
      BY DEF Install
    <3>2. installed \in Nat /\ Len(builder) \in Nat
      BY <1>1
    <3>3. ready # "yes"
      BY <3>1, <3>2 DEF IInv, BridgesThere
    <3> QED
      BY <1>3, <3>3
  <2> QED
    BY <1>3, <2>1, <2>2, <2>3 DEF BridgesThere
<1>7. TypeOK' /\ MailboxOnce'
  BY <1>1, <1>3, <1>5 DEF IInv, TypeOK, MailboxOnce
<1>8. ASSUME NEW q \in Tasks PROVE Own(q)'
  BY <1>3 DEF IInv, Own, BeforeSending, Unsent, InMailbox, At, Publishes, Shared
<1> QED
  BY <1>6, <1>7, <1>8 DEF IInv

(* Plugin code subscribes.                                                 *)
LEMMA SubscribeStep ==
  ASSUME IInv, NEW topic \in Topics, NEW type \in Types, Subscribe(topic, type)
  PROVE  IInv'
<1> DEFINE e == Subscriber("watcher", type)
<1>1. e \in Subscribers
  BY DEF Subscriber, Subscribers
<1>2. /\ subscribers' = [subscribers EXCEPT ![topic] = Append(@, e)]
      /\ UNCHANGED <<builder, ready, installed, task, actor, mailbox, busy, handled>>
  BY DEF Subscribe
<1> HIDE DEF e
<1>3. /\ subscribers' \in [Topics -> Seq(Subscribers)]
      /\ \A u \in Topics :
           /\ HasBridge(subscribers[u]) => HasBridge(subscribers'[u])
           /\ TwoBridges(subscribers[u]) => TwoBridges(subscribers'[u])
  BY <1>1, <1>2, SubscribersGrow
<1>4. \A k \in 1..installed : k \in DOMAIN builder /\ Topic(builder[k]) \in Topics
  <2>1. builder \in Seq([kind : Kinds, type : Types]) /\ installed \in 0..Len(builder)
    BY ActorPluginAssumption DEF IInv, TypeOK
  <2>2. \A k \in 1..installed : k \in DOMAIN builder
    BY <2>1, LenProperties
  <2> QED
    BY <2>2, BindingTypes DEF IInv
<1>5. BridgesThere'
  BY <1>2, <1>3, <1>4 DEF IInv, BridgesThere
<1>6. TypeOK' /\ MailboxOnce'
  BY <1>2, <1>3 DEF IInv, TypeOK, MailboxOnce
<1>7. ASSUME NEW q \in Tasks PROVE Own(q)'
  BY <1>2 DEF IInv, Own, BeforeSending, Unsent, InMailbox, At, Publishes, Shared
<1> QED
  BY <1>5, <1>6, <1>7 DEF IInv
------------------------------------------------------------------------------
(* Past ensure_registered every bridge is there, so the copy has one; two  *)
(* of them where two bindings share the topic.                             *)
LEMMA PublishStep ==
  ASSUME IInv, NEW p \in Tasks, Publish(p)
  PROVE  IInv'
<1> DEFINE k == task[p].of
           s == subscribers[Topic(builder[k])]
           r == [task[p] EXCEPT !.at = "deliver", !.left = s]
<1>1. /\ k \in DOMAIN builder /\ DOMAIN builder = 1..Len(builder) /\ Len(builder) \in Nat
      /\ Topic(builder[k]) \in Topics /\ installed = Len(builder)
  <2>1. k \in DOMAIN builder
    BY DEF Publish, At, IInv, TypeOK
  <2> QED
    BY <2>1, BindingTypes DEF Publish, IInv, BridgesThere
<1>2. s \in Seq(Subscribers)
  BY <1>1 DEF IInv, TypeOK
<1>3. HasBridge(s)
  BY <1>1 DEF IInv, BridgesThere
<1>4. Shared(Topic(builder[k])) => TwoBridges(s)
  <2>1. SUFFICES ASSUME NEW i \in DOMAIN builder, NEW j \in DOMAIN builder, i # j,
                        Topic(builder[i]) = Topic(builder[k]),
                        Topic(builder[j]) = Topic(builder[k])
                 PROVE  TwoBridges(s)
    BY DEF Shared
  <2>2. i \in 1..installed /\ j \in 1..installed /\ (i < j \/ j < i)
    BY <1>1, <2>1
  <2> QED
    BY <2>1, <2>2 DEF IInv, BridgesThere
<1> HIDE DEF k, s
<1>5. /\ r \in TaskRecord /\ r.at = "deliver" /\ r.of = task[p].of /\ r.left = s
  BY <1>2 DEF IInv, TypeOK, TaskRecord
<1>6. task' = [task EXCEPT ![p] = r]
  BY DEF Publish, Publishes, s, k
<1>7. task'[p] = r
  BY <1>6 DEF IInv, TypeOK
<1> HIDE DEF r
<1>8. s # <<>> /\ Own(p)
  BY <1>2, <1>3, BridgesCount DEF IInv
<1>9. Own(p)'
  BY <1>3, <1>4, <1>5, <1>7, <1>8, ZenonT(60)
  DEF Publish, Own, BeforeSending, Unsent, InMailbox, At, Publishes, Shared, k
<1> QED
  BY <1>1, <1>5, <1>6, <1>9, QuietStep DEF Publish, IInv, TypeOK, k

(* A subscriber is done, and the publication goes on behind it.            *)
LEMMA PassStep ==
  ASSUME IInv, NEW p \in Tasks, NEW keeps \in BOOLEAN,
         Reaches(p, "watcher"),
         task' = [task EXCEPT ![p].left = Tail(@), ![p].kept = @ \/ keeps],
         UNCHANGED <<builder, ready, installed, subscribers, actor, mailbox, busy, handled>>
  PROVE  IInv'
<1> DEFINE s == task[p].left
           r == [task[p] EXCEPT !.left = Tail(s), !.kept = @ \/ keeps]
<1>1. s \in Seq(Subscribers) /\ s # <<>> /\ Head(s).who # "bridge" /\ At(p, "deliver")
  BY DEF IInv, TypeOK, TaskRecord, Reaches, Upcoming
<1>2. /\ Tail(s) \in Seq(Subscribers)
      /\ HasBridge(s) => HasBridge(Tail(s))
      /\ TwoBridges(s) => TwoBridges(Tail(s))
  BY <1>1, TailKeeps
<1>3. r \in TaskRecord /\ r.at = "deliver" /\ r.of = task[p].of /\ r.left = Tail(s)
  BY <1>1, <1>2 DEF IInv, TypeOK, TaskRecord, At
<1>4. task' = [task EXCEPT ![p] = r]
  BY DEF IInv, TypeOK, TaskRecord
<1>5. task'[p] = r
  BY <1>4 DEF IInv, TypeOK
<1> HIDE DEF r
<1>6. Own(p)
  BY DEF IInv
<1>7. Own(p)'
  BY <1>1, <1>2, <1>3, <1>5, <1>6, ZenonT(60)
  DEF Own, BeforeSending, Unsent, InMailbox, At, Publishes, Shared
<1>8. r.of \in DOMAIN builder /\ actor' \in {"none", "alive", "stopped"}
  BY <1>1, <1>3 DEF IInv, TypeOK, At
<1> QED
  BY <1>3, <1>4, <1>7, <1>8, QuietStep

(* The message is put into the mailbox.                                    *)
LEMMA SendStep ==
  ASSUME IInv, NEW p \in Tasks, Send(p)
  PROVE  IInv'
<1>1. /\ mailbox \in Seq(Tasks) /\ Len(mailbox) \in Nat /\ mailbox' = Append(mailbox, p)
      /\ DOMAIN mailbox = 1..Len(mailbox)
  BY LenProperties DEF Send, IInv, TypeOK
<1>2. /\ mailbox' \in Seq(Tasks) /\ Len(mailbox') = Len(mailbox) + 1
      /\ DOMAIN mailbox' = 1..(Len(mailbox) + 1)
      /\ \A i \in 1..Len(mailbox) : mailbox'[i] = mailbox[i]
      /\ mailbox'[Len(mailbox) + 1] = p
  BY <1>1, AppendProperties, LenProperties
<1>3. /\ task \in [Tasks -> TaskRecord] /\ task' = [task EXCEPT ![p].at = "asked"]
      /\ task[p].at = "sending" /\ task[p].of \in DOMAIN builder
      /\ UNCHANGED <<builder, ready, installed, subscribers, actor, busy, handled>>
  BY DEF Send, Go, At, IInv, TypeOK
<1>4. /\ task' \in [Tasks -> TaskRecord]
      /\ task'[p].at = "asked" /\ task'[p].of = task[p].of /\ task'[p].left = task[p].left
      /\ \A q \in Tasks \ {p} : task'[q] = task[q]
  BY <1>3 DEF TaskRecord
<1>5. ~InMailbox(p) /\ handled[p] = 0 /\ p \notin busy /\ Own(p)
  BY <1>3 DEF IInv, Own, BeforeSending, Unsent
<1>6. \A q \in Tasks \ {p} : InMailbox(q)' <=> InMailbox(q)
  BY <1>1, <1>2 DEF InMailbox
<1>7. TypeOK'
  BY <1>1, <1>2, <1>3, <1>4, ActorPluginAssumption DEF IInv, TypeOK, Send
<1>8. BridgesThere' /\ MailboxOnce'
  BY <1>1, <1>2, <1>3, <1>5 DEF IInv, BridgesThere, MailboxOnce, InMailbox
<1>9. Own(p)'
  BY <1>3, <1>4, <1>5
  DEF Own, BeforeSending, Unsent, At, Publishes, Shared
<1>10. ASSUME NEW q \in Tasks \ {p} PROVE Own(q)'
  <2>1. Own(q)
    BY DEF IInv
  <2> QED
    BY <1>3, <1>4, <1>6, <2>1 DEF Own, BeforeSending, Unsent, At, Publishes, Shared
<1> QED
  BY <1>7, <1>8, <1>9, <1>10 DEF IInv

(* The actor takes the first message.                                      *)
LEMMA TakeStep ==
  ASSUME IInv, Take
  PROVE  IInv'
<1>0. mailbox \in Seq(Tasks) /\ mailbox # <<>>
  BY DEF Take, IInv, TypeOK
<1> PICK h \in Tasks : h = Head(mailbox)
  BY <1>0, HeadTailProperties
<1>1. /\ mailbox' = Tail(mailbox)
      /\ busy = {} /\ busy' = {h} /\ handled' = [handled EXCEPT ![h] = @ + 1]
      /\ UNCHANGED <<builder, ready, installed, subscribers, task, actor>>
  BY DEF Take, IInv, TypeOK
<1>2. /\ h = mailbox[1] /\ mailbox' \in Seq(Tasks)
      /\ Len(mailbox) \in Nat \ {0} /\ Len(mailbox') = Len(mailbox) - 1
      /\ DOMAIN mailbox = 1..Len(mailbox) /\ DOMAIN mailbox' = 1..(Len(mailbox) - 1)
      /\ \A i \in 1..(Len(mailbox) - 1) : mailbox'[i] = mailbox[i + 1]
  BY <1>0, <1>1, HeadTailProperties, EmptySeq, LenProperties, ElementOfSeq
<1>3. 1 \in DOMAIN mailbox /\ \A i \in DOMAIN mailbox' : i + 1 \in DOMAIN mailbox /\ i + 1 # 1
  BY <1>2
<1>4. InMailbox(h) /\ ~InMailbox(h)'
  BY <1>2, <1>3 DEF InMailbox, IInv, MailboxOnce
<1>5. \A q \in Tasks : InMailbox(q)' => InMailbox(q)
  BY <1>2, <1>3 DEF InMailbox
<1>6. handled[h] = 0 /\ Own(h)
  BY <1>2, <1>4 DEF IInv, Own
<1>7. /\ handled \in [Tasks -> Nat] /\ handled' \in [Tasks -> Nat] /\ handled'[h] = 1
      /\ \A q \in Tasks \ {h} : handled'[q] = handled[q]
  BY <1>1, <1>2, <1>6 DEF IInv, TypeOK
<1>8. TypeOK'
  BY <1>1, <1>2, <1>7, ActorPluginAssumption DEF IInv, TypeOK
<1>9. BridgesThere' /\ MailboxOnce'
  BY <1>1, <1>2, <1>3 DEF IInv, BridgesThere, MailboxOnce
<1>10. Own(h)'
  BY <1>1, <1>4, <1>6, <1>7 DEF Own, BeforeSending, Unsent, At, Publishes, Shared
<1>11. ASSUME NEW q \in Tasks \ {h} PROVE Own(q)'
  <2>1. Own(q)
    BY DEF IInv
  <2> QED
    BY <1>1, <1>5, <1>7, <2>1 DEF Own, BeforeSending, Unsent, At, Publishes, Shared
<1> QED
  BY <1>8, <1>9, <1>10, <1>11 DEF IInv

(* The actor stops; what was sent to it is lost.                           *)
LEMMA StopStep ==
  ASSUME IInv, ActorStops
  PROVE  IInv'
<1>1. /\ mailbox' = <<>> /\ busy' = {} /\ actor' = "stopped"
      /\ UNCHANGED <<builder, ready, installed, subscribers, task, handled>>
  BY DEF ActorStops
<1>2. mailbox' \in Seq(Tasks) /\ Len(mailbox') = 0 /\ DOMAIN mailbox' = {}
  BY <1>1, EmptySeq
<1>3. TypeOK' /\ BridgesThere' /\ MailboxOnce'
  BY <1>1, <1>2, ActorPluginAssumption DEF IInv, TypeOK, BridgesThere, MailboxOnce
<1>4. ASSUME NEW q \in Tasks PROVE Own(q)'
  <2>1. Own(q) /\ ~InMailbox(q)'
    BY <1>2 DEF IInv, InMailbox
  <2> QED
    BY <1>1, <2>1 DEF Own, BeforeSending, Unsent, At, Publishes, Shared
<1> QED
  BY <1>3, <1>4 DEF IInv

(* The actor is done with a message, whose task may still wait for it: it  *)
(* has then reached its last subscriber.                                   *)
LEMMA ReplyStep ==
  ASSUME IInv, NEW p \in Tasks, Reply(p)
  PROVE  IInv'
<1>1. /\ busy = {p} /\ busy' = {} /\ handled[p] = 1 /\ Own(p)
      /\ UNCHANGED <<builder, ready, installed, subscribers, actor, mailbox, handled>>
  BY DEF Reply, IInv, Own
<1>2. task \in [Tasks -> TaskRecord] /\ task[p] \in TaskRecord
  BY DEF IInv, TypeOK
<1>3. /\ task' \in [Tasks -> TaskRecord]
      /\ \A q \in Tasks \ {p} : task'[q] = task[q]
      /\ task'[p].of = task[p].of
      /\ \/ At(p, "asked") /\ task'[p].at = "failed"
         \/ At(p, "asked") /\ task'[p].at = "deliver" /\ task'[p].left = <<>>
         \/ ~At(p, "asked") /\ task'[p] = task[p]
  <2>1. CASE At(p, "asked") /\ Go(p, "failed")
    <3>1. [task[p] EXCEPT !.at = "failed"] \in TaskRecord
      BY <1>2 DEF TaskRecord, Ended
    <3> QED
      BY <1>2, <2>1, <3>1 DEF Go
  <2>2. CASE /\ At(p, "asked")
             /\ task' = [task EXCEPT ![p].at = "deliver", ![p].left = Tail(@)]
    <3> DEFINE s == task[p].left
               r == [task[p] EXCEPT !.at = "deliver", !.left = Tail(s)]
    <3>1. s \in Seq(Subscribers) /\ Len(s) = 1
      BY <1>1, <1>2, <2>2 DEF Own, At, TaskRecord
    <3>2. Tail(s) = <<>> /\ Tail(s) \in Seq(Subscribers)
      BY <3>1, BridgesCount, TailKeeps
    <3>3. r \in TaskRecord /\ r.of = task[p].of /\ r.at = "deliver" /\ r.left = <<>>
      BY <1>2, <3>2 DEF TaskRecord
    <3>4. task' = [task EXCEPT ![p] = r]
      BY <1>2, <2>2 DEF TaskRecord
    <3> HIDE DEF r
    <3> QED
      BY <1>2, <2>2, <3>3, <3>4
  <2>3. CASE ~At(p, "asked") /\ UNCHANGED task
    BY <1>2, <2>3
  <2> QED
    BY <2>1, <2>2, <2>3 DEF Reply
<1>4. TypeOK' /\ BridgesThere' /\ MailboxOnce'
  <2>1. task[p].of \in DOMAIN builder \/ task[p].at = "idle"
    BY DEF IInv, TypeOK
  <2> QED
    BY <1>1, <1>3, <2>1 DEF IInv, TypeOK, BridgesThere, MailboxOnce, At
<1>5. Own(p)'
  BY <1>1, <1>3 DEF Own, BeforeSending, Unsent, InMailbox, At, Publishes, Shared
<1>6. ASSUME NEW q \in Tasks \ {p} PROVE Own(q)'
  <2>1. Own(q)
    BY DEF IInv
  <2> QED
    BY <1>1, <1>3, <2>1 DEF Own, BeforeSending, Unsent, InMailbox, At, Publishes, Shared
<1> QED
  BY <1>4, <1>5, <1>6 DEF IInv
------------------------------------------------------------------------------
(* What a handler task does by itself.                                     *)
LEMMA HandlerStep ==
  ASSUME IInv, NEW p \in Tasks, HandlerTask(p) \/ Watch(p) \/ TimeOut(p)
  PROVE  IInv'
<1>1. actor \in {"none", "alive", "stopped"}
  BY DEF IInv, TypeOK
<1>2. CASE Register(p)
  BY <1>2, RegisterStep DEF Register, At
<1>3. CASE Install(p)
  BY <1>3, InstallStep
<1>4. CASE Registered(p)
  BY <1>4, RegisterStep DEF Registered, At
<1>5. CASE Publish(p)
  BY <1>5, PublishStep
<1>6. CASE Published(p)
  <2>1. handled[p] > 0
    <3>1. Own(p) /\ task[p].left \in Seq(Subscribers)
      BY DEF IInv, TypeOK, TaskRecord
    <3> QED
      BY <1>6, <3>1, BridgesCount DEF Published, Own
  <2> QED
    BY <1>1, <1>6, <2>1, GoStep DEF Published, At
<1>7. CASE Mismatch(p)
  BY <1>1, <1>7, GoStep DEF Mismatch, At
<1>8. CASE Bridge(p)
  <2>1. actor' \in {"none", "alive", "stopped"} /\ At(p, "deliver") /\ ~At(p, "idle")
    BY <1>1, <1>8 DEF Bridge, Reaches, At
  <2>2. CASE Exclusive(p)
    BY <1>8, <2>1, <2>2, GoStep DEF Bridge, Exclusive
  <2>3. CASE ~Exclusive(p)
    BY <1>8, <2>1, <2>3, GoStep DEF Bridge
  <2> QED
    BY <2>2, <2>3
<1>9. CASE AskFails(p)
  BY <1>1, <1>9, GoStep DEF AskFails, At
<1>10. CASE Watch(p)
  <2>1. CASE Go(p, "failed")
    BY <1>1, <1>10, <2>1, GoStep DEF Watch, Reaches, At
  <2>2. CASE \E keeps \in BOOLEAN :
               task' = [task EXCEPT ![p].left = Tail(@), ![p].kept = @ \/ keeps]
    BY <1>10, <2>2, PassStep DEF Watch
  <2> QED
    BY <1>10, <2>1, <2>2 DEF Watch
<1>11. CASE TimeOut(p)
  BY <1>1, <1>11, GoStep DEF TimeOut, Reaches, At
<1> QED
  BY <1>2, <1>3, <1>4, <1>5, <1>6, <1>7, <1>8, <1>9, <1>10, <1>11 DEF HandlerTask

(* Every step of tasks, actor and plugin code keeps the invariant.         *)
LEMMA NextStep == IInv /\ [Next]_vars => IInv'
<1> SUFFICES ASSUME IInv, [Next]_vars PROVE IInv'
  OBVIOUS
<1>1. ASSUME NEW p \in Tasks, NEW k \in DOMAIN builder, Begin(p, k) PROVE IInv'
  BY <1>1, BeginStep
<1>2. ASSUME NEW p \in Tasks, HandlerTask(p) \/ Watch(p) \/ TimeOut(p) PROVE IInv'
  BY <1>2, HandlerStep
<1>3. ASSUME NEW p \in Tasks, Send(p) \/ Reply(p) PROVE IInv'
  BY <1>3, SendStep, ReplyStep
<1>4. CASE Take \/ ActorStops
  BY <1>4, TakeStep, StopStep
<1>5. ASSUME NEW j \in DOMAIN builder, NEW k \in DOMAIN builder,
             Subscribe(Topic(builder[j]), builder[k].type)
      PROVE  IInv'
  <2>1. Topic(builder[j]) \in Topics /\ builder[k].type \in Types
    BY BindingTypes DEF IInv
  <2> QED
    BY <1>5, <2>1, SubscribeStep
<1>6. CASE UNCHANGED vars
  BY <1>6 DEF vars, IInv, TypeOK, BridgesThere, MailboxOnce, Own, BeforeSending, Unsent,
              InMailbox, At, Publishes, Shared
<1> QED
  BY <1>1, <1>2, <1>3, <1>4, <1>5, <1>6 DEF Next

(* In every state, however tasks, actor and subscriptions interleave.      *)
THEOREM Invariance == Spec => []IInv
BY InitIInv, NextStep, PTL DEF Spec

(* Every variable keeps to its type.                                       *)
THEOREM TypeCorrect == Spec => []TypeOK
<1>1. IInv => TypeOK
  BY DEF IInv
<1> QED
  BY <1>1, Invariance, PTL

(* Ok means handled: no publication is lost (builder.rs 73-82, 428-476).   *)
THEOREM NothingLost == Spec => []NoSilentLoss
<1>1. IInv => NoSilentLoss
  BY DEF IInv, NoSilentLoss, Own
<1> QED
  BY <1>1, Invariance, PTL

(* No message reaches the actor twice (builder.rs 459-470).                *)
THEOREM AtMostOnce == Spec => []HandledOnce
<1>1. IInv => HandledOnce
  BY DEF IInv, HandledOnce, Own
<1> QED
  BY <1>1, Invariance, PTL

(* Bindings that share a topic are never served (builder.rs 459-470).      *)
THEOREM SharedNeverServed == Spec => []SharedTopicServesNone
<1>1. IInv => SharedTopicServesNone
  BY DEF IInv, SharedTopicServesNone, Own, Unsent
<1> QED
  BY <1>1, Invariance, PTL
==============================================================================
