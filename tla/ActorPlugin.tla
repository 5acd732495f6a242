----------------------------- MODULE ActorPlugin -----------------------------
(***************************************************************************)
(* A plugin made by ActorPluginBuilder (builder.rs) and the bus it uses    *)
(* (bus.rs): handler tasks of the scheduler publish on a topic, a bridge   *)
(* subscribed to it asks the plugin's actor, and plugin code may subscribe *)
(* to any topic as well.  All bindings are those of one builder.           *)
(***************************************************************************)
EXTENDS Naturals, Sequences, FiniteSetsExt

CONSTANTS
  Builders,   \* sequences of bindings, the message bindings first, as the host
              \* compiles them: [kind, type], a type being [path, name], the
              \* name what to_snake_case makes of its last segment and the
              \* path all that is left out of it
  Tasks,      \* handler tasks; each publishes once
  Capacity,   \* of the actor's mailbox
  MaxWatchers \* bound on the subscriptions plugin code makes

VARIABLES
  builder,     \* the bindings; never changes
  ready,       \* ActorRuntime.bridge_ready: "no", "busy" or "yes"
  installed,   \* bridges installed so far
  subscribers, \* RuntimeActorBus.subscribers
  task,        \* what each handler task is doing
  actor,       \* ActorRuntime.actor_ref: "none" before it is spawned
  mailbox,     \* tasks whose message waits for the actor
  busy,        \* the task whose message the actor is handling, if any
  handled      \* how often the actor has begun to handle each task's message

vars == <<builder, ready, installed, subscribers, task, actor, mailbox, busy, handled>>

Kinds == {"message", "event"}

(* derived_handler_id and the topics: the path of a type is left out.      *)
HandlerId(type) == type.name
Topic(b) == <<b.kind, HandlerId(b.type)>>

Bindings == UNION {{b[k] : k \in DOMAIN b} : b \in Builders}
Topics == {Topic(b) : b \in Bindings}
Types == {b.type : b \in Bindings}

ASSUME ActorPluginAssumption ==
  /\ \A b \in Builders : b \in Seq([kind : Kinds, type : Types])
  /\ Capacity \in Nat \ {0}
  /\ MaxWatchers \in Nat

Subscriber(who, type) == [who |-> who, type |-> type]
Subscribers == [who : {"bridge", "watcher"}, type : Types]

Ended == {"ok", "failed", "refused", "timedout"}

TaskRecord ==
  [at : {"idle", "register", "installing", "deliver", "sending", "asked"} \cup Ended,
   of : Nat, left : Seq(Subscribers), kept : BOOLEAN]

Idle == [at |-> "idle", of |-> 0, left |-> <<>>, kept |-> FALSE]

Init ==
  /\ builder \in Builders
  /\ ready = "no" /\ installed = 0
  /\ subscribers = [t \in Topics |-> <<>>]
  /\ task = [p \in Tasks |-> Idle]
  /\ actor = "none" /\ mailbox = <<>> /\ busy = {}
  /\ handled = [p \in Tasks |-> 0]

At(p, at) == task[p].at = at
Go(p, at) == task' = [task EXCEPT ![p].at = at]
Publishes(p) == builder[task[p].of]
------------------------------------------------------------------------------
(* publish_actor_message in a handler task.                                *)

(* PluginActor runs of message handlers with one id only the last.         *)
IsRun(k) ==
  builder[k].kind = "message" =>
    \A j \in DOMAIN builder : Topic(builder[j]) = Topic(builder[k]) => j <= k

(* The handler of binding k runs: mapper, then the bus from the context.   *)
Begin(p, k) ==
  /\ At(p, "idle") /\ IsRun(k)
  /\ task' = [task EXCEPT ![p].at = "register", ![p].of = k]
  /\ UNCHANGED <<builder, ready, installed, subscribers, actor, mailbox, busy, handled>>

(* Mutant: bridge_ready is set before the bridges are there.               *)
RegisterEagerly(p) ==
  /\ At(p, "register") /\ ready = "no"
  /\ ready' = "yes" /\ Go(p, "installing")
  /\ UNCHANGED <<builder, installed, subscribers, actor, mailbox, busy, handled>>

(* ensure_registered: the first to come initializes the OnceCell.          *)
Register(p) ==
  /\ At(p, "register") /\ ready = "no"
  /\ ready' = "busy" /\ Go(p, "installing")
  /\ UNCHANGED <<builder, installed, subscribers, actor, mailbox, busy, handled>>

(* One installer: ActorBusHandle::subscribe under the bus's write lock.    *)
Install(p) ==
  /\ At(p, "installing") /\ installed < Len(builder)
  /\ installed' = installed + 1
  /\ LET b == builder[installed']
     IN  subscribers' = [subscribers EXCEPT ![Topic(b)] = Append(@, Subscriber("bridge", b.type))]
  /\ UNCHANGED <<builder, ready, task, actor, mailbox, busy, handled>>

(* The initializer returns and sets the cell.                              *)
Registered(p) ==
  /\ At(p, "installing") /\ installed = Len(builder)
  /\ ready' = "yes" /\ Go(p, "register")
  /\ UNCHANGED <<builder, installed, subscribers, actor, mailbox, busy, handled>>

(* Past ensure_registered: publish_raw takes a copy of the subscribers.    *)
Publish(p) ==
  /\ At(p, "register") /\ ready = "yes"
  /\ task' = [task EXCEPT ![p].at = "deliver", ![p].left = subscribers[Topic(Publishes(p))]]
  /\ UNCHANGED <<builder, ready, installed, subscribers, actor, mailbox, busy, handled>>

Upcoming(p) == Head(task[p].left)
Reaches(p, who) == At(p, "deliver") /\ task[p].left # <<>> /\ Upcoming(p).who = who

(* The downcast every typed subscriber starts with.                        *)
Downcast(p) == Upcoming(p).type = Publishes(p).type

(* No subscriber is left: publish returns Ok.                              *)
Published(p) ==
  /\ At(p, "deliver") /\ task[p].left = <<>>
  /\ Go(p, "ok")
  /\ UNCHANGED <<builder, ready, installed, subscribers, actor, mailbox, busy, handled>>

(* `actor bus payload type mismatch' ends the publication.                 *)
Mismatch(p) ==
  /\ At(p, "deliver") /\ task[p].left # <<>> /\ ~Downcast(p)
  /\ Go(p, "failed")
  /\ UNCHANGED <<builder, ready, installed, subscribers, actor, mailbox, busy, handled>>

(* A subscriber of plugin code: it fails, or is done, or is done and still *)
(* holds the payload.                                                      *)
Watch(p) ==
  /\ Reaches(p, "watcher") /\ Downcast(p)
  /\ \/ Go(p, "failed")
     \/ \E keeps \in BOOLEAN :
          task' = [task EXCEPT ![p].left = Tail(@), ![p].kept = @ \/ keeps]
  /\ UNCHANGED <<builder, ready, installed, subscribers, actor, mailbox, busy, handled>>

(* Mutant: the payload is cloned instead of unwrapped.                     *)
Cloned(p) == TRUE

(* Arc::try_unwrap: the publisher holds the payload until it reaches the   *)
(* last subscriber, which is given it.                                     *)
Exclusive(p) == Len(task[p].left) = 1 /\ ~task[p].kept

(* A bridge: the actor is spawned, if need be, before the payload is       *)
(* unwrapped; a shared one is refused.                                     *)
Bridge(p) ==
  /\ Reaches(p, "bridge") /\ Downcast(p)
  /\ actor' = IF actor = "none" THEN "alive" ELSE actor
  /\ Go(p, IF Exclusive(p) THEN "sending" ELSE "refused")
  /\ UNCHANGED <<builder, ready, installed, subscribers, mailbox, busy, handled>>

(* Mutants: the mailbox has no bound; the bridge tells instead of asking.  *)
SendUnbounded(p) ==
  /\ At(p, "sending") /\ actor = "alive"
  /\ mailbox' = Append(mailbox, p)
  /\ Go(p, "asked")
  /\ UNCHANGED <<builder, ready, installed, subscribers, actor, busy, handled>>

SendTell(p) ==
  /\ At(p, "sending") /\ actor = "alive" /\ Len(mailbox) < Capacity
  /\ mailbox' = Append(mailbox, p)
  /\ task' = [task EXCEPT ![p].at = "deliver", ![p].left = Tail(@)]
  /\ UNCHANGED <<builder, ready, installed, subscribers, actor, busy, handled>>

(* ask waits for room in a living actor's mailbox.                         *)
Send(p) ==
  /\ At(p, "sending") /\ actor = "alive" /\ Len(mailbox) < Capacity
  /\ mailbox' = Append(mailbox, p)
  /\ Go(p, "asked")
  /\ UNCHANGED <<builder, ready, installed, subscribers, actor, busy, handled>>

(* `actor ask failed': the actor has stopped; it is never spawned again.   *)
AskFails(p) ==
  /\ task[p].at \in {"sending", "asked"} /\ actor = "stopped"
  /\ Go(p, "failed")
  /\ UNCHANGED <<builder, ready, installed, subscribers, actor, mailbox, busy, handled>>

(* Mutant: the timeout covers the answer only.                             *)
TimeOutAnswer(p) ==
  /\ At(p, "asked")
  /\ Go(p, "timedout")
  /\ UNCHANGED <<builder, ready, installed, subscribers, actor, mailbox, busy, handled>>

(* The scheduler's timeout drops the handler's future at one of its        *)
(* awaits; a message that has been sent stays sent.                        *)
TimeOut(p) ==
  /\ \/ At(p, "register") /\ ready = "busy"
     \/ Reaches(p, "watcher") /\ Downcast(p)
     \/ task[p].at \in {"sending", "asked"}
  /\ Go(p, "timedout")
  /\ UNCHANGED <<builder, ready, installed, subscribers, actor, mailbox, busy, handled>>
------------------------------------------------------------------------------
(* The actor, and plugin code that subscribes.                             *)

Take ==
  /\ actor = "alive" /\ busy = {} /\ mailbox # <<>>
  /\ busy' = {Head(mailbox)} /\ mailbox' = Tail(mailbox)
  /\ handled' = [handled EXCEPT ![Head(mailbox)] = @ + 1]
  /\ UNCHANGED <<builder, ready, installed, subscribers, task, actor>>

(* The reply reaches the task unless that has timed out; after an Ok the   *)
(* publication goes on to its next subscriber.                             *)
Reply(p) ==
  /\ busy = {p}
  /\ busy' = {}
  /\ \/ At(p, "asked") /\ Go(p, "failed")
     \/ At(p, "asked") /\ task' = [task EXCEPT ![p].at = "deliver", ![p].left = Tail(@)]
     \/ ~At(p, "asked") /\ UNCHANGED task
  /\ UNCHANGED <<builder, ready, installed, subscribers, actor, mailbox, handled>>

(* A panic, a failed start, or someone with an actor_ref stops it.         *)
ActorStops ==
  /\ actor = "alive"
  /\ actor' = "stopped" /\ mailbox' = <<>> /\ busy' = {}
  /\ UNCHANGED <<builder, ready, installed, subscribers, task, handled>>

IsWatcher(s) == s.who = "watcher"
WatchersOn(topic) == Len(SelectSeq(subscribers[topic], IsWatcher))

Subscribe(topic, type) ==
  /\ MapThenSumSet(WatchersOn, Topics) < MaxWatchers
  /\ subscribers' = [subscribers EXCEPT ![topic] = Append(@, Subscriber("watcher", type))]
  /\ UNCHANGED <<builder, ready, installed, task, actor, mailbox, busy, handled>>
------------------------------------------------------------------------------
HandlerTask(p) ==
  \/ Register(p) \/ Install(p) \/ Registered(p) \/ Publish(p)
  \/ Published(p) \/ Mismatch(p) \/ Bridge(p) \/ AskFails(p)

Next ==
  \/ \E p \in Tasks, k \in DOMAIN builder : Begin(p, k)
  \/ \E p \in Tasks : HandlerTask(p) \/ Watch(p) \/ Send(p) \/ TimeOut(p) \/ Reply(p)
  \/ Take \/ ActorStops
  \/ \E j, k \in DOMAIN builder : Subscribe(Topic(builder[j]), builder[k].type)

(* Tasks are polled and their timeouts fire.  Nobody promises that the     *)
(* actor, or code that subscribes, ever finishes with a message.           *)
Fairness == \A p \in Tasks : WF_vars(HandlerTask(p)) /\ WF_vars(TimeOut(p))

Spec == Init /\ [][Next]_vars /\ Fairness
------------------------------------------------------------------------------
TypeOK ==
  /\ builder \in Builders
  /\ ready \in {"no", "busy", "yes"} /\ installed \in 0..Len(builder)
  /\ subscribers \in [Topics -> Seq(Subscribers)]
  /\ task \in [Tasks -> TaskRecord]
  /\ \A p \in Tasks : task[p].at # "idle" => task[p].of \in DOMAIN builder
  /\ actor \in {"none", "alive", "stopped"}
  /\ mailbox \in Seq(Tasks) /\ Len(mailbox) <= Capacity
  /\ busy \in SUBSET Tasks /\ handled \in [Tasks -> Nat]

(* A handler whose publication returned Ok has been handled by the actor:  *)
(* none is published before its bridge is there, whoever registers, and    *)
(* Ok is the actor's answer.  builder.rs 73-82, 428-476, bus.rs 72-101.    *)
NoSilentLoss == \A p \in Tasks : At(p, "ok") => handled[p] > 0

(* No message reaches the actor twice, however many subscribe to its       *)
(* topic.  builder.rs 459-470, bus.rs 81-98.                               *)
HandledOnce == \A p \in Tasks : handled[p] <= 1

Shared(topic) == \E j, k \in DOMAIN builder :
                   j # k /\ Topic(builder[j]) = topic /\ Topic(builder[k]) = topic

(* Two bindings whose message types have one name refuse each other's      *)
(* messages, from the first to the last: none slips through while the      *)
(* bridges are being installed.  builder.rs 73-82, 459-470.                *)
SharedTopicServesNone ==
  \A p \in Tasks : ~At(p, "idle") /\ Shared(Topic(Publishes(p))) => handled[p] = 0

(* A publication ends, in time or by its timeout, though the actor may be  *)
(* stuck, full or gone.  builder.rs 461-476, task_runner.rs 166-167.       *)
PublicationEnds ==
  \A p \in Tasks : ~At(p, "idle") ~> task[p].at \in Ended
==============================================================================
