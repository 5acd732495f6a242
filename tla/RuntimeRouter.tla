---------------------------- MODULE RuntimeRouter ----------------------------
(***************************************************************************)
(* RuntimeRouter (fish-runtime host.rs) and the plugin actors it feeds     *)
(* (actor.rs), up to the point where a handler's future is given to the    *)
(* plugin's TaskScheduler.                                                 *)
(*                                                                         *)
(* Event sinks call the router, possibly several at once.  A call counts   *)
(* its message, looks its targets up in the route tables and sends one     *)
(* HandleEvent per target to a bounded mailbox, waiting while it is full.  *)
(* Each actor takes one HandleEvent at a time, finds the handler by its id *)
(* and, for regex and fallback routes, checks the handler's rule.          *)
(*                                                                         *)
(* A pattern is an opaque name.  A text is known by the facts the routes   *)
(* test: the pattern its trimmed form equals, the patterns it starts with  *)
(* and the patterns it contains.                                           *)
(***************************************************************************)
EXTENDS Integers, SequenceOps

CONSTANTS
  Callers,         \* concurrent callers of RuntimeEventSink
  Texts,           \* texts of incoming messages
  EventTypes,      \* event_type of incoming system events
  Plugins,         \* the plugins, numbered in registration order
  Configurations,  \* the handlers of the plugins, as a run considers them
  ToSnakeCase(_),  \* to_snake_case: a type's name without its capitals
  Capacity,        \* the actors' mailbox capacity
  MaxArrivals      \* bound on the messages and events of a behaviour

ASSUME RouterAssumption ==
  /\ Capacity \in Nat \ {0} /\ MaxArrivals \in Nat
  /\ IsFiniteSet(Plugins) /\ Plugins = 1..Cardinality(Plugins)
  /\ \A config \in Configurations :
       /\ DOMAIN config = Plugins
       /\ \A p \in Plugins :
            /\ config[p].messages \in Seq(Range(config[p].messages))
            /\ config[p].events \in Seq(Range(config[p].events))
            /\ \A h \in Range(config[p].messages) : h.pats \in Seq(Range(h.pats))

VARIABLES
  plugins,   \* the handlers of each plugin; never changes
  arrivals,  \* what arrived, in order
  sending,   \* per caller: the arrival it dispatches and the targets left
  mailbox,   \* per plugin: queued HandleEvents and HandleSystemEvents
  busy,      \* per plugin: the message its actor is handling, or <<>>
  alive,     \* per plugin: whether its actor runs
  ran,       \* per plugin: handlers given to the scheduler, in order
  tel        \* the router's counters

vars == <<plugins, arrivals, sending, mailbox, busy, alive, ran, tel>>
------------------------------------------------------------------------------
(* Rules (fish-core rule.rs), as the sets of texts they accept: `is_regex' *)
(* is given by its set, empty if the pattern is invalid.                   *)
IsFullmatch(pats) == {x \in Texts : x.trimmed \in Range(pats)}

IsStartswith(pats) == {x \in Texts : x.starts \cap Range(pats) # {}}

IsKeywords(pats) == {x \in Texts : x.has \cap Range(pats) # {}}

And(rule, other) == rule \cap other

Or(rule, other) == rule \cup other

(* Handlers as MessageHandler's constructors make them.                    *)

Handler(id, route, pats, rule) == [id |-> id, route |-> route, pats |-> pats, rule |-> rule]

Exact(id, pats) == Handler(id, "exact", pats, IsFullmatch(pats))

Prefix(id, pats) == Handler(id, "prefix", pats, IsStartswith(pats))

Keyword(id, pats) == Handler(id, "keyword", pats, IsKeywords(pats))

Regex(id, matching) == Handler(id, "regex", <<>>, matching)

Fallback(id) == Handler(id, "fallback", <<>>, Texts)

(* on_message, on_prefix, on_keyword, on_regex, on_fallback and on_event   *)
(* of an ActorPluginBuilder: a handler's id is derived from the type it is *)
(* bound to, of which type_label drops the path and to_snake_case the      *)
(* capitals, so that two types may have one id.                            *)
DerivedHandlerId(type) == ToSnakeCase(type.name)

On(route, pattern, type) == [route |-> route, pattern |-> pattern, type |-> type]

OnEvent(event, type) == [event |-> event, type |-> type]

IntoHandler(binding) ==
  LET id == DerivedHandlerId(binding.type)
      pats == <<binding.pattern>>
  IN  CASE binding.route = "exact" -> Exact(id, pats)
        [] binding.route = "prefix" -> Prefix(id, pats)
        [] binding.route = "keyword" -> Keyword(id, pats)
        [] binding.route = "regex" -> Regex(id, binding.pattern)
        [] binding.route = "fallback" -> Fallback(id)

CompiledMessageHandlers(bindings) == [i \in DOMAIN bindings |-> IntoHandler(bindings[i])]

CompiledEventHandlers(bindings) ==
  [i \in DOMAIN bindings |->
     [id |-> DerivedHandlerId(bindings[i].type), type |-> bindings[i].event]]
------------------------------------------------------------------------------
(* The route tables, built once by RuntimeRouter::new in plugin, handler   *)
(* and pattern order.                                                      *)

Stages == <<"exact", "prefix", "keyword", "fallback">>

StageOf(route) == IF route = "regex" THEN "fallback" ELSE route

Target(p, id) == [plugin |-> p, id |-> id]

(* One entry per pattern; one for a handler that has none.                 *)
Entries(p, h) ==
  IF StageOf(h.route) = "fallback"
  THEN << [pattern |-> "", target |-> Target(p, h.id)] >>
  ELSE [i \in DOMAIN h.pats |-> [pattern |-> h.pats[i], target |-> Target(p, h.id)]]

Table(stage) ==
  LET Of(p, h) == IF StageOf(h.route) = stage THEN Entries(p, h) ELSE <<>>
  IN  FlattenSeq([p \in Plugins |->
        FlattenSeq([k \in DOMAIN plugins[p].messages |-> Of(p, plugins[p].messages[k])])])

Matches(stage, pattern, text) ==
  \/ stage = "exact" /\ pattern = text.trimmed
  \/ stage = "prefix" /\ pattern \in text.starts
  \/ stage = "keyword" /\ pattern \in text.has
  \/ stage = "fallback"

Hits(stage, text) ==
  LET table == Table(stage)
  IN  Kept(table, {e \in Range(table) : Matches(stage, e.pattern, text)})

(* Mutant: regex handlers are tried only if nothing else matched, because  *)
(* they are in the fallback table.                                         *)
TargetsOrFallback(text) ==
  LET hits == FlattenSeq([s \in 1..3 |-> Hits(Stages[s], text)])
      all == IF hits = <<>> THEN Hits("fallback", text) ELSE hits
  IN  [i \in DOMAIN all |-> all[i].target]

(* The targets of a message, stage by stage.                               *)
Targets(text) ==
  LET hits == FlattenSeq([s \in DOMAIN Stages |-> Hits(Stages[s], text)])
  IN  [i \in DOMAIN hits |-> hits[i].target]

EventTargets(type) ==
  FlattenSeq([p \in Plugins |->
    LET of == Kept(plugins[p].events, {h \in Range(plugins[p].events) : h.type = type})
    IN  [i \in DOMAIN of |-> Target(p, of[i].id)]])
------------------------------------------------------------------------------
Nobody == [arrival |-> 0, targets |-> <<>>]

Counters == {"messages_received", "exact_route_hits", "prefix_route_hits",
  "keyword_route_hits", "fallback_dispatches", "handler_dispatches", "unmatched_messages"}

Init ==
  /\ plugins \in Configurations
  /\ arrivals = <<>>
  /\ sending = [c \in Callers |-> Nobody]
  /\ mailbox = [p \in Plugins |-> <<>>]
  /\ busy = [p \in Plugins |-> <<>>]
  /\ alive = [p \in Plugins |-> TRUE]
  /\ ran = [p \in Plugins |-> <<>>]
  /\ tel = [n \in Counters |-> 0]

Arrive(c, kind, what, targets) ==
  /\ sending[c] = Nobody
  /\ Len(arrivals) < MaxArrivals
  /\ arrivals' = Append(arrivals, [kind |-> kind, what |-> what, caller |-> c])
  /\ sending' = [sending EXCEPT ![c] =
       IF targets = <<>> THEN Nobody ELSE [arrival |-> Len(arrivals'), targets |-> targets]]
  /\ UNCHANGED <<plugins, mailbox, busy, alive, ran>>

(* dispatch_message up to its first await: the lookups and their counters, *)
(* and handler_dispatches for the first tell.                              *)
DispatchMessage(c, text) ==
  LET n(stage) == Len(Hits(stage, text))
      targets == Targets(text)
  IN  /\ Arrive(c, "message", text, targets)
      /\ tel' = [tel EXCEPT
           !["messages_received"] = @ + 1,
           !["exact_route_hits"] = @ + n("exact"),
           !["prefix_route_hits"] = @ + n("prefix"),
           !["keyword_route_hits"] = @ + n("keyword"),
           !["fallback_dispatches"] = @ + n("fallback"),
           !["unmatched_messages"] = @ + (IF targets = <<>> THEN 1 ELSE 0),
           !["handler_dispatches"] = @ + (IF targets = <<>> THEN 0 ELSE 1)]

(* dispatch_system; it counts nothing.                                     *)
DispatchSystem(c, type) ==
  /\ Arrive(c, "system", type, EventTargets(type))
  /\ UNCHANGED tel

(* Mutant: a tell is counted whatever the arrival is.                      *)
AdvanceCountingAll(c) ==
  LET rest == Tail(sending[c].targets)
  IN  /\ sending' = [sending EXCEPT ![c] = IF rest = <<>> THEN Nobody ELSE [@ EXCEPT !.targets = rest]]
      /\ tel' = IF rest # <<>> THEN [tel EXCEPT !["handler_dispatches"] = @ + 1] ELSE tel
      /\ UNCHANGED <<plugins, arrivals, busy, alive, ran>>

(* The head's tell is over: count the next one, which is sent at once.     *)
Advance(c) ==
  LET rest == Tail(sending[c].targets)
      counted == arrivals[sending[c].arrival].kind = "message" /\ rest # <<>>
  IN  /\ sending' = [sending EXCEPT ![c] = IF rest = <<>> THEN Nobody ELSE [@ EXCEPT !.targets = rest]]
      /\ tel' = IF counted THEN [tel EXCEPT !["handler_dispatches"] = @ + 1] ELSE tel
      /\ UNCHANGED <<plugins, arrivals, busy, alive, ran>>

(* Mutant: the mailbox is unbounded.                                       *)
TellUnbounded(c) ==
  /\ sending[c] # Nobody
  /\ LET to == Head(sending[c].targets)
         msg == [arrival |-> sending[c].arrival, id |-> to.id]
     IN  alive[to.plugin] /\ mailbox' = [mailbox EXCEPT ![to.plugin] = Append(@, msg)]
  /\ Advance(c)

(* Mutant: the tell is spawned, so it may overtake an older one.           *)
TellDetached(c) ==
  /\ sending[c] # Nobody
  /\ LET to == Head(sending[c].targets)
         msg == [arrival |-> sending[c].arrival, id |-> to.id]
     IN  /\ alive[to.plugin]
         /\ Len(mailbox[to.plugin]) < Capacity
         /\ mailbox' = [mailbox EXCEPT ![to.plugin] = <<msg>> \o @]
  /\ Advance(c)

(* plugin_ref.tell(..).await: waits for room in a living actor's mailbox.  *)
Tell(c) ==
  /\ sending[c] # Nobody
  /\ LET to == Head(sending[c].targets)
         msg == [arrival |-> sending[c].arrival, id |-> to.id]
     IN  /\ alive[to.plugin]
         /\ Len(mailbox[to.plugin]) < Capacity
         /\ mailbox' = [mailbox EXCEPT ![to.plugin] = Append(@, msg)]
  /\ Advance(c)

(* Mutant: the tell to a stopped actor is repeated.                        *)
TellAgain(c) ==
  /\ sending[c] # Nobody
  /\ ~alive[Head(sending[c].targets).plugin]
  /\ UNCHANGED vars

(* The tell to a stopped actor is an error, which is ignored.              *)
TellStopped(c) ==
  /\ sending[c] # Nobody
  /\ ~alive[Head(sending[c].targets).plugin]
  /\ Advance(c)
  /\ UNCHANGED mailbox
------------------------------------------------------------------------------
(* A plugin actor.                                                         *)

(* handler_index: of two handlers with one id the later one is kept.       *)
HandlerIndex(p, id) ==
  {k \in DOMAIN plugins[p].messages :
     /\ plugins[p].messages[k].id = id
     /\ \A j \in DOMAIN plugins[p].messages : plugins[p].messages[j].id = id => j <= k}

(* The handlers a HandleEvent runs: none or one.                           *)
Matched(p, msg) ==
  {k \in HandlerIndex(p, msg.id) :
     LET h == plugins[p].messages[k]
     IN  h.route \in {"regex", "fallback"} => arrivals[msg.arrival].what \in h.rule}

(* The handlers a HandleSystemEvent runs: every one with that id.          *)
MatchedEvents(p, msg) == {k \in DOMAIN plugins[p].events : plugins[p].events[k].id = msg.id}

Receive(p) ==
  /\ alive[p] /\ busy[p] = <<>> /\ mailbox[p] # <<>>
  /\ busy' = [busy EXCEPT ![p] = <<Head(mailbox[p])>>]
  /\ mailbox' = [mailbox EXCEPT ![p] = Tail(@)]
  /\ UNCHANGED <<plugins, arrivals, sending, alive, ran, tel>>

(* The n-th smallest of a set of numbers.                                  *)
Nth(S, n) == CHOOSE k \in S : Cardinality({j \in S : j < k}) = n - 1

(* What the message being handled is to run, in order.                     *)
Runnable(p) ==
  LET msg == busy[p][1]
      kind == arrivals[msg.arrival].kind
      ks == IF kind = "message" THEN Matched(p, msg) ELSE MatchedEvents(p, msg)
  IN  [i \in 1..Cardinality(ks) |-> [arrival |-> msg.arrival, handler |-> Nth(ks, i)]]

(* Dispatches the matched handlers, in order, to the scheduler.            *)
Handle(p) ==
  /\ busy[p] # <<>>
  /\ ran' = [ran EXCEPT ![p] = @ \o Runnable(p)]
  /\ busy' = [busy EXCEPT ![p] = <<>>]
  /\ UNCHANGED <<plugins, arrivals, sending, mailbox, alive, tel>>

(* A rule or a handler function panics before it returns a future: kameo   *)
(* stops the actor and drops its mailbox; what was dispatched before stays.*)
Panic(p) ==
  /\ busy[p] # <<>>
  /\ \E done \in {<<>>} \cup {SubSeq(Runnable(p), 1, n) : n \in 1..(Len(Runnable(p)) - 1)} :
       ran' = [ran EXCEPT ![p] = @ \o done]
  /\ alive' = [alive EXCEPT ![p] = FALSE]
  /\ busy' = [busy EXCEPT ![p] = <<>>]
  /\ mailbox' = [mailbox EXCEPT ![p] = <<>>]
  /\ UNCHANGED <<plugins, arrivals, sending, tel>>
------------------------------------------------------------------------------
Caller(c) == Tell(c) \/ TellStopped(c)

Actor(p) == Receive(p) \/ Handle(p) \/ Panic(p)

Next ==
  \/ \E c \in Callers :
       \/ \E text \in Texts : DispatchMessage(c, text)
       \/ \E type \in EventTypes : DispatchSystem(c, type)
       \/ Caller(c)
  \/ \E p \in Plugins : Actor(p)

Spec == Init /\ [][Next]_vars

(* tokio polls the callers and the actors; a mailbox is a fair channel.    *)
Fairness ==
  /\ \A c \in Callers : SF_vars(Caller(c))
  /\ \A p \in Plugins : WF_vars(Actor(p))

FairSpec == Spec /\ Fairness
------------------------------------------------------------------------------
TypeOK ==
  /\ plugins \in Configurations
  /\ Len(arrivals) <= MaxArrivals
  /\ \A c \in Callers : sending[c].arrival \in 0..Len(arrivals)
  /\ \A p \in Plugins :
       /\ Len(mailbox[p]) <= Capacity /\ Len(busy[p]) <= 1 /\ alive[p] \in BOOLEAN
       /\ \A i \in DOMAIN mailbox[p] : mailbox[p][i].arrival \in DOMAIN arrivals
  /\ tel \in [Counters -> Nat]

Underway(m) ==
  \/ \E c \in Callers : sending[c].arrival = m
  \/ \E p \in Plugins :
       \/ \E i \in DOMAIN mailbox[p] : mailbox[p][i].arrival = m
       \/ busy[p] # <<>> /\ busy[p][1].arrival = m

Runs(p, m, k) == Cardinality({i \in DOMAIN ran[p] : ran[p][i] = [arrival |-> m, handler |-> k]})

(* The handlers of p an arrival is meant for: by rule, or by event type.   *)
Addressed(p, m) ==
  LET a == arrivals[m]
  IN  IF a.kind = "message"
      THEN {k \in DOMAIN plugins[p].messages : a.what \in plugins[p].messages[k].rule}
      ELSE {k \in DOMAIN plugins[p].events : plugins[p].events[k].type = a.what}

(* A layout as the macros make it: of a plugin's handlers no two have one  *)
(* id, and one that is reached by its pattern has one pattern, its rule.   *)
Regular(config) ==
  \A p \in Plugins :
    LET messages == config[p].messages
        events == config[p].events
    IN  /\ \A j, k \in DOMAIN messages : messages[j].id = messages[k].id => j = k
        /\ \A j, k \in DOMAIN events : events[j].id = events[k].id => j = k
        /\ \A h \in Range(messages) :
             /\ StageOf(h.route) \in Range(Stages)
             /\ StageOf(h.route) # "fallback" => Len(h.pats) = 1
             /\ h.route = "exact" => h.rule = IsFullmatch(h.pats)
             /\ h.route = "prefix" => h.rule = IsStartswith(h.pats)
             /\ h.route = "keyword" => h.rule = IsKeywords(h.pats)

(* Every handler whose rule accepts a message is run for it exactly once,  *)
(* and no other handler is run, whatever route it was reached by and       *)
(* whatever happens to the other plugins; the same for system events.  It  *)
(* joins the route tables (host.rs 97-150), the lookups (173-208) and the  *)
(* actor's own check (actor.rs 140-155, 200-206).                          *)
EveryMatchOnce ==
  \A m \in DOMAIN arrivals, p \in Plugins :
    ~Underway(m) /\ alive[p] =>
      \A kind \in {"messages", "events"} :
        (kind = "messages") = (arrivals[m].kind = "message") =>
          \A k \in DOMAIN plugins[p][kind] :
            Runs(p, m, k) = IF k \in Addressed(p, m) THEN 1 ELSE 0

(* One caller's arrivals reach a plugin's handlers in the order they came, *)
(* however full the mailboxes get (host.rs 216-229, 243-254).              *)
InOrder ==
  \A p \in Plugins : \A i, j \in DOMAIN ran[p] :
    i < j /\ arrivals[ran[p][i].arrival].caller = arrivals[ran[p][j].arrival].caller
      => ran[p][i].arrival <= ran[p][j].arrival

(* The tells still to come for the messages being dispatched, the one that *)
(* waits for room not among them.                                          *)
TellsToCome(c) ==
  IF sending[c] # Nobody /\ arrivals[sending[c].arrival].kind = "message"
  THEN {c} \X (2..Len(sending[c].targets)) ELSE {}

ToCome == UNION {TellsToCome(c) : c \in Callers}

(* The hits of the four tables add up to the tells begun and the tells to  *)
(* come, in the middle of every dispatch (host.rs 173-219).                *)
RoutingBalance ==
  tel["exact_route_hits"] + tel["prefix_route_hits"]
  + tel["keyword_route_hits"] + tel["fallback_dispatches"]
    = tel["handler_dispatches"] + Cardinality(ToCome)

(* A dispatch always ends: neither a slow plugin nor a stopped one holds   *)
(* up the sink, and with it the adapter's receive loop, for ever.          *)
DispatchEnds == \A c \in Callers : sending[c] # Nobody ~> sending[c] = Nobody
==============================================================================
