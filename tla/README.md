# fish-bot in TLA+

A verification project for the Rust workspace `fish-bot`: a chat-bot framework
(`crates/fish-runtime`, `crates/fish-core`), an adapter that talks to the
Xianyu message service over HTTP and a WebSocket (`crates/fish-rt-adapter`),
and attribute macros. TLC checks the modules on small instances; TLAPS proves
theorems about them for every value of the constants. `PROJECT.json` lists
runs, mutants, the definition-to-source map, findings, hazards and theorems.

Contents: [the system](#the-system) - [what is hard](#what-is-hard) -
[modules](#modules) - [runs](#runs) - [fairness](#fairness) -
[proofs](#proofs) - [findings](#findings) -
[not modelled](#not-modelled) - [plan](#plan)

## The system

```
 service --ws--> FishConnection --frames--> receive_loop --MessageEvent--> RuntimeEventSink
    ^                 ^   writer                (adapter task)                  |
    |                 |                                                 RuntimeRouter (tables)
  HTTP            heartbeat tasks                                               | tell, bounded mailbox
    |                                                                     PluginActor (one per plugin)
 FishAPI + AuthManager + data/fish_auth.json                                    | dispatch
                                                                         TaskScheduler: semaphore,
                                                                         pending queue, processor task
                                                                                | spawn
                                                                         handler tasks --> reply / ActorBus
```

Handler tasks of one plugin share its state behind an `RwLock` that the
attribute macros generate; their replies go out through the adapter's writer,
behind a second one.

| component | state | operations | what makes it correct |
|---|---|---|---|
| `TaskScheduler` (`actor/task_runner.rs`) | semaphore, `pending_queue`, `queue_notify`, spawned tasks | dispatch or drop or enqueue, queue processor loop, handler task | never more than `concurrency` handlers, no permit lost, backlog bounded and FIFO, nothing run twice or both run and discarded, no lost wakeup, every queued future served |
| `Telemetry` (`fish-core/telemetry.rs`) | atomic counters | `fetch_add` at each step, snapshot | the counters add up to what is in flight |
| `RuntimeRouter` (`host.rs`) | route tables, immutable | `dispatch_message`, `dispatch_system` | each matching handler told exactly once, in order; a dispatch ends |
| `PluginActor` (`actor.rs`) | mailbox, handler index, liveness | handle one message at a time, panic | the told handler, and only it, is dispatched |
| handlers, rules (`handlers.rs`, `rule.rs`) | none | constructors, rules and their combinators | route and rule agree |
| handler contexts, plugin state (`context.rs`, `handlers.rs`, generated code) | the plugin's state and its lock, `reply_failures` | state guards, `reply` | a handler finds the state as it left it, every reply is accounted for |
| attribute macros (`fish-plugin-macros`) | none | `#[plugin]` on an impl block | each attributed method becomes one handler with its route, the others stay |
| `ActorPluginBuilder` (`builder.rs`), `ActorBus` (`bus.rs`) | topic subscribers, `OnceCell` actor and bridge | publish, subscribe, ask | Ok means handled, no message handled twice, a publication ends, bindings that share a topic refuse each other |
| `FishConnection` (`connection.rs`) | stored writer, `last_heartbeat_response`, heartbeat tasks | connect, handshake, send, heartbeat loop | heartbeats on time, silent server ends the loops, frames in order and none twice, the writer serves the adapter |
| `FishWebSocketAdapter` (`adapter.rs`) | the reconnect loop | run, connect_and_run, receive_loop, handle_raw_message, send | a lost connection is always retried; a reply goes to whom it answers |
| payload decoding (`sign.rs`) | none | base64 cleaning, `MessagePackDecoder` | what was encoded is decoded, a cut is rejected, noise and padding do not matter |
| `AuthManager` (`auth.rs`) | cookie map, `data/fish_auth.json` | load, merge, save, remove, import | what is known survives a restart |
| `FishAPI` (`api.rs`) | `AuthManager`, poll parameters | MTOP calls, `ensure_auth`, QR login | an invalid session never returns; no older login works beside a newer one on disk |
| request signing and ids (`sign.rs`), `client.rs`, `Ctx`, errors, examples | none or trivial | pure functions | outside this project (see below) |

Interaction: the adapter task awaits the sink, the sink awaits `tell` into each
plugin's bounded mailbox, the actor awaits only the scheduler's queue lock, and
handlers run in tasks of their own; so back-pressure reaches from a plugin's
mailbox to the WebSocket reader and stops there. Heartbeat tasks and replies
share the writer with the adapter task behind an `RwLock`. All counters are
relaxed atomics.

## What is hard

- **Scheduler**: the processor pops under a lock, waits for a `Notify` outside
  it, and competes for permits with every later dispatch; permits move through
  the semaphore's waiter list; a future may be popped, discarded or run.
- **Router**: several callers suspended in `tell` on full mailboxes, actors that
  stop on a panic meanwhile, one handler reachable through several tables.
- **Actor plugin**: the first publication installs the bridges while others
  arrive, a bridge needs sole ownership of the payload, a handler's timeout drops
  the question but not the message, a stopped actor is never spawned again.
- **Connection**: heartbeat tasks are never cancelled and outlive their
  connection; `last_heartbeat_response` is shared by all connections; elapsed real
  time is compared at one-second ticks, and a send may take any time.
- **Replies**: one writer for replies, acknowledgements, heartbeats and the
  handshake; its lock is held across the write, the write may stall, and a
  handler's timeout may drop it half way, with its frame left in the buffer.
- **Plugin state**: a guard is held across every await of a method, an update
  may be cut off between its halves, and readers and writers queue up fairly.
- **Decoding**: a payload is accepted in any width of any format, cut anywhere,
  with noise and missing padding; positions are advanced by computed lengths.
- **Auth**: a save is truncate-then-write, its errors are only logged, and the
  process may die at any step of login, save or removal; the code takes a QR code's
  confirmation or any `accessToken` for a login, whatever cookies came with it.

`PROJECT.json` "hazards" has the full list, each at its line, with the property
that covers it or the reason why none does.

## Modules

| module | models | how state and actions correspond |
|---|---|---|
| `TaskScheduler` | `task_runner.rs` | `permits` is the free part of the semaphore, `queue` the `VecDeque`, `notify` the stored permit of the `Notify`, `proc` the point the processor loop has reached, `status[t]` where a future is. `Start`, `Drop`, `DecideEnqueue` and `Enqueue` are `dispatch_task_or_enqueue`, cut at its only await; `Pop` ... `TakeGranted` are `spawn_queue_processor`, cut at its awaits; `Settle` and `Release` are `spawn_handler_task`. The behaviour of tokio's fair semaphore and `Notify` is in `ReturnPermit` and `NotifyOne`. |
| `SchedulerTelemetry` | the counters of `telemetry.rs` bumped by it | each action is the scheduler's action and the counters the same code bumps |
| `AbstractScheduler` | the promise | `running` set and `waiting` sequence only |
| `TaskSchedulerRefinement` | - | `TaskScheduler` implements `AbstractScheduler`: running = permit owners, waiting = the popped future followed by the queue |
| `SchedulerProofs` | - | TLAPS proofs about the scheduler, its refinement and its counters |
| `RuntimeRouter` | `host.rs`, `actor.rs`, constructors in `handlers.rs` | `sending[c]` is one call of `dispatch_message` or `dispatch_system`; `DispatchMessage` runs to its first await, `Tell`/`TellStopped` is one iteration of the loop, `Receive`/`Handle`/`Panic` one message of an actor. A text is a record of the facts the routes test; a built handler's id is what `ToSnakeCase`, a parameter, makes of its type's last segment |
| `RuntimeRouterProofs` | - | TLAPS proofs about `RuntimeRouter` |
| `SequenceOps`, `SequenceLemmas` | the filters and skipping loops of `host.rs`, `sign.rs` and the macro | `Kept`, the elements of a sequence that are in a set; TLAPS proofs of what it and `FlattenSeq` compute |
| `PluginHandlers` | code generated by `gen_message_handler`, `handlers.rs`, `context.rs` | `asked` is the whole of tokio's fair lock: who waits and who holds a guard follow from the order (`Guards`). A method touches the state in two halves with an await between; `Enter` runs it there, `Replied`, `Finish`, `Timeout` and `ReturnError` are how it goes on |
| `Payload` | `handle_raw_message`, `parse_message`, `send` of `adapter.rs`, `message.rs` | operators without state: what a frame decodes to and what a reply looks like. A frame is the record of the facts the code tests |
| `SharedWriter` | `connect` and `send` of `connection.rs` | `line` is the writer's lock in order; a frame moves from the line to `wire`, or, when its future is dropped in the write, to the `buffer`, from where the next write flushes it; `stalled` is a peer that does not read |
| `Exchange` | `connect_and_run`, `handshake`, `receive_loop`, `handle_raw_message` | composes `Payload`, `PluginHandlers` and `SharedWriter` with the adapter task: `pc` is its await point. The runtime between sink and handlers is a bounded queue that may discard |
| `ExchangeProofs` | - | TLAPS proofs about `PluginHandlers` and `Exchange` |
| `Base64` | `clean_base64_input` of `sign.rs`, and base64 itself (external) | `Clean` and `DecodePayload`; a text is the sequence of its characters' codes |
| `MsgPack` | the decoder of `sign.rs` | the decoder as operators; its position is the rest of its data, an error the empty set of results. A format byte announces a value or how many make it up (`Announce`); the recursive function `Items` decodes so many in a row, each with those that make it up, as the calls of `decode_value` do |
| `PluginMacro` | `fish-plugin-macros/lib.rs` | the attribute parsers and the expansion as operators; a compile error is the empty set |
| `PureFunctions` | - | a state is one base64 text, which steps spoil, one packed message, which is cut short byte by byte or followed by another byte, or one impl block, which steps extend. `Messages` are values with all the bytes they may be packed as |
| `MsgPackFormat` | - | the format's description (external): all encodings of a value, and what the decoder should make of them |
| `PureFunctionsProofs` | - | TLAPS proofs about `PureFunctions` |
| `ActorPlugin` | `builder.rs`, `bus.rs` | `ready` and `actor` are the two `OnceCell`s, `subscribers` the bus's map, `task[p]` where a handler task is in `publish_actor_message`: in `ensure_registered`, in `publish_raw`'s loop with the subscribers that are `left`, or in `ask`. `Take`, `Reply` and `ActorStops` are the actor as kameo runs it. A type is its path and its name, an id its name alone |
| `ActorPluginProofs` | - | TLAPS proofs about `ActorPlugin` |
| `Connection` | `connection.rs`, `run`/`connect_and_run`/`receive_loop`/`handle_raw_message` of `adapter.rs` | `pc` is the await point of the adapter task; `beat[l]` the heartbeat task spawned on connection `l`; `sending` the heartbeat tasks inside their send; `sock` the stored writer's connection; time is counted in ticks of `interval(1s)`, an event may come anywhere within its second, and so a comparison with a duration of n seconds may go either way n ticks later |
| `ConnectionProofs` | - | TLAPS proofs about `Connection` |
| `Auth` | `auth.rs`, `ensure_auth`, `qrcode_login_flow` and the MTOP calls of `api.rs` | `mem` is `AuthManager.cookies`, `file` the JSON file, `saving` how far `std::fs::write` is, `pc` the await point of the login. A cookie's value is the number of the session that set it. Which of its cookies a login sets and which sessions the service accepts is open |
| `AuthProofs` | - | TLAPS proofs about `Auth` |
| `MC...` | - | constants for TLC |

Some operators are marked `Mutant:` in a comment. They are wrong variants of the
definition that follows them, kept so that each property can be seen to fail
when the code is broken in that way; nothing else uses them.

## Runs

| run | module, cfg | question |
|---|---|---|
| scheduler | `MCSchedulerTelemetry` | permits, queue, notification, both strategies, and do the counters balance |
| scheduler_refinement | `TaskSchedulerRefinement` | refinement and starvation freedom |
| router | `MCRuntimeRouter` | exactly once, in order, balance, termination |
| actor_plugin | `MCActorPlugin` | publication, registration, time-outs, shared topics |
| connection | `Connection` | heartbeats and reconnecting |
| auth | `MCAuth` | restart, dropped sessions, older logins |
| exchange | `MCExchange` | a conversation: plugin state, replies, order on the wire, turns at the writer |
| pure | `MCPureFunctions` | the decoder against the format, spoilt base64, the macro's handlers |
| fresh_heartbeat, heartbeats_spaced, keyword_handler, import_persisted | see [findings](#findings) | what the documents say and the code does not do |

Bounds, and why they are enough:

- *scheduler*: 6 futures, 2 permits, queue of 2. At most 2 run, 2 are queued, 1
  is in the processor's hand and 1 is being enqueued, so every resource can be
  full while one more future arrives. At most 6 dispatches (`MaxStarted`) keep the
  counters finite, so it may stop: deadlock is not checked. Symmetric under
  permutation (safety only). Behaviours without that bound are in the next run.
- *scheduler_refinement*: 5 futures, 1 permit, queue of 2, no symmetry because of liveness.
- *router*: 2 callers, 2 arrivals (`MaxArrivals`), 2 plugins with mailboxes of 2,
  texts that tell trimmed, prefix and substring matches apart, three layouts of
  handlers: two of constructors, one of what a builder compiles beside a rule
  combined by hand with `and` and `or`; a message has up to five targets, so mailboxes fill. It stops when the
  arrivals are used up: deadlock is not checked.
- *actor_plugin*: 3 handler tasks, a mailbox of 1: one message handled, one in
  the mailbox, one waiting for room. Each task publishes once. Plugin code
  subscribes once (`MaxWatchers`), to any topic with any type. Three builders: two
  different bindings, one type on two routes, two types of one name. It stops
  when the tasks have ended: deadlock is not checked.
- *connection*: 3 connections (`MaxConns`), durations 3/1/1/1 ticks for 15/5/1/5
  seconds. What matters is which is longer: the reconnect pause is shorter than the
  heartbeat interval, and login or token requests may last past the limit. The
  ratio of the pause to the timeout is the same, so an old task survives a quick
  reconnect and not a long silence. A send may last from no tick to past the limit.
- *auth*: 3 sessions (`MaxLogins`): one stored before the start, two more.
- *exchange*: 2 handler tasks, 2 handlers started (`MaxStarts`), 2 connections
  (`MaxConns`), 2 frames read (`MaxFrames`) of five kinds, 2 reply chains, one
  event in the runtime (`Capacity`). Two of each is what it takes for a handler
  to reply on the second connection to a message of the first, for two handlers
  to want the state and for a buffered frame to be flushed by another sender.
  It stops when the bounds are used up: deadlock is not checked.
- *pure*: values on both sides of every boundary between two formats, in every
  encoding, cut at every place or followed by one of two bytes; payloads of every
  length of a last group of three, up to 2 characters of noise (`MaxNoise`) at any
  places; impl blocks of up to 3 methods (`MaxMethods`). Every probe ends or stops
  at a bound: deadlock is not checked.

## Fairness

- *scheduler*: tokio polls woken tasks, the queue's lock is fair and held
  briefly, and every handler that yields ends by `tokio::time::timeout`, so
  processor, pending enqueue and running handlers are weakly fair. Nobody is
  obliged to dispatch.
- *router*: actors are polled (weak); a `tell` that waits for room is in a fair
  queue, and gets in if the mailbox has room again and again (strong).
- *actor_plugin*: handler tasks are polled and their timeouts fire (weak). An
  actor or a subscriber of plugin code may take for ever, so neither has fairness.
- *connection*: time passes, heartbeat tasks are polled at each tick, the sink's
  dispatch (which ends by the router's `DispatchEnds`), the end of the stream and a
  sleep are each completed (weak). Login, connect, token requests and sends have no
  timeout in the code and no fairness in the model: a peer may stop reading for ever.
  So `AlwaysRetries` ends where an attempt begins.
- *exchange*: a write that can end does, the swap of the writer is polled and a
  handler's timeout fires (weak). Nothing makes the peer read on, so
  `WriterServes` is claimed only of behaviours in which it does, from some time
  on; nobody is obliged to send, to read or to connect.
- *auth*: no liveness is claimed: whether a person scans the code is open.

## Proofs

`tlapm` checks eight modules. Most have the same layout: a strengthening `IInv`
of the run's invariants, `Init => IInv`, one lemma per action or group of
actions, `IInv /\ [Next]_vars => IInv'`, and one theorem per property.

**`SchedulerProofs`** (assuming `SchedulerAssumption`: `Concurrency` and
`MaxQueue` are naturals, each strategy is one of the two). `IInv` is the
conjunction of what the `scheduler` run checks and of `NoQueueNoEnqueuer`:
under `DropNewest` no task is about to enqueue, without which `QueueBound` is
not inductive, since an enqueuer that has decided could push at any time. The
conjuncts lean on `TypeOK` and, apart from that, are each inductive alone;
`QueueAgrees` is the long one, as it relates every position of a sequence to
the fate of a future through a pop, a discard and an append. `Tasks` needs no
finiteness: the set of permit owners is shown finite as it grows. Proved for
any number of futures: no permit is lost or made up, at most `Concurrency`
handlers run (`ConcurrencyBound`), no wakeup is lost, no permit idles while the
processor waits, a future is never queued twice or both run and discarded, and
the backlog is bounded. From `IInv` follows that each step is a step of
`AbstractScheduler` or a stutter (`ImplementsAbstractSafety`): `HandCases` says
what the processor holds, `AbsentNow` that a dispatched future is not in the
abstract backlog yet, `EnqueueJoins` that a push joins it or displaces the
oldest or the one after it, `SpawnStartsOldest` that the processor takes its head.

**Its counters**, in the same module with the same assumption. `CountersOnlyCount`: each
behaviour with counters is one of `TaskScheduler`, so that `QueueAgrees` holds of
it, without which a discard could be of a future that is not in flight. Both
balances are inductive over the finite sets of futures in flight (`Those`):
`Moved` and `MovedByEnqueue` say how a step changes their cardinality, `Counting`
that what the code counts makes up for it. `MaxQueue > 0` is a hypothesis of both.

**`RuntimeRouterProofs`** (assuming `RouterAssumption`: mailboxes have room for
one, the plugins are numbered and finitely many, handlers and patterns are
sequences of what the code gives them). Three inductive invariants:

- `IInv` for `InOrder`, which speaks of what has run: it is inductive only with
  everything a message passes before. What is handled, what is in the mailbox
  and what is being sent follow one another (`QueuesUp`, `SentLast`), and an
  arrival keeps its caller (`Known`).
- `BInv` for the types and for `RoutingBalance`: the tells that the callers still
  have to make are a finite set (`ToCome`), each of a hit that was counted; a
  step takes one from it and counts an outcome, or counts the hits it adds.
- `OInv` for `EveryMatchOnce`: each handler that an arrival addresses is in
  exactly one place, still to be told (`ToBeTold`), in a mailbox (`Waiting`), in its
  actor's hand (`InHand`) or run (`HasRun`), unless its actor has stopped. The
  theorem `EveryMatchRunsOnce` has the hypothesis that each layout is `Regular`:
  no handler is in the routing tables twice under what one message matches. Without it the
  property is false: a handler with two keywords is the finding `keyword_handler`.
  `BuiltLayoutsAreRegular` says which layouts of `ActorPluginBuilder` meet the
  hypothesis, whatever `ToSnakeCase` is: exactly those in which no two message
  bindings and no two event bindings of a plugin have types of one derived id. The
  id keeps neither path nor capitals, so distinct types (`chat::Ping`, `admin::Ping`,
  `PING`) may collide and leave it. The `router` run has distinct ids (an `ASSUME`
  that TLC evaluates), and another `ASSUME` that the colliding layouts are irregular.

**`SequenceLemmas`**. The routing tables, the cleaned text and the macro's output
are built by a recursive function (`FlattenSeq` of the community modules).
`FlatteningExists`, `FlattenIs`, `FlattenFacts` and `KeptFacts` describe what it
computes for every sequence. The induction is one on sets: `LeastNumber` gives
the least counterexample, `NumberInduction` and `SequenceInduction` follow, and
by them `Kept` of a concatenation is the concatenation (`KeptConcat`), keeping
twice is keeping once (`KeptTwice`), and what is inserted from outside the set is
lost (`KeptInserted`).

**`ExchangeProofs`**, first part: the handlers (assuming `HandlersAssumption`). Isolation is a fact
about the lock's line: each task is in it once (`Once`), exactly those that are
not idle are in it (`Turns`), and those inside their method hold a guard
(`GuardsHeld`), also when someone before or after them leaves; `WriterAlone` then
excludes any other. `Halves` counts half-made updates for `ReadersSeeWhole`, and
`RepliesBalance` is inductive over the finite set of tasks that are replying.

**`ExchangeProofs`**, second part: the conversation (assuming those of its parts, that adapter and heartbeat are
two tasks and not handler tasks). `ImplementsHandlers` shows that a conversation is a
behaviour of `PluginHandlers`, so its theorems hold of it. `RepliesToSender`
needs that every event in the runtime, every job and every frame in the line,
the buffer and on the wire is `Good`: made by `EventsOf` of some frame, and, if
a reply, by `Reply` of its own event. `WireInOrder` and the types follow from
`WInv`: whoever is in the line for the writer is in it once and with the frame of
its step (`Asking`), the wire has what the adapter's step in the handshake allows
(`Handshake`), an event is in the runtime, with one task or answered (`OnePlace`),
and the buffer holds replies that did not go out (`Buffered`).

**`ConnectionProofs`** (assuming `ConnectionAssumption`: durations are positive,
the timeout and the bound on connections natural). `BeatsOnTime` is not
inductive: it speaks of what the peer sees (`gap`), the code of what each task
remembers of its own last send (`beat[l]`). `BeatBounds` connects the two for the
current connection's task, `HandledInTime` says that a task that has handled its
tick is inside a send or within the interval of its last one, `OwnConnection` keeps
a new connection's slot free of old tasks, and `NoneOutlives` says that past the limit
every living task still has a tick to handle, and will then end. What is claimed is
what the code gives: `last_heartbeat_sent` is set after the send, so the 15th tick
may find less than 15 seconds and the beat comes at the 16th, and no later, unless a
send takes that long (`HeartbeatsOnTime`). The theorems hold for every choice of
the durations, so not only for 15/5/1/5 seconds.

**`AuthProofs`** (assuming `AuthAssumption`: there is a session, the environment
names no session still to come). `DroppedStaysDropped` needs two facts that are
not visible in it: a file is removed before the cookies are cleared and no save
is under way in between (`FileGoneBeforeClear`), and no cookie or dropped
session has a number still to come (`KnownSessions`, `DroppedSessions`), so that
a login cannot bring an old one back. `NoOlderLogin` needs `KnownSessions` for the
same reason, and that a file that cannot be read holds no cookies
(`UnreadableIsEmpty`): it is then that the environment, which may hold an older
login, is loaded. Nothing is assumed of which sessions the service accepts.

**`ActorPluginProofs`** (assuming `ActorPluginAssumption`: a builder is a sequence
of bindings, the mailbox has room for one). What must be shown of a task, `Own(p)`,
is mostly about where its message is: nowhere before `Send` (`Unsent`), then in the
mailbox, then with the actor, and in one place at a time (`MailboxOnce`). A
publication under way has been handled or still has a bridge to reach; where two
bindings share its topic it has two to reach, so the first it meets is not the
last and refuses. Both come from `BridgesThere`: once `ready` is "yes" every
bridge is among its topic's subscribers. The sequence lemmas (`AppendKeeps`,
`TailKeeps`) say that a further subscriber, or one that is done, takes no bridge
away.

**`PureFunctionsProofs`** (assuming `PureAssumption`: payloads are bytes, no noise
is a base64 character; and, for packed messages, `MessageAssumption`: a message is
bytes that the decoder reads to their end, or refuses, which TLC evaluates for all
encodings of the run's values). `TextInv` says what is left of a text without its noise:
the payload's digits and some of their padding (`Padded`). Noise does not
change that (`KeptInserted`), a lost '=' takes one of the padding
(`PaddingIsLost`), and `Pad` restores the encoding from any of them (`PadPads`).
That decoding undoes encoding (`DecodesEncoded`) is arithmetic on groups of three
bytes and four digits (`SextetIs`, `OctetIs`, `OctetsOfSextets`, `OctetCount`). So
any bytes come back, with any amount of noise. For the macro, the methods that
become handlers are among those that stay, in the same order (`KeptTwice`), so the
handlers of any impl block call methods that are there (`ExpansionFits`).

For the decoder the argument is that it is local: what it makes of some bytes
depends on those it reads alone, and the rest is left over. This is `AnnounceSettles`
for a format byte with its length or number, case by case of the match, and
`ItemsSettle` for so many values in a row, by induction on the number of bytes left:
every format byte takes one. That the recursive function `Items` has the value its
definition gives it (`ItemsIs`) is not for free; it is proved by the same induction,
from solutions for data shorter than n that agree with each other (`SolutionsExist`,
`SolutionsAgree`). If a part of a message that was cut short were decoded, the whole
would be decoded to the same and leave the cut bytes over, which a message does not
(`NoPrefixPasses`); `PackInv` keeps that the bytes of a cut message are the beginning
of one. So, as far as the decoder's logic goes, `PrefixRejected` holds for messages of any
size and nesting, and what follows a value is ignored (`FollowersAreIgnored`).

| theorem | property of a run |
|---|---|
| `SchedulerProofs`: `PermitsConserved`, `WakeupNotLost`, `WaiterFirst`, `QueueAgreement`, `BacklogBound` | the scheduler's five of `scheduler` |
| `SchedulerProofs`: `TelTypeCorrect`, `TelemetryBalances`, `QueueBalances` | the counters' three of `scheduler` |
| `SchedulerProofs`: `ImplementsAbstractSafety` | the safety half of `ImplementsAbstract` of `scheduler_refinement` |
| `SchedulerProofs`: `TypeCorrect`, `ConcurrencyBound` | - (a type invariant, a consequence of permit conservation) |
| `RuntimeRouterProofs`: `ArrivalsInOrder`, `HitsAreTold`, `RouterTypes`, `EveryMatchRunsOnce` | all of `router` but `DispatchEnds` |
| `ExchangeProofs`: `HandlersInExchange`, `RepliesGoToSender`, `WireIsInOrder`, `ExchangeTypes` | all of `exchange` but `WriterServes` |
| `ExchangeProofs`: `TypeCorrect`, `Isolation`, `WholeReads`, `RepliesAccounted` | the same of the handlers alone |
| `ActorPluginProofs`: `TypeCorrect`, `NothingLost`, `AtMostOnce`, `SharedNeverServed` | all of `actor_plugin` but `PublicationEnds` |
| `ConnectionProofs`: `TypeCorrect`, `SilentServerIsLeftAlone`, `HeartbeatsOnTime` | all of `connection` but `AlwaysRetries` |
| `AuthProofs`: `TypeCorrect`, `NothingForgotten`, `DroppedForGood`, `OldLoginNeverUsed` | all four of `auth` |
| `PureFunctionsProofs`: `PayloadsAreRecovered`, `HandlersAreThere`, `CutMessagesAreRejected` | all of `pure` but `DecodesEncodings` |
| `PureFunctionsProofs`: `NoPrefixIsDecoded`, `FollowersAreIgnored` | - (the decoder alone, on any bytes) |

Only model-checked: that the decoder gives back what was encoded (`DecodesEncodings`
of `pure`), since the format's description is by recursion on values and written with
`RECURSIVE`, which no theorem may reach; and all liveness (`QueuedIsServed`,
`DispatchEnds`, `PublicationEnds`, `AlwaysRetries`, `WriterServes`, the fair half of
`ImplementsAbstract`). Liveness under fairness and `ENABLED` are beyond the prover;
so are the induction theorems of the library, whence the induction on sets
(`NumberInduction`). Leaves with `SMTT(60)` or `ZenonT(60)` take a few seconds; the
longer limit is for slow machines.

## Findings

Four runs end in a violation. Each checks one sentence of the repository
against the code; none of them is about the properties above.

- **fresh_heartbeat**: `connection.rs:89` says "Spawn a background task that
  sends heartbeat frames every 15 seconds." But `last_heartbeat_response` is set
  when the `FishConnection` is made, before the login, and afterwards only by a
  frame with code 200. When login, token requests or an outage took longer than
  interval plus timeout, the task of a connection that has just been registered
  ends at its first tick, and that connection never gets a heartbeat.
- **heartbeats_spaced**: the same sentence. A heartbeat task is never cancelled
  and sends to whatever writer is stored, so after a quick reconnect two tasks
  send to one peer, more often than every 15 seconds.
- **keyword_handler**: `rule.rs:90`, "Match messages that contain any of the
  given keywords.", and `handlers.rs:17`, which calls routes a pre-filter. The
  router keeps one entry per keyword (and per prefix), so a text with two of a
  handler's keywords runs it twice. The `router` run checks the same property
  with one keyword per handler, and it holds.
- **import_persisted**: `README.md:149` of the repository says that after the
  import the credentials are persisted to `data/fish_auth.json`. The save logs
  its errors and returns nothing, so the importer reports success also when
  nothing was written.

## Not modelled

- *request signing and identifiers (`sign.rs`)*: MD5, random device and message
  ids; nothing depends on their values but the service's acceptance, which is a
  choice in `Auth` and `Connection`.
- *`client.rs`, `Ctx`, errors, examples*: a newtype, a map behind one lock,
  constructors, wiring. The response types that `api.rs` returns to callers are
  data that nothing here reads.
- *numbers in `MsgPack`* beyond TLC's 32 bits and the JSON text of containers used
  as keys; floats are known by their bytes and by being finite. *Token syntax* in
  `PluginMacro`: an attribute is what `syn` makes of it.
- *contexts*: getters, `bus()` and the plugin trait's defaults; the identity of the
  bot (`MyId`) is a constant, though a new login could change it.
- *the telemetry snapshot* reads the counters one by one, so that its numbers
  need not balance; the code claims nothing of them.
- *other uses of the bus*: plugin code's own publications, on a builder's topic
  or another, an actor that asks itself through the bus, and a plugin used with a
  second bus. `Capacity` is finite: `MailboxConfig::Unbounded` is not modelled.
  A missing bus (`actor bus is unavailable`) cannot occur, as the host installs one.
- *memory in `MsgPack`*: `decode_array` reserves room for the announced number of
  values before it reads them (`sign.rs:159`), and `decode_value` recurses without a
  limit. The model has neither memory nor stack; its results are those of runs that
  do not exhaust them.
- *losses that are what the code does*: cookies in a save that a crash or an error cut
  off, messages acknowledged before a crash, messages for a plugin whose handler
  function has panicked outside its future. The models have these steps; no property
  says that nothing is lost by them, and the hazards' notes say so.
- *inbound frames*: `Payload` has one field per lookup of the code, not JSON.
- *one heartbeat task in `Exchange`*: the older ones, which only add turns at the
  writer, are in `Connection`,
  where in turn the writer's lock has no line: a send takes as long as it takes.
- *kameo and tokio*: external. `Notify`, the fair semaphore, a bounded mailbox
  and an actor that stops on a panic are modelled from how this code relies on
  them and marked external in the map.
- *wall clocks*: `tokio::time::timeout` around a handler is its nondeterministic
  end; only `Connection` counts time, since its properties are about durations.

## Plan

Done: the scheduler with its abstract specification and counters, the router,
the actor plugin, the plugin's handlers, the connection, the conversation that
composes them with the adapter, the login, decoding and macros. Next, in this order:

1. A composition of router and scheduler in place of the bounded queue of
   `Exchange`: back-pressure from a full mailbox to the reader.
2. A second `AuthManager` beside the running one (an import while the bot runs),
   which overwrites the file with what it knows.
3. The builder's colliding ids against the router's route hits.
4. Proofs: the format's description as a recursive function on the depth of a value,
   so that `DecodesEncodings` can be proved for every value.
