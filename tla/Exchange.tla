------------------------------- MODULE Exchange -------------------------------
(***************************************************************************)
(* A conversation: the adapter reads a frame, acknowledges it, hands its   *)
(* event to the runtime, a handler of a plugin replies, and the reply goes *)
(* out through the writer that the acknowledgements use as well.           *)
(*                                                                         *)
(* Composes Payload (what a frame means), PluginHandlers (the handlers and *)
(* their state's lock) and SharedWriter (the connection's writer) with the *)
(* adapter task (adapter.rs).  The runtime between them is abstracted to a *)
(* bounded queue of events: RuntimeRouter and TaskScheduler have the rest. *)
(* Durations, several heartbeat tasks and retries are in Connection.       *)
(***************************************************************************)
EXTENDS Payload, PluginHandlers, SharedWriter

CONSTANTS
  Adapter, Beat,  \* the adapter task and the heartbeat task
  Frames,         \* the frames the service may send
  Chains,         \* the message chains that handlers reply with
  Capacity,       \* events the runtime takes before the sink waits
  MaxFrames       \* bound on the frames read

ASSUME ExchangeAssumption ==
  /\ Senders = Tasks \cup {Adapter, Beat}
  /\ {Adapter, Beat} \cap Tasks = {} /\ Adapter # Beat
  /\ Capacity \in Nat \ {0} /\ MaxFrames \in Nat

VARIABLES
  pc,       \* where the adapter task is
  current,  \* the frame it handles
  read,     \* how many frames it has read
  events,   \* the events the runtime holds
  job,      \* per handler: its event and the chain it replies with
  beating   \* whether a heartbeat task lives

aVars == <<pc, current, read, beating>>
vars == <<aVars, events, job, hVars, wVars>>

(* "swap": in connect().  "pause": the second between /reg and ackDiff.    *)
PC == {"down", "swap", "token", "reg", "pause", "ackDiff", "recv", "ack", "sink"}

Nothing == [kind |-> "nothing"]

Init ==
  /\ HInit /\ WInit
  /\ pc = "down" /\ current = Nothing /\ read = 0 /\ beating = FALSE
  /\ events = <<>>
  /\ job = [t \in Tasks |-> Nothing]

(* What a step that only asks for the writer leaves alone of it.           *)
wRest == <<conn, broken, stalled, buffer, wire>>
------------------------------------------------------------------------------
(* The adapter: connect_and_run up to the receive loop.                    *)

Control(kind) == [kind |-> kind]

(* connect_async has returned; the writer's lock comes next.               *)
Opened ==
  /\ pc = "down" /\ conn < MaxConns
  /\ pc' = "swap"
  /\ Ask(Adapter, Swap)
  /\ UNCHANGED <<current, read, beating, events, job, hVars, wRest>>

Connected ==
  /\ pc = "swap"
  /\ Swapped(Adapter)
  /\ pc' = "token"
  /\ UNCHANGED <<current, read, beating, events, job, hVars>>

(* get_access_token, then /reg; on an error the reader is dropped and the  *)
(* writer stays.                                                           *)
GetToken(ok) ==
  /\ pc = "token"
  /\ IF ok THEN pc' = "reg" /\ Ask(Adapter, Control("reg"))
           ELSE pc' = "down" /\ UNCHANGED line
  /\ UNCHANGED <<current, read, beating, events, job, hVars, wRest>>

(* Mutant: the receive loop begins while the handshake is in its pause.    *)
RegisteredReads(ok) ==
  /\ pc = "reg"
  /\ SendEnds(Adapter, ok)
  /\ pc' = IF ok THEN "recv" ELSE "down"
  /\ UNCHANGED <<current, read, beating, events, job, hVars>>

Registered(ok) ==
  /\ pc = "reg"
  /\ SendEnds(Adapter, ok)
  /\ pc' = IF ok THEN "pause" ELSE "down"
  /\ UNCHANGED <<current, read, beating, events, job, hVars>>

PauseEnds ==
  /\ pc = "pause"
  /\ pc' = "ackDiff"
  /\ Ask(Adapter, Control("ackDiff"))
  /\ UNCHANGED <<current, read, beating, events, job, hVars, wRest>>

(* The end of handshake(), then spawn_heartbeat.                           *)
Synced(ok) ==
  /\ pc = "ackDiff"
  /\ SendEnds(Adapter, ok)
  /\ IF ok THEN pc' = "recv" /\ beating' = TRUE ELSE pc' = "down" /\ UNCHANGED beating
  /\ UNCHANGED <<current, read, events, job, hVars>>
------------------------------------------------------------------------------
(* The adapter: receive_loop and handle_raw_message.                       *)

(* An event for which the router finds a handler takes it to the sink.     *)
Process(frame) ==
  \/ pc' = "recv"
  \/ EventsOf(frame) # {} /\ pc' = "sink"

(* A text frame, or a binary one that is UTF-8: first the ACK, if there    *)
(* are headers.  The end of the stream may come after further frames.      *)
ReadFrame(frame) ==
  /\ pc = "recv" /\ read < MaxFrames
  /\ read' = read + 1
  /\ IF frame.json /\ frame.headers
     THEN /\ pc' = "ack"
          /\ Ask(Adapter, [kind |-> "ack", conn |-> conn, frame |-> read'])
     ELSE /\ IF frame.json THEN Process(frame) ELSE UNCHANGED pc
          /\ UNCHANGED line
  /\ current' = frame
  /\ UNCHANGED <<beating, events, job, hVars, wRest>>

(* The ACK's result is ignored.                                            *)
Acknowledged(ok) ==
  /\ pc = "ack"
  /\ SendEnds(Adapter, ok)
  /\ Process(current)
  /\ UNCHANGED <<current, read, beating, events, job, hVars>>

(* sink.handle_message returns when the mailbox had room for the event.    *)
SinkReturns ==
  /\ pc = "sink" /\ Len(events) < Capacity
  /\ pc' = "recv"
  /\ \E event \in EventsOf(current) :
       events' = Append(events, [event |-> event, conn |-> conn, frame |-> read])
  /\ UNCHANGED <<current, read, beating, job, hVars, wVars>>

(* A close frame, an error or the end of the stream; the writer stays.     *)
ReadEnd ==
  /\ pc = "recv"
  /\ pc' = "down"
  /\ UNCHANGED <<current, read, beating, events, job, hVars, wVars>>
------------------------------------------------------------------------------
(* The heartbeat task, as far as the writer sees it.                       *)

BeatAsks ==
  /\ beating /\ ~InLine(Beat)
  /\ Ask(Beat, Control("beat"))
  /\ UNCHANGED <<aVars, events, job, hVars, wRest>>

(* An error ends the task.                                                 *)
BeatEnds(ok) ==
  /\ SendEnds(Beat, ok)
  /\ beating' = ok
  /\ UNCHANGED <<pc, current, read, events, job, hVars>>

BeatTimesOut ==
  /\ beating /\ ~InLine(Beat)
  /\ beating' = FALSE
  /\ UNCHANGED <<pc, current, read, events, job, hVars, wVars>>
------------------------------------------------------------------------------
(* The runtime and the handlers.                                           *)

(* The scheduler discards an event's handler.                              *)
Discard ==
  /\ events # <<>>
  /\ events' = Tail(events)
  /\ UNCHANGED <<aVars, job, hVars, wVars>>

Start(t, kind, chain) ==
  /\ events # <<>>
  /\ Begin(t, kind)
  /\ job' = [job EXCEPT ![t] = [kind |-> "reply", of |-> Head(events), chain |-> chain]]
  /\ events' = Tail(events)
  /\ UNCHANGED <<aVars, wVars>>

(* The method runs to its reply: adapter.send builds the message and asks  *)
(* for the writer.                                                         *)
RunToReply(t) ==
  LET chain == job[t].chain
      event == job[t].of.event
  IN  /\ Enter(t, IF Sendable(chain) THEN "reply" ELSE "failed")
      /\ IF Sendable(chain)
         THEN Ask(t, [kind |-> "reply", of |-> job[t].of, message |-> Reply(event, chain)])
         ELSE UNCHANGED line
      /\ UNCHANGED <<aVars, events, job, wRest>>

(* The method does not reply, as an event handler's cannot.                *)
RunWithoutReply(t) ==
  /\ Enter(t, "rest")
  /\ UNCHANGED <<aVars, events, job, wVars>>

ReplySent(t, ok) ==
  /\ Replied(t, ok)
  /\ SendEnds(t, ok)
  /\ UNCHANGED <<aVars, events, job>>

Return(t) ==
  /\ Finish(t) \/ ReturnError(t)
  /\ job' = [job EXCEPT ![t] = Nothing]
  /\ UNCHANGED <<aVars, events, wVars>>

(* tokio::time::timeout drops the handler's future, and with it its turn.  *)
Expire(t) ==
  /\ Timeout(t)
  /\ IF stage[t] = "reply" THEN DropSend(t) ELSE UNCHANGED wVars
  /\ job' = [job EXCEPT ![t] = Nothing]
  /\ UNCHANGED <<aVars, events>>
------------------------------------------------------------------------------
Handlers ==
  \/ Discard
  \/ \E t \in Tasks :
       \/ \E kind \in Kind, chain \in Chains : Start(t, kind, chain)
       \/ RunToReply(t) \/ RunWithoutReply(t) \/ Return(t) \/ Expire(t)
       \/ \E ok \in BOOLEAN : ReplySent(t, ok)

Next ==
  \/ Opened \/ Connected \/ PauseEnds \/ SinkReturns \/ ReadEnd \/ BeatAsks \/ BeatTimesOut
  \/ \E ok \in BOOLEAN :
       GetToken(ok) \/ Registered(ok) \/ Synced(ok) \/ Acknowledged(ok) \/ BeatEnds(ok)
  \/ \E frame \in Frames : ReadFrame(frame)
  \/ Handlers
  \/ (Break \/ Stall \/ Resume) /\ UNCHANGED <<aVars, events, job, hVars>>

Spec == Init /\ [][Next]_vars

(* tokio polls every task, so a write that can end does, and a handler's   *)
(* timeout fires.  Nothing makes the peer read on.                         *)
Fairness ==
  /\ WF_vars(Connected)
  /\ WF_vars(\E ok \in BOOLEAN : Registered(ok) \/ Synced(ok) \/ Acknowledged(ok))
  /\ WF_vars(\E ok \in BOOLEAN : BeatEnds(ok))
  /\ \A t \in Tasks : WF_vars(Expire(t))

FairSpec == Spec /\ Fairness
------------------------------------------------------------------------------
TypeOK ==
  /\ HTypeOK
  /\ pc \in PC /\ read \in 0..MaxFrames /\ beating \in BOOLEAN
  /\ conn \in 0..MaxConns /\ {broken, stalled} \subseteq BOOLEAN
  /\ Len(events) <= Capacity
  /\ \A i \in DOMAIN line : line[i].by \in Senders
  /\ \A i, j \in DOMAIN line : line[i].by = line[j].by => i = j

(* What goes out on one connection is in order: no frame goes out twice,   *)
(* also not one that a dropped send left in the buffer; the ACKs are those *)
(* of frames read on this connection, in the order they were read; and     *)
(* what may precede /reg are replies to messages of earlier connections.   *)
(* It joins connect, send and handshake (connection.rs 42-82) with the     *)
(* receive loop (adapter.rs 171-242) and the drop of a handler's future.   *)
WireInOrder ==
  \A i \in DOMAIN wire :
    /\ \A j \in 1..(i - 1) : wire[j] # wire[i]
    /\ wire[i].kind = "ack" =>
         /\ wire[i].conn = conn
         /\ \E j \in 1..(i - 1) : wire[j].kind = "ackDiff"
         /\ \A j \in 1..(i - 1) : wire[j].kind = "ack" => wire[j].frame < wire[i].frame
    /\ wire[i].kind = "reply" /\ wire[i].of.conn = conn =>
         \E j \in 1..(i - 1) : wire[j].kind = "ackDiff"

(* Every reply, whenever it is written, goes to the conversation and to    *)
(* the sender of the message it answers, and none answers a message of the *)
(* bot's own, so that its echo never starts it talking to itself           *)
(* (adapter.rs 311-384, 87-131, 413-417).                                  *)
RepliesToSender ==
  \A s \in {turn.frame : turn \in Range(line)} \cup Range(wire) \cup Range(buffer) :
    s.kind = "reply" =>
      LET payload == s.of.event.raw_payload
          sender == payload.senderUserId
      IN  /\ IsStr(sender) => sender # MyId /\ s.message.receivers = {At(sender), At(MyId)}
          /\ IsStr(payload.field2) => s.message.cid = At(payload.field2.name)

(* Unless the peer takes nothing more for good, the adapter gets its turn  *)
(* at the writer, to reconnect, register or acknowledge, however many      *)
(* replies and heartbeats contend for it and wherever they are cut off     *)
(* (connection.rs 42-82).  A heartbeat that cannot be written never ends   *)
(* and would keep connect() waiting for the lock: hence the condition.     *)
WriterServes == <>[](~stalled) => (InLine(Adapter) ~> ~InLine(Adapter))
==============================================================================
