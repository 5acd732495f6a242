------------------------------ MODULE Connection ------------------------------
(***************************************************************************)
(* The WebSocket connection of fish-rt-adapter: FishConnection and its     *)
(* heartbeat tasks (connection.rs) under the adapter's reconnect loop      *)
(* (FishWebSocketAdapter::run, connect_and_run, receive_loop).             *)
(*                                                                         *)
(* The adapter is one task; it connects, handshakes, spawns a heartbeat    *)
(* task and reads frames until the stream ends.  A heartbeat task is never *)
(* cancelled: it belongs to FishConnection, which outlives the connection, *)
(* so it ends only by its own checks and otherwise goes on with whatever   *)
(* writer is stored.  `conn' numbers the connections; heartbeat task l is  *)
(* the one spawned on connection l.                                        *)
(*                                                                         *)
(* Time advances by Tick, one second of the heartbeat's interval(1s), and  *)
(* every duration is a whole number of them.  An event may come anywhere   *)
(* within its second, so that one n ticks ago is more than n - 1 and less  *)
(* than n + 1 seconds ago: compared with a duration of n seconds, the real *)
(* time may be found below it or not.  A heartbeat task that is not in the *)
(* middle of a send handles a tick within its second and the adapter wakes *)
(* from a sleep on time; requests, sends and the event sink may take       *)
(* arbitrarily long.                                                       *)
(***************************************************************************)
EXTENDS Naturals, FiniteSets

CONSTANTS
  HeartbeatInterval,  \* HEARTBEAT_INTERVAL
  HeartbeatTimeout,   \* HEARTBEAT_TIMEOUT
  RegSleep,           \* the pause between /reg and ackDiff
  ReconnectSleep,     \* the pause before the next attempt
  MaxConns            \* bound on the connections of a behaviour

ASSUME ConnectionAssumption ==
  /\ {HeartbeatInterval, RegSleep, ReconnectSleep} \subseteq Nat \ {0}
  /\ {HeartbeatTimeout, MaxConns} \subseteq Nat

VARIABLES
  pc,       \* where the adapter task is
  timer,    \* what is left of its current sleep
  conn,     \* the connection whose writer is stored; 0 before the first
  sock,     \* that connection's state
  silence,  \* ticks since last_heartbeat_response, capped
  beat,     \* ticks since last_heartbeat_sent, for each living task, capped
  due,      \* heartbeat tasks with a tick to handle
  sending,  \* heartbeat tasks inside their send
  age,      \* ticks since the heartbeat task of `conn' was spawned, capped
  gap       \* ticks since a heartbeat was sent on `conn', capped

vars == <<pc, timer, conn, sock, silence, beat, due, sending, age, gap>>

(* "dispatch": a message is with the event sink and no frame is read.      *)
PC == {"login", "down", "token", "reg", "regwait", "recv", "dispatch", "delay", "stopped"}

(* "cut": the peer is gone, but nothing says so to a reader that may still *)
(* have frames before it.  "closed": the end of the stream comes next.     *)
(* "over": the reader has seen it.                                         *)
Sock == {"none", "open", "cut", "closed", "over"}

Conns == 1..MaxConns

Limit == HeartbeatInterval + HeartbeatTimeout

(* Ticks are counted up to the first number at which the code's comparison *)
(* with HEARTBEAT_INTERVAL has one outcome only.                           *)
Elapsed == 0..(HeartbeatInterval + 1)

Alive == DOMAIN beat

With(f, l, n) == [k \in DOMAIN f \cup {l} |-> IF k = l THEN n ELSE f[k]]

Without(f, l) == [k \in DOMAIN f \ {l} |-> f[k]]

UpTo(n, cap) == IF n < cap THEN n ELSE cap

(* FishConnection::new runs before the login: last_heartbeat_response      *)
(* starts at the construction of the adapter.                              *)
Init ==
  /\ pc = "login" /\ timer = 0
  /\ conn = 0 /\ sock = "none"
  /\ silence = 0
  /\ beat = [l \in {} |-> 0] /\ due = {} /\ sending = {}
  /\ age = 0 /\ gap = HeartbeatInterval + 1

(* Whether a send may have outcome `ok'.  A peer that is gone may still    *)
(* take bytes until the reader has seen the end of the stream.             *)
Sends(ok) == IF ok THEN sock \in {"open", "cut", "closed"}
                   ELSE sock \in {"none", "cut", "closed", "over"}
------------------------------------------------------------------------------
(* The adapter task.                                                       *)

Goto(to, t) == pc' = to /\ timer' = t

Delay == Goto("delay", ReconnectSleep)

(* ensure_auth, once, before the loop: an error ends run().                *)
Login ==
  /\ pc = "login"
  /\ \E to \in {"down", "stopped"} : Goto(to, 0)
  /\ UNCHANGED <<conn, sock, silence, beat, due, sending, age, gap>>

ConnectFails ==
  /\ pc = "down"
  /\ Delay
  /\ UNCHANGED <<conn, sock, silence, beat, due, sending, age, gap>>

(* The new writer replaces the stored one.  Neither                        *)
(* last_heartbeat_response nor the old heartbeat tasks are touched.        *)
Connect ==
  /\ pc = "down" /\ conn < MaxConns
  /\ Goto("token", 0)
  /\ conn' = conn + 1 /\ sock' = "open" /\ gap' = HeartbeatInterval + 1
  /\ UNCHANGED <<silence, beat, due, sending, age>>

(* get_access_token; on an error the reader is dropped, the writer stays.  *)
GetToken ==
  /\ pc = "token"
  /\ Goto("reg", 0) \/ Delay
  /\ UNCHANGED <<conn, sock, silence, beat, due, sending, age, gap>>

SendReg ==
  /\ pc = "reg"
  /\ \/ Sends(TRUE) /\ Goto("regwait", RegSleep)
     \/ Sends(FALSE) /\ Delay
  /\ UNCHANGED <<conn, sock, silence, beat, due, sending, age, gap>>

(* ackDiff, then spawn_heartbeat, whose first tick is immediate.           *)
SendAckDiff ==
  /\ pc = "regwait" /\ timer = 0
  /\ \/ /\ Sends(TRUE)
        /\ Goto("recv", 0)
        /\ beat' = With(beat, conn, 0) /\ due' = due \cup {conn}
        /\ age' = 0
     \/ Sends(FALSE) /\ Delay /\ UNCHANGED <<beat, due, age>>
  /\ UNCHANGED <<conn, sock, silence, sending, gap>>

(* A frame is read: mark_server_response on code 200, then the ACK (its    *)
(* result is ignored), then a sync message goes to the sink.               *)
ReadFrame(marks, syncs) ==
  /\ pc = "recv" /\ sock \in {"open", "cut"}
  /\ silence' = IF marks THEN 0 ELSE silence
  /\ pc' = IF syncs THEN "dispatch" ELSE pc
  /\ UNCHANGED <<timer, conn, sock, beat, due, sending, age, gap>>

(* sink.handle_message returns; its error is only logged.                  *)
Dispatched ==
  /\ pc = "dispatch"
  /\ Goto("recv", 0)
  /\ UNCHANGED <<conn, sock, silence, beat, due, sending, age, gap>>

(* Mutant: a clean end of the stream ends run().                           *)
ReadEndStops ==
  /\ pc = "recv" /\ sock = "closed"
  /\ sock' = "over"
  /\ Goto("stopped", 0)
  /\ UNCHANGED <<conn, silence, beat, due, sending, age, gap>>

(* A close frame, an error or the end of the stream.                       *)
ReadEnd ==
  /\ pc = "recv" /\ sock = "closed"
  /\ sock' = "over"
  /\ Delay
  /\ UNCHANGED <<conn, silence, beat, due, sending, age, gap>>

Retry ==
  /\ pc = "delay" /\ timer = 0
  /\ Goto("down", 0)
  /\ UNCHANGED <<conn, sock, silence, beat, due, sending, age, gap>>
------------------------------------------------------------------------------
(* A heartbeat task: the loop body of spawn_heartbeat, once per tick.  The *)
(* ticks that come during a send are handled in a burst after it, as one.  *)

(* Mutant: a task that broke off is woken again.                           *)
HandleAgain(l) ==
  /\ l \in due \ sending
  /\ UNCHANGED <<due, pc, timer, conn, sock, silence, age, gap>>

Handle(l) ==
  /\ l \in due \ sending
  /\ due' = due \ {l}
  /\ UNCHANGED <<pc, timer, conn, sock, silence, age, gap>>

(* Mutant: `continue' for `break'.                                         *)
TimeOutIgnored(l) == Handle(l) /\ silence >= Limit /\ UNCHANGED <<beat, sending>>

TimeOut(l) ==
  /\ Handle(l) /\ silence >= Limit
  /\ beat' = Without(beat, l)
  /\ UNCHANGED sending

(* Mutant: the interval between heartbeats is that of the time-out.        *)
NotYetTimedOut(l) ==
  /\ Handle(l) /\ silence <= Limit /\ beat[l] <= Limit
  /\ UNCHANGED <<beat, sending>>

NotYet(l) ==
  /\ Handle(l) /\ silence <= Limit /\ beat[l] <= HeartbeatInterval
  /\ UNCHANGED <<beat, sending>>

Beat(l) ==
  /\ Handle(l) /\ silence <= Limit /\ beat[l] >= HeartbeatInterval
  /\ sending' = sending \cup {l}
  /\ UNCHANGED beat

HandlesTick(l) == TimeOut(l) \/ NotYet(l) \/ Beat(l)

(* The send ends, and last_heartbeat_sent is the time of its end.  The     *)
(* frame went to the stored writer, whichever connection it is of: the     *)
(* lock is held over the write and kept from connect.                      *)
Sent(l) ==
  /\ l \in sending /\ Sends(TRUE)
  /\ sending' = sending \ {l}
  /\ beat' = With(beat, l, 0) /\ gap' = 0
  /\ UNCHANGED <<pc, timer, conn, sock, silence, due, age>>

BeatFails(l) ==
  /\ l \in sending /\ Sends(FALSE)
  /\ sending' = sending \ {l}
  /\ beat' = Without(beat, l) /\ due' = due \ {l}
  /\ UNCHANGED <<pc, timer, conn, sock, silence, age, gap>>

SendEnds(l) == Sent(l) \/ BeatFails(l)
------------------------------------------------------------------------------
(* The environment: the peer, the network and time.                        *)

PeerCloses ==
  /\ sock \in {"open", "cut"}
  /\ sock' = "closed"
  /\ UNCHANGED <<pc, timer, conn, silence, beat, due, sending, age, gap>>

NetworkCut ==
  /\ sock = "open"
  /\ sock' = "cut"
  /\ UNCHANGED <<pc, timer, conn, silence, beat, due, sending, age, gap>>

Sleeping == pc \in {"regwait", "delay"}

Tick ==
  /\ due \subseteq sending
  /\ Sleeping => timer > 0
  /\ timer' = IF timer = 0 THEN 0 ELSE timer - 1
  /\ silence' = UpTo(silence + 1, Limit + 1)
  /\ beat' = [l \in Alive |-> UpTo(beat[l] + 1, HeartbeatInterval + 1)]
  /\ due' = Alive
  /\ age' = UpTo(age + 1, Limit + 1)
  /\ gap' = UpTo(gap + 1, HeartbeatInterval + 1)
  /\ UNCHANGED <<pc, conn, sock, sending>>
------------------------------------------------------------------------------
Adapter ==
  \/ Login \/ ConnectFails \/ Connect \/ GetToken \/ SendReg \/ SendAckDiff
  \/ \E marks, syncs \in BOOLEAN : ReadFrame(marks, syncs)
  \/ Dispatched \/ ReadEnd \/ Retry

Next ==
  \/ Adapter
  \/ \E l \in Conns : HandlesTick(l) \/ SendEnds(l)
  \/ PeerCloses \/ NetworkCut \/ Tick

Spec == Init /\ [][Next]_vars

(* Time passes and tasks are polled; the event sink and a sleep end.       *)
(* Nothing makes the login, a request, the connect or a send return: they  *)
(* have no timeout, and a peer may stop reading for ever.                  *)
Fairness ==
  /\ WF_vars(Tick)
  /\ \A l \in Conns : WF_vars(HandlesTick(l))
  /\ WF_vars(Dispatched) /\ WF_vars(ReadEnd) /\ WF_vars(Retry)

FairSpec == Spec /\ Fairness
------------------------------------------------------------------------------
TypeOK ==
  /\ pc \in PC
  /\ timer \in 0..(RegSleep + ReconnectSleep)
  /\ conn \in 0..MaxConns /\ sock \in Sock
  /\ silence \in 0..(Limit + 1)
  /\ beat \in [Alive -> Elapsed] /\ due \cup sending \subseteq Alive /\ Alive \subseteq Conns
  /\ age \in 0..(Limit + 1) /\ gap \in Elapsed

(* A leftover heartbeat task does not outlive a silent server: once every  *)
(* task has handled the tick that takes the silence over the limit, and    *)
(* none is stuck in a send, none is left, whatever connections came and    *)
(* went.  connection.rs 98-103.                                            *)
SilenceEndsHeartbeats == silence > Limit /\ due = {} => Alive = {}

(* While a connection's own heartbeat task lives, its peer gets a          *)
(* heartbeat by the first tick after HeartbeatInterval (after the          *)
(* handshake, then after the last one), or that task is inside its send,   *)
(* whatever leftover tasks and slow sends come in between.  The tick of    *)
(* the interval itself may find less than HEARTBEAT_INTERVAL elapsed.      *)
(* connection.rs 105-116.                                                  *)
BeatsOnTime ==
  conn \in Alive \ sending /\ due = {} =>
    gap <= HeartbeatInterval \/ age <= HeartbeatInterval

(* A lost connection and a failed attempt are always followed by another   *)
(* attempt, however busy the sink is.  adapter.rs 177-206, 425-433.        *)
AlwaysRetries ==
  pc = "delay" \/ (pc \in {"recv", "dispatch"} /\ sock = "closed") ~> pc = "down"

(* Stated by the code's comments, violated by the code:                    *)

(* A connection that has just been registered has a heartbeat task, until  *)
(* the peer has had Limit ticks to answer (connection.rs 89: "sends        *)
(* heartbeat frames every 15 seconds").                                    *)
FreshConnectionHasHeartbeat ==
  pc = "recv" /\ sock = "open" /\ age < Limit => conn \in Alive

(* Heartbeats on one connection are HeartbeatInterval apart                *)
(* (connection.rs 89, the same sentence).                                  *)
BeatsSpaced ==
  [][\A l \in Conns : Sent(l) => gap >= HeartbeatInterval]_vars
==============================================================================
