----------------------------- MODULE SharedWriter -----------------------------
(***************************************************************************)
(* The writer of FishConnection (connection.rs), shared by the adapter     *)
(* task, the heartbeat task and the replies of handlers.                   *)
(*                                                                         *)
(* It is behind a fair RwLock that everybody locks for writing, and send() *)
(* keeps the lock while the frame is written: `line' is the lock, the      *)
(* senders in the order they asked, the first one holding it.  A write     *)
(* does not end while the peer takes nothing more (`stalled'), and fails   *)
(* once the socket is broken; nothing in the code ends it before.  When a  *)
(* sender's future is dropped in the middle of a write, its frame may stay *)
(* in the sink's buffer, from where the next write takes it along.         *)
(***************************************************************************)
EXTENDS Naturals, SequencesExt

CONSTANTS
  Senders,  \* who may call send() or connect()
  MaxConns  \* bound on the connections of a behaviour

ASSUME WriterAssumption == MaxConns \in Nat

VARIABLES
  conn,     \* the connection whose writer is stored, 0 for none
  broken,   \* whether writes to it fail
  stalled,  \* whether writes to it do not end
  line,     \* who asked for the lock and what for, in order
  buffer,   \* frames of dropped writes in the sink of `conn'
  wire      \* the frames that went out on `conn'

wVars == <<conn, broken, stalled, line, buffer, wire>>

WInit ==
  /\ conn = 0
  /\ broken = FALSE /\ stalled = FALSE
  /\ line = <<>> /\ buffer = <<>> /\ wire = <<>>

Swap == [kind |-> "swap"]

InLine(s) == \E i \in DOMAIN line : line[i].by = s

Ask(s, frame) == line' = Append(line, [by |-> s, frame |-> frame])

Holds(s) == line # <<>> /\ Head(line).by = s

(* Heartbeats are left out of `wire': nothing here depends on them.        *)
Out(frame) == IF frame.kind = "beat" THEN <<>> ELSE <<frame>>

(* send(): the write ends and the lock is released.                        *)
SendEnds(s, ok) ==
  /\ Holds(s)
  /\ Head(line).frame # Swap
  /\ IF ok
     THEN /\ conn > 0 /\ ~broken /\ ~stalled
          /\ wire' = wire \o buffer \o Out(Head(line).frame)
          /\ buffer' = <<>>
     ELSE (conn = 0 \/ broken) /\ UNCHANGED <<wire, buffer>>
  /\ line' = Tail(line)
  /\ UNCHANGED <<conn, broken, stalled>>

(* connect(): the new connection's writer replaces the stored one, and     *)
(* with it goes whatever the old one had buffered.                         *)
Swapped(s) ==
  /\ Holds(s)
  /\ Head(line).frame = Swap
  /\ conn' = conn + 1
  /\ broken' = FALSE /\ stalled' = FALSE
  /\ buffer' = <<>> /\ wire' = <<>>
  /\ line' = Tail(line)

(* Mutant: a dropped send keeps the lock.                                  *)
DropKeepsLock(s) == UNCHANGED wVars

(* The sender's future is dropped, wherever it is in send().               *)
DropSend(s) ==
  /\ \E i \in DOMAIN line : line[i].by = s /\ line' = RemoveAt(line, i)
  /\ \/ UNCHANGED buffer
     \/ /\ Holds(s) /\ conn > 0 /\ ~broken
        /\ buffer' = buffer \o Out(Head(line).frame)
  /\ UNCHANGED <<conn, broken, stalled, wire>>
------------------------------------------------------------------------------
(* The network and the peer.                                               *)

Break ==
  /\ conn > 0 /\ ~broken
  /\ broken' = TRUE /\ stalled' = FALSE
  /\ UNCHANGED <<conn, line, buffer, wire>>

Stall ==
  /\ conn > 0 /\ ~broken /\ ~stalled
  /\ stalled' = TRUE
  /\ UNCHANGED <<conn, broken, line, buffer, wire>>

Resume ==
  /\ stalled
  /\ stalled' = FALSE
  /\ UNCHANGED <<conn, broken, line, buffer, wire>>
==============================================================================
