--------------------------- MODULE ConnectionProofs ---------------------------
(***************************************************************************)
(* Proofs about Connection for every choice of the durations and of the    *)
(* bound on connections.                                                   *)
(***************************************************************************)
EXTENDS Connection, TLAPS

(* From the first connection on a writer is stored.                        *)
WriterStored == pc \in {"token", "reg", "regwait", "recv", "dispatch"} => conn > 0

(* Heartbeat tasks belong to connections there have been.                  *)
OwnConnection == Alive \subseteq 1..conn

(* Past the limit no task survives the tick it handles.                    *)
NoneOutlives == silence > Limit => Alive \subseteq due

(* At the end of a send, and at every tick it has handled since, a task    *)
(* was no more than the interval from its last send.                       *)
HandledInTime ==
  \A l \in Alive \ (due \cup sending) : beat[l] <= HeartbeatInterval

(* What the current connection's task knows bounds what the peer has seen. *)
BeatBounds ==
  conn \in Alive => gap <= beat[conn] \/ UpTo(age, HeartbeatInterval + 1) <= beat[conn]

IInv ==
  /\ TypeOK /\ WriterStored /\ OwnConnection
  /\ NoneOutlives /\ HandledInTime /\ BeatBounds
------------------------------------------------------------------------------
(* Before the first connection nothing is sent or due.                     *)
LEMMA InitIInv == Init => IInv
BY ConnectionAssumption
DEF Init, IInv, TypeOK, WriterStored, OwnConnection, NoneOutlives, HandledInTime,
    BeatBounds, PC, Sock, Conns, Limit, Elapsed, Alive

(* The adapter's steps that touch neither the heartbeat tasks nor what     *)
(* they read.                                                              *)
LEMMA QuietStep ==
  ASSUME IInv, pc' \in PC, timer' \in 0..(RegSleep + ReconnectSleep), sock' \in Sock,
         pc' \in {"token", "reg", "regwait", "recv", "dispatch"} => conn > 0,
         UNCHANGED <<conn, silence, beat, due, sending, age, gap>>
  PROVE  IInv'
BY DEF IInv, TypeOK, WriterStored, OwnConnection, NoneOutlives, HandledInTime,
       BeatBounds, Alive, Conns, Limit, Elapsed

(* One heartbeat task handles its tick, or its send ends.                  *)
LEMMA BeatStep ==
  ASSUME IInv, NEW l \in Conns, HandlesTick(l) \/ SendEnds(l)
  PROVE  IInv'
<1> USE ConnectionAssumption DEF IInv, TypeOK, WriterStored, OwnConnection, NoneOutlives,
        HandledInTime, BeatBounds, Alive, Conns, Limit, Elapsed
<1>1. CASE TimeOut(l)
  BY <1>1 DEF TimeOut, Handle, Without
<1>2. CASE NotYet(l)
  BY <1>2 DEF NotYet, Handle
<1>3. CASE Beat(l)
  BY <1>3 DEF Beat, Handle
<1>4. CASE Sent(l)
  BY <1>4 DEF Sent, With
<1>5. CASE BeatFails(l)
  BY <1>5 DEF BeatFails, Without
<1> QED
  BY <1>1, <1>2, <1>3, <1>4, <1>5 DEF HandlesTick, SendEnds

(* A tick of time, and then every living task has one to handle.           *)
LEMMA TickStep ==
  ASSUME IInv, Tick
  PROVE  IInv'
BY ConnectionAssumption
DEF IInv, TypeOK, WriterStored, OwnConnection, NoneOutlives, HandledInTime,
    BeatBounds, Alive, Conns, Limit, Elapsed, Tick, UpTo, PC, Sock

(* A step of the adapter: only Connect, SendAckDiff and ReadFrame touch    *)
(* what the heartbeat tasks read.                                          *)
LEMMA AdapterStep ==
  ASSUME IInv, Adapter
  PROVE  IInv'
<1> USE ConnectionAssumption DEF PC, Sock, Goto, Delay
<1>1. CASE Login
  BY <1>1, QuietStep DEF Login, IInv, TypeOK
<1>2. CASE ConnectFails
  BY <1>2, QuietStep DEF ConnectFails, IInv, TypeOK
<1>3. CASE Connect
  BY <1>3 DEF Connect, IInv, TypeOK, WriterStored, OwnConnection, NoneOutlives,
              HandledInTime, BeatBounds, Alive, Conns, Limit, Elapsed
<1>4. CASE GetToken
  BY <1>4, QuietStep DEF GetToken, IInv, TypeOK, WriterStored
<1>5. CASE SendReg
  BY <1>5, QuietStep DEF SendReg, Sends, IInv, TypeOK, WriterStored
<1>6. CASE SendAckDiff
  <2>1. CASE Delay /\ UNCHANGED <<beat, due, sending, age>>
    BY <1>6, <2>1, QuietStep DEF SendAckDiff, IInv, TypeOK
  <2>2. CASE /\ Goto("recv", 0)
             /\ beat' = With(beat, conn, 0) /\ due' = due \cup {conn}
             /\ age' = 0 /\ UNCHANGED sending
    BY <1>6, <2>2 DEF SendAckDiff, IInv, TypeOK, WriterStored, OwnConnection, NoneOutlives,
                      HandledInTime, BeatBounds, Alive, Conns, Limit, Elapsed, With, UpTo
  <2> QED
    BY <1>6, <2>1, <2>2 DEF SendAckDiff
<1>7. ASSUME NEW marks \in BOOLEAN, NEW syncs \in BOOLEAN, ReadFrame(marks, syncs)
      PROVE  IInv'
  BY <1>7 DEF ReadFrame, IInv, TypeOK, WriterStored, OwnConnection, NoneOutlives,
              HandledInTime, BeatBounds, Alive, Conns, Limit, Elapsed
<1>8. CASE Dispatched
  BY <1>8, QuietStep DEF Dispatched, IInv, TypeOK, WriterStored
<1>9. CASE ReadEnd
  BY <1>9, QuietStep DEF ReadEnd, IInv, TypeOK
<1>10. CASE Retry
  BY <1>10, QuietStep DEF Retry, IInv, TypeOK
<1> QED
  BY <1>1, <1>2, <1>3, <1>4, <1>5, <1>6, <1>7, <1>8, <1>9, <1>10 DEF Adapter

(* Every step of adapter, heartbeat tasks and time keeps the invariant.    *)
LEMMA NextStep == IInv /\ [Next]_vars => IInv'
<1> SUFFICES ASSUME IInv, [Next]_vars PROVE IInv'
  OBVIOUS
<1>1. CASE PeerCloses \/ NetworkCut
  BY <1>1, QuietStep DEF PeerCloses, NetworkCut, IInv, TypeOK, WriterStored, Sock
<1>2. CASE UNCHANGED vars
  BY <1>2, QuietStep DEF vars, IInv, TypeOK, WriterStored
<1> QED
  BY <1>1, <1>2, AdapterStep, BeatStep, TickStep DEF Next
------------------------------------------------------------------------------
(* The strengthened invariant holds in every reachable state.              *)
THEOREM Invariance == Spec => []IInv
BY InitIInv, NextStep, PTL DEF Spec

(* Every variable of the connection keeps its type.                        *)
THEOREM TypeCorrect == Spec => []TypeOK
<1>1. IInv => TypeOK
  BY DEF IInv
<1> QED
  BY <1>1, Invariance, PTL

(* However long the interval, the timeout and the pauses are and however   *)
(* often the adapter reconnects, a silent server is left with no heartbeat *)
(* task once the tick past the limit has been handled.                     *)
THEOREM SilentServerIsLeftAlone == Spec => []SilenceEndsHeartbeats
<1>1. IInv => SilenceEndsHeartbeats
  BY DEF IInv, NoneOutlives, SilenceEndsHeartbeats
<1> QED
  BY <1>1, Invariance, PTL

(* While its own heartbeat task lives and is not inside a send, a          *)
(* connection has had a heartbeat by the first tick after the interval,    *)
(* however often the adapter reconnects and however long sends take.       *)
THEOREM HeartbeatsOnTime == Spec => []BeatsOnTime
<1>1. IInv => BeatsOnTime
  BY ConnectionAssumption
  DEF IInv, TypeOK, HandledInTime, BeatBounds, BeatsOnTime, UpTo, Alive, Elapsed, Limit
<1> QED
  BY <1>1, Invariance, PTL
==============================================================================
