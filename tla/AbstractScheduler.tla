-------------------------- MODULE AbstractScheduler --------------------------
(***************************************************************************)
(* What a plugin's scheduler promises to the rest of the runtime, without  *)
(* semaphore, lock, Notify or processor task: a bounded set of running     *)
(* handlers, a bounded FIFO backlog, and room made by giving up old work.  *)
(***************************************************************************)
EXTENDS Naturals, Sequences, FiniteSets

CONSTANTS
  Tasks,   \* names of handler futures
  Limit,   \* handlers that may run at once
  Room     \* futures that may wait at once

VARIABLES
  running,  \* futures that are running
  waiting   \* the backlog, oldest first

absVars == <<running, waiting>>

Absent(t) == t \notin running /\ \A i \in 1..Len(waiting) : waiting[i] # t

AbsInit == running = {} /\ waiting = <<>>

(* A new future runs at once when a slot is free, even past a backlog.     *)
StartNew(t) ==
  /\ Absent(t)
  /\ Cardinality(running) < Limit
  /\ running' = running \cup {t}
  /\ UNCHANGED waiting

JoinBacklog(t) ==
  /\ Absent(t)
  /\ Len(waiting) < Room
  /\ waiting' = Append(waiting, t)
  /\ UNCHANGED running

(* A nearly full backlog gives up its oldest member, or the one after it   *)
(* when the oldest is already promised the next slot.                      *)
Displace(t) ==
  /\ Absent(t)
  /\ Len(waiting) \in {Room - 1, Room}
  /\ waiting # <<>>
  /\ \/ waiting' = Append(Tail(waiting), t)
     \/ /\ Len(waiting) >= 2
        /\ waiting' = Append(<<Head(waiting)>> \o Tail(Tail(waiting)), t)
  /\ UNCHANGED running

StartOldest ==
  /\ waiting # <<>>
  /\ Cardinality(running) < Limit
  /\ running' = running \cup {Head(waiting)}
  /\ waiting' = Tail(waiting)

Finish(t) ==
  /\ t \in running
  /\ running' = running \ {t}
  /\ UNCHANGED waiting

AbsNext ==
  \/ StartOldest
  \/ \E t \in Tasks : StartNew(t) \/ JoinBacklog(t) \/ Displace(t) \/ Finish(t)

AbsSafety == AbsInit /\ [][AbsNext]_absVars

(* The oldest waiting future is not passed over for ever: strong fairness, *)
(* because new futures may take a free slot in between.                    *)
AbsSpec == AbsSafety /\ SF_absVars(StartOldest) /\ \A t \in Tasks : WF_absVars(Finish(t))
==============================================================================
