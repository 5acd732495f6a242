---------------------------- MODULE PluginHandlers ----------------------------
(***************************************************************************)
(* The handler tasks of one plugin written with the attribute macros: what *)
(* gen_message_handler (fish-plugin-macros lib.rs) makes of a method, the  *)
(* context it is given (fish-runtime handlers.rs, context.rs) and the lock *)
(* around the plugin's state.                                              *)
(*                                                                         *)
(* A method with `&mut self' takes the write guard of the state, one with  *)
(* `&self' the read guard, and keeps it until its future ends or is        *)
(* dropped, across every await of its body.  The lock is tokio's fair      *)
(* RwLock, external: those who ask for it are served in order, so one      *)
(* sequence is the whole lock (see Guards).                                *)
(*                                                                         *)
(* A body here touches the state twice, as two halves of one update, and   *)
(* awaits in between: `begun' and `done' count the halves.  It replies     *)
(* there at most once; the methods gen_event_handler wraps are the same    *)
(* but for their context, which has no reply().  The future is dropped by  *)
(* its timeout at any await, or ends early when the reply's error is       *)
(* returned by `?'.                                                        *)
(***************************************************************************)
EXTENDS Naturals, SequencesExt

CONSTANTS
  Tasks,     \* handler tasks that may be alive at once
  MaxStarts  \* bound on the handlers started, so that the counters stay finite

ASSUME HandlersAssumption == MaxStarts \in Nat

VARIABLES
  stage,     \* where each handler task is
  receiver,  \* what the task's method takes: "Ref" or "MutRef"
  asked,     \* the tasks that asked for the state's lock, in order
  store,     \* the plugin's state
  seen,      \* what each task saw when it was given the lock
  count      \* started handlers, replies and updates that were cut off

hVars == <<stage, receiver, asked, store, seen, count>>

(* "lock": waits in state_read or state_write.  "reply": inside reply().   *)
(* "failed": it has returned an error.  "rest": past it, or without one.   *)
(* Where a method that runs may be; it starts in one of these stages.      *)
Running == {"reply", "failed", "rest"}

Stages == {"idle", "lock"} \cup Running

Inside(t) == stage[t] \in Running

Kinds == {"started", "called", "sent", "reply_failures", "cut_replies", "cut_updates"}

Bump(names) == [k \in Kinds |-> IF k \in names THEN count[k] + 1 ELSE count[k]]

Fresh == [begun |-> 0, done |-> 0]

HInit ==
  /\ stage = [t \in Tasks |-> "idle"]
  /\ receiver = [t \in Tasks |-> "Ref"]
  /\ asked = <<>>
  /\ store = Fresh
  /\ seen = [t \in Tasks |-> Fresh]
  /\ count = [k \in Kinds |-> 0]

(* Mutant: both kinds of methods are given the read guard.                 *)
GuardsAllRead == Range(asked)

(* The tasks that hold a guard: the first alone if it writes, otherwise    *)
(* the readers before the first writer.                                    *)
Guards ==
  {asked[i] : i \in {j \in DOMAIN asked :
     \/ j = 1
     \/ \A k \in 1..j : receiver[asked[k]] = "Ref"}}

Leave(t) == \E i \in DOMAIN asked : asked[i] = t /\ asked' = RemoveAt(asked, i)

------------------------------------------------------------------------------
(* The scheduler polls the handler's future for the first time.            *)
Begin(t, kind) ==
  /\ stage[t] = "idle"
  /\ count["started"] < MaxStarts
  /\ stage' = [stage EXCEPT ![t] = "lock"]
  /\ receiver' = [receiver EXCEPT ![t] = kind]
  /\ asked' = Append(asked, t)
  /\ count' = Bump({"started"})
  /\ UNCHANGED <<store, seen>>

FirstHalf(t) ==
  store' = IF receiver[t] = "MutRef" THEN [store EXCEPT !.begun = @ + 1] ELSE store

(* What telemetry sees of a method that runs up to `at'.                   *)
Called(at) ==
  (IF at = "rest" THEN {} ELSE {"called"})
  \cup (IF at = "failed" THEN {"reply_failures"} ELSE {})

(* Mutant: a task is let in as soon as it asks.                            *)
EnterAtOnce(t, at) ==
  /\ stage[t] = "lock"
  /\ FirstHalf(t)
  /\ seen' = [seen EXCEPT ![t] = store']
  /\ stage' = [stage EXCEPT ![t] = at]
  /\ count' = Bump(Called(at))
  /\ UNCHANGED <<receiver, asked>>

(* The guard is there: the method runs up to its first await, its reply    *)
(* or another; a reply that cannot be built is refused at once.            *)
Enter(t, at) ==
  /\ stage[t] = "lock"
  /\ t \in Guards
  /\ FirstHalf(t)
  /\ seen' = [seen EXCEPT ![t] = store']
  /\ stage' = [stage EXCEPT ![t] = at]
  /\ count' = Bump(Called(at))
  /\ UNCHANGED <<receiver, asked>>

(* Mutant: a failed send is returned without being counted.                *)
RepliedUncounted(t, ok) ==
  /\ stage[t] = "reply"
  /\ stage' = [stage EXCEPT ![t] = IF ok THEN "rest" ELSE "failed"]
  /\ count' = IF ok THEN Bump({"sent"}) ELSE count
  /\ UNCHANGED <<receiver, asked, store, seen>>

(* adapter.send returns; an error is counted and passed on.                *)
Replied(t, ok) ==
  /\ stage[t] = "reply"
  /\ stage' = [stage EXCEPT ![t] = IF ok THEN "rest" ELSE "failed"]
  /\ count' = Bump(IF ok THEN {"sent"} ELSE {"reply_failures"})
  /\ UNCHANGED <<receiver, asked, store, seen>>

(* The rest of the method runs; then the guard is dropped.                 *)
Finish(t) ==
  /\ stage[t] \in {"rest", "failed"}
  /\ store' = IF receiver[t] = "MutRef" THEN [store EXCEPT !.done = @ + 1] ELSE store
  /\ stage' = [stage EXCEPT ![t] = "idle"]
  /\ Leave(t)
  /\ seen' = [seen EXCEPT ![t] = Fresh]
  /\ receiver' = [receiver EXCEPT ![t] = "Ref"]
  /\ UNCHANGED count

(* What is left undone by a task that ends here.                           *)
CutOff(t) ==
  (IF stage[t] = "reply" THEN {"cut_replies"} ELSE {})
  \cup (IF Inside(t) /\ receiver[t] = "MutRef" THEN {"cut_updates"} ELSE {})

(* The future is dropped where it awaits, or ends with the reply's error.  *)
(* Nothing undoes the first half.                                          *)
BreakOff(t) ==
  /\ count' = Bump(CutOff(t))
  /\ stage' = [stage EXCEPT ![t] = "idle"]
  /\ Leave(t)
  /\ seen' = [seen EXCEPT ![t] = Fresh]
  /\ receiver' = [receiver EXCEPT ![t] = "Ref"]
  /\ UNCHANGED store

Timeout(t) == stage[t] # "idle" /\ BreakOff(t)

ReturnError(t) == stage[t] = "failed" /\ BreakOff(t)

Kind == {"Ref", "MutRef"}

HNext ==
  \E t \in Tasks :
    \/ \E kind \in Kind : Begin(t, kind)
    \/ \E at \in Running : Enter(t, at)
    \/ \E ok \in BOOLEAN : Replied(t, ok)
    \/ Finish(t) \/ Timeout(t) \/ ReturnError(t)

HSpec == HInit /\ [][HNext]_hVars
------------------------------------------------------------------------------
States == [begun : Nat, done : Nat]

HTypeOK ==
  /\ stage \in [Tasks -> Stages]
  /\ receiver \in [Tasks -> Kind]
  /\ asked \in Seq(Tasks)
  /\ store \in States /\ seen \in [Tasks -> States]
  /\ count \in [Kinds -> Nat]

(* A task that is in its method finds the plugin's state as it left it,    *)
(* after every await: no other handler of the plugin has written to it     *)
(* meanwhile.  It joins the generated guards (lib.rs 226-249), the fair    *)
(* lock and the drop of a future (task_runner.rs 166-191).                 *)
StateIsolated == \A t \in Tasks : Inside(t) => seen[t] = store

(* A reader never sees half of an update that is under way; half of an     *)
(* update it sees only where a handler was cut off, which is not undone    *)
(* (lib.rs 226-249, handlers.rs 62-72).                                    *)
ReadersSeeWhole ==
  \A t \in Tasks :
    Inside(t) /\ receiver[t] = "Ref" => store.begun = store.done + count["cut_updates"]

Replying == {t \in Tasks : stage[t] = "reply"}

(* Every reply was sent, is counted as failed, was cut off with its        *)
(* handler or is under way: reply_failures is all the replies that were    *)
(* refused, and a timeout is never counted there (context.rs 34-47).       *)
RepliesBalance ==
  count["called"] = count["sent"] + count["reply_failures"] + count["cut_replies"]
    + Cardinality(Replying)
==============================================================================
