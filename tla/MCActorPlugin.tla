---------------------------- MODULE MCActorPlugin ----------------------------
(* ActorPlugin with two message types of one name and an event type.       *)
EXTENDS ActorPlugin

Ping == [path |-> "a", name |-> "ping"]
OtherPing == [path |-> "b", name |-> "ping"]
Order == [path |-> "a", name |-> "order"]

Binding(kind, type) == [kind |-> kind, type |-> type]

Distinct == << Binding("message", Ping), Binding("event", Order) >>
TwoRoutes == << Binding("message", Ping), Binding("message", Ping) >>
TwoEvents == << Binding("event", Ping), Binding("event", OtherPing) >>

AllBuilders == {Distinct, TwoRoutes, TwoEvents}
==============================================================================
