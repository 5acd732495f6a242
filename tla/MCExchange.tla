----------------------------- MODULE MCExchange -----------------------------
(* Exchange with two handler tasks and five frames: a push of two messages *)
(* (the first counts), one of the bot's own, a system text in brackets, a  *)
(* message whose ids stand in the fallback fields and without headers, and *)
(* one that is no push.                                                    *)
EXTENDS Exchange

Chat(sender, cid, text) ==
  [reminderContent |-> text, field2 |-> At(cid), cid |-> Absent,
   senderUserId |-> sender, user_id |-> Absent,
   body_sender_id |-> Absent, sender_id |-> Absent]

Item(payload) == [base64 |-> TRUE, json |-> FALSE, msgpack |-> TRUE, payload |-> payload]

Push(items) == [json |-> TRUE, headers |-> TRUE, mentions |-> TRUE, items |-> items]

MCFrames == {
  Push(<<Item(Chat("alice", "c1", "hi")), Item(Chat("bob", "c2", "hi"))>>),
  Push(<<Item(Chat(MyId, "c1", "pong"))>>),
  Push(<<Item(Chat("alice", "c1", "[tip]"))>>),
  [Push(<<Item([Chat(Absent, "c1", "hi") EXCEPT !.user_id = "carol", !.field2 = NotStr,
                                               !.cid = At("c3")])>>) EXCEPT !.headers = FALSE],
  [json |-> TRUE, headers |-> FALSE, mentions |-> FALSE, items |-> <<>>]}

MCSenders == Tasks \cup {Adapter, Beat}

(* One that can be sent and one that cannot.                               *)
Pong == Segment(TextSegment("pong"))
MCChains == {ChainOf(<<Pong>>), ChainOf(<<Pong, Chain(<<OtherSegment("image")>>)>>)}
==============================================================================
