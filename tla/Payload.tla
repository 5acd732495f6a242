------------------------------- MODULE Payload -------------------------------
(***************************************************************************)
(* The pure part of the adapter (fish-rt-adapter adapter.rs): what becomes *)
(* of one WebSocket frame, from its JSON to a MessageEvent, and the frame  *)
(* that is sent in reply.                                                  *)
(*                                                                         *)
(* A frame is known by the facts handle_raw_message tests.  A payload is   *)
(* the decoded value of its first item; a field of it that the code reads  *)
(* as a string is a string, Absent, or NotStr when it is something else.   *)
(* A conversation id is the part before its first '@' and the rest.        *)
(***************************************************************************)
EXTENDS SequencesExt

CONSTANTS
  Absent,    \* a field that is not there
  NotStr,    \* a field that is there and not a string
  MyId,      \* AuthManager::my_id, the cookie "unb"
  Bracketed  \* the texts that are "[...]" when trimmed

ASSUME PayloadAssumption == Absent # NotStr

IsStr(field) == field \notin {Absent, NotStr}

(* `a.or_else(|| b)' on two lookups, then `.as_str()'.                     *)
Either(a, b) == IF a # Absent THEN a ELSE b

StrOr(field, default) == IF IsStr(field) THEN field ELSE default
------------------------------------------------------------------------------
(* Message chains (fish-core message.rs): sequences of segments.           *)

TextSegment(text) == [type |-> "text", text |-> text]

OtherSegment(type) == [type |-> type, text |-> ""]

IsText(segment) == segment.type = "text"

(* MessageChainItem: what may be appended, strings as text segments.       *)
Segment(segment) == [kind |-> "segment", segment |-> segment]

Chain(chain) == [kind |-> "chain", chain |-> chain]

(* append and extend: segments and chains end up flat.                     *)
ChainOf(items) ==
  FlattenSeq([i \in DOMAIN items |-> IF items[i].kind = "chain" THEN items[i].chain
                                                              ELSE <<items[i].segment>>])
------------------------------------------------------------------------------
(* decode_sync_payload: an item is skipped unless it is base64, is not     *)
(* JSON, and is MessagePack.                                               *)
Decodes(item) == item.base64 /\ ~item.json /\ item.msgpack

(* is_chat_message: ["1"]["10"].reminderContent is there and a string.     *)
IsChatMessage(payload) == IsStr(payload.reminderContent)

IsBracketSystemMessage(text) == text \in Bracketed

Event(payload, cid, sender, chain) ==
  [cid |-> cid, sender |-> sender, messages |-> chain, raw_payload |-> payload]

CidOf(payload) ==
  LET raw == IF IsStr(payload.field2) THEN payload.field2
             ELSE StrOr(payload.cid, [name |-> "", domain |-> ""])
  IN  raw.name

SenderOf(payload) ==
  StrOr(Either(payload.senderUserId, payload.user_id),
        StrOr(Either(payload.body_sender_id, payload.sender_id), ""))

(* Mutant: the bot's own messages are not told from the others'.           *)
ParseAnyone(payload) ==
  LET text == payload.reminderContent
      chain == <<TextSegment(text)>>
  IN  IF IsChatMessage(payload) /\ ~IsBracketSystemMessage(text)
      THEN {Event(payload, CidOf(payload), SenderOf(payload), chain)} ELSE {}

(* parse_event: the set of the event, or {} for none.                      *)
ParseEvent(payload) ==
  LET text == payload.reminderContent
      chain == <<TextSegment(text)>>
      sender == SenderOf(payload)
  IN  IF IsChatMessage(payload) /\ ~IsBracketSystemMessage(text) /\ sender # MyId
      THEN {Event(payload, CidOf(payload), sender, chain)} ELSE {}

(* What handle_raw_message takes from a frame after the ACK: the event of  *)
(* the first item of a syncPushPackage.                                    *)
EventsOf(frame) ==
  IF frame.mentions /\ frame.items # <<>> /\ Decodes(Head(frame.items))
  THEN ParseEvent(Head(frame.items).payload) ELSE {}
------------------------------------------------------------------------------
(* build_send_message sends one text segment and nothing else.             *)
Sendable(chain) == Len(chain) = 1 /\ IsText(chain[1])

At(id) == [name |-> id, domain |-> "goofish"]

(* reply(): MessageContext and HandlerContext pass the sender as the       *)
(* target and always pass a cid, so the default for none is never used.    *)
Reply(event, chain) ==
  [cid |-> At(event.cid), receivers |-> {At(event.sender), At(MyId)},
   text |-> chain[1].text]
==============================================================================
