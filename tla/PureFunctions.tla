---------------------------- MODULE PureFunctions ----------------------------
(***************************************************************************)
(* The pure algorithms of Base64, MsgPack and PluginMacro.  A state is one *)
(* input; the steps add noise to a payload's text or take padding from it, *)
(* cut a packed message short or let other bytes follow it, and write one  *)
(* more method into an impl block.                                         *)
(***************************************************************************)
EXTENDS MsgPack, PluginMacro

CONSTANTS
  Payloads, \* the bytes that are sent as base64
  Noise,    \* characters outside the alphabet
  Messages, \* values, each with all the bytes it may be packed as
  Trailing, \* bytes that may follow a message
  Methods,  \* the methods an impl block may have
  MaxNoise, MaxMethods

ASSUME PureAssumption ==
  /\ Payloads \subseteq Seq(0..255) /\ Noise \cap Alphabet = {}
  /\ MaxNoise \in Nat /\ MaxMethods \in Nat /\ Trailing \subseteq 0..255

(* A message is one value: what is decoded of it leaves nothing over.      *)
ASSUME MessageAssumption ==
  \A m \in Messages : \A bytes \in m.encodings :
    bytes \in Seq(0..255) /\ \A r \in DecodeValue(bytes) : r.rest = <<>>

VARIABLE probe
------------------------------------------------------------------------------
Text(bytes, raw, noise) == [what |-> "text", bytes |-> bytes, raw |-> raw, noise |-> noise]

Pack(value, bytes, state) ==
  [what |-> "pack", value |-> value, bytes |-> bytes, state |-> state]

Block(methods) == [what |-> "block", methods |-> methods]

Init ==
  \/ \E b \in Payloads : probe = Text(b, Encode64(b), 0)
  \/ \E m \in Messages : \E b \in m.encodings : probe = Pack(m.value, b, "whole")
  \/ probe = Block(<<>>)

AddNoise(c) ==
  /\ probe.what = "text" /\ probe.noise < MaxNoise
  /\ \E i \in 1..(Len(probe.raw) + 1) :
       probe' = Text(probe.bytes, InsertAt(probe.raw, i, c), probe.noise + 1)

Unpad ==
  /\ probe.what = "text" /\ probe.raw # <<>> /\ Last(probe.raw) = Equals
  /\ probe' = Text(probe.bytes, Front(probe.raw), probe.noise)

Cut ==
  /\ probe.what = "pack" /\ probe.state # "followed" /\ probe.bytes # <<>>
  /\ probe' = Pack(probe.value, Front(probe.bytes), "cut")

Follow(byte) ==
  /\ probe.what = "pack" /\ probe.state = "whole"
  /\ probe' = Pack(probe.value, Append(probe.bytes, byte), "followed")

AddMethod(method) ==
  /\ probe.what = "block" /\ Len(probe.methods) < MaxMethods
  /\ probe' = Block(Append(probe.methods, method))

Next ==
  \/ Unpad
  \/ Cut
  \/ \E byte \in Trailing : Follow(byte)
  \/ \E c \in Noise : AddNoise(c)
  \/ \E method \in Methods : AddMethod(method)

Spec == Init /\ [][Next]_probe
------------------------------------------------------------------------------
(* The payload survives line breaks and other noise anywhere in its base64 *)
(* and the loss of its padding (sign.rs 50-65).                            *)
CleanRecovers == probe.what = "text" => DecodePayload(probe.raw) = {probe.bytes}

(* A payload that was cut short anywhere is rejected: no prefix of an      *)
(* encoding passes for a smaller message (sign.rs 158-218).                *)
PrefixRejected ==
  probe.what = "pack" /\ probe.state = "cut" => Decode(probe.bytes) = {}

(* If an impl block compiles, its handlers call methods that are left in   *)
(* it, with a receiver they can lock the state for, and no two have one    *)
(* id: the index of a macro-made plugin never hides one of its handlers    *)
(* (lib.rs 69-145; actor.rs 40-47 keeps the last of two with one id).      *)
HandlersCallMethods ==
  probe.what = "block" =>
    \A e \in Expand(probe.methods) :
      LET names == [i \in DOMAIN e.kept |-> e.kept[i].name]
          ids == [i \in DOMAIN e.handlers |-> e.handlers[i].id]
      IN  /\ \A i \in DOMAIN ids :
               \E m \in Range(e.kept) : m.name = ids[i] /\ m.receiver \in {"Ref", "MutRef"}
          /\ IsInjective(names) => IsInjective(ids)
==============================================================================
