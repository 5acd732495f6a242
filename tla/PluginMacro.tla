------------------------------ MODULE PluginMacro ------------------------------
(***************************************************************************)
(* The attribute macro #[plugin] (fish-plugin-macros lib.rs): which        *)
(* handlers it makes of an impl block and which methods it leaves in it.   *)
(*                                                                         *)
(* A method has a name, a receiver and attributes; an attribute a path and *)
(* arguments, each a literal, `key = literal' or a bare key.  A compile    *)
(* error or a panic of the macro is the result {}.                         *)
(***************************************************************************)
EXTENDS SequenceOps

HandlerAttr(attr) == attr.path \in {"command", "message", "event"}

HandlerAttrs(method) == SelectSeq(method.attrs, HandlerAttr)

MessageKinds == {"exact", "prefix", "keyword", "regex", "fallback"}

Handler(kind, pattern) == [kind |-> kind, pattern |-> pattern]

Literal(text) == [key |-> "", value |-> text]
Bare(key) == [key |-> key, value |-> ""]
Pair(key, text) == [key |-> key, value |-> text]

Last2(args, key, default) ==
  LET at == {i \in DOMAIN args : args[i].key = key}
  IN  IF at = {} THEN default ELSE args[Max(at)].value

(* #[message("...", kind = "...")]: a literal first, then only kinds.      *)
ParseShort(args) ==
  IF \A i \in 2..Len(args) : args[i].key = "kind"
  THEN {Handler(Last2(args, "kind", "exact"), args[1].value)} ELSE {}

(* What the loop over the keys makes of one more of them.                  *)
TakeKey(route, arg) ==
  CASE arg.key = "pattern" -> Handler(route.kind, arg.value)
    [] arg.key = "keyword" -> Handler("keyword", arg.value)
    [] arg.key = "kind" -> Handler(arg.value, route.pattern)

(* #[message(key = "...", ...)] or #[message(fallback)]: `fallback' ends   *)
(* the parse, so that it must be the last, and discards what came before.  *)
ParseLong(args) ==
  LET route == FoldLeft(TakeKey, Handler("exact", ""), args)
  IN  IF Last(args).key = "fallback" /\ \A i \in 1..(Len(args) - 1) :
                                          args[i].key \in {"pattern", "keyword", "kind"}
      THEN {Handler("fallback", "")}
      ELSE IF \A i \in DOMAIN args : args[i].key \in {"pattern", "keyword", "kind"}
      THEN {r \in {route} : r.kind = "fallback" \/ r.pattern # ""}
      ELSE {}

(* parse_message_attr, and the kinds gen_message_handler supports.         *)
ParseMessageAttr(args) ==
  {r \in IF args = <<>> THEN {}
         ELSE IF Head(args).key = "" THEN ParseShort(args) ELSE ParseLong(args) :
     r.kind \in MessageKinds}

(* parse_event_attr: one literal, the event type.                          *)
ParseEventAttr(args) ==
  IF Len(args) = 1 /\ args[1].key = "" THEN {Handler("event", args[1].value)} ELSE {}

(* The handler of a method with one handler attribute.                     *)
HandlerOf(method) ==
  LET attr == Head(HandlerAttrs(method))
  IN  {[id |-> method.name, kind |-> r.kind, pattern |-> r.pattern] :
         r \in IF method.receiver \notin {"Ref", "MutRef"} THEN {}
               ELSE IF attr.path = "event" THEN ParseEventAttr(attr.args)
               ELSE ParseMessageAttr(attr.args)}

HasOne(method) == Len(HandlerAttrs(method)) = 1

(* The methods that stay.                                                  *)
Stay(block) == Kept(block, {m \in Range(block) : Len(HandlerAttrs(m)) <= 1})

(* Every choice of a handler for each of the methods.                      *)
Handlers(methods) ==
  {f \in [DOMAIN methods -> UNION {HandlerOf(m) : m \in Range(methods)}] :
     \A i \in DOMAIN methods : f[i] \in HandlerOf(methods[i])}

(* Mutant: a method is a handler if it has any handler attribute.          *)
ExpandAny(block) ==
  {[handlers |-> h, kept |-> Stay(block)] :
     h \in Handlers(Kept(block, {m \in Range(block) : HandlerAttrs(m) # <<>>}))}

(* The loop of plugin(): the handlers, and the methods that stay; a method *)
(* with several handler attributes is in neither.                          *)
Expand(block) ==
  {[handlers |-> h, kept |-> Stay(block)] :
     h \in Handlers(Kept(block, {m \in Range(block) : HasOne(m)}))}
==============================================================================
