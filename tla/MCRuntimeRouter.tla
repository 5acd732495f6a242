--------------------------- MODULE MCRuntimeRouter ---------------------------
(* RuntimeRouter with two plugins, three texts and four handler layouts.   *)
EXTENDS RuntimeRouter

(* "ping" is a whole message, a prefix of "ping x" and contained in both;  *)
(* " ping" is trimmed to it but does not start with it.                    *)
Text(trimmed, starts, has) == [trimmed |-> trimmed, starts |-> starts, has |-> has]
Ping == Text("ping", {"ping"}, {"ping", "in"})
PaddedPing == Text("ping", {}, {"ping", "in"})
PingX == Text("ping x", {"ping"}, {"ping", "in", "x"})
MCTexts == {Ping, PaddedPing, PingX}

Plugin(messages, events) == [messages |-> messages, events |-> events]
Event(id, type) == [id |-> id, type |-> type]

(* A type's path and last segment; "PING" and "Ping" have one id.          *)
Type(path, name) == [path |-> path, name |-> name]
Ids == [Ping |-> "ping", PING |-> "ping", OrderPaid |-> "order_paid", Any |-> "any",
        Hit |-> "hit", Look |-> "look"]
SnakeCase(name) == Ids[name]

(* One route per handler, as the macros and the builder make them; the     *)
(* last two with the builder and with a rule put together by hand.         *)
SinglePatterns == {
  << Plugin(<<Exact("a", <<"ping">>), Keyword("b", <<"in">>), Regex("c", {PingX})>>,
            <<Event("e", "order")>>),
     Plugin(<<Prefix("a", <<"ping">>), Fallback("b")>>, <<>>) >>,
  << Plugin(<<Prefix("p", <<"ping">>), Keyword("q", <<"x">>)>>, <<>>),
     Plugin(<<Exact("a", <<"ping x">>)>>,
            <<Event("e", "order"), Event("f", "order")>>) >>,
  << Plugin(CompiledMessageHandlers(
              <<On("exact", "ping", Type("chat", "Ping")),
                On("prefix", "ping", Type("chat", "OrderPaid")),
                On("keyword", "x", Type("chat", "Hit")),
                On("regex", {PaddedPing}, Type("chat", "Look")),
                On("fallback", "", Type("chat", "Any"))>>),
            CompiledEventHandlers(<<OnEvent("order", Type("chat", "OrderPaid"))>>)),
     Plugin(<<Handler("a", "regex", <<>>,
                      And(IsStartswith(<<"ping">>),
                          Or(IsKeywords(<<"x">>), IsFullmatch(<<"pong">>))))>>, <<>>) >>}

ASSUME SinglePatternsAreRegular == \A config \in SinglePatterns : Regular(config)

(* Two types with one id make a layout that is not.                        *)
SharedIds == {
  << Plugin(CompiledMessageHandlers(
              <<On("exact", "ping", Type("chat", "Ping")), On("prefix", "ping", t)>>), <<>>),
     Plugin(<<>>, <<>>) >> : t \in {Type("admin", "Ping"), Type("chat", "PING")}}

ASSUME SharedIdsAreIrregular == \A config \in SharedIds : ~Regular(config)

(* A handler with two keywords, as MessageHandler::keyword accepts.        *)
TwoKeywords == {
  << Plugin(<<Keyword("a", <<"ping", "x">>)>>, <<>>), Plugin(<<Fallback("b")>>, <<>>) >>}
==============================================================================
