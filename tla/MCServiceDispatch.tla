--------------------------- MODULE MCServiceDispatch ---------------------------
(* An instance of the contract Combat.Player served under the runtime name
   Combat.Player.p6: one call of every kind, next to a call that is well-formed. *)
EXTENDS ServiceDispatch

Both     == {"c1", "c2"}
Runtime  == <<"Combat", "Player", "p6">>
Player   == <<"Combat", "Player">>
Known    == {Player}
Methods  == {"hit", "watch", "close"}       \* "close" is MessageService's own
Taken    == {"init"}                        \* a member of ServiceProxy
Watching == {"watch"}
Written  == {"hit", "watch", "secret"}      \* "secret" is not declared

Proxies(methods) ==
  [by : {"proxy"}, knows : {Known}, declares : {Methods}, method : methods,
   fits : {TRUE}, rpc : {TRUE}, reads : {TRUE}]

\* Callers of another schema, of what is not there, and without a reply.
OddProxies ==
  [by : {"proxy"}, knows : {{}, {Runtime}}, declares : {Methods, Methods \cup Taken}, method : {"hit"},
   fits : {TRUE}, rpc : {TRUE}, reads : {TRUE}]
  \cup [by : {"proxy"}, knows : {Known}, declares : {Methods}, method : {"hit", "watch"},
        fits : BOOLEAN, rpc : {TRUE}, reads : {FALSE}]
  \cup [by : {"proxy"}, knows : {Known}, declares : {Methods}, method : {"hit", "close"},
        fits : {TRUE}, rpc : BOOLEAN, reads : {TRUE}]

\* A key that fits or not, over a body that agrees with it or not.
Raw ==
  [by : {"raw"}, key : {<<"REQUEST">> \o Runtime \o <<m>> : m \in {"hit", "secret"}}
                       \cup {<<"REQUEST", "Combat", "Player", "p7", "hit">>, Runtime},
   envelope : {Player \o <<"hit">>, Player \o <<"secret">>, Runtime \o <<"hit">>, <<"hit">>, Garbage},
   fits : {TRUE}, rpc : {TRUE}, reads : {TRUE}]
  \cup [by : {"raw"}, key : {<<"REQUEST">> \o Runtime \o <<"watch">>}, envelope : {Player \o <<"watch">>},
        fits : BOOLEAN, rpc : {FALSE}, reads : {TRUE}]

AnySend == [c \in Both |-> IF c = "c1" THEN Proxies({"hit", "watch"}) \cup OddProxies \cup Raw
                            ELSE Proxies({"hit"})]

================================================================================
