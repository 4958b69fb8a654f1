----------------------------- MODULE MCEventRouting -----------------------------
(* Two services of one process hear a publisher.  Its schemas and theirs come from
   directories that hold the same files under other names, a cycle among them. *)
EXTENDS EventRouting

Shop  == <<"shop">>
Order == <<"shop", "v1", "Order">>
Money == <<"shop", "Money">>
Inner == <<"shop", "v1", "Money">>     \* hides Money from shop.v1
Price == <<"shop", "Price">>
In(scope, name) == [name |-> <<name>>, scope |-> scope]

TheTexts == {"order", "money", "inner", "price", "chicken", "egg"}
TheSchema ==
  [t \in TheTexts |->
    CASE t = "order"   -> [types |-> {Order}, services |-> {}, references |-> {In(Order, "Money")}]
      [] t = "money"   -> [types |-> {Money}, services |-> {}, references |-> {}]
      [] t = "inner"   -> [types |-> {Inner}, services |-> {<<"shop", "Till">>}, references |-> {In(Inner, "Money")}]
      [] t = "price"   -> [types |-> {Price}, services |-> {<<"shop", "Prices">>},
                           references |-> {In(Price, "decimal"), In(<<>>, "decimal")}]
      [] t = "chicken" -> [types |-> {<<"Chicken">>}, services |-> {}, references |-> {In(<<>>, "Egg")}]
      [] t = "egg"     -> [types |-> {<<"Egg">>}, services |-> {}, references |-> {In(<<>>, "Chicken")}]]

TheLocations ==
  {<<"order", "money">>, <<"money", "order">>, <<"order", "money", "order">>,
   <<"inner", "order", "money">>, <<"money", "order", "inner">>,
   <<"order", "price", "money">>, <<"chicken", "order", "money", "egg">>}

Sale(by, key, topic) == [by |-> by, key |-> <<"sale", key>>, topic |-> <<"sale", topic>>, type |-> Order]
ThePublished ==
  {Sale("dispatcher", "eu", "eu"), Sale("raw", "us", "eu"),
   [by |-> "raw", key |-> <<"sale", "eu">>, topic |-> <<"sale", "eu">>, type |-> Price],
   [by |-> "raw", key |-> <<>>, topic |-> <<"sale", "eu">>, type |-> Order],
   [by |-> "raw", key |-> <<>>, topic |-> <<>>, type |-> Order]}

Sub(pattern, handler) == [pattern |-> pattern, handler |-> handler, all |-> FALSE]
TheSubscriptions ==
  [s \in {"till", "audit"} |->
    IF s = "till" THEN <<Sub(<<"*", "eu">>, "count"), Sub(<<"#">>, "ship")>>
    ELSE <<[pattern |-> <<"#">>, handler |-> "log", all |-> TRUE]>>]

TheServices  == {"till", "audit"}
TheReplicas  == {"till1", "audit1"}
TheServiceOf == [r \in TheReplicas |-> IF r = "audit1" THEN "audit" ELSE "till"]
TheFactories == {"publisher", "subscriber"}
TheFactoryOf == [r \in TheReplicas |-> "subscriber"]
TheDeployments == {[f \in TheFactories |-> {"order", "money"}]}
TheRetries   == [s \in TheServices |-> IF s = "till" THEN 1 ELSE 0]

TheWords == {"sale", "eu", "us", "a", "b", "*", "#"}

\* Every table of two routes of at most three words, by topics of as many.
Phrases(S) == UNION {[1..n -> S] : n \in 1..3}
TheTables == {<<[pattern |-> p, handler |-> "h1"], [pattern |-> q, handler |-> h]>> :
                p \in Phrases({"a", "*", "#"}), q \in Phrases({"a", "*", "#"}), h \in {"h1", "h2"}}
TheTopics == Phrases({"a", "b"})

================================================================================
