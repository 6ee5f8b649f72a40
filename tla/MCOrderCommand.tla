--------------------------- MODULE MCOrderCommand ---------------------------
(* Two aliases, one exclusion and one field that needs another; a text key,  *)
(* the id and the text of a default.                                         *)
EXTENDS OrderCommand

MCFields == {"quantity", "cashQty", "strategy", "strategyParameters"}
MCAliasOf == [m \in {"cash_qty", "strategy_parameters"} |->
                IF m = "cash_qty" THEN "cashQty" ELSE "strategyParameters"]
MCExclusive == {<<"quantity", "cashQty">>}
MCNeeds == {<<"strategyParameters", "strategy">>}
MCTyped == {"strategy"}
MCPriced == {"quantity"}

MCOrders == {o \in [Names -> Values] : \A m \in Names : o[m] = "bad" => m \in MCTyped}
            \cup {NoObject}

Only(m, v) == [o \in Names |-> IF o = m THEN v ELSE "absent"]
Samples == {Only("quantity", "good"), Only("cash_qty", "good"), NoObject}
MCArrays == {<<>>} \cup {<<a>> : a \in Samples} \cup {<<a, b>> : a, b \in Samples}

MCKeys == 1 .. 3
MCDefaults == [k \in MCKeys |-> IF k = 1 THEN "none" ELSE "yes"]
MCWarnings == {[id |-> 2, texts |-> {1, 3}], [id |-> 9, texts |-> {1, 3}],
               [id |-> 9, texts |-> {1}]}
MCFiles ==
  [source : {"object"}, entries : {e \in [MCKeys -> Answers] : e[3] = "none"}]
  \cup [source : {"object"}, entries : {[k \in MCKeys |-> IF k = 1 THEN "yes" ELSE "bad"]}]
  \cup [source : Sources \ {"object"}, entries : {Absent.entries}]
MCInline == {f \in MCFiles : f.source \notin {"missing", "unreadable"}}

\* Every order and array without answers; one order with all the answers.
MCInputs ==
  [array : {FALSE}, entries : {<<o>> : o \in MCOrders}, layers : {<<Absent, Absent, Absent>>}]
  \cup [array : {TRUE}, entries : MCArrays, layers : {<<Absent, Absent, Absent>>}]
  \cup [array : {FALSE}, entries : {<<Only("quantity", "good")>>},
        layers : MCFiles \X MCFiles \X MCInline]

=============================================================================
