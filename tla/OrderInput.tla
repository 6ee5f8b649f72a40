----------------------------- MODULE OrderInput -----------------------------
(***************************************************************************)
(* What order place, modify, whatif and fee-plan do before anything is     *)
(* sent (internal/cli/orders.go):                                          *)
(*   ParseOrders, ParseOrder  aliases, nulls and checks (ibkr/orders.go);  *)
(*   readAnswers              the layers of the warning answers            *)
(*                            (internal/cli/answers.go);                   *)
(*   Find                     the answer to a warning (ibkr/confirmations.go).*)
(* Go visits the entries of a map in an order of its own choice: aliases   *)
(* and answers are visited one by one, in any order.                       *)
(*                                                                         *)
(* A value is "null", "good" or "bad" (not of the type its field or answer *)
(* has).  An answer key is a number; keys are numbered in the order        *)
(* sortedKeys gives.  OrderCommand goes on from here to the broker.        *)
(***************************************************************************)
EXTENDS Integers, Sequences

CONSTANTS
  Fields,      \* names of order fields
  AliasOf,     \* function from the accepted aliases to fields
  Exclusive,   \* pairs of fields that exclude each other
  Needs,       \* pairs of a field and the field it needs
  Typed,       \* fields whose type is checked
  Priced,      \* the fields that fee-plan calculates with
  Keys,        \* answer keys
  Defaults,    \* DefaultAnswers
  Inputs       \* [array, entries, layers]: the inputs that are tried

Names == Fields \cup DOMAIN AliasOf
Values == {"absent", "null", "good", "bad"}
Answers == {"none", "yes", "no"}
Sources == {"absent", "missing", "unreadable", "malformed", "object"}

\* What ParseOrder is given that is no JSON object.
NoObject == [n \in Names |-> "malformed"]
Order == [Names -> Values] \cup {NoObject}

\* What IBKR_ORDERS_ANSWER_JSON, --answers-file or --answers-json gives.
Layers == [source : Sources, entries : [Keys -> Answers \cup {"bad"}]]
Absent == [source |-> "absent", entries |-> [k \in Keys |-> "none"]]

ASSUME KeysAssumption == Keys \subseteq Nat /\ Defaults \in [Keys -> Answers]
ASSUME NamesAssumption == \A a \in DOMAIN AliasOf : AliasOf[a] \in Fields /\ a \notin Fields
\* What is given on the command line is there, well-formed or not.
ASSUME InputAssumption == \A i \in Inputs :
  /\ i.array \in BOOLEAN /\ i.entries \in Seq(Order) /\ (~i.array => Len(i.entries) = 1)
  /\ i.layers \in Layers \X Layers \X Layers
  /\ i.layers[3].source \notin {"missing", "unreadable"}

VARIABLES
  command,   \* "place", "modify", "whatif" or "fee-plan"
  array,     \* whether the order input is a JSON array
  entries,   \* the order input
  layers,    \* the three sources of overrides
  stage,     \* where the preparation is
  index,     \* the entry, then the layer it is at
  object,    \* the order being parsed
  todo,      \* aliases or keys the loop has not visited
  parsed,    \* the orders of the request
  table      \* the answers so far

given == <<command, array, entries, layers>>
inputVars == <<given, stage, index, object, todo, parsed, table>>

\* fee-plan and whatif take no answers.
InputInit ==
  /\ \E i \in Inputs : array = i.array /\ entries = i.entries /\ layers = i.layers
  /\ \/ command \in {"place", "modify"}
     \/ command \in {"whatif", "fee-plan"} /\ layers = <<Absent, Absent, Absent>>
  /\ stage = "parse" /\ index = 1
  /\ object = NoObject /\ todo = {}
  /\ parsed = <<>> /\ table = Defaults

Refuse ==
  /\ stage' = "refused"
  /\ UNCHANGED <<given, index, object, todo, parsed, table>>

-----------------------------------------------------------------------------
(* ParseOrders and ParseOrder.                                             *)

\* No entries, no object; modify does not take an array.
Unusable ==
  /\ stage = "parse"
  /\ \/ array /\ (command = "modify" \/ entries = <<>>)
     \/ index <= Len(entries) /\ entries[index] = NoObject
  /\ Refuse

ParseEntry ==
  /\ stage = "parse"
  /\ array => command # "modify"
  /\ index <= Len(entries) /\ entries[index] # NoObject
  /\ object' = entries[index]
  /\ todo' = DOMAIN AliasOf
  /\ stage' = "alias"
  /\ UNCHANGED <<given, index, parsed, table>>

\* The bug of an alias that is null being dropped with its duplicate unseen.
ClashesUnlessNull(a) ==
  object[a] \notin {"absent", "null"} /\ object[AliasOf[a]] # "absent"

\* A field given under both of its names, whatever its values.
Clashes(a) == object[a] # "absent" /\ object[AliasOf[a]] # "absent"

DuplicateField == stage = "alias" /\ (\E a \in todo : Clashes(a)) /\ Refuse

Rename(a) ==
  /\ stage = "alias" /\ a \in todo
  /\ ~Clashes(a)
  /\ object' = IF object[a] = "absent" THEN object
              ELSE [object EXCEPT ![AliasOf[a]] = object[a], ![a] = "absent"]
  /\ todo' = todo \ {a}
  /\ UNCHANGED <<given, stage, index, parsed, table>>

\* The bug of sending nulls on.
WithNulls(o) == o

WithoutNulls(o) == [f \in Names |-> IF o[f] = "null" THEN "absent" ELSE o[f]]

\* Exclusions, strategyParameters without a strategy, strings and booleans.
Sound(o) ==
  /\ \A p \in Exclusive : o[p[1]] = "absent" \/ o[p[2]] = "absent"
  /\ \A p \in Needs : o[p[1]] # "absent" => o[p[2]] # "absent"
  /\ \A f \in Typed : o[f] # "bad"

Check ==
  /\ stage = "alias" /\ todo = {}
  /\ LET o == WithoutNulls(object)
     IN  IF Sound(o)
         THEN /\ parsed' = Append(parsed, o)
              /\ index' = index + 1
              /\ stage' = "parse"
              /\ UNCHANGED <<given, object, todo, table>>
         ELSE Refuse

\* All entries are parsed: fee-plan calculates, whatif sends, place and modify
\* go on to the answers.
Parsed ==
  /\ stage = "parse" /\ entries # <<>> /\ index > Len(entries)
  /\ IF command = "fee-plan"
     THEN stage' = IF \A i \in DOMAIN parsed : \A f \in Priced : parsed[i][f] = "good"
                THEN "planned" ELSE "refused"
     ELSE stage' = IF command = "whatif" THEN "send" ELSE "read"
  /\ index' = 1
  /\ UNCHANGED <<given, object, todo, parsed, table>>

-----------------------------------------------------------------------------
(* readAnswers.                                                            *)

\* The file that IBKR_ORDERS_ANSWER_JSON names may be missing; a file named by
\* --answers-file may not.
Skips(i) == \/ layers[i].source = "absent"
            \/ i = 1 /\ layers[i].source = "missing"

SkipLayer ==
  /\ stage = "read" /\ index <= 3 /\ Skips(index)
  /\ index' = index + 1
  /\ UNCHANGED <<given, stage, object, todo, parsed, table>>

ReadFails ==
  /\ stage = "read" /\ index <= 3 /\ ~Skips(index) /\ layers[index].source # "object"
  /\ Refuse

ReadLayer ==
  /\ stage = "read" /\ index <= 3 /\ layers[index].source = "object"
  /\ todo' = {k \in Keys : layers[index].entries[k] # "none"}
  /\ stage' = "merge"
  /\ UNCHANGED <<given, index, object, parsed, table>>

\* The bug of keeping what an earlier layer says.
OverriddenFirst(k) == IF table[k] = "none" THEN layers[index].entries[k] ELSE table[k]

Overridden(k) == layers[index].entries[k]

Merge(k) ==
  /\ stage = "merge" /\ k \in todo
  /\ layers[index].entries[k] # "bad"
  /\ table' = [table EXCEPT ![k] = Overridden(k)]
  /\ todo' = todo \ {k}
  /\ UNCHANGED <<given, stage, index, object, parsed>>

NotBoolean == stage = "merge" /\ (\E k \in todo : layers[index].entries[k] = "bad") /\ Refuse

LayerDone ==
  /\ stage = "merge" /\ todo = {}
  /\ stage' = "read"
  /\ index' = index + 1
  /\ UNCHANGED <<given, object, todo, parsed, table>>

AnswersRead ==
  /\ stage = "read" /\ index > 3
  /\ stage' = "send"
  /\ UNCHANGED <<given, index, object, todo, parsed, table>>

Prepare ==
  \/ Unusable \/ ParseEntry \/ DuplicateField \/ Check \/ Parsed
  \/ \E a \in DOMAIN AliasOf : Rename(a)
  \/ SkipLayer \/ ReadFails \/ ReadLayer \/ NotBoolean \/ LayerDone \/ AnswersRead
  \/ \E k \in Keys : Merge(k)

Preparation == InputInit /\ [][Prepare]_inputVars

-----------------------------------------------------------------------------
(* Find.                                                                   *)

\* The bug of a text that comes before the id.
CandidatesTextFirst(w) ==
  LET texts == {k \in w.texts : table[k] # "none"}
  IN  IF texts # {} THEN texts ELSE {k \in Keys : k = w.id /\ table[k] # "none"}

\* The keys that answer a warning [id, texts]: its id, or else the texts that its
\* message contains.
Candidates(w) ==
  LET byId == {k \in Keys : k = w.id /\ table[k] # "none"}
  IN  IF byId # {} THEN byId ELSE {k \in w.texts : table[k] # "none"}

\* The first candidate in the order of sortedKeys decides.
Find(w) ==
  IF Candidates(w) = {} THEN "none"
  ELSE table[CHOOSE k \in Candidates(w) : \A l \in Candidates(w) : k <= l]

-----------------------------------------------------------------------------
(* Properties.                                                             *)

\* Type invariant; a parsed order has neither nulls nor aliases.
InputOK ==
  /\ command \in {"place", "modify", "whatif", "fee-plan"} /\ array \in BOOLEAN
  /\ entries \in Seq(Order)
  /\ layers \in Layers \X Layers \X Layers
  /\ stage \in {"parse", "alias", "read", "merge", "planned", "send", "sent", "refused"}
  /\ index \in 1 .. Len(entries) + 4
  /\ object \in Order
  /\ stage = "alias" => todo \subseteq DOMAIN AliasOf
  /\ stage = "merge" => todo \subseteq Keys
  /\ parsed \in Seq({o \in [Names -> Values \ {"null"}] :
                       \A a \in DOMAIN AliasOf : o[a] = "absent"})
  /\ table \in [Keys -> Answers]

\* The one value a field is given under any of its names.
Spellings(o, f) == {m \in Names : (m = f \/ (m \notin Fields /\ AliasOf[m] = f)) /\ o[m] # "absent"}
Value(o, f) == IF \E m \in Spellings(o, f) : o[m] # "null"
               THEN o[CHOOSE m \in Spellings(o, f) : o[m] # "null"] ELSE "absent"
Plain(o) == [m \in Names |-> IF m \in Fields THEN Value(o, m) ELSE "absent"]

GoodOrder(o) ==
  /\ o # NoObject
  /\ \A f \in Fields : \A l, m \in Spellings(o, f) : l = m
  /\ Sound(Plain(o))

GoodOrders ==
  /\ \A i \in DOMAIN entries : GoodOrder(entries[i])
  /\ array => entries # <<>> /\ command # "modify"
  /\ command = "fee-plan" => \A i \in DOMAIN entries : \A f \in Priced : Plain(entries[i])[f] = "good"

GoodLayer(i) ==
  Skips(i) \/ (layers[i].source = "object" /\ \A k \in Keys : layers[i].entries[k] # "bad")

\* README.md:143: later layers override duplicate keys.
Layered(k) ==
  LET having == {i \in 1 .. 3 : layers[i].source = "object" /\ layers[i].entries[k] # "none"}
  IN  IF having = {} THEN Defaults[k]
      ELSE layers[CHOOSE i \in having : \A j \in having : j <= i].entries[k]

\* Whatever order Go visits the aliases and the answers in, the outcome is the
\* same: an input is refused exactly if it is faulty, before anything is sent,
\* and otherwise each field has the value it was given under either name and
\* each answer is that of the last layer that has it (orders.go:34-72,
\* answers.go:10-55).
PreparationIsDeterministic ==
  /\ stage = "refused" => ~GoodOrders \/ \E i \in 1 .. 3 : ~GoodLayer(i)
  /\ stage \in {"planned", "send", "sent"} =>
       /\ GoodOrders /\ \A i \in 1 .. 3 : GoodLayer(i)
       /\ parsed = [i \in DOMAIN entries |-> Plain(entries[i])]
       /\ table = [k \in Keys |-> Layered(k)]

=============================================================================
