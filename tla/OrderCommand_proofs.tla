------------------------- MODULE OrderCommand_proofs ------------------------
(***************************************************************************)
(* Proofs about OrderReplies, OrderInput and their composition, for every  *)
(* set of warnings, every order and array, every answers file and every    *)
(* bound on replies and messages.                                          *)
(***************************************************************************)
EXTENDS OrderCommand, SequenceTheorems, WellFoundedInduction, TLAPS

-----------------------------------------------------------------------------
(* The dialogue with the broker: OrderReplies.                             *)

\* A decision to confirm is about the response at hand.
DecisionIsFresh ==
  pc = "confirm" =>
    /\ response.id \in approved
    /\ mode = "auto" => answers[response.messages[1]] = "accept"

\* The decision at hand and those already sent.
ReplyInv == DecisionIsFresh /\ ConfirmedWereDecided

\* What the command knows of the order wherever it is.
OrderIsKnown ==
  /\ pc \in {"review", "submit"} => order = "none" /\ exit = "running"
  /\ pc \in {"loop", "confirm", "decline"} =>
       /\ exit = "running"
       /\ response.kind = "prompt" => order = "asking"
       /\ response.kind = "final" => order = "placed"
  /\ pc \in {"confirm", "decline"} => response.kind = "prompt"
  /\ pc = "decline" => mode = "vwap"
  /\ pc = "write" =>
       exit = "running" /\ (order = "placed" \/ (mode = "vwap" /\ order = "refused"))

\* What the command knows of the order, and what its exit status says of it.
OutcomeInv == OrderIsKnown /\ SuccessIsSettled /\ LiveAfterFailure

-----------------------------------------------------------------------------
\* Steps that leave the confirmations, the approvals and the tables alone, and
\* do not arrive at a confirmation.
LEMMA QuietKeepsReplyInv ==
  ASSUME ReplyInv, UNCHANGED <<mode, answers, approved, confirmed>>,
         pc' # "confirm"
  PROVE  ReplyInv'
BY DEF ReplyInv, DecisionIsFresh, ConfirmedWereDecided

\* No step of the dialogue makes a stale decision.
LEMMA ReplyStep == ReplyInv /\ [Next]_vars => ReplyInv'
<1> SUFFICES ASSUME ReplyInv, [Next]_vars
             PROVE  ReplyInv'
  OBVIOUS
<1>1. CASE Review
  BY <1>1, QuietKeepsReplyInv DEF Review, Proceed, GiveUp
<1>2. CASE Submit
  BY <1>2, QuietKeepsReplyInv DEF Submit, Request
<1>3. CASE Limit \/ Finish \/ Unreadable \/ Write
  BY <1>3, QuietKeepsReplyInv
     DEF Limit, Finish, Unreadable, Write, Proceed, GiveUp
<1>4. CASE AutoAccept
  BY <1>4 DEF AutoAccept, Approve, Verdict, ReplyInv, DecisionIsFresh,
              ConfirmedWereDecided
<1>5. CASE OperatorYes
  BY <1>5 DEF OperatorYes, Approve, ReplyInv, DecisionIsFresh,
              ConfirmedWereDecided
<1>6. CASE AutoReject \/ AutoUnknown \/ OperatorNo \/ OperatorGone
  BY <1>6, QuietKeepsReplyInv
     DEF AutoReject, AutoUnknown, OperatorNo, OperatorGone, Proceed, GiveUp
<1>7. CASE ReplyTrue
  <2>1. /\ UNCHANGED <<mode, answers, approved>> /\ pc' # "confirm"
        /\ confirmed' \in {confirmed, confirmed \cup {response}}
    BY <1>7 DEF ReplyTrue, Request
  <2>2. /\ response.id \in approved
        /\ mode = "auto" => answers[response.messages[1]] = "accept"
    BY <1>7 DEF ReplyTrue, ReplyInv, DecisionIsFresh
  <2> QED
    BY <2>1, <2>2 DEF ReplyInv, DecisionIsFresh, ConfirmedWereDecided
<1>8. CASE ReplyFalse
  BY <1>8, QuietKeepsReplyInv DEF ReplyFalse, Request
<1>9. CASE UNCHANGED vars
  BY <1>9 DEF vars, ReplyInv, DecisionIsFresh, ConfirmedWereDecided
<1> QED
  BY <1>1, <1>2, <1>3, <1>4, <1>5, <1>6, <1>7, <1>8, <1>9
     DEF Next, Operator, Program

\* Every confirmation IBKR receives was decided for that very prompt, and in
\* order place and modify its first message has the answer true
\* (confirmations.go:98-105, vwap.go:65-69).
THEOREM RepliesAreDecided == Spec => []ConfirmedWereDecided
<1>1. Init => ReplyInv
  BY DEF Init, ReplyInv, DecisionIsFresh, ConfirmedWereDecided
<1>2. ReplyInv => ConfirmedWereDecided
  BY DEF ReplyInv
<1> QED
  BY <1>1, <1>2, ReplyStep, PTL DEF Spec

-----------------------------------------------------------------------------
\* What a turn of the broker tells about the order.
LEMMA TurnsAreFaithful ==
  ASSUME NEW n, NEW t \in Turns(n)
  PROVE  /\ t.response.kind = "prompt" => t.order = "asking"
         /\ t.response.kind = "final" => t.order = "placed"
BY DEF Turns, Final, Unexpected, Prompt

\* Every step of the dialogue keeps what the command knows of the order.
LEMMA OutcomeStep == OutcomeInv /\ [Next]_vars => OutcomeInv'
<1> USE DEF Failed, Reasons
<1> SUFFICES ASSUME OutcomeInv, [Next]_vars
             PROVE  OutcomeInv'
  OBVIOUS
<1> USE DEF OutcomeInv, OrderIsKnown, SuccessIsSettled, LiveAfterFailure,
            Proceed, GiveUp, Received
<1>1. CASE Review
  BY <1>1 DEF Review
<1>2. CASE Limit \/ Finish \/ Unreadable
  BY <1>2 DEF Limit, Finish, Unreadable
<1>3. CASE AutoAccept \/ OperatorYes
  BY <1>3 DEF AutoAccept, OperatorYes, Approve
<1>4. CASE AutoReject \/ AutoUnknown \/ OperatorNo \/ OperatorGone
  BY <1>4 DEF AutoReject, AutoUnknown, OperatorNo, OperatorGone
<1>5. CASE Write
  BY <1>5 DEF Write
<1>6. ASSUME NEW n, NEW sent, Request(Turns(n), "loop", sent),
             pc \in {"submit", "confirm"}
      PROVE  OutcomeInv'
  <2>1. CASE pc' = "loop"
    <3>1. PICK t \in Turns(n) :
            order' = t.order /\ response' = t.response /\ exit' = exit
      BY <1>6, <2>1 DEF Request
    <3> QED
      BY <1>6, <2>1, <3>1, TurnsAreFaithful
  <2>2. CASE pc' # "loop"
    BY <1>6, <2>2 DEF Request
  <2> QED
    BY <2>1, <2>2
<1>7. CASE Submit
  BY <1>7, <1>6 DEF Submit
<1>8. CASE ReplyTrue
  BY <1>8, <1>6 DEF ReplyTrue
<1>9. CASE ReplyFalse
  BY <1>9 DEF ReplyFalse, Request, Declined
<1>10. CASE UNCHANGED vars
  BY <1>10 DEF vars
<1> QED
  BY <1>1, <1>2, <1>3, <1>4, <1>5, <1>7, <1>8, <1>9, <1>10
     DEF Next, Operator, Program

\* What the command knows of the order, and with it what the exit status says
\* of it, holds throughout.
LEMMA OutcomeIsInvariant == Spec => []OutcomeInv
<1> USE DEF Failed, Reasons
<1>1. Init => OutcomeInv
  BY DEF Init, Nothing, OutcomeInv, OrderIsKnown, SuccessIsSettled,
         LiveAfterFailure
<1> QED
  BY <1>1, OutcomeStep, PTL DEF Spec

\* Success leaves no question open at the broker: the exit status of
\* orders.go:147 and vwap.go:77 is 0 only for a settled order.
THEOREM SuccessSettles == Spec => []SuccessIsSettled
<1>1. OutcomeInv => SuccessIsSettled
  BY DEF OutcomeInv
<1> QED
  BY <1>1, OutcomeIsInvariant, PTL

\* A live order after a failure is never one that failed for its warnings
\* (confirmations.go:90-112, vwap.go:57-76).
THEOREM FailureExplained == Spec => []LiveAfterFailure
<1>1. OutcomeInv => LiveAfterFailure
  BY DEF OutcomeInv
<1> QED
  BY <1>1, OutcomeIsInvariant, PTL

-----------------------------------------------------------------------------
Prompts == {Prompt(n, m) : n \in 1 .. MaxReplies + 1, m \in Messages}
Responses == {Nothing, Final, Unexpected} \cup Prompts

\* The prompt in hand follows the replies counted so far.
PromptIsNext ==
  /\ pc \in {"loop", "confirm", "decline"} =>
       (response.kind = "prompt" => response.id = count + 1)
  /\ pc \in {"confirm", "decline"} => count < MaxReplies /\ response.kind = "prompt"
  /\ pc = "submit" \/ pc = "review" => count = 0

\* Types and the count of replies.
BoundInv == TypeOK /\ PromptIsNext

\* A prompt among the responses has an id in the bound and messages.
LEMMA PromptFields ==
  ASSUME NEW r \in Responses, r.kind = "prompt"
  PROVE  /\ r \in Prompts
         /\ r.id \in 1 .. MaxReplies + 1 /\ r = Prompt(r.id, r.messages)
         /\ r.messages \in Messages
<1>1. r \in Prompts
  BY DEF Responses, Nothing, Final, Unexpected
<1>2. PICK n \in 1 .. MaxReplies + 1, m \in Messages : r = Prompt(n, m)
  BY <1>1 DEF Prompts
<1> QED
  BY <1>1, <1>2 DEF Prompt

\* A turn of the broker stays in the types, and its prompt has the id asked for.
LEMMA TurnsAreTyped ==
  ASSUME NEW n \in 1 .. MaxReplies + 1, NEW t \in Turns(n)
  PROVE  /\ t.order \in {"asking", "placed", "refused"}
         /\ t.response \in Responses
         /\ t.response.kind = "prompt" => t.response.id = n
BY DEF Turns, Responses, Prompts, Prompt, Final, Unexpected

\* Every step of the dialogue keeps the types and the bound on the replies.
LEMMA BoundStep == BoundInv /\ [Next]_vars => BoundInv'
<1> USE MaxRepliesAssumption
<1> USE DEF BoundInv
<1> SUFFICES ASSUME BoundInv, [Next]_vars
             PROVE  BoundInv'
  OBVIOUS
<1>0. response \in Responses
  BY DEF TypeOK, Responses, Prompts
<1>a. ASSUME NEW next \in {"submit", "write"}, Proceed(next),
             next = "submit" => pc = "review"
      PROVE  BoundInv'
  BY <1>a DEF Proceed, TypeOK, PromptIsNext
<1>b. ASSUME NEW reason \in Reasons, GiveUp(reason)
      PROVE  BoundInv'
  BY <1>b DEF GiveUp, TypeOK, PromptIsNext
<1>1. CASE Review \/ Limit \/ Finish \/ Unreadable \/ AutoReject \/ AutoUnknown
           \/ OperatorGone
  BY <1>1, <1>a, <1>b DEF Review, Limit, Finish, Unreadable, AutoReject, AutoUnknown,
                          OperatorGone, Reasons
<1>2. CASE OperatorNo
  BY <1>2 DEF OperatorNo, Received, LoopOpen, Proceed, TypeOK, PromptIsNext
<1>3. CASE AutoAccept \/ OperatorYes
  <2>1. pc = "loop" /\ count < MaxReplies /\ response.kind = "prompt" /\ Approve
    BY <1>3 DEF AutoAccept, OperatorYes, Received, LoopOpen
  <2>2. response.id = count + 1 /\ response.id \in 1 .. MaxReplies
    BY <2>1 DEF TypeOK, PromptIsNext
  <2> QED
    BY <2>1, <2>2 DEF Approve, TypeOK, PromptIsNext
<1>4. ASSUME NEW n \in 1 .. MaxReplies + 1, NEW sent, Request(Turns(n), "loop", sent),
             \A c \in sent : c \in {Prompt(i, m) : i \in 1 .. MaxReplies, m \in Messages},
             count' \in 0 .. MaxReplies, n = count' + 1
      PROVE  BoundInv'
  <2>1. CASE \E t \in Turns(n) : /\ order' = t.order /\ response' = t.response
                                /\ pc' = "loop" /\ UNCHANGED exit
    <3>1. PICK t \in Turns(n) : /\ order' = t.order /\ response' = t.response
                               /\ pc' = "loop" /\ UNCHANGED exit
      BY <2>1
    <3>2. /\ order' \in {"asking", "placed", "refused"}
          /\ response' \in Responses
          /\ response'.kind = "prompt" => response'.id = n
      BY <3>1, TurnsAreTyped
    <3>3. UNCHANGED <<mode, answers, approved>> /\ confirmed' \in {confirmed, sent}
      BY <1>4 DEF Request
    <3>4. TypeOK'
      BY <1>4, <3>1, <3>2, <3>3 DEF TypeOK, Responses, Prompts
    <3> QED
      BY <1>4, <3>1, <3>2, <3>4 DEF PromptIsNext
  <2>2. CASE /\ pc' = "done" /\ exit' = "transport" /\ UNCHANGED response
             /\ order' \in {"none", "asking", "placed", "refused"}
    BY <1>4, <2>2 DEF Request, TypeOK, PromptIsNext, Reasons
  <2> QED
    BY <1>4, <2>1, <2>2, TurnsAreTyped DEF Request, TypeOK
<1>5. CASE Submit
  <2>1. Request(Turns(1), "loop", confirmed) /\ count' = 0
    BY <1>5 DEF Submit, PromptIsNext
  <2> QED
    BY <1>4, <2>1 DEF TypeOK
<1>6. CASE ReplyTrue
  <2>1. /\ Request(Turns(count + 2), "loop", confirmed \cup {response})
        /\ pc = "confirm" /\ count' = count + 1
    BY <1>6 DEF ReplyTrue
  <2>2. count < MaxReplies /\ response.kind = "prompt" /\ response.id = count + 1
    BY <2>1 DEF PromptIsNext
  <2>3. /\ count \in 0 .. MaxReplies - 1
        /\ count + 2 \in 1 .. MaxReplies + 1 /\ count' \in 0 .. MaxReplies
        /\ count + 2 = count' + 1
    BY <2>1, <2>2 DEF TypeOK
  <2>4. response \in {Prompt(i, m) : i \in 1 .. MaxReplies, m \in Messages}
    <3>1. response = Prompt(count + 1, response.messages) /\ response.messages \in Messages
      BY <1>0, <2>2, PromptFields
    <3>2. count + 1 \in 1 .. MaxReplies
      BY <2>3
    <3> QED
      BY <3>1, <3>2
  <2>5. \A c \in confirmed \cup {response} :
           c \in {Prompt(i, m) : i \in 1 .. MaxReplies, m \in Messages}
    BY <2>4 DEF TypeOK
  <2> QED
    BY <1>4, <2>1, <2>3, <2>5
<1>7. CASE ReplyFalse
  BY <1>7 DEF ReplyFalse, Request, Declined, TypeOK, PromptIsNext, Reasons, Final,
              Unexpected
<1>8. CASE Write
  BY <1>8 DEF Write, TypeOK, PromptIsNext, Reasons
<1>9. CASE UNCHANGED vars
  BY <1>9 DEF vars, TypeOK, PromptIsNext
<1> QED
  BY <1>1, <1>2, <1>3, <1>5, <1>6, <1>7, <1>8, <1>9 DEF Next, Operator, Program

\* The command's variables keep their types, and its replies stay within
\* --max-replies: the loops of confirmations.go:90 and vwap.go:57 count each
\* reply before the next response is read.
THEOREM RepliesAreBounded == Spec => []TypeOK
<1>1. Init => BoundInv
  BY MaxRepliesAssumption DEF Init, BoundInv, TypeOK, PromptIsNext, Nothing, Verdicts
<1>2. BoundInv => TypeOK
  BY DEF BoundInv
<1> QED
  BY <1>1, <1>2, BoundStep, PTL DEF Spec

-----------------------------------------------------------------------------
(* What is prepared: OrderInput.                                           *)

\* The loop over the aliases: an alias that it has visited is gone, and a field
\* has the value of the one spelling among those visited, itself included.
RenamedSoFar ==
  LET e == entries[index] IN
  /\ object \in [Names -> Values]
  /\ \A a \in DOMAIN AliasOf : object[a] = IF a \in todo THEN e[a] ELSE "absent"
  /\ \A f \in Fields :
       /\ Spellings(e, f) \subseteq todo => object[f] = "absent"
       /\ \A m \in Spellings(e, f) \ todo :
            object[f] = e[m] /\ \A l \in Spellings(e, f) \ todo : l = m

\* The first m entries are good and parsed.
ParsedSoFar(m) ==
  /\ Len(parsed) = m
  /\ \A i \in 1 .. m : GoodOrder(entries[i]) /\ parsed[i] = Plain(entries[i])

\* While entries are parsed, those before the current one are; afterwards all are.
ParsingInv ==
  /\ stage \in {"parse", "alias"} =>
       /\ index \in 1 .. Len(entries) + 1
       /\ ParsedSoFar(index - 1)
       /\ table = Defaults
       /\ index > 1 /\ array => command # "modify"
  /\ stage = "alias" =>
       /\ index <= Len(entries) /\ entries[index] # NoObject
       /\ array => command # "modify"
       /\ RenamedSoFar
  /\ stage \in {"read", "merge", "planned", "send", "sent"} =>
       ParsedSoFar(Len(entries)) /\ GoodOrders

\* Aliases are names that are no fields, and stand for fields.
LEMMA AliasesApart ==
  /\ Fields \subseteq Names
  /\ \A a \in DOMAIN AliasOf : a \in Names \ Fields /\ AliasOf[a] \in Fields
  /\ \A m \in Names \ Fields : m \in DOMAIN AliasOf
BY NamesAssumption DEF Names

\* An entry that is an object gives each name a value.
LEMMA ObjectsHaveValues ==
  ASSUME InputOK, NEW i \in 1 .. Len(entries), entries[i] # NoObject
  PROVE  entries[i] \in [Names -> Values]
<1>1. entries[i] \in Order
  BY ElementOfSeq DEF InputOK
<1> QED
  BY <1>1 DEF Order

\* Once the aliases are visited and none clashed, each field has one spelling,
\* and what is left without the nulls is the plain order (orders.go:34-47).
LEMMA RenamedIsPlain ==
  ASSUME RenamedSoFar, todo = {}
  PROVE  /\ WithoutNulls(object) = Plain(entries[index])
         /\ \A f \in Fields : \A l, m \in Spellings(entries[index], f) : l = m
<1> DEFINE e == entries[index]
<1>1. /\ object \in [Names -> Values]
      /\ \A a \in DOMAIN AliasOf : object[a] = "absent"
      /\ \A f \in Fields :
           /\ Spellings(e, f) = {} => object[f] = "absent"
           /\ \A m \in Spellings(e, f) :
                object[f] = e[m] /\ \A l \in Spellings(e, f) : l = m
  BY DEF RenamedSoFar
<1>2. ASSUME NEW f \in Fields
      PROVE  Value(e, f) = IF object[f] = "null" THEN "absent" ELSE object[f]
  <2>1. CASE \E m \in Spellings(e, f) : e[m] # "null"
    <3>1. PICK m \in Spellings(e, f) : e[m] # "null"
      BY <2>1
    <3>2. (CHOOSE l \in Spellings(e, f) : e[l] # "null") = m
      BY <1>1, <3>1
    <3> QED
      BY <1>1, <2>1, <3>1, <3>2 DEF Value
  <2>2. CASE ~ \E m \in Spellings(e, f) : e[m] # "null"
    BY <1>1, <2>2 DEF Value
  <2> QED
    BY <2>1, <2>2
<1>3. \A f \in Names :
        (IF object[f] = "null" THEN "absent" ELSE object[f])
          = (IF f \in Fields THEN Value(e, f) ELSE "absent")
  BY <1>1, <1>2, AliasesApart
<1>4. WithoutNulls(object) = Plain(e)
  BY <1>3 DEF WithoutNulls, Plain
<1> QED
  BY <1>1, <1>4

\* A visit to an alias that does not clash goes on with the loop, whichever
\* alias it is (orders.go:39-42).
LEMMA RenameGoesOn ==
  ASSUME InputOK, ParsingInv, NEW a \in DOMAIN AliasOf, Rename(a)
  PROVE  RenamedSoFar'
<1> DEFINE e == entries[index]
           f == AliasOf[a]
<1>1. /\ stage = "alias" /\ a \in todo /\ todo' = todo \ {a}
      /\ UNCHANGED <<entries, index>>
      /\ ~Clashes(a)
      /\ object' = IF object[a] = "absent" THEN object
                   ELSE [object EXCEPT ![f] = object[a], ![a] = "absent"]
  BY DEF Rename, given
<1>2. /\ object \in [Names -> Values]
      /\ \A b \in DOMAIN AliasOf : object[b] = IF b \in todo THEN e[b] ELSE "absent"
      /\ \A g \in Fields :
           /\ Spellings(e, g) \subseteq todo => object[g] = "absent"
           /\ \A m \in Spellings(e, g) \ todo :
                object[g] = e[m] /\ \A l \in Spellings(e, g) \ todo : l = m
  BY <1>1 DEF ParsingInv, RenamedSoFar
<1>3. /\ a \in Names \ Fields /\ f \in Fields /\ f \in Names /\ a # f
      /\ \A b \in DOMAIN AliasOf : b \in Names \ Fields
      /\ object[a] = e[a]
  BY <1>1, <1>2, AliasesApart
<1>4. \A g \in Fields : a \in Spellings(e, g) <=> (g = f /\ e[a] # "absent")
  BY <1>3 DEF Spellings
<1> SUFFICES
      /\ object' \in [Names -> Values]
      /\ \A b \in DOMAIN AliasOf : object'[b] = IF b \in todo' THEN e[b] ELSE "absent"
      /\ \A g \in Fields :
           /\ Spellings(e, g) \subseteq todo' => object'[g] = "absent"
           /\ \A m \in Spellings(e, g) \ todo' :
                object'[g] = e[m] /\ \A l \in Spellings(e, g) \ todo' : l = m
  <2>1. entries'[index'] = e
    BY <1>1
  <2> QED
    BY <2>1 DEF RenamedSoFar, Spellings
<1>5. CASE e[a] = "absent"
  <2>1. object' = object
    BY <1>1, <1>3, <1>5
  <2>2. \A g \in Fields : Spellings(e, g) \ todo' = Spellings(e, g) \ todo
    BY <1>1, <1>4, <1>5
  <2>3. \A g \in Fields : Spellings(e, g) \subseteq todo' <=> Spellings(e, g) \subseteq todo
    BY <1>1, <1>4, <1>5
  <2>4. \A b \in DOMAIN AliasOf : object[b] = IF b \in todo' THEN e[b] ELSE "absent"
    BY <1>1, <1>2, <1>5
  <2>5. \A g \in Fields :
           /\ Spellings(e, g) \subseteq todo' => object[g] = "absent"
           /\ \A m \in Spellings(e, g) \ todo' :
                object[g] = e[m] /\ \A l \in Spellings(e, g) \ todo' : l = m
    BY <1>2, <2>2, <2>3
  <2> QED
    BY <1>2, <2>1, <2>4, <2>5
<1>6. CASE e[a] # "absent"
  <2>1. object' = [object EXCEPT ![f] = e[a], ![a] = "absent"]
    BY <1>1, <1>3, <1>6
  <2>2. /\ object' \in [Names -> Values]
        /\ object'[f] = e[a] /\ object'[a] = "absent"
        /\ \A m \in Names \ {f, a} : object'[m] = object[m]
    BY <1>2, <1>3, <2>1 DEF Values
  <2>3. \A b \in DOMAIN AliasOf : object'[b] = IF b \in todo' THEN e[b] ELSE "absent"
    BY <1>1, <1>2, <1>3, <2>2
  <2>4. Spellings(e, f) \subseteq todo
    <3>1. object[f] = "absent"
      BY <1>1, <1>3, <1>6 DEF Clashes
    <3> QED
      BY <1>2, <1>3, <3>1 DEF Spellings
  <2>5. \A m \in Spellings(e, f) \ todo' : m = a
    BY <1>1, <2>4
  <2>6. \A g \in Fields \ {f} : a \notin Spellings(e, g)
    BY <1>4
  <2>7. ASSUME NEW g \in Fields
        PROVE  /\ Spellings(e, g) \subseteq todo' => object'[g] = "absent"
               /\ \A m \in Spellings(e, g) \ todo' :
                    object'[g] = e[m] /\ \A l \in Spellings(e, g) \ todo' : l = m
    <3>1. CASE g = f
      <4>1. a \in Spellings(e, g) /\ a \notin todo'
        BY <1>1, <1>4, <1>6, <3>1
      <4> QED
        BY <2>2, <2>5, <3>1, <4>1
    <3>2. CASE g # f
      <4>1. object'[g] = object[g]
        BY <1>3, <2>2, <3>2, AliasesApart
      <4>2. /\ Spellings(e, g) \ todo' = Spellings(e, g) \ todo
            /\ Spellings(e, g) \subseteq todo' <=> Spellings(e, g) \subseteq todo
        BY <1>1, <2>6, <3>2
      <4> QED
        BY <1>2, <4>1, <4>2
    <3> QED
      BY <3>1, <3>2
  <2> QED
    BY <2>2, <2>3, <2>7
<1> QED
  BY <1>5, <1>6

\* Two spellings of one field are found, whichever is visited first.
LEMMA ClashIsAFault ==
  ASSUME InputOK, ParsingInv, DuplicateField
  PROVE  ~GoodOrders
<1> DEFINE e == entries[index]
<1>1. PICK a \in todo : Clashes(a)
  BY DEF DuplicateField
<1>2. /\ RenamedSoFar /\ a \in DOMAIN AliasOf
      /\ index \in 1 .. Len(entries)
  BY <1>1 DEF DuplicateField, InputOK, ParsingInv
<1>3. a \in Spellings(e, AliasOf[a])
  <2>1. e[a] # "absent"
    BY <1>1, <1>2 DEF Clashes, RenamedSoFar
  <2> QED
    BY <1>2, <2>1, AliasesApart DEF Spellings
<1>4. PICK m \in Spellings(e, AliasOf[a]) : m \notin todo
  <2>1. object[AliasOf[a]] # "absent"
    BY <1>1 DEF Clashes
  <2> QED
    BY <1>2, <2>1, AliasesApart DEF RenamedSoFar
<1>5. ~GoodOrder(e)
  BY <1>1, <1>2, <1>3, <1>4, AliasesApart DEF GoodOrder
<1>6. index \in DOMAIN entries
  BY <1>2, LenProperties DEF InputOK
<1> QED
  BY <1>5, <1>6 DEF GoodOrders

\* What the checks see of a renamed order is the plain order: they pass exactly
\* if the entry is good (orders.go:48-71).
LEMMA CheckSeesPlain ==
  ASSUME InputOK, ParsingInv, Check
  PROVE  /\ index \in 1 .. Len(entries)
         /\ WithoutNulls(object) = Plain(entries[index])
         /\ WithoutNulls(object) \in [Names -> Values \ {"null"}]
         /\ \A a \in DOMAIN AliasOf : WithoutNulls(object)[a] = "absent"
         /\ Sound(WithoutNulls(object)) <=> GoodOrder(entries[index])
<1>1. stage = "alias" /\ todo = {}
  BY DEF Check
<1>2. RenamedSoFar /\ index \in 1 .. Len(entries) /\ entries[index] # NoObject
  BY <1>1 DEF ParsingInv
<1>3. WithoutNulls(object) \in [Names -> Values \ {"null"}]
  BY <1>2 DEF WithoutNulls, RenamedSoFar, Values
<1>4. \A a \in DOMAIN AliasOf : WithoutNulls(object)[a] = "absent"
  BY <1>1, <1>2, AliasesApart DEF WithoutNulls, RenamedSoFar
<1> QED
  BY <1>1, <1>2, <1>3, <1>4, RenamedIsPlain DEF GoodOrder

\* An order that passes joins the orders of the request.
LEMMA CheckGoesOn ==
  ASSUME InputOK, ParsingInv, Check, Sound(WithoutNulls(object))
  PROVE  /\ parsed' = Append(parsed, Plain(entries[index]))
         /\ ParsedSoFar(index - 1)'
         /\ index' = index + 1 /\ stage' = "parse" /\ UNCHANGED <<given, object, todo, table>>
<1>1. /\ parsed' = Append(parsed, WithoutNulls(object))
      /\ index' = index + 1 /\ stage' = "parse" /\ UNCHANGED <<given, object, todo, table>>
  BY DEF Check
<1>2. /\ index \in 1 .. Len(entries) /\ GoodOrder(entries[index])
      /\ WithoutNulls(object) = Plain(entries[index])
  BY CheckSeesPlain
<1>3. /\ Len(parsed) = index - 1
      /\ \A i \in 1 .. index - 1 : GoodOrder(entries[i]) /\ parsed[i] = Plain(entries[i])
  BY DEF Check, ParsingInv, ParsedSoFar
<1>4. /\ Len(parsed') = index
      /\ \A i \in 1 .. index - 1 : parsed'[i] = parsed[i]
      /\ parsed'[index] = Plain(entries[index])
  <2>1. parsed \in Seq([Names -> Values \cup {"malformed"}])
    BY SeqMonotonic DEF InputOK
  <2>2. Plain(entries[index]) \in [Names -> Values \cup {"malformed"}]
    BY <1>2, CheckSeesPlain
  <2> QED
    BY <1>1, <1>2, <1>3, <2>1, <2>2, AppendProperties
<1>5. \A i \in 1 .. index : GoodOrder(entries[i]) /\ parsed'[i] = Plain(entries[i])
  BY <1>2, <1>3, <1>4
<1>6. index \in Nat /\ index' - 1 = index /\ entries' = entries
  BY <1>1, <1>2 DEF given
<1>7. ParsedSoFar(index - 1)'
  BY <1>4, <1>5, <1>6 DEF ParsedSoFar
<1> QED
  BY <1>1, <1>2, <1>7

\* What is given does not change, nor what is to be said of it.
LEMMA GivenStays ==
  ASSUME [Prepare]_inputVars
  PROVE  UNCHANGED given
BY DEF inputVars, Prepare, Refuse, Unusable, ParseEntry, DuplicateField, Check, Parsed, Rename,
       SkipLayer, ReadFails, ReadLayer, NotBoolean, LayerDone, AnswersRead, Merge

\* While the input stays, so does what is to be said of its faults.
LEMMA FaultsStay ==
  ASSUME UNCHANGED given
  PROVE  /\ GoodOrders' <=> GoodOrders
         /\ \A i \in 1 .. 3 : GoodLayer(i)' <=> GoodLayer(i)
BY DEF given, GoodOrders, GoodLayer, Skips

\* Steps after the parsing, and refusals, leave the orders alone.
LEMMA LaterStepsKeepParsing ==
  ASSUME ParsingInv, UNCHANGED <<given, parsed>>,
         \/ stage' = "refused"
         \/ /\ stage \in {"read", "merge", "send", "sent"}
            /\ stage' \in {"read", "merge", "send", "sent"}
  PROVE  ParsingInv'
<1>1. GoodOrders' <=> GoodOrders
  BY FaultsStay
<1>2. ParsedSoFar(Len(entries))' <=> ParsedSoFar(Len(entries))
  BY DEF given, ParsedSoFar
<1> QED
  BY <1>1, <1>2 DEF ParsingInv

\* Orders are parsed one after another, and each is what its entry plainly says
\* (orders.go:73-95).
LEMMA ParsingStep == InputOK /\ ParsingInv /\ [Prepare]_inputVars => ParsingInv'
<1> SUFFICES ASSUME InputOK, ParsingInv, [Prepare]_inputVars
             PROVE  ParsingInv'
  OBVIOUS
<1>1. CASE Unusable \/ DuplicateField \/ ReadFails \/ NotBoolean
  BY <1>1, LaterStepsKeepParsing DEF Unusable, DuplicateField, ReadFails, NotBoolean, Refuse
<1>2. CASE ParseEntry
  <2>1. /\ stage = "parse" /\ stage' = "alias"
        /\ array => command # "modify"
        /\ index <= Len(entries) /\ entries[index] # NoObject
        /\ object' = entries[index] /\ todo' = DOMAIN AliasOf
        /\ UNCHANGED <<command, array, entries, index, parsed, table>>
    BY <1>2 DEF ParseEntry, given
  <2>2. index \in 1 .. Len(entries) /\ entries[index] \in [Names -> Values]
    BY <2>1, ObjectsHaveValues DEF ParsingInv
  <2>3. RenamedSoFar'
    <3> DEFINE e == entries[index]
    <3>1. \A a \in DOMAIN AliasOf : e[a] = IF a \in DOMAIN AliasOf THEN e[a] ELSE "absent"
      OBVIOUS
    <3>2. \A f \in Fields :
            /\ Spellings(e, f) \subseteq DOMAIN AliasOf => e[f] = "absent"
            /\ \A m \in Spellings(e, f) \ DOMAIN AliasOf : m = f
      BY AliasesApart DEF Spellings
    <3>3. entries'[index'] = e /\ object' = e /\ todo' = DOMAIN AliasOf
      BY <2>1
    <3> QED
      BY <2>2, <3>2, <3>3 DEF RenamedSoFar, Spellings
  <2>4. ParsedSoFar(index - 1)'
    BY <2>1 DEF ParsingInv, ParsedSoFar
  <2> QED
    BY <2>1, <2>2, <2>3, <2>4 DEF ParsingInv
<1>3. ASSUME NEW a \in DOMAIN AliasOf, Rename(a)
      PROVE  ParsingInv'
  <2>1. RenamedSoFar'
    BY <1>3, RenameGoesOn
  <2>2. stage = "alias" /\ UNCHANGED <<given, stage, index, parsed, table>>
    BY <1>3 DEF Rename
  <2>3. ParsedSoFar(index - 1)'
    BY <2>2 DEF given, ParsingInv, ParsedSoFar
  <2> QED
    BY <2>1, <2>2, <2>3 DEF given, ParsingInv
<1>4. CASE Check
  <2>1. CASE Sound(WithoutNulls(object))
    <3>1. /\ ParsedSoFar(index - 1)' /\ index \in 1 .. Len(entries)
          /\ index' = index + 1 /\ stage' = "parse" /\ UNCHANGED <<given, table>>
      BY <1>4, <2>1, CheckGoesOn, CheckSeesPlain
    <3>2. stage = "alias"
      BY <1>4 DEF Check
    <3> QED
      BY <3>1, <3>2, LenProperties DEF InputOK, ParsingInv, given
  <2>2. CASE ~Sound(WithoutNulls(object))
    BY <1>4, <2>2, LaterStepsKeepParsing DEF Check, Refuse
  <2> QED
    BY <2>1, <2>2
<1>5. CASE Parsed
  <2>1. /\ stage = "parse" /\ entries # <<>> /\ index > Len(entries)
        /\ UNCHANGED <<given, parsed>>
    BY <1>5 DEF Parsed
  <2>2. /\ ParsedSoFar(Len(entries)) /\ Len(entries) > 0
        /\ array => command # "modify"
    <3>1. Len(entries) \in Nat /\ Len(entries) > 0
      BY <2>1, EmptySeq DEF InputOK
    <3>2. index - 1 = Len(entries)
      BY <2>1, <3>1 DEF ParsingInv
    <3> QED
      BY <2>1, <3>1, <3>2 DEF ParsingInv
  <2>3. /\ DOMAIN entries = 1 .. Len(entries) /\ DOMAIN parsed = 1 .. Len(entries)
        /\ \A i \in 1 .. Len(entries) : GoodOrder(entries[i]) /\ parsed[i] = Plain(entries[i])
    BY <2>2, LenProperties DEF InputOK, ParsedSoFar
  <2>4. CASE stage' = "refused"
    BY <2>1, <2>4, LaterStepsKeepParsing
  <2>5. CASE stage' # "refused"
    <3>1. command = "fee-plan" =>
            \A i \in DOMAIN entries : \A f \in Priced : Plain(entries[i])[f] = "good"
      BY <1>5, <2>3, <2>5 DEF Parsed
    <3>2. GoodOrders
      BY <2>1, <2>2, <2>3, <3>1 DEF GoodOrders
    <3>3. ParsedSoFar(Len(entries))' /\ GoodOrders'
      <4>1. ParsedSoFar(Len(entries))'
        BY <2>1, <2>2 DEF ParsedSoFar, given
      <4> QED
        BY <2>1, <3>2, <4>1, FaultsStay
    <3>4. stage' \in {"read", "send", "planned"}
      BY <1>5, <2>5 DEF Parsed
    <3> QED
      BY <3>3, <3>4 DEF ParsingInv
  <2> QED
    BY <2>4, <2>5
<1>6. CASE SkipLayer \/ ReadLayer \/ LayerDone \/ AnswersRead
  BY <1>6, LaterStepsKeepParsing DEF SkipLayer, ReadLayer, LayerDone, AnswersRead
<1>7. ASSUME NEW k \in Keys, Merge(k)
      PROVE  ParsingInv'
  BY <1>7, LaterStepsKeepParsing DEF Merge
<1>8. CASE UNCHANGED inputVars
  <2>1. UNCHANGED <<command, array, entries, stage, index, object, todo, parsed, table>>
    BY <1>8 DEF inputVars, given
  <2>2. /\ ParsedSoFar(index - 1)' <=> ParsedSoFar(index - 1)
        /\ ParsedSoFar(Len(entries))' <=> ParsedSoFar(Len(entries))
        /\ RenamedSoFar' <=> RenamedSoFar
        /\ GoodOrders' <=> GoodOrders
    BY <2>1 DEF ParsedSoFar, RenamedSoFar, Spellings, GoodOrders
  <2> QED
    BY <2>1, <2>2 DEF ParsingInv
<1> QED
  BY <1>1, <1>2, <1>3, <1>4, <1>5, <1>6, <1>7, <1>8 DEF Prepare

-----------------------------------------------------------------------------
(* The layers of answers.                                                  *)

\* The layer i has an answer to k.
\* Layer i has an answer for key k, a boolean or not.
Answering(i, k) == layers[i].source = "object" /\ layers[i].entries[k] # "none"

\* The answer is that of the last of the first m layers that has one.
IsLayered(k, answer, m) ==
  /\ (\A i \in 1 .. m : ~Answering(i, k)) => answer = Defaults[k]
  /\ \A i \in 1 .. m :
       Answering(i, k) /\ (\A j \in i + 1 .. m : ~Answering(j, k))
         => answer = layers[i].entries[k]

\* The first m layers can be read and hold booleans.
GoodLayersTo(m) == \A i \in 1 .. m : GoodLayer(i)

\* Layer by layer, and key by key within one, the table is that of the layers so far.
MergingInv ==
  /\ command \in {"whatif", "fee-plan"} => layers = <<Absent, Absent, Absent>>
  /\ stage = "read" =>
       /\ index \in 1 .. 4
       /\ GoodLayersTo(index - 1)
       /\ \A k \in Keys : IsLayered(k, table[k], index - 1)
  /\ stage = "merge" =>
       /\ index \in 1 .. 3 /\ layers[index].source = "object"
       /\ GoodLayersTo(index - 1)
       /\ \A k \in todo :
            k \in Keys /\ Answering(index, k) /\ IsLayered(k, table[k], index - 1)
       /\ \A k \in Keys \ todo :
            layers[index].entries[k] # "bad" /\ IsLayered(k, table[k], index)
  /\ stage \in {"planned", "send", "sent"} =>
       GoodLayersTo(3) /\ \A k \in Keys : IsLayered(k, table[k], 3)

\* Each layer has a source and an entry for each key.
LEMMA LayerFields ==
  ASSUME layers \in Layers \X Layers \X Layers, NEW i \in 1 .. 3
  PROVE  /\ layers[i] \in Layers
         /\ layers[i].source \in Sources
         /\ layers[i].entries \in [Keys -> Answers \cup {"bad"}]
<1>1. layers[1] \in Layers /\ layers[2] \in Layers /\ layers[3] \in Layers
  OBVIOUS
<1>2. i = 1 \/ i = 2 \/ i = 3
  OBVIOUS
<1>3. layers[i] \in Layers
  BY <1>1, <1>2
<1> QED
  BY <1>3 DEF Layers

\* A layer without an answer changes nothing, one with an answer overrides.
LEMMA OneMoreLayer ==
  ASSUME NEW k, NEW answer, NEW m \in 1 .. 3
  PROVE  /\ ~Answering(m, k) => (IsLayered(k, answer, m) <=> IsLayered(k, answer, m - 1))
         /\ Answering(m, k) => (IsLayered(k, answer, m) <=> answer = layers[m].entries[k])
<1>1. 1 .. m = (1 .. m - 1) \cup {m} /\ m \notin 1 .. m - 1
  OBVIOUS
<1>2. /\ m + 1 .. m = {}
      /\ \A i \in 1 .. m - 1 : i + 1 .. m = (i + 1 .. m - 1) \cup {m}
  OBVIOUS
<1>3. CASE ~Answering(m, k)
  BY <1>1, <1>2, <1>3 DEF IsLayered
<1>4. CASE Answering(m, k)
  <2>1. \A i \in 1 .. m - 1 : m \in i + 1 .. m
    BY <1>2
  <2> QED
    BY <1>1, <1>2, <1>4, <2>1 DEF IsLayered
<1> QED
  BY <1>3, <1>4

\* After the three layers the answer is what they say (README.md:143).
LEMMA LayeredAfterThree ==
  ASSUME NEW k \in Keys, NEW answer, IsLayered(k, answer, 3)
  PROVE  answer = Layered(k)
<1> DEFINE having == {i \in 1 .. 3 : layers[i].source = "object" /\ layers[i].entries[k] # "none"}
<1>1. having = {i \in 1 .. 3 : Answering(i, k)}
  BY DEF Answering
<1>2. CASE having = {}
  <2>1. answer = Defaults[k]
    BY <1>1, <1>2 DEF IsLayered
  <2> QED
    BY <1>2, <2>1 DEF Layered
<1>3. CASE having # {}
  <2>1. \E i \in having : \A j \in having : j <= i
    <3>1. having \subseteq {1, 2, 3}
      OBVIOUS
    <3>2. CASE 3 \in having
      BY <3>1, <3>2
    <3>3. CASE 3 \notin having /\ 2 \in having
      BY <3>1, <3>3
    <3>4. CASE 3 \notin having /\ 2 \notin having
      BY <1>3, <3>1, <3>4
    <3> QED
      BY <3>2, <3>3, <3>4
  <2> DEFINE top == CHOOSE i \in having : \A j \in having : j <= i
  <2>2. top \in having /\ \A j \in having : j <= top
    BY <2>1
  <2>3. answer = layers[top].entries[k]
    <3> HIDE DEF top
    <3>1. top \in 1 .. 3 /\ Answering(top, k)
      BY <1>1, <2>2
    <3>2. \A j \in top + 1 .. 3 : ~Answering(j, k)
      BY <1>1, <2>2, <3>1
    <3> QED
      BY <3>1, <3>2 DEF IsLayered
  <2>4. Layered(k) = IF having = {} THEN Defaults[k] ELSE layers[top].entries[k]
    BY Zenon DEF Layered
  <2> HIDE DEF having, top
  <2> QED
    BY <1>3, <2>3, <2>4
<1> QED
  BY <1>2, <1>3

\* Steps before the answers are read, and refusals, leave them at the defaults.
LEMMA EarlierStepsKeepMerging ==
  ASSUME MergingInv, UNCHANGED given, stage' \in {"parse", "alias", "refused"}
  PROVE  MergingInv'
BY DEF MergingInv, given

\* A layer is merged key by key, in any order; the answers to the keys visited
\* are those of the layers so far (answers.go:20-27).
LEMMA MergeGoesOn ==
  ASSUME InputOK, MergingInv, NEW key \in Keys, Merge(key)
  PROVE  MergingInv'
<1>1. /\ stage = "merge" /\ stage' = "merge" /\ index' = index /\ UNCHANGED given
      /\ key \in todo /\ todo' = todo \ {key}
      /\ layers[index].entries[key] # "bad"
      /\ table' = [table EXCEPT ![key] = layers[index].entries[key]]
  BY DEF Merge, Overridden
<1>2. UNCHANGED <<command, layers>>
  BY <1>1 DEF given
<1>3. /\ index \in 1 .. 3 /\ layers[index].source = "object"
      /\ GoodLayersTo(index - 1)
      /\ \A k \in todo :
           k \in Keys /\ Answering(index, k) /\ IsLayered(k, table[k], index - 1)
      /\ \A k \in Keys \ todo :
           layers[index].entries[k] # "bad" /\ IsLayered(k, table[k], index)
  BY <1>1 DEF MergingInv
<1>4. /\ table'[key] = layers[index].entries[key]
      /\ \A k \in Keys \ {key} : table'[k] = table[k]
  BY <1>1 DEF InputOK
<1>5. IsLayered(key, table'[key], index)
  BY <1>1, <1>3, <1>4, OneMoreLayer
<1>6. \A k \in todo' :
        k \in Keys /\ Answering(index, k) /\ IsLayered(k, table'[k], index - 1)
  BY <1>1, <1>3, <1>4
<1>7. \A k \in Keys \ todo' :
        layers[index].entries[k] # "bad" /\ IsLayered(k, table'[k], index)
  BY <1>1, <1>3, <1>4, <1>5
<1>8. /\ layers'[index'].source = "object" /\ index' \in 1 .. 3
      /\ GoodLayersTo(index - 1)'
      /\ \A k \in todo' : /\ k \in Keys /\ Answering(index, k)'
                          /\ IsLayered(k, table[k], index - 1)'
      /\ \A k \in Keys \ todo' : /\ layers'[index'].entries[k] # "bad"
                                 /\ IsLayered(k, table[k], index)'
  BY <1>1, <1>2, <1>3, <1>6, <1>7
     DEF GoodLayersTo, GoodLayer, Skips, IsLayered, Answering
<1> QED
  BY <1>1, <1>2, <1>8 DEF MergingInv

\* The layers are read one after another (answers.go:29-54).
LEMMA MergingStep == InputOK /\ ParsingInv /\ MergingInv /\ [Prepare]_inputVars => MergingInv'
<1> SUFFICES ASSUME InputOK, ParsingInv, MergingInv, [Prepare]_inputVars
             PROVE  MergingInv'
  OBVIOUS
<1>1. CASE Unusable \/ DuplicateField \/ ReadFails \/ NotBoolean \/ ParseEntry \/ Check
  BY <1>1, EarlierStepsKeepMerging
     DEF Unusable, DuplicateField, ReadFails, NotBoolean, Refuse, ParseEntry, Check
<1>2. ASSUME NEW a \in DOMAIN AliasOf, Rename(a)
      PROVE  MergingInv'
  BY <1>2, EarlierStepsKeepMerging DEF Rename
<1>3. CASE Parsed
  <2>1. /\ stage = "parse" /\ index' = 1 /\ UNCHANGED <<given, table>> /\ table = Defaults
        /\ stage' \in {"planned", "send", "read", "refused"}
        /\ stage' \in {"planned", "send"} => command \in {"whatif", "fee-plan"}
    BY <1>3 DEF Parsed, ParsingInv
  <2>2. UNCHANGED <<command, layers>>
    BY <2>1 DEF given
  <2>3. /\ GoodLayersTo(0)
        /\ \A k \in Keys : IsLayered(k, table[k], 0)
    BY <2>1 DEF GoodLayersTo, IsLayered
  <2>4. ASSUME layers = <<Absent, Absent, Absent>>
        PROVE  GoodLayersTo(3) /\ \A k \in Keys : IsLayered(k, table[k], 3)
    <3>1. \A i \in 1 .. 3 : layers[i].source = "absent"
      <4>1. layers[1] = Absent /\ layers[2] = Absent /\ layers[3] = Absent
        BY <2>4
      <4>2. \A i \in 1 .. 3 : i = 1 \/ i = 2 \/ i = 3
        OBVIOUS
      <4> QED
        BY <4>1, <4>2 DEF Absent
    <3> QED
      BY <2>1, <3>1 DEF GoodLayersTo, GoodLayer, Skips, IsLayered, Answering
  <2>5. CASE stage' = "read"
    <3>1. GoodLayersTo(index - 1)' /\ \A k \in Keys : IsLayered(k, table[k], index - 1)'
      BY <2>1, <2>2, <2>3 DEF GoodLayersTo, GoodLayer, Skips, IsLayered, Answering
    <3> QED
      BY <2>1, <2>2, <2>5, <3>1 DEF MergingInv
  <2>6. CASE stage' \in {"planned", "send"}
    <3>1. GoodLayersTo(3) /\ \A k \in Keys : IsLayered(k, table[k], 3)
      BY <2>1, <2>4, <2>6 DEF MergingInv
    <3>2. GoodLayersTo(3)' /\ \A k \in Keys : IsLayered(k, table[k], 3)'
      BY <2>1, <2>2, <3>1 DEF GoodLayersTo, GoodLayer, Skips, IsLayered, Answering
    <3> QED
      BY <2>2, <2>6, <3>2 DEF MergingInv
  <2>7. CASE stage' = "refused"
    BY <2>1, <2>7, EarlierStepsKeepMerging
  <2> QED
    BY <2>1, <2>5, <2>6, <2>7
<1>4. CASE SkipLayer
  <2>1. /\ stage = "read" /\ stage' = "read" /\ index \in 1 .. 3 /\ Skips(index)
        /\ index' = index + 1 /\ UNCHANGED <<given, table>>
    BY <1>4 DEF SkipLayer, MergingInv
  <2>2. /\ GoodLayersTo(index - 1)
        /\ \A k \in Keys : IsLayered(k, table[k], index - 1)
    BY <2>1 DEF MergingInv
  <2>3. GoodLayersTo(index)
    BY <2>1, <2>2 DEF GoodLayersTo, GoodLayer
  <2>4. \A k \in Keys : IsLayered(k, table[k], index)
    BY <2>1, <2>2, OneMoreLayer DEF Answering, Skips
  <2>5. /\ index' - 1 = index /\ index' \in 1 .. 4 /\ UNCHANGED <<command, layers>>
    BY <2>1 DEF given
  <2>6. GoodLayersTo(index - 1)' /\ \A k \in Keys : IsLayered(k, table[k], index - 1)'
    BY <2>1, <2>3, <2>4, <2>5 DEF GoodLayersTo, GoodLayer, Skips, IsLayered, Answering
  <2> QED
    BY <2>1, <2>5, <2>6 DEF MergingInv
<1>5. CASE ReadLayer
  <2>1. /\ stage = "read" /\ stage' = "merge" /\ index \in 1 .. 3
        /\ layers[index].source = "object"
        /\ todo' = {k \in Keys : layers[index].entries[k] # "none"}
        /\ UNCHANGED <<given, index, table>>
    BY <1>5 DEF ReadLayer, MergingInv
  <2>2. UNCHANGED <<command, layers>>
    BY <2>1 DEF given
  <2>3. /\ GoodLayersTo(index - 1)
        /\ \A k \in Keys : IsLayered(k, table[k], index - 1)
    BY <2>1 DEF MergingInv
  <2>4. \A k \in Keys : k \in todo' <=> Answering(index, k)
    BY <2>1 DEF Answering
  <2>5. \A k \in Keys \ todo' :
          layers[index].entries[k] # "bad" /\ IsLayered(k, table[k], index)
    BY <2>1, <2>3, <2>4, OneMoreLayer
  <2>6. /\ GoodLayersTo(index - 1)'
        /\ \A k \in todo' : /\ k \in Keys /\ Answering(index, k)'
                            /\ IsLayered(k, table[k], index - 1)'
        /\ \A k \in Keys \ todo' : /\ layers'[index'].entries[k] # "bad"
                                   /\ IsLayered(k, table[k], index)'
    BY <2>1, <2>2, <2>3, <2>4, <2>5 DEF GoodLayersTo, GoodLayer, Skips, IsLayered, Answering
  <2> QED
    BY <2>1, <2>2, <2>6 DEF MergingInv
<1>6. ASSUME NEW key \in Keys, Merge(key)
      PROVE  MergingInv'
  BY <1>6, MergeGoesOn
<1>7. CASE LayerDone
  <2>1. /\ stage = "merge" /\ stage' = "read" /\ index \in 1 .. 3 /\ todo = {}
        /\ index' = index + 1 /\ UNCHANGED <<given, table>>
    BY <1>7 DEF LayerDone, MergingInv
  <2>2. /\ GoodLayersTo(index - 1) /\ layers[index].source = "object"
        /\ \A k \in Keys : layers[index].entries[k] # "bad" /\ IsLayered(k, table[k], index)
    BY <2>1 DEF MergingInv
  <2>3. GoodLayersTo(index)
    BY <2>1, <2>2 DEF GoodLayersTo, GoodLayer
  <2>4. /\ index' - 1 = index /\ index' \in 1 .. 4 /\ UNCHANGED <<command, layers>>
    BY <2>1 DEF given
  <2>5. GoodLayersTo(index - 1)' /\ \A k \in Keys : IsLayered(k, table[k], index - 1)'
    BY <2>1, <2>2, <2>3, <2>4 DEF GoodLayersTo, GoodLayer, Skips, IsLayered, Answering
  <2> QED
    BY <2>1, <2>4, <2>5 DEF MergingInv
<1>8. CASE AnswersRead
  <2>1. /\ stage = "read" /\ stage' = "send" /\ index = 4 /\ UNCHANGED <<given, table>>
    BY <1>8 DEF AnswersRead, MergingInv
  <2>2. GoodLayersTo(3) /\ \A k \in Keys : IsLayered(k, table[k], 3)
    BY <2>1 DEF MergingInv
  <2>3. UNCHANGED <<command, layers>>
    BY <2>1 DEF given
  <2>4. GoodLayersTo(3)' /\ \A k \in Keys : IsLayered(k, table[k], 3)'
    BY <2>1, <2>2, <2>3 DEF GoodLayersTo, GoodLayer, Skips, IsLayered, Answering
  <2> QED
    BY <2>1, <2>3, <2>4 DEF MergingInv
<1>9. CASE UNCHANGED inputVars
  BY <1>9 DEF inputVars, given, MergingInv, GoodLayersTo, GoodLayer, Skips, IsLayered,
              Answering
<1> QED
  BY <1>1, <1>2, <1>3, <1>4, <1>5, <1>6, <1>7, <1>8, <1>9 DEF Prepare

\* Types are kept: an order that is parsed has neither nulls nor aliases.
LEMMA InputStep == InputOK /\ ParsingInv /\ MergingInv /\ [Prepare]_inputVars => InputOK'
<1> SUFFICES ASSUME InputOK, ParsingInv, MergingInv, [Prepare]_inputVars
             PROVE  InputOK'
  OBVIOUS
<1> USE DEF InputOK
<1>0. Len(entries) \in Nat
  BY LenProperties
<1>1. CASE Unusable \/ DuplicateField \/ ReadFails \/ NotBoolean
  BY <1>1 DEF Unusable, DuplicateField, ReadFails, NotBoolean, Refuse, given
<1>2. CASE ParseEntry
  <2>1. /\ stage = "parse" /\ stage' = "alias" /\ todo' = DOMAIN AliasOf
        /\ index <= Len(entries) /\ object' = entries[index]
        /\ UNCHANGED <<command, array, entries, layers, index, parsed, table>>
    BY <1>2 DEF ParseEntry, given
  <2>2. object' \in Order
    BY <1>0, <2>1, ElementOfSeq DEF ParsingInv
  <2> QED
    BY <2>1, <2>2
<1>3. ASSUME NEW a \in DOMAIN AliasOf, Rename(a)
      PROVE  InputOK'
  <2>1. object' \in Order
    BY <1>3, RenameGoesOn DEF RenamedSoFar, Order
  <2> QED
    BY <1>3, <2>1 DEF Rename, given
<1>4. CASE Check
  <2>1. CASE Sound(WithoutNulls(object))
    <3>1. /\ parsed' = Append(parsed, Plain(entries[index]))
          /\ index' = index + 1 /\ stage' = "parse" /\ UNCHANGED <<given, object, todo, table>>
          /\ index \in 1 .. Len(entries)
      BY <1>4, <2>1, CheckGoesOn, CheckSeesPlain
    <3> DEFINE Clean == {o \in [Names -> Values \ {"null"}] :
                            \A a \in DOMAIN AliasOf : o[a] = "absent"}
    <3>2. Plain(entries[index]) \in Clean
      BY <1>4, CheckSeesPlain
    <3>3. parsed \in Seq(Clean)
      OBVIOUS
    <3> HIDE DEF Clean
    <3>4. parsed' \in Seq(Clean)
      BY <3>1, <3>2, <3>3, AppendProperties
    <3> USE DEF Clean
    <3> QED
      BY <1>0, <3>1, <3>4 DEF given
  <2>2. CASE ~Sound(WithoutNulls(object))
    BY <1>4, <2>2 DEF Check, Refuse, given
  <2> QED
    BY <2>1, <2>2
<1>5. CASE Parsed
  BY <1>0, <1>5 DEF Parsed, given
<1>6. CASE SkipLayer \/ LayerDone
  BY <1>0, <1>6 DEF SkipLayer, LayerDone, MergingInv, given
<1>7. CASE ReadLayer \/ AnswersRead
  BY <1>7 DEF ReadLayer, AnswersRead, given
<1>8. ASSUME NEW key \in Keys, Merge(key)
      PROVE  InputOK'
  <2>1. /\ stage = "merge" /\ key \in todo /\ todo' = todo \ {key}
        /\ layers[index].entries[key] # "bad"
        /\ table' = [table EXCEPT ![key] = layers[index].entries[key]]
        /\ UNCHANGED <<given, stage, index, object, parsed>>
    BY <1>8 DEF Merge, Overridden
  <2>2. layers[index].entries[key] \in Answers
    BY <2>1, LayerFields DEF MergingInv
  <2>3. table' \in [Keys -> Answers]
    BY <2>1, <2>2
  <2> QED
    BY <2>1, <2>3 DEF given
<1>9. CASE UNCHANGED inputVars
  BY <1>9 DEF inputVars, given
<1> QED
  BY <1>1, <1>2, <1>3, <1>4, <1>5, <1>6, <1>7, <1>8, <1>9 DEF Prepare

\* What is refused is faulty.
RefusedIsFaulty == stage = "refused" => ~GoodOrders \/ \E i \in 1 .. 3 : ~GoodLayer(i)

\* A refusal has a fault of the input for its reason, whatever the loops have
\* visited before they came to it (orders.go:36-71, answers.go:14-24).
LEMMA RefusalStep ==
  InputOK /\ ParsingInv /\ MergingInv /\ RefusedIsFaulty /\ [Prepare]_inputVars
    => RefusedIsFaulty'
<1> SUFFICES ASSUME InputOK, ParsingInv, MergingInv, RefusedIsFaulty, [Prepare]_inputVars,
                    stage' = "refused"
             PROVE  ~GoodOrders \/ \E i \in 1 .. 3 : ~GoodLayer(i)
  BY GivenStays, FaultsStay DEF RefusedIsFaulty
<1>0. DOMAIN entries = 1 .. Len(entries) /\ Len(entries) \in Nat
  BY LenProperties DEF InputOK
<1>1. CASE Unusable
  <2>1. CASE array /\ (command = "modify" \/ entries = <<>>)
    BY <2>1 DEF GoodOrders
  <2>2. CASE index <= Len(entries) /\ entries[index] = NoObject
    <3>1. index \in DOMAIN entries
      BY <1>0, <1>1, <2>2 DEF Unusable, ParsingInv
    <3> QED
      BY <2>2, <3>1 DEF GoodOrders, GoodOrder
  <2> QED
    BY <1>1, <2>1, <2>2 DEF Unusable
<1>2. CASE DuplicateField
  BY <1>2, ClashIsAFault
<1>3. CASE Check
  <2>1. ~Sound(WithoutNulls(object))
    BY <1>3, CheckGoesOn
  <2> QED
    BY <1>0, <1>3, <2>1, CheckSeesPlain DEF GoodOrders
<1>4. CASE Parsed
  <2>1. /\ stage = "parse" /\ entries # <<>> /\ index > Len(entries)
        /\ command = "fee-plan"
        /\ ~ \A i \in DOMAIN parsed : \A f \in Priced : parsed[i][f] = "good"
    BY <1>4 DEF Parsed
  <2>2. ParsedSoFar(Len(entries))
    <3>1. index - 1 = Len(entries)
      BY <1>0, <2>1 DEF ParsingInv
    <3> QED
      BY <2>1, <3>1 DEF ParsingInv
  <2>3. /\ DOMAIN parsed = DOMAIN entries
        /\ \A i \in DOMAIN entries : parsed[i] = Plain(entries[i])
    BY <1>0, <2>2, LenProperties DEF InputOK, ParsedSoFar
  <2> QED
    BY <2>1, <2>3 DEF GoodOrders
<1>5. CASE ReadFails
  <2>1. index \in 1 .. 3 /\ ~Skips(index) /\ layers[index].source # "object"
    BY <1>5 DEF ReadFails, MergingInv
  <2> QED
    BY <2>1 DEF GoodLayer
<1>6. CASE NotBoolean
  <2>1. PICK k \in todo : layers[index].entries[k] = "bad"
    BY <1>6 DEF NotBoolean
  <2>2. k \in Keys /\ index \in 1 .. 3 /\ layers[index].source = "object"
    BY <1>6, <2>1 DEF NotBoolean, MergingInv
  <2>3. ~GoodLayer(index)
    BY <2>1, <2>2 DEF GoodLayer, Skips
  <2> QED
    BY <2>2, <2>3
<1>7. CASE stage = "refused"
  BY <1>7 DEF RefusedIsFaulty
<1> QED
  BY <1>1, <1>2, <1>3, <1>4, <1>5, <1>6, <1>7
     DEF Prepare, ParseEntry, Rename, SkipLayer, ReadLayer, Merge, LayerDone, AnswersRead,
         inputVars

-----------------------------------------------------------------------------
\* The inductive invariant of the preparation.
InputInv == InputOK /\ ParsingInv /\ MergingInv /\ RefusedIsFaulty

\* Every input that is tried starts out with the invariant.
LEMMA InputInitially == InputInit => InputInv
<1> SUFFICES ASSUME InputInit
             PROVE  InputInv
  OBVIOUS
<1>1. PICK i \in Inputs : array = i.array /\ entries = i.entries /\ layers = i.layers
  BY DEF InputInit
<1>2. /\ array \in BOOLEAN /\ entries \in Seq(Order)
      /\ layers \in Layers \X Layers \X Layers
  BY <1>1, InputAssumption
<1>3. Len(entries) \in Nat
  BY <1>2, LenProperties
<1>4. InputOK
  BY <1>2, <1>3, KeysAssumption, EmptySeq DEF InputInit, InputOK, Order
<1>5. ParsingInv
  BY <1>3, EmptySeq DEF InputInit, ParsingInv, ParsedSoFar
<1>6. MergingInv /\ RefusedIsFaulty
  BY DEF InputInit, MergingInv, RefusedIsFaulty
<1> QED
  BY <1>4, <1>5, <1>6 DEF InputInv

\* Every step of the preparation keeps it.
LEMMA InputInvStep == InputInv /\ [Prepare]_inputVars => InputInv'
BY InputStep, ParsingStep, MergingStep, RefusalStep DEF InputInv

\* The inductive invariant says enough: the loops are over, and what they left
\* is what the entries and the layers say.
LEMMA InvDecides == InputInv => PreparationIsDeterministic
<1> SUFFICES ASSUME InputInv
             PROVE  PreparationIsDeterministic
  OBVIOUS
<1>1. stage = "refused" => ~GoodOrders \/ \E i \in 1 .. 3 : ~GoodLayer(i)
  BY DEF InputInv, RefusedIsFaulty
<1>2. ASSUME stage \in {"planned", "send", "sent"}
      PROVE  /\ GoodOrders /\ \A i \in 1 .. 3 : GoodLayer(i)
             /\ parsed = [i \in DOMAIN entries |-> Plain(entries[i])]
             /\ table = [k \in Keys |-> Layered(k)]
  <2>1. /\ ParsedSoFar(Len(entries)) /\ GoodOrders
        /\ GoodLayersTo(3) /\ \A k \in Keys : IsLayered(k, table[k], 3)
    BY <1>2 DEF InputInv, ParsingInv, MergingInv
  <2>2. /\ DOMAIN entries = 1 .. Len(entries)
        /\ parsed = [i \in DOMAIN parsed |-> parsed[i]]
        /\ DOMAIN parsed = 1 .. Len(entries)
    BY <2>1, LenProperties DEF InputInv, InputOK, ParsedSoFar
  <2>3. parsed = [i \in DOMAIN entries |-> Plain(entries[i])]
    BY <2>1, <2>2 DEF ParsedSoFar
  <2>4. \A k \in Keys : table[k] = Layered(k)
    BY <2>1, LayeredAfterThree
  <2>5. table = [k \in Keys |-> Layered(k)]
    BY <2>4 DEF InputInv, InputOK
  <2> QED
    BY <2>1, <2>3, <2>5 DEF GoodLayersTo
<1> QED
  BY <1>1, <1>2 DEF PreparationIsDeterministic

\* What order place, modify, whatif and fee-plan prepare depends on the input
\* alone, not on the order in which Go visits maps (orders.go:34-72,
\* answers.go:10-55).
THEOREM PreparationDecides == Preparation => [](InputOK /\ PreparationIsDeterministic)
<1>1. InputInv => InputOK
  BY DEF InputInv
<1> QED
  BY <1>1, InputInitially, InputInvStep, InvDecides, PTL DEF Preparation

-----------------------------------------------------------------------------
(* The search for the answer to a warning.                                 *)

\* The order of keys, in which every set of them has a least one.
Earlier == OpToRel(<, Nat)

\* Earlier is the order of numbers as a relation.
LEMMA EarlierIsLess == \A k, l \in Nat : <<l, k>> \in Earlier <=> l < k
BY DEF Earlier, OpToRel

\* It is well-founded.
LEMMA EarlierIsWellFounded == IsWellFoundedOn(Earlier, Nat)
BY NatLessThanWellFounded, Zenon DEF Earlier

\* Of the keys that answer a warning there is a first one, however many they are.
LEMMA LeastKey ==
  ASSUME NEW S \in SUBSET Nat, S # {}
  PROVE  \E k \in S : \A l \in S : k <= l
<1>1. PICK k \in S : \A l \in S : <<l, k>> \notin Earlier
  BY EarlierIsWellFounded, WFMin
<1>2. \A l \in S : ~(l < k)
  BY <1>1, EarlierIsLess
<1> QED
  BY <1>2

\* The candidates are keys that have an answer.
LEMMA CandidatesAreKeys ==
  ASSUME InputOK, NEW w \in Warnings
  PROVE  Candidates(w) \in SUBSET Nat /\ \A k \in Candidates(w) : k \in Keys /\ table[k] # "none"
BY KeysAssumption, WarningsAssumption DEF Candidates

\* What Find says is the answer to one of the candidates.
LEMMA FoundAmongCandidates ==
  ASSUME InputOK, NEW w \in Warnings
  PROVE  \/ Candidates(w) = {} /\ Find(w) = "none"
         \/ \E k \in Candidates(w) : Find(w) = table[k]
<1> DEFINE first == CHOOSE k \in Candidates(w) : \A l \in Candidates(w) : k <= l
<1>1. CASE Candidates(w) = {}
  BY <1>1 DEF Find
<1>2. CASE Candidates(w) # {}
  <2>1. \E k \in Candidates(w) : \A l \in Candidates(w) : k <= l
    BY <1>2, CandidatesAreKeys, LeastKey
  <2>2. first \in Candidates(w)
    BY <2>1
  <2>3. Find(w) = table[first]
    BY <1>2, Zenon DEF Find
  <2> HIDE DEF first
  <2> QED
    BY <2>2, <2>3
<1> QED
  BY <1>1, <1>2

\* With the table that the layers make, what Find says of a warning is what they
\* say of its id, or else of a text in its message (confirmations.go:20-31).
LEMMA FoundIsJustified ==
  ASSUME InputOK, table = [k \in Keys |-> Layered(k)], NEW w \in Warnings
  PROVE  /\ Find(w) \in Answers
         /\ \A answer \in {"yes", "no"} : Find(w) = answer => Justified(w, answer)
         /\ Find(w) = "none" => \A answer \in {"yes", "no"} : ~Justified(w, answer)
<1>0. \A k \in Keys : table[k] = Layered(k) /\ table[k] \in Answers
  BY DEF InputOK
<1>1. CASE w.id \in Keys /\ table[w.id] # "none"
  <2>1. Candidates(w) = {w.id}
    BY <1>1 DEF Candidates
  <2>2. Find(w) = Layered(w.id)
    BY <1>0, <1>1, <2>1, FoundAmongCandidates
  <2> QED
    BY <1>0, <1>1, <2>2 DEF Justified
<1>2. CASE ~(w.id \in Keys /\ table[w.id] # "none")
  <2>1. Candidates(w) = {k \in w.texts : table[k] # "none"}
    BY <1>2 DEF Candidates
  <2>2. /\ w.texts \subseteq Keys
        /\ ~(w.id \in Keys /\ Layered(w.id) # "none")
    BY <1>0, <1>2, WarningsAssumption
  <2>3. CASE Candidates(w) = {}
    <3>1. \A k \in w.texts : Layered(k) = "none"
      BY <1>0, <2>1, <2>2, <2>3
    <3> QED
      BY <2>2, <2>3, <3>1, FoundAmongCandidates DEF Justified, Answers
  <2>4. CASE Candidates(w) # {}
    <3>1. PICK k \in Candidates(w) : Find(w) = table[k]
      BY <2>4, FoundAmongCandidates
    <3>2. k \in w.texts /\ Find(w) = Layered(k) /\ Find(w) # "none"
      BY <1>0, <2>1, <2>2, <3>1
    <3>3. Find(w) \in Answers
      BY <1>0, <2>2, <3>1, <3>2
    <3> QED
      BY <2>2, <3>2, <3>3 DEF Justified
  <2> QED
    BY <2>3, <2>4
<1> QED
  BY <1>1, <1>2

-----------------------------------------------------------------------------
(* The command as a whole.                                                 *)

\* A command that gave up has ended, and one that gave up for the answers did so
\* over the prompt at hand.
ExitTells ==
  /\ exit # "running" => pc = "done"
  /\ exit \in {"rejected", "unknown"} =>
       /\ response \in Responses /\ response.kind = "prompt"
       /\ answers[response.messages[1]] = IF exit = "rejected" THEN "reject" ELSE "unknown"

\* The inductive invariant of the dialogue, all parts of it.
DialogueInv == BoundInv /\ ReplyInv /\ OutcomeInv /\ ExitTells

\* Before the hand-over nothing happens at the broker; after it the answers are
\* those that Find gives with a table that stays.
CommandInv ==
  /\ InputInv /\ DialogueInv
  /\ mode = "auto"
  /\ stage # "sent" => /\ pc = "submit" /\ order = "none" /\ confirmed = {}
                       /\ exit = "running"
  /\ stage = "sent" => answers = [w \in Warnings |-> VerdictOn(Find(w))]

\* The dialogue gives up for the answer to the prompt at hand, once, and ends.
LEMMA ExitStep == BoundInv /\ ExitTells /\ [Next]_vars => ExitTells'
<1> SUFFICES ASSUME BoundInv, ExitTells, [Next]_vars
             PROVE  ExitTells'
  OBVIOUS
<1> USE DEF ExitTells
<1>0. response \in Responses
  BY DEF BoundInv, TypeOK, Responses, Prompts
<1>1. CASE Review \/ Limit \/ Finish \/ Unreadable \/ OperatorNo \/ OperatorGone
  BY <1>1 DEF Review, Limit, Finish, Unreadable, OperatorNo, OperatorGone, Received, Proceed,
              GiveUp
<1>2. CASE AutoAccept \/ OperatorYes
  BY <1>2 DEF AutoAccept, OperatorYes, Received, Approve
<1>3. CASE AutoReject \/ AutoUnknown
  BY <1>0, <1>3 DEF AutoReject, AutoUnknown, Received, Verdict, GiveUp
<1>4. CASE Submit \/ ReplyTrue \/ ReplyFalse
  BY <1>4 DEF Submit, ReplyTrue, ReplyFalse, Request
<1>5. CASE Write
  BY <1>5 DEF Write
<1>6. CASE UNCHANGED vars
  BY <1>6 DEF vars
<1> QED
  BY <1>1, <1>2, <1>3, <1>4, <1>5, <1>6 DEF Next, Operator, Program

\* The dialogue keeps its invariant, whoever leads it.
LEMMA DialogueStep == DialogueInv /\ [Next]_vars => DialogueInv'
BY BoundStep, ReplyStep, OutcomeStep, ExitStep DEF DialogueInv

\* No step of the preparation sends anything.
LEMMA PreparationSendsNothing ==
  ASSUME [Prepare]_inputVars, stage' = "sent"
  PROVE  stage = "sent"
BY DEF inputVars, Prepare, Refuse, Unusable, ParseEntry, DuplicateField, Check, Parsed, Rename,
       SkipLayer, ReadFails, ReadLayer, NotBoolean, LayerDone, AnswersRead, Merge

\* What was prepared is still so when it is sent.
LEMMA HandOverKeepsInput ==
  ASSUME InputInv, HandOver
  PROVE  InputInv'
<1>1. /\ stage = "send" /\ stage' = "sent"
      /\ UNCHANGED <<given, index, object, todo, parsed, table>>
      /\ UNCHANGED <<command, array, entries, layers>>
  BY DEF HandOver, given
<1>2. InputOK'
  BY <1>1 DEF InputInv, InputOK
<1>3. ParsingInv'
  BY <1>1, LaterStepsKeepParsing DEF InputInv
<1>4. MergingInv'
  BY <1>1 DEF InputInv, MergingInv, GoodLayersTo, GoodLayer, Skips, IsLayered, Answering
<1> QED
  BY <1>1, <1>2, <1>3, <1>4 DEF InputInv, RefusedIsFaulty

\* After the hand-over the answers have their types and are those of Find.
LEMMA VerdictsAreTyped ==
  ASSUME InputInv, stage \in {"send", "sent"}, NEW w \in Warnings
  PROVE  VerdictOn(Find(w)) \in Verdicts
<1>1. InputOK /\ table = [k \in Keys |-> Layered(k)]
  BY InvDecides DEF InputInv, PreparationIsDeterministic
<1>2. Find(w) \in Answers
  BY <1>1, FoundIsJustified
<1> QED
  BY <1>2 DEF Answers, VerdictOn, Verdicts

\* The command starts with nothing prepared and nothing sent.
LEMMA CommandInitially == CommandInit => CommandInv
<1> SUFFICES ASSUME CommandInit
             PROVE  CommandInv
  OBVIOUS
<1>1. /\ InputInv /\ stage = "parse"
      /\ mode = "auto" /\ answers = [w \in Warnings |-> "unknown"]
      /\ pc = "submit" /\ response = Nothing /\ count = 0 /\ approved = {}
      /\ order = "none" /\ confirmed = {} /\ exit = "running"
  BY InputInitially DEF CommandInit, Init, InputInit
<1>2. BoundInv
  BY <1>1, MaxRepliesAssumption DEF BoundInv, TypeOK, PromptIsNext, Nothing, Verdicts
<1>3. ReplyInv
  BY <1>1 DEF ReplyInv, DecisionIsFresh, ConfirmedWereDecided
<1>4. OutcomeInv
  BY <1>1 DEF OutcomeInv, OrderIsKnown, SuccessIsSettled, LiveAfterFailure, Failed, Reasons
<1>5. ExitTells
  BY <1>1 DEF ExitTells
<1> QED
  BY <1>1, <1>2, <1>3, <1>4, <1>5 DEF CommandInv, DialogueInv

\* Every step of the command keeps the invariant of both halves, and the table
\* that the answers come from.
LEMMA CommandStep == CommandInv /\ [CommandNext]_commandVars => CommandInv'
<1> SUFFICES ASSUME CommandInv, [CommandNext]_commandVars
             PROVE  CommandInv'
  OBVIOUS
<1>1. CASE PrepareOrder
  <2>1. [Prepare]_inputVars /\ UNCHANGED vars
    BY <1>1 DEF PrepareOrder
  <2>2. InputInv' /\ DialogueInv'
    BY <2>1, InputInvStep, DialogueStep DEF CommandInv
  <2>3. stage # "sent" /\ stage' # "sent"
    BY <1>1, <2>1, PreparationSendsNothing
       DEF PrepareOrder, Prepare, Refuse, Unusable, ParseEntry, DuplicateField, Check, Parsed,
           Rename, SkipLayer, ReadFails, ReadLayer, NotBoolean, LayerDone, AnswersRead, Merge
  <2> QED
    BY <2>1, <2>2, <2>3 DEF CommandInv, vars
<1>2. CASE HandOver
  <2>1. /\ stage = "send" /\ stage' = "sent" /\ UNCHANGED table
        /\ answers' = [w \in Warnings |-> VerdictOn(Find(w))]
        /\ UNCHANGED <<mode, pc, response, count, approved, order, confirmed, exit>>
    BY <1>2 DEF HandOver
  <2>2. mode = "auto" /\ pc = "submit" /\ confirmed = {} /\ exit = "running"
    BY <2>1 DEF CommandInv
  <2>3. answers' \in [Warnings -> Verdicts]
    BY <2>1, VerdictsAreTyped DEF CommandInv
  <2>4. BoundInv'
    BY <2>1, <2>3 DEF CommandInv, DialogueInv, BoundInv, TypeOK, PromptIsNext
  <2>5. ReplyInv'
    BY <2>1, <2>2 DEF ReplyInv, DecisionIsFresh, ConfirmedWereDecided
  <2>6. OutcomeInv'
    BY <2>1 DEF CommandInv, DialogueInv, OutcomeInv, OrderIsKnown, SuccessIsSettled,
                LiveAfterFailure, Failed
  <2>7. ExitTells'
    BY <2>1, <2>2 DEF ExitTells
  <2>8. \A w \in Warnings : Find(w)' = Find(w)
    BY <2>1 DEF Find, Candidates
  <2>9. answers' = [w \in Warnings |-> VerdictOn(Find(w)')]
    BY <2>1, <2>8
  <2> QED
    BY <1>2, <2>1, <2>2, <2>4, <2>5, <2>6, <2>7, <2>9, HandOverKeepsInput
       DEF CommandInv, DialogueInv, VerdictOn
<1>3. CASE Dialogue \/ UNCHANGED commandVars
  <2>1. [Next]_vars /\ UNCHANGED inputVars /\ (stage = "sent" \/ UNCHANGED vars)
    BY <1>3 DEF Dialogue, Next, commandVars
  <2>2. InputInv' /\ DialogueInv'
    BY <2>1, InputInvStep, DialogueStep DEF CommandInv
  <2>3. UNCHANGED <<stage, table>>
    BY <2>1 DEF inputVars
  <2>4. UNCHANGED <<mode, answers>>
    BY <2>1 DEF vars, Next, Operator, Program, Review, Submit, Limit, Finish, Unreadable,
                AutoAccept, AutoReject, AutoUnknown, OperatorYes, OperatorNo, OperatorGone,
                ReplyTrue, ReplyFalse, Write, Proceed, GiveUp, Approve, Request
  <2>5. \A w \in Warnings : Find(w)' = Find(w)
    BY <2>3 DEF Find, Candidates
  <2>6. stage' = "sent" => answers' = [w \in Warnings |-> VerdictOn(Find(w)')]
    BY <2>3, <2>4, <2>5 DEF CommandInv
  <2>7. stage' # "sent" => UNCHANGED <<pc, order, confirmed, exit>>
    BY <2>1, <2>3 DEF vars
  <2> QED
    BY <2>2, <2>3, <2>4, <2>6, <2>7 DEF CommandInv, VerdictOn
<1> QED
  BY <1>1, <1>2, <1>3 DEF CommandNext

\* The invariant of the composition holds throughout.
LEMMA CommandIsInvariant == Command => []CommandInv
BY CommandInitially, CommandStep, PTL DEF Command

\* The first message of a prompt is a warning.
LEMMA FirstIsWarning ==
  ASSUME NEW m \in Messages
  PROVE  m[1] \in Warnings
<1>1. PICK n \in 1 .. MaxMessages : m \in [1 .. n -> Warnings]
  BY DEF Messages
<1> QED
  BY <1>1, MaxMessagesAssumption

\* What the dialogue did with a warning is what the layers say of it.
LEMMA VerdictsAreJustified ==
  ASSUME CommandInv, stage = "sent", NEW w \in Warnings
  PROVE  /\ answers[w] = "accept" => Justified(w, "yes")
         /\ answers[w] = "reject" => Justified(w, "no")
         /\ answers[w] = "unknown" => \A answer \in {"yes", "no"} : ~Justified(w, answer)
<1>1. InputOK /\ table = [k \in Keys |-> Layered(k)]
  BY InvDecides DEF CommandInv, InputInv, PreparationIsDeterministic
<1>2. answers[w] = VerdictOn(Find(w))
  BY DEF CommandInv
<1>3. /\ Find(w) \in Answers
      /\ \A answer \in {"yes", "no"} : Find(w) = answer => Justified(w, answer)
      /\ Find(w) = "none" => \A answer \in {"yes", "no"} : ~Justified(w, answer)
  BY <1>1, FoundIsJustified
<1> QED
  BY <1>2, <1>3 DEF VerdictOn, Answers

\* The invariant says enough: what was confirmed or given up was prepared.
LEMMA InvJustifies == CommandInv => ConfirmationsAreJustified
<1> SUFFICES ASSUME CommandInv
             PROVE  ConfirmationsAreJustified
  OBVIOUS
<1>1. ASSUME order # "none"
      PROVE  GoodOrders /\ \A i \in 1 .. 3 : GoodLayer(i)
  BY <1>1, InvDecides DEF CommandInv, PreparationIsDeterministic
<1>2. ASSUME NEW c \in confirmed
      PROVE  Justified(c.messages[1], "yes")
  <2>1. stage = "sent" /\ answers[c.messages[1]] = "accept"
    BY <1>2 DEF CommandInv, DialogueInv, ReplyInv, ConfirmedWereDecided
  <2>2. PICK n \in 1 .. MaxReplies, m \in Messages : c = Prompt(n, m)
    BY <1>2 DEF CommandInv, DialogueInv, BoundInv, TypeOK
  <2>3. c.messages[1] \in Warnings
    BY <2>2, FirstIsWarning DEF Prompt
  <2> QED
    BY <2>1, <2>3, VerdictsAreJustified
<1>3. ASSUME exit \in {"rejected", "unknown"}
      PROVE  /\ stage = "sent" /\ response.messages[1] \in Warnings
             /\ answers[response.messages[1]]
                  = IF exit = "rejected" THEN "reject" ELSE "unknown"
  BY <1>3, PromptFields, FirstIsWarning DEF CommandInv, DialogueInv, ExitTells
<1> QED
  BY <1>1, <1>2, <1>3, VerdictsAreJustified DEF ConfirmationsAreJustified

\* The preparation keeps its types when it is part of a whole command: a parsed
\* order has neither nulls nor aliases (orders.go:34-47).
THEOREM CommandInputTyped == Command => []InputOK
<1>1. CommandInv => InputOK
  BY DEF CommandInv, InputInv
<1> QED
  BY <1>1, CommandIsInvariant, PTL

\* In a whole command too, what is prepared, and sent, depends on the input alone
\* (orders.go:34-72, answers.go:10-55).
THEOREM CommandDecides == Command => []PreparationIsDeterministic
<1>1. CommandInv => PreparationIsDeterministic
  BY InvDecides DEF CommandInv
<1> QED
  BY <1>1, CommandIsInvariant, PTL

\* From the command line to the broker: what is confirmed, turned down or left
\* unanswered is what the layers of answers say of the prompt, and an order that
\* reaches the broker is one of an input without faults (orders.go:101-146,
\* confirmations.go:20-31 and :89-105).
THEOREM ConfirmationsFollowInput == Command => []ConfirmationsAreJustified
BY CommandIsInvariant, InvJustifies, PTL

\* What was shown of the dialogue alone holds in the command (confirmations.go:90-112).
THEOREM CommandKeepsReplies ==
  Command => [](TypeOK /\ ConfirmedWereDecided /\ SuccessIsSettled /\ LiveAfterFailure)
<1>1. CommandInv => TypeOK /\ ConfirmedWereDecided /\ SuccessIsSettled /\ LiveAfterFailure
  BY DEF CommandInv, DialogueInv, BoundInv, ReplyInv, OutcomeInv
<1> QED
  BY <1>1, CommandIsInvariant, PTL

-----------------------------------------------------------------------------
(* The command implements OrderReplies.                                    *)

\* What the layers will say does not change.
LEMMA ForeseenStays ==
  ASSUME UNCHANGED given
  PROVE  UNCHANGED Foreseen
<1>1. \A k \in Keys : Layered(k)' = Layered(k)
  BY DEF given, Layered
<1>2. [k \in Keys |-> Layered(k)]' = [k \in Keys |-> Layered(k)]
  BY <1>1
<1>3. ASSUME NEW w \in Warnings
      PROVE  Settled!Find(w)' = Settled!Find(w)
  <2>1. Settled!Candidates(w)' = Settled!Candidates(w)
    BY <1>2 DEF Settled!Candidates
  <2> QED
    BY <1>2, <2>1 DEF Settled!Find
<1> QED
  BY <1>3 DEF Foreseen, VerdictOn

\* After the hand-over the answers are those foreseen.
LEMMA AnswersWereForeseen ==
  ASSUME CommandInv, stage = "sent"
  PROVE  answers = Foreseen
<1>1. table = [k \in Keys |-> Layered(k)]
  BY InvDecides DEF CommandInv, PreparationIsDeterministic
<1>2. \A w \in Warnings : Settled!Find(w) = Find(w)
  BY <1>1 DEF Settled!Find, Settled!Candidates, Find, Candidates
<1> QED
  BY <1>2 DEF CommandInv, Foreseen

\* The request to the broker is the same in both.
LEMMA RequestMaps ==
  ASSUME NEW turns, NEW next, NEW sent, UNCHANGED Foreseen, Request(turns, next, sent)
  PROVE  Replies!Request(turns, next, sent)
BY DEF Request, Replies!Request

\* So are the turns of the broker.
LEMMA TurnsMap ==
  /\ \A n : Turns(n) = Replies!Turns(n)
  /\ Declined = Replies!Declined
BY DEF Turns, Replies!Turns, Declined, Replies!Declined, Messages, Replies!Messages,
       Final, Replies!Final, Unexpected, Replies!Unexpected, Prompt, Replies!Prompt

\* Each step of the dialogue is the same step of OrderReplies.
LEMMA DialogueMaps ==
  ASSUME Program, answers = Foreseen, UNCHANGED Foreseen
  PROVE  Replies!Program
<1> USE DEF Received, Replies!Received, LoopOpen, Replies!LoopOpen
<1>1. CASE Limit \/ Finish \/ Unreadable
  BY <1>1 DEF Limit, Finish, Unreadable, Proceed, GiveUp, Replies!Limit, Replies!Finish,
              Replies!Unreadable, Replies!Proceed, Replies!GiveUp, Replies!Program
<1>2. CASE AutoAccept \/ AutoReject \/ AutoUnknown
  BY <1>2 DEF AutoAccept, AutoReject, AutoUnknown, Verdict, Approve, GiveUp,
              Replies!AutoAccept, Replies!AutoReject, Replies!AutoUnknown, Replies!Verdict,
              Replies!Approve, Replies!GiveUp, Replies!Program
<1>3. CASE Submit \/ ReplyTrue \/ ReplyFalse
  BY <1>3, RequestMaps, TurnsMap
     DEF Submit, ReplyTrue, ReplyFalse, Replies!Submit, Replies!ReplyTrue,
         Replies!ReplyFalse, Replies!Program
<1>4. CASE Write
  BY <1>4 DEF Write, Replies!Write, Replies!Program
<1> QED
  BY <1>1, <1>2, <1>3, <1>4 DEF Program

\* The command starts where OrderReplies does, with the answers it will read.
LEMMA InitMaps == CommandInit => Replies!Init
<1> SUFFICES ASSUME CommandInit
             PROVE  Replies!Init
  OBVIOUS
<1>1. Foreseen \in [Warnings -> Replies!Verdicts]
  BY DEF Foreseen, VerdictOn, Replies!Verdicts
<1>2. /\ mode = "auto" /\ pc = "submit" /\ response = Replies!Nothing /\ count = 0
      /\ approved = {} /\ order = "none" /\ confirmed = {} /\ exit = "running"
  BY DEF CommandInit, Init, Nothing, Replies!Nothing
<1> QED
  BY <1>1, <1>2 DEF Replies!Init

\* Each step of the command is a step of OrderReplies or none.
LEMMA StepMaps ==
  CommandInv /\ [CommandNext]_commandVars => [Replies!Next]_(Replies!vars)
<1> SUFFICES ASSUME CommandInv, [CommandNext]_commandVars
             PROVE  [Replies!Next]_(Replies!vars)
  OBVIOUS
<1>1. CASE PrepareOrder
  <2>1. UNCHANGED vars /\ UNCHANGED Foreseen
    BY <1>1, GivenStays, ForeseenStays DEF PrepareOrder
  <2> QED
    BY <2>1 DEF vars, Replies!vars
<1>2. CASE HandOver
  <2>1. UNCHANGED Foreseen
    BY <1>2, ForeseenStays DEF HandOver
  <2> QED
    BY <1>2, <2>1 DEF HandOver, Replies!vars
<1>3. CASE Dialogue
  <2>1. UNCHANGED Foreseen
    BY <1>3, ForeseenStays DEF Dialogue, inputVars
  <2> QED
    BY <1>3, <2>1, AnswersWereForeseen, DialogueMaps DEF Dialogue, Replies!Next
<1>4. CASE UNCHANGED commandVars
  <2>1. UNCHANGED vars /\ UNCHANGED Foreseen
    BY <1>4, ForeseenStays DEF commandVars, inputVars
  <2> QED
    BY <2>1 DEF vars, Replies!vars
<1> QED
  BY <1>1, <1>2, <1>3, <1>4 DEF CommandNext

\* order place and modify implement the dialogue of OrderReplies, with the answers
\* that their input gives: what is prepared before the first request is not seen
\* by the broker (orders.go:100-151).
THEOREM CommandImplementsReplies == Command => ImplementsOrderReplies
BY InitMaps, StepMaps, CommandIsInvariant, PTL
   DEF Command, ImplementsOrderReplies, Replies!Spec

=============================================================================
