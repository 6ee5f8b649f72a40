---------------------------- MODULE OrderCommand ----------------------------
(***************************************************************************)
(* order place and order modify as a whole (internal/cli/orders.go): what  *)
(* OrderInput prepares is sent, and its table of answers decides in        *)
(* OrderReplies what HandleConfirmations makes of the warnings.  fee-plan  *)
(* ends where it has its orders, whatif after the one request it sends.    *)
(*                                                                         *)
(* A warning is [id, texts]: its message id, and the answer keys that its  *)
(* message contains.                                                       *)
(***************************************************************************)
EXTENDS OrderInput, OrderReplies

ASSUME WarningsAssumption == \A w \in Warnings : w.texts \subseteq Keys

commandVars == <<inputVars, vars>>

\* Before readAnswers there are no answers, and nothing is answered.
CommandInit ==
  /\ InputInit
  /\ Init
  /\ mode = "auto" /\ answers = [w \in Warnings |-> "unknown"]

PrepareOrder == Prepare /\ UNCHANGED vars

\* HandleConfirmations accepts on true, and gives up on false or no answer.
VerdictOn(answer) ==
  CASE answer = "yes" -> "accept" [] answer = "no" -> "reject" [] OTHER -> "unknown"

\* The orders and the answers are there; a client that cannot be made counts as
\* a request that never reaches the broker.
HandOver ==
  /\ stage = "send" /\ command \in {"place", "modify"}
  /\ stage' = "sent"
  /\ answers' = [w \in Warnings |-> VerdictOn(Find(w))]
  /\ UNCHANGED <<given, index, object, todo, parsed, table>>
  /\ UNCHANGED <<mode, pc, response, count, approved, order, confirmed, exit>>

\* The POST and the confirmations.
Dialogue == stage = "sent" /\ Program /\ UNCHANGED inputVars

CommandNext == PrepareOrder \/ HandOver \/ Dialogue

Command == CommandInit /\ [][CommandNext]_commandVars

-----------------------------------------------------------------------------
(* Properties.                                                             *)

\* What the layers say of a warning: the key that is its id, or else one of
\* the texts in its message.
Justified(w, answer) ==
  IF w.id \in Keys /\ Layered(w.id) # "none" THEN Layered(w.id) = answer
  ELSE \E k \in w.texts : Layered(k) = answer

\* From the command line to the broker: nothing reaches the broker before every
\* order and every layer of answers is found good; a prompt is confirmed only if
\* the last layer that names the id of its first message accepts it, or none
\* names the id and a text of the message is accepted, and turned down only if
\* one of these rejects it; a missing answer is reported only if there is none
\* (orders.go:101-146, confirmations.go:20-31 and :89-105).
ConfirmationsAreJustified ==
  /\ order # "none" => GoodOrders /\ \A i \in 1 .. 3 : GoodLayer(i)
  /\ \A c \in confirmed : Justified(c.messages[1], "yes")
  /\ exit = "rejected" => Justified(response.messages[1], "no")
  /\ exit = "unknown" =>
       \A answer \in {"yes", "no"} : ~Justified(response.messages[1], answer)

-----------------------------------------------------------------------------
(* Refinement.                                                             *)

\* The answers that the input will give, from the start; OrderReplies begins
\* with some table of answers, and this is it.
Settled == INSTANCE OrderInput WITH table <- [k \in Keys |-> Layered(k)]
Foreseen == [w \in Warnings |-> VerdictOn(Settled!Find(w))]
Replies == INSTANCE OrderReplies WITH answers <- Foreseen

\* Preparation and hand-over change nothing that the broker can see, and the
\* dialogue is one of OrderReplies: order place and modify have all its safety
\* properties (orders.go:100-151).
ImplementsOrderReplies == Replies!Spec

=============================================================================
