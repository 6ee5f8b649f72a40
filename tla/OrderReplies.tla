---------------------------- MODULE OrderReplies ----------------------------
(***************************************************************************)
(* One order submission and the warnings IBKR puts before accepting it:    *)
(*   "auto"  order place / order modify (internal/cli/orders.go), whose    *)
(*           warnings HandleConfirmations answers from a table             *)
(*           (ibkr/confirmations.go);                                      *)
(*   "vwap"  vwap-order (internal/cli/vwap.go), whose warnings an operator *)
(*           answers at the terminal.                                      *)
(* The broker is external: it accepts the order, refuses it, or asks again.*)
(* A request that fails may have been handled by the broker or not, and    *)
(* nothing is retried (RequestJSON, ibkr/client.go).                       *)
(*                                                                         *)
(* A submission is one order, or one bracket that IBKR treats as one: a    *)
(* response holds one prompt.  The prompt itself may hold several messages.*)
(***************************************************************************)
EXTENDS Integers

CONSTANTS
  Warnings,     \* warning messages, as far as an answer tells them apart
  MaxReplies,   \* --max-replies
  MaxMessages   \* bound on the messages of one prompt

ASSUME MaxRepliesAssumption == MaxReplies \in Nat
ASSUME MaxMessagesAssumption == MaxMessages \in Nat \ {0}

VARIABLES
  mode,       \* which of the two loops runs
  answers,    \* what Answers.Find says of each warning
  pc,         \* where the command is
  response,   \* the last response of the broker
  count,      \* replies attempted
  approved,   \* ids of the prompts that the answers or the operator accepted
  order,      \* the order at the broker
  confirmed,  \* prompts for which the broker received confirmed = true
  exit        \* "running", "ok" or the reason the command failed

vars == <<mode, answers, pc, response, count, approved, order, confirmed, exit>>

Messages == UNION {[1 .. n -> Warnings] : n \in 1 .. MaxMessages}
Verdicts == {"accept", "reject", "unknown"}
Reasons == {"transport", "unexpected", "unknown", "rejected", "limit",
            "cancelled", "input", "write"}

Nothing == [kind |-> "nothing", id |-> 0, messages |-> <<>>]
Final == [kind |-> "final", id |-> 0, messages |-> <<>>]
Unexpected == [kind |-> "unexpected", id |-> 0, messages |-> <<>>]
Prompt(n, m) == [kind |-> "prompt", id |-> n, messages |-> m]

Init ==
  /\ \/ mode = "auto" /\ answers \in [Warnings -> Verdicts] /\ pc = "submit"
     \/ mode = "vwap" /\ answers = [w \in Warnings |-> "unknown"] /\ pc = "review"
  /\ response = Nothing
  /\ count = 0
  /\ approved = {}
  /\ order = "none"
  /\ confirmed = {}
  /\ exit = "running"

\* The command goes on without touching anything else, or gives up.
Proceed(next) ==
  /\ pc' = next
  /\ UNCHANGED <<mode, answers, response, count, approved, order, confirmed,
                 exit>>

GiveUp(reason) ==
  /\ pc' = "done"
  /\ exit' = reason
  /\ UNCHANGED <<mode, answers, response, count, approved, order, confirmed>>

-----------------------------------------------------------------------------
(* A request and the broker's side of it.                                  *)

\* What the broker may do with an order and answer for it; an answer that
\* ParseOrderPrompt cannot read (an object, a prompt without an id or without
\* a message) may come with any state of the order.
Turns(n) ==
  [order : {"placed"}, response : {Final, Unexpected}]
  \cup [order : {"refused"}, response : {Unexpected}]
  \cup [order : {"asking"},
        response : {Prompt(n, m) : m \in Messages} \cup {Unexpected}]

\* A warning answered with no ends the order; that answer is not looked at.
Declined == [order : {"refused"}, response : {Final, Unexpected}]

\* The broker takes its turn, having received the confirmations "sent", and
\* the answer arrives or is lost; or the request never reaches it.
Request(turns, next, sent) ==
  /\ \/ \E t \in turns :
          /\ order' = t.order
          /\ confirmed' = sent
          /\ \/ response' = t.response /\ pc' = next /\ UNCHANGED exit
             \/ UNCHANGED response /\ pc' = "done" /\ exit' = "transport"
     \/ /\ pc' = "done"
        /\ exit' = "transport"
        /\ UNCHANGED <<order, confirmed, response>>
  /\ UNCHANGED <<mode, answers, approved>>

-----------------------------------------------------------------------------
(* The command.                                                            *)

\* vwap-order shows the payload; the default answer is no.
Review ==
  /\ pc = "review"
  /\ Proceed("submit") \/ GiveUp("cancelled") \/ GiveUp("input")

Submit ==
  /\ pc = "submit"
  /\ Request(Turns(1), "loop", confirmed)
  /\ UNCHANGED count

\* The bug of one iteration too many.
LoopOpenInclusive == count <= MaxReplies

LoopOpen == count < MaxReplies

\* The bug of returning the last response when the loop is exhausted.
LimitReturnsResponse == pc = "loop" /\ ~LoopOpen /\ Proceed("write")

\* The loop is exhausted: the last response is not looked at.
Limit == pc = "loop" /\ ~LoopOpen /\ GiveUp("limit")

Received(kind) == pc = "loop" /\ LoopOpen /\ response.kind = kind

Finish == Received("final") /\ Proceed("write")

Unreadable == Received("unexpected") /\ GiveUp("unexpected")

Approve ==
  /\ pc' = "confirm"
  /\ approved' = approved \cup {response.id}
  /\ UNCHANGED <<mode, answers, response, count, order, confirmed, exit>>

\* The verdict on a prompt is the verdict on its first message.
Verdict == answers[response.messages[1]]

\* The bug of taking a missing answer for a yes.
AutoAcceptUnlessRejected ==
  mode = "auto" /\ Received("prompt") /\ Verdict # "reject" /\ Approve

AutoAccept ==
  mode = "auto" /\ Received("prompt") /\ Verdict = "accept" /\ Approve

AutoReject ==
  mode = "auto" /\ Received("prompt") /\ Verdict = "reject" /\ GiveUp("rejected")

\* The bug of looking the answer up only after the reply was sent.
AutoUnknownAfterReply ==
  /\ mode = "auto" /\ Received("prompt") /\ Verdict = "unknown"
  /\ pc' = "done"
  /\ exit' = "unknown"
  /\ \E t \in Turns(count + 2) : order' = t.order /\ response' = t.response
  /\ UNCHANGED <<mode, answers, count, approved, confirmed>>

AutoUnknown ==
  mode = "auto" /\ Received("prompt") /\ Verdict = "unknown" /\ GiveUp("unknown")

OperatorYes == mode = "vwap" /\ Received("prompt") /\ Approve

\* The bug of replying with the variable that still holds an earlier yes.
OperatorNoStale == mode = "vwap" /\ Received("prompt") /\ Proceed("confirm")

OperatorNo == mode = "vwap" /\ Received("prompt") /\ Proceed("decline")

\* The terminal closes or the command is interrupted at the question.
OperatorGone == mode = "vwap" /\ Received("prompt") /\ GiveUp("input")

\* The bug of a loop that never counts.
ReplyTrueUncounted ==
  /\ pc = "confirm"
  /\ Request(Turns(1), "loop", confirmed \cup {response})
  /\ UNCHANGED count

\* Prompt n + 1 is the one that may follow reply n.
ReplyTrue ==
  /\ pc = "confirm"
  /\ Request(Turns(count + 2), "loop", confirmed \cup {response})
  /\ count' = count + 1

\* vwap-order tells the broker no and returns its response as the result.
ReplyFalse ==
  /\ pc = "decline"
  /\ Request(Declined, "write", confirmed)
  /\ count' = count + 1

\* writeJSON prints the result or writes it to --output.
Write ==
  /\ pc = "write"
  /\ pc' = "done"
  /\ exit' \in {"ok", "write"}
  /\ UNCHANGED <<mode, answers, response, count, approved, order, confirmed>>

Operator == Review \/ OperatorYes \/ OperatorNo \/ OperatorGone

Program ==
  \/ Submit \/ Limit \/ Finish \/ Unreadable
  \/ AutoAccept \/ AutoReject \/ AutoUnknown
  \/ ReplyTrue \/ ReplyFalse \/ Write

Next == Operator \/ Program

\* Requests have a timeout and local steps just run; an operator may not answer.
Spec == Init /\ [][Next]_vars
FairSpec == Spec /\ WF_vars(Program)

-----------------------------------------------------------------------------
(* Properties.                                                             *)

Failed == exit \in Reasons

\* Type invariant; the replies stay within --max-replies.
TypeOK ==
  /\ mode \in {"auto", "vwap"}
  /\ answers \in [Warnings -> Verdicts]
  /\ pc \in {"review", "submit", "loop", "confirm", "decline", "write", "done"}
  /\ response \in {Nothing, Final, Unexpected}
                    \cup {Prompt(n, m) : n \in 1 .. MaxReplies + 1, m \in Messages}
  /\ count \in 0 .. MaxReplies
  /\ approved \subseteq 1 .. MaxReplies
  /\ order \in {"none", "asking", "placed", "refused"}
  /\ \A c \in confirmed : c \in {Prompt(n, m) : n \in 1 .. MaxReplies, m \in Messages}
  /\ exit \in {"running", "ok"} \cup Reasons

\* Each confirmation the broker receives answers a prompt that was itself
\* accepted, by the table or by the operator, and never one that came later; in
\* order place and modify its first message has the answer true.  The loops of
\* confirmations.go:90-105 and vwap.go:57-71 take a fresh decision for each
\* response.
ConfirmedWereDecided ==
  \A c \in confirmed :
    /\ c.id \in approved
    /\ mode = "auto" => answers[c.messages[1]] = "accept"

\* An exit status of success leaves no question open at the broker: the order
\* is placed, or an operator refused a warning and the broker was told so.
SuccessIsSettled ==
  exit = "ok" => order = "placed" \/ (mode = "vwap" /\ order = "refused")

\* A submission that failed for a warning (unknown, rejected or unanswered) or
\* a cancellation has no live order; one that failed with a live order failed
\* for a lost or unreadable response, the reply limit or its own output.
LiveAfterFailure ==
  Failed /\ order = "placed" => exit \in {"transport", "unexpected", "limit", "write"}

\* order place and modify end, however often the broker asks again.
AutoEnds == mode = "auto" ~> pc = "done"

\* As documented, a warning is confirmed only when the answers accept it, and so
\* each warning of a prompt (README.md:143); vwap-order asks about every warning
\* (README.md:225), where the question it asks is the first message.
EveryWarningDecided ==
  \A c \in confirmed : \A i \in DOMAIN c.messages :
    IF mode = "auto" THEN answers[c.messages[i]] = "accept"
                     ELSE c.messages[i] = c.messages[1]

=============================================================================
