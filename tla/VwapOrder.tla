------------------------------ MODULE VwapOrder ------------------------------
(***************************************************************************)
(* One vwap-order session (internal/cli/vwap.go) from its first question   *)
(* to its end: the questions for the order, the stock lookup, the payload, *)
(* the question whether to submit it and one for each warning.             *)
(* An operator answers at a terminal, or lines come through a pipe, where  *)
(* they may be written ahead of the questions and where readLine           *)
(* (internal/cli/prompt.go) reads in a goroutine through one buffer.       *)
(* A signal may cancel the command at any time (cmd/ibkr/main.go).         *)
(*                                                                         *)
(* OrderReplies is the abstract specification; this module implements it.  *)
(***************************************************************************)
EXTENDS Integers, Sequences

CONSTANTS
  Warnings, MaxReplies, MaxMessages,  \* as in OrderReplies
  Ahead   \* bound on the lines that are written but not yet read

ASSUME SessionAssumption ==
  MaxReplies \in Nat /\ MaxMessages \in Nat \ {0} /\ Ahead \in Nat \ {0}

VARIABLES
  terminal,   \* whether standard input is a terminal
  given,      \* the initial values, by flags or the environment: none, good or bad
  at,         \* where the command is
  question,   \* the question it is at
  sound,      \* whether the percentage entered is a positive number
  last,       \* the last line that answered a question
  stdin,      \* lines in the pipe
  closed,     \* whether the writer of the pipe has gone
  buffer,     \* lines in the bufio.Reader of the prompter
  reader,     \* whether a goroutine is reading a line
  channel,    \* what it has read for readLine
  typed, read,  \* lines written and lines received, modulo Window
  cancelled,  \* whether the context is cancelled
  response, count, approved, order, confirmed, exit  \* as in OrderReplies

input == <<stdin, closed, buffer, reader, channel, typed, read>>
dialogue == <<at, question, sound, last>>
replies == <<response, count, approved, order, confirmed, exit>>
vars == <<terminal, given, cancelled, input, dialogue, replies>>

\* "good" is a line that every question of a certain form accepts, "other"
\* one that none of them does; neither is a yes.
Lines == {"blank", "good", "other", "yes"}
Window == Ahead + 1
Forward(n, lines) == IF n + lines < Window THEN n + lines ELSE n + lines - Window

AbstractPc ==
  IF at \in {"ask", "wait", "typing"} /\ question = "warning" THEN "loop"
  ELSE IF at \in {"ask", "wait", "typing", "lookup", "build"} THEN "review"
  ELSE at

Replies == INSTANCE OrderReplies
  WITH mode <- "vwap", answers <- [w \in Warnings |-> "unknown"], pc <- AbstractPc,
       exit <- IF exit \in {"lookup", "invalid"} THEN "input" ELSE exit

Init ==
  /\ terminal \in BOOLEAN
  /\ given \in {"none", "good", "bad"}
  /\ at = "ask" /\ question = "account" /\ sound = TRUE /\ last = "none"
  /\ stdin = <<>> /\ closed = FALSE
  /\ buffer = <<>> /\ reader = FALSE /\ channel = "none"
  /\ typed = 0 /\ read = 0
  /\ cancelled = FALSE
  /\ response = Replies!Nothing
  /\ count = 0 /\ approved = {} /\ order = "none" /\ confirmed = {}
  /\ exit = "running"

GoTo(label) == at' = label /\ UNCHANGED question

GiveUp(reason) == GoTo("done") /\ exit' = reason

-----------------------------------------------------------------------------
(* The world outside: the writer of the pipe and the signal.               *)

Type ==
  /\ ~terminal /\ ~closed
  /\ Len(stdin) + Len(buffer) < Ahead
  /\ \E l \in Lines : stdin' = Append(stdin, l)
  /\ typed' = Forward(typed, 1)
  /\ UNCHANGED <<terminal, given, cancelled, closed, buffer, reader, channel, read,
                 dialogue, replies>>

\* A last line without a newline is an error like no line at all.
CloseStdin ==
  /\ ~terminal /\ ~closed
  /\ closed' = TRUE
  /\ UNCHANGED <<terminal, given, cancelled, stdin, buffer, reader, channel, typed,
                 read, dialogue, replies>>

Interrupt ==
  /\ ~cancelled
  /\ cancelled' = TRUE
  /\ UNCHANGED <<terminal, given, input, dialogue, replies>>

-----------------------------------------------------------------------------
(* readLine.                                                               *)

\* The bug of a prompter, and a buffer, for each question.
NewBuffer == buffer' = <<>>

\* One prompter serves all the questions of a command.
KeepBuffer == UNCHANGED buffer

Ask ==
  /\ at = "ask"
  /\ \/ /\ cancelled
        /\ GiveUp("input")
        /\ UNCHANGED input
     \/ /\ ~cancelled /\ terminal
        /\ GoTo("typing")
        /\ UNCHANGED <<input, exit>>
     \/ /\ ~cancelled /\ ~terminal
        /\ GoTo("wait")
        /\ reader' = TRUE
        /\ channel' = "none"
        /\ KeepBuffer
        /\ UNCHANGED <<stdin, closed, typed, read, exit>>
  /\ UNCHANGED <<terminal, given, cancelled, sound, last, response, count, approved,
                 order, confirmed>>

\* ReadString in the goroutine, which outlives an interrupted readLine: an
\* empty buffer takes all that is in the pipe.
ReaderTakes ==
  /\ reader
  /\ LET lines == IF buffer # <<>> THEN buffer ELSE stdin
     IN  \/ /\ lines # <<>>
            /\ channel' = Head(lines)
            /\ buffer' = Tail(lines)
            /\ stdin' = IF buffer # <<>> THEN stdin ELSE <<>>
            /\ read' = Forward(read, 1)
         \/ /\ lines = <<>> /\ closed
            /\ channel' = "end"
            /\ UNCHANGED <<buffer, stdin, read>>
  /\ reader' = FALSE
  /\ UNCHANGED <<terminal, given, cancelled, closed, typed, dialogue, replies>>

\* The bug of a read that does not look at the context.
InterruptedAtTerminal ==
  /\ at = "typing" /\ cancelled
  /\ GiveUp("input")
  /\ UNCHANGED <<terminal, given, cancelled, input, sound, last, response, count,
                 approved, order, confirmed>>

\* The context of readLine or of the terminal program is done.
Interrupted ==
  /\ at \in {"wait", "typing"} /\ cancelled
  /\ GiveUp("input")
  /\ UNCHANGED <<terminal, given, cancelled, input, sound, last, response, count,
                 approved, order, confirmed>>

\* Ctrl-C, Esc or Ctrl-D at the terminal; an input that ends or fails.
InputEnds ==
  /\ \/ at = "typing"
     \/ at = "wait" /\ channel = "end"
  /\ GiveUp("input")
  /\ UNCHANGED <<terminal, given, cancelled, input, sound, last, response, count,
                 approved, order, confirmed>>

-----------------------------------------------------------------------------
(* The answer to a question.                                               *)

Numbers == {"quantity", "limit"}

\* The question after each one; --side answers the one for the side.
Following ==
  [account |-> "ticker", ticker |-> "exchange",
   exchange |-> IF given = "none" THEN "side" ELSE "quantity", side |-> "quantity",
   quantity |-> "limit", limit |-> "start", start |-> "end", end |-> "percent",
   percent |-> "prefix"]

\* text, positiveNumber and the loop for the side: what a question accepts.
\* A blank line stands for the initial value.
Accepts(q, l) ==
  /\ q \in {"account", "ticker"} => l # "blank" \/ given # "none"
  /\ q \in Numbers => l = "good" \/ (l = "blank" /\ given = "good")
  /\ q = "side" => l \in {"good", "blank"}

\* The bug of yes as the default answer.
AffirmsBlank(l) == l \in {"yes", "blank"}

\* confirm: yes or y, in any case; the default is no.
Affirms(l) == l = "yes"

Answer(l) ==
  /\ last' = l
  /\ sound' = IF question = "percent"
              THEN l = "good" \/ (l = "blank" /\ given # "bad") ELSE sound
  /\ \/ /\ question \notin {"submit", "warning"} /\ ~Accepts(question, l)
        /\ GoTo("ask")
        /\ UNCHANGED <<approved, exit>>
     \/ /\ question \notin {"submit", "warning", "prefix"} /\ Accepts(question, l)
        /\ at' = "ask"
        /\ question' = Following[question]
        /\ UNCHANGED <<approved, exit>>
     \/ question = "prefix" /\ GoTo("lookup") /\ UNCHANGED <<approved, exit>>
     \/ question = "submit" /\ Affirms(l) /\ GoTo("submit") /\ UNCHANGED <<approved, exit>>
     \/ question = "submit" /\ ~Affirms(l) /\ GiveUp("cancelled") /\ UNCHANGED approved
     \/ /\ question = "warning" /\ Affirms(l)
        /\ GoTo("confirm")
        /\ approved' = approved \cup {response.id}
        /\ UNCHANGED exit
     \/ question = "warning" /\ ~Affirms(l) /\ GoTo("decline") /\ UNCHANGED <<approved, exit>>
  /\ UNCHANGED <<terminal, given, cancelled, response, count, order, confirmed>>

\* When the context is done as well, select picks either case.
Receive ==
  /\ at = "wait" /\ channel \in Lines
  /\ Answer(channel)
  /\ channel' = "none"
  /\ UNCHANGED <<stdin, closed, buffer, reader, typed, read>>

\* A line entered at the terminal counts only if the context is still alive.
Enter ==
  /\ at = "typing" /\ ~cancelled
  /\ \E l \in Lines : Answer(l)
  /\ UNCHANGED input

-----------------------------------------------------------------------------
(* The requests; one whose context is done is not sent.                    *)

Unsent == UNCHANGED <<order, confirmed, response>> /\ GiveUp("transport")

Request(turns, label, sent) ==
  /\ \/ Unsent
     \/ /\ ~cancelled
        /\ \E t \in turns :
             /\ order' = t.order
             /\ confirmed' = sent
             /\ \/ response' = t.response /\ GoTo(label) /\ UNCHANGED exit
                \/ UNCHANGED response /\ GiveUp("transport")
  /\ UNCHANGED <<terminal, given, cancelled, input, sound, last, approved>>

Quietly == UNCHANGED <<terminal, given, cancelled, input, sound, last, response, count,
                       approved, order, confirmed>>

LookupStock ==
  /\ at = "lookup"
  /\ \/ ~cancelled /\ GoTo("build") /\ UNCHANGED exit
     \/ GiveUp("lookup")
  /\ Quietly

\* BuildVwapOrder: the questions have seen to all but the percentage.
Build ==
  /\ at = "build"
  /\ \/ sound /\ at' = "ask" /\ question' = "submit" /\ UNCHANGED exit
     \/ ~sound /\ GiveUp("invalid")
  /\ Quietly

Submit ==
  /\ at = "submit"
  /\ Request(Replies!Turns(1), "loop", confirmed)
  /\ UNCHANGED count

\* The bug of one question too many.
LoopOpenInclusive == count <= MaxReplies

LoopOpen == count < MaxReplies

Limit == at = "loop" /\ ~LoopOpen /\ GiveUp("limit") /\ Quietly

Read(kind) == at = "loop" /\ LoopOpen /\ response.kind = kind

Finish == Read("final") /\ GoTo("write") /\ UNCHANGED exit /\ Quietly

Unreadable == Read("unexpected") /\ GiveUp("unexpected") /\ Quietly

Warn ==
  /\ Read("prompt")
  /\ at' = "ask" /\ question' = "warning"
  /\ UNCHANGED exit
  /\ Quietly

ReplyTrue ==
  /\ at = "confirm"
  /\ Request(Replies!Turns(count + 2), "loop", confirmed \cup {response})
  /\ count' = count + 1

ReplyFalse ==
  /\ at = "decline"
  /\ Request(Replies!Declined, "write", confirmed)
  /\ count' = count + 1

Write ==
  /\ at = "write"
  /\ GiveUp("ok") \/ GiveUp("write")
  /\ Quietly

Outside == Type \/ CloseStdin \/ Interrupt

Operator == Enter \/ (terminal /\ InputEnds)

Program ==
  \/ Ask \/ Interrupted \/ (~terminal /\ InputEnds) \/ Receive
  \/ LookupStock \/ Build \/ Submit
  \/ Limit \/ Finish \/ Unreadable \/ Warn \/ ReplyTrue \/ ReplyFalse \/ Write

Next == Outside \/ Operator \/ ReaderTakes \/ Program

\* The command and its goroutine run; nobody has to type, close or interrupt.
Spec == Init /\ [][Next]_vars
FairSpec == Spec /\ WF_vars(Program) /\ WF_vars(ReaderTakes)

-----------------------------------------------------------------------------
(* Properties.                                                             *)

\* Type invariant.  No line is lost or read twice: those written and not yet
\* read are in the pipe or in the buffer.
TypeOK ==
  /\ terminal \in BOOLEAN /\ closed \in BOOLEAN /\ cancelled \in BOOLEAN
  /\ given \in {"none", "good", "bad"}
  /\ at \in {"ask", "wait", "typing", "lookup", "build", "submit", "loop", "confirm",
             "decline", "write", "done"}
  /\ question \in {"account", "ticker", "exchange", "side", "quantity", "limit", "start",
                   "end", "percent", "prefix", "submit", "warning"}
  /\ sound \in BOOLEAN /\ reader \in BOOLEAN
  /\ last \in Lines \cup {"none"} /\ channel \in Lines \cup {"none", "end"}
  /\ stdin \in Seq(Lines) /\ buffer \in Seq(Lines)
  /\ typed \in 0 .. Window - 1 /\ read \in 0 .. Window - 1
  /\ Len(stdin) + Len(buffer) <= Ahead
  /\ typed = Forward(read, Len(stdin) + Len(buffer))

\* The broker receives the order, and each confirmation, only when the last line
\* read was a yes (not a blank one, and not an earlier line whose answer is still
\* around), a refusal only after another line, and nothing at all once the
\* command is interrupted, wherever that happens (vwap.go:46-75, prompt.go:70);
\* a request that is on its way by then counts as sent before.
OrdersNeedAYes ==
  [][order' # order \/ confirmed' # confirmed =>
       /\ ~cancelled
       /\ IF at = "decline" THEN last # "yes" /\ order' = "refused" ELSE last = "yes"]_vars

\* The session is one that OrderReplies allows: the questions, the reading of
\* lines and the interrupt change neither what is approved nor what is sent.
ImplementsOrderReplies == Replies!Spec

\* An interrupted command ends although nobody types anything, and so does
\* one whose input is closed: no question is asked again for ever.
EndsWhenAbandoned == cancelled \/ closed ~> at = "done"

=============================================================================
