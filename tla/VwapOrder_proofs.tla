--------------------------- MODULE VwapOrder_proofs ---------------------------
(***************************************************************************)
(* Proofs about VwapOrder, for every bound on the replies, the messages    *)
(* and the lines written ahead.                                            *)
(***************************************************************************)
EXTENDS VwapOrder, TLAPS

Questions == {"account", "ticker", "exchange", "side", "quantity", "limit", "start",
              "end", "percent", "prefix", "submit", "warning"}

Asking == at \in {"ask", "wait", "typing"}

\* A warning is asked about only for a prompt of an open loop, and what is sent
\* was decided by the last line.
SessionInv ==
  /\ question \in Questions
  /\ Asking /\ question = "warning" => response.kind = "prompt" /\ LoopOpen
  /\ at \in {"submit", "confirm"} => last = "yes"
  /\ at = "decline" => last # "yes"

-----------------------------------------------------------------------------
\* Steps outside the command.
LEMMA QuietKeepsSession ==
  ASSUME SessionInv, UNCHANGED <<dialogue, response, count>>
  PROVE  SessionInv'
BY DEF SessionInv, Asking, LoopOpen, dialogue

\* An answer, at the terminal or through the pipe.
LEMMA AnswerKeepsSession ==
  ASSUME SessionInv, Asking, NEW l, Answer(l)
  PROVE  SessionInv'
<1>1. last' = l /\ UNCHANGED <<response, count>>
  BY DEF Answer
<1>2. CASE /\ question \notin {"submit", "warning", "prefix"} /\ at' = "ask"
           /\ question' = Following[question]
  <2>1. question' \in Questions \ {"warning"}
    BY <1>2 DEF SessionInv, Questions, Following
  <2> QED
    BY <1>2, <2>1 DEF SessionInv, Asking
<1>3. CASE GoTo("ask") /\ question # "warning"
  BY <1>3 DEF SessionInv, Asking, GoTo
<1>4. CASE GoTo("lookup") \/ GoTo("done")
  BY <1>4 DEF SessionInv, Asking, GoTo
<1>5. CASE Affirms(l) /\ (GoTo("submit") \/ GoTo("confirm"))
  BY <1>1, <1>5 DEF SessionInv, Asking, GoTo, Affirms
<1>6. CASE ~Affirms(l) /\ GoTo("decline")
  BY <1>1, <1>6 DEF SessionInv, Asking, GoTo, Affirms
<1> QED
  BY <1>2, <1>3, <1>4, <1>5, <1>6 DEF Answer, GiveUp, GoTo

LEMMA SessionInvariant == Spec => []SessionInv
<1>1. Init => SessionInv
  BY DEF Init, SessionInv, Questions
<1>2. SessionInv /\ [Next]_vars => SessionInv'
  <2> SUFFICES ASSUME SessionInv, [Next]_vars
               PROVE  SessionInv'
    OBVIOUS
  <2>1. CASE Outside \/ ReaderTakes
    BY <2>1, QuietKeepsSession
       DEF Outside, Type, CloseStdin, Interrupt, ReaderTakes, replies
  <2>2. CASE Ask
    BY <2>2 DEF Ask, GoTo, GiveUp, SessionInv, Asking, LoopOpen
  <2>3. CASE Interrupted \/ InputEnds
    BY <2>3 DEF Interrupted, InputEnds, GoTo, GiveUp, SessionInv, Asking
  <2>4. CASE Receive \/ Enter
    BY <2>4, AnswerKeepsSession DEF Receive, Enter, Asking
  <2>5. CASE LookupStock \/ Build
    BY <2>5 DEF LookupStock, Build, Quietly, GoTo, GiveUp, SessionInv, Asking, Questions
  <2>6. CASE Submit \/ ReplyTrue \/ ReplyFalse
    BY <2>6 DEF Submit, ReplyTrue, ReplyFalse, Request, Unsent, GoTo, GiveUp, SessionInv, Asking
  <2>7. CASE Limit \/ Finish \/ Unreadable \/ Write
    BY <2>7 DEF Limit, Finish, Unreadable, Write, Quietly, GoTo, GiveUp, SessionInv, Asking
  <2>8. CASE Warn
    BY <2>8 DEF Warn, Read, Quietly, SessionInv, Asking, Questions, LoopOpen
  <2>9. CASE UNCHANGED vars
    BY <2>9, QuietKeepsSession DEF vars, replies
  <2> QED
    BY <2>1, <2>2, <2>3, <2>4, <2>5, <2>6, <2>7, <2>8, <2>9 DEF Next, Operator, Program
<1> QED
  BY <1>1, <1>2, PTL DEF Spec

-----------------------------------------------------------------------------
\* A sequence of lines without its first one.
LEMMA TailOfLines ==
  ASSUME NEW s \in Seq(Lines), s # <<>>
  PROVE  Head(s) \in Lines /\ Tail(s) \in Seq(Lines) /\ Len(Tail(s)) = Len(s) - 1
         /\ Len(s) \in Nat \ {0}
OBVIOUS

\* The counters modulo Window: one line more, and one line less.
LEMMA ForwardBoth ==
  ASSUME NEW n \in 0 .. Window - 1, NEW k \in Nat, k <= Ahead
  PROVE  /\ Forward(n, 1) \in 0 .. Window - 1
         /\ Forward(n, k) \in 0 .. Window - 1
         /\ k < Ahead => Forward(Forward(n, k), 1) = Forward(n, k + 1)
         /\ k > 0 => Forward(Forward(n, 1), k - 1) = Forward(n, k)
<1>1. Ahead \in Nat \ {0} /\ Window = Ahead + 1
  BY SessionAssumption DEF Window
<1> QED
  BY <1>1 DEF Forward

LEMMA NoLines == <<>> \in Seq(Lines) /\ Len(<<>>) = 0
OBVIOUS

\* The lines written and those read.
LinesOK ==
  /\ closed \in BOOLEAN /\ reader \in BOOLEAN
  /\ channel \in Lines \cup {"none", "end"}
  /\ stdin \in Seq(Lines) /\ buffer \in Seq(Lines)
  /\ typed \in 0 .. Window - 1 /\ read \in 0 .. Window - 1
  /\ Len(stdin) + Len(buffer) <= Ahead
  /\ typed = Forward(read, Len(stdin) + Len(buffer))

\* The command and its dialogue.
DialogueOK ==
  /\ terminal \in BOOLEAN /\ cancelled \in BOOLEAN /\ sound \in BOOLEAN
  /\ given \in {"none", "good", "bad"}
  /\ at \in {"ask", "wait", "typing", "lookup", "build", "submit", "loop", "confirm",
             "decline", "write", "done"}
  /\ question \in Questions
  /\ last \in Lines \cup {"none"}

\* A line that is written, and one that the goroutine takes.
LEMMA WrittenLine ==
  ASSUME LinesOK, Type
  PROVE  LinesOK'
<1>1. PICK l \in Lines : stdin' = Append(stdin, l)
  BY DEF Type
<1>2. stdin' \in Seq(Lines) /\ Len(stdin') = Len(stdin) + 1 /\ Len(stdin) \in Nat /\ Len(buffer) \in Nat
  BY <1>1 DEF LinesOK
<1>3. /\ Len(stdin) + Len(buffer) < Ahead /\ typed' = Forward(typed, 1)
      /\ UNCHANGED <<closed, reader, channel, buffer, read>>
  BY DEF Type
<1> DEFINE k == Len(stdin) + Len(buffer)
<1>4. k \in Nat /\ k < Ahead /\ Len(stdin') + Len(buffer') = k + 1
  BY <1>2, <1>3
<1>5. typed = Forward(read, k) /\ typed \in 0 .. Window - 1 /\ read \in 0 .. Window - 1
  BY DEF LinesOK
<1> HIDE DEF k
<1>6. k <= Ahead /\ k + 1 <= Ahead
  BY <1>4, SessionAssumption
<1>7. typed' \in 0 .. Window - 1 /\ typed' = Forward(read, k + 1)
  <2>1. Forward(typed, 1) = Forward(read, k + 1)
    BY <1>4, <1>5, <1>6, ForwardBoth
  <2>2. Forward(typed, 1) \in 0 .. Window - 1
    <3>1. 0 \in Nat /\ 0 <= Ahead
      BY SessionAssumption
    <3> QED
      BY <1>5, <3>1, ForwardBoth
  <2> QED
    BY <1>3, <2>1, <2>2
<1>8. UNCHANGED <<closed, reader, channel, buffer, read>>
  BY <1>3
<1>9. /\ closed' \in BOOLEAN /\ reader' \in BOOLEAN /\ channel' \in Lines \cup {"none", "end"}
      /\ buffer' \in Seq(Lines) /\ read' \in 0 .. Window - 1
  BY <1>8 DEF LinesOK
<1>10. typed' = Forward(read', Len(stdin') + Len(buffer'))
  BY <1>4, <1>7, <1>8
<1>11. Len(stdin') + Len(buffer') <= Ahead
  BY <1>4, <1>6
<1> QED
  BY <1>2, <1>7, <1>9, <1>10, <1>11 DEF LinesOK, Forward, Window

LEMMA TakenLine ==
  ASSUME LinesOK, ReaderTakes
  PROVE  LinesOK'
<1> DEFINE lines == IF buffer # <<>> THEN buffer ELSE stdin
<1>1. CASE lines = <<>>
  BY <1>1 DEF LinesOK, ReaderTakes, Forward, Window
<1>2. CASE lines # <<>>
  <2>1. /\ channel' = Head(lines) /\ buffer' = Tail(lines)
        /\ stdin' = IF buffer # <<>> THEN stdin ELSE <<>>
        /\ read' = Forward(read, 1) /\ reader' = FALSE
        /\ UNCHANGED <<closed, typed>>
    BY <1>2 DEF ReaderTakes
  <2>2. lines \in Seq(Lines)
    BY DEF LinesOK
  <2>3. /\ channel' \in Lines /\ buffer' \in Seq(Lines) /\ Len(buffer') = Len(lines) - 1
        /\ Len(lines) \in Nat \ {0}
    BY <1>2, <2>1, <2>2, TailOfLines
  <2>4. /\ stdin' \in Seq(Lines) /\ Len(stdin') \in Nat
        /\ Len(stdin') + Len(lines) = Len(stdin) + Len(buffer)
    <3>1. Len(stdin) \in Nat /\ Len(buffer) \in Nat /\ stdin \in Seq(Lines)
      BY DEF LinesOK
    <3>2. CASE buffer # <<>>
      BY <2>1, <3>1, <3>2
    <3>3. CASE buffer = <<>>
      <4>1. stdin' = <<>> /\ lines = stdin /\ Len(buffer) = 0
        BY <2>1, <3>3, NoLines
      <4> QED
        BY <3>1, <4>1, NoLines
    <3> QED
      BY <3>2, <3>3
  <2>5. /\ read' \in 0 .. Window - 1
        /\ Len(stdin') + Len(buffer') <= Ahead
        /\ typed = Forward(read', Len(stdin') + Len(buffer'))
    <3> DEFINE k == Len(stdin) + Len(buffer)
    <3>1. k \in 1 .. Ahead /\ Len(stdin') + Len(buffer') = k - 1
      <4>1. k \in Int /\ k <= Ahead
        BY DEF LinesOK
      <4> QED
        BY <2>3, <2>4, <4>1, SessionAssumption
    <3>2. typed = Forward(read, k) /\ read \in 0 .. Window - 1 /\ read' = Forward(read, 1)
      BY <2>1 DEF LinesOK
    <3> HIDE DEF k
    <3>3. read' \in 0 .. Window - 1 /\ typed = Forward(read', k - 1)
      <4>1. k \in Nat /\ k <= Ahead /\ k > 0
        BY <3>1, SessionAssumption
      <4> QED
        BY <3>2, <4>1, ForwardBoth
    <3> QED
      BY <3>1, <3>3, SessionAssumption
  <2> QED
    BY <2>1, <2>3, <2>4, <2>5 DEF LinesOK, Forward, Window
<1> QED
  BY <1>1, <1>2

\* Answers keep the types of the dialogue.
LEMMA AnswerKeepsDialogue ==
  ASSUME DialogueOK, NEW l \in Lines, Answer(l)
  PROVE  DialogueOK'
<1>1. last' = l /\ UNCHANGED <<terminal, given, cancelled>> /\ sound' \in BOOLEAN
  BY DEF Answer, DialogueOK
<1>2. at' \in {"ask", "lookup", "submit", "confirm", "decline", "done"}
  BY DEF Answer, GoTo, GiveUp
<1>3. question' = question \/ (question \notin {"submit", "warning", "prefix"}
                              /\ question' = Following[question])
  BY DEF Answer, GoTo, GiveUp
<1>4. question' \in Questions
  BY <1>3 DEF DialogueOK, Questions, Following
<1> QED
  BY <1>1, <1>2, <1>4 DEF DialogueOK

\* Types of the session; every line that is written is read once or is still
\* in the pipe or in the buffer (prompt.go:61-96).
THEOREM LinesAreKept == Spec => []TypeOK
<1>0. TypeOK <=> LinesOK /\ DialogueOK
  BY DEF TypeOK, LinesOK, DialogueOK, Questions
<1>1. Init => LinesOK /\ DialogueOK
  <2> SUFFICES ASSUME Init PROVE LinesOK /\ DialogueOK
    OBVIOUS
  <2>1. LinesOK
    <3>1. 0 \in 0 .. Window - 1 /\ Forward(0, 0 + 0) = 0 /\ 0 + 0 <= Ahead
      BY SessionAssumption DEF Forward, Window
    <3>2. Len(stdin) = 0 /\ Len(buffer) = 0 /\ stdin \in Seq(Lines) /\ buffer \in Seq(Lines)
      BY NoLines DEF Init
    <3>3. typed = 0 /\ read = 0 /\ channel = "none" /\ reader = FALSE /\ closed = FALSE
      BY DEF Init
    <3> QED
      BY <3>1, <3>2, <3>3 DEF LinesOK
  <2>2. DialogueOK
    BY DEF Init, DialogueOK, Questions
  <2> QED
    BY <2>1, <2>2
<1>2. LinesOK /\ DialogueOK /\ [Next]_vars => (LinesOK /\ DialogueOK)'
  <2> SUFFICES ASSUME LinesOK, DialogueOK, [Next]_vars
               PROVE  LinesOK' /\ DialogueOK'
    OBVIOUS
  <2>1. CASE Type
    BY <2>1, WrittenLine DEF Type, DialogueOK, dialogue
  <2>2. CASE CloseStdin \/ Interrupt
    BY <2>2 DEF CloseStdin, Interrupt, LinesOK, DialogueOK, dialogue, input, Forward, Window
  <2>3. CASE ReaderTakes
    BY <2>3, TakenLine DEF ReaderTakes, DialogueOK, dialogue
  <2>4. CASE Ask
    <3>1. /\ UNCHANGED <<stdin, closed, buffer, typed, read>>
          /\ reader' \in BOOLEAN /\ channel' \in Lines \cup {"none", "end"}
      BY <2>4 DEF Ask, KeepBuffer, input, LinesOK
    <3>2. LinesOK'
      BY <3>1 DEF LinesOK, Forward, Window
    <3>3. DialogueOK'
      BY <2>4 DEF Ask, GoTo, GiveUp, DialogueOK
    <3> QED
      BY <3>2, <3>3
  <2>5. CASE Receive
    <3>1. /\ channel' = "none" /\ UNCHANGED <<stdin, closed, buffer, reader, typed, read>>
      BY <2>5 DEF Receive
    <3>2. LinesOK'
      BY <3>1 DEF LinesOK, Forward, Window
    <3> QED
      BY <2>5, <3>2, AnswerKeepsDialogue DEF Receive
  <2>6. CASE Enter
    <3>1. LinesOK'
      BY <2>6 DEF Enter, input, LinesOK, Forward, Window
    <3> QED
      BY <2>6, <3>1, AnswerKeepsDialogue DEF Enter
  <2>7. CASE Interrupted \/ InputEnds
    <3>1. UNCHANGED <<input, terminal, given, cancelled, sound, last, question>> /\ at' = "done"
      BY <2>7 DEF Interrupted, InputEnds, GiveUp, GoTo
    <3> QED
      BY <3>1 DEF LinesOK, DialogueOK, input, Forward, Window
  <2>8. CASE \/ LookupStock \/ Build \/ Submit \/ Limit \/ Finish \/ Unreadable \/ Warn
             \/ ReplyTrue \/ ReplyFalse \/ Write
    <3>1. UNCHANGED <<input, terminal, given, cancelled, sound, last>>
      BY <2>8 DEF LookupStock, Build, Submit, Limit, Finish, Unreadable, Warn, ReplyTrue,
                  ReplyFalse, Write, Request, Quietly
    <3>2. /\ question' \in {question, "submit", "warning"}
          /\ at' \in {"ask", "build", "loop", "write", "done"}
      BY <2>8 DEF LookupStock, Build, Submit, Limit, Finish, Unreadable, Warn, ReplyTrue,
                  ReplyFalse, Write, Request, Unsent, GoTo, GiveUp
    <3> QED
      BY <3>1, <3>2 DEF LinesOK, DialogueOK, Questions, input, Forward, Window
  <2>9. CASE UNCHANGED vars
    BY <2>9 DEF vars, input, dialogue, LinesOK, DialogueOK, Forward, Window
  <2> QED
    BY <2>1, <2>2, <2>3, <2>4, <2>5, <2>6, <2>7, <2>8, <2>9 DEF Next, Outside, Operator, Program
<1> QED
  BY <1>0, <1>1, <1>2, PTL DEF Spec

-----------------------------------------------------------------------------
\* The broker receives an order, or a confirmation, only on the word of the
\* last line read, and nothing after an interrupt (vwap.go:46-75, prompt.go:53-59).
THEOREM OrdersHaveAYes == Spec => OrdersNeedAYes
<1> DEFINE Word == order' # order \/ confirmed' # confirmed =>
                     /\ ~cancelled
                     /\ IF at = "decline" THEN last # "yes" /\ order' = "refused"
                                          ELSE last = "yes"
<1>1. SessionInv /\ [Next]_vars => [Word]_vars
  <2> SUFFICES ASSUME SessionInv, Next
               PROVE  Word
    OBVIOUS
  <2>1. CASE Submit \/ ReplyTrue
    BY <2>1 DEF Submit, ReplyTrue, Request, Unsent, SessionInv
  <2>2. CASE ReplyFalse
    BY <2>2 DEF ReplyFalse, Request, Unsent, SessionInv, Replies!Declined
  <2>3. CASE Outside \/ ReaderTakes \/ Ask \/ Interrupted \/ InputEnds \/ Receive \/ Enter
    BY <2>3 DEF Outside, Type, CloseStdin, Interrupt, ReaderTakes, Ask, Interrupted,
                InputEnds, Receive, Enter, Answer, replies
  <2>4. CASE LookupStock \/ Build \/ Limit \/ Finish \/ Unreadable \/ Warn \/ Write
    BY <2>4 DEF LookupStock, Build, Limit, Finish, Unreadable, Warn, Write, Quietly
  <2> QED
    BY <2>1, <2>2, <2>3, <2>4 DEF Next, Operator, Program
<1> QED
  BY <1>1, SessionInvariant, PTL DEF Spec, OrdersNeedAYes

-----------------------------------------------------------------------------
\* Steps that OrderReplies does not see.
LEMMA Stutters ==
  ASSUME UNCHANGED replies, AbstractPc' = AbstractPc
  PROVE  UNCHANGED Replies!vars
BY DEF replies, Replies!vars

\* The command gives up at a question.
LEMMA GoneAtQuestion ==
  ASSUME SessionInv, Asking \/ at \in {"lookup", "build"},
         NEW reason \in {"input", "lookup", "invalid"}, GiveUp(reason),
         UNCHANGED <<response, count, approved, order, confirmed>>
  PROVE  Replies!Operator
<1>1. AbstractPc' = "done"
  BY DEF GiveUp, GoTo, AbstractPc
<1>2. CASE Asking /\ question = "warning"
  <2>1. AbstractPc = "loop"
    BY <1>2 DEF AbstractPc, Asking
  <2> QED
    BY <1>1, <1>2, <2>1 DEF SessionInv, LoopOpen, GiveUp, GoTo, Replies!Operator, Replies!OperatorGone,
       Replies!Received, Replies!LoopOpen, Replies!GiveUp
<1>3. CASE ~(Asking /\ question = "warning")
  <2>1. AbstractPc = "review"
    BY <1>3 DEF AbstractPc, Asking
  <2> QED
    BY <1>1, <2>1 DEF GiveUp, GoTo, Replies!Operator, Replies!Review, Replies!GiveUp
<1> QED
  BY <1>2, <1>3

\* An answer is the operator's step, or nothing that OrderReplies sees.
LEMMA AnswersRefine ==
  ASSUME SessionInv, Asking, NEW l, Answer(l)
  PROVE  Replies!Operator \/ UNCHANGED Replies!vars
<1>1. UNCHANGED <<response, count, order, confirmed>>
  BY DEF Answer
<1>2. CASE question \notin {"submit", "warning"}
  <2>1. AbstractPc = "review" /\ UNCHANGED <<approved, exit>>
    BY <1>2 DEF AbstractPc, Asking, Answer
  <2>2. at' = "lookup" \/ (at' = "ask" /\ question' # "warning")
    <3>1. CASE at' = "ask" /\ question' = Following[question] /\ question # "prefix"
      BY <1>2, <3>1 DEF SessionInv, Questions, Following
    <3>2. CASE GoTo("ask") \/ GoTo("lookup")
      BY <1>2, <3>2 DEF GoTo
    <3> QED
      BY <1>2, <3>1, <3>2 DEF Answer
  <2>3. AbstractPc' = "review"
    BY <2>2 DEF AbstractPc
  <2> QED
    BY <1>1, <2>1, <2>3, Stutters DEF replies
<1>3. CASE question = "submit"
  <2>1. AbstractPc = "review"
    BY <1>3 DEF AbstractPc, Asking
  <2>2. CASE GoTo("submit") /\ UNCHANGED <<approved, exit>>
    <3>1. AbstractPc' = "submit"
      BY <2>2 DEF GoTo, AbstractPc
    <3> QED
      BY <1>1, <2>1, <2>2, <3>1 DEF Replies!Operator, Replies!Review, Replies!Proceed
  <2>3. CASE GiveUp("cancelled") /\ UNCHANGED approved
    <3>1. AbstractPc' = "done"
      BY <2>3 DEF GiveUp, GoTo, AbstractPc
    <3> QED
      BY <1>1, <2>1, <2>3, <3>1
         DEF GiveUp, Replies!Operator, Replies!Review, Replies!GiveUp
  <2> QED
    BY <1>3, <2>2, <2>3 DEF Answer
<1>4. CASE question = "warning"
  <2>1. AbstractPc = "loop" /\ Replies!Received("prompt")
    BY <1>4 DEF AbstractPc, Asking, SessionInv, LoopOpen, Replies!Received, Replies!LoopOpen
  <2>2. CASE /\ GoTo("confirm") /\ UNCHANGED exit
             /\ approved' = approved \cup {response.id}
    <3>1. AbstractPc' = "confirm"
      BY <2>2 DEF GoTo, AbstractPc
    <3> QED
      BY <1>1, <2>1, <2>2, <3>1
         DEF Replies!Operator, Replies!OperatorYes, Replies!Approve
  <2>3. CASE GoTo("decline") /\ UNCHANGED <<approved, exit>>
    <3>1. AbstractPc' = "decline"
      BY <2>3 DEF GoTo, AbstractPc
    <3> QED
      BY <1>1, <2>1, <2>3, <3>1
         DEF Replies!Operator, Replies!OperatorNo, Replies!Proceed
  <2> QED
    BY <1>4, <2>2, <2>3 DEF Answer
<1> QED
  BY <1>2, <1>3, <1>4

\* A request, its loss included, is the same one.
LEMMA RequestsRefine ==
  ASSUME NEW turns, NEW label \in {"loop", "write"}, NEW sent,
         Request(turns, label, sent)
  PROVE  Replies!Request(turns, label, sent)
<1>1. at' \in {label, "done"} /\ AbstractPc' = at'
  BY DEF Request, Unsent, GiveUp, GoTo, AbstractPc
<1> QED
  BY <1>1 DEF Request, Unsent, GiveUp, GoTo, Replies!Request

\* Every step of a session is a step of OrderReplies, or it changes nothing that
\* OrderReplies sees: the questions, the lines, the reading goroutine and the
\* interrupt add no way to approve or to send anything (vwap.go:31-77).
THEOREM SessionImplementsReplies == Spec => ImplementsOrderReplies
<1>1. Init => Replies!Init
  <2> SUFFICES ASSUME Init PROVE Replies!Init
    OBVIOUS
  <2>1. AbstractPc = "review" /\ exit = "running"
    BY DEF Init, AbstractPc
  <2> QED
    BY <2>1 DEF Init, Replies!Init
<1>2. SessionInv /\ [Next]_vars => [Replies!Next]_Replies!vars
  <2> SUFFICES ASSUME SessionInv, [Next]_vars
               PROVE  Replies!Operator \/ Replies!Program \/ UNCHANGED Replies!vars
    BY DEF Replies!Next
  <2>1. CASE Outside \/ ReaderTakes
    BY <2>1, Stutters DEF Outside, Type, CloseStdin, Interrupt, ReaderTakes, dialogue, AbstractPc
  <2>2. CASE Ask
    <3>1. CASE (GoTo("typing") \/ GoTo("wait")) /\ UNCHANGED exit
      BY <2>2, <3>1, Stutters DEF Ask, GoTo, AbstractPc, replies
    <3>2. CASE GiveUp("input")
      BY <2>2, <3>2, GoneAtQuestion DEF Ask, Asking
    <3> QED
      BY <2>2, <3>1, <3>2 DEF Ask
  <2>3. CASE Interrupted \/ InputEnds
    BY <2>3, GoneAtQuestion DEF Interrupted, InputEnds, Asking
  <2>4. CASE Receive \/ Enter
    BY <2>4, AnswersRefine DEF Receive, Enter, Asking
  <2>5. CASE LookupStock \/ Build
    <3>1. CASE UNCHANGED exit /\ at' \in {"build", "ask"}
      BY <2>5, <3>1, Stutters DEF LookupStock, Build, GoTo, GiveUp, Quietly, AbstractPc, replies
    <3>2. CASE GiveUp("lookup") \/ GiveUp("invalid")
      BY <2>5, <3>2, GoneAtQuestion DEF LookupStock, Build, Quietly
    <3> QED
      BY <2>5, <3>1, <3>2 DEF LookupStock, Build, GoTo
  <2>6. CASE Submit
    BY <2>6, RequestsRefine DEF Submit, AbstractPc, Replies!Program, Replies!Submit
  <2>7. CASE ReplyTrue \/ ReplyFalse
    BY <2>7, RequestsRefine
       DEF ReplyTrue, ReplyFalse, AbstractPc, Replies!Program, Replies!ReplyTrue, Replies!ReplyFalse
  <2>8. CASE Limit
    BY <2>8 DEF Limit, LoopOpen, GiveUp, GoTo, Quietly, AbstractPc, Replies!Program,
                Replies!Limit, Replies!LoopOpen, Replies!GiveUp
  <2>9. CASE Finish
    BY <2>9 DEF Finish, Read, LoopOpen, GoTo, Quietly, AbstractPc, Replies!Program,
                Replies!Finish, Replies!Received, Replies!LoopOpen, Replies!Proceed
  <2>10. CASE Unreadable
    BY <2>10 DEF Unreadable, Read, LoopOpen, GiveUp, GoTo, Quietly, AbstractPc, Replies!Program,
                 Replies!Unreadable, Replies!Received, Replies!LoopOpen, Replies!GiveUp
  <2>11. CASE Warn
    BY <2>11, Stutters DEF Warn, Read, Quietly, AbstractPc, replies
  <2>12. CASE Write
    BY <2>12 DEF Write, GiveUp, GoTo, Quietly, AbstractPc, Replies!Program, Replies!Write
  <2>13. CASE UNCHANGED vars
    BY <2>13, Stutters DEF vars, dialogue, AbstractPc
  <2> QED
    BY <2>1, <2>2, <2>3, <2>4, <2>5, <2>6, <2>7, <2>8, <2>9, <2>10, <2>11, <2>12, <2>13
       DEF Next, Operator, Program
<1> QED
  BY <1>1, <1>2, SessionInvariant, PTL DEF Spec, ImplementsOrderReplies, Replies!Spec

=============================================================================
