--------------------------- MODULE AgentTurnProofs ---------------------------
(***************************************************************************)
(* Agent.Turn implements Conversation: whatever the model streams, the     *)
(* tools answer and the user cancels, the conversation stays one the       *)
(* provider accepts, and no tool call is left without a result.            *)
(***************************************************************************)
EXTENDS AgentTurn, SequenceTheorems, WellFoundedInduction, TLAPS

-----------------------------------------------------------------------------
(* The abstract conversation *)

\* A message that may follow the others leaves them well formed.
LEMMA WellFormedAppend ==
    ASSUME WellFormed, NEW m \in Message, conv' = Append(conv, m),
           Opens(conv, m) \/ Replies(conv, m) \/ ReturnsResults(conv, m)
    PROVE  WellFormed'
<1> USE DEF Message, LastMessage, EndsWithUser, EndsWithReply
<1>1. conv \in Seq(Message) /\ conv' \in Seq(Message) /\ Len(conv') = Len(conv) + 1
  BY DEF WellFormed
<1>2. conv'[Len(conv')] = m /\ \A i \in 1..Len(conv) : conv'[i] = conv[i]
  BY <1>1
<1>3. conv' # <<>> => conv'[1].role = "user" /\ conv'[1].results = <<>>
  <2>1. CASE conv = <<>>
    BY <2>1, <1>1, <1>2 DEF Opens, Replies, ReturnsResults
  <2>2. CASE conv # <<>>
    BY <2>2, <1>1, <1>2 DEF WellFormed
  <2> QED BY <2>1, <2>2
<1>4. ASSUME NEW i \in 1..Len(conv')
      PROVE  /\ conv'[i].role = "user" => conv'[i].calls = <<>>
             /\ conv'[i].role = "assistant" =>
                  conv'[i].results = <<>> /\ Answerable(conv'[i].calls)
  <2>1. CASE i = Len(conv')
    BY <2>1, <1>2 DEF Opens, Replies, ReturnsResults
  <2>2. CASE i \in 1..Len(conv)
    BY <2>2, <1>2 DEF WellFormed
  <2> QED BY <2>1, <2>2, <1>1
<1>5. ASSUME NEW i \in 1..(Len(conv') - 1)
      PROVE  /\ conv'[i].role # conv'[i+1].role
             /\ Answers(conv'[i+1].results, conv'[i].calls)
  <2>1. CASE i = Len(conv)
    <3>1. conv # <<>> /\ conv'[i] = LastMessage(conv) /\ conv'[i+1] = m
      BY <2>1, <1>1, <1>2
    <3>2. LastMessage(conv).role = "user" => LastMessage(conv).calls = <<>>
      BY <3>1, <1>1, <2>1 DEF WellFormed
    <3>3. CASE Opens(conv, m)
      BY <3>1, <3>3 DEF Opens, Answers
    <3>4. CASE Replies(conv, m)
      BY <3>1, <3>2, <3>4 DEF Replies, Answers
    <3>5. CASE ReturnsResults(conv, m)
      BY <3>1, <3>5 DEF ReturnsResults
    <3> QED BY <3>3, <3>4, <3>5
  <2>2. CASE i \in 1..(Len(conv) - 1)
    <3>1. i \in 1..Len(conv) /\ i + 1 \in 1..Len(conv)
      BY <2>2, <1>1
    <3> QED BY <2>2, <3>1, <1>2 DEF WellFormed
  <2> QED BY <2>1, <2>2, <1>1
<1> QED BY <1>1, <1>3, <1>4, <1>5 DEF WellFormed

LEMMA WellFormedExtend ==
    ASSUME WellFormed, NEW m \in Message, Lengthens(conv, m),
           conv' = [conv EXCEPT ![Len(conv)] = m]
    PROVE  WellFormed'
<1> DEFINE n == Len(conv)
<1>1. conv \in Seq(Message) /\ conv # <<>> /\ n \in Nat \ {0}
  BY DEF WellFormed, Lengthens, EndsWithUser
<1>2. conv' \in Seq(Message) /\ Len(conv') = n
  BY <1>1
<1>3. conv'[n] = m /\ \A i \in 1..n : i # n => conv'[i] = conv[i]
  BY <1>1
<1>4. m.role = conv[n].role /\ m.calls = conv[n].calls /\ m.results = conv[n].results
  <2>1. conv[n] \in Message
    BY <1>1
  <2> QED BY <2>1 DEF Lengthens, LastMessage, Message
<1>5. \A i \in 1..n : /\ conv'[i].role = conv[i].role
                      /\ conv'[i].calls = conv[i].calls
                      /\ conv'[i].results = conv[i].results
  BY <1>3, <1>4
<1> HIDE DEF n
<1>6. conv' # <<>> => conv'[1].role = "user" /\ conv'[1].results = <<>>
  BY <1>1, <1>2, <1>5 DEF WellFormed
<1>7. \A i \in 1..Len(conv') :
        /\ conv'[i].role = "user" => conv'[i].calls = <<>>
        /\ conv'[i].role = "assistant" =>
             conv'[i].results = <<>> /\ Answerable(conv'[i].calls)
  BY <1>2, <1>5 DEF WellFormed, n
<1>8. ASSUME NEW i \in 1..(Len(conv') - 1)
      PROVE  /\ conv'[i].role # conv'[i+1].role
             /\ Answers(conv'[i+1].results, conv'[i].calls)
  <2>1. i \in 1..n /\ i + 1 \in 1..n /\ i \in 1..(Len(conv) - 1)
    BY <1>1, <1>2 DEF n
  <2> QED BY <2>1, <1>5 DEF WellFormed
<1> QED BY <1>2, <1>6, <1>7, <1>8 DEF WellFormed

\* Every step allowed by the abstract specification keeps the conversation
\* well formed.
LEMMA GrowKeepsWellFormed == WellFormed /\ [Grow]_conv => WellFormed'
<1> SUFFICES ASSUME WellFormed, [Grow]_conv PROVE WellFormed'
  OBVIOUS
<1>1. CASE Grow
  BY <1>1, WellFormedAppend, WellFormedExtend DEF Grow
<1>2. CASE UNCHANGED conv
  BY <1>2 DEF WellFormed
<1> QED BY <1>1, <1>2

LEMMA EmptyWellFormed == Empty => WellFormed
  BY DEF Empty, WellFormed

\* A conversation that only ever grows by the rules is well formed for good:
\* what the provider requires of every request.
THEOREM ConversationWellFormed == Grows => []WellFormed
  BY EmptyWellFormed, GrowKeepsWellFormed, PTL DEF Grows

-----------------------------------------------------------------------------
(* The agent loop *)

\* While the calls of a reply are handled, that reply is the last message and
\* the results so far answer its first calls; otherwise there are none.
Handling ==
    /\ pc \in {"idle", "round", "stream"} => results = <<>>
    /\ pc \in {"invoke", "select"} =>
        /\ EndsWithReply(conv)
        /\ asm.calls = LastMessage(conv).calls
        /\ Len(results) < Len(asm.calls)
        /\ \A i \in 1..Len(results) : results[i].id = asm.calls[i].id

IInv == TypeOK /\ WellFormed /\ NothingUnanswered /\ Handling

-----------------------------------------------------------------------------
(* Types *)

LEMMA NewAssemblyType == NewAssembly \in Assembly
  BY DEF NewAssembly, Assembly

LEMMA MessageTypes ==
    /\ TextMessage \in Message
    /\ \A rs \in Seq(Result) : ResultMessage(rs) \in Message
    /\ \A b \in Seq(BodyBlock), cs \in Seq(Call) : AssistantMessage(b, cs) \in Message
  BY DEF TextMessage, ResultMessage, AssistantMessage, Message, BodyBlock

\* One event leaves an assembly an assembly.
LEMMA AcceptType ==
    ASSUME NEW a \in Assembly, NEW e \in StreamEvent
    PROVE  Accept(e, a) \in Assembly
<1>1. Violation(a) \in Assembly
  BY DEF Violation, Assembly
<1>b. Append(a.body, "text") \in Seq(BodyBlock) /\ Append(a.body, "thinking") \in Seq(BodyBlock)
  BY AppendProperties DEF Assembly, BodyBlock
<1>2. AcceptText(a) \in Assembly
  BY <1>1, <1>b DEF AcceptText, Assembly
<1>3. OpenThinking(a) \in Assembly
  BY <1>b DEF OpenThinking, Assembly
<1>4. AcceptThinkingDone(a, e.payload) \in Assembly
  <2>1. [OpenThinking(a) EXCEPT !.open = FALSE] \in Assembly
    BY <1>3 DEF Assembly
  <2> QED BY <2>1, <1>1 DEF AcceptThinkingDone
<1>5. ASSUME e.type = "call_end" PROVE AcceptCallEnd(a, e.call) \in Assembly
  <2>1. e.call \in Call
    BY <1>5 DEF StreamEvent
  <2>2. Append(a.calls, e.call) \in Seq(Call)
    BY <2>1, AppendProperties DEF Assembly
  <2> QED BY <1>1, <2>2 DEF AcceptCallEnd, Assembly
<1>6. AcceptDone(a) \in Assembly
  BY <1>1 DEF AcceptDone, Assembly
<1>7. [a EXCEPT !.err = "stream"] \in Assembly
  BY DEF Assembly
<1>8. e.type \in {"text", "thinking", "thinking_done", "call_end", "call_end_nil",
                  "message_done", "error"}
  BY DEF StreamEvent
<1> QED BY <1>1, <1>2, <1>3, <1>4, <1>5, <1>6, <1>7, <1>8 DEF Accept

\* Appending a message, in the conversation and in the record of it.
LEMMA Appending ==
    ASSUME TypeOK, NEW m \in Message, AppendMessage(m)
    PROVE  /\ conv' \in Seq(Message) /\ log' \in Seq(Record)
           /\ conv' # <<>> /\ LastMessage(conv') = m
<1>1. Appended(m) \in Record
  BY DEF Appended, Record
<1>2. conv \in Seq(Message) /\ log \in Seq(Record)
  BY DEF TypeOK
<1>3. conv' = Append(conv, m) /\ log' = Append(log, Appended(m))
  BY DEF AppendMessage
<1>4. conv' \in Seq(Message) /\ log' \in Seq(Record)
  BY <1>1, <1>2, <1>3, AppendProperties
<1>5. conv' # <<>> /\ Len(conv') = Len(conv) + 1 /\ conv'[Len(conv) + 1] = m
  BY <1>2, <1>3, AppendProperties
<1> QED BY <1>4, <1>5 DEF LastMessage

-----------------------------------------------------------------------------
(* The results of a round *)

\* What is returned for the calls of a reply answers them one by one.
LEMMA ShortCircuitAnswers ==
    ASSUME IInv, pc \in {"invoke", "select"},
           NEW st \in Statuses, NEW skip \in Statuses
    PROVE  /\ ShortCircuit(st, skip) \in Seq(Result)
           /\ Answers(ShortCircuit(st, skip), asm.calls)
<1> DEFINE n == Len(asm.calls)
           rs == ShortCircuit(st, skip)
<1>1. asm.calls \in Seq(Call) /\ n \in Nat /\ results \in Seq(Result)
  BY DEF IInv, TypeOK, Assembly
<1>2. At \in 1..n /\ At = Len(results) + 1
  BY <1>1 DEF IInv, Handling, At
<1>3. \A i \in 1..n : asm.calls[i].id \in CallIds
  <2>1. Answerable(asm.calls)
    <3>1. conv \in Seq(Message) /\ Len(conv) \in 1..Len(conv)
      BY DEF IInv, TypeOK, Handling, EndsWithReply
    <3> QED BY <3>1 DEF IInv, WellFormed, Handling, EndsWithReply, LastMessage
  <2> TAKE i \in 1..n
  <2>2. asm.calls[i] \in Call
    BY <1>1
  <2> QED BY <2>1, <2>2 DEF Answerable, Call
<1>4. ASSUME NEW i \in 1..n
      PROVE  rs[i] \in Result /\ rs[i].id = asm.calls[i].id
  <2>1. CASE i < At
    <3>1. rs[i] = results[i] /\ i \in 1..Len(results)
      BY <2>1, <1>1, <1>2 DEF ShortCircuit
    <3> QED BY <3>1, <1>1 DEF IInv, Handling
  <2>2. CASE ~(i < At)
    <3>1. \E s \in Statuses : rs[i] = [id |-> asm.calls[i].id, status |-> s]
      BY <2>2 DEF ShortCircuit, ResultWith
    <3> QED BY <3>1, <1>3 DEF Result
  <2> QED BY <2>1, <2>2
<1>5. rs = [i \in 1..n |-> rs[i]]
  BY DEF ShortCircuit
<1>6. rs \in Seq(Result) /\ Len(rs) = n
  BY <1>1, <1>4, <1>5
<1> QED BY <1>4, <1>6 DEF Answers

\* The message of a complete set of results continues the conversation.
LEMMA ResultsFollow ==
    ASSUME IInv, pc \in {"invoke", "select"}, NEW rs \in Seq(Result),
           Answers(rs, asm.calls), AppendMessage(ResultMessage(rs))
    PROVE  Grow
<1>1. ResultMessage(rs) \in Message
  BY MessageTypes
<1>2. conv' = Append(conv, ResultMessage(rs)) /\ conv' # <<>>
      /\ LastMessage(conv') = ResultMessage(rs)
  BY <1>1, Appending DEF IInv, AppendMessage
<1>3. LastMessage(conv).calls = asm.calls /\ asm.calls # <<>> /\ EndsWithReply(conv)
  BY DEF IInv, Handling, TypeOK, Assembly
<1>4. ReturnsResults(conv, ResultMessage(rs))
  BY <1>3 DEF ReturnsResults, ResultMessage
<1> QED BY <1>1, <1>2, <1>4 DEF Grow

\* addUserText: what it appends or extends is allowed when nothing is unanswered.
LEMMA UserTextFollows ==
    ASSUME IInv, pc = "idle", AddUserText
    PROVE  /\ Grow
           /\ EndsWithUser(conv')
           /\ log' \in Seq(Record)
<1>1. TextMessage \in Message
  BY MessageTypes
<1>2. CASE EndsWithUser(conv)
  <2> DEFINE n == Len(conv)
             m == [conv[n] EXCEPT !.body = Append(@, "text")]
  <2>1. conv \in Seq(Message) /\ conv # <<>> /\ n \in 1..n /\ conv[n] \in Message
    BY <1>2 DEF IInv, TypeOK, EndsWithUser
  <2>2. conv' = [conv EXCEPT ![n] = m]
    BY <1>2, <2>1 DEF AddUserText
  <2>3. Append(conv[n].body, "text") \in Seq(BodyBlock)
        /\ Append(conv[n].body, "text") # <<>>
        /\ Append(conv[n].body, "text")[Len(Append(conv[n].body, "text"))] = "text"
    BY <2>1, AppendProperties DEF Message, BodyBlock
  <2>4. m \in Message /\ m.body = Append(conv[n].body, "text") /\ m.role = conv[n].role
    BY <2>1, <2>3 DEF Message
  <2>5. conv' \in Seq(Message) /\ conv' # <<>> /\ LastMessage(conv') = m
    <3>1. [conv EXCEPT ![n] = m] \in Seq(Message) /\ Len([conv EXCEPT ![n] = m]) = n
          /\ [conv EXCEPT ![n] = m][n] = m
      <4> HIDE DEF m
      <4> QED BY <2>1, <2>4, ExceptSeq
    <3> QED BY <2>1, <2>2, <3>1 DEF LastMessage
  <2>6. Lengthens(conv, m)
    BY <1>2, <2>3, <2>4 DEF Lengthens, LastMessage
  <2>7. Grow
    BY <2>2, <2>4, <2>5, <2>6 DEF Grow
  <2>8. EndsWithUser(conv')
    BY <1>2, <2>4, <2>5 DEF EndsWithUser, LastMessage
  <2>9. log' \in Seq(Record)
    <3>1. Merged(TextMessage) \in Record
      BY <1>1 DEF Merged, Record
    <3>2. log \in Seq(Record) /\ log' = Append(log, Merged(TextMessage))
      BY <1>2 DEF AddUserText, IInv, TypeOK
    <3> QED BY <3>1, <3>2, AppendProperties
  <2> QED BY <2>7, <2>8, <2>9
<1>3. CASE ~EndsWithUser(conv)
  <2>1. AppendMessage(TextMessage)
    BY <1>3 DEF AddUserText
  <2>2. conv' = Append(conv, TextMessage) /\ conv' # <<>>
        /\ LastMessage(conv') = TextMessage /\ log' \in Seq(Record)
    BY <1>1, <2>1, Appending DEF IInv, AppendMessage
  <2>3. conv = <<>> \/ (EndsWithReply(conv) /\ LastMessage(conv).calls = <<>>)
    <3>1. conv # <<>> => LastMessage(conv) \in Message
      BY DEF IInv, TypeOK, LastMessage
    <3> QED BY <1>3, <3>1 DEF IInv, NothingUnanswered, EndsWithUser, EndsWithReply, Message
  <2>4. Opens(conv, TextMessage)
    BY <2>3 DEF Opens, TextMessage
  <2> QED BY <1>1, <2>2, <2>4 DEF Grow, EndsWithUser, TextMessage
<1> QED BY <1>2, <1>3

\* A reply that passed every check of the stream continues the conversation.
LEMMA ReplyFollows ==
    ASSUME IInv, StreamSucceeds
    PROVE  /\ Grow
           /\ EndsWithReply(conv') /\ LastMessage(conv').calls = asm.calls
           /\ log' \in Seq(Record)
<1> DEFINE m == AssistantMessage(asm.body, asm.calls)
<1>1. m \in Message
  BY MessageTypes DEF IInv, TypeOK, Assembly
<1>2. AppendMessage(m)
  BY DEF StreamSucceeds
<1>3. conv' = Append(conv, m) /\ conv' # <<>> /\ LastMessage(conv') = m
      /\ log' \in Seq(Record)
  BY <1>1, <1>2, Appending DEF IInv, AppendMessage
<1>4. Answerable(asm.calls) /\ (asm.body # <<>> \/ asm.calls # <<>>)
  BY DEF StreamSucceeds, StreamError, IInv, TypeOK, Assembly
<1>5. Replies(conv, m)
  BY <1>4 DEF Replies, AssistantMessage, IInv, NothingUnanswered, StreamSucceeds
<1> QED BY <1>1, <1>3, <1>5 DEF Grow, EndsWithReply, AssistantMessage

-----------------------------------------------------------------------------
(* One step *)

\* A step that ends the handling of a reply: all its calls are answered.
LEMMA RoundAnswered ==
    ASSUME IInv, pc \in {"invoke", "select"},
           NEW st \in Statuses, NEW skip \in Statuses,
           AppendMessage(ResultMessage(ShortCircuit(st, skip)))
    PROVE  /\ Grow
           /\ EndsWithUser(conv')
           /\ log' \in Seq(Record)
<1> DEFINE rs == ShortCircuit(st, skip)
<1>1. rs \in Seq(Result) /\ Answers(rs, asm.calls)
  BY ShortCircuitAnswers
<1>2. ResultMessage(rs) \in Message
  BY <1>1, MessageTypes
<1>3. Grow
  BY <1>1, ResultsFollow
<1>4. conv' # <<>> /\ LastMessage(conv') = ResultMessage(rs) /\ log' \in Seq(Record)
  BY <1>2, Appending DEF IInv
<1> QED BY <1>3, <1>4 DEF EndsWithUser, ResultMessage

\* What the growth of the conversation gives of the invariant.
LEMMA GrowKeepsConversation ==
    ASSUME IInv, [Grow]_conv
    PROVE  WellFormed' /\ conv' \in Seq(Message)
  BY GrowKeepsWellFormed DEF IInv, WellFormed

\* A step that returns to a state without calls at hand, the conversation
\* ending with a user message.
LEMMA NothingLeft ==
    ASSUME pc' \in {"idle", "round", "stream"}, results' = <<>>, EndsWithUser(conv')
    PROVE  NothingUnanswered' /\ Handling'
  BY DEF NothingUnanswered, Handling, EndsWithUser, EndsWithReply

LEMMA BeginTurnStep == IInv /\ BeginTurn => IInv' /\ [Grow]_conv
<1> SUFFICES ASSUME IInv, BeginTurn PROVE IInv' /\ [Grow]_conv
  OBVIOUS
<1>1. Grow /\ EndsWithUser(conv') /\ log' \in Seq(Record)
  BY UserTextFollows DEF BeginTurn
<1>2. WellFormed' /\ conv' \in Seq(Message)
  BY <1>1, GrowKeepsConversation
<1>3. TypeOK'
  BY <1>1, <1>2 DEF IInv, TypeOK, BeginTurn
<1>4. NothingUnanswered' /\ Handling'
  BY <1>1, NothingLeft DEF BeginTurn, IInv, Handling
<1> QED BY <1>1, <1>2, <1>3, <1>4 DEF IInv

\* Steps that leave the conversation alone, and the calls at hand.
LEMMA QuietStep ==
    ASSUME IInv, Cancel \/ TooManyRounds \/ SendRequest
                 \/ (\E e \in StreamEvent : StreamDelivers(e))
                 \/ (\E failed \in BOOLEAN : StreamFails(failed)) \/ Invoke \/ Tool
    PROVE  IInv' /\ [Grow]_conv
<1> USE DEF IInv
<1>0. UNCHANGED conv => WellFormed'
  BY DEF WellFormed
<1>1. CASE Cancel
  <2>1. TypeOK' BY <1>1 DEF Cancel, TypeOK
  <2>2. NothingUnanswered' /\ Handling' BY <1>1 DEF Cancel, NothingUnanswered, Handling
  <2> QED BY <2>1, <2>2, <1>0, <1>1 DEF Cancel
<1>2. CASE TooManyRounds
  <2>1. TypeOK' BY <1>2 DEF TooManyRounds, Return, TypeOK, Failures
  <2>2. NothingUnanswered' /\ Handling'
    BY <1>2 DEF TooManyRounds, Return, NothingUnanswered, Handling
  <2> QED BY <2>1, <2>2, <1>0, <1>2 DEF TooManyRounds
<1>3. CASE SendRequest
  <2>1. TypeOK' BY <1>3, NewAssemblyType DEF SendRequest, TypeOK
  <2>2. NothingUnanswered' /\ Handling'
    BY <1>3 DEF SendRequest, NothingUnanswered, Handling
  <2> QED BY <2>1, <2>2, <1>0, <1>3 DEF SendRequest
<1>4. ASSUME NEW e \in StreamEvent, StreamDelivers(e) PROVE IInv' /\ [Grow]_conv
  <2>1. TypeOK' BY <1>4, AcceptType DEF StreamDelivers, TypeOK
  <2>2. NothingUnanswered' /\ Handling'
    BY <1>4 DEF StreamDelivers, NothingUnanswered, Handling
  <2> QED BY <2>1, <2>2, <1>0, <1>4 DEF StreamDelivers
<1>5. ASSUME NEW failed \in BOOLEAN, StreamFails(failed) PROVE IInv' /\ [Grow]_conv
  <2>1. StreamError(failed) \in Failures
    BY <1>5 DEF StreamFails, StreamError, TypeOK, Assembly, Failures
  <2>2. TypeOK'
    BY <1>5, <2>1, NewAssemblyType DEF StreamFails, Return, TypeOK
  <2>3. NothingUnanswered' /\ Handling'
    BY <1>5 DEF StreamFails, Return, NothingUnanswered, Handling
  <2> QED BY <2>2, <2>3, <1>0, <1>5 DEF StreamFails
<1>6. CASE Invoke
  <2>1. Current \in Invocation
    BY DEF Current, At, Invocation, TypeOK
  <2>2. TypeOK' BY <1>6, <2>1 DEF Invoke, TypeOK
  <2>3. NothingUnanswered' /\ Handling'
    BY <1>6 DEF Invoke, NothingUnanswered, Handling
  <2> QED BY <2>2, <2>3, <1>0, <1>6 DEF Invoke
<1>7. ASSUME NEW inv \in running, NEW st \in ToolStatus, ToolReturns(inv, st)
      PROVE  IInv' /\ [Grow]_conv
  <2>1. TypeOK' BY <1>7 DEF ToolReturns, TypeOK
  <2>2. NothingUnanswered' /\ Handling'
    BY <1>7 DEF ToolReturns, NothingUnanswered, Handling
  <2> QED BY <2>1, <2>2, <1>0, <1>7 DEF ToolReturns
<1> QED BY <1>1, <1>2, <1>3, <1>4, <1>5, <1>6, <1>7 DEF Tool

LEMMA ReplyStep == IInv /\ StreamSucceeds => IInv' /\ [Grow]_conv
<1> SUFFICES ASSUME IInv, StreamSucceeds PROVE IInv' /\ [Grow]_conv
  OBVIOUS
<1>1. Grow /\ EndsWithReply(conv') /\ LastMessage(conv').calls = asm.calls
      /\ log' \in Seq(Record)
  BY ReplyFollows
<1>2. WellFormed' /\ conv' \in Seq(Message)
  BY <1>1, GrowKeepsConversation
<1>3. asm' \in Assembly /\ asm'.calls = asm.calls
  BY NewAssemblyType DEF StreamSucceeds, IInv, TypeOK, Assembly
<1>4. TypeOK'
  BY <1>1, <1>2, <1>3 DEF StreamSucceeds, Return, IInv, TypeOK
<1>5. results' = <<>> /\ asm.calls \in Seq(Call)
  BY DEF StreamSucceeds, IInv, Handling, TypeOK, Assembly
<1>6. NothingUnanswered' /\ Handling'
  <2>1. CASE asm.calls = <<>>
    BY <2>1, <1>1, <1>5 DEF StreamSucceeds, Return, NothingUnanswered, Handling
  <2>2. CASE asm.calls # <<>>
    <3>1. pc' = "invoke" /\ Len(results') < Len(asm'.calls)
      BY <2>2, <1>3, <1>5 DEF StreamSucceeds
    <3> QED BY <3>1, <1>1, <1>3, <1>5 DEF NothingUnanswered, Handling
  <2> QED BY <2>1, <2>2
<1> QED BY <1>1, <1>2, <1>4, <1>6 DEF IInv

LEMMA CancelledStep == IInv /\ (InvokeCancelled \/ SelectCancelled) => IInv' /\ [Grow]_conv
<1> SUFFICES ASSUME IInv, pc \in {"invoke", "select"}, TurnCancelled
             PROVE  IInv' /\ [Grow]_conv
  BY DEF InvokeCancelled, SelectCancelled
<1>1. Grow /\ EndsWithUser(conv') /\ log' \in Seq(Record)
  BY RoundAnswered DEF TurnCancelled, AppendResults, Statuses
<1>2. WellFormed' /\ conv' \in Seq(Message)
  BY <1>1, GrowKeepsConversation
<1>3. TypeOK'
  BY <1>1, <1>2, NewAssemblyType
     DEF TurnCancelled, AppendResults, Return, IInv, TypeOK, Failures
<1>4. NothingUnanswered' /\ Handling'
  BY <1>1, NothingLeft DEF TurnCancelled, AppendResults, Return
<1> QED BY <1>1, <1>2, <1>3, <1>4 DEF IInv

LEMMA UnknownStep == IInv /\ InvokeUnknown => IInv' /\ [Grow]_conv
<1> SUFFICES ASSUME IInv, InvokeUnknown PROVE IInv' /\ [Grow]_conv
  OBVIOUS
<1>1. Grow /\ EndsWithUser(conv') /\ log' \in Seq(Record)
  BY RoundAnswered DEF InvokeUnknown, EndRound, AppendResults, Statuses
<1>2. WellFormed' /\ conv' \in Seq(Message)
  BY <1>1, GrowKeepsConversation
<1>3. pc' \in {"idle", "round"} /\ results' = <<>>
  BY DEF InvokeUnknown, EndRound, AppendResults, Return
<1>4. TypeOK'
  BY <1>1, <1>2, NewAssemblyType
     DEF InvokeUnknown, EndRound, AppendResults, Return, IInv, TypeOK, Failures
<1>5. NothingUnanswered' /\ Handling'
  BY <1>1, <1>3, NothingLeft
<1> QED BY <1>1, <1>2, <1>4, <1>5 DEF IInv

LEMMA ResultStep == IInv /\ SelectResult => IInv' /\ [Grow]_conv
<1> SUFFICES ASSUME IInv, SelectResult PROVE IInv' /\ [Grow]_conv
  OBVIOUS
<1>1. CASE out = "ok" /\ At < Len(asm.calls)
  <2>1. results \in Seq(Result) /\ At = Len(results) + 1 /\ asm.calls \in Seq(Call)
        /\ ResultWith(At, "ok").id = asm.calls[At].id
    BY DEF At, ResultWith, IInv, TypeOK, Assembly
  <2>2. ResultWith(At, "ok") \in Result
    <3>1. ShortCircuit("ok", "ok") \in Seq(Result)
          /\ Answers(ShortCircuit("ok", "ok"), asm.calls)
      BY ShortCircuitAnswers DEF Statuses, SelectResult
    <3>2. At \in 1..Len(asm.calls)
      BY <1>1, <2>1
    <3>3. ShortCircuit("ok", "ok")[At] = ResultWith(At, "ok")
      BY <3>2, <2>1 DEF ShortCircuit
    <3> QED BY <3>1, <3>2, <3>3 DEF Answers
  <2>3. results' = Append(results, ResultWith(At, "ok")) /\ pc = "select"
        /\ pc' = "invoke" /\ UNCHANGED <<conv, asm>>
    BY <1>1 DEF SelectResult
  <2>4. results' \in Seq(Result) /\ Len(results') = At
        /\ results'[At] = ResultWith(At, "ok")
        /\ \A i \in 1..Len(results) : results'[i] = results[i]
    BY <2>1, <2>2, <2>3, AppendProperties
  <2>5. Handling'
    BY <1>1, <2>1, <2>3, <2>4 DEF IInv, Handling
  <2>6. TypeOK' /\ WellFormed'
    BY <1>1, <2>3, <2>4 DEF SelectResult, IInv, TypeOK, WellFormed
  <2> QED BY <2>3, <2>5, <2>6 DEF IInv, NothingUnanswered
<1>2. CASE ~(out = "ok" /\ At < Len(asm.calls))
  <2>1. EndRound(ShortCircuit(out, SkipStatus(out))) /\ pc' = "round" /\ pc = "select"
        /\ out \in Statuses /\ SkipStatus(out) \in Statuses
    BY <1>2 DEF SelectResult, SkipStatus, Statuses, IInv, TypeOK, ToolStatus
  <2>2. Grow /\ EndsWithUser(conv') /\ log' \in Seq(Record)
    BY <2>1, RoundAnswered DEF EndRound, AppendResults
  <2>3. WellFormed' /\ conv' \in Seq(Message)
    BY <2>2, GrowKeepsConversation
  <2>4. TypeOK'
    BY <2>1, <2>2, <2>3, NewAssemblyType
       DEF SelectResult, EndRound, AppendResults, IInv, TypeOK
  <2>5. NothingUnanswered' /\ Handling'
    BY <2>1, <2>2, NothingLeft DEF EndRound, AppendResults
  <2> QED BY <2>2, <2>3, <2>4, <2>5 DEF IInv
<1> QED BY <1>1, <1>2

LEMMA InitEstablishes == Init => IInv /\ Empty
<1> SUFFICES ASSUME Init PROVE IInv /\ Empty
  OBVIOUS
<1>1. TypeOK
  BY NewAssemblyType DEF Init, TypeOK
<1>2. WellFormed /\ Empty
  BY EmptyWellFormed DEF Init, Empty
<1>3. NothingUnanswered /\ Handling
  BY DEF Init, NothingUnanswered, Handling, EndsWithReply
<1> QED BY <1>1, <1>2, <1>3 DEF IInv

\* The invariant is inductive, and every step of the agent is one the abstract
\* conversation allows, or leaves it as it is.
LEMMA StepKeepsIInv == IInv /\ [Next]_vars => IInv' /\ [Grow]_conv
<1> SUFFICES ASSUME IInv, [Next]_vars PROVE IInv' /\ [Grow]_conv
  OBVIOUS
<1>1. CASE Next
  BY <1>1, BeginTurnStep, QuietStep, ReplyStep, CancelledStep, UnknownStep, ResultStep
     DEF Next, Agent, StreamEnds
<1>2. CASE UNCHANGED vars
  BY <1>2 DEF vars, IInv, TypeOK, WellFormed, NothingUnanswered, Handling
<1> QED BY <1>1, <1>2

\* The state of Agent.Turn keeps its types.
THEOREM TypeCorrect == Spec => []TypeOK
<1>1. IInv => TypeOK
  BY DEF IInv
<1> QED BY <1>1, InitEstablishes, StepKeepsIInv, PTL DEF Spec

\* The conversation is well formed at every step of every turn: roles alternate
\* and each reply's calls are answered in order by the next message.
THEOREM TurnWellFormed == Spec => []WellFormed
<1>1. IInv => WellFormed
  BY DEF IInv
<1> QED BY <1>1, InitEstablishes, StepKeepsIInv, PTL DEF Spec

\* However a turn ends, no tool call is left without a result, and a request
\* ends with a user message.
THEOREM TurnAnswersEveryCall == Spec => []NothingUnanswered
<1>1. IInv => NothingUnanswered
  BY DEF IInv
<1> QED BY <1>1, InitEstablishes, StepKeepsIInv, PTL DEF Spec

\* Agent.Turn implements Conversation: it only appends, and only what may follow.
THEOREM TurnImplementsConversation == Spec => Grows
  BY InitEstablishes, StepKeepsIInv, PTL DEF Spec, Grows

-----------------------------------------------------------------------------
(* The goroutines of the tools *)

\* Only a turn that has begun can be cancelled; a result waits in the channel
\* only while its call is being handled.
SequentialInv ==
    /\ SequentialInvocation
    /\ turn \in Nat /\ done \subseteq 1..turn
    /\ pc # "idle" => turn > 0
    /\ pc # "select" => out = "none"

LEMMA StepKeepsSequential == SequentialInv /\ [Next]_vars => SequentialInv'
<1> SUFFICES ASSUME SequentialInv, [Next]_vars PROVE SequentialInv'
  OBVIOUS
<1> USE DEF SequentialInv, SequentialInvocation, Current, At
<1>0. pc # "select" => \A inv \in running : inv.turn \in done
  OBVIOUS
<1>1. CASE BeginTurn
  BY <1>1, <1>0 DEF BeginTurn
<1>2. CASE Cancel
  BY <1>2 DEF Cancel
<1>3. CASE TooManyRounds \/ SendRequest
  BY <1>3, <1>0 DEF TooManyRounds, SendRequest, Return
<1>4. ASSUME NEW e \in StreamEvent, StreamDelivers(e) PROVE SequentialInv'
  BY <1>4, <1>0 DEF StreamDelivers
<1>5. CASE StreamEnds
  <2>1. pc = "stream" /\ pc' \in {"idle", "invoke"} /\ UNCHANGED <<turn, done, running, out>>
    BY <1>5 DEF StreamEnds, StreamSucceeds, StreamFails, Return
  <2> QED BY <2>1, <1>0
<1>6. CASE Tool
  <2> SUFFICES ASSUME NEW inv \in running, NEW st \in ToolStatus, ToolReturns(inv, st)
               PROVE  SequentialInv'
    BY <1>6 DEF Tool
  <2>1. UNCHANGED <<pc, turn, done, rounds, results>> /\ running' = running \ {inv}
        /\ out' = IF pc = "select" /\ inv = Current THEN st ELSE out
    BY DEF ToolReturns
  <2>2. st # "none"
    BY DEF ToolStatus
  <2> QED BY <2>1, <2>2
<1>7. CASE InvokeCancelled \/ InvokeUnknown
  <2>1. pc = "invoke" /\ pc' \in {"idle", "round"} /\ UNCHANGED <<turn, done, running>>
        /\ out' = "none"
    BY <1>7 DEF InvokeCancelled, InvokeUnknown, TurnCancelled, EndRound, AppendResults, Return
  <2> QED BY <2>1, <1>0
<1>8. CASE Invoke
  <2>1. Current \notin running
    BY <1>8, <1>0 DEF Invoke
  <2> QED BY <1>8, <1>0, <2>1 DEF Invoke
<1>9. CASE SelectCancelled
  <2>1. pc' = "idle" /\ turn \in done /\ UNCHANGED <<turn, done, running>> /\ out' = "none"
    BY <1>9 DEF SelectCancelled, TurnCancelled, AppendResults, Return
  <2> QED BY <2>1
<1>10. CASE SelectResult
  <2>1. pc = "select" /\ pc' \in {"invoke", "round"} /\ UNCHANGED <<turn, done, running>>
        /\ out # "none" /\ out' = "none"
    BY <1>10 DEF SelectResult, EndRound, AppendResults
  <2>2. Current \notin running
    BY <2>1
  <2> QED BY <2>1, <2>2
<1>11. CASE UNCHANGED vars
  BY <1>11 DEF vars
<1> QED
  BY <1>1, <1>2, <1>3, <1>4, <1>5, <1>6, <1>7, <1>8, <1>9, <1>10, <1>11 DEF Next, Agent

\* One tool at a time runs for a turn that is not cancelled, and a call gets the
\* result of its own goroutine.
THEOREM TurnInvokesSequentially == Spec => []SequentialInvocation
<1>1. Init => SequentialInv
  BY DEF Init, SequentialInv, SequentialInvocation
<1>2. SequentialInv => SequentialInvocation
  BY DEF SequentialInv
<1> QED BY <1>1, <1>2, StepKeepsSequential, PTL DEF Spec

-----------------------------------------------------------------------------
(* What a failed call does to the ones after it *)

\* FirstFailureStops of one set of results.
Stopped(rs) ==
    \A i, j \in 1..Len(rs) :
        rs[i].status # "ok" /\ i < j =>
            rs[j].status = IF rs[i].status = "policy_denied" THEN "policy_denied"
                           ELSE "cancelled"

\* While calls are at hand, no call before them has failed.
FailureInv ==
    /\ IInv
    /\ FirstFailureStops
    /\ \A i \in 1..Len(results) : results[i].status = "ok"

\* What a failed call, or the last one, makes of the round.
LEMMA ShortCircuitStops ==
    ASSUME FailureInv, pc \in {"invoke", "select"}, NEW st \in Statuses,
           st # "ok" \/ At = Len(asm.calls)
    PROVE  /\ ShortCircuit(st, SkipStatus(st)) \in Seq(Result)
           /\ Stopped(ShortCircuit(st, SkipStatus(st)))
<1> DEFINE rs == ShortCircuit(st, SkipStatus(st))
           n == Len(asm.calls)
<1>1. SkipStatus(st) \in Statuses
  BY DEF SkipStatus, Statuses
<1>2. rs \in Seq(Result) /\ Answers(rs, asm.calls)
  BY <1>1, ShortCircuitAnswers DEF FailureInv
<1>3. At \in 1..n /\ At = Len(results) + 1 /\ Len(results) \in Nat /\ n \in Nat
  BY DEF FailureInv, IInv, TypeOK, Handling, At, Assembly
<1>4. Len(rs) = n
  BY <1>2 DEF Answers
<1>5. ASSUME NEW i \in 1..n
      PROVE  rs[i].status = IF i < At THEN "ok" ELSE IF i = At THEN st ELSE SkipStatus(st)
  <2>1. CASE i < At
    <3>1. rs[i] = results[i] /\ i \in 1..Len(results)
      BY <1>3, <2>1 DEF ShortCircuit
    <3> QED BY <2>1, <3>1 DEF FailureInv
  <2>2. CASE ~(i < At)
    BY <2>2 DEF ShortCircuit, ResultWith
  <2> QED BY <2>1, <2>2
<1>6. Stopped(rs)
  <2> HIDE DEF rs
  <2> SUFFICES ASSUME NEW i \in 1..n, NEW j \in 1..n, rs[i].status # "ok", i < j
               PROVE  rs[j].status = IF rs[i].status = "policy_denied" THEN "policy_denied"
                                     ELSE "cancelled"
    BY <1>4 DEF Stopped
  <2>1. ~(i < At) /\ ~(j < At) /\ j # At
    BY <1>3, <1>5
  <2> QED BY <1>5, <2>1 DEF SkipStatus
<1> QED BY <1>2, <1>6

LEMMA AppendKeepsStopped ==
    ASSUME TypeOK, FirstFailureStops, NEW m \in Message, Stopped(m.results),
           conv' = Append(conv, m)
    PROVE  FirstFailureStops'
<1>1. conv \in Seq(Message) /\ Len(conv') = Len(conv) + 1 /\ conv'[Len(conv) + 1] = m
      /\ \A k \in 1..Len(conv) : conv'[k] = conv[k]
  BY AppendProperties DEF TypeOK
<1>2. \A k \in 1..Len(conv') : Stopped(conv'[k].results)
  BY <1>1 DEF FirstFailureStops, Stopped
<1> QED BY <1>2 DEF FirstFailureStops, Stopped

\* The results of a round are appended.
LEMMA ResultsKeepStopped ==
    ASSUME FailureInv, pc \in {"invoke", "select"}, NEW st \in Statuses,
           st # "ok" \/ At = Len(asm.calls),
           AppendResults(ShortCircuit(st, SkipStatus(st)))
    PROVE  FirstFailureStops' /\ results' = <<>>
<1> DEFINE rs == ShortCircuit(st, SkipStatus(st))
<1>1. rs \in Seq(Result) /\ Stopped(rs)
  BY ShortCircuitStops
<1>2. ResultMessage(rs) \in Message /\ ResultMessage(rs).results = rs
  BY <1>1, MessageTypes DEF ResultMessage
<1>3. conv' = Append(conv, ResultMessage(rs)) /\ results' = <<>>
  BY DEF AppendResults, AppendMessage
<1> QED BY <1>1, <1>2, <1>3, AppendKeepsStopped DEF FailureInv, IInv

LEMMA UserTextKeepsStopped ==
    ASSUME FailureInv, AddUserText
    PROVE  FirstFailureStops'
<1>1. CASE EndsWithUser(conv)
  <2>1. conv \in Seq(Message) /\ Len(conv) \in 1..Len(conv) /\ conv[Len(conv)] \in Message
    BY <1>1 DEF FailureInv, IInv, TypeOK, EndsWithUser
  <2>2. conv' = [conv EXCEPT ![Len(conv)].body = Append(@, "text")]
    BY <1>1 DEF AddUserText
  <2>3. Len(conv') = Len(conv) /\ \A k \in 1..Len(conv) : conv'[k].results = conv[k].results
    BY <2>1, <2>2 DEF Message
  <2> QED BY <2>3 DEF FailureInv, FirstFailureStops
<1>2. CASE ~EndsWithUser(conv)
  <2>1. TextMessage \in Message /\ Stopped(TextMessage.results)
    BY MessageTypes DEF TextMessage, Stopped
  <2> QED BY <1>2, <2>1, AppendKeepsStopped DEF AddUserText, AppendMessage, FailureInv, IInv
<1> QED BY <1>1, <1>2

LEMMA StepKeepsFailure == FailureInv /\ [Next]_vars => FailureInv'
<1> SUFFICES ASSUME FailureInv, [Next]_vars
             PROVE  FirstFailureStops' /\ \A i \in 1..Len(results') : results'[i].status = "ok"
  BY StepKeepsIInv DEF FailureInv
<1> USE DEF FailureInv
<1>0. /\ UNCHANGED conv => FirstFailureStops'
      /\ results' \in {results, <<>>} => \A i \in 1..Len(results') : results'[i].status = "ok"
  BY DEF FirstFailureStops
<1>1. CASE BeginTurn
  BY <1>1, <1>0, UserTextKeepsStopped DEF BeginTurn
<1>2. CASE Cancel \/ TooManyRounds \/ SendRequest \/ Invoke \/ Tool
           \/ (\E e \in StreamEvent : StreamDelivers(e))
           \/ (\E failed \in BOOLEAN : StreamFails(failed))
  BY <1>2, <1>0 DEF Cancel, TooManyRounds, SendRequest, Invoke, Tool, ToolReturns,
                    StreamDelivers, StreamFails
<1>3. CASE StreamSucceeds
  <2>1. AssistantMessage(asm.body, asm.calls) \in Message
        /\ Stopped(AssistantMessage(asm.body, asm.calls).results)
    BY MessageTypes DEF IInv, TypeOK, Assembly, AssistantMessage, Stopped
  <2>2. FirstFailureStops'
    BY <1>3, <2>1, AppendKeepsStopped DEF StreamSucceeds, AppendMessage, IInv
  <2> QED BY <1>3, <1>0, <2>2 DEF StreamSucceeds
<1>4. CASE InvokeCancelled \/ SelectCancelled
  <2>1. AppendResults(ShortCircuit("cancelled", SkipStatus("cancelled")))
        /\ pc \in {"invoke", "select"} /\ "cancelled" \in Statuses
    BY <1>4 DEF InvokeCancelled, SelectCancelled, TurnCancelled, SkipStatus, Statuses
  <2> QED BY <1>0, <2>1, ResultsKeepStopped
<1>5. CASE InvokeUnknown
  <2>1. AppendResults(ShortCircuit("tool_input_invalid", SkipStatus("tool_input_invalid")))
        /\ pc \in {"invoke", "select"} /\ "tool_input_invalid" \in Statuses
    BY <1>5 DEF InvokeUnknown, EndRound, SkipStatus, Statuses
  <2> QED BY <1>0, <2>1, ResultsKeepStopped
<1>6. CASE SelectResult
  <2>1. CASE out = "ok" /\ At < Len(asm.calls)
    <3>1. results' = Append(results, ResultWith(At, "ok")) /\ UNCHANGED conv
      BY <1>6, <2>1 DEF SelectResult
    <3>2. results \in Seq(Result) /\ ResultWith(At, "ok").status = "ok"
      BY DEF IInv, TypeOK, ResultWith
    <3>3. /\ Len(results') = Len(results) + 1
          /\ results'[Len(results) + 1] = ResultWith(At, "ok")
          /\ \A i \in 1..Len(results) : results'[i] = results[i]
      BY <3>1, <3>2
    <3> QED BY <1>0, <3>1, <3>2, <3>3
  <2>2. CASE ~(out = "ok" /\ At < Len(asm.calls))
    <3>1. AppendResults(ShortCircuit(out, SkipStatus(out))) /\ pc \in {"invoke", "select"}
          /\ out \in Statuses
      BY <1>6, <2>2 DEF SelectResult, EndRound, Statuses, IInv, TypeOK, ToolStatus
    <3>2. out # "ok" \/ At = Len(asm.calls)
      <4>1. At \in 1..Len(asm.calls) /\ Len(asm.calls) \in Nat
        BY <3>1 DEF IInv, TypeOK, Handling, At, Assembly
      <4> QED BY <2>2, <4>1
    <3> QED BY <1>0, <3>1, <3>2, ResultsKeepStopped
  <2> QED BY <2>1, <2>2
<1>7. CASE UNCHANGED vars
  BY <1>7, <1>0 DEF vars
<1> QED BY <1>1, <1>2, <1>3, <1>4, <1>5, <1>6, <1>7 DEF Next, Agent, StreamEnds

\* The first call that did not succeed is the last that was run; the ones after
\* it are answered as cancelled or denied, whichever way the round ended.
THEOREM FirstFailureStopsTheRound == Spec => []FirstFailureStops
<1>1. Init => FailureInv
  BY InitEstablishes DEF Init, FailureInv, FirstFailureStops
<1>2. FailureInv => FirstFailureStops
  BY DEF FailureInv
<1> QED BY <1>1, <1>2, StepKeepsFailure, PTL DEF Spec
-----------------------------------------------------------------------------
(* The Recorder *)

\* There is a replay of the record that ends with the conversation: a conversation
\* after each record.
ReplayOf(records, c) ==
    \E h \in [0..Len(records) -> Seq(Message)] :
        /\ h[0] = <<>> /\ h[Len(records)] = c
        /\ \A j \in 1..Len(records) : h[j] = Replay(h[j-1], records[j])

RecorderInv == IInv /\ ReplayOf(log, conv)

LEMMA ReplayNone == ReplayOf(<<>>, <<>>)
<1> DEFINE h == [j \in 0..0 |-> <<>>]
<1>1. h \in [0..Len(<<>>) -> Seq(Message)] /\ h[0] = <<>> /\ h[Len(<<>>)] = <<>>
      /\ \A j \in 1..Len(<<>>) : FALSE
  OBVIOUS
<1> HIDE DEF h
<1> QED BY <1>1 DEF ReplayOf

\* A further record extends a replay.
LEMMA ReplayOn ==
    ASSUME NEW records \in Seq(Record), NEW c, ReplayOf(records, c),
           NEW r \in Record, NEW d \in Seq(Message), d = Replay(c, r)
    PROVE  ReplayOf(Append(records, r), d)
<1>1. PICK h \in [0..Len(records) -> Seq(Message)] :
        /\ h[0] = <<>> /\ h[Len(records)] = c
        /\ \A j \in 1..Len(records) : h[j] = Replay(h[j-1], records[j])
  BY DEF ReplayOf
<1> DEFINE n == Len(records)
           all == Append(records, r)
           k == [j \in 0..n+1 |-> IF j = n+1 THEN d ELSE h[j]]
<1>2. n \in Nat /\ Len(all) = n + 1 /\ all[n+1] = r /\ \A j \in 1..n : all[j] = records[j]
  OBVIOUS
<1>3. k \in [0..n+1 -> Seq(Message)] /\ k[0] = <<>> /\ k[n+1] = d /\ \A j \in 0..n : k[j] = h[j]
  BY <1>1, <1>2
<1> HIDE DEF n, all, k
<1>4. ASSUME NEW j \in 1..n+1 PROVE k[j] = Replay(k[j-1], all[j])
  <2>1. CASE j = n+1
    <3>1. j-1 = n /\ k[j-1] = c
      BY <1>1, <1>2, <1>3, <2>1 DEF n
    <3> QED BY <1>2, <1>3, <2>1, <3>1
  <2>2. CASE j # n+1
    <3>1. j \in 1..n /\ j-1 \in 0..n /\ j \in 0..n
      BY <1>2, <2>2
    <3> QED BY <1>1, <1>2, <1>3, <3>1 DEF n
  <2> QED BY <2>1, <2>2
<1> QED BY <1>2, <1>3, <1>4 DEF ReplayOf, all

LEMMA LeastOf ==
    ASSUME NEW T, T \subseteq Nat, T # {}
    PROVE  \E m \in T : \A k \in T : m <= k
<1> DEFINE R == OpToRel(<, Nat)
<1>1. IsWellFoundedOn(R, Nat)
  BY NatLessThanWellFounded
<1> HIDE DEF R
<1>2. PICK m \in T : \A k \in T : <<k, m>> \notin R
  BY <1>1, WFMin
<1>3. \A k \in T : ~(k < m)
  BY <1>2 DEF R, OpToRel
<1> QED BY <1>3

\* There is one replay: what Replayed computes is what any replay ends with.
LEMMA ReplayIsReplayed ==
    ASSUME Len(log) \in Nat, ReplayOf(log, conv)
    PROVE  RecorderContract
<1>1. PICK h \in [0..Len(log) -> Seq(Message)] :
        /\ h[0] = <<>> /\ h[Len(log)] = conv
        /\ \A j \in 1..Len(log) : h[j] = Replay(h[j-1], log[j])
  BY DEF ReplayOf
<1> DEFINE Is(g) == g = [n \in 0..Len(log) |-> IF n = 0 THEN <<>> ELSE Replay(g[n-1], log[n])]
<1>2. Is(h)
  <2>1. \A n \in 0..Len(log) : n = 0 \/ n \in 1..Len(log)
    OBVIOUS
  <2>2. \A n \in 0..Len(log) : h[n] = IF n = 0 THEN <<>> ELSE Replay(h[n-1], log[n])
    BY <1>1, <2>1
  <2> QED BY <1>1, <2>2
<1>3. Replayed = CHOOSE g : Is(g)
  BY DEF Replayed
<1>4. PICK g : g = Replayed
  OBVIOUS
<1>5. Is(g)
  <2> HIDE DEF Is
  <2> QED BY <1>2, <1>3, <1>4
<1>6. \A n \in 0..Len(log) : g[n] = IF n = 0 THEN <<>> ELSE Replay(g[n-1], log[n])
  BY <1>5
<1> HIDE DEF Is
<1> DEFINE T == {n \in 0..Len(log) : g[n] # h[n]}
<1>7. CASE T = {}
  <2>1. g[Len(log)] = h[Len(log)]
    BY <1>7
  <2> QED BY <1>1, <1>4, <2>1 DEF RecorderContract
<1>8. CASE T # {}
  <2>1. T \subseteq Nat
    OBVIOUS
  <2>2. PICK m \in T : \A k \in T : m <= k
    <3> HIDE DEF T
    <3> QED BY <1>8, <2>1, LeastOf
  <2>3. m # 0
    BY <1>1, <1>6, <2>2
  <2>4. m \in 1..Len(log) /\ m-1 \in 0..Len(log) /\ ~(m <= m-1) /\ m \in 0..Len(log)
    BY <2>2, <2>3
  <2>5. g[m-1] = h[m-1]
    BY <2>2, <2>4
  <2>6. g[m] = h[m]
    BY <1>1, <1>6, <2>3, <2>4, <2>5
  <2> QED BY <2>2, <2>6
<1> QED BY <1>7, <1>8

LEMMA AppendKeepsReplay ==
    ASSUME RecorderInv, NEW m \in Message, AppendMessage(m)
    PROVE  ReplayOf(log', conv')
<1>1. conv' = Append(conv, m) /\ log' = Append(log, Appended(m)) /\ Appended(m) \in Record
      /\ conv \in Seq(Message) /\ log \in Seq(Record)
  BY DEF AppendMessage, RecorderInv, IInv, TypeOK, Appended, Record
<1>2. conv' \in Seq(Message) /\ conv' = Replay(conv, Appended(m))
  BY <1>1, AppendProperties DEF Replay, Appended
<1> QED BY <1>1, <1>2, ReplayOn DEF RecorderInv

\* A text that is merged into the last message is replayed as that.
LEMMA UserTextKeepsReplay ==
    ASSUME RecorderInv, AddUserText
    PROVE  ReplayOf(log', conv')
<1>1. CASE ~EndsWithUser(conv)
  BY <1>1, MessageTypes, AppendKeepsReplay DEF AddUserText
<1>2. CASE EndsWithUser(conv)
  <2> DEFINE n == Len(conv)
  <2>1. conv \in Seq(Message) /\ log \in Seq(Record) /\ n \in 1..n /\ conv[n] \in Message
    BY <1>2 DEF RecorderInv, IInv, TypeOK, EndsWithUser
  <2>2. conv' = [conv EXCEPT ![n].body = Append(@, "text")] /\ log' = Append(log, Merged(TextMessage))
    BY <1>2 DEF AddUserText
  <2>3. conv[n].body \in Seq(BodyBlock) /\ "text" \in BodyBlock
    BY <2>1 DEF Message, BodyBlock
  <2>4. Append(conv[n].body, "text") = conv[n].body \o << "text" >>
    BY <2>3
  <2>5. Merged(TextMessage) \in Record
    BY MessageTypes DEF Merged, Record
  <2>6. Append(conv[n].body, "text") \in Seq(BodyBlock)
    BY <2>3, AppendProperties
  <2>7. conv' \in Seq(Message)
    <3> DEFINE m == [conv[n] EXCEPT !.body = Append(@, "text")]
    <3>1. m \in Message
      BY <2>1, <2>6 DEF Message
    <3>2. conv' = [conv EXCEPT ![n] = m]
      BY <2>1, <2>2
    <3> HIDE DEF m
    <3> QED BY <2>1, <3>1, <3>2, ExceptSeq
  <2>8. conv' = Replay(conv, Merged(TextMessage))
    BY <2>2, <2>4 DEF Replay, Merged, TextMessage
  <2> QED BY <2>1, <2>2, <2>5, <2>7, <2>8, ReplayOn DEF RecorderInv
<1> QED BY <1>1, <1>2

LEMMA StepKeepsReplay == RecorderInv /\ [Next]_vars => RecorderInv'
<1> SUFFICES ASSUME RecorderInv, [Next]_vars PROVE ReplayOf(log', conv')
  BY StepKeepsIInv DEF RecorderInv
<1>0. UNCHANGED <<conv, log>> => ReplayOf(log', conv')
  BY DEF RecorderInv
<1>1. CASE BeginTurn
  BY <1>1, UserTextKeepsReplay DEF BeginTurn
<1>2. CASE Cancel \/ TooManyRounds \/ SendRequest \/ Invoke \/ Tool
           \/ (\E e \in StreamEvent : StreamDelivers(e))
           \/ (\E failed \in BOOLEAN : StreamFails(failed))
  BY <1>2, <1>0 DEF Cancel, TooManyRounds, SendRequest, Invoke, Tool, ToolReturns,
                    StreamDelivers, StreamFails
<1>3. CASE StreamSucceeds
  <2>1. AssistantMessage(asm.body, asm.calls) \in Message
    BY MessageTypes DEF RecorderInv, IInv, TypeOK, Assembly
  <2> QED BY <1>3, <2>1, AppendKeepsReplay DEF StreamSucceeds
<1>r. ASSUME pc \in {"invoke", "select"}, NEW st \in Statuses, NEW skip \in Statuses,
             AppendResults(ShortCircuit(st, skip))
      PROVE  ReplayOf(log', conv')
  <2>1. ShortCircuit(st, skip) \in Seq(Result)
    BY <1>r, ShortCircuitAnswers DEF RecorderInv
  <2>2. ResultMessage(ShortCircuit(st, skip)) \in Message
    BY <2>1, MessageTypes
  <2> QED BY <1>r, <2>2, AppendKeepsReplay DEF AppendResults
<1>4. CASE InvokeCancelled \/ SelectCancelled
  <2>1. AppendResults(ShortCircuit("cancelled", "cancelled"))
        /\ pc \in {"invoke", "select"} /\ "cancelled" \in Statuses
    BY <1>4 DEF InvokeCancelled, SelectCancelled, TurnCancelled, Statuses
  <2> QED BY <1>r, <2>1
<1>5. CASE InvokeUnknown
  <2>1. AppendResults(ShortCircuit("tool_input_invalid", "cancelled")) /\ pc \in {"invoke", "select"}
        /\ "tool_input_invalid" \in Statuses /\ "cancelled" \in Statuses
    BY <1>5 DEF InvokeUnknown, EndRound, Statuses
  <2> QED BY <1>r, <2>1
<1>6. CASE SelectResult
  <2>1. CASE out = "ok" /\ At < Len(asm.calls)
    BY <1>0, <1>6, <2>1 DEF SelectResult
  <2>2. CASE ~(out = "ok" /\ At < Len(asm.calls))
    <3>1. AppendResults(ShortCircuit(out, SkipStatus(out))) /\ pc \in {"invoke", "select"}
          /\ out \in Statuses /\ SkipStatus(out) \in Statuses
      BY <1>6, <2>2 DEF SelectResult, EndRound, Statuses, SkipStatus, RecorderInv, IInv, TypeOK, ToolStatus
    <3> QED BY <1>r, <3>1
  <2> QED BY <2>1, <2>2
<1>7. CASE UNCHANGED vars
  BY <1>7, <1>0 DEF vars
<1> QED BY <1>1, <1>2, <1>3, <1>4, <1>5, <1>6, <1>7 DEF Next, Agent, StreamEnds

\* Replaying what the Recorder was given, in order, rebuilds the conversation
\* exactly, at every step of every turn, whatever fails or is cancelled.
THEOREM RecorderRebuildsConversation == Spec => []RecorderContract
<1>1. Init => RecorderInv
  BY InitEstablishes, ReplayNone DEF Init, RecorderInv
<1>2. RecorderInv => RecorderContract
  BY ReplayIsReplayed DEF RecorderInv, IInv, TypeOK
<1> QED BY <1>1, <1>2, StepKeepsReplay, PTL DEF Spec
=============================================================================
