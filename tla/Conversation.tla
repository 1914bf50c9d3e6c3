---------------------------- MODULE Conversation ----------------------------
(***************************************************************************)
(* What a conversation with the model may look like, and how it may grow.  *)
(*                                                                         *)
(* A message is a record.  "body" holds the blocks that are neither calls  *)
(* nor results: the texts of a user message, the text and thinking blocks  *)
(* of an assistant message.  The order of body blocks relative to calls is *)
(* not kept: nothing the agent does with a message depends on it.          *)
(*                                                                         *)
(* This is the abstract specification of the conversation: AgentTurn, the  *)
(* model of the code, is shown to implement it.                            *)
(***************************************************************************)
EXTENDS Naturals, Sequences

CONSTANTS CallIds,       \* the identifiers a provider gives to tool calls
          NoId,          \* the empty identifier a malformed stream may carry
          ToolNames,     \* the names Tools.Describe returns
          UnknownNames   \* names a model may invent

ASSUME IdAssumption == NoId \notin CallIds
ASSUME NameAssumption == ToolNames \cap UnknownNames = {}

VARIABLE conv            \* Conversation.Messages

Names == ToolNames \cup UnknownNames
Call  == [id : CallIds \cup {NoId}, name : Names]

\* Outcomes of a call as the model sees them: "ok", or ResultBlock.ErrorKind.
Statuses == {"ok", "failed", "policy_denied", "cancelled", "tool_input_invalid"}
Result   == [id : CallIds, status : Statuses]

BodyBlock == {"text", "thinking"}
Message   == [role : {"user", "assistant"}, body : Seq(BodyBlock),
              calls : Seq(Call), results : Seq(Result)]

TextMessage         == [role |-> "user", body |-> <<"text">>, calls |-> <<>>, results |-> <<>>]
ResultMessage(rs)   == [role |-> "user", body |-> <<>>, calls |-> <<>>, results |-> rs]
AssistantMessage(b, cs) ==
    [role |-> "assistant", body |-> b, calls |-> cs, results |-> <<>>]

LastMessage(c) == c[Len(c)]
EndsWithUser(c) == c # <<>> /\ LastMessage(c).role = "user"
EndsWithReply(c) == c # <<>> /\ LastMessage(c).role = "assistant"

\* (mutant) Empty identifiers are let through.
AnswerableOrEmpty(cs) ==
    \A i, j \in 1..Len(cs) : cs[i].id = cs[j].id => i = j

\* The calls of a message can be answered unambiguously.
Answerable(cs) ==
    /\ \A i \in 1..Len(cs) : cs[i].id # NoId
    /\ \A i, j \in 1..Len(cs) : cs[i].id = cs[j].id => i = j

\* rs answers cs: one result for each call, in the order of the calls.
Answers(rs, cs) ==
    /\ Len(rs) = Len(cs)
    /\ \A i \in 1..Len(cs) : rs[i].id = cs[i].id

-----------------------------------------------------------------------------
\* The user may speak in a new message after a finished reply.
Opens(c, m) ==
    /\ m.role = "user" /\ m.calls = <<>> /\ m.results = <<>>
    /\ \/ c = <<>>
       \/ EndsWithReply(c) /\ LastMessage(c).calls = <<>>

\* The model replies to a user message, with calls that can be answered.
Replies(c, m) ==
    /\ m.role = "assistant" /\ m.results = <<>>
    /\ EndsWithUser(c)
    /\ Answerable(m.calls)
    /\ m.body # <<>> \/ m.calls # <<>>

\* The results of all the calls of a reply come back in one user message.
ReturnsResults(c, m) ==
    /\ m.role = "user" /\ m.calls = <<>>
    /\ EndsWithReply(c)
    /\ LastMessage(c).calls # <<>>
    /\ Answers(m.results, LastMessage(c).calls)

\* m is the last message of c with one more body block.
Lengthens(c, m) ==
    /\ EndsWithUser(c)
    /\ m.body # <<>>
    /\ m = [LastMessage(c) EXCEPT !.body = Append(@, m.body[Len(m.body)])]

Empty == conv = <<>>

\* Every step adds one message, or one text block to a final user message.
Grow ==
    /\ conv' # <<>>
    /\ LET m == LastMessage(conv')
       IN  /\ m \in Message
           /\ \/ /\ Opens(conv, m) \/ Replies(conv, m) \/ ReturnsResults(conv, m)
                 /\ conv' = Append(conv, m)
              \/ /\ Lengthens(conv, m)
                 /\ conv' = [conv EXCEPT ![Len(conv)] = m]

Grows == Empty /\ [][Grow]_conv

-----------------------------------------------------------------------------
\* The roles alternate, starting with the user; every call of a message is
\* answered, in order, by the results of the next one; and a message carries
\* results only as the answer to the calls of the message before it.
WellFormed ==
    /\ conv \in Seq(Message)
    /\ conv # <<>> => conv[1].role = "user" /\ conv[1].results = <<>>
    /\ \A i \in 1..Len(conv) :
        /\ conv[i].role = "user" => conv[i].calls = <<>>
        /\ conv[i].role = "assistant" =>
             conv[i].results = <<>> /\ Answerable(conv[i].calls)
    /\ \A i \in 1..(Len(conv) - 1) :
        /\ conv[i].role # conv[i+1].role
        /\ Answers(conv[i+1].results, conv[i].calls)
=============================================================================
