------------------------------ MODULE AgentTurn ------------------------------
(***************************************************************************)
(* Agent.Turn (internal/agent/agent.go): one user turn after another on    *)
(* one conversation.  A turn adds the user's text, streams a model reply,  *)
(* runs the tool calls of the reply one by one, each in a goroutine of its *)
(* own, and goes round again until a reply carries no calls.               *)
(*                                                                         *)
(* The model (the stream of events), the tools and the user who cancels    *)
(* are the environment.  A tool whose turn was cancelled is abandoned, not *)
(* stopped: its goroutine may go on while the next turn runs.              *)
(***************************************************************************)
EXTENDS Conversation, SequencesExt

CONSTANTS MaxToolRounds,   \* defaultMaxToolRounds, 25 in the code
          MaxRetries,      \* maxHallucinationRetries, 2 in the code
          MaxTurns,        \* bound: turns of a behaviour
          MaxBlocks        \* bound: blocks the model produces in a behaviour

ASSUME BoundAssumption ==
    /\ MaxToolRounds \in Nat \ {0}
    /\ MaxRetries \in Nat
    /\ MaxTurns \in Nat
    /\ MaxBlocks \in Nat

VARIABLES log,       \* what the Recorder was given, in order
          pc,        \* where the turn is
          turn,      \* number of turns begun
          done,      \* the turns whose context was cancelled
          rounds,    \* toolRounds
          retries,   \* hallucinationRetries
          asm,       \* the assembly of the current stream
          results,   \* the result blocks of the calls handled so far
          running,   \* the tool goroutines that have not returned
          out,       \* the out channel of the current invocation
          outcome    \* what the last Turn returned

vars == <<conv, log, pc, turn, done, rounds, retries, asm, results, running,
          out, outcome>>

Invocation == [turn : Nat, round : Nat, at : Nat \ {0}]
ToolStatus == {"ok", "failed", "policy_denied"}
Failures   == {"max_turns", "stream", "protocol", "cancelled", "hallucination"}

\* The assembly of a stream: open is an unclosed thinking block, text says the
\* last block is a text block.
Assembly == [body : Seq(BodyBlock), calls : Seq(Call),
             open : BOOLEAN, text : BOOLEAN, done : BOOLEAN,
             err : {"none", "protocol", "stream"}]
NewAssembly == [body |-> <<>>, calls |-> <<>>, open |-> FALSE, text |-> FALSE,
                done |-> FALSE, err |-> "none"]

Record == [kind : {"append", "merge"}, msg : Message]
Appended(m) == [kind |-> "append", msg |-> m]
Merged(m)   == [kind |-> "merge", msg |-> m]

Init ==
    /\ conv = <<>>
    /\ log = <<>>
    /\ pc = "idle"
    /\ turn = 0
    /\ done = {}
    /\ rounds = 0
    /\ retries = 0
    /\ asm = NewAssembly
    /\ results = <<>>
    /\ running = {}
    /\ out = "none"
    /\ outcome = "none"

-----------------------------------------------------------------------------
\* appendMessage: the conversation and the Recorder get m together.
AppendMessage(m) ==
    /\ conv' = Append(conv, m)
    /\ log' = Append(log, Appended(m))

\* (mutants) The user text always opens a new message; a merge is recorded as
\* if it were a new message.
AddUserTextAlwaysNew == AppendMessage(TextMessage)
AddUserTextRecordedAsNew ==
    IF EndsWithUser(conv)
    THEN /\ conv' = [conv EXCEPT ![Len(conv)].body = Append(@, "text")]
         /\ log' = Append(log, Appended(TextMessage))
    ELSE AppendMessage(TextMessage)

\* addUserText: a further block of a final user message, or a new message.
AddUserText ==
    IF EndsWithUser(conv)
    THEN /\ conv' = [conv EXCEPT ![Len(conv)].body = Append(@, "text")]
         /\ log' = Append(log, Merged(TextMessage))
    ELSE AppendMessage(TextMessage)

\* Turn returns.
Return(o) ==
    /\ pc' = "idle"
    /\ outcome' = o

BeginTurn ==
    /\ pc = "idle"
    /\ turn < MaxTurns
    /\ turn' = turn + 1
    /\ AddUserText
    /\ pc' = "round"
    /\ rounds' = 0
    /\ retries' = 0
    /\ outcome' = "none"
    /\ UNCHANGED <<done, asm, results, running, out>>

\* The caller cancels the context of the turn.
Cancel ==
    /\ pc # "idle"
    /\ turn \notin done
    /\ done' = done \cup {turn}
    /\ UNCHANGED <<conv, log, pc, turn, rounds, retries, asm, results, running,
                   out, outcome>>

TooManyRounds ==
    /\ pc = "round"
    /\ rounds >= MaxToolRounds
    /\ Return("max_turns")
    /\ UNCHANGED <<conv, log, turn, done, rounds, retries, asm, results, running, out>>

SendRequest ==
    /\ pc = "round"
    /\ rounds < MaxToolRounds
    /\ asm' = NewAssembly
    /\ pc' = "stream"
    /\ UNCHANGED <<conv, log, turn, done, rounds, retries, results, running, out, outcome>>

-----------------------------------------------------------------------------
(* assembly.accept *)

Violation(a) == [a EXCEPT !.err = "protocol"]

\* A text delta extends a text block it directly follows.
AcceptText(a) ==
    IF a.open THEN Violation(a)
    ELSE IF a.text THEN a
    ELSE [a EXCEPT !.body = Append(@, "text"), !.text = TRUE]

OpenThinking(a) ==
    IF a.open THEN a
    ELSE [a EXCEPT !.open = TRUE, !.body = Append(@, "thinking"), !.text = FALSE]

AcceptThinkingDone(a, payload) ==
    IF payload THEN [OpenThinking(a) EXCEPT !.open = FALSE] ELSE Violation(a)

AcceptCallEnd(a, c) ==
    IF a.open THEN Violation(a)
    ELSE [a EXCEPT !.calls = Append(@, c), !.text = FALSE]

AcceptDone(a) ==
    IF a.open THEN Violation(a) ELSE [a EXCEPT !.done = TRUE]

\* One event of the stream.  After the first error every event is ignored;
\* after MessageDone every event, an error included, is a violation.
Accept(e, a) ==
    IF a.err # "none" THEN a
    ELSE IF a.done THEN Violation(a)
    ELSE CASE e.type = "text"          -> AcceptText(a)
           [] e.type = "thinking"      -> OpenThinking(a)
           [] e.type = "thinking_done" -> AcceptThinkingDone(a, e.payload)
           [] e.type = "call_end"      -> AcceptCallEnd(a, e.call)
           [] e.type = "call_end_nil"  -> Violation(a)
           [] e.type = "message_done"  -> AcceptDone(a)
           [] e.type = "error"         -> [a EXCEPT !.err = "stream"]

StreamEvent ==
    [type : {"text", "thinking", "call_end_nil", "message_done", "error"}]
      \cup [type : {"thinking_done"}, payload : BOOLEAN]
      \cup [type : {"call_end"}, call : Call]

\* Blocks of the replies so far, for the bound.
Size(m) == Len(m.body) + Len(m.calls)
Produced ==
    FoldLeft(LAMBDA n, m : IF m.role = "assistant" THEN n + Size(m) ELSE n, 0, conv)

\* The stream delivers an event.
StreamDelivers(e) ==
    /\ pc = "stream"
    /\ Produced + Size(asm) < MaxBlocks
         \/ e.type \in {"message_done", "error", "call_end_nil"}
    /\ asm' = Accept(e, asm)
    /\ UNCHANGED <<conv, log, pc, turn, done, rounds, retries, results, running,
                   out, outcome>>

\* Model.Stream returns, with or without an error of its own.  An error found
\* in the events is the cause, the one Stream returns a consequence of it.
StreamError(failed) ==
    CASE asm.err # "none"             -> asm.err
      [] asm.err = "none" /\ failed   -> "stream"
      [] asm.err = "none" /\ ~failed  ->
           IF ~asm.done \/ (asm.body = <<>> /\ asm.calls = <<>>)
              \/ ~Answerable(asm.calls)
           THEN "protocol" ELSE "none"

\* (mutant) The partial message of a failed round is kept.
StreamFailsKeepingPartial(failed) ==
    /\ pc = "stream"
    /\ StreamError(failed) # "none"
    /\ AppendMessage(AssistantMessage(asm.body, asm.calls))
    /\ Return(StreamError(failed))
    /\ asm' = NewAssembly
    /\ UNCHANGED <<turn, done, rounds, retries, results, running, out>>

\* A failed round leaves no trace of its partial message.
StreamFails(failed) ==
    /\ pc = "stream"
    /\ StreamError(failed) # "none"
    /\ Return(StreamError(failed))
    /\ asm' = NewAssembly
    /\ UNCHANGED <<conv, log, turn, done, rounds, retries, results, running, out>>

StreamSucceeds ==
    /\ pc = "stream"
    /\ StreamError(FALSE) = "none"
    /\ AppendMessage(AssistantMessage(asm.body, asm.calls))
    /\ asm' = [NewAssembly EXCEPT !.calls = asm.calls]
    /\ IF asm.calls = <<>>
       THEN Return("success")
       ELSE pc' = "invoke" /\ outcome' = outcome
    /\ UNCHANGED <<turn, done, rounds, retries, results, running, out>>

-----------------------------------------------------------------------------
(* invokeTools *)

\* The call being handled, and its result block.
At == Len(results) + 1
CallAt == asm.calls[At]
ResultWith(i, st) == [id |-> asm.calls[i].id, status |-> st]

\* The results of the round when the call at hand gets status st and the ones
\* after it are skipped with status skip.
ShortCircuit(st, skip) ==
    [i \in 1..Len(asm.calls) |->
        IF i < At THEN results[i]
        ELSE ResultWith(i, IF i = At THEN st ELSE skip)]

SkipStatus(st) == IF st = "policy_denied" THEN "policy_denied" ELSE "cancelled"

\* Every call has its result: they go into one message.
AppendResults(rs) ==
    /\ AppendMessage(ResultMessage(rs))
    /\ results' = <<>>
    /\ asm' = NewAssembly
    /\ out' = "none"

\* (mutant) The context error is returned without the results.
TurnCancelledUnanswered ==
    /\ results' = <<>>
    /\ asm' = NewAssembly
    /\ out' = "none"
    /\ Return("cancelled")
    /\ UNCHANGED <<conv, log, turn, done, rounds, retries, running>>

\* The context error ends the turn.
TurnCancelled ==
    /\ AppendResults(ShortCircuit("cancelled", "cancelled"))
    /\ Return("cancelled")
    /\ UNCHANGED <<turn, done, rounds, retries, running>>

EndRound(rs) ==
    /\ AppendResults(rs)
    /\ rounds' = rounds + 1

InvokeCancelled ==
    /\ pc = "invoke"
    /\ turn \in done
    /\ TurnCancelled

\* A name no tool has: the call is not run, and the retry budget shrinks.
InvokeUnknown ==
    /\ pc = "invoke"
    /\ turn \notin done
    /\ CallAt.name \notin ToolNames
    /\ EndRound(ShortCircuit("tool_input_invalid", "cancelled"))
    /\ retries' = retries + 1
    /\ IF retries + 1 > MaxRetries
       THEN Return("hallucination")
       ELSE pc' = "round" /\ outcome' = outcome
    /\ UNCHANGED <<turn, done, running>>

Current == [turn |-> turn, round |-> rounds, at |-> At]

Invoke ==
    /\ pc = "invoke"
    /\ turn \notin done
    /\ CallAt.name \in ToolNames
    /\ running' = running \cup {Current}
    /\ pc' = "select"
    /\ UNCHANGED <<conv, log, turn, done, rounds, retries, asm, results, out, outcome>>

\* The goroutine of invocation inv puts its result in its own channel, which
\* nobody reads any more when the turn has moved on.
ToolReturns(inv, st) ==
    /\ inv \in running
    /\ running' = running \ {inv}
    /\ out' = IF pc = "select" /\ inv = Current THEN st ELSE out
    /\ UNCHANGED <<conv, log, pc, turn, done, rounds, retries, asm, results, outcome>>

\* (mutant) The context is looked at only once the tool has returned.
SelectCancelledAfterTool ==
    /\ pc = "select"
    /\ turn \in done
    /\ out # "none"
    /\ TurnCancelled

\* The select between the context and the result: when both are ready either
\* may win.
SelectCancelled ==
    /\ pc = "select"
    /\ turn \in done
    /\ TurnCancelled

SelectResult ==
    /\ pc = "select"
    /\ out # "none"
    /\ IF out = "ok" /\ At < Len(asm.calls)
       THEN /\ results' = Append(results, ResultWith(At, "ok"))
            /\ out' = "none"
            /\ pc' = "invoke"
            /\ UNCHANGED <<conv, log, rounds, asm>>
       ELSE /\ EndRound(ShortCircuit(out, SkipStatus(out)))
            /\ pc' = "round"
    /\ UNCHANGED <<turn, done, retries, running, outcome>>

-----------------------------------------------------------------------------
\* Steps of Turn itself, and those of its environment.
Agent ==
    \/ TooManyRounds \/ SendRequest
    \/ InvokeCancelled \/ InvokeUnknown \/ Invoke
    \/ SelectCancelled \/ SelectResult

StreamEnds == StreamSucceeds \/ \E failed \in BOOLEAN : StreamFails(failed)

Tool == \E inv \in running, st \in ToolStatus : ToolReturns(inv, st)

Next ==
    \/ BeginTurn
    \/ Cancel
    \/ \E e \in StreamEvent : StreamDelivers(e)
    \/ StreamEnds
    \/ Tool
    \/ Agent

\* The goroutine of Turn always gets to run, and Model.Stream returns once its
\* context is cancelled (a stream may otherwise stay silent: the client sets no
\* read deadline).  Nothing is assumed of a tool or of the user.
Spec ==
    /\ Init
    /\ [][Next]_vars
    /\ WF_vars(Agent)
    /\ WF_vars(turn \in done /\ StreamEnds)

-----------------------------------------------------------------------------
TypeOK ==
    /\ conv \in Seq(Message)
    /\ log \in Seq(Record)
    /\ pc \in {"idle", "round", "stream", "invoke", "select"}
    /\ turn \in Nat
    /\ done \subseteq Nat
    /\ rounds \in Nat
    /\ retries \in Nat
    /\ asm \in Assembly
    /\ results \in Seq(Result)
    /\ running \subseteq Invocation
    /\ out \in ToolStatus \cup {"none"}
    /\ outcome \in Failures \cup {"none", "success"}

\* Whenever Turn has returned, or is about to send a request, no tool call of
\* the conversation waits for its result, whatever failed or was cancelled and
\* when; and a request always ends with a user message (Agent.Turn).
NothingUnanswered ==
    /\ pc \in {"idle", "round", "stream"} /\ EndsWithReply(conv) =>
         LastMessage(conv).calls = <<>>
    /\ pc \in {"round", "stream"} => EndsWithUser(conv)

\* The Recorder contract: replaying the records in order rebuilds the
\* conversation exactly (type Recorder).
Replay(c, r) ==
    IF r.kind = "append" THEN Append(c, r.msg)
    ELSE [c EXCEPT ![Len(c)].body = @ \o r.msg.body]
Replayed[n \in 0..Len(log)] == IF n = 0 THEN <<>> ELSE Replay(Replayed[n-1], log[n])
RecorderContract == Replayed[Len(log)] = conv

\* Tool calls run one at a time: a goroutine other than that of the call at
\* hand belongs to a cancelled turn, and the result taken for a call is that of
\* its own goroutine (invokeTools).
SequentialInvocation ==
    /\ \A inv \in running : (inv = Current /\ pc = "select") \/ inv.turn \in done
    /\ pc = "select" => (out = "none" <=> Current \in running)

\* The first result that is not a success is the last that any tool produced:
\* the calls after it are reported cancelled, or all policy_denied when it was
\* policy_denied (invokeTools, shortCircuitResult).
FirstFailureStops ==
    \A m \in 1..Len(conv) :
        LET rs == conv[m].results
        IN  \A i, j \in 1..Len(rs) :
                rs[i].status # "ok" /\ i < j =>
                    rs[j].status = IF rs[i].status = "policy_denied"
                                   THEN "policy_denied" ELSE "cancelled"

\* A cancelled turn returns, though its tool may never do.
CancelEndsTurn == \A t \in 1..MaxTurns : (turn = t /\ t \in done) ~> (pc = "idle" \/ turn > t)
=============================================================================
