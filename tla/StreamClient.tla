---------------------------- MODULE StreamClient -----------------------------
(***************************************************************************)
(* Client.Stream (internal/provider/anthropic): one request of the agent,  *)
(* sent up to four times, and the decoder of the answer that streams.      *)
(*                                                                         *)
(* The server answers, and streams, whatever it likes; the network may     *)
(* fail; the context may be cancelled at any time.  Text is a unit of      *)
(* content; what a block holds is counted in units.                        *)
(***************************************************************************)
EXTENDS Naturals, Sequences

CONSTANTS MaxAttempts,  \* maxAttempts
          Indexes,      \* block indexes, 0..maxBlockIndex in the code
          MaxBlock,     \* maxBlockBytes, in units of content
          MaxStream,    \* maxStreamBytes, in units
          MaxWire       \* bound: wire events of an answer

ASSUME StreamAssumption ==
    /\ MaxAttempts \in Nat \ {0}
    /\ MaxBlock \in Nat /\ MaxStream \in Nat /\ MaxWire \in Nat

VARIABLES
    ctx,        \* "live" or "cancelled"
    phase,      \* where Stream is
    attempt,
    answer,     \* the answer that is looked at
    blocks,     \* d.blocks, by index
    held,       \* d.streamBytes
    wire,       \* wire events taken
    emitted,    \* what onEvent got
    result

vars == <<ctx, phase, attempt, answer, blocks, held, wire, emitted, result>>
decoder == <<blocks, held, wire>>

\* Answers other than 200: 5xx or a transient error of the network; 429 whose wait
\* is within a minute, or longer; a 429 the Lockout hook knows; any other status or
\* error of the network.
Transient == {"unavailable", "limited"}
Answer    == Transient \cup {"limited_long", "lockout", "refused", "none"}

BlockKind == {"text", "thinking", "redacted", "tool", "unknown"}

\* input tells what the tool input so far would be as JSON; closed and holds are
\* those of blockState.
Block == [kind : BlockKind \cup {"none"}, closed : BOOLEAN, holds : 0..MaxBlock,
          input : {"empty", "partial", "object", "other"}]
NotStarted == [kind |-> "none", closed |-> FALSE, holds |-> 0, input |-> "empty"]

\* Events are named by the block they are about; the last event is about none.
EventType == {"text", "thinking", "thinking_done", "call", "input", "call_end"}
Event(t, i) == [type |-> t, index |-> i]
LastEvent(t) == [type |-> t, index |-> 0]

Init ==
    /\ ctx = "live" /\ phase = "called"
    /\ attempt = 1 /\ answer = "none"
    /\ blocks = [i \in Indexes |-> NotStarted] /\ held = 0 /\ wire = 0
    /\ emitted = <<>>
    /\ result = "no"

Returns(r) == phase' = "ended" /\ result' = r

\* fail: one EventError, unless the context is done.
Fail ==
    \/ /\ ctx = "cancelled" /\ Returns("cancelled") /\ UNCHANGED emitted
    \/ /\ ctx = "live" /\ Returns("error")
       /\ emitted' = Append(emitted, LastEvent("error"))

ReturnCancelled == ctx = "cancelled" /\ Returns("cancelled") /\ UNCHANGED emitted

Cancel ==
    /\ ctx = "live" /\ phase # "ended"
    /\ ctx' = "cancelled"
    /\ UNCHANGED <<phase, attempt, answer, decoder, emitted, result>>
-----------------------------------------------------------------------------
(* Stream, streamAttempt: requests and retries *)

\* EncodeRequest may refuse the request.
Begin ==
    /\ phase = "called"
    /\ \/ ReturnCancelled
       \/ ctx = "live" /\ Fail
       \/ ctx = "live" /\ phase' = "sent" /\ UNCHANGED <<emitted, result>>
    /\ UNCHANGED <<ctx, attempt, answer, decoder>>

\* An answer that does not stream; what cannot be retried fails.
Answered ==
    /\ phase = "sent"
    /\ \/ ReturnCancelled /\ UNCHANGED answer
       \/ /\ ctx = "live" /\ answer' \in Answer \ {"none"}
          /\ IF answer' \in {"refused", "lockout"} THEN Fail
             ELSE phase' = "deciding" /\ UNCHANGED <<emitted, result>>
    /\ UNCHANGED <<ctx, attempt, decoder>>

\* A 200.  Nothing is sent again from here on.
StreamBegins ==
    /\ phase = "sent" /\ ctx = "live"
    /\ phase' = "streaming"
    /\ UNCHANGED <<ctx, attempt, answer, decoder, emitted, result>>

\* (mutant) The last attempt is not told from the others.
DecideForever ==
    /\ phase = "deciding"
    /\ \/ /\ answer \notin Transient
          /\ Fail
       \/ /\ answer \in Transient
          /\ \/ ReturnCancelled
             \/ ctx = "live" /\ phase' = "waiting" /\ UNCHANGED <<emitted, result>>
    /\ UNCHANGED <<ctx, attempt, answer, decoder>>

\* retryWait: the last attempt fails, and so does a wait of more than a minute.
Decide ==
    /\ phase = "deciding"
    /\ \/ /\ attempt = MaxAttempts \/ answer \notin Transient
          /\ Fail
       \/ /\ attempt < MaxAttempts /\ answer \in Transient
          /\ \/ ReturnCancelled
             \/ ctx = "live" /\ phase' = "waiting" /\ UNCHANGED <<emitted, result>>
    /\ UNCHANGED <<ctx, attempt, answer, decoder>>

\* doSleep: the wait ends, or the context does.
Wait ==
    /\ phase = "waiting"
    /\ \/ ReturnCancelled /\ UNCHANGED attempt
       \/ phase' = "sent" /\ attempt' = attempt + 1 /\ UNCHANGED <<emitted, result>>
    /\ UNCHANGED <<ctx, answer, decoder>>
-----------------------------------------------------------------------------
(* Decode: one wire event *)

Takes ==
    /\ phase = "streaming" /\ ctx = "live" /\ wire < MaxWire
    /\ wire' = wire + 1
    /\ UNCHANGED <<ctx, phase, attempt, answer, result>>

Emit(t, i) == emitted' = Append(emitted, Event(t, i))

\* retain: n units for the stream, and for block i.
Retain(i, n) == blocks[i].holds + n <= MaxBlock /\ held + n <= MaxStream
Hold(i, n) == held' = held + n /\ blocks' = [blocks EXCEPT ![i].holds = @ + n]

MayStart(i) == blocks[i].kind = "none"

\* content_block_start: text and thinking may begin with content (n), redacted
\* thinking has all of it; a tool call has an ID and a name, held by the stream only.
StartBlock(i, k, n) ==
    /\ Takes /\ MayStart(i)
    /\ k = "unknown" => n = 0
    /\ LET retained == IF k \in {"thinking", "redacted"} THEN n ELSE 0 IN
       /\ retained <= MaxBlock /\ held + retained <= MaxStream
       /\ blocks' = [blocks EXCEPT ![i] =
              [kind |-> k, closed |-> FALSE, holds |-> retained, input |-> "empty"]]
       /\ k = "tool" => held + n <= MaxStream
       /\ held' = held + IF k = "tool" THEN n ELSE retained
    /\ CASE k = "tool"                           -> Emit("call", i)
         [] k \in {"text", "thinking"} /\ n > 0  -> Emit(k, i)
         [] OTHER                                -> UNCHANGED emitted

\* (mutant) That the block has stopped is not looked at.
StillOpen(i) == blocks[i].kind # "none"

OpenBlock(i) == blocks[i].kind # "none" /\ ~blocks[i].closed

\* content_block_delta: text, thinking, its signature, or input, each for its kind.
TextDelta(i) ==
    /\ Takes /\ OpenBlock(i) /\ blocks[i].kind = "text"
    /\ Emit("text", i)
    /\ UNCHANGED <<blocks, held>>

ThinkingDelta(i) ==
    /\ Takes /\ OpenBlock(i) /\ blocks[i].kind = "thinking" /\ Retain(i, 1)
    /\ Hold(i, 1)
    /\ Emit("thinking", i) \/ UNCHANGED emitted

InputDelta(i) ==
    /\ Takes /\ OpenBlock(i) /\ blocks[i].kind = "tool" /\ Retain(i, 1)
    /\ held' = held + 1
    /\ \E json \in {"partial", "object", "other"} :
        blocks' = [blocks EXCEPT ![i].holds = @ + 1, ![i].input = json]
    /\ Emit("input", i)

\* content_block_stop.  An input that is no JSON object is refused.
StopBlock(i) ==
    /\ Takes /\ OpenBlock(i)
    /\ blocks[i].kind = "tool" => blocks[i].input \in {"empty", "object"}
    /\ blocks' = [blocks EXCEPT ![i].closed = TRUE]
    /\ CASE blocks[i].kind = "tool"                     -> Emit("call_end", i)
         [] blocks[i].kind \in {"thinking", "redacted"} -> Emit("thinking_done", i)
         [] OTHER                                       -> UNCHANGED emitted
    /\ UNCHANGED held

\* What the decoder passes over: message_start, message_delta, pings, unknown
\* events, unknown deltas and those of unknown blocks.
Ignored == Takes /\ UNCHANGED <<blocks, held, emitted>>

\* message_stop ends the stream well, whatever blocks are open, and the context is
\* not looked at after it.
MessageStop ==
    /\ phase = "streaming" /\ ctx = "live"
    /\ Returns("nil")
    /\ emitted' = Append(emitted, LastEvent("done"))
    /\ UNCHANGED <<ctx, attempt, answer, decoder>>

\* (mutant) The request does not carry the context, and its body stays open.
DecodeFailsWithoutContext ==
    /\ phase = "streaming" /\ ctx = "live"
    /\ phase' = "failed"
    /\ emitted' = Append(emitted, LastEvent("error"))
    /\ UNCHANGED <<ctx, attempt, answer, decoder, result>>

\* An event the decoder refuses (invalid JSON, a bad index, a block not started, the
\* wrong delta, an input that is no object, too much content), an error event, or
\* the end of the stream: Decode has emitted the error, if the context is live.
DecodeFails ==
    /\ phase = "streaming"
    /\ phase' = "failed"
    /\ emitted' = IF ctx = "live" THEN Append(emitted, LastEvent("error")) ELSE emitted
    /\ UNCHANGED <<ctx, attempt, answer, decoder, result>>

\* (mutant) A stream that failed is asked for again.
RetryStream ==
    /\ phase = "failed"
    /\ \/ ctx = "cancelled" /\ Returns("cancelled") /\ UNCHANGED <<decoder, attempt>>
       \/ /\ ctx = "live" /\ attempt < MaxAttempts
          /\ attempt' = attempt + 1 /\ phase' = "sent" /\ UNCHANGED result
          /\ blocks' = [i \in Indexes |-> NotStarted] /\ held' = 0 /\ UNCHANGED wire
       \/ /\ ctx = "live" /\ attempt = MaxAttempts
          /\ Returns("error") /\ UNCHANGED <<decoder, attempt>>
    /\ UNCHANGED <<ctx, answer, emitted>>

\* decodeStream looks at the context once more.
ReturnFailure ==
    /\ phase = "failed"
    /\ IF ctx = "cancelled" THEN Returns("cancelled") ELSE Returns("error")
    /\ UNCHANGED <<ctx, attempt, answer, decoder, emitted>>

WireEvent ==
    \E i \in Indexes :
        \/ \E k \in BlockKind, n \in {0, 1} : StartBlock(i, k, n)
        \/ TextDelta(i) \/ ThinkingDelta(i) \/ InputDelta(i) \/ StopBlock(i)

\* The body of a cancelled request is closed, and reading it fails.
Aborts == ctx = "cancelled" /\ DecodeFails

Next ==
    \/ Cancel
    \/ Begin \/ Answered \/ StreamBegins \/ Decide \/ Wait
    \/ WireEvent \/ Ignored \/ MessageStop \/ DecodeFails \/ ReturnFailure

\* The client goes on, and a cancelled request ends.  The server owes nothing: it
\* may stay silent for ever, and no timeout ends a silent stream.
Fairness ==
    /\ WF_vars(Begin) /\ WF_vars(Decide) /\ WF_vars(Wait) /\ WF_vars(ReturnFailure)
    /\ WF_vars(ctx = "cancelled" /\ Answered)
    /\ WF_vars(Aborts)

Spec == Init /\ [][Next]_vars /\ Fairness
-----------------------------------------------------------------------------
(* Properties *)

\* Types; no more requests than maxAttempts, and no more content than the caps,
\* counted for all blocks together.
TypeOK ==
    /\ ctx \in {"live", "cancelled"}
    /\ phase \in {"called", "sent", "deciding", "waiting", "streaming", "failed", "ended"}
    /\ attempt \in 1..MaxAttempts /\ answer \in Answer
    /\ blocks \in [Indexes -> Block] /\ held \in 0..MaxStream /\ wire \in 0..MaxWire
    /\ emitted \in Seq([type : EventType \cup {"done", "error"}, index : Indexes \cup {0}])
    /\ result \in {"no", "nil", "error", "cancelled"}
    /\ (phase = "ended" <=> result # "no")

Of(n, t, i) == emitted[n].type = t /\ emitted[n].index = i

\* A call is begun once and ended at most once, with its input between; thinking is
\* done once and not gone on with; no block is taken up again, by a retry or
\* otherwise (startBlock, dispatchBlock, finishBlock).
EventsNest ==
    \A i \in Indexes : \A n \in DOMAIN emitted :
        /\ Of(n, "call", i) =>
              \A m \in DOMAIN emitted : m # n /\ emitted[m].index = i /\ emitted[m].type \in EventType
                  => m > n /\ emitted[m].type \in {"input", "call_end"}
        /\ Of(n, "call_end", i) =>
              /\ \E m \in 1..n-1 : Of(m, "call", i)
              /\ \A m \in n+1..Len(emitted) :
                     ~(emitted[m].index = i /\ emitted[m].type \in EventType)
        /\ Of(n, "thinking_done", i) =>
              \A m \in DOMAIN emitted : m # n /\ emitted[m].index = i /\ emitted[m].type \in EventType
                  => m < n /\ emitted[m].type = "thinking"

\* A cancelled Stream returns, at whatever point it is.
CancelledReturns == (ctx = "cancelled") ~> (phase = "ended")

\* The client keeps the promises of ProviderStream.
SaidSoFar ==
    IF emitted = <<>> THEN "nothing"
    ELSE LET t == emitted[Len(emitted)].type IN
         IF t \in {"done", "error"} THEN t ELSE "content"
Promise == INSTANCE ProviderStream
    WITH said <- SaidSoFar, returned <- result, cancelled <- ctx = "cancelled"
ImplementsPromise == Promise!Spec
=============================================================================
