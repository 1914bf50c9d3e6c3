-------------------------- MODULE StreamClientProofs --------------------------
(***************************************************************************)
(* For any number of attempts, caps and block indexes, and any answers of  *)
(* the server: the client keeps the promises of ProviderStream, and the    *)
(* events of a block nest.                                                 *)
(***************************************************************************)
EXTENDS StreamClient, SequenceTheorems, TLAPS

EventRecord == [type : EventType \cup {"done", "error"}, index : Indexes \cup {0}]

\* There is another attempt after a wait; and no last event before Stream is about
\* to return.
Phases ==
    /\ phase = "waiting" => attempt < MaxAttempts
    /\ phase \notin {"failed", "ended"} => SaidSoFar \notin {"done", "error"}
    /\ phase = "failed" => SaidSoFar # "done" /\ (ctx = "live" => SaidSoFar = "error")

IInv == TypeOK /\ Phases

-----------------------------------------------------------------------------
(* What an event says *)

LEMMA EventIsRecord ==
    ASSUME NEW t \in EventType, NEW i \in Indexes
    PROVE  Event(t, i) \in EventRecord /\ Event(t, i).type = t /\ Event(t, i).index = i
  BY DEF Event, EventRecord

LEMMA LastEventIsRecord ==
    ASSUME NEW t \in {"done", "error"}
    PROVE  LastEvent(t) \in EventRecord /\ LastEvent(t).type = t
  BY DEF LastEvent, EventRecord

LEMMA SaidAfter ==
    ASSUME emitted \in Seq(EventRecord), NEW e \in EventRecord, emitted' = Append(emitted, e)
    PROVE  /\ emitted' \in Seq(EventRecord)
           /\ SaidSoFar' = IF e.type \in {"done", "error"} THEN e.type ELSE "content"
<1>1. /\ emitted' \in Seq(EventRecord) /\ Len(emitted') = Len(emitted) + 1
      /\ emitted'[Len(emitted')] = e /\ emitted' # <<>>
  BY AppendProperties
<1> QED BY <1>1 DEF SaidSoFar

-----------------------------------------------------------------------------
(* Types *)

LEMMA BlockIsTyped ==
    ASSUME NEW k \in BlockKind, NEW n \in 0..MaxBlock
    PROVE  [kind |-> k, closed |-> FALSE, holds |-> n, input |-> "empty"] \in Block
  BY DEF Block

\* A step of the decoder that emits nothing, or one event of a block.
Emits(i) == emitted' = emitted \/ \E t \in EventType : Emit(t, i)

LEMMA DecoderEmits ==
    ASSUME NEW i \in Indexes,
           \/ \E k \in BlockKind, n \in {0, 1} : StartBlock(i, k, n)
           \/ TextDelta(i) \/ ThinkingDelta(i) \/ InputDelta(i) \/ StopBlock(i)
    PROVE  Takes /\ Emits(i)
<1>1. ASSUME NEW k \in BlockKind, NEW n \in {0, 1}, StartBlock(i, k, n) PROVE Takes /\ Emits(i)
  BY <1>1 DEF StartBlock, Emits, EventType
<1>2. CASE TextDelta(i)
  BY <1>2 DEF TextDelta, Emits, EventType
<1>3. CASE ThinkingDelta(i)
  BY <1>3 DEF ThinkingDelta, Emits, EventType
<1>4. CASE InputDelta(i)
  BY <1>4 DEF InputDelta, Emits, EventType
<1>5. CASE StopBlock(i)
  BY <1>5 DEF StopBlock, Emits, EventType
<1> QED BY <1>1, <1>2, <1>3, <1>4, <1>5

LEMMA EmitsTyped ==
    ASSUME TypeOK, NEW i \in Indexes, Emits(i)
    PROVE  /\ emitted' \in Seq(EventRecord)
           /\ SaidSoFar \notin {"done", "error"} => SaidSoFar' \notin {"done", "error"}
<1>1. emitted \in Seq(EventRecord)
  BY DEF TypeOK, EventRecord
<1>2. CASE emitted' = emitted
  BY <1>1, <1>2 DEF SaidSoFar
<1>3. ASSUME NEW t \in EventType, Emit(t, i)
      PROVE  emitted' \in Seq(EventRecord) /\ SaidSoFar' \notin {"done", "error"}
  <2>1. emitted' = Append(emitted, Event(t, i)) /\ t \notin {"done", "error"}
    BY <1>3 DEF Emit, EventType
  <2>2. Event(t, i) \in EventRecord /\ Event(t, i).type = t
    BY EventIsRecord
  <2>3. /\ emitted' \in Seq(EventRecord)
        /\ SaidSoFar' = IF Event(t, i).type \in {"done", "error"} THEN Event(t, i).type ELSE "content"
    BY <1>1, <2>1, <2>2, SaidAfter
  <2> QED BY <2>1, <2>2, <2>3
<1> QED BY <1>2, <1>3 DEF Emits

\* The decoder keeps its blocks typed and its caps.
LEMMA DecoderTyped ==
    ASSUME TypeOK, NEW i \in Indexes,
           \/ \E k \in BlockKind, n \in {0, 1} : StartBlock(i, k, n)
           \/ TextDelta(i) \/ ThinkingDelta(i) \/ InputDelta(i) \/ StopBlock(i)
    PROVE  blocks' \in [Indexes -> Block] /\ held' \in 0..MaxStream
<1>1. blocks \in [Indexes -> Block] /\ held \in 0..MaxStream
  BY DEF TypeOK
<1>2. ASSUME NEW k \in BlockKind, NEW n \in {0, 1}, StartBlock(i, k, n)
      PROVE  blocks' \in [Indexes -> Block] /\ held' \in 0..MaxStream
  <2> DEFINE retained == IF k \in {"thinking", "redacted"} THEN n ELSE 0
             new == [kind |-> k, closed |-> FALSE, holds |-> retained, input |-> "empty"]
  <2>1. /\ retained <= MaxBlock /\ held + retained <= MaxStream
        /\ blocks' = [blocks EXCEPT ![i] = new]
        /\ k = "tool" => held + n <= MaxStream
        /\ held' = held + IF k = "tool" THEN n ELSE retained
    BY <1>2 DEF StartBlock
  <2>2. retained \in 0..MaxBlock
    BY <2>1, StreamAssumption DEF StreamAssumption
  <2>3. new \in Block
    BY <2>2, BlockIsTyped
  <2>4. blocks' \in [Indexes -> Block]
    BY <1>1, <2>1, <2>3
  <2>5. held' \in 0..MaxStream
    BY <1>1, <2>1, <2>2, StreamAssumption DEF StreamAssumption
  <2> QED BY <2>4, <2>5
<1>3. CASE TextDelta(i)
  BY <1>1, <1>3 DEF TextDelta
<1>4. CASE ThinkingDelta(i)
  BY <1>1, <1>4, StreamAssumption DEF ThinkingDelta, Hold, Retain, Block, StreamAssumption
<1>5. CASE InputDelta(i)
  BY <1>1, <1>5, StreamAssumption DEF InputDelta, Retain, Block, StreamAssumption
<1>6. CASE StopBlock(i)
  BY <1>1, <1>6 DEF StopBlock, Block
<1> QED BY <1>2, <1>3, <1>4, <1>5, <1>6

-----------------------------------------------------------------------------
(* The invariant, and the promise of every step *)

Keeps == IInv' /\ [Promise!Next]_(Promise!vars)

LEMMA InitHolds == Init => IInv /\ Promise!Init
<1> SUFFICES ASSUME Init PROVE IInv /\ Promise!Init
  OBVIOUS
<1>1. SaidSoFar = "nothing"
  BY DEF Init, SaidSoFar
<1>2. blocks \in [Indexes -> Block]
  BY StreamAssumption DEF Init, NotStarted, Block, StreamAssumption
<1>3. TypeOK
  BY <1>2, StreamAssumption DEF Init, TypeOK, Answer, StreamAssumption
<1>4. Phases
  BY <1>1 DEF Init, Phases
<1>5. Promise!Init
  BY <1>1 DEF Init, Promise!Init
<1> QED BY <1>3, <1>4, <1>5 DEF IInv

\* fail, and the return of a cancelled context, from before any event but content.
LEMMA FailKeeps ==
    ASSUME IInv, phase \notin {"failed", "ended"}, Fail
    PROVE  /\ phase' = "ended" /\ result' \in {"error", "cancelled"}
           /\ emitted' \in Seq(EventRecord)
           /\ ctx' = ctx => Promise!Next
<1>1. emitted \in Seq(EventRecord) /\ result = "no" /\ SaidSoFar \notin {"done", "error"}
  BY DEF IInv, TypeOK, Phases, EventRecord
<1>2. CASE ctx = "cancelled" /\ Returns("cancelled") /\ UNCHANGED emitted
  <2>1. SaidSoFar' = SaidSoFar
    BY <1>2 DEF SaidSoFar
  <2> QED BY <1>1, <1>2, <2>1 DEF Returns, Promise!Next, Promise!ReturnsCancelled
<1>3. CASE Returns("error") /\ emitted' = Append(emitted, LastEvent("error"))
  <2>1. emitted' \in Seq(EventRecord) /\ SaidSoFar' = "error"
    BY <1>1, <1>3, SaidAfter, LastEventIsRecord
  <2> QED BY <1>1, <1>3, <2>1 DEF Returns, Promise!Next, Promise!Fails, Promise!Open
<1> QED BY <1>2, <1>3 DEF Fail

LEMMA CancelledKeeps ==
    ASSUME IInv, phase # "ended", ReturnCancelled, ctx' = ctx
    PROVE  /\ phase' = "ended" /\ result' = "cancelled" /\ emitted' = emitted
           /\ Promise!Next
<1>1. result = "no" /\ SaidSoFar' = SaidSoFar
  BY DEF IInv, TypeOK, ReturnCancelled, SaidSoFar
<1> QED
  BY <1>1 DEF ReturnCancelled, Returns, Promise!Next, Promise!ReturnsCancelled

\* A step that says nothing and returns nothing.
LEMMA SilentKeeps ==
    ASSUME UNCHANGED <<ctx, emitted, result>>
    PROVE  SaidSoFar' = SaidSoFar /\ UNCHANGED Promise!vars
  BY DEF SaidSoFar, Promise!vars

LEMMA StepKeeps ==
    ASSUME IInv, [Next]_vars
    PROVE  Keeps
<1> USE DEF Keeps, IInv
<1>0. emitted \in Seq(EventRecord) /\ (phase = "ended" <=> result # "no")
  BY DEF TypeOK, EventRecord
<1>1. CASE Cancel
  <2>1. SaidSoFar' = SaidSoFar
    BY <1>1 DEF Cancel, SaidSoFar
  <2>2. TypeOK' /\ Phases'
    BY <1>1, <2>1 DEF Cancel, TypeOK, Phases, decoder
  <2>3. Promise!Next
    BY <1>1, <2>1 DEF Cancel, Promise!Next, Promise!Cancels
  <2> QED BY <2>2, <2>3
<1>2. CASE Begin
  <2>1. CASE ReturnCancelled
    BY <1>0, <1>2, <2>1, CancelledKeeps DEF Begin, TypeOK, Phases, decoder
  <2>2. CASE Fail
    BY <1>0, <1>2, <2>2, FailKeeps DEF Begin, TypeOK, Phases, decoder, EventRecord
  <2>3. CASE phase' = "sent" /\ UNCHANGED <<emitted, result>>
    BY <1>0, <1>2, <2>3, SilentKeeps DEF Begin, TypeOK, Phases, decoder
  <2> QED BY <1>2, <2>1, <2>2, <2>3 DEF Begin
<1>3. CASE Answered
  <2>0. answer' \in Answer
    BY <1>3 DEF Answered, TypeOK
  <2>1. CASE ReturnCancelled
    BY <1>0, <1>3, <2>0, <2>1, CancelledKeeps DEF Answered, TypeOK, Phases, decoder
  <2>2. CASE Fail
    BY <1>0, <1>3, <2>0, <2>2, FailKeeps DEF Answered, TypeOK, Phases, decoder, EventRecord
  <2>3. CASE phase' = "deciding" /\ UNCHANGED <<emitted, result>>
    BY <1>0, <1>3, <2>0, <2>3, SilentKeeps DEF Answered, TypeOK, Phases, decoder
  <2> QED BY <1>3, <2>1, <2>2, <2>3 DEF Answered
<1>4. CASE StreamBegins
  BY <1>0, <1>4, SilentKeeps DEF StreamBegins, TypeOK, Phases, decoder
<1>5. CASE Decide
  <2>1. CASE ReturnCancelled
    BY <1>0, <1>5, <2>1, CancelledKeeps DEF Decide, TypeOK, Phases, decoder
  <2>2. CASE Fail
    BY <1>0, <1>5, <2>2, FailKeeps DEF Decide, TypeOK, Phases, decoder, EventRecord
  <2>3. CASE attempt < MaxAttempts /\ phase' = "waiting" /\ UNCHANGED <<emitted, result>>
    BY <1>0, <1>5, <2>3, SilentKeeps DEF Decide, TypeOK, Phases, decoder
  <2> QED BY <1>5, <2>1, <2>2, <2>3 DEF Decide
<1>6. CASE Wait
  <2>1. CASE ReturnCancelled /\ UNCHANGED attempt
    BY <1>0, <1>6, <2>1, CancelledKeeps DEF Wait, TypeOK, Phases, decoder
  <2>2. CASE phase' = "sent" /\ attempt' = attempt + 1 /\ UNCHANGED <<emitted, result>>
    BY <1>0, <1>6, <2>2, SilentKeeps, StreamAssumption
    DEF Wait, TypeOK, Phases, decoder, StreamAssumption
  <2> QED BY <1>6, <2>1, <2>2 DEF Wait
<1>7. ASSUME NEW i \in Indexes,
             \/ \E k \in BlockKind, n \in {0, 1} : StartBlock(i, k, n)
             \/ TextDelta(i) \/ ThinkingDelta(i) \/ InputDelta(i) \/ StopBlock(i)
      PROVE  Keeps
  <2>1. Takes /\ Emits(i)
    BY <1>7, DecoderEmits
  <2>2. blocks' \in [Indexes -> Block] /\ held' \in 0..MaxStream
    BY <1>7, DecoderTyped
  <2>3. /\ emitted' \in Seq(EventRecord)
        /\ SaidSoFar' \notin {"done", "error"} /\ SaidSoFar \notin {"done", "error"}
    BY <2>1, EmitsTyped DEF Takes, Phases
  <2>4. TypeOK' /\ Phases'
    BY <1>0, <2>1, <2>2, <2>3, StreamAssumption
    DEF Takes, TypeOK, Phases, EventRecord, StreamAssumption
  <2>5. CASE emitted' = emitted
    BY <2>1, <2>4, <2>5, SilentKeeps DEF Takes
  <2>6. ASSUME NEW t \in EventType, Emit(t, i) PROVE Promise!Next
    <3>1. SaidSoFar' = "content"
      BY <1>0, <2>6, EventIsRecord, SaidAfter DEF Emit, EventType
    <3> QED BY <1>0, <2>1, <2>3, <3>1
            DEF Takes, Promise!Next, Promise!Delivers, Promise!Open
  <2> QED BY <2>1, <2>4, <2>5, <2>6 DEF Emits
<1>8. CASE Ignored
  <2>1. TypeOK' /\ Phases'
    BY <1>0, <1>8, SilentKeeps, StreamAssumption
    DEF Ignored, Takes, TypeOK, Phases, StreamAssumption
  <2> QED BY <1>8, <2>1, SilentKeeps DEF Ignored, Takes
<1>9. CASE MessageStop
  <2>1. emitted' \in Seq(EventRecord) /\ SaidSoFar' = "done"
    BY <1>0, <1>9, SaidAfter, LastEventIsRecord DEF MessageStop
  <2>2. TypeOK' /\ Phases'
    BY <1>0, <1>9, <2>1 DEF MessageStop, Returns, TypeOK, Phases, decoder, EventRecord
  <2>3. Promise!Next
    BY <1>0, <1>9, <2>1
    DEF MessageStop, Returns, Phases, Promise!Next, Promise!Succeeds, Promise!Open
  <2> QED BY <2>2, <2>3
<1>10. CASE DecodeFails
  <2>1. CASE ctx = "live" /\ emitted' = Append(emitted, LastEvent("error"))
    <3>1. emitted' \in Seq(EventRecord) /\ SaidSoFar' = "error"
      BY <1>0, <2>1, SaidAfter, LastEventIsRecord
    <3>2. TypeOK' /\ Phases'
      BY <1>0, <1>10, <3>1 DEF DecodeFails, TypeOK, Phases, decoder, EventRecord
    <3>3. Promise!Next
      BY <1>0, <1>10, <3>1 DEF DecodeFails, Phases, Promise!Next, Promise!Fails, Promise!Open
    <3> QED BY <3>2, <3>3
  <2>2. CASE ctx # "live" /\ emitted' = emitted
    BY <1>0, <1>10, <2>2, SilentKeeps DEF DecodeFails, TypeOK, Phases, decoder
  <2> QED BY <1>10, <2>1, <2>2 DEF DecodeFails
<1>11. CASE ReturnFailure
  <2>1. SaidSoFar' = SaidSoFar
    BY <1>11 DEF ReturnFailure, SaidSoFar
  <2>2. TypeOK' /\ Phases'
    BY <1>0, <1>11, <2>1 DEF ReturnFailure, Returns, TypeOK, Phases, decoder
  <2>3. Promise!Next
    BY <1>0, <1>11, <2>1
    DEF ReturnFailure, Returns, TypeOK, Phases, Promise!Next, Promise!ReturnsError,
        Promise!ReturnsCancelled
  <2> QED BY <2>2, <2>3
<1>12. CASE UNCHANGED vars
  BY <1>12, SilentKeeps DEF vars, TypeOK, Phases
<1> QED
  BY <1>1, <1>2, <1>3, <1>4, <1>5, <1>6, <1>7, <1>8, <1>9, <1>10, <1>11, <1>12
  DEF Next, WireEvent

LEMMA Invariant == Spec => []IInv
<1>1. IInv /\ [Next]_vars => IInv'
  BY StepKeeps DEF Keeps
<1> QED BY InitHolds, <1>1, PTL DEF Spec

\* The types of StreamClient: there are no more requests than maxAttempts, no more
\* content than the caps, and a result exactly when Stream has returned.
THEOREM ClientTypeCorrect == Spec => []TypeOK
  BY Invariant, PTL DEF IInv

\* The client keeps the promises of ProviderStream: one last event, which fits what
\* Stream returns.
THEOREM ClientKeepsPromise == Spec => ImplementsPromise
<1>1. IInv /\ [Next]_vars => [Promise!Next]_(Promise!vars)
  BY StepKeeps DEF Keeps
<1> QED BY InitHolds, Invariant, <1>1, PTL DEF Spec, ImplementsPromise, Promise!Spec

-----------------------------------------------------------------------------
(* The events of a block *)

\* An event was told while its block was open, or closed it.
Told ==
    \A n \in DOMAIN emitted : emitted[n].type \in EventType =>
        LET b == blocks[emitted[n].index]
            t == emitted[n].type
        IN  /\ emitted[n].index \in Indexes
            /\ b.kind = "tool" => t \in {"call", "input", "call_end"}
            /\ b.kind \in {"thinking", "redacted"} => t \in {"thinking", "thinking_done"}
            /\ b.kind \in {"text", "unknown"} => t = "text"
            /\ b.kind # "none"
            /\ t \in {"call_end", "thinking_done"} => b.closed

\* A tool call was begun with its block.
Begun ==
    \A i \in Indexes : blocks[i].kind = "tool" => \E n \in DOMAIN emitted : Of(n, "call", i)

NestInv == Told /\ Begun /\ EventsNest

\* What a step does to the blocks: they keep their kind, and stay closed.
BlocksGo ==
    \A j \in Indexes :
        /\ blocks[j].kind # "none" => blocks'[j].kind = blocks[j].kind
        /\ blocks[j].closed /\ blocks[j].kind # "none" => blocks'[j].closed

LEMMA SameEvents ==
    ASSUME NestInv, BlocksGo, emitted' = emitted,
           \A j \in Indexes : blocks'[j].kind = "tool" => blocks[j].kind = "tool"
    PROVE  NestInv'
<1>1. Told'
  BY DEF NestInv, Told, BlocksGo
<1>2. Begun'
  BY DEF NestInv, Begun, Of
<1>3. EventsNest'
  BY DEF NestInv, EventsNest, Of
<1> QED BY <1>1, <1>2, <1>3 DEF NestInv

LEMMA LastEventNests ==
    ASSUME NestInv, TypeOK, UNCHANGED blocks, NEW t \in {"done", "error"},
           emitted' = Append(emitted, LastEvent(t))
    PROVE  NestInv'
<1>1. /\ DOMAIN emitted = 1..Len(emitted) /\ Len(emitted) \in Nat
      /\ DOMAIN emitted' = 1..(Len(emitted) + 1) /\ Len(emitted') = Len(emitted) + 1
      /\ \A n \in 1..Len(emitted) : emitted'[n] = emitted[n]
      /\ emitted'[Len(emitted) + 1].type = t
  BY LastEventIsRecord, AppendProperties DEF TypeOK, EventRecord
<1>2. t \notin EventType
  BY DEF EventType
<1>3. Told'
  BY <1>1, <1>2 DEF NestInv, Told
<1>4. Begun'
  BY <1>1 DEF NestInv, Begun, Of
<1>5. EventsNest'
  BY <1>1, <1>2 DEF NestInv, EventsNest, Of, EventType
<1> QED BY <1>3, <1>4, <1>5 DEF NestInv

\* What a new event needs of its block, and what it makes of it.
Fits(t, i) ==
    /\ BlocksGo
    /\ \A j \in Indexes \ {i} : blocks'[j] = blocks[j]
    /\ \/ t = "call" /\ blocks[i].kind = "none" /\ blocks'[i].kind = "tool"
       \/ /\ t \in {"input", "call_end"} /\ blocks[i].kind = "tool" /\ ~blocks[i].closed
          /\ t = "call_end" => blocks'[i].closed
       \/ /\ t = "text" /\ blocks[i].kind \in {"none", "text"} /\ blocks'[i].kind = "text"
       \/ /\ t = "thinking" /\ blocks'[i].kind = "thinking"
          /\ blocks[i].kind = "none" \/ (blocks[i].kind = "thinking" /\ ~blocks[i].closed)
       \/ /\ t = "thinking_done" /\ blocks[i].kind \in {"thinking", "redacted"}
          /\ ~blocks[i].closed /\ blocks'[i].closed

LEMMA NewEventNests ==
    ASSUME NestInv, TypeOK, NEW i \in Indexes, NEW t \in EventType, Fits(t, i), Emit(t, i)
    PROVE  NestInv'
<1> DEFINE N == Len(emitted) + 1
<1>1. /\ DOMAIN emitted = 1..Len(emitted) /\ Len(emitted) \in Nat
      /\ DOMAIN emitted' = 1..N /\ Len(emitted') = N
      /\ \A n \in 1..Len(emitted) : emitted'[n] = emitted[n]
      /\ emitted'[N].type = t /\ emitted'[N].index = i
  BY EventIsRecord, AppendProperties DEF TypeOK, EventRecord, Emit
<1>2. 1..N = (1..Len(emitted)) \cup {N} /\ N \notin 1..Len(emitted)
  BY <1>1
<1> HIDE DEF N
<1>3. Told'
  BY <1>1, <1>2 DEF NestInv, Told, Fits, BlocksGo, EventType
<1>4. Begun'
  BY <1>1, <1>2 DEF NestInv, Begun, Of, Fits, BlocksGo
<1>5. EventsNest'
  <2> SUFFICES ASSUME NEW j \in Indexes, NEW n \in 1..N
               PROVE  /\ Of(n, "call", j)' =>
                            \A m \in 1..N : m # n /\ emitted'[m].index = j /\ emitted'[m].type \in EventType
                                => m > n /\ emitted'[m].type \in {"input", "call_end"}
                      /\ Of(n, "call_end", j)' =>
                            /\ \E m \in 1..n-1 : Of(m, "call", j)'
                            /\ \A m \in n+1..N : ~(emitted'[m].index = j /\ emitted'[m].type \in EventType)
                      /\ Of(n, "thinking_done", j)' =>
                            \A m \in 1..N : m # n /\ emitted'[m].index = j /\ emitted'[m].type \in EventType
                                => m < n /\ emitted'[m].type = "thinking"
    BY <1>1 DEF EventsNest
  <2>1. Of(n, "call", j)' =>
          \A m \in 1..N : m # n /\ emitted'[m].index = j /\ emitted'[m].type \in EventType
              => m > n /\ emitted'[m].type \in {"input", "call_end"}
    BY <1>1, <1>2 DEF NestInv, EventsNest, Told, Of, Fits, EventType, N
  <2>2. Of(n, "call_end", j)' =>
          /\ \E m \in 1..n-1 : Of(m, "call", j)'
          /\ \A m \in n+1..N : ~(emitted'[m].index = j /\ emitted'[m].type \in EventType)
    <3> SUFFICES ASSUME Of(n, "call_end", j)'
                 PROVE  /\ \E m \in 1..n-1 : Of(m, "call", j)'
                        /\ \A m \in n+1..N : ~(emitted'[m].index = j /\ emitted'[m].type \in EventType)
      OBVIOUS
    <3>1. CASE n = N
      <4>1. j = i /\ t = "call_end" /\ blocks[i].kind = "tool"
        BY <1>1, <3>1 DEF Of, Fits
      <4>2. PICK m \in 1..Len(emitted) : Of(m, "call", i)
        BY <1>1, <4>1 DEF NestInv, Begun
      <4> QED BY <1>1, <3>1, <4>1, <4>2 DEF Of, N
    <3>2. CASE n \in 1..Len(emitted)
      <4>1. Of(n, "call_end", j)
        BY <1>1, <3>2 DEF Of
      <4>2. blocks[j].kind # "none" /\ blocks[j].closed
        BY <1>1, <3>2, <4>1 DEF NestInv, Told, Of, EventType
      <4>3. blocks[j].kind = "tool"
        BY <1>1, <3>2, <4>1, <4>2 DEF NestInv, Told, Of, EventType, TypeOK, Block, BlockKind
      <4>4. j # i
        BY <4>2, <4>3 DEF Fits
      <4>5. PICK m \in 1..n-1 : Of(m, "call", j)
        BY <1>1, <3>2, <4>1 DEF NestInv, EventsNest
      <4>6. \E k \in 1..n-1 : Of(k, "call", j)'
        BY <1>1, <3>2, <4>5 DEF Of
      <4>7. \A k \in n+1..N : ~(emitted'[k].index = j /\ emitted'[k].type \in EventType)
        BY <1>1, <3>2, <4>1, <4>4 DEF NestInv, EventsNest, N
      <4> QED BY <4>6, <4>7
    <3> QED BY <1>2, <3>1, <3>2
  <2>3. Of(n, "thinking_done", j)' =>
          \A m \in 1..N : m # n /\ emitted'[m].index = j /\ emitted'[m].type \in EventType
              => m < n /\ emitted'[m].type = "thinking"
    BY <1>1, <1>2 DEF NestInv, EventsNest, Told, Of, Fits, EventType, N
  <2> QED BY <2>1, <2>2, <2>3
<1> QED BY <1>3, <1>4, <1>5 DEF NestInv

\* Each wire event fits its block.
LEMMA DecoderNests ==
    ASSUME NestInv, TypeOK, NEW i \in Indexes,
           \/ \E k \in BlockKind, n \in {0, 1} : StartBlock(i, k, n)
           \/ TextDelta(i) \/ ThinkingDelta(i) \/ InputDelta(i) \/ StopBlock(i)
    PROVE  NestInv'
<1>0. blocks \in [Indexes -> Block]
  BY DEF TypeOK
<1>1. ASSUME NEW k \in BlockKind, NEW n \in {0, 1}, StartBlock(i, k, n) PROVE NestInv'
  <2>1. /\ blocks[i].kind = "none" /\ blocks'[i].kind = k
        /\ \A j \in Indexes \ {i} : blocks'[j] = blocks[j]
    BY <1>0, <1>1 DEF StartBlock, MayStart
  <2>2. BlocksGo
    BY <2>1 DEF BlocksGo
  <2>3. CASE k = "tool"
    <3>1. Emit("call", i)
      BY <1>1, <2>3 DEF StartBlock
    <3> QED BY <2>1, <2>2, <2>3, <3>1, NewEventNests DEF Fits, EventType
  <2>4. CASE k \in {"text", "thinking"} /\ n > 0
    <3>1. Emit(k, i)
      BY <1>1, <2>4 DEF StartBlock
    <3> QED BY <2>1, <2>2, <2>4, <3>1, NewEventNests DEF Fits, EventType
  <2>5. CASE k # "tool" /\ ~(k \in {"text", "thinking"} /\ n > 0)
    <3>1. emitted' = emitted
      BY <1>1, <2>5 DEF StartBlock
    <3> QED BY <2>1, <2>2, <2>5, <3>1, SameEvents
  <2> QED BY <2>3, <2>4, <2>5
<1>2. CASE TextDelta(i)
  <2>1. Fits("text", i) /\ Emit("text", i)
    BY <1>2 DEF TextDelta, Fits, BlocksGo
  <2> QED BY <2>1, NewEventNests DEF EventType
<1>3. CASE ThinkingDelta(i)
  <2>1. Fits("thinking", i) /\ BlocksGo /\ \A j \in Indexes : blocks'[j].kind = blocks[j].kind
    BY <1>0, <1>3 DEF ThinkingDelta, OpenBlock, Hold, Fits, BlocksGo, Block
  <2>2. CASE Emit("thinking", i)
    BY <2>1, <2>2, NewEventNests DEF EventType
  <2>3. CASE emitted' = emitted
    BY <2>1, <2>3, SameEvents
  <2> QED BY <1>3, <2>2, <2>3 DEF ThinkingDelta
<1>4. CASE InputDelta(i)
  <2>1. Fits("input", i) /\ Emit("input", i)
    BY <1>0, <1>4 DEF InputDelta, OpenBlock, Fits, BlocksGo, Block
  <2> QED BY <2>1, NewEventNests DEF EventType
<1>5. CASE StopBlock(i)
  <2>1. /\ BlocksGo /\ blocks[i].kind # "none" /\ ~blocks[i].closed /\ blocks'[i].closed
        /\ blocks'[i].kind = blocks[i].kind
        /\ \A j \in Indexes \ {i} : blocks'[j] = blocks[j]
    BY <1>0, <1>5 DEF StopBlock, OpenBlock, BlocksGo, Block
  <2>2. CASE blocks[i].kind = "tool"
    <3>1. Emit("call_end", i)
      BY <1>5, <2>2 DEF StopBlock
    <3> QED BY <2>1, <2>2, <3>1, NewEventNests DEF Fits, EventType
  <2>3. CASE blocks[i].kind \in {"thinking", "redacted"}
    <3>1. Emit("thinking_done", i)
      BY <1>5, <2>3 DEF StopBlock
    <3> QED BY <2>1, <2>3, <3>1, NewEventNests DEF Fits, EventType
  <2>4. CASE blocks[i].kind \notin {"tool", "thinking", "redacted"}
    <3>1. emitted' = emitted
      BY <1>5, <2>4 DEF StopBlock
    <3> QED BY <2>1, <3>1, SameEvents
  <2> QED BY <2>2, <2>3, <2>4
<1> QED BY <1>1, <1>2, <1>3, <1>4, <1>5

LEMMA StepNests ==
    ASSUME NestInv, TypeOK, [Next]_vars
    PROVE  NestInv'
<1>1. CASE UNCHANGED <<blocks, emitted>>
  BY <1>1, SameEvents DEF BlocksGo
<1>2. CASE UNCHANGED blocks /\ \E t \in {"done", "error"} : emitted' = Append(emitted, LastEvent(t))
  BY <1>2, LastEventNests
<1>3. CASE WireEvent
  BY <1>3, DecoderNests DEF WireEvent
<1>4. WireEvent \/ UNCHANGED <<blocks, emitted>>
      \/ (UNCHANGED blocks /\ \E t \in {"done", "error"} : emitted' = Append(emitted, LastEvent(t)))
  <2> USE DEF decoder, Fail, ReturnCancelled
  <2>1. CASE Cancel \/ StreamBegins \/ Ignored \/ ReturnFailure \/ UNCHANGED vars
    BY <2>1 DEF Cancel, StreamBegins, Ignored, ReturnFailure, vars
  <2>2. CASE Begin
    BY <2>2 DEF Begin
  <2>3. CASE Answered
    BY <2>3 DEF Answered
  <2>4. CASE Decide
    BY <2>4 DEF Decide
  <2>5. CASE Wait
    BY <2>5 DEF Wait
  <2>6. CASE MessageStop
    BY <2>6 DEF MessageStop
  <2>7. CASE DecodeFails
    BY <2>7 DEF DecodeFails
  <2> QED BY <2>1, <2>2, <2>3, <2>4, <2>5, <2>6, <2>7 DEF Next
<1> QED BY <1>1, <1>2, <1>3, <1>4

\* The events of a block nest, whatever the server sends and however often the
\* request was sent: a call is begun, given its input and ended, each by one block.
THEOREM BlockEventsNest == Spec => []EventsNest
<1>1. Init => NestInv
  BY DEF Init, NestInv, Told, Begun, EventsNest, NotStarted
<1>2. NestInv /\ TypeOK /\ [Next]_vars => NestInv'
  BY StepNests
<1>3. NestInv => EventsNest
  BY DEF NestInv
<1> QED BY <1>1, <1>2, <1>3, ClientTypeCorrect, PTL DEF Spec
=============================================================================
