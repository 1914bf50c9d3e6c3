---------------------------- MODULE SessionReplay ----------------------------
(***************************************************************************)
(* What a session log says and what Resume makes of it: encode (event.go), *)
(* Resume (resume.go) and compaction (compact.go, App.runCompaction), over *)
(* turns that end anywhere, processes that are killed anywhere, and        *)
(* compactions between turns.                                              *)
(*                                                                         *)
(* The agent is reduced to what it records (AgentTurn has its inside), and *)
(* the file to what EventLog promises of it.  A block is known by the      *)
(* number of the record that made it, a call also by its place in it, and  *)
(* a result as its call is.  Whether a result is an error is left out, and *)
(* so is the transcript, the other thing Resume returns.                   *)
(***************************************************************************)
EXTENDS Naturals, Sequences, FiniteSets, SequencesExt

CONSTANTS MinTurns,       \* turns that make a compaction worthwhile, 6 in the code
          KeepTurns,      \* turns a compaction keeps, 4 in the code
          MaxRecords,     \* bound: messages and summaries of a behaviour
          MaxBlocks,      \* bound: blocks of a reply
          MaxRounds,      \* bound: replies with calls
          MaxThoughts,    \* bound: replies with thinking
          MaxKills        \* bound: processes that are killed

ASSUME ReplayAssumption ==
    /\ KeepTurns \in Nat \ {0}
    /\ MinTurns \in Nat /\ KeepTurns + 2 <= MinTurns
    /\ MaxRecords \in Nat /\ MaxBlocks \in Nat
    /\ MaxRounds \in Nat /\ MaxThoughts \in Nat /\ MaxKills \in Nat

VARIABLES conv,     \* Conversation.Messages
          log,      \* the events recorded
          flushed,  \* how many of them the last turn flushed
          stage,    \* idle, reply (a request is sent), tools (calls to answer)
          made      \* counts: records, rounds, thoughts, kills

replayVars == <<conv, log, flushed, stage, made>>

Records == 1..MaxRecords
Block == [kind : {"text", "thinking", "call", "result"}, of : Records, at : 0..MaxBlocks]
Text(n) == [kind |-> "text", of |-> n, at |-> 0]
ToolResult(call) == [call EXCEPT !.kind = "result"]

Message == [role : {"user"}, content : Seq({b \in Block : b.kind \in {"text", "result"}})]
             \cup [role : {"assistant"}, content : Seq({b \in Block : b.kind # "result"})]
UserMessage(bs)      == [role |-> "user", content |-> bs]
AssistantMessage(bs) == [role |-> "assistant", content |-> bs]

\* The blocks of that kind, in their order.
Blocks(m, kind) ==
    LET upTo[i \in 0..Len(m.content)] ==
          IF i = 0 THEN <<>>
          ELSE IF m.content[i].kind = kind THEN Append(upTo[i - 1], m.content[i])
          ELSE upTo[i - 1]
    IN  upTo[Len(m.content)]
Calls(bs) == {b \in ToSet(bs) : b.kind = "call"}
Results(bs) == {b \in ToSet(bs) : b.kind = "result"}

ReplayInit ==
    /\ conv = <<>>
    /\ log = <<>>
    /\ flushed = 0
    /\ stage = "idle"
    /\ made = [records |-> 0, rounds |-> 0, thoughts |-> 0, kills |-> 0]

-----------------------------------------------------------------------------
(* encode: the events of a recorded message *)

\* An event: the blocks it holds, or the range it replaces (compaction.applied).
Event(t, bs)   == [type |-> t, blocks |-> bs, from |-> 0, to |-> 0]
Applied(f, t, n) == [type |-> "compaction.applied", blocks |-> << Text(n) >>, from |-> f, to |-> t]

\* A thinking block each, then one event for all the text and the calls.
EncodeAssistantAppend(m) ==
    LET texts == Blocks(m, "text")
        rest  == (IF texts = <<>> THEN <<>> ELSE << Head(texts) >>) \o Blocks(m, "call")
        thoughts == Blocks(m, "thinking")
    IN  [i \in DOMAIN thoughts |-> Event("assistant.thinking", << thoughts[i] >>)]
          \o IF rest = <<>> THEN <<>> ELSE << Event("assistant.message", rest) >>

EncodeUserAppend(m) ==
    [i \in DOMAIN m.content |->
        Event(IF m.content[i].kind = "text" THEN "user.message" ELSE "tool.completed",
              << m.content[i] >>)]

EncodeAppend(m) == IF m.role = "user" THEN EncodeUserAppend(m) ELSE EncodeAssistantAppend(m)

-----------------------------------------------------------------------------
(* Resume *)

EndsWithUser(c) == c # <<>> /\ Last(c).role = "user"

\* mergeUserText, mergeUserResult
MergeUser(c, b) ==
    IF EndsWithUser(c) THEN [c EXCEPT ![Len(c)].content = Append(@, b)]
    ELSE Append(c, UserMessage(<< b >>))

\* The messages from..to, counted from 0, become one that carries the summary.
ApplyCompaction(c, from, to, summary) ==
    SubSeq(c, 1, from) \o << AssistantMessage(<< summary >>) >> \o SubSeq(c, to + 2, Len(c))

\* pending: the results that the last assistant.message still needs.
Empty == [conv |-> <<>>, pending |-> {}, ok |-> TRUE]

ReadMessage(r, e) ==
    [r EXCEPT !.conv = Append(@, AssistantMessage(e.blocks)),
              !.pending = {ToolResult(c) : c \in Calls(e.blocks)}]

ReadCompleted(r, e) ==
    IF e.blocks[1] \in r.pending
    THEN [r EXCEPT !.conv = MergeUser(@, e.blocks[1]), !.pending = @ \ {e.blocks[1]}]
    ELSE [r EXCEPT !.ok = FALSE]

ReadApplied(r, e) ==
    IF e.from <= e.to /\ e.to < Len(r.conv)
    THEN [r EXCEPT !.conv = ApplyCompaction(@, e.from, e.to, e.blocks[1])]
    ELSE [r EXCEPT !.ok = FALSE]

\* One event of the log; after a malformed one Resume has returned.
Read(r, e) ==
    IF ~r.ok THEN r
    ELSE CASE e.type = "user.message" -> [r EXCEPT !.conv = MergeUser(@, e.blocks[1])]
           [] e.type = "assistant.thinking" ->
                [r EXCEPT !.conv = Append(@, AssistantMessage(e.blocks))]
           [] e.type = "assistant.message"  -> ReadMessage(r, e)
           [] e.type = "tool.completed"     -> ReadCompleted(r, e)
           [] e.type = "compaction.applied" -> ReadApplied(r, e)

Resume(lines) ==
    LET upTo[i \in 0..Len(lines)] == IF i = 0 THEN Empty ELSE Read(upTo[i - 1], lines[i])
    IN  upTo[Len(lines)]

-----------------------------------------------------------------------------
(* What is recorded: the store encodes it *)

New == made.records + 1

AppendMessage(m) ==
    /\ conv' = Append(conv, m)
    /\ log' = log \o EncodeAppend(m)

\* addUserText: a merge is recorded as a user.message too (encodeMerge).
AddUserText ==
    IF EndsWithUser(conv)
    THEN /\ conv' = MergeUser(conv, Text(New))
         /\ log' = Append(log, Event("user.message", << Text(New) >>))
    ELSE AppendMessage(UserMessage(<< Text(New) >>))

\* The turn ends: RunTurn flushes the store.
Idle == stage' = "idle" /\ flushed' = Len(log')

UserSpeaks ==
    /\ stage = "idle" /\ made.records < MaxRecords
    /\ AddUserText
    /\ stage' = "reply"
    /\ made' = [made EXCEPT !.records = @ + 1]
    /\ UNCHANGED flushed

\* A stream fails, is cancelled or is never sent: nothing is recorded.
ReplyFails ==
    /\ stage = "reply"
    /\ UNCHANGED <<conv, log, made>>
    /\ Idle

\* Replies by the kinds of their blocks; a text is never followed by a text.
Shapes == {ks \in UNION {[1..n -> {"thinking", "text", "call"}] : n \in 1..MaxBlocks} :
             \A i \in 1..(Len(ks) - 1) : ~(ks[i] = "text" /\ ks[i+1] = "text")}

BlockAt(ks, i) ==
    [kind |-> ks[i], of |-> New, at |-> IF ks[i] = "call" THEN i ELSE 0]

Replies(ks) ==
    /\ stage = "reply" /\ made.records < MaxRecords
    /\ Contains(ks, "thinking") => made.thoughts < MaxThoughts
    /\ Contains(ks, "call") => made.rounds < MaxRounds
    /\ AppendMessage(AssistantMessage([i \in DOMAIN ks |-> BlockAt(ks, i)]))
    /\ made' = [made EXCEPT !.records = @ + 1,
                            !.thoughts = @ + IF Contains(ks, "thinking") THEN 1 ELSE 0,
                            !.rounds = @ + IF Contains(ks, "call") THEN 1 ELSE 0]
    /\ IF Contains(ks, "call") THEN stage' = "tools" /\ UNCHANGED flushed ELSE Idle

\* The results of all calls; then another request, or the turn ends there:
\* cancelled, or with a limit reached.
ToolsAnswer ==
    /\ stage = "tools"
    /\ LET round == Blocks(Last(conv), "call")
       IN  AppendMessage(UserMessage([i \in DOMAIN round |-> ToolResult(round[i])]))
    /\ \/ stage' = "reply" /\ UNCHANGED flushed
       \/ Idle
    /\ UNCHANGED made

-----------------------------------------------------------------------------
(* Compaction *)

\* (mutant) Every user message starts a turn.
UserMessages(c) == {i \in 0..(Len(c) - 1) : c[i + 1].role = "user"}

\* The messages that start a turn, counted from 0.
TurnStarts(c) ==
    {i \in 0..(Len(c) - 1) : c[i + 1].role = "user"
                               /\ \E b \in ToSet(c[i + 1].content) : b.kind = "text"}

CanCompact(c) == Cardinality(TurnStarts(c)) >= MinTurns

\* Where the last KeepTurns turns begin.
KeptStart(c) ==
    CHOOSE s \in TurnStarts(c) : Cardinality({t \in TurnStarts(c) : t >= s}) = KeepTurns

\* (mutant) The range reaches into the turns that are kept.
CompactToTooFar(c) == KeptStart(c)

\* PlanCompaction: the range is from 1 to the message before the kept turns.
CompactTo(c) == KeptStart(c) - 1

\* (mutant) The swap is not recorded.
CompactsUnrecorded ==
    /\ stage = "idle" /\ made.records < MaxRecords
    /\ CanCompact(conv)
    /\ conv' = ApplyCompaction(conv, 1, CompactTo(conv), Text(New))
    /\ made' = [made EXCEPT !.records = @ + 1]
    /\ UNCHANGED <<log, flushed, stage>>

\* Before a turn, or for /compact, which also flushes: Compact and runCompaction's
\* swap and record.  A failed or cancelled one changes nothing.
Compacts ==
    /\ stage = "idle" /\ made.records < MaxRecords
    /\ CanCompact(conv)
    /\ conv' = ApplyCompaction(conv, 1, CompactTo(conv), Text(New))
    /\ log' = Append(log, Applied(1, CompactTo(conv), New))
    /\ made' = [made EXCEPT !.records = @ + 1]
    /\ flushed' \in {flushed, Len(log')}
    /\ UNCHANGED stage

-----------------------------------------------------------------------------
\* The process ends, at any time; the next one resumes what the file holds, or
\* begins a new log when Resume refuses it.
Restarts ==
    /\ made.kills < MaxKills
    /\ \E n \in flushed..Len(log) :
         LET r == Resume(SubSeq(log, 1, n))
         IN  /\ log' = IF r.ok THEN SubSeq(log, 1, n) ELSE <<>>
             /\ conv' = IF r.ok THEN r.conv ELSE <<>>
             /\ flushed' = Len(log')
    /\ stage' = "idle"
    /\ made' = [made EXCEPT !.kills = @ + 1]

ReplayNext ==
    \/ UserSpeaks \/ ReplyFails \/ ToolsAnswer \/ Compacts \/ Restarts
    \/ \E ks \in Shapes : Replies(ks)

ReplaySpec == ReplayInit /\ [][ReplayNext]_replayVars

-----------------------------------------------------------------------------

\* A conversation up to what encode does not keep: neighbouring assistant
\* messages are one, and their texts come first.
Arranged(m) ==
    Blocks(m, "thinking")
      \o (IF Blocks(m, "text") = <<>> THEN <<>> ELSE << Head(Blocks(m, "text")) >>)
      \o Blocks(m, "call")
Join(c, m) ==
    IF m.role = "user" THEN Append(c, m)
    ELSE IF c # <<>> /\ Last(c).role = "assistant"
         THEN [c EXCEPT ![Len(c)].content = @ \o Arranged(m)]
         ELSE Append(c, AssistantMessage(Arranged(m)))
Canon(c) ==
    LET upTo[i \in 0..Len(c)] == IF i = 0 THEN <<>> ELSE Join(upTo[i - 1], c[i])
    IN  upTo[Len(c)]

\* What a conversation says block by block, and by whom; and what the events of a
\* log do, compactions aside.
Speaks(role, bs) == [i \in DOMAIN bs |-> [role |-> role, block |-> bs[i]]]
Flat(c) == FlattenSeq([i \in DOMAIN c |-> Speaks(c[i].role, c[i].content)])
Says(e) ==
    IF e.type = "compaction.applied" THEN <<>>
    ELSE Speaks(IF e.type \in {"user.message", "tool.completed"} THEN "user" ELSE "assistant", e.blocks)
Said(lg) == FlattenSeq([i \in DOMAIN lg |-> Says(lg[i])])

\* Where the last KeepTurns texts of the user begin in the log, or all of them.
UserTexts(lg) == {i \in DOMAIN lg : lg[i].type = "user.message"}
RecentStart(lg) ==
    LET texts == UserTexts(lg)
        n == IF Cardinality(texts) > KeepTurns THEN KeepTurns ELSE Cardinality(texts)
    IN  CHOOSE i \in texts : Cardinality({j \in texts : j >= i}) = n

\* Thinking was recorded before a compaction: the range it was recorded with does
\* not count the messages as Resume makes them.
CompactedThinking ==
    \E i, j \in DOMAIN log : i < j /\ log[i].type = "assistant.thinking"
                                  /\ log[j].type = "compaction.applied"

\* Whenever the process ends, Resume takes its log for a well formed one
\* (ErrMalformedSession), and makes the conversation the process had, after any
\* turns, merges, compactions and restarts (architecture.md section 6); but for
\* thinking that was there when a compaction was recorded.
ResumeRebuilds ==
    /\ \A n \in flushed..Len(log) : Resume(SubSeq(log, 1, n)).ok
    /\ ~CompactedThinking => Canon(Resume(log).conv) = Canon(conv)

\* However often the conversation was compacted and the process restarted, it
\* still begins with the first text of the user, and ends with everything since
\* the KeepTurns-th last one (kirsch-plan.md section 6.4).
RecentKept ==
    (UserTexts(log) # {} /\ ~CompactedThinking) =>
        /\ Head(Flat(Canon(conv))) = [role |-> "user", block |-> log[1].blocks[1]]
        /\ IsSuffix(Said(SubSeq(log, RecentStart(log), Len(log))), Flat(Canon(conv)))

\* The calls of a message are answered by the next, and by it alone.
CallsAnswered(c) ==
    \A i \in 1..(Len(c) - 1) :
        {ToolResult(b) : b \in Calls(c[i].content)} \subseteq Results(c[i+1].content)
ResultsBelong(c) ==
    \A i \in DOMAIN c :
        Results(c[i].content) \subseteq
            IF i = 1 THEN {} ELSE {ToolResult(b) : b \in Calls(c[i-1].content)}

\* A round of calls was cut by the end of the process, and the log went on.
CutRound ==
    \E i \in DOMAIN log : \E j \in 1..Cardinality(Calls(log[i].blocks)) :
        i + j <= Len(log) /\ log[i+j].type # "tool.completed"

\* A turn ended with results, and the next text was put into their message, though
\* the conversation may have been compacted between.
MergedIntoResults ==
    \E i, j \in DOMAIN log :
        /\ i < j /\ log[i].type = "tool.completed" /\ log[j].type = "user.message"
        /\ \A k \in (i + 1)..(j - 1) : log[k].type = "compaction.applied"

\* A request carries no call without its result and no result without its call,
\* after any turns, compactions and restarts, if none of the three happened.
RequestPaired ==
    (stage = "reply" /\ ~CompactedThinking /\ ~CutRound /\ ~MergedIntoResults) =>
        CallsAnswered(Canon(conv)) /\ ResultsBelong(Canon(conv))
=============================================================================
