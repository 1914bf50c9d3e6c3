# Kirsch in TLA+

Kirsch is a terminal coding agent: a TUI, an application layer, an agent loop that streams a
model's replies and runs its tool calls, a session log on disk, and tools that run commands and
apply patches in the workspace.  This directory holds TLA+ modules translated from its Go source,
the TLC configurations that check them on small instances, and theorems that TLAPS proves for every
value of the constants.

    tlc -workers 2 -config MCAgentTurn.cfg MCAgentTurn      # model checking
    tlapm AgentTurnProofs.tla                               # proofs

`PROJECT.json` lists the runs, maps each definition to the source lines it stands for, gives for
each property a mutation of a mapped definition that breaks it, and lists the hazards of the code
at their lines.

## 1. The system

| part | state it keeps | operations | talks to |
|---|---|---|---|
| agent loop, `internal/agent/agent.go` | the conversation; per turn: rounds, retries, the assembly of the stream, the results so far | `Turn`, `streamAssistant`, `assembly.accept`, `invokeTools`, `appendMessage`, `addUserText` | the provider (`Stream`), the tools (`Invoke`), the `Recorder` |
| application, `internal/app/app.go` | conversation and store of the session, `turnStop`, `turnsLive`, `compacting`, the `opMu` and `inFlight` locks, pending approval requests | `Submit`, `RunTurn`, `BeginTurn`, `CancelTurn`, `ManualCompact`, `NewSession`, `Request`, `Resolve`, `ClearGrants`, `ResumeLastSession`, `Close` | agent, session store, policy, TUI by messages |
| terminal UI, `internal/tui` | the transcript of items, `busy`, `compacting`, `newSessionPending`, the approval card with the keys, selection, folding, scroll offset, modal, composer | `Update`: keys and messages | the App by its callbacks |
| session store, `internal/session/store.go`, `repair.go` | the events channel, the buffered writer and its sticky error, the file, `closed` | `New` (with `repairSession`), `Record…`, `Flush`, `Close`, the writer goroutine | the file system; called by agent and App |
| session replay, `event.go`, `resume.go`, `compact.go` | none (functions from messages to lines and back) | `encode`, `Resume`, `PlanCompaction`, `Compact`, `applyCompaction` | store, App |
| policy and grants, `policy.go`, `session/grants.go` | the session grants in memory and in the log | `ForCommand`, `ForPatch`, `Grant`, `ClearGrants`, `LoadGrants` | App, tools |
| patch text, `internal/patch/patch.go` | the place in the text, the change and hunk being read | `Parse`, `Render` | `apply_patch` |
| patch, `internal/patch/apply.go` and `tool/apply_patch.go` | the lines and offsets of a file being changed; temp files and backups, the entries of the commit | `applyModify`, `locateHunk`, `Stage`, `Commit`, `rollback`, `Discard`, `Invoke` | file system, approval |
| `run_command`, `internal/tool/run_command.go` | the process group, the contexts, the output kept | `Invoke`, `killProcessGroup`, `capWriter.Write` | processes, approval |
| other tools | none between calls | read, list, search, git | file system |
| provider, `internal/provider`, `anthropic/` | the attempts of a call, the blocks of one stream | `Stream`, `streamAttempt`, `retryWait`, `Decode` | HTTP, the agent |
| layout, index, usage, lock, persist | files under the state root | create, list, rewrite; `flock` | App, doctor |
| config, doctor, telemetry, workspace, prompt, command line, probe | read at start, or logs | | |

How they interact.  The TUI is one goroutine; a key calls a callback of the App, which starts a
goroutine (`RunTurn`, `ManualCompact`, `NewSession`) and returns.  What those goroutines have to say
goes back as messages: some by `send`, which returns when the TUI has taken the message, some by
`sendAsyncSequence`, which puts each sequence in a goroutine of its own, so that messages of
different origins arrive in any order.  `RunTurn` calls `Agent.Turn` on the one conversation of the
session; `Turn` reads one stream of the provider a round, and each tool call runs in a goroutine that
a cancelled turn leaves behind.  `Turn` gives every message to the `Recorder`, which is the store: a
bounded channel and a writer goroutine.  `apply_patch` and `run_command` run in such a tool
goroutine; they ask the policy, and through `Request` the user, whose answer comes from the TUI by
`Resolve`.

What is hard: turns that unwind while a next one starts (Esc clears `busy` at once); approval, cancel
and answer racing; a grant recorded while it is cleared; a tool that outlives its turn and its
session; messages that overtake each other; `/new` and `/compact` against a live turn; a stream that
fails half way; a command whose child keeps the pipe; a process that dies between any two writes, a
torn last line, a repair of it; a full queue, a writer that fails half way; a commit of several files
where any call may fail, and so may the calls that undo it; patches with wrong counts.

What makes each part correct:

* agent loop: roles alternate, every call has exactly one result in the next message, whatever was
  cancelled or failed; a failed reply leaves no trace; the recorded messages rebuild the
  conversation; a cancelled turn returns.
* App and TUI: one writer of the conversation; nothing of an old session is written into a new one;
  `/compact` never runs beside a turn; `/new` ends; a card shows what happened to its own call and
  keeps showing it; nothing moves the view of who reads.
* approvals: nothing runs without leave; a grant is in the log of its session and a clear is final.
* store: order and no gaps; what `Flush` acknowledged survives any crash and later repair (which the
  code does not keep in two cases, section 6); `Close` drains; no caller blocks for ever.
* replay: what `Resume` reads is the conversation that was recorded; compaction cuts at turns.
* patch: read as meant or refused; hunks go where the report says; all or nothing; nothing lost at
  any instant.
* `run_command`: ends; success means a whole run and whole output.
* provider: events of a block nest; exactly one last event, which fits the result; no retry after the
  first event; a cancelled call returns.

## 2. Modules

| module | models | proved about in |
|---|---|---|
| `Conversation` | abstract: what a conversation may look like (`WellFormed`) and how it may grow (`Grows`) | `AgentTurnProofs` |
| `AgentTurn` (extends `Conversation`) | `agent.go`: `Turn` and everything it calls | `AgentTurnProofs` |
| `AppTurns` | the concurrency of `app.go` and the control of `tui/update.go` | `AppTurnsProofs` |
| `Policy` | the decisions of `policy.go`: which requests need an answer, which grants are given | |
| `Approvals` (extends `Policy`) | `Request`, `Resolve`, `ClearGrants`, `NewSession`, resume: in the steps of their locks | `ApprovalsProofs` |
| `TuiModes` | the model of `tui/`: modes, items, selection, scrolling, the messages of the turns | `TuiModesProofs` |
| `EventLog` | abstract: a log that loses events only from its unsafe end | `SessionProofs` |
| `SessionStore` | `store.go` and `repair.go`, with crashes and reopening | `SessionProofs` |
| `SessionReplay` | `event.go`, `resume.go`, `compact.go`: what a log says and what is made of it | `SessionProofs` |
| `PatchParse` | `patch.go`: `Parse` line by line, and `Render` | |
| `HunkApply` | `applyModify` and `locateHunk` of `apply.go`, against `Rewritten`, what hunks mean | `ToolProofs` |
| `PatchText` (extends both) | a text as a model writes it, parsed and applied | `ToolProofs` |
| `PatchCommit` | `Stage`, `Commit` and `rollback` of `apply.go` and the approval in `tool/apply_patch.go`, with failing calls | `PatchCommitProofs` |
| `RunCommand` | `run_command.go` and what `os/exec` does for it | `ToolProofs` |
| `ProviderStream` | abstract: what `provider.go` promises of `Stream` | |
| `StreamClient` | `client.go` and `decode.go` of the anthropic provider | `StreamClientProofs` |
| `MC…` | instances for TLC | |

How they fit together.  `AgentTurn` extends `Conversation` and is shown to implement its `Grows`;
`SessionStore` implements `EventLog`; `StreamClient` implements `ProviderStream`.  `SessionReplay`
assumes of the file what `EventLog` promises (a prefix that holds what was flushed), and of the agent
what `AgentTurn` records.  `AgentTurn` assumes nothing of a stream.  `RunCommand` takes the answer of
`Approvals` as a choice.  `PatchText` composes parser and placing; `PatchCommit` takes the contents
they produce as values.

**AgentTurn.** `conv` is `Conversation.Messages`, `log` the calls of the `Recorder`.  `pc` says where
`Turn` is: between turns (`idle`), at the head of its loop (`round`), in the stream (`stream`), at the
head of `invokeTools`' loop (`invoke`), in its `select` (`select`).  A stream is any sequence of
events, well formed or not, and `Accept` is `assembly.accept`.  `running` holds the tool goroutines;
each names its turn, round and place, since each has a channel of its own: the result of an
abandoned one goes nowhere.  `ToolReturns` may come at any time or never.  The text of blocks is
left out, their order and kind are kept.

**AppTurns.** A job is a `RunTurn` or `ManualCompact` goroutine with a context of its own.  `stop` is
`turnStop`: the one context that `CancelTurn` can reach.  `session` names conversation and store
together (both are replaced by `installSession` under one lock); a job keeps the numbers it read.
Locks are modelled by what they guard: `NewSession` holds `opMu` from `NewSessionLocks` to
`NewSessionInstalls` and `Submit` is refused meanwhile; `InFlight` is the wait group.  Messages of one
job and kind that are under way together count as one, and all messages may overtake each other.
`Submit` may also answer with an error at any time (no key, a store that does not open).

**Approvals.** A call of a tool is begun by `Invoke`, asks the policy, waits in `Request`, and `Returns` with
the answer in its channel or with the cancellation, whichever `select` takes.  The TUI's goroutine is
`tui`: `Resolve` in its steps (look under `approveMu`, grant, read the store under `storeMu`, record,
deliver) and `ClearGrants` in its three, so that the call may end, the turn be cancelled and a new
session be installed (`Installs`, `ResetsGrants`, `ClosesOld`) between any two.  `logs` keeps the grant
events of every session, `synced` how many of them survive a kill.  `Restart` kills the process in any
state and resumes the last session, or begins a new one.  `setting` is the configuration and whether
another instance holds the lock.  `Policy.Fields` is what `strings.Fields` makes of a logged
command, which `FieldsOf` gives per command, so that a command with a blank in a word is among them.
`pressed` and `revoked` are history variables.

**TuiModes.** `items` is the transcript: of each item its kind, the state it shows and what it is about.
`toolCards`, `textBlocks` and `approvalCards` are the maps by which messages find items; `pending` is
the card that has the keys.  The turns are reduced to what they send (`CallsTool`, `Asks`, `Completes`,
`Speaks`, `EndsTurn`); `inbox` holds the messages under way, at most `MaxInFlight`, and the TUI takes any
of them that the App's own waiting allows.  Each `Takes…` is the case of `Update` for one message, each
other action a key in the mode that `Mode` says.  An item has one row, or two when its body is shown:
`Rows` is the only thing kept of the layout, and `ViewH` rows are in view.  `Uses` are six profiles of
what a behaviour has (tool calls; calls and `/new`; browsing and overlays; streamed text and `/new`;
editing and notices; slash commands), so that their product does not have to be explored.  `Links` is
whether a request names the card of its tool, which today it never does (section 6).  `stale` is a
history variable: it turns true when a message of a turn that began before the last `/new` is taken after
it; `FinalStays` and `CardsTell` are stated for transcripts without one, since item numbers begin anew.

**SessionStore.** The file is the sequence of what was written to it: a line that is `good`, or what a failed
write or a crash left of one, which is `torn` inside its JSON or has all of it and `no_newline` (`Cuts`).
Whatever comes behind such a part stands on the same line, so that an element is a line of its own only when the one
before it is good (`Valid`): no state of an element has to change when something is appended to it.  `buf` is
the `bufio.Writer` with its sticky error `failed`.  `FlushFails` stops after any part of what the buffer holds;
a write that `bufio` makes earlier, because its buffer is full, is part of the flush or the crash that follows.
`Crash` keeps any beginning of what is not yet synced, the last line perhaps cut, and loses the process' memory.
`Open` is `New` with `repairSession`, which may succeed, fail before it cuts, or cut and fail in its sync; the
store is then used as it is.  A sync that succeeds covers all that is in the file before it, and the file keeps its
length when one fails.  `repairSession` keeps a last line that has no newline, and `Open` appends behind it.
The lines of one Record call are one line here.  `drain` may answer a `Flush`: Go's language lets its select
see one, though today's runtime wakes a waiting `Flush` by the closed channel first.

Two history variables name what `Flush` promised in vain: `glued`, the events written behind a part
of a line and the one that they were glued to, and `hurried`, the events that were still queued when `drain`
answered a `Flush` that covers them.  `Durable` is stated for the others.  The mapping to `EventLog` has no exclusion: `log <- Kept`, the events that a reader would find
if nothing more went wrong, of which there are no more once the file ends with a part of a line, and
`safe <- Hardened`, those that are on the disk with their newlines.

**SessionReplay.** The agent is reduced to what it records: a user text (`UserSpeaks`, with the merge of
`addUserText`), a reply of any blocks (`Replies`), the results of its calls (`ToolsAnswer`), and turns
that end at each of these.  `EncodeAppend` is `encode`, `Read` the body of `Resume`'s loop, so that
`Resume` is a recursive function over the lines, and `Canon` one over messages.  `Compacts` is `Compact` with the swap and the record of
`runCompaction`.  `Restarts` ends the process in any state, keeps any part of the log that holds what was
flushed, and resumes it.  Call identifiers never repeat, as those of a provider; `Canon` is what the log
keeps of a conversation: `encode` puts the text of a reply before its calls and its thinking before both,
and neighbouring assistant messages are one request to the provider.  The three properties are stated
for histories without the cases of section 6, which `CompactedThinking`, `CutRound` and
`MergedIntoResults` name; in all others they hold.

**PatchParse, HunkApply, PatchText.** A line of text is its form, which is all the parser looks at, and
an argument; `"--- p"` is at once a header and the removal of `"-- p"`, as it is for the code.  `place` is
the loop of `parse`, `parseFileChange` or `parseHunk` that reads, `BodyFollowsAt` and `BodyContinuesAt` are
its looks ahead.  `HunkApply` keeps the code's 0-based indices and its `offset`, `resize` and `floor`;
`Rewritten` says what the hunks mean, without any of these.  Line endings are only a choice at the end,
where they may make the code refuse.  `PatchText` starts from the changes that were intended, renders them,
and applies the slips of a language model: counts off by one, context lines that lost their space, a stray
line, a signature, blank line or remark behind the end.

**PatchCommit.** A name is a path of the workspace, or the temp file, backup or second backup of a
change; a file holds an original, a user's or a new content.  Each call that can fail is an action
with a success and a failure (at most `MaxFaults`).  `todo` is what rollback, `Discard` or the final
cleanup still has to do, in the code's order: an entry for each change to undo or temp file to remove,
and in it the calls left, whose errors are only collected.  A call that fails may give up the rest of its
entry (`skips`, the `continue` of the code); `NextEntry` goes on to the next.
Since a killed process stops in any state, an invariant of every state covers a crash.  Creating a
name with `CreateTemp` and the rename onto it are one step, as are a `Stat` and the backup it decides;
the user edits files only until the commit begins; a rename onto itself is left out.

**RunCommand.** `inv` is where `Invoke` is, `watch` the goroutine with which `os/exec` waits for the
context and calls `cmd.Cancel`, here `killProcessGroup`.  The command is a leader and one process it
starts, the heir: `nature` says whether they ignore SIGTERM, and whether the heir stays in the group and
keeps the pipe.  Output is counted in units: `written` by the processes, `kept` by `capWriter`.  The two
seconds of the poll, the timeout and `WaitDelay` may end at any moment: what they race with is what
matters.

**StreamClient.** `phase` is where `Stream` is; an attempt is answered by a status, a network error or a
stream, a stream is any sequence of wire events on any block indexes.  `held` is what `retain` has
collected against its limit, `emitted` what the agent was given.  A wait between attempts may end by its
timer or by the context.

## 3. Runs

Every bound is a constant of the cfg, named in its module.

| run | question | bounds, and why they are enough |
|---|---|---|
| `agent_turn` | do conversation and record stay well formed whatever the stream, tools and cancellation do, and does a cancelled turn end? | two turns (a goroutine left over from the first meets the second), two identifiers and the empty one, a known and an unknown name, replies of up to two calls (one before and one after the failing call), two rounds, one retry (both limits are reached) |
| `app_turns` | does anything outlive its session, does `/compact` stay alone, does `/new` end? | two jobs (one unwinding and one live, or a turn and a `/compact`) and two sessions (a job that began in the first meets the second) |
| `approvals` | does anything run without leave, do memory and log of the grants agree, does a clear last, does a request return? | two calls (one granted for the session, one that the grant covers), two sessions, one kill; commands: a listed one, a shell, one with a blank in a word, one that the split of that word covers; four configurations |
| `tui_modes` | do cards show and keep what happened to their calls, does the view stay? | two turns, two calls, two messages under way, five items on two rows of view (the reader can be above, at and below a card), one `/diff` or `/new`; six profiles |
| `session_store` | durability, order, draining, return of every caller; refinement of `EventLog` | a queue of two (it fills while the writer writes), two recorders, three events, three stores on the file (a crash, a repair that keeps, cuts or fails, appends after it, and a second crash and repair); a write or a crash stops anywhere in a line |
| `session_replay` | is what is resumed the conversation that was, are calls and results paired, are the recent turns whole? | ten records (five turns, or three, a compaction and more turns behind it, with a restart), replies of up to two blocks, one round of calls, one reply with thinking, one kill; a compaction from three turns on that keeps one, which leaves the same gap of two that the code's six and four have |
| `patch_text` | is a patch read as it was meant, or refused, and does it go where the report says? | one or two hunks of up to two lines over two words, on every file of up to three lines, declared at lines 0 to 2, moved by at most one; bodies of up to three lines that look like something else, followed by a change of each kind; one slip in the counts, the blanks, the tail or a stray line |
| `patch_commit` | atomicity, no loss, truthful errors | three paths, two changes of any kind and any names, two failing calls (one in the commit, one in its rollback), one edit by the user |
| `run_command` | does a command end, is success a whole run, is missing output reported? | one leader and one heir with every nature, output past the reported cap and past the safety cap, which is four times the first as in the code |
| `stream_client` | do events nest, does the last one fit the result, is nothing retried after the first, does a cancelled call return? | four attempts as in the code, two block indexes, four wire events of any kind, content up to and past both limits |

`patch_text` and `session_replay` start from many states; the others grow from one or a few.  The bounds of
`session_replay` were also raised one at a time, to three blocks in a reply and to two rounds of calls,
with the same result; the tenth record is the least with which a compaction comes between the results of a round
and the text that joins them.

Two runs each show one sentence of the repository's own documentation or comments that the code
does not keep (section 6): `single_writer` and `body_dropped`.  They have the bounds of the run of the same
module.

**Deadlock** is checked in `tui_modes`, where the TUI may never be unable to take a key or a message;
elsewhere the bounds or the program end a behaviour: turns and blocks run out, a patch has been
applied or refused, a command has ended.

**Fairness.** `AgentTurn`: the goroutine of `Turn` runs, and `Stream` returns once its context is
cancelled, which `CancelledReturns` of `StreamClient` shows; a silent stream otherwise has no deadline, and
nothing is assumed of tools.  `AppTurns`: a cancelled job unwinds, and `NewSession` gets its lock and
wakes from `Wait`; nothing is assumed of users, tools, messages or of jobs that are not cancelled.
`Approvals`: the goroutines of `Request` and of the TUI go on; the user need not answer.
`SessionStore`: Go's `select` chooses at random among the ready cases and the goroutines are scheduled,
hence weak fairness of each case of the writer's and the callers' selects; none of the ticker, of
crashes or of callers.  `RunCommand`: the goroutines go on and the timers (timeout, two seconds,
`WaitDelay`) run out; no process need end, fork or write, and the user need not answer.  `StreamClient`: the
goroutine goes on, a timer runs out, and a request or a read whose context is cancelled returns, as
`net/http` promises; the service need not answer or send anything.  `PatchCommit`, `SessionReplay`,
`PatchText` and `TuiModes` have no liveness property: sequences of calls, and parts that wait for users.

## 4. Theorems

All hold for every value of the constants, from the assumptions named in the modules: that the limits are
natural numbers, that identifiers differ from the empty one, for `RunCommand` that the safety cap is
above the reported one, and for `PatchCommit` that the names `os.CreateTemp` makes are not files of the
workspace.

* `AgentTurnProofs`: `ConversationWellFormed`, `TypeCorrect`, `TurnWellFormed`, `TurnAnswersEveryCall`,
  `TurnImplementsConversation`, `TurnInvokesSequentially`, `FirstFailureStopsTheRound`,
  `RecorderRebuildsConversation`.  `ConversationWellFormed` is `Grows => []WellFormed`, where `WellFormed`
  alone is inductive, since each kind of growth says what it needs of the last message.  In `Turn`, that the
  results appended at the end of a round
  answer the calls of the last message depends on the assembly still holding these calls while tools
  run, and on the results so far being those of its first calls.  The inductive `IInv` therefore adds to
  `TypeOK`, `WellFormed` and `NothingUnanswered` what `Handling` says: in `idle`, `round` and `stream` there
  are no results; in `invoke` and `select` the last message is the reply, its calls are `asm.calls`, and
  `results` answers a proper initial part of them.  That each step is a step of `Grow` or leaves `conv`
  alone follows from `IInv`, and `WellFormed` from the refinement and `ConversationWellFormed`.
  `SequentialInv` and `FailureInv` are the invariants of two theorems more, of `SequentialInvocation`
  and of `FirstFailureStops`, which are proved and not in a run.  `RecorderRebuildsConversation`
  is about the recursive function `Replayed`: `ReplayOf` says that there are conversations from the empty one to
  `conv`, one record apart, which every step can prolong, and `ReplayIsReplayed` that there is only one such
  chain.
* `AppTurnsProofs`: `AppTypeCorrect`, `NoJobOutlivesItsSession`, `CompactionMeetsNoTurn`,
  `OneCancelReachesAll`.  `IInv` is these four invariants and `Stages`, which says that a job has only the
  stages of its kind.  Each action is shown once to move the jobs in one of five ways (`StepMoves`): no job
  moves, one goes on or ends, one claims the conversation, a `/compact` is asked for, a session is
  installed while nothing is in flight.  The invariants are proved over these five.
* `ApprovalsProofs`: `ApprovalTypeCorrect`, `NothingIsRunUnapproved`, `GrantsAreTheUsers`, `ClearsHold`,
  `MemoryHasNoMoreThanTheLog`.  A call may run on
  an answer in its channel, on a grant in memory, or on one restored from a log, each written by a
  goroutine that looked at the request some steps before.  `IInv` follows these three: an answer in the
  channel is what the user pressed on that card (`AnswersAreTheUsers`), what `Resolve` is working on is
  such an answer, and a session one when it grants (`ResolveWorks`), and every grant of every log was given
  on a card by an instance that may grant (`LogsAreTheUsers`).  For the last two theorems `GInv` adds what
  memory and logs have to do with each other: a grant is in one log and once (`LogsOnce`), behind each one
  that was cleared the disk has a clear, so that no kill can take it (`ClearsAreSynced`), and a grant in
  memory is in force in the log of its session but for the one that `Resolve` is about to record
  (`MemoryIsLogged`).
* `SessionProofs`, of the store: `StoreTypeCorrect`, `PromisesAreKept`, `StoreImplementsLog`.  They have no
  hypothesis about what a failed write or a crash leaves.  What can be read of a file is its intact lines, and one
  more that is last and lacks its newline (`Reach`, `ReadableIs`); a repair, and an append or a cut behind the
  synced part, change neither what is intact there nor, but for the last line, what can be read
  (`RepairIs`, `CutKeeps`).  So each step leaves the log, takes an event, or cuts it behind what is
  hardened (`StepKind`), which are the steps of `EventLog`.  `IInv` is `TypeOK`, `NoBuffer` (nothing is in the buffer of
  a writer that failed or ended) and `Promises`: what was acknowledged and is not excluded by name can be read from the
  disk; what a `Flush` under way covers, and what `Close` owes, is held in file, buffer or queue as long
  as nothing failed.  `Stays` and `Carries` say of each step that it keeps both, up to what it adds to `glued`.
* `SessionProofs`, of resuming: `ResumeIsFaithful`, `RequestsArePaired` and `RecentTurnsAreKept`.  What `Resume` makes of a log is a
  chain of readings, one event
  apart (`ReadAlong`), and there is one such chain for a log (`ResumeIs`), so that recording prolongs it and a kill
  cuts it.  `Followed` is the invariant: every reading is well formed, the calls that the last round still needs are
  `pending` in the last one, and unless thinking was compacted the conversation read and the one in memory have
  the same `Canon`.  For a compaction that is not enough, since it is recorded by the numbers of messages: with
  thinking the conversation read is longer.  `Follows` adds that without any both have the same messages, up to
  how `encode` arranges a reply (`AllAlike`), so that the numbers mean the same ones.
  For the pairs of calls and results `LegalLog` says what any log of a session is like: each event stands
  where the session may record it, given what was read before it.  The proof is then about reading alone.
  `Pairs` says of a log without the three exceptions that the calls of each message have their results in
  the next one, but for the pending ones (`Balanced`); that a user's text stands apart from results
  (`Orderly`), so that a compaction, which keeps from a text on, parts none; and that the events since
  the open calls were all results (`Counted`), so that what comes next either answers one of them or makes the log one of the
  exceptions.  `LegalLog` holds of every beginning of a log, which is why restarts keep it.
  For what is kept, `Recalls` compares who says which block in the conversation and in the log, compactions aside
  (`EndsAlike`): either the conversation says all that the log does, or both end alike since at least
  the `KeepTurns`-th last text.  An event says behind both what it says; a compaction replaces a beginning of the
  conversation before an end that holds `KeepTurns` turns and so as many texts (`AlikeCut`).  The first message
  keeps its first block (`Begins`).
* `PatchCommitProofs`: `PatchInvariant`, `PatchTypeCorrect`, `PatchIsAllOrNothing`, `PatchLosesNothing`.  The heart
  is `Undoable`: at any moment of a commit, what rollback would do about the change at hand and about the
  committed ones in reverse leads, through a chain of states, from the files as they are back to the files as they were,
  and while a rollback runs without a failing call, what is left of it does.  This holds even for patches that
  name a file twice.  Once a call of the rollback has failed only the single change can be followed:
  `Local` says, for patches of which no two changes name the same file, what the files of a change hold
  before it, after it and at each stage of undoing it, and that what differs has been listed.  The other
  parts keep these two meaningful: which entry an entry of `todo` undoes (`RollbackShape`), which temp files
  and backups there are (`TempsHeld`, `BackupsHeld`), that no call touches a file the patch does not name
  (`OthersStay`).  `NothingLost` follows from `Local` for disjoint patches; for the others from the chain,
  along which no call of an undo destroys content (`Keeps`).
* `TuiModesProofs`: `TuiInvariant`, `TuiTypeCorrect`, `CardsTellOfTheirCalls`, `FinalStatesStay`, `ReaderStays`.
  A message that arrives says what was true when it was sent, and finds its card by a map.  `CallsProceed`
  relates every message under way to how far its call has come, so that an outcome taken late is still the
  call's outcome.  `CardsBelong` says what the maps can be trusted with: the cards of calls of turns since
  the last `/new` are theirs, a call has one approval card, and one whose request is under way has none.
  `Told` is the property with what it needs besides: links go both ways, and while a refusal to keep a
  grant is under way its card still shows that grant (`GrantsShown`).  It is required only while `stale` is
  false, as the properties are.  Steps that change no card, or only end a text or a running tool, are
  shown once to keep all of it (`Quiet`); each message about a card has a lemma of its own, and the
  same lemmas give `FinalStays`.
* `ToolProofs`, of `run_command`: `CommandTypeCorrect`, `CompletedIsWhole`, `CutIsReported`.  Success needs that the
  verdict is only reached with the pipe drained or closed by `WaitDelay`, and a drained pipe that nobody
  writes; the cut needs that what `capWriter` keeps is the minimum of what was written and its cap.
* `ToolProofs`, of patches: `HunksGoWhereReported`, `ExactPatchGoesThere`.  `TextInv` follows a patch from the
  text to the file.  `Numbered` and `ParseTyped` say what a parsed hunk is, a start that is a number and lines of
  the text's words (the parser's steps are only shown to keep types: what they make of a text is not needed).
  `Assembled` says what `lines` is while hunks are being put: pieces of the file and new sides up to the last
  hunk, and behind it the file as it was, with `floor` and `resize` the length and the shift of that beginning.
  A hunk found in `lines` behind `floor` therefore stands in the file `resize` lines before (`MatchesBehind`), and
  putting it keeps this form (`SplicedContinues`).  `Exact` adds that `offset` is `resize` as long as every hunk
  stands where it declares, which needs the case of the insertion (`PutOffByOne` gets it wrong).
* `StreamClientProofs`: `ClientTypeCorrect`, `ClientKeepsPromise`, `BlockEventsNest`.  The refinement needs
  that nothing was emitted before the stream began and that no attempt follows one that streamed; nesting needs
  that the decoder's state of a block is the history of its events, which the invariant says index by index.

The strengthened invariants of the approvals, the store, the commit and the TUI were model-checked on the
instances of section 3 too (the chain of `Undoable` computed from its first state, since TLC cannot enumerate
the chains).  Where a proof needs induction (over the records of a log, the
entries of a rollback, the lines of a file) it takes the least counterexample, by the well-foundedness of `<` on
the natural numbers: the induction theorems of the library take an operator as a parameter, which the
provers cannot instantiate.

Only model-checked: `ReadsWhatIsWritten` of `PatchText`, which says what the parser makes of a whole text and
would need an induction over the lines of hunks of changes; and the liveness properties, `CancelEndsTurn`, `NewSessionEnds`, `AnswersReturn`, `CallersReturn`, `CommandEnds` and
`CancelledReturns`, since fairness is beyond these provers.

## 5. Not modelled, and why

* Rendering, layout, styles, the editing keys and the history of the composer: functions from state to
  text, or of one text.
* Configuration, prompt, telemetry, doctor, workspace detection, the probe: read or write once, no
  state that anything here depends on.
* The other tools (read, list, search, git): no state between calls.
* Layout, index, usage and lock of the sessions: files for display, and `flock`, on which the code only
  decides whether grants are allowed (`setting.concurrent` of `Approvals`).
* Encoding of requests and JSON of responses; prices and budgets: arithmetic and formats.
* Sizes: the 64 KB line limit of `Resume`, the event limit of the decoder's lines.

## 6. Where code and documentation differ

Checked as runs:

* `single_writer`: Esc clears `busy` while the cancelled turn still unwinds; `Submit` looks only at
  compaction, so that a second `RunTurn` starts on the same unguarded conversation.
* `body_dropped`: an empty line in a hunk followed by a line of no patch ends the hunk although more of its
  body follows; the rest is skipped, and the shortened patch is applied.

Met while modelling, and not runs of their own.  In the agent, the App and the approvals:

* A tool result clears `busy` in the middle of a turn, and Esc does nothing until the next delta
  (`tui/update.go:602`; `ui-spec-v0.1.md:27`, "every turn cancellable").
* A session grant that `Resolve` records while `/new` is installing lands in the new session
  (`app.go:2224`; `kirsch-plan.md:202`, "a new session starts clean").  `GrantsAreRecorded` holds nevertheless: whatever is
  in force is in the log of that session.
* A grant is logged with blanks between its words and split at blanks when restored, so that it may cover
  more than was granted (`app.go:1121`, `2247`): `Covers` of `Approvals` allows for it.
* Esc on an approval card denies that call and the turn goes on; `doc/usage.md:173` says it cancels the turn.
* `tool.WithToolID` is called in `App.RunTool` only and not by the agent's tools (`app.go:305`), so that
  requests name no tool card, approved cards never fold, and command output is not streamed into its card
  (`CHANGELOG.md:193`, `ui-spec-v0.1.md:291`).

In the session log (the cases which `SessionStore` and `SessionReplay` exclude by name):

* A last line that lost only its newline is kept by the repair (`repair.go:41`) and the next event is appended
  to it: both become unreadable, although a later `Flush` reported success.  A crash leaves such a line, and so
  does, without one, a write that fails just before the newline (`store.go:369`).  `Durable` leaves these events
  out (`glued`), and the log of `ImplementsLog` takes nothing more from there on.
* `drain` may, as far as the language goes, answer a `Flush` with nil while events that were recorded before
  it are still queued (`store.go:381`); a crash before the last flush of `Close` then loses them.  `Durable` leaves them out (`hurried`).
* A compaction records which messages it replaced; `Resume` makes a message of its own of every thinking
  block, so that after thinking the numbers name other messages.
* A log that ends between a reply and the results of its calls is resumed as it is, and the next request has
  calls that nobody answered.
* When a turn ends with results, the next text joins their message, which then counts as the start of a
  turn; a compaction that keeps from there on replaces the calls.

In the patches:

* A file that appears at the path of a create after it was staged is replaced and its backup removed.
* Rollback tries to remove temp files already renamed into place, and reports a partial rollback where every
  file was restored.  A patch that names a file twice may lose content when a call of its rollback fails, or
  by two renames that swap two files (`NothingLost` is stated for the others).
* A hunk anywhere in a file adds a missing newline at its end, and mixed line endings become one; a file of
  CRLF lines that is emptied, or left with one line without an end, is refused for its line endings.
* A change with a `diff --git` line followed by one without is read as one change.

In `run_command` and the provider:

* The leader dies of SIGTERM and is reaped, the poll of `killProcessGroup` finds it gone and returns, and a
  child of the group that ignores SIGTERM is never killed (comment at `run_command.go:342`,
  `architecture.md:201`).
* A `timeout_seconds` that is too large is refused only after the user approved the command; a start
  with a context that is done reports that the command failed.
* `decodeStream` may return the context's error after an `EventError` was delivered; a silent stream has no
  timeout.

In the TUI, mostly from messages that arrive late, since each sequence has a goroutine of its own:

* A delta or a `ToolStarted` after the end of its turn leaves `busy` on; a late end of a turn clears it while
  `/new` or `/compact` is pending; a `TurnCancelled` taken during the next turn cancels that one
  (`tui/update.go:474`; `architecture.md:195`, "cancelled by Esc or Ctrl+C").
* `ToolStarted` may come after `ToolCompleted`: the call gets two cards, and one runs for ever.
* After `/new`, messages of a turn of the session before may write into cards of the new one, or select an
  item that does not exist.  This is what `stale` leaves out.
* Text can be typed and pasted while a turn runs, by Ctrl+J, Alt+Enter and paste only.
* Folding and resizing can leave the offset of a view that is scrolled up past the last row.

## 7. Plan

1. Done: agent loop, App, TUI, approvals and grants, store and replay, patch text and commit,
   `run_command`, the provider client; proofs of all of them.
2. Proofs next: for `HunkApply`, that a change replaces only what its hunks name; what the parser makes of a
   whole text.
3. Two processes on one state root: lock, index, usage.
4. The composition of `StreamClient` with the assembly of `AgentTurn`: which of the assembly's errors a
   stream that keeps `EventsNest` can still meet.
