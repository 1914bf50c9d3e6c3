------------------------------ MODULE AppTurns -------------------------------
(***************************************************************************)
(* The App and the TUI around the agent: who may use the conversation of   *)
(* the session, and when.                                                  *)
(*                                                                         *)
(* A job is a RunTurn goroutine or a ManualCompact (/compact).  Each has a *)
(* context of its own, named by the job.  NewSession (/new) cancels and    *)
(* waits for the jobs and replaces conversation and store.  A tool call    *)
(* runs in a goroutine of its own that no one waits for.                   *)
(*                                                                         *)
(* The TUI is one goroutine that handles keys and messages, one at a time. *)
(* A message that sendAsyncSequence sends travels in a goroutine of its    *)
(* own, and so messages arrive in any order.  App.send, which tools use,   *)
(* returns when the TUI has taken the message.                             *)
(***************************************************************************)
EXTENDS Naturals, FiniteSets

CONSTANTS MaxJobs,       \* bound: turns and compactions of a behaviour
          MaxSessions    \* bound: sessions, the first included

ASSUME BoundAssumption == MaxJobs \in Nat /\ MaxSessions \in Nat \ {0}

VARIABLES
    \* the App
    session,    \* the number of the current session: a.conv and a.store
    jobs,       \* the jobs, by number
    stop,       \* a.turnStop: the job whose context is the newest, or 0
    cancelled,  \* the jobs whose context is cancelled
    tools,      \* the tool call of each job
    news,       \* the progress of each NewSession, by the session it makes
    \* the TUI
    busy,       \* m.busy.Active
    compactPending,  \* m.compacting
    newPending, \* m.newSessionPending
    card,       \* the job whose approval card has the keys, or 0
    inbox       \* the messages under way

app == <<session, jobs, stop, cancelled, tools, news>>
tui == <<busy, compactPending, newPending, card, inbox>>
vars == <<session, jobs, stop, cancelled, tools, news, busy, compactPending,
          newPending, card, inbox>>

Jobs     == 1..MaxJobs
Sessions == 1..MaxSessions

\* conv and store: the session whose conversation and store the job holds.
Job == [kind : {"none", "turn", "compact"},
        stage : {"none", "starting", "summary", "stream", "tool", "ended"},
        conv : 0..MaxSessions, store : 0..MaxSessions]
NoJob == [kind |-> "none", stage |-> "none", conv |-> 0, store |-> 0]

\* A tool call asks for approval, waits for the answer, works and reports its
\* result, which the turn then takes.
Answer    == {"yes", "no", "escape"}
ToolStage == Answer \cup {"none", "asking", "waiting", "working", "reporting", "returned"}

\* Messages by what they do to the TUI.  "active": ToolStartedMsg, the first
\* delta of a text block, CompactingMsg.  "idle": TurnCompleteMsg, TurnErrorMsg,
\* ErrorMsg.  Those of one job and kind that are under way together count as one.
MessageKind == {"active", "idle", "cancelled", "compact_done", "new_done", "new_failed"}
Msg(k, j) == [kind |-> k, of |-> j]

Live(j)     == jobs[j].stage \notin {"none", "ended"}
LiveTurn(j) == Live(j) /\ jobs[j].kind = "turn"
Compacting  == \E j \in Jobs : jobs[j].kind = "compact" /\ jobs[j].stage = "summary"
InFlight    == {j \in Jobs : LiveTurn(j) \/ jobs[j].stage = "summary"}
OpMuHeld    == \E s \in Sessions : news[s] = "waiting"

Init ==
    /\ session = 1
    /\ jobs = [j \in Jobs |-> NoJob]
    /\ stop = 0
    /\ cancelled = {}
    /\ tools = [j \in Jobs |-> "none"]
    /\ news = [s \in Sessions |-> "none"]
    /\ busy = FALSE
    /\ compactPending = FALSE
    /\ newPending = FALSE
    /\ card = 0
    /\ inbox = {}

-----------------------------------------------------------------------------
(* What the callbacks and goroutines of the App share *)

\* BeginTurn: a new context, the one before cancelled.
BeginTurn(j) ==
    /\ stop' = j
    /\ cancelled' = cancelled \cup ({stop} \ {0})

\* (mutant) There is always a context to cancel.
CancelTurnUnchecked == cancelled' = cancelled \cup {stop}

CancelTurn == cancelled' = cancelled \cup ({stop} \ {0})

Step(j, stage) == jobs' = [jobs EXCEPT ![j].stage = stage]

\* Message m goes out; flushing the store may fail, which makes an ErrorMsg too.
Send(m) == inbox' = inbox \cup {m}
SendAndFlush(j, m) ==
    \/ Send(m)
    \/ inbox' = inbox \cup {m, Msg("idle", j)}

-----------------------------------------------------------------------------
(* The turn goroutine: App.RunTurn *)

\* The goroutine reads a.store, then compacts first or goes to the agent.
TurnStarts(j) ==
    /\ LiveTurn(j) /\ jobs[j].stage = "starting"
    /\ \/ /\ jobs' = [jobs EXCEPT ![j].store = session, ![j].stage = "summary"]
          /\ inbox' \in {inbox, inbox \cup {Msg("active", j)}}
       \/ /\ jobs' = [jobs EXCEPT ![j].store = session, ![j].stage = "stream"]
          /\ UNCHANGED inbox
    /\ UNCHANGED <<session, stop, cancelled, tools, news, busy, compactPending,
                   newPending, card>>

\* The compaction of the turn ends: it was applied or there was nothing to
\* compact, and the agent runs; or the turn ends with an error or cancelled.
TurnCompacted(j) ==
    /\ LiveTurn(j) /\ jobs[j].stage = "summary"
    /\ \/ Step(j, "stream") /\ UNCHANGED inbox
       \/ /\ Step(j, "ended")
          /\ \/ Send(Msg("idle", j))
             \/ j \in cancelled /\ SendAndFlush(j, Msg("cancelled", j))
    /\ UNCHANGED <<session, stop, cancelled, tools, news, busy, compactPending,
                   newPending, card>>

\* The reply begins a block of text.
TurnSpeaks(j) ==
    /\ jobs[j].stage = "stream"
    /\ Send(Msg("active", j))
    /\ UNCHANGED <<app, busy, compactPending, newPending, card>>

\* The reply calls a tool (bound: once in a turn), which may need approval.
TurnCallsTool(j) ==
    /\ jobs[j].stage = "stream" /\ j \notin cancelled /\ tools[j] = "none"
    /\ Step(j, "tool")
    /\ \E s \in {"asking", "working"} : tools' = [tools EXCEPT ![j] = s]
    /\ Send(Msg("active", j))
    /\ UNCHANGED <<session, stop, cancelled, news, busy, compactPending, newPending, card>>

TurnTakesResult(j) ==
    /\ jobs[j].stage = "tool" /\ tools[j] = "returned"
    /\ Step(j, "stream")
    /\ UNCHANGED <<session, stop, cancelled, tools, news, tui>>

\* Agent.Turn returns: with a reply or an error, or because it was cancelled,
\* which it also is while its tool goes on.
TurnEnds(j) ==
    /\ \/ /\ jobs[j].stage = "stream"
          /\ Send(Msg("idle", j))
       \/ /\ jobs[j].stage \in {"stream", "tool"} /\ j \in cancelled
          /\ SendAndFlush(j, Msg("cancelled", j))
    /\ Step(j, "ended")
    /\ UNCHANGED <<session, stop, cancelled, tools, news, busy, compactPending,
                   newPending, card>>

-----------------------------------------------------------------------------
(* The tool goroutine: toolExecutor.Invoke, App.Request *)

ToolStep(j, stage) == tools' = [tools EXCEPT ![j] = stage]

\* The approval request reaches the TUI and takes the keys: receiveApprovalRequest.
ToolAsks(j) ==
    /\ tools[j] = "asking"
    /\ ToolStep(j, "waiting")
    /\ card' = j
    /\ UNCHANGED <<session, jobs, stop, cancelled, news, busy, compactPending,
                   newPending, inbox>>

\* The select of Request: an answer, or the cancelled context, whichever it takes.
ToolAnswered(j) ==
    /\ \/ tools[j] = "yes" /\ ToolStep(j, "working")
       \/ tools[j] \in {"no", "escape"} /\ ToolStep(j, "reporting")
       \/ tools[j] \in {"waiting", "yes"} /\ j \in cancelled /\ ToolStep(j, "reporting")
    /\ UNCHANGED <<session, jobs, stop, cancelled, news, tui>>

ToolWorks(j) ==
    /\ tools[j] = "working"
    /\ ToolStep(j, "reporting")
    /\ UNCHANGED <<session, jobs, stop, cancelled, news, tui>>

\* The TUI takes ToolCompletedMsg (applyToolResult), and the call returns.
ToolReports(j) ==
    /\ tools[j] = "reporting"
    /\ ToolStep(j, "returned")
    /\ busy' = FALSE
    /\ UNCHANGED <<session, jobs, stop, cancelled, news, compactPending, newPending,
                   card, inbox>>

-----------------------------------------------------------------------------
(* /compact: App.ManualCompact *)

\* (mutant) A live turn is not looked for.
MayCompactDuringTurn == ~OpMuHeld /\ ~Compacting

\* beginManualCompact claims the right to compact.
MayCompact == ~OpMuHeld /\ ~Compacting /\ \A j \in Jobs : ~LiveTurn(j)

CompactBegins(j) ==
    /\ jobs[j].kind = "compact" /\ jobs[j].stage = "starting"
    /\ IF MayCompact
       THEN /\ BeginTurn(j)
            /\ jobs' = [jobs EXCEPT ![j].stage = "summary", ![j].conv = session,
                                    ![j].store = session]
            /\ UNCHANGED inbox
       ELSE /\ Step(j, "ended")
            /\ Send(Msg("compact_done", j))
            /\ UNCHANGED <<stop, cancelled>>
    /\ UNCHANGED <<session, tools, news, busy, compactPending, newPending, card>>

\* The compaction is applied, refused, failed or cancelled: the same to all others.
CompactEnds(j) ==
    /\ jobs[j].kind = "compact" /\ jobs[j].stage = "summary"
    /\ Step(j, "ended")
    /\ SendAndFlush(j, Msg("compact_done", j))
    /\ UNCHANGED <<session, stop, cancelled, tools, news, busy, compactPending,
                   newPending, card>>

-----------------------------------------------------------------------------
(* /new: App.NewSession *)

\* (mutant) The turn under way is left to end by itself.
NewSessionLocksOnly(s) ==
    /\ news[s] = "starting" /\ ~OpMuHeld
    /\ news' = [news EXCEPT ![s] = "waiting"]
    /\ UNCHANGED <<session, jobs, stop, cancelled, tools, tui>>

\* It takes opMu, creates the new store, which may fail, and cancels.
NewSessionLocks(s) ==
    /\ news[s] = "starting" /\ ~OpMuHeld
    /\ \/ /\ news' = [news EXCEPT ![s] = "waiting"]
          /\ CancelTurn
          /\ UNCHANGED inbox
       \/ /\ news' = [news EXCEPT ![s] = "ended"]
          /\ Send(Msg("new_failed", s))
          /\ UNCHANGED cancelled
    /\ UNCHANGED <<session, jobs, stop, tools, busy, compactPending, newPending, card>>

\* (mutant) The session is installed without waiting for the jobs.
NewSessionInstallsAtOnce(s) ==
    /\ news[s] = "waiting"
    /\ session' = s
    /\ news' = [news EXCEPT ![s] = "ended"]
    /\ Send(Msg("new_done", s))
    /\ UNCHANGED <<jobs, stop, cancelled, tools, busy, compactPending, newPending, card>>

\* inFlight.Wait is over: installSession, and opMu is free again.
NewSessionInstalls(s) ==
    /\ news[s] = "waiting"
    /\ InFlight = {}
    /\ session' = s
    /\ news' = [news EXCEPT ![s] = "ended"]
    /\ Send(Msg("new_done", s))
    /\ UNCHANGED <<jobs, stop, cancelled, tools, busy, compactPending, newPending, card>>

-----------------------------------------------------------------------------
(* The TUI: keys.  A card takes the keys; the composer is for sending only    *)
(* while the TUI is not busy.                                                 *)

NextJob(j) == jobs[j].stage = "none" /\ \A i \in 1..(j - 1) : jobs[i].stage # "none"
CanSend == card = 0 /\ ~busy

SubmitRefused == OpMuHeld \/ Compacting

\* Enter: Model.submit and App.Submit, which starts a turn, or sends TurnErrorMsg
\* (for a missing key or a store that does not open too).
UserSubmits(j) ==
    /\ CanSend /\ NextJob(j)
    /\ busy' = TRUE
    /\ \/ /\ ~SubmitRefused
          /\ BeginTurn(j)
          /\ jobs' = [jobs EXCEPT ![j] = [NoJob EXCEPT !.kind = "turn", !.stage = "starting",
                                                       !.conv = session]]
          /\ UNCHANGED inbox
       \/ /\ Send(Msg("idle", 0))
          /\ UNCHANGED <<jobs, stop, cancelled>>
    /\ UNCHANGED <<session, tools, news, compactPending, newPending, card>>

UserCompacts(j) ==
    /\ CanSend /\ NextJob(j)
    /\ busy' = TRUE
    /\ compactPending' = TRUE
    /\ jobs' = [jobs EXCEPT ![j] = [NoJob EXCEPT !.kind = "compact", !.stage = "starting"]]
    /\ UNCHANGED <<session, stop, cancelled, tools, news, newPending, card, inbox>>

UserStartsNew(s) ==
    /\ CanSend
    /\ s > 1 /\ news[s] = "none" /\ \A r \in 2..(s - 1) : news[r] # "none"
    /\ busy' = TRUE
    /\ newPending' = TRUE
    /\ news' = [news EXCEPT ![s] = "starting"]
    /\ UNCHANGED <<session, jobs, stop, cancelled, tools, compactPending, card, inbox>>

\* Model.cancelTurn: nothing while /new runs; busy stays on while /compact runs.
TuiCancelsTurn ==
    IF newPending THEN UNCHANGED <<cancelled, busy>>
    ELSE CancelTurn /\ busy' = (busy /\ compactPending)

\* Esc in the composer.
UserEscapes ==
    /\ card = 0 /\ busy
    /\ TuiCancelsTurn
    /\ UNCHANGED <<session, jobs, stop, tools, news, compactPending, newPending, card, inbox>>

\* y, n or Esc on the card: resolveApproval and App.Resolve, which does nothing
\* for a request that is over.
UserAnswers(answer) ==
    /\ card # 0
    /\ tools' = IF tools[card] = "waiting" THEN [tools EXCEPT ![card] = answer] ELSE tools
    /\ card' = 0
    /\ UNCHANGED <<session, jobs, stop, cancelled, news, busy, compactPending, newPending, inbox>>

-----------------------------------------------------------------------------
(* The TUI: messages (Model.Update) *)

Take(m) == m \in inbox /\ inbox' = inbox \ {m}

TakesActiveOrIdle(m) ==
    /\ m.kind \in {"active", "idle"}
    /\ Take(m)
    /\ busy' = (m.kind = "active")
    /\ UNCHANGED <<app, compactPending, newPending, card>>

\* TurnCancelledMsg goes the way of Esc.
TakesCancelled(m) ==
    /\ m.kind = "cancelled"
    /\ Take(m)
    /\ TuiCancelsTurn
    /\ UNCHANGED <<session, jobs, stop, tools, news, compactPending, newPending, card>>

\* ManualCompactMsg
TakesCompactDone(m) ==
    /\ m.kind = "compact_done"
    /\ Take(m)
    /\ busy' = FALSE
    /\ compactPending' = FALSE
    /\ UNCHANGED <<app, newPending, card>>

\* NewSessionDoneMsg, and resetForNewSession when it succeeded
TakesNewDone(m) ==
    /\ m.kind \in {"new_done", "new_failed"}
    /\ Take(m)
    /\ busy' = FALSE
    /\ newPending' = FALSE
    /\ IF m.kind = "new_done" THEN compactPending' = FALSE /\ card' = 0
       ELSE UNCHANGED <<compactPending, card>>
    /\ UNCHANGED app

TuiTakes ==
    \E m \in inbox :
        \/ TakesActiveOrIdle(m) \/ TakesCancelled(m)
        \/ TakesCompactDone(m) \/ TakesNewDone(m)

-----------------------------------------------------------------------------
User ==
    \/ \E j \in Jobs : UserSubmits(j) \/ UserCompacts(j)
    \/ \E s \in Sessions : UserStartsNew(s)
    \/ UserEscapes
    \/ \E answer \in Answer : UserAnswers(answer)

\* Steps of a job that need nothing but its own goroutine, once it is cancelled.
Unwinds(j) == TurnStarts(j) \/ TurnCompacted(j) \/ TurnEnds(j) \/ CompactEnds(j)

Tool(j) == ToolAsks(j) \/ ToolAnswered(j) \/ ToolWorks(j) \/ ToolReports(j)

Next ==
    \/ User
    \/ TuiTakes
    \/ \E j \in Jobs :
        \/ Unwinds(j) \/ CompactBegins(j)
        \/ TurnSpeaks(j) \/ TurnCallsTool(j) \/ TurnTakesResult(j)
        \/ Tool(j)
    \/ \E s \in Sessions : NewSessionLocks(s) \/ NewSessionInstalls(s)

\* The goroutine of a cancelled job unwinds (the provider call and the select
\* of invokeTools watch its context), and NewSession gets the mutex and wakes
\* from its Wait.  A job that is not cancelled may run for ever, the user need
\* not press a key, and a tool or a message need not get anywhere.
Spec ==
    /\ Init
    /\ [][Next]_vars
    /\ \A j \in Jobs : WF_vars(j \in cancelled /\ Unwinds(j))
    /\ \A s \in Sessions : WF_vars(NewSessionLocks(s)) /\ WF_vars(NewSessionInstalls(s))

-----------------------------------------------------------------------------
TypeOK ==
    /\ session \in Sessions
    /\ jobs \in [Jobs -> Job]
    /\ stop \in 0..MaxJobs
    /\ cancelled \subseteq Jobs
    /\ tools \in [Jobs -> ToolStage]
    /\ news \in [Sessions -> {"none", "starting", "waiting", "ended"}]
    /\ busy \in BOOLEAN /\ compactPending \in BOOLEAN /\ newPending \in BOOLEAN
    /\ card \in 0..MaxJobs
    /\ inbox \subseteq [kind : MessageKind, of : 0..(MaxJobs + MaxSessions)]

\* No job outlives the session it was started in: whatever it writes goes to
\* the conversation and to the open store of the current session (NewSession:
\* "after Wait none of them can write").
JobsBelongToSession ==
    \A j \in InFlight :
        jobs[j].conv = session /\ jobs[j].store \in {0, session}

\* A /compact and a turn never use the conversation at the same time
\* (beginManualCompact, Submit).
CompactsAlone ==
    \A i, j \in Jobs : LiveTurn(i) /\ Live(j) /\ jobs[j].kind = "compact" =>
        jobs[j].stage = "starting"

\* Only the newest job has a context that is not cancelled, which is why one
\* CancelTurn is enough for NewSession (BeginTurn).
OnlyNewestRuns == \A j \in InFlight : j = stop \/ j \in cancelled

\* A /new that was asked for ends, whatever the turns, the tools and the user do.
NewSessionEnds == \A s \in Sessions : (news[s] = "starting") ~> (news[s] = "ended")

-----------------------------------------------------------------------------
(* What the repository says and the code does not do *)

\* The conversation has one writer at a time (runCompaction's comment).
SingleWriter == Cardinality(InFlight) <= 1
=============================================================================
