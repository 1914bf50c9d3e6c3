------------------------------ MODULE Approvals ------------------------------
(***************************************************************************)
(* Approval of tool calls and session grants, across the tool goroutines,  *)
(* the TUI, /new and restarts: App.Request and App.Resolve, the card of    *)
(* the TUI, App.ClearGrants, App.NewSession and what resuming restores.    *)
(*                                                                         *)
(* The TUI is one goroutine: while it is inside Resolve or ClearGrants it  *)
(* takes no key and no message.  The tool goroutines and NewSession run    *)
(* beside it.  The process may be killed between any two steps; the log of *)
(* a session then keeps what was synced and some of what was not.          *)
(***************************************************************************)
EXTENDS Policy

CONSTANTS MaxCalls,     \* bound: tool calls of a behaviour
          Settings,     \* the settings to start with, a subset of Setting
          MaxSessions,  \* bound: sessions of a behaviour
          MaxKills      \* bound: how often the process is killed

ASSUME ApprovalsAssumption ==
    /\ MaxCalls \in Nat /\ Settings \subseteq Setting
    /\ MaxSessions \in Nat \ {0} /\ MaxKills \in Nat

VARIABLES
    setting,    \* the configuration, and whether this instance is concurrent
    calls,      \* the tool calls
    cancelled,  \* the calls whose context is cancelled
    approvals,  \* a.approvals: the requests that wait, by call
    grants,     \* p.grants
    store,      \* a.store: the session that is current
    news,       \* how far NewSession has come
    created,    \* the newest session, the one index.json names
    logs,       \* the approval events in the log of each session
    synced,     \* how many of them the disk has
    card,       \* the call whose card has the keys
    tui,        \* where the TUI goroutine is
    kills,
    \* what the user did, for the properties
    pressed,    \* the answer the user gave to the card of each call
    revoked     \* the calls whose grants the user cleared

vars == <<setting, calls, cancelled, approvals, grants, store, news, created,
          logs, synced, card, tui, kills, pressed, revoked>>

\* A call is named by its approval ID, which a counter gives out.
Calls    == 1..MaxCalls
NoCall   == 0
Sessions == 1..MaxSessions

\* The tool takes a card left with Esc for a denial: RequestToolApproval.
Outcome  == {"once", "session", "deny"}

\* by names the calls whose grants let the call through without a question.
Call   == [stage : {"none", "asking", "waiting", "allowed", "denied", "lost"},
           req : Request, by : SUBSET Calls]
Absent == [stage |-> "none", req |-> Patch, by |-> {}]

\* The event of a grant in a log; of is the call it was given for.
Granted(c) == [kind |-> "granted", of |-> c]
Cleared    == [kind |-> "cleared", of |-> NoCall]

Idle == [at |-> "idle", call |-> NoCall, outcome |-> "none", store |-> 0]
Tui(at, c, o, s) == [at |-> at, call |-> c, outcome |-> o, store |-> s]

Init ==
    /\ setting \in Settings
    /\ calls = [c \in Calls |-> Absent]
    /\ cancelled = {}
    /\ approvals = [c \in {} |-> "none"]
    /\ grants = {}
    /\ store = 1 /\ created = 1 /\ news = "none"
    /\ logs = [s \in Sessions |-> <<>>] /\ synced = [s \in Sessions |-> 0]
    /\ card = NoCall
    /\ tui = Idle
    /\ kills = 0
    /\ pressed = [c \in Calls |-> "none"] /\ revoked = {}

Unfinished(c) == calls[c].stage \in {"asking", "waiting"}

\* A turn calls one tool at a time, and ends, leaving it, when it is cancelled.
InTurn == {c \in Calls : Unfinished(c) /\ c \notin cancelled}

session == <<store, news, created>>
disk    == <<logs, synced>>
user    == <<pressed, revoked>>
-----------------------------------------------------------------------------
(* The tool goroutine: RunCommand.Invoke, ApplyPatch.Invoke, App.Request *)

Step(c, stage) == calls' = [calls EXCEPT ![c].stage = stage]

\* The policy lets the call through or has it ask: Request then registers it.
Invoke(c, r) ==
    /\ calls[c].stage = "none" /\ (\A d \in 1..c-1 : calls[d].stage # "none")
    /\ InTurn = {} /\ news \in {"none", "done"}
    /\ \/ /\ IF r.op = "patch" THEN ForPatch(setting)
                               ELSE ForCommand(setting, grants, r.argv)
          /\ calls' = [calls EXCEPT ![c] =
                 [stage |-> "allowed", req |-> r,
                  by |-> {g.of : g \in Covering(grants, r.argv)}]]
          /\ UNCHANGED approvals
       \/ /\ ~(IF r.op = "patch" THEN ForPatch(setting)
                                 ELSE ForCommand(setting, grants, r.argv))
          /\ calls' = [calls EXCEPT ![c] = [stage |-> "asking", req |-> r, by |-> {}]]
          /\ approvals' = [d \in DOMAIN approvals \cup {c} |->
                               IF d = c THEN "none" ELSE approvals[d]]
    /\ UNCHANGED <<setting, cancelled, grants, session, disk, card, tui, kills, user>>

\* (mutant) A request that returns stays in the map.
StaysRegistered(c) == UNCHANGED approvals

Unregister(c) == approvals' = [d \in DOMAIN approvals \ {c} |-> approvals[d]]

\* (mutant) A cancelled request returns the zero outcome, which is "once".
ReturnsAllowing(c) ==
    /\ calls[c].stage = "waiting"
    /\ approvals[c] # "none" \/ c \in cancelled
    /\ IF approvals[c] = "deny" THEN Step(c, "denied") ELSE Step(c, "allowed")
    /\ Unregister(c)
    /\ UNCHANGED <<setting, cancelled, grants, session, disk, card, tui, kills, user>>

\* The select of Request takes the answer or the cancelled context, whichever is
\* ready.  A refused grant still allows the call: RequestToolApproval.
Returns(c) ==
    /\ calls[c].stage = "waiting"
    /\ \/ approvals[c] \in {"once", "session"} /\ Step(c, "allowed")
       \/ approvals[c] = "deny" /\ Step(c, "denied")
       \/ c \in cancelled /\ Step(c, "denied")
    /\ Unregister(c)
    /\ UNCHANGED <<setting, cancelled, grants, session, disk, card, tui, kills, user>>
-----------------------------------------------------------------------------
(* The TUI goroutine: the card, Resolve, ClearGrants *)

\* receiveApprovalRequest: the card takes the keys, from an older one if need be.
\* a.send returns, and Request goes on to wait.
TakesRequest(c) ==
    /\ tui = Idle /\ calls[c].stage = "asking"
    /\ card' = c
    /\ Step(c, "waiting")
    /\ UNCHANGED <<setting, cancelled, approvals, grants, session, disk, tui, kills, user>>

\* OffersSessionGrant: the card of a command the policy lets grant.
Offers(c) == CanApproveForSession(setting, calls[c].req)

\* keyApproval and resolveApproval: y, a, n or Esc on the card.
Answers(o) ==
    /\ tui = Idle /\ card # NoCall
    /\ o = "session" => Offers(card)
    /\ tui' = Tui("called", card, o, 0)
    /\ pressed' = [pressed EXCEPT ![card] = o]
    /\ card' = NoCall
    /\ UNCHANGED <<setting, calls, cancelled, approvals, grants, session, disk, kills, revoked>>

\* Resolve looks the request up, and lets go of the lock.
Looks ==
    /\ tui.at = "called"
    /\ tui' = IF tui.call \notin DOMAIN approvals THEN Idle
              ELSE [tui EXCEPT !.at = IF tui.outcome = "session" THEN "grant" ELSE "deliver"]
    /\ UNCHANGED <<setting, calls, cancelled, approvals, grants, session, disk, card,
                   kills, user>>

\* p.Grant, which looks at the request again.
Grants ==
    /\ tui.at = "grant"
    /\ LET c == tui.call IN
       IF CanGrant(setting, calls[c].req)
       THEN /\ grants' = grants \cup {[argv |-> calls[c].req.argv, of |-> c]}
            /\ tui' = [tui EXCEPT !.at = "find"]
       ELSE /\ tui' = [tui EXCEPT !.at = "deliver"]
            /\ UNCHANGED grants
    /\ UNCHANGED <<setting, calls, cancelled, approvals, session, disk, card, kills, user>>

\* Resolve reads a.store under storeMu, and records the grant in it.
FindsStore ==
    /\ tui.at = "find"
    /\ tui' = [tui EXCEPT !.at = "record", !.store = store]
    /\ UNCHANGED <<setting, calls, cancelled, approvals, grants, session, disk, card,
                   kills, user>>

\* A store closed by NewSession takes no event.
Open(s) == s = store \/ (s + 1 = store /\ news \in {"swapped", "reset"})

RecordsGrant ==
    /\ tui.at = "record"
    /\ logs' = IF Open(tui.store)
               THEN [logs EXCEPT ![tui.store] = Append(@, Granted(tui.call))]
               ELSE logs
    /\ tui' = [tui EXCEPT !.at = "deliver"]
    /\ UNCHANGED <<setting, calls, cancelled, approvals, grants, session, synced, card,
                   kills, user>>

\* (mutant) Resolve returns once it has tried to grant.
DeliversGranted ==
    /\ tui.at = "deliver"
    /\ approvals' = [d \in DOMAIN approvals |->
                        IF d = tui.call /\ approvals[d] = "none" /\ tui.outcome # "session"
                        THEN tui.outcome ELSE approvals[d]]
    /\ tui' = Idle
    /\ UNCHANGED <<setting, calls, cancelled, grants, session, disk, card, kills, user>>

\* The channel takes one answer; a second one is dropped.
Delivers ==
    /\ tui.at = "deliver"
    /\ approvals' = [d \in DOMAIN approvals |->
                        IF d = tui.call /\ approvals[d] = "none"
                        THEN tui.outcome ELSE approvals[d]]
    /\ tui' = Idle
    /\ UNCHANGED <<setting, calls, cancelled, grants, session, disk, card, kills, user>>

\* /approvals, which asks when there are grants, and y: the grants are gone from
\* memory, then from the log, which is flushed before the TUI goes on.
ClearsGrants ==
    /\ tui = Idle /\ card = NoCall /\ grants # {}
    /\ grants' = {}
    /\ tui' = [Idle EXCEPT !.at = "clearing"]
    /\ UNCHANGED <<setting, calls, cancelled, approvals, session, disk, card, kills, user>>

FindsStoreToClear ==
    /\ tui.at = "clearing"
    /\ tui' = [tui EXCEPT !.at = "clear", !.store = store]
    /\ UNCHANGED <<setting, calls, cancelled, approvals, grants, session, disk, card,
                   kills, user>>

LoggedIn(s) == {e.of : e \in {f \in ToSet(logs[s]) : f.kind = "granted"}}

\* (mutant) The clear is left to the ticker.
RecordsClearUnflushed ==
    /\ tui.at = "clear"
    /\ IF Open(tui.store)
       THEN /\ logs' = [logs EXCEPT ![tui.store] = Append(@, Cleared)]
            /\ revoked' = revoked \cup LoggedIn(tui.store)
       ELSE UNCHANGED <<logs, revoked>>
    /\ tui' = Idle
    /\ UNCHANGED <<setting, calls, cancelled, approvals, grants, session, synced, card,
                   kills, pressed>>

RecordsClear ==
    /\ tui.at = "clear"
    /\ IF Open(tui.store)
       THEN /\ logs' = [logs EXCEPT ![tui.store] = Append(@, Cleared)]
            /\ synced' = [synced EXCEPT ![tui.store] = Len(logs[tui.store]) + 1]
            /\ revoked' = revoked \cup LoggedIn(tui.store)
       ELSE UNCHANGED <<disk, revoked>>
    /\ tui' = Idle
    /\ UNCHANGED <<setting, calls, cancelled, approvals, grants, session, card, kills,
                   pressed>>

\* Esc in the composer: CancelTurn.
CancelsTurn ==
    /\ tui = Idle /\ card = NoCall /\ InTurn # {}
    /\ cancelled' = cancelled \cup InTurn
    /\ UNCHANGED <<setting, calls, approvals, grants, session, disk, card, tui, kills, user>>
-----------------------------------------------------------------------------
(* /new: NewSession runs beside the TUI *)

\* The new store is made, the turn cancelled; no one waits for its tool call.
NewSession ==
    /\ tui = Idle /\ card = NoCall /\ news = "none" /\ created < MaxSessions
    /\ news' = "waiting" /\ created' = created + 1
    /\ cancelled' = cancelled \cup InTurn
    /\ UNCHANGED <<setting, calls, approvals, grants, store, disk, card, tui, kills, user>>

\* installSession, under storeMu.
Installs ==
    /\ news = "waiting"
    /\ news' = "swapped" /\ store' = created
    /\ UNCHANGED <<setting, calls, cancelled, approvals, grants, created, disk, card, tui,
                   kills, user>>

\* (mutant) The grants go on in the new session.
KeepsGrants ==
    /\ news = "swapped"
    /\ news' = "reset"
    /\ UNCHANGED <<setting, calls, cancelled, approvals, grants, store, created, disk, card,
                   tui, kills, user>>

ResetsGrants ==
    /\ news = "swapped"
    /\ news' = "reset" /\ grants' = {}
    /\ UNCHANGED <<setting, calls, cancelled, approvals, store, created, disk, card, tui,
                   kills, user>>

\* Closing the old store syncs it.
ClosesOld ==
    /\ news = "reset"
    /\ news' = "done"
    /\ synced' = [synced EXCEPT ![store - 1] = Len(logs[store - 1])]
    /\ UNCHANGED <<setting, calls, cancelled, approvals, grants, store, created, logs, card,
                   tui, kills, user>>

\* resetForNewSession drops the card, whose ever it is.
TakesNewDone ==
    /\ tui = Idle /\ news = "done"
    /\ news' = "none" /\ card' = NoCall
    /\ UNCHANGED <<setting, calls, cancelled, approvals, grants, store, created, disk, tui,
                   kills, user>>
-----------------------------------------------------------------------------
(* The process is killed and started again: main, ResumeLastSession *)

\* LoadGrants: a clear discards the grants before it.
Loaded(log) == {log[i].of : i \in {j \in DOMAIN log :
    /\ log[j].kind = "granted"
    /\ \A k \in DOMAIN log : log[k].kind = "cleared" => k < j}}

\* restoreGrants: through policy.Grant, which may refuse what it gets.
Restored(s, log) ==
    {g \in {[argv |-> Fields(calls[c].req.argv), of |-> c] : c \in Loaded(log)} :
        ~s.concurrent /\ CanGrant(s, Command(g.argv))}

\* The configuration stays as it was, and another instance may have come or gone.
\* The newest session is resumed, unless another instance has the workspace or
\* the user wants a fresh one.
Restart ==
    /\ kills < MaxKills /\ kills' = kills + 1
    /\ \E b \in BOOLEAN : setting' = [setting EXCEPT !.concurrent = b]
    /\ \E n \in synced[created]..Len(logs[created]) :
        LET log == SubSeq(logs[created], 1, n) IN
        \/ /\ ~setting'.concurrent
           /\ logs' = [logs EXCEPT ![created] = log]
           /\ synced' = [synced EXCEPT ![created] = n]
           /\ store' = created /\ UNCHANGED created
           /\ grants' = Restored(setting', log)
        \/ /\ created < MaxSessions
           /\ logs' = [logs EXCEPT ![created] = log]
           /\ UNCHANGED synced
           /\ store' = created + 1 /\ created' = created + 1
           /\ grants' = {}
    /\ calls' = [c \in Calls |-> IF Unfinished(c) THEN [calls[c] EXCEPT !.stage = "lost"]
                                                 ELSE calls[c]]
    /\ cancelled' = {} /\ approvals' = [c \in {} |-> "none"]
    /\ news' = "none" /\ card' = NoCall /\ tui' = Idle
    /\ UNCHANGED user

CallStep == \E c \in Calls : (\E r \in Request : Invoke(c, r)) \/ Returns(c)
TuiGoesOn == Looks \/ Grants \/ FindsStore \/ RecordsGrant \/ Delivers
                \/ FindsStoreToClear \/ RecordsClear
Next ==
    \/ CallStep
    \/ TuiGoesOn
    \/ \E c \in Calls : TakesRequest(c)
    \/ \E o \in Outcome : Answers(o)
    \/ ClearsGrants \/ CancelsTurn
    \/ NewSession \/ Installs \/ ResetsGrants \/ ClosesOld \/ TakesNewDone
    \/ Restart

\* The goroutines of the requests go on, and the TUI returns from its callbacks.
Fairness ==
    /\ \A c \in Calls : WF_vars(Returns(c))
    /\ WF_vars(TuiGoesOn)

Spec == Init /\ [][Next]_vars /\ Fairness
-----------------------------------------------------------------------------
(* Properties *)

\* What the user granted for c: its command, or what a restart makes of it.
GrantOf(c) == {calls[c].req.argv, Fields(calls[c].req.argv)}

\* Types; and a request is registered exactly while its call is unfinished, so
\* that an answer never meets a request that has returned (a.approvals).
TypeOK ==
    /\ setting \in Setting
    /\ calls \in [Calls -> Call] /\ cancelled \subseteq Calls
    /\ DOMAIN approvals = {c \in Calls : Unfinished(c)}
    /\ \A c \in DOMAIN approvals : approvals[c] \in Outcome \cup {"none"}
    /\ \A g \in grants : g.of \in Calls /\ g.argv \in GrantOf(g.of)
    /\ store \in Sessions /\ created \in Sessions
    /\ news \in {"none", "waiting", "swapped", "reset", "done"}
    /\ logs \in [Sessions -> Seq([kind : {"granted", "cleared"}, of : Calls \cup {NoCall}])]
    /\ synced \in [Sessions -> Nat]
    /\ card \in Calls \cup {NoCall}
    /\ tui \in [at : {"idle", "called", "grant", "find", "record", "deliver", "clearing", "clear"},
               call : Calls \cup {NoCall}, outcome : Outcome \cup {"none"},
               store : Sessions \cup {0}]
    /\ kills \in 0..MaxKills
    /\ pressed \in [Calls -> Outcome \cup {"none"}] /\ revoked \subseteq Calls

\* What the user granted for d covers what c runs.
Covers(d, c) == \E given \in GrantOf(d) : IsPrefix(given, calls[c].req.argv)

\* A call that goes on without being listed, and that the configuration makes ask,
\* was approved on its own card, or is covered by a command granted on its card;
\* whatever was cancelled, restored or answered late (RunCommand.Invoke, Request).
NothingRunsUnapproved ==
    \A c \in Calls : calls[c].stage = "allowed" =>
        LET r == calls[c].req IN
        \/ pressed[c] \in {"once", "session"}
        \/ r.op = "patch" /\ ~setting.askPatches
        \/ /\ r.op = "command" /\ ~IsShell(r.argv)
           /\ \/ Listed(r.argv)
              \/ ~setting.askCommands
              \/ \E d \in calls[c].by : pressed[d] = "session" /\ Covers(d, c)

\* Every grant in force was given by the user on the card of a command that is no
\* shell, in an instance that may grant; a restart brings no other (Resolve,
\* canApproveForSession, restoreGrants).
GrantsAreWanted ==
    \A g \in grants :
        /\ pressed[g.of] = "session" /\ calls[g.of].req.op = "command"
        /\ ~IsShell(g.argv) /\ setting.grants /\ ~setting.concurrent

\* Once a clear has returned no grant before it comes back, killed and resumed or
\* not (ClearGrants, LoadGrants).
ClearedStaysCleared == \A g \in grants : g.of \notin revoked

\* A grant in force is one that resuming the session would load: outside of the
\* callbacks memory never has more than the log (Resolve, installSession).
GrantsAreRecorded ==
    tui.at \notin {"find", "record"} /\ news # "swapped"
        => \A g \in grants : g.of \in Loaded(logs[store])

\* A request that was answered, or whose turn was cancelled, returns (Request, Resolve).
AnswersReturn ==
    \A c \in Calls :
        calls[c].stage = "waiting" /\ (c \in cancelled \/ pressed[c] # "none")
            ~> calls[c].stage # "waiting"
=============================================================================
