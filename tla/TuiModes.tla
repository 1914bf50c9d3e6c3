------------------------------- MODULE TuiModes -------------------------------
(***************************************************************************)
(* The terminal UI (internal/tui: Model.Update): the transcript and the    *)
(* cards in it, which handler has the keys, the viewport, and the messages *)
(* of the App, which travel in goroutines of their own and come in any     *)
(* order the App's own waiting does not exclude.                           *)
(*                                                                         *)
(* An item is named by its place in the transcript, which only grows until *)
(* /new replaces it; calls, turns and requests are named by counters of    *)
(* the App.  Layout is left out: a card is one row high, or two when its   *)
(* body is shown.                                                          *)
(***************************************************************************)
EXTENDS Integers, Sequences, FiniteSetsExt

CONSTANTS MaxTurns, MaxCalls,  \* bounds: turns and tool calls of a behaviour
          MaxItems,            \* bound: items of a transcript
          MaxInFlight,         \* bound: messages on their way
          MaxDiffs,            \* bound: /diff and /new commands of a behaviour
          ViewH,               \* rows of the viewport
          Links,               \* whether a request can name its tool card, below
          Uses                 \* bound: what one behaviour has, see Use

Features == {"calls", "speech", "notices", "browsing", "editing", "overlays", "commands", "new"}

\* A behaviour has some of the features, and its own share of turns, calls and items.
Use == [has : SUBSET Features, turns : 0..MaxTurns, calls : 0..MaxCalls, items : 0..MaxItems]

ASSUME TuiAssumption ==
    /\ MaxTurns \in Nat /\ MaxCalls \in Nat /\ MaxItems \in Nat
    /\ MaxInFlight \in Nat /\ MaxDiffs \in Nat /\ ViewH \in Nat \ {0}
    /\ Links \subseteq BOOLEAN /\ Uses \subseteq Use

VARIABLES
    \* the Model
    items,          \* m.tr
    toolCards,      \* m.toolCards, from calls to items
    textBlocks,     \* m.textBlocks, from turns to items: a turn streams one block
    approvalCards,  \* m.approvalCards, from requests to items
    pending,        \* m.pendingApproval and m.pendingApprovalID
    released,       \* m.approvalReleased
    modal, confirm, browsing,   \* whether a modal is open; the confirm prompt; m.base
    sel,            \* m.sel
    toggled,        \* the items in m.collapsed or m.expanded
    busy, compacting, newPending,
    scroll,         \* m.scroll
    text,           \* what the composer holds: a slash command is one line
    diffSeq,        \* m.pendingDiffSeq
    \* the App, as far as the Model hears of it
    turns,          \* how many turns have begun
    live,           \* the turns whose goroutine runs
    stopped,        \* the turns whose context is cancelled
    calls,          \* the tool calls
    inbox,          \* the messages on their way
    uses,           \* what the behaviour has: it does not change
    \* for the properties
    old,            \* the turns that began before the session at hand
    stale           \* a message of one of those was taken in it

cards  == <<items, toolCards, textBlocks, approvalCards>>
asked  == <<pending, released>>
over   == <<modal, confirm>>
seen   == <<browsing, sel, toggled>>
waits  == <<busy, compacting, newPending>>
app    == <<turns, live, stopped, calls>>
ghosts == <<uses, old, stale>>
vars   == <<cards, asked, over, seen, waits, scroll, text, diffSeq, app, inbox, ghosts>>

Turns == 1..MaxTurns
Calls == 1..MaxCalls
NoId  == 0

States == [user |-> {"shown"}, notice |-> {"shown"}, error |-> {"shown"},
           text |-> {"streaming", "done", "cancelled"},
           tool |-> {"running", "ok", "error", "cancelled"},
           approval |-> {"unresolved", "approved", "session", "rejected", "cancelled"}]

\* of is the turn of a text, the call of a tool card or of the request of an
\* approval card; link is ToolItem or ApprovalItem.
Item(kind, of, state) == [kind |-> kind, of |-> of, state |-> state, link |-> NoId]

\* answer is what the user answered, out how the call ended.
Call   == [stage : {"none", "running", "asking", "answered", "ended"}, turn : 0..MaxTurns,
           linked : BOOLEAN, answer : States.approval, out : States.tool]
NoCall == [stage |-> "none", turn |-> 0, linked |-> FALSE,
           answer |-> "unresolved", out |-> "running"]

Message(kind, of, out) == [kind |-> kind, of |-> of, out |-> out]

Nothing == [i \in {} |-> NoId]
AtBottom == [pinned |-> TRUE, offset |-> 0, since |-> 0]

Init ==
    /\ items = <<>>
    /\ toolCards = Nothing /\ textBlocks = Nothing /\ approvalCards = Nothing
    /\ pending = [item |-> NoId, id |-> NoId] /\ released = FALSE
    /\ modal = FALSE /\ confirm = "none" /\ browsing = FALSE
    /\ sel = NoId /\ toggled = {}
    /\ busy = FALSE /\ compacting = FALSE /\ newPending = FALSE
    /\ scroll = AtBottom
    /\ text = "" /\ diffSeq = 0
    /\ turns = 0 /\ live = {} /\ stopped = {}
    /\ calls = [c \in Calls |-> NoCall]
    /\ inbox = {}
    /\ uses \in Uses
    /\ old = 0 /\ stale = FALSE

Mode == CASE modal -> "modal"
          [] ~modal /\ pending.item # NoId -> "approval"
          [] ~modal /\ pending.item = NoId /\ confirm # "none" -> "confirm"
          [] OTHER -> IF browsing THEN "browsing" ELSE "composing"

OverlayOpen == modal \/ confirm # "none"
-----------------------------------------------------------------------------
(* Transcript and viewport: transcript.go, Model.appendBlock, relayout *)

Put(f, x, y) == [z \in DOMAIN f \cup {x} |-> IF z = x THEN y ELSE f[z]]
Drop(f, x)   == [z \in DOMAIN f \ {x} |-> f[z]]

Folded(it) ==
    it.kind = "approval" /\ it.state \in {"approved", "session"} /\ it.link # NoId

Selectable(its, i) == its[i].kind \notin {"user", "text"} /\ ~Folded(its[i])

LastSelectable(its) == Max({NoId} \cup {i \in DOMAIN its : Selectable(its, i)})

\* An approved card that is linked is drawn in its tool's card, in no row.
Rows(its, tog, i) ==
    IF Folded(its[i]) THEN 0 ELSE IF (its[i].kind = "tool") # (i \in tog) THEN 2 ELSE 1

RowsUpTo(its, tog, n) == MapThenSumSet(LAMBDA i : Rows(its, tog, i), 1..n)

Total(its, tog) == RowsUpTo(its, tog, Len(its))

Bottom(its, tog) == Max({0, Total(its, tog) - ViewH})

\* While pinned the offset is derived on every relayout.
Offset(its, tog) == IF scroll.pinned THEN Bottom(its, tog) ELSE scroll.offset

SetOffset(s, off, its, tog) ==
    LET top == Max({0, off})
    IN  IF top >= Bottom(its, tog) THEN AtBottom
        ELSE [pinned |-> FALSE, offset |-> top, since |-> s.since]

\* revealSelection: the smallest move that shows item i.
Reveal(s, i, its, tog) ==
    LET at  == IF s.pinned THEN Bottom(its, tog) ELSE s.offset
        n   == IF i \in DOMAIN its THEN Rows(its, tog, i) ELSE 0
        top == RowsUpTo(its, tog, i - 1)
    IN  CASE n = 0 -> s
          [] n > 0 /\ (n > ViewH \/ top < at) -> SetOffset(s, top, its, tog)
          [] OTHER ->
                 IF top + n > at + ViewH THEN SetOffset(s, top + n - ViewH, its, tog) ELSE s

\* (mutant) A block that arrives takes the view to the bottom.
FollowsArrivals(s) == AtBottom

\* (mutant) A block is counted although it is seen.
CountsAlways(s) == [s EXCEPT !.since = @ + 1]

\* appendBlock: a block that arrives below the fold is counted.
Arrived(s) == IF s.pinned THEN s ELSE [s EXCEPT !.since = @ + 1]

Append1(it) ==
    /\ Len(items) < uses.items
    /\ items' = Append(items, it)
    /\ scroll' = Arrived(scroll)

Notice == Item("notice", NoId, "shown")
Error  == Item("error", NoId, "shown")

\* (mutant) MutateTool leaves out the test for a final state.
MutableAlways(i) == i \in DOMAIN items /\ items[i].kind = "tool"

\* MutateTool: only a card that is still open is changed.
Mutable(i) == i \in DOMAIN items /\ items[i].kind = "tool" /\ items[i].state = "running"

\* A new session: resetForNewSession leaves the maps, the modal and the prompt.
Reset ==
    /\ items' = <<>>
    /\ sel' = NoId /\ pending' = [item |-> NoId, id |-> NoId] /\ released' = FALSE
    /\ toggled' = {}
    /\ busy' = FALSE /\ compacting' = FALSE
    /\ scroll' = AtBottom
    /\ diffSeq' = diffSeq + 1
-----------------------------------------------------------------------------
(* What the App does meanwhile: turns, tool calls, notices *)

TurnOf(m) == CASE m.kind \in {"delta", "ended"} -> m.of
               [] m.kind \in {"started", "request", "resolved", "completed"} -> calls[m.of].turn
               [] OTHER -> 0

Send(m) ==
    /\ m \notin inbox /\ Cardinality(inbox) < MaxInFlight
    /\ inbox' = inbox \cup {m}

OnlyApp == UNCHANGED <<cards, asked, over, seen, waits, scroll, text, diffSeq, ghosts>>

InCall(v) == \E c \in Calls : calls[c].turn = v /\ calls[c].stage # "ended"

\* adaptTurnEvent: the card is announced from a goroutine of its own.
CallsTool(v, c, linked) ==
    /\ "calls" \in uses.has /\ v \in live \ stopped /\ ~InCall(v)
    /\ c <= uses.calls /\ calls[c].stage = "none" /\ (c > 1 => calls[c - 1].stage # "none")
    /\ Send(Message("started", c, "shown"))
    /\ calls' = [calls EXCEPT ![c] =
           [NoCall EXCEPT !.stage = "running", !.turn = v, !.linked = linked]]
    /\ UNCHANGED <<turns, live, stopped>> /\ OnlyApp

\* App.Request.  RunTool, which only the tests call, waits until its card is
\* announced, and puts its ID in the context; the calls of a turn do neither.
Asks(c) ==
    /\ calls[c].stage = "running"
    /\ calls[c].linked => Message("started", c, "shown") \notin inbox
    /\ Send(Message("request", c, "shown"))
    /\ calls' = [calls EXCEPT ![c].stage = "asking"]
    /\ UNCHANGED <<turns, live, stopped>> /\ OnlyApp

\* A request is denied once its turn is cancelled; the TUI took it before that.
Outs(c) ==
    CASE calls[c].stage = "asking" -> IF calls[c].turn \in stopped THEN {"cancelled"} ELSE {}
      [] calls[c].stage = "answered" /\ calls[c].answer \in {"rejected", "cancelled"} -> {"error"}
      [] OTHER -> {"ok", "error"} \cup (IF calls[c].turn \in stopped THEN {"cancelled"} ELSE {})

Completes(c, out) ==
    /\ calls[c].stage \in {"running", "asking", "answered"}
    /\ Message("request", c, "shown") \notin inbox
    /\ calls[c].linked => Message("started", c, "shown") \notin inbox
    /\ out \in Outs(c)
    /\ Send(Message("completed", c, out))
    /\ calls' = [calls EXCEPT ![c].stage = "ended", ![c].out = out]
    /\ UNCHANGED <<turns, live, stopped>> /\ OnlyApp

Speaks(v) ==
    /\ "speech" \in uses.has /\ v \in live /\ ~InCall(v)
    /\ Send(Message("delta", v, "shown"))
    /\ UNCHANGED app /\ OnlyApp

\* RunTurn: a cancelled turn does not wait for its tool; else the tool has
\* handed its result to the TUI.
EndsTurn(v, out) ==
    /\ v \in live
    /\ IF out = "cancelled" THEN v \in stopped
       ELSE \A c \in Calls : calls[c].turn = v =>
                /\ calls[c].stage = "ended"
                /\ Message("completed", c, calls[c].out) \notin inbox
    /\ Send(Message("ended", v, out))
    /\ live' = live \ {v}
    /\ UNCHANGED <<turns, stopped, calls>> /\ OnlyApp

\* SendNotice, flushStore.
Informs(kind) ==
    /\ "notices" \in uses.has /\ Send(Message(kind, NoId, "shown"))
    /\ UNCHANGED app /\ OnlyApp
-----------------------------------------------------------------------------
(* Model.Update on a message *)

Take(m) ==
    /\ inbox' = inbox \ {m}
    /\ stale' = (stale \/ TurnOf(m) \in 1..old)
    /\ UNCHANGED <<browsing, toggled, text, uses, old>>

Keeps == UNCHANGED <<asked, over, compacting, newPending, diffSeq, app>>

TakesStarted(m) ==
    /\ m.kind = "started"
    /\ Append1(Item("tool", m.of, "running"))
    /\ toolCards' = Put(toolCards, m.of, Len(items) + 1)
    /\ busy' = TRUE
    /\ Take(m) /\ Keeps /\ UNCHANGED <<textBlocks, approvalCards, sel>>

\* applyToolResult: a call without a card is given one.
TakesCompleted(m) ==
    /\ m.kind = "completed"
    /\ IF m.of \in DOMAIN toolCards
       THEN /\ items' = [i \in DOMAIN items |->
                   IF i = toolCards[m.of] /\ Mutable(i)
                   THEN [items[i] EXCEPT !.state = m.out] ELSE items[i]]
            /\ sel' = toolCards[m.of]
            /\ UNCHANGED scroll
       ELSE Append1(Item("tool", m.of, m.out)) /\ sel' = Len(items) + 1
    /\ toolCards' = Drop(toolCards, m.of)
    /\ busy' = FALSE
    /\ Take(m) /\ Keeps /\ UNCHANGED <<textBlocks, approvalCards>>

\* Both cards are linked, or neither is.
LinkCards(its, card, tool) ==
    IF Mutable(tool) THEN [its EXCEPT ![tool].link = card, ![card].link = tool] ELSE its

\* receiveApprovalRequest
TakesRequest(m) ==
    LET card == Len(items) + 1
        its  == Append(items, Item("approval", m.of, "unresolved"))
    IN  /\ m.kind = "request"
        /\ card <= uses.items
        /\ items' = IF calls[m.of].linked /\ m.of \in DOMAIN toolCards
                    THEN LinkCards(its, card, toolCards[m.of]) ELSE its
        /\ scroll' = Arrived(scroll)
        /\ pending' = [item |-> card, id |-> m.of] /\ released' = FALSE
        /\ approvalCards' = Put(approvalCards, m.of, card)
        /\ Take(m)
        /\ UNCHANGED <<toolCards, textBlocks, sel, over, busy, compacting, newPending, diffSeq, app>>

\* (mutant) The ID of the request is taken for the ID of its item.
CardById(m) == m.of

\* updateApprovalOutcome finds the card by the ID of the request.
CardOf(m) == IF m.of \in DOMAIN approvalCards THEN approvalCards[m.of] ELSE NoId

\* A refused session grant makes the card one of a plain approval.
TakesResolved(m) ==
    /\ m.kind = "resolved"
    /\ items' = [i \in DOMAIN items |->
           IF i = CardOf(m) /\ items[i].kind = "approval"
           THEN [items[i] EXCEPT !.state = m.out] ELSE items[i]]
    /\ approvalCards' = Drop(approvalCards, m.of)
    /\ Take(m) /\ Keeps /\ UNCHANGED <<toolCards, textBlocks, sel, busy, scroll>>

\* A block already open takes the words, unless its stream has ended.
TakesDelta(m) ==
    /\ m.kind = "delta"
    /\ IF m.of \in DOMAIN textBlocks
       THEN UNCHANGED <<items, textBlocks, scroll, busy>>
       ELSE /\ Append1(Item("text", m.of, "streaming"))
            /\ textBlocks' = Put(textBlocks, m.of, Len(items) + 1)
            /\ busy' = TRUE
    /\ Take(m) /\ Keeps /\ UNCHANGED <<toolCards, approvalCards, sel>>

EndStreams(its, state) ==
    [i \in DOMAIN its |-> IF its[i].kind = "text" /\ its[i].state = "streaming"
                          THEN [its[i] EXCEPT !.state = state] ELSE its[i]]

TakesComplete(m) ==
    /\ m.kind = "ended" /\ m.out = "ok"
    /\ items' = EndStreams(items, "done")
    /\ textBlocks' = Nothing
    /\ busy' = FALSE
    /\ Take(m) /\ Keeps /\ UNCHANGED <<toolCards, approvalCards, sel, scroll>>

TakesTurnError(m) ==
    /\ m.kind = "ended" /\ m.out = "error"
    /\ Len(items) < uses.items
    /\ items' = EndStreams(Append(items, Error), "done")
    /\ scroll' = Arrived(scroll)
    /\ textBlocks' = Nothing
    /\ busy' = FALSE
    /\ Take(m) /\ Keeps /\ UNCHANGED <<toolCards, approvalCards, sel>>

\* (mutant) Every tool card is shown as cancelled.
CancelledAll(its) ==
    [i \in DOMAIN its |-> IF its[i].kind = "tool"
                          THEN [its[i] EXCEPT !.state = "cancelled"] ELSE its[i]]

CancelCards(its) ==
    [i \in DOMAIN its |-> IF its[i].kind = "tool" /\ its[i].state = "running"
                          THEN [its[i] EXCEPT !.state = "cancelled"] ELSE its[i]]

\* cancelTurn: nothing while /new runs; while /compact runs the cards and busy
\* stay.  m.Cancel is App.CancelTurn, which stops the newest turn.
CancelTurn ==
    /\ stopped' = IF newPending THEN stopped ELSE stopped \cup (live \cap {turns})
    /\ IF newPending \/ compacting THEN UNCHANGED <<items, busy>>
       ELSE items' = EndStreams(CancelCards(items), "cancelled") /\ busy' = FALSE

TakesCancelled(m) ==
    /\ m.kind = "ended" /\ m.out = "cancelled"
    /\ CancelTurn
    /\ textBlocks' = Nothing
    /\ Take(m)
    /\ UNCHANGED <<toolCards, approvalCards, sel, scroll, asked, over, compacting, newPending,
                   diffSeq, turns, live, calls>>

TakesError(m) ==
    /\ m.kind = "error"
    /\ Append1(Error)
    /\ busy' = FALSE
    /\ Take(m) /\ Keeps /\ UNCHANGED <<toolCards, textBlocks, approvalCards, sel>>

TakesNotice(m) ==
    /\ m.kind = "notice"
    /\ Append1(Notice)
    /\ Take(m) /\ Keeps /\ UNCHANGED <<toolCards, textBlocks, approvalCards, sel, busy>>

\* ManualCompactMsg: every outcome of /compact is a notice.
TakesCompacted(m) ==
    /\ m.kind = "compacted"
    /\ Append1(Notice)
    /\ busy' = FALSE /\ compacting' = FALSE
    /\ Take(m)
    /\ UNCHANGED <<toolCards, textBlocks, approvalCards, sel, asked, over, newPending, diffSeq, app>>

\* App.NewSession has waited for the turns, whose tools may still run.
TakesNewDone(m) ==
    /\ m.kind = "new" /\ live = {}
    /\ newPending' = FALSE
    /\ Reset
    /\ old' = turns /\ stale' = FALSE
    /\ inbox' = inbox \ {m}
    /\ UNCHANGED <<toolCards, textBlocks, approvalCards, over, browsing, text, uses, app>>

TakesNewFailed(m) ==
    /\ m.kind = "new" /\ live = {}
    /\ Append1(Notice)
    /\ newPending' = FALSE /\ busy' = FALSE
    /\ Take(m)
    /\ UNCHANGED <<toolCards, textBlocks, approvalCards, sel, asked, over, compacting, diffSeq, app>>

\* The result of an earlier /diff is dropped.
DropsDiff(m) ==
    /\ m.kind = "diff" /\ m.of # diffSeq
    /\ Take(m) /\ Keeps /\ UNCHANGED <<cards, sel, busy, scroll>>

\* applyDiffResult: a notice, when there is no diff to show or another view is open.
TakesDiff(m) ==
    /\ m.kind = "diff" /\ m.of = diffSeq
    /\ \/ Len(items) < uses.items /\ items' = Append(items, Notice) /\ UNCHANGED modal
       \/ ~OverlayOpen /\ modal' = TRUE /\ UNCHANGED items
    /\ scroll' = AtBottom
    /\ Take(m)
    /\ UNCHANGED <<toolCards, textBlocks, approvalCards, sel, asked, confirm, waits, diffSeq, app>>
-----------------------------------------------------------------------------
(* The user: one handler has the key, Model.handleKey *)

KeepsApp == UNCHANGED <<app, inbox, ghosts>>
Elsewhere == UNCHANGED <<cards, asked, waits, diffSeq>> /\ KeepsApp

OpenModal == modal' = TRUE /\ UNCHANGED confirm

ModalCloses ==
    /\ Mode = "modal"
    /\ modal' = FALSE
    /\ Elsewhere /\ UNCHANGED <<confirm, seen, scroll, text>>

HelpOpens ==
    /\ "overlays" \in uses.has /\ Mode \in {"approval", "browsing"}
    /\ OpenModal
    /\ Elsewhere /\ UNCHANGED <<seen, scroll, text>>

\* openDetail, of a card that has more to show; a pending card is selected first.
DetailOpens ==
    /\ "overlays" \in uses.has /\ Mode \in {"approval", "browsing"}
    /\ sel' = IF Mode = "approval" THEN pending.item ELSE sel
    /\ sel' \in DOMAIN items
    /\ items[sel'].kind \in {"tool", "approval", "error"}
    /\ OpenModal
    /\ Elsewhere /\ UNCHANGED <<browsing, toggled, scroll, text>>

\* App.Resolve: the request gets its answer, unless it was given up; only a
\* session grant, which may be refused, is confirmed.
Resolve(c, answer) ==
    IF calls[c].stage # "asking" THEN UNCHANGED <<calls, inbox>>
    ELSE /\ calls' = [calls EXCEPT ![c].stage = "answered", ![c].answer = answer]
         /\ IF answer # "session" THEN UNCHANGED inbox
            ELSE \E confirmed \in {"session", "approved"} : Send(Message("resolved", c, confirmed))

\* resolveApproval
Answers(answer) ==
    /\ Mode = "approval"
    /\ answer # "cancelled" => ~released
    /\ items' = [items EXCEPT ![pending.item].state = answer]
    /\ sel' = IF Folded(items'[pending.item]) /\ sel = pending.item
              THEN items[pending.item].link ELSE sel
    /\ Resolve(pending.id, answer)
    /\ approvalCards' = IF answer = "session" THEN approvalCards ELSE Drop(approvalCards, pending.id)
    /\ pending' = [item |-> NoId, id |-> NoId] /\ released' = FALSE
    /\ UNCHANGED <<toolCards, textBlocks, over, browsing, toggled, waits, scroll, text, diffSeq,
                   turns, live, stopped, ghosts>>

\* A key that is none of the card's lets it go; Tab takes it up again.
Releases ==
    /\ "overlays" \in uses.has /\ Mode = "approval"
    /\ released' = ~released
    /\ UNCHANGED <<cards, pending, over, seen, waits, scroll, text, diffSeq>> /\ KeepsApp

Declines ==
    /\ Mode = "confirm"
    /\ confirm' = "none"
    /\ Elsewhere /\ UNCHANGED <<modal, seen, scroll, text>>

\* InsertString.
Inserted == IF text = "command" THEN "command" ELSE "message"

\* applyConfirm.  /new asks only while busy, when Enter is not taken at all.
Accepts ==
    /\ Mode = "confirm"
    /\ text' = IF confirm = "paste" THEN Inserted ELSE text
    /\ confirm' = "none"
    /\ Elsewhere /\ UNCHANGED <<modal, seen, scroll>>

\* A card that is not in the transcript is no selection.
Cursor == IF sel \in DOMAIN items THEN sel ELSE NoId

\* setBase, in either direction.
Selected == IF sel = NoId THEN LastSelectable(items) ELSE sel

BrowsesCards ==
    /\ "browsing" \in uses.has /\ Mode = "composing"
    /\ browsing' = TRUE /\ sel' = Selected
    /\ scroll' = Reveal(scroll, sel', items, toggled)
    /\ Elsewhere /\ UNCHANGED <<over, toggled, text>>

Composes ==
    /\ Mode = "browsing"
    /\ browsing' = FALSE /\ sel' = Selected
    /\ Elsewhere /\ UNCHANGED <<over, toggled, scroll, text>>

\* nextSelectable; past the last card the composer has the keys.
Above == {i \in DOMAIN items : Selectable(items, i) /\ (Cursor # NoId => i < Cursor)}
Below == {i \in DOMAIN items : Selectable(items, i) /\ i > Cursor}

Selects ==
    /\ Mode = "browsing"
    /\ \/ Above # {} /\ sel' = Max(Above)
       \/ Below # {} /\ sel' = Min(Below)
    /\ scroll' = Reveal(scroll, sel', items, toggled)
    /\ Elsewhere /\ UNCHANGED <<browsing, over, toggled, text>>

\* PgUp, PgDn and Home.
Scrolls ==
    /\ Mode = "browsing"
    /\ \E off \in {Offset(items, toggled) - Max({1, ViewH - 1}),
                   Offset(items, toggled) + Max({1, ViewH - 1}), 0} :
           scroll' = SetOffset(scroll, off, items, toggled)
    /\ Elsewhere /\ UNCHANGED <<over, seen, text>>

\* End, and Ctrl+G from the composer.
Repins ==
    /\ Mode \in {"browsing", "composing"}
    /\ scroll' = AtBottom
    /\ Elsewhere /\ UNCHANGED <<over, seen, text>>

\* Enter on a card: its body is hidden or shown; only a tool card clamps the view.
Toggles ==
    /\ Mode = "browsing" /\ Cursor # NoId
    /\ toggled' = IF sel \in toggled THEN toggled \ {sel} ELSE toggled \cup {sel}
    /\ LET s == IF items[sel].kind = "tool" /\ ~scroll.pinned
                THEN SetOffset(scroll, scroll.offset, items, toggled') ELSE scroll
       IN  scroll' = Reveal(s, sel, items, toggled')
    /\ Elsewhere /\ UNCHANGED <<browsing, sel, over, text>>

\* The keys of a whole text are one step.
Types(t) ==
    /\ Mode = "composing"
    /\ text = "" /\ ~busy
    /\ text' = t
    /\ Elsewhere /\ UNCHANGED <<over, seen, scroll>>

\* Ctrl+J and Alt+Enter: a text of several lines is no command.
Newline ==
    /\ "editing" \in uses.has /\ Mode = "composing"
    /\ text' = IF text \in {"", "blank"} THEN "blank" ELSE "message"
    /\ Elsewhere /\ UNCHANGED <<over, seen, scroll>>

\* handlePaste: a large one asks first, and one under another view is dropped.
Pastes ==
    /\ "editing" \in uses.has /\ Mode = "composing"
    /\ \/ text' = Inserted /\ UNCHANGED confirm
       \/ confirm' = "paste" /\ UNCHANGED text
    /\ Elsewhere /\ UNCHANGED <<modal, seen, scroll>>

\* Esc and Ctrl+C in the composer.
Escapes ==
    /\ Mode = "composing"
    /\ IF busy THEN CancelTurn /\ UNCHANGED text
       ELSE text' = "" /\ UNCHANGED <<stopped, items, busy>>
    /\ UNCHANGED <<toolCards, textBlocks, approvalCards, asked, over, seen, compacting, newPending,
                   scroll, diffSeq, turns, live, calls, inbox, ghosts>>

Enters == Mode = "composing" /\ ~busy

\* submit, and App.Submit: a new turn cancels the one before.
Submits ==
    /\ Enters /\ text = "message" /\ turns < uses.turns
    /\ Len(items) < uses.items
    /\ items' = Append(items, Item("user", NoId, "shown"))
    /\ text' = "" /\ scroll' = AtBottom /\ busy' = TRUE
    /\ turns' = turns + 1
    /\ live' = live \cup {turns + 1}
    /\ stopped' = stopped \cup live
    /\ UNCHANGED <<toolCards, textBlocks, approvalCards, asked, over, seen, compacting, newPending,
                   diffSeq, calls, inbox, ghosts>>

\* runSlash: its answer, when there is one, is at the bottom.
Runs == Enters /\ text = "command" /\ text' = "" /\ scroll' = AtBottom

\* NewSession cancels what runs and waits for it.
RunsNew ==
    /\ "new" \in uses.has /\ Runs /\ diffSeq < MaxDiffs
    /\ busy' = TRUE /\ newPending' = TRUE
    /\ stopped' = stopped \cup live
    /\ Send(Message("new", NoId, "shown"))
    /\ UNCHANGED <<cards, asked, over, seen, compacting, diffSeq, turns, live, calls, ghosts>>

RunsCompact ==
    /\ "commands" \in uses.has /\ Runs
    /\ busy' = TRUE /\ compacting' = TRUE
    /\ Send(Message("compacted", NoId, "shown"))
    /\ UNCHANGED <<cards, asked, over, seen, newPending, diffSeq, app, ghosts>>

RunsDiff ==
    /\ "commands" \in uses.has /\ Runs /\ diffSeq < MaxDiffs
    /\ diffSeq' = diffSeq + 1
    /\ Send(Message("diff", diffSeq + 1, "shown"))
    /\ UNCHANGED <<cards, asked, over, seen, waits, app, ghosts>>

RunsHelp ==
    /\ "commands" \in uses.has /\ Runs
    /\ OpenModal
    /\ UNCHANGED <<cards, asked, seen, waits, diffSeq>> /\ KeepsApp

\* With grants in force the notice comes with the question whether to clear them.
RunsApprovals ==
    /\ "commands" \in uses.has /\ Runs
    /\ Len(items) < uses.items /\ items' = Append(items, Notice)
    /\ confirm' \in {confirm, "grants"}
    /\ UNCHANGED <<toolCards, textBlocks, approvalCards, asked, modal, seen, waits, diffSeq>>
    /\ KeepsApp

\* An unknown command leaves only a hint, and the view where it is.
RunsUnknown ==
    /\ Enters /\ text = "command"
    /\ text' = ""
    /\ Elsewhere /\ UNCHANGED <<over, seen, scroll>>
-----------------------------------------------------------------------------
Takes ==
    \E m \in inbox :
        \/ TakesStarted(m) \/ TakesCompleted(m) \/ TakesRequest(m) \/ TakesResolved(m)
        \/ TakesDelta(m) \/ TakesComplete(m) \/ TakesTurnError(m) \/ TakesCancelled(m)
        \/ TakesError(m) \/ TakesNotice(m) \/ TakesCompacted(m)
        \/ TakesNewDone(m) \/ TakesNewFailed(m) \/ DropsDiff(m) \/ TakesDiff(m)

TypesText ==
    \E t \in {"message"} \cup (IF uses.has \cap {"commands", "new"} = {} THEN {} ELSE {"command"}) :
        Types(t)

Keys ==
    \/ ModalCloses \/ HelpOpens \/ DetailOpens
    \/ \E answer \in States.approval \ {"unresolved"} : Answers(answer)
    \/ Releases \/ Declines \/ Accepts
    \/ BrowsesCards \/ Composes \/ Selects \/ Scrolls \/ Repins \/ Toggles
    \/ TypesText \/ Newline \/ Pastes \/ Escapes
    \/ Submits \/ RunsNew \/ RunsCompact \/ RunsDiff \/ RunsHelp \/ RunsApprovals \/ RunsUnknown

Works ==
    \/ \E v \in Turns : \/ \E c \in Calls, linked \in Links : CallsTool(v, c, linked)
                        \/ Speaks(v)
                        \/ \E out \in {"ok", "error", "cancelled"} : EndsTurn(v, out)
    \/ \E c \in Calls : Asks(c) \/ \E out \in {"ok", "error", "cancelled"} : Completes(c, out)
    \/ \E kind \in {"notice", "error"} : Informs(kind)

Next == Takes \/ Keys \/ Works

Spec == Init /\ [][Next]_vars
-----------------------------------------------------------------------------
\* Type invariant: the maps and the cursor name items.
TypeOK ==
    /\ items \in Seq([kind : DOMAIN States, of : 0..Max({MaxTurns, MaxCalls}),
                      state : UNION {States[k] : k \in DOMAIN States}, link : 0..MaxItems])
    /\ \A i \in DOMAIN items : items[i].state \in States[items[i].kind]
    /\ DOMAIN toolCards \subseteq Calls /\ DOMAIN approvalCards \subseteq Calls
    /\ DOMAIN textBlocks \subseteq Turns
    /\ \A f \in {toolCards, textBlocks, approvalCards} : Range(f) \subseteq 1..MaxItems
    /\ pending.item \in 0..Len(items) /\ sel \in 0..MaxItems
    /\ modal \in BOOLEAN /\ confirm \in {"none", "paste", "grants"}
    /\ scroll.pinned => scroll = AtBottom
    /\ ~scroll.pinned => scroll.since <= Len(items)

Final(it) == it.kind \in {"text", "tool", "approval"} /\ it.state \notin {"streaming", "running", "unresolved"}

\* What a card or a text shows once it is over stays, whatever comes late: only
\* a refused session grant makes its card one of a plain approval.  ui-spec 3.8;
\* MutateTool, AppendText, cancelTurn, updateApprovalOutcome.
FinalStays ==
    [][\A i \in DOMAIN items \cap DOMAIN items' :
          Final(items[i]) /\ old' = old /\ ~stale' =>
              \/ items'[i].state = items[i].state
              \/ items[i].state = "session" /\ items'[i].state = "approved"]_vars

\* A card tells of its own call: a tool card ends with the outcome of its call,
\* or because the user cancelled; an approval card shows the answer its request
\* got, if that still waited; the card with the keys is the one whose request the
\* keys answer; linked cards name each other.  toolCards, approvalCards,
\* receiveApprovalRequest, resolveApproval.
CardsTell ==
    ~stale =>
    /\ \A i \in DOMAIN items :
        LET it == items[i] c == calls[it.of]
        IN  /\ it.kind = "tool" =>
                 it.state \in {"running", "cancelled"} \/ (c.stage = "ended" /\ it.state = c.out)
            /\ it.kind = "approval" /\ c.answer # "unresolved" =>
                 it.state \in {c.answer} \cup (IF c.answer = "session" THEN {"approved"} ELSE {})
            /\ it.link # NoId =>
                 items[it.link].link = i /\ items[it.link].of = it.of
    /\ pending.item # NoId =>
        /\ items[pending.item].of = pending.id
        /\ items[pending.item].kind = "approval" /\ items[pending.item].state = "unresolved"
    /\ sel # NoId => Selectable(items, sel)

\* Who has scrolled up keeps the place: no message moves the view, it only counts
\* what arrived, save the answer to /diff and a new session; and typing or pasting
\* does not move it.  ui-spec 2.4; appendBlock, Scroll, keyComposing.
ReaderKeepsPlace ==
    [][~scroll.pinned =>
        /\ \A m \in inbox \ inbox' :
              \/ m.kind = "new" \/ (m.kind = "diff" /\ m.of = diffSeq)
              \/ scroll' = [scroll EXCEPT !.since = @ + Len(items') - Len(items)]
        /\ text' \notin {"", text} => scroll' = scroll]_vars
=============================================================================
