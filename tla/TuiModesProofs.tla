---------------------------- MODULE TuiModesProofs ----------------------------
(***************************************************************************)
(* For any number of turns, calls, items and messages under way, in any    *)
(* order: a card tells of its own call and keeps what it showed at the     *)
(* end, and the view stays where its reader left it.                       *)
(***************************************************************************)
EXTENDS TuiModes, SequenceTheorems, WellFoundedInduction, TLAPS

\* Messages under way, by what they name.
OfCall == {"started", "request", "resolved", "completed"}
OfTurn == {"delta", "ended"}
Ends   == {"ok", "error", "cancelled"}

Typed ==
    /\ uses \in Uses /\ Len(items) <= uses.items
    /\ scroll = [pinned |-> scroll.pinned, offset |-> scroll.offset, since |-> scroll.since]
    /\ scroll.pinned \in BOOLEAN /\ scroll.since \in Nat
    /\ turns \in Nat /\ live \subseteq 1..turns
    /\ old \in 0..turns /\ stale \in BOOLEAN
    /\ calls \in [Calls -> Call]
    /\ \A m \in inbox : m.kind \in OfCall => m.of \in Calls
    /\ \A m \in inbox : m.kind \in OfTurn => m.of \in Turns

\* How far a call has come says what is under way about it.
CallsProceed ==
    /\ \A c \in Calls : /\ calls[c].stage # "none" => calls[c].turn \in 1..turns
                        /\ calls[c].answer # "unresolved" => calls[c].stage \in {"answered", "ended"}
    /\ \A m \in inbox :
         /\ m.kind = "started" => calls[m.of].stage # "none"
         /\ m.kind = "request" => calls[m.of].stage = "asking" /\ m = Message("request", m.of, "shown")
         /\ m.kind = "resolved" => calls[m.of].answer = "session" /\ m.out \in {"session", "approved"}
         /\ m.kind = "completed" => calls[m.of].stage = "ended" /\ m.out = calls[m.of].out
                                    /\ m.out \in Ends
    /\ \A m, n \in inbox : m.kind = "resolved" /\ n.kind = "resolved" /\ m.of = n.of => m = n

\* The items of a call, and the maps by which messages find them.
CardsBelong ==
    /\ \A i \in DOMAIN items :
         /\ items[i].kind = "tool" => items[i].of \in Calls /\ calls[items[i].of].stage # "none"
         /\ items[i].kind = "approval" =>
              items[i].of \in Calls /\ calls[items[i].of].stage \in {"asking", "answered", "ended"}
    /\ \A i, j \in DOMAIN items :
         items[i].kind = "approval" /\ items[j].kind = "approval" /\ items[i].of = items[j].of => i = j
    /\ \A m \in inbox : m.kind = "request" =>
         \A i \in DOMAIN items : items[i].kind = "approval" => items[i].of # m.of
    /\ \A c \in DOMAIN toolCards :
         /\ calls[c].stage # "none"
         /\ calls[c].turn > old => /\ toolCards[c] \in DOMAIN items
                                   /\ items[toolCards[c]].kind = "tool" /\ items[toolCards[c]].of = c
    /\ \A c \in DOMAIN approvalCards :
         /\ calls[c].stage # "none"
         /\ calls[c].turn > old => /\ approvalCards[c] \in DOMAIN items
                                   /\ items[approvalCards[c]].kind = "approval"
                                   /\ items[approvalCards[c]].of = c
    /\ pending.item # NoId =>
         items[pending.item].kind = "approval" /\ items[pending.item].of = pending.id

\* What CardsTell says, and what it needs.
ToolTells(i) ==
    items[i].kind = "tool" =>
        \/ items[i].state \in {"running", "cancelled"}
        \/ calls[items[i].of].stage = "ended" /\ items[i].state = calls[items[i].of].out

ApprovalTells(i) ==
    items[i].kind = "approval" /\ calls[items[i].of].answer # "unresolved" =>
        items[i].state \in {calls[items[i].of].answer}
                             \cup (IF calls[items[i].of].answer = "session" THEN {"approved"} ELSE {})

Linked(i) ==
    items[i].link # NoId =>
        LET j == items[i].link IN
        /\ j \in DOMAIN items /\ items[j].link = i /\ items[j].of = items[i].of
        /\ \/ items[i].kind = "tool" /\ items[j].kind = "approval"
           \/ items[i].kind = "approval" /\ items[j].kind = "tool"

PendingWaits == pending.item # NoId => items[pending.item].state = "unresolved"

CursorSelects == sel # NoId => sel \in DOMAIN items /\ Selectable(items, sel)

\* A refused grant is still to be told of.
GrantsShown ==
    \A m \in inbox : m.kind = "resolved" =>
        \A i \in DOMAIN items :
            items[i].kind = "approval" /\ items[i].of = m.of => items[i].state = "session"

Told ==
    /\ \A i \in DOMAIN items : ToolTells(i) /\ ApprovalTells(i) /\ Linked(i)
    /\ PendingWaits /\ CursorSelects /\ GrantsShown

IInv == TypeOK /\ Typed /\ CallsProceed /\ CardsBelong /\ (~stale => Told)
-----------------------------------------------------------------------------
(* Least and greatest *)

LEMMA LeastOf ==
    ASSUME NEW T, T \subseteq Nat, T # {}
    PROVE  \E m \in T : \A k \in T : m <= k
<1> DEFINE R == OpToRel(<, Nat)
<1>1. IsWellFoundedOn(R, Nat)
  BY NatLessThanWellFounded
<1> HIDE DEF R
<1>2. PICK m \in T : \A k \in T : <<k, m>> \notin R
  BY <1>1, WFMin
<1>3. \A k \in T : ~(k < m)
  BY <1>2 DEF R, OpToRel
<1> QED BY <1>3

LEMMA MinIs ==
    ASSUME NEW S, S \subseteq Nat, S # {}
    PROVE  Min(S) \in S
<1>1. \E x \in S : \A y \in S : x <= y
  BY LeastOf
<1> QED BY <1>1 DEF Min

LEMMA MaxIs ==
    ASSUME NEW n \in Nat, NEW S, S \subseteq 0..n, S # {}
    PROVE  Max(S) \in S
<1> DEFINE T == {n - x : x \in S}
<1>1. T \subseteq Nat /\ T # {}
  <2>1. ASSUME NEW x \in S PROVE n - x \in Nat
    BY x \in 0..n
  <2>2. PICK x \in S : TRUE
    OBVIOUS
  <2>3. n - x \in T
    BY <2>2
  <2> QED BY <2>1, <2>3
<1>2. PICK m \in T : \A k \in T : m <= k
  <2>1. \A U : U \subseteq Nat /\ U # {} => \E m \in U : \A k \in U : m <= k
    BY LeastOf
  <2> HIDE DEF T
  <2> QED BY <1>1, <2>1
<1>3. PICK x \in S : m = n - x
  OBVIOUS
<1>4. \A y \in S : x >= y
  <2> TAKE y \in S
  <2>1. n - x <= n - y
    BY <1>2, <1>3
  <2> QED BY <2>1
<1> QED BY <1>4 DEF Max
-----------------------------------------------------------------------------
(* The view *)

\* What the scroll state s may be above n items.
View(s, n) ==
    /\ s = [pinned |-> s.pinned, offset |-> s.offset, since |-> s.since]
    /\ s.pinned \in BOOLEAN /\ s.since \in Nat
    /\ s.pinned => s = AtBottom
    /\ ~s.pinned => s.since <= n

LEMMA Views ==
    ASSUME NEW n \in Nat, NEW s, View(s, n)
    PROVE  /\ \A k \in Nat : View(AtBottom, k)
           /\ \A k \in Nat : n <= k => View(s, k)
           /\ View(Arrived(s), n + 1)
           /\ \A off, its, tog : View(SetOffset(s, off, its, tog), n)
           /\ \A i, its, tog : View(Reveal(s, i, its, tog), n)
<1>1. \A k \in Nat : View(AtBottom, k)
  BY DEF View, AtBottom
<1>2. \A k \in Nat : n <= k => View(s, k)
  BY DEF View
<1>3. View(Arrived(s), n + 1)
  BY DEF View, Arrived
<1>4. \A off, its, tog : View(SetOffset(s, off, its, tog), n)
  <2> TAKE off, its, tog
  <2> DEFINE r == [pinned |-> FALSE, offset |-> Max({0, off}), since |-> s.since]
  <2>1. SetOffset(s, off, its, tog) = AtBottom \/ SetOffset(s, off, its, tog) = r
    BY DEF SetOffset
  <2>2. s.since \in Nat /\ s.since <= n
    BY DEF View, AtBottom
  <2>3. r.pinned = FALSE /\ r.since = s.since /\ r = [pinned |-> r.pinned, offset |-> r.offset, since |-> r.since]
    OBVIOUS
  <2> HIDE DEF r
  <2>4. View(r, n)
    BY <2>2, <2>3 DEF View
  <2> QED BY <1>1, <2>1, <2>4
<1>5. ASSUME NEW i, NEW its, NEW tog PROVE View(Reveal(s, i, its, tog), n)
  <2> DEFINE n0  == IF i \in DOMAIN its THEN Rows(its, tog, i) ELSE 0
             top == RowsUpTo(its, tog, i - 1)
             at  == IF s.pinned THEN Bottom(its, tog) ELSE s.offset
             R   == CASE n0 = 0 -> s
                      [] n0 > 0 /\ (n0 > ViewH \/ top < at) -> SetOffset(s, top, its, tog)
                      [] OTHER -> IF top + n0 > at + ViewH
                                  THEN SetOffset(s, top + n0 - ViewH, its, tog) ELSE s
  <2>1. Reveal(s, i, its, tog) = R
    BY DEF Reveal
  <2>2. n0 \in Nat
    BY DEF Rows
  <2> HIDE DEF n0, top, at
  <2>3. R = s \/ \E off : R = SetOffset(s, off, its, tog)
    <3>1. CASE n0 = 0
      BY <3>1
    <3>2. CASE n0 # 0 /\ (n0 > ViewH \/ top < at)
      <4>1. R = SetOffset(s, top, its, tog)
        BY <3>2, <2>2
      <4> QED BY <4>1
    <3>3. CASE n0 # 0 /\ ~(n0 > ViewH \/ top < at)
      <4>1. R = IF top + n0 > at + ViewH THEN SetOffset(s, top + n0 - ViewH, its, tog) ELSE s
        BY <3>3, <2>2
      <4> QED BY <4>1
    <3> QED BY <3>1, <3>2, <3>3
  <2> HIDE DEF R
  <2> QED BY <1>4, <2>1, <2>3
<1> QED BY <1>1, <1>2, <1>3, <1>4, <1>5

\* The part of the types that the cards and the calls do not bear on.
ViewTyped ==
    /\ View(scroll, Len(items))
    /\ modal \in BOOLEAN /\ confirm \in {"none", "paste", "grants"}
    /\ DOMAIN textBlocks \subseteq Turns /\ Range(textBlocks) \subseteq 1..MaxItems
    /\ uses \in Uses /\ turns \in Nat /\ live \subseteq 1..turns
    /\ old \in 0..turns /\ stale \in BOOLEAN

LEMMA UsesAre ==
    ASSUME uses \in Uses
    PROVE  uses.items \in 0..MaxItems /\ uses.calls \in 0..MaxCalls /\ uses.turns \in 0..MaxTurns
BY TuiAssumption DEF Use

LEMMA Maps ==
    ASSUME NEW f, NEW x, NEW y
    PROVE  /\ DOMAIN Put(f, x, y) = DOMAIN f \cup {x} /\ DOMAIN Drop(f, x) = DOMAIN f \ {x}
           /\ \A z \in DOMAIN f : z # x => Put(f, x, y)[z] = f[z] /\ Drop(f, x)[z] = f[z]
           /\ Put(f, x, y)[x] = y
BY DEF Put, Drop

LEMMA Ranges ==
    ASSUME NEW f, NEW x, NEW y
    PROVE  /\ \A S : Range(f) \subseteq S /\ y \in S => Range(Put(f, x, y)) \subseteq S
           /\ \A S : Range(f) \subseteq S => Range(Drop(f, x)) \subseteq S
BY DEF Put, Drop, Range

LEMMA StreamsEnd ==
    ASSUME NEW its, NEW n \in Nat, DOMAIN its = 1..n, NEW state
    PROVE  /\ DOMAIN EndStreams(its, state) = 1..n /\ Len(EndStreams(its, state)) = n
           /\ DOMAIN CancelCards(its) = 1..n /\ Len(CancelCards(its)) = n
BY DEF EndStreams, CancelCards

LEMMA ViewOfTakes ==
    ASSUME IInv, ViewTyped, NEW m \in inbox,
           \/ TakesStarted(m) \/ TakesCompleted(m) \/ TakesRequest(m) \/ TakesResolved(m)
           \/ TakesDelta(m) \/ TakesComplete(m) \/ TakesTurnError(m) \/ TakesCancelled(m)
           \/ TakesError(m) \/ TakesNotice(m) \/ TakesCompacted(m)
           \/ TakesNewDone(m) \/ TakesNewFailed(m) \/ DropsDiff(m) \/ TakesDiff(m)
    PROVE  ViewTyped'
<1> DEFINE I == [kind : DOMAIN States, of : 0..Max({MaxTurns, MaxCalls}),
                 state : UNION {States[k] : k \in DOMAIN States}, link : 0..MaxItems]
<1>1. items \in Seq(I) /\ Len(items) \in Nat /\ DOMAIN items = 1..Len(items)
  BY DEF IInv, TypeOK
<1> HIDE DEF I
<1>2. /\ \A k \in Nat : View(AtBottom, k)
      /\ \A k \in Nat : Len(items) <= k => View(scroll, k)
      /\ View(Arrived(scroll), Len(items) + 1)
  BY <1>1, Views DEF ViewTyped
<1>3. \A it : Len(Append(items, it)) = Len(items) + 1 /\ DOMAIN Append(items, it) = 1..(Len(items) + 1)
  BY <1>1
<1>4. \A s : Len(EndStreams(items, s)) = Len(items) /\ Len(EndStreams(CancelCards(items), s)) = Len(items)
  BY <1>1, StreamsEnd
<1>5. \A it, s : Len(EndStreams(Append(items, it), s)) = Len(items) + 1
  <2> TAKE it, s
  <2> DEFINE new == Append(items, it)
  <2>1. DOMAIN new = 1..(Len(items) + 1) /\ Len(items) + 1 \in Nat
    BY <1>1, <1>3
  <2> HIDE DEF new
  <2>2. Len(EndStreams(new, s)) = Len(items) + 1
    BY <2>1, StreamsEnd
  <2> QED BY <2>2 DEF new
<1>6. uses.items \in 0..MaxItems
  BY UsesAre DEF ViewTyped
<1>7. Take(m) => uses' = uses /\ old' = old /\ stale' \in BOOLEAN
  BY DEF Take, ViewTyped
<1>8. UNCHANGED <<modal, confirm, textBlocks, turns, live>> /\ Take(m) /\ View(scroll', Len(items'))
      => ViewTyped'
  BY <1>7 DEF ViewTyped
<1>9. \A it : Append1(it) => View(scroll', Len(items'))
  BY <1>2, <1>3 DEF Append1
<1>10. CASE TakesStarted(m)
  BY <1>8, <1>9, <1>10 DEF TakesStarted, Keeps, over, app
<1>11. CASE TakesCompleted(m)
  <2>1. View(scroll', Len(items'))
    <3>1. CASE m.of \in DOMAIN toolCards
      BY <1>1, <1>2, <1>11, <3>1 DEF TakesCompleted
    <3>2. CASE m.of \notin DOMAIN toolCards
      BY <1>9, <1>11, <3>2 DEF TakesCompleted
    <3> QED BY <3>1, <3>2
  <2> QED BY <1>8, <1>11, <2>1 DEF TakesCompleted, Keeps, over, app
<1>12. CASE TakesRequest(m)
  <2>1. \A its, card, tool : Len(its) \in Nat /\ DOMAIN its = 1..Len(its) =>
            Len(LinkCards(its, card, tool)) = Len(its)
    BY DEF LinkCards
  <2>2. Len(items') = Len(items) + 1
    <3> DEFINE new == Append(items, Item("approval", m.of, "unresolved"))
    <3>1. Len(new) = Len(items) + 1 /\ DOMAIN new = 1..Len(new) /\ Len(new) \in Nat
      BY <1>1, <1>3
    <3>2. items' = new \/ items' = LinkCards(new, Len(items) + 1, toolCards[m.of])
      BY <1>12 DEF TakesRequest
    <3> HIDE DEF new
    <3> QED BY <2>1, <3>1, <3>2
  <2> QED BY <1>2, <1>8, <1>12, <2>2 DEF TakesRequest, over, app
<1>13. CASE TakesResolved(m)
  <2>1. Len(items') = Len(items)
    BY <1>1, <1>13 DEF TakesResolved
  <2> QED BY <1>1, <1>2, <1>8, <1>13, <2>1 DEF TakesResolved, Keeps, over, app
<1>14. CASE TakesDelta(m)
  <2>1. CASE m.of \in DOMAIN textBlocks
    BY <1>1, <1>2, <1>8, <1>14, <2>1 DEF TakesDelta, Keeps, over, app
  <2>2. CASE m.of \notin DOMAIN textBlocks
    <3>1. View(scroll', Len(items'))
      BY <1>9, <1>14, <2>2 DEF TakesDelta
    <3>2. m.of \in Turns
      BY <1>14 DEF IInv, Typed, OfTurn, TakesDelta
    <3>3. Len(items) + 1 \in 1..MaxItems
      <4>1. Len(items) < uses.items
        BY <1>14, <2>2 DEF TakesDelta, Append1
      <4> QED BY <1>1, <1>6, <4>1, TuiAssumption
    <3>4. DOMAIN textBlocks' \subseteq Turns /\ Range(textBlocks') \subseteq 1..MaxItems
      <4>1. textBlocks' = Put(textBlocks, m.of, Len(items) + 1)
        BY <1>14, <2>2 DEF TakesDelta
      <4>2. DOMAIN textBlocks \subseteq Turns /\ Range(textBlocks) \subseteq 1..MaxItems
        BY DEF ViewTyped
      <4>3. DOMAIN textBlocks' = DOMAIN textBlocks \cup {m.of}
        BY <4>1, Maps
      <4>4. Range(textBlocks') \subseteq 1..MaxItems
        BY <3>3, <4>1, <4>2, Ranges
      <4> QED BY <3>2, <4>2, <4>3, <4>4
    <3> QED BY <1>7, <1>14, <3>1, <3>4 DEF ViewTyped, TakesDelta, Keeps, over, app
  <2> QED BY <2>1, <2>2
<1>15. DOMAIN Nothing \subseteq Turns /\ Range(Nothing) \subseteq 1..MaxItems
  BY DEF Nothing, Range
<1>16. textBlocks' = Nothing /\ UNCHANGED <<modal, confirm, turns, live>> /\ Take(m) /\ View(scroll', Len(items'))
       => ViewTyped'
  BY <1>7, <1>15 DEF ViewTyped
<1>17. CASE TakesComplete(m)
  BY <1>1, <1>2, <1>4, <1>16, <1>17 DEF TakesComplete, Keeps, over, app
<1>18. CASE TakesTurnError(m)
  BY <1>1, <1>2, <1>5, <1>16, <1>18 DEF TakesTurnError, Keeps, over, app
<1>19. CASE TakesCancelled(m)
  <2>1. Len(items') = Len(items)
    BY <1>4, <1>19 DEF TakesCancelled, CancelTurn
  <2> QED BY <1>1, <1>2, <1>16, <1>19, <2>1 DEF TakesCancelled, over
<1>20. CASE TakesError(m)
  BY <1>8, <1>9, <1>20 DEF TakesError, Keeps, over, app
<1>21. CASE TakesNotice(m)
  BY <1>8, <1>9, <1>21 DEF TakesNotice, Keeps, over, app
<1>22. CASE TakesCompacted(m)
  BY <1>8, <1>9, <1>22 DEF TakesCompacted, over, app
<1>23. CASE TakesNewDone(m)
  <2>1. View(scroll', Len(items'))
    BY <1>2, <1>23 DEF TakesNewDone, Reset
  <2>2. UNCHANGED <<modal, confirm, textBlocks, uses, turns, live>> /\ old' = turns /\ stale' = FALSE
    BY <1>23 DEF TakesNewDone, over, app
  <2>3. old' \in 0..turns'
    BY <2>2 DEF ViewTyped
  <2> QED BY <2>1, <2>2, <2>3 DEF ViewTyped
<1>24. CASE TakesNewFailed(m)
  BY <1>8, <1>9, <1>24 DEF TakesNewFailed, over, app
<1>25. CASE DropsDiff(m)
  BY <1>1, <1>2, <1>8, <1>25 DEF DropsDiff, Keeps, cards, over, app
<1>26. CASE TakesDiff(m)
  <2>1. View(scroll', Len(items'))
    BY <1>1, <1>2, <1>3, <1>26 DEF TakesDiff
  <2>2. modal' \in BOOLEAN
    BY <1>26 DEF TakesDiff, ViewTyped
  <2> QED BY <1>7, <1>26, <2>1, <2>2 DEF TakesDiff, ViewTyped, app
<1> QED BY <1>10, <1>11, <1>12, <1>13, <1>14, <1>17, <1>18, <1>19, <1>20, <1>21, <1>22, <1>23,
           <1>24, <1>25, <1>26

LEMMA ViewOfKeys ==
    ASSUME IInv, ViewTyped, Keys
    PROVE  ViewTyped'
<1>1. Len(items) \in Nat /\ DOMAIN items = 1..Len(items)
  BY DEF IInv, TypeOK
<1>2. /\ \A k \in Nat : View(AtBottom, k)
      /\ \A k \in Nat : Len(items) <= k => View(scroll, k)
      /\ \A off, its, tog : View(SetOffset(scroll, off, its, tog), Len(items))
      /\ \A i, its, tog : View(Reveal(scroll, i, its, tog), Len(items))
  BY <1>1, Views DEF ViewTyped
<1>3. View(scroll, Len(items))
  BY DEF ViewTyped
<1>4. items' = items /\ View(scroll', Len(items)) => View(scroll', Len(items'))
  OBVIOUS
<1>5. ASSUME View(scroll', Len(items')), UNCHANGED <<textBlocks, uses, turns, live, old, stale>>,
             modal' \in {modal, TRUE, FALSE}, confirm' \in {confirm, "none", "paste", "grants"}
      PROVE  ViewTyped'
  BY <1>5 DEF ViewTyped
<1>6. ASSUME items' = items, scroll' = scroll, UNCHANGED <<textBlocks, uses, turns, live, old, stale>>,
             modal' \in {modal, TRUE, FALSE}, confirm' \in {confirm, "none", "paste", "grants"}
      PROVE  ViewTyped'
  BY <1>3, <1>6 DEF ViewTyped
<1>7. CASE ModalCloses \/ HelpOpens \/ DetailOpens \/ Releases \/ Declines \/ Accepts
           \/ Composes \/ TypesText \/ Newline \/ Pastes \/ RunsUnknown
  <2>1. items' = items /\ scroll' = scroll /\ UNCHANGED <<textBlocks, uses, turns, live, old, stale>>
    BY <1>7 DEF ModalCloses, HelpOpens, DetailOpens, Releases, Declines, Accepts, Composes,
                TypesText, Types, Newline, Pastes, RunsUnknown, Elsewhere, KeepsApp, cards, app, ghosts
  <2>2. modal' \in {modal, TRUE, FALSE} /\ confirm' \in {confirm, "none", "paste", "grants"}
    BY <1>7 DEF ModalCloses, HelpOpens, DetailOpens, Releases, Declines, Accepts, Composes,
                TypesText, Types, Newline, Pastes, RunsUnknown, OpenModal, over
  <2> QED BY <1>6, <2>1, <2>2
<1>8. CASE BrowsesCards \/ Selects \/ Scrolls \/ Repins
  <2>1. items' = items /\ UNCHANGED <<textBlocks, uses, turns, live, old, stale, modal, confirm>>
    BY <1>8 DEF BrowsesCards, Selects, Scrolls, Repins, Elsewhere, KeepsApp, cards, app, ghosts, over
  <2>2. View(scroll', Len(items))
    BY <1>1, <1>2, <1>8 DEF BrowsesCards, Selects, Scrolls, Repins
  <2> QED BY <1>4, <1>5, <2>1, <2>2
<1>9. CASE Toggles
  <2>1. items' = items /\ UNCHANGED <<textBlocks, uses, turns, live, old, stale, modal, confirm>>
    BY <1>9 DEF Toggles, Elsewhere, KeepsApp, cards, app, ghosts, over
  <2>2. View(scroll', Len(items))
    <3>1. PICK s : /\ scroll' = Reveal(s, sel, items, toggled')
                   /\ s = scroll \/ s = SetOffset(scroll, scroll.offset, items, toggled')
      BY <1>9 DEF Toggles
    <3>2. View(s, Len(items))
      BY <1>2, <1>3, <3>1
    <3>3. \A i, its, tog : View(Reveal(s, i, its, tog), Len(items))
      BY <1>1, <3>2, Views
    <3> QED BY <3>1, <3>3
  <2> QED BY <1>4, <1>5, <2>1, <2>2
<1>10. CASE \E answer \in States.approval \ {"unresolved"} : Answers(answer)
  <2>1. UNCHANGED <<textBlocks, uses, turns, live, old, stale, modal, confirm, scroll>>
    BY <1>10 DEF Answers, over, ghosts
  <2>2. Len(items') = Len(items)
    BY <1>1, <1>10 DEF Answers
  <2> QED BY <1>3, <1>5, <2>1, <2>2
<1>11. CASE Escapes
  <2>1. UNCHANGED <<textBlocks, uses, turns, live, old, stale, modal, confirm, scroll>>
    BY <1>11 DEF Escapes, over, ghosts
  <2>2. Len(items') = Len(items)
    <3>1. Len(EndStreams(CancelCards(items), "cancelled")) = Len(items)
      BY <1>1, StreamsEnd
    <3> QED BY <1>11, <3>1 DEF Escapes, CancelTurn
  <2> QED BY <1>3, <1>5, <2>1, <2>2
<1>12. CASE Submits
  <2>1. UNCHANGED <<textBlocks, uses, old, stale, modal, confirm>> /\ scroll' = AtBottom
        /\ items' = Append(items, Item("user", NoId, "shown"))
        /\ turns' = turns + 1 /\ live' = live \cup {turns + 1}
    BY <1>12 DEF Submits, over, ghosts
  <2>2. Len(items') \in Nat
    BY <2>1 DEF IInv, TypeOK
  <2>3. View(scroll', Len(items'))
    BY <1>2, <2>1, <2>2
  <2>4. turns' \in Nat /\ live' \subseteq 1..turns' /\ old' \in 0..turns'
    BY <2>1 DEF ViewTyped
  <2> QED BY <2>1, <2>3, <2>4 DEF ViewTyped
<1>13. CASE RunsNew \/ RunsCompact \/ RunsDiff \/ RunsHelp
  <2>1. items' = items /\ scroll' = AtBottom /\ UNCHANGED <<textBlocks, uses, turns, live, old, stale>>
    BY <1>13 DEF RunsNew, RunsCompact, RunsDiff, RunsHelp, Runs, KeepsApp, cards, app, ghosts
  <2>2. modal' \in {modal, TRUE, FALSE} /\ confirm' \in {confirm, "none", "paste", "grants"}
    BY <1>13 DEF RunsNew, RunsCompact, RunsDiff, RunsHelp, OpenModal, over
  <2> QED BY <1>1, <1>2, <1>4, <1>5, <2>1, <2>2
<1>14. CASE RunsApprovals
  <2>1. UNCHANGED <<textBlocks, uses, turns, live, old, stale, modal>> /\ scroll' = AtBottom
        /\ items' = Append(items, Notice) /\ confirm' \in {confirm, "grants"}
    BY <1>14 DEF RunsApprovals, Runs, KeepsApp, app, ghosts
  <2>2. Len(items') \in Nat
    BY <2>1 DEF IInv, TypeOK
  <2> QED BY <1>2, <1>5, <2>1, <2>2
<1> QED BY <1>7, <1>8, <1>9, <1>10, <1>11, <1>12, <1>13, <1>14 DEF Keys

LEMMA ViewOfWorks ==
    ASSUME ViewTyped, Works \/ UNCHANGED vars
    PROVE  ViewTyped'
<1>1. UNCHANGED <<items, textBlocks, scroll, modal, confirm, uses, old, stale, turns>> /\ live' \subseteq live
  <2>1. CASE UNCHANGED vars
    BY <2>1 DEF vars, cards, over, app, ghosts
  <2>2. CASE \E v \in Turns, c \in Calls, linked \in Links : CallsTool(v, c, linked)
    BY <2>2 DEF CallsTool, OnlyApp, cards, over, ghosts
  <2>3. CASE \E v \in Turns : Speaks(v) \/ \E out \in {"ok", "error", "cancelled"} : EndsTurn(v, out)
    BY <2>3 DEF Speaks, EndsTurn, OnlyApp, cards, over, ghosts, app
  <2>4. CASE \E c \in Calls : Asks(c) \/ \E out \in {"ok", "error", "cancelled"} : Completes(c, out)
    BY <2>4 DEF Asks, Completes, OnlyApp, cards, over, ghosts
  <2>5. CASE \E kind \in {"notice", "error"} : Informs(kind)
    BY <2>5 DEF Informs, OnlyApp, cards, over, ghosts, app
  <2> QED BY <2>1, <2>2, <2>3, <2>4, <2>5 DEF Works
<1> QED BY <1>1 DEF ViewTyped

\* A step leaves the view well typed, whatever it is.
LEMMA ViewStep ==
    ASSUME IInv, [Next]_vars
    PROVE  ViewTyped'
<1>1. ViewTyped
  <2>1. View(scroll, Len(items))
    BY DEF IInv, Typed, TypeOK, View
  <2>2. DOMAIN textBlocks \subseteq Turns /\ Range(textBlocks) \subseteq 1..MaxItems
    BY DEF IInv, TypeOK
  <2> QED BY <2>1, <2>2 DEF IInv, Typed, TypeOK, ViewTyped
<1> QED BY <1>1, ViewOfTakes, ViewOfKeys, ViewOfWorks DEF Next, Takes
-----------------------------------------------------------------------------
(* The items of a transcript *)

Ofs   == 0..Max({MaxTurns, MaxCalls})
Items == [kind : DOMAIN States, of : Ofs, state : UNION {States[k] : k \in DOMAIN States},
          link : 0..MaxItems]

WellFormed(its) == its \in Seq(Items) /\ \A i \in DOMAIN its : its[i].state \in States[its[i].kind]

\* new is what its has become: a text or a running tool may have ended, and
\* what was added is no card.
GoOn(its, new) ==
    /\ WellFormed(new) /\ Len(its) <= Len(new)
    /\ \A i \in DOMAIN its :
         /\ new[i].kind = its[i].kind /\ new[i].of = its[i].of /\ new[i].link = its[i].link
         /\ \/ new[i].state = its[i].state
            \/ its[i].kind = "text" /\ its[i].state = "streaming"
            \/ its[i].kind = "tool" /\ its[i].state = "running" /\ new[i].state = "cancelled"
    /\ \A i \in DOMAIN new \ DOMAIN its : new[i].kind \notin {"tool", "approval"} /\ new[i].link = NoId

LEMMA StatesAre ==
    /\ DOMAIN States = {"user", "notice", "error", "text", "tool", "approval"}
    /\ States["user"] = {"shown"} /\ States["notice"] = {"shown"} /\ States["error"] = {"shown"}
    /\ States["text"] = {"streaming", "done", "cancelled"}
    /\ States["tool"] = {"running", "ok", "error", "cancelled"}
    /\ States["approval"] = {"unresolved", "approved", "session", "rejected", "cancelled"}
    /\ \A k \in DOMAIN States : \A s : s \in States[k] => s \in UNION {States[j] : j \in DOMAIN States}
BY DEF States

LEMMA OfsAre ==
    /\ Turns \subseteq Ofs /\ Calls \subseteq Ofs /\ NoId \in Ofs
<1>1. \E x \in {MaxTurns, MaxCalls} : \A y \in {MaxTurns, MaxCalls} : x >= y
  BY TuiAssumption
<1>2. Max({MaxTurns, MaxCalls}) \in Nat /\ Max({MaxTurns, MaxCalls}) >= MaxTurns
      /\ Max({MaxTurns, MaxCalls}) >= MaxCalls
  BY <1>1, TuiAssumption DEF Max
<1> QED BY <1>2, TuiAssumption DEF Ofs, Turns, Calls, NoId

LEMMA ItemIs ==
    ASSUME NEW kind \in DOMAIN States, NEW of \in Ofs, NEW state \in States[kind]
    PROVE  /\ Item(kind, of, state) \in Items
           /\ Item(kind, of, state).kind = kind /\ Item(kind, of, state).of = of
           /\ Item(kind, of, state).state = state /\ Item(kind, of, state).link = NoId
BY StatesAre, TuiAssumption DEF Item, Items, NoId

LEMMA ItemEnds ==
    ASSUME NEW it \in Items, NEW state \in States[it.kind]
    PROVE  /\ [it EXCEPT !.state = state] \in Items
           /\ [it EXCEPT !.state = state].kind = it.kind /\ [it EXCEPT !.state = state].of = it.of
           /\ [it EXCEPT !.state = state].state = state /\ [it EXCEPT !.state = state].link = it.link
<1>1. it.kind \in DOMAIN States
  BY DEF Items
<1>2. state \in UNION {States[k] : k \in DOMAIN States}
  BY <1>1
<1> QED BY <1>2 DEF Items

LEMMA GoOnTwice ==
    ASSUME NEW a, NEW b, NEW c, Len(a) \in Nat, DOMAIN a = 1..Len(a), WellFormed(b),
           GoOn(a, b), GoOn(b, c)
    PROVE  GoOn(a, c)
<1>1. DOMAIN b = 1..Len(b) /\ Len(b) \in Nat /\ DOMAIN c = 1..Len(c) /\ Len(c) \in Nat
  BY DEF GoOn, WellFormed
<1>2. Len(a) <= Len(b) /\ Len(b) <= Len(c)
  BY DEF GoOn
<1>3. DOMAIN a \subseteq DOMAIN b /\ DOMAIN b \subseteq DOMAIN c /\ Len(a) <= Len(c)
  BY <1>1, <1>2
<1>4. ASSUME NEW i \in DOMAIN a
      PROVE  /\ c[i].kind = a[i].kind /\ c[i].of = a[i].of /\ c[i].link = a[i].link
             /\ \/ c[i].state = a[i].state
                \/ a[i].kind = "text" /\ a[i].state = "streaming"
                \/ a[i].kind = "tool" /\ a[i].state = "running" /\ c[i].state = "cancelled"
  <2>1. i \in DOMAIN b
    BY <1>3
  <2>2. /\ b[i].kind = a[i].kind /\ b[i].of = a[i].of /\ b[i].link = a[i].link
        /\ \/ b[i].state = a[i].state
           \/ a[i].kind = "text" /\ a[i].state = "streaming"
           \/ a[i].kind = "tool" /\ a[i].state = "running" /\ b[i].state = "cancelled"
    BY DEF GoOn
  <2>3. /\ c[i].kind = b[i].kind /\ c[i].of = b[i].of /\ c[i].link = b[i].link
        /\ \/ c[i].state = b[i].state
           \/ b[i].kind = "text" /\ b[i].state = "streaming"
           \/ b[i].kind = "tool" /\ b[i].state = "running" /\ c[i].state = "cancelled"
    BY <2>1 DEF GoOn
  <2> QED BY <2>2, <2>3
<1>5. ASSUME NEW i \in DOMAIN c \ DOMAIN a
      PROVE  c[i].kind \notin {"tool", "approval"} /\ c[i].link = NoId
  <2>1. CASE i \in DOMAIN b
    BY <2>1 DEF GoOn
  <2>2. CASE i \notin DOMAIN b
    BY <2>2 DEF GoOn
  <2> QED BY <2>1, <2>2
<1> QED BY <1>3, <1>4, <1>5 DEF GoOn

LEMMA GoOnSame ==
    ASSUME NEW its, WellFormed(its)
    PROVE  GoOn(its, its)
BY DEF GoOn, WellFormed

LEMMA GoOnAppend ==
    ASSUME NEW its, WellFormed(its), NEW it \in Items, it.state \in States[it.kind],
           it.kind \notin {"tool", "approval"}, it.link = NoId
    PROVE  WellFormed(Append(its, it)) /\ GoOn(its, Append(its, it))
<1> DEFINE new == Append(its, it)
<1>1. /\ new \in Seq(Items) /\ Len(new) = Len(its) + 1 /\ Len(its) \in Nat
      /\ DOMAIN its = 1..Len(its) /\ DOMAIN new = 1..(Len(its) + 1)
      /\ \A i \in DOMAIN its : new[i] = its[i]
      /\ new[Len(its) + 1] = it
  BY DEF WellFormed
<1> HIDE DEF new
<1>2. \A i \in DOMAIN new : i \in DOMAIN its \/ i = Len(its) + 1
  BY <1>1
<1>3. \A i \in DOMAIN new : new[i].state \in States[new[i].kind]
  BY <1>1, <1>2 DEF WellFormed
<1>4. \A i \in DOMAIN new \ DOMAIN its : new[i] = it
  BY <1>1, <1>2
<1> QED BY <1>1, <1>3, <1>4 DEF GoOn, WellFormed, new

LEMMA GoOnStreams ==
    ASSUME NEW its, WellFormed(its), NEW state \in {"done", "cancelled"}
    PROVE  WellFormed(EndStreams(its, state)) /\ GoOn(its, EndStreams(its, state))
<1> DEFINE new == EndStreams(its, state)
<1>1. Len(its) \in Nat /\ DOMAIN its = 1..Len(its) /\ \A i \in DOMAIN its : its[i] \in Items
  BY DEF WellFormed
<1>2. DOMAIN new = 1..Len(its) /\ Len(new) = Len(its)
  BY <1>1, StreamsEnd
<1>3. \A i \in DOMAIN its : /\ new[i] \in Items /\ new[i].kind = its[i].kind /\ new[i].of = its[i].of
                            /\ new[i].link = its[i].link /\ new[i].state \in States[new[i].kind]
                            /\ \/ new[i].state = its[i].state
                               \/ its[i].kind = "text" /\ its[i].state = "streaming"
  <2> TAKE i \in DOMAIN its
  <2>1. new[i] = IF its[i].kind = "text" /\ its[i].state = "streaming"
                 THEN [its[i] EXCEPT !.state = state] ELSE its[i]
    BY DEF EndStreams
  <2>2. CASE its[i].kind = "text" /\ its[i].state = "streaming"
    <3>1. state \in States[its[i].kind]
      BY <2>2, StatesAre
    <3>2. new[i] = [its[i] EXCEPT !.state = state]
      BY <2>1, <2>2
    <3> QED BY <1>1, <2>2, <3>1, <3>2, ItemEnds
  <2>3. CASE ~(its[i].kind = "text" /\ its[i].state = "streaming")
    BY <1>1, <2>1, <2>3 DEF WellFormed
  <2> QED BY <2>2, <2>3
<1> HIDE DEF new
<1>4. new \in Seq(Items)
  <2>1. new = [i \in 1..Len(its) |-> new[i]]
    BY <1>2 DEF new, EndStreams
  <2>2. new \in [1..Len(its) -> Items]
    BY <1>1, <1>3, <2>1
  <2> QED BY <1>1, <2>2
<1> QED BY <1>1, <1>2, <1>3, <1>4 DEF GoOn, WellFormed, new

LEMMA GoOnCancel ==
    ASSUME NEW its, WellFormed(its)
    PROVE  WellFormed(CancelCards(its)) /\ GoOn(its, CancelCards(its))
<1> DEFINE new == CancelCards(its)
<1>1. Len(its) \in Nat /\ DOMAIN its = 1..Len(its) /\ \A i \in DOMAIN its : its[i] \in Items
  BY DEF WellFormed
<1>2. DOMAIN new = 1..Len(its) /\ Len(new) = Len(its)
  BY <1>1, StreamsEnd
<1>3. \A i \in DOMAIN its : /\ new[i] \in Items /\ new[i].kind = its[i].kind /\ new[i].of = its[i].of
                            /\ new[i].link = its[i].link /\ new[i].state \in States[new[i].kind]
                            /\ \/ new[i].state = its[i].state
                               \/ its[i].kind = "tool" /\ its[i].state = "running"
                                  /\ new[i].state = "cancelled"
  <2> TAKE i \in DOMAIN its
  <2>1. new[i] = IF its[i].kind = "tool" /\ its[i].state = "running"
                 THEN [its[i] EXCEPT !.state = "cancelled"] ELSE its[i]
    BY DEF CancelCards
  <2>2. CASE its[i].kind = "tool" /\ its[i].state = "running"
    <3>1. "cancelled" \in States[its[i].kind]
      BY <2>2, StatesAre
    <3>2. new[i] = [its[i] EXCEPT !.state = "cancelled"]
      BY <2>1, <2>2
    <3> QED BY <1>1, <2>2, <3>1, <3>2, ItemEnds
  <2>3. CASE ~(its[i].kind = "tool" /\ its[i].state = "running")
    BY <1>1, <2>1, <2>3 DEF WellFormed
  <2> QED BY <2>2, <2>3
<1> HIDE DEF new
<1>4. new \in Seq(Items)
  <2>1. new = [i \in 1..Len(its) |-> new[i]]
    BY <1>2 DEF new, CancelCards
  <2>2. new \in [1..Len(its) -> Items]
    BY <1>1, <1>3, <2>1
  <2> QED BY <1>1, <2>2
<1> QED BY <1>1, <1>2, <1>3, <1>4 DEF GoOn, WellFormed, new
-----------------------------------------------------------------------------
(* Steps that no call bears on *)

CardsTyped ==
    /\ WellFormed(items) /\ Len(items) <= uses.items
    /\ DOMAIN toolCards \subseteq Calls /\ DOMAIN approvalCards \subseteq Calls
    /\ Range(toolCards) \subseteq 1..MaxItems /\ Range(approvalCards) \subseteq 1..MaxItems
    /\ pending.item \in 0..Len(items) /\ sel \in 0..MaxItems
    /\ calls \in [Calls -> Call]
    /\ \A m \in inbox : m.kind \in OfCall => m.of \in Calls
    /\ \A m \in inbox : m.kind \in OfTurn => m.of \in Turns

LEMMA Parts ==
    IInv <=> CardsTyped /\ ViewTyped /\ CallsProceed /\ CardsBelong /\ (~stale => Told)
<1>1. IInv => CardsTyped /\ ViewTyped
  BY DEF IInv, TypeOK, Typed, CardsTyped, ViewTyped, View, WellFormed, Items, Ofs
<1>2. CardsTyped /\ ViewTyped => TypeOK /\ Typed
  BY DEF TypeOK, Typed, CardsTyped, ViewTyped, View, WellFormed, Items, Ofs
<1> QED BY <1>1, <1>2 DEF IInv

\* No card changes but that it may be closed, no call proceeds.
Quiet ==
    /\ GoOn(items, items') /\ Len(items') <= uses.items
    /\ UNCHANGED <<toolCards, approvalCards, pending, calls, uses, old>>
    /\ stale => stale'
    /\ turns' \in Nat /\ turns <= turns'
    /\ \A m \in inbox' \ inbox : m.kind \notin OfCall /\ (m.kind \in OfTurn => m.of \in Turns)
    /\ \/ sel' \in {sel, NoId, pending.item}
       \/ sel' \in DOMAIN items /\ Selectable(items, sel')

LEMMA QuietKeeps ==
    ASSUME IInv, Quiet
    PROVE  CardsTyped' /\ CallsProceed' /\ CardsBelong' /\ (~stale' => Told')
<1>1. CardsTyped /\ ViewTyped /\ CallsProceed /\ CardsBelong /\ (~stale => Told)
  BY Parts
<1>2. /\ WellFormed(items) /\ Len(items) \in Nat /\ DOMAIN items = 1..Len(items)
      /\ WellFormed(items') /\ Len(items') \in Nat /\ DOMAIN items' = 1..Len(items')
      /\ Len(items) <= Len(items') /\ DOMAIN items \subseteq DOMAIN items'
  BY <1>1 DEF CardsTyped, Quiet, GoOn, WellFormed
<1>3. uses' = uses /\ uses.items \in 0..MaxItems /\ Len(items) <= uses.items /\ Len(items') <= uses.items
  BY <1>1, UsesAre DEF Quiet, ViewTyped, CardsTyped
<1>4. UNCHANGED <<toolCards, approvalCards, pending, calls, old>>
  BY DEF Quiet
<1>5. \A i \in DOMAIN items :
         /\ items'[i].kind = items[i].kind /\ items'[i].of = items[i].of /\ items'[i].link = items[i].link
         /\ \/ items'[i].state = items[i].state
            \/ items[i].kind = "text" /\ items[i].state = "streaming"
            \/ items[i].kind = "tool" /\ items[i].state = "running" /\ items'[i].state = "cancelled"
  BY DEF Quiet, GoOn
<1>6. \A i \in DOMAIN items' \ DOMAIN items : items'[i].kind \notin {"tool", "approval"} /\ items'[i].link = NoId
  BY DEF Quiet, GoOn
<1>7. \A m \in inbox' : m.kind \in OfCall => m \in inbox
  BY DEF Quiet
<1>8. CardsTyped'
  <2>1. sel' \in 0..MaxItems
    BY <1>1, <1>2, <1>3, TuiAssumption DEF Quiet, CardsTyped, NoId
  <2>2. pending'.item \in 0..Len(items')
    BY <1>1, <1>2, <1>4 DEF CardsTyped
  <2>3. \A m \in inbox' : m.kind \in OfTurn => m.of \in Turns
    BY <1>1 DEF Quiet, CardsTyped
  <2>4. \A m \in inbox' : m.kind \in OfCall => m.of \in Calls
    BY <1>1, <1>7 DEF CardsTyped
  <2> QED BY <1>1, <1>2, <1>3, <1>4, <2>1, <2>2, <2>3, <2>4 DEF CardsTyped
<1>9. CallsProceed'
  <2>1. \A c \in Calls : /\ calls[c].stage # "none" => calls[c].turn \in 1..turns'
                         /\ calls[c].answer # "unresolved" => calls[c].stage \in {"answered", "ended"}
    BY <1>1 DEF CallsProceed, Quiet, ViewTyped
  <2> QED BY <1>1, <1>4, <1>7, <2>1 DEF CallsProceed, OfCall
<1>10. \A i \in DOMAIN items' : items'[i].kind \in {"tool", "approval"} => i \in DOMAIN items
  BY <1>6
<1>11. CardsBelong'
  <2>1. \A i \in DOMAIN items' :
         /\ items'[i].kind = "tool" => items'[i].of \in Calls /\ calls[items'[i].of].stage # "none"
         /\ items'[i].kind = "approval" =>
              items'[i].of \in Calls /\ calls[items'[i].of].stage \in {"asking", "answered", "ended"}
    BY <1>1, <1>5, <1>10 DEF CardsBelong
  <2>2. \A i, j \in DOMAIN items' :
         items'[i].kind = "approval" /\ items'[j].kind = "approval" /\ items'[i].of = items'[j].of => i = j
    BY <1>1, <1>5, <1>10 DEF CardsBelong
  <2>3. \A m \in inbox' : m.kind = "request" =>
         \A i \in DOMAIN items' : items'[i].kind = "approval" => items'[i].of # m.of
    BY <1>1, <1>5, <1>7, <1>10 DEF CardsBelong, OfCall
  <2>4. \A c \in DOMAIN toolCards :
         /\ calls[c].stage # "none"
         /\ calls[c].turn > old => /\ toolCards[c] \in DOMAIN items'
                                   /\ items'[toolCards[c]].kind = "tool" /\ items'[toolCards[c]].of = c
    BY <1>1, <1>2, <1>5 DEF CardsBelong
  <2>5. \A c \in DOMAIN approvalCards :
         /\ calls[c].stage # "none"
         /\ calls[c].turn > old => /\ approvalCards[c] \in DOMAIN items'
                                   /\ items'[approvalCards[c]].kind = "approval"
                                   /\ items'[approvalCards[c]].of = c
    BY <1>1, <1>2, <1>5 DEF CardsBelong
  <2>6. pending.item # NoId => pending.item \in DOMAIN items
    BY <1>1, <1>2 DEF CardsTyped, NoId
  <2>7. pending.item # NoId =>
         items'[pending.item].kind = "approval" /\ items'[pending.item].of = pending.id
    BY <1>1, <1>5, <2>6 DEF CardsBelong
  <2> QED BY <1>4, <2>1, <2>2, <2>3, <2>4, <2>5, <2>7 DEF CardsBelong
<1>12. ASSUME ~stale' PROVE Told'
  <2>1. Told
    BY <1>1, <1>12, <1>1 DEF Quiet, ViewTyped
  <2>2. \A i \in DOMAIN items' : ToolTells(i)'
    BY <1>4, <1>5, <1>10, <2>1 DEF Told, ToolTells
  <2>3. \A i \in DOMAIN items' : ApprovalTells(i)'
    BY <1>4, <1>5, <1>10, <2>1 DEF Told, ApprovalTells
  <2>4. \A i \in DOMAIN items' : Linked(i)'
    <3> TAKE i \in DOMAIN items'
    <3>1. CASE i \notin DOMAIN items
      BY <1>6, <3>1 DEF Linked
    <3>2. CASE i \in DOMAIN items
      <4>1. Linked(i)
        BY <2>1, <3>2 DEF Told
      <4>2. items'[i].kind = items[i].kind /\ items'[i].of = items[i].of /\ items'[i].link = items[i].link
        BY <1>5, <3>2
      <4>3. \A j \in DOMAIN items : /\ items'[j].kind = items[j].kind /\ items'[j].of = items[j].of
                                    /\ items'[j].link = items[j].link
        BY <1>5
      <4> QED BY <1>2, <4>1, <4>2, <4>3 DEF Linked
    <3> QED BY <3>1, <3>2
  <2>5. pending.item # NoId => pending.item \in DOMAIN items /\ items[pending.item].kind = "approval"
                               /\ items[pending.item].state = "unresolved"
    BY <1>1, <1>2, <2>1 DEF CardsTyped, CardsBelong, Told, PendingWaits, NoId
  <2>6. PendingWaits'
    BY <1>4, <1>5, <2>5 DEF PendingWaits
  <2>7. \A i \in DOMAIN items : Selectable(items, i) => Selectable(items', i)
    BY <1>5 DEF Selectable, Folded
  <2>8. sel' # NoId => sel' \in DOMAIN items /\ Selectable(items, sel')
    <3>1. pending.item # NoId => Selectable(items, pending.item)
      BY <2>5 DEF Selectable, Folded
    <3> QED BY <2>1, <2>5, <3>1 DEF Quiet, Told, CursorSelects
  <2>9. CursorSelects'
    BY <1>2, <2>7, <2>8 DEF CursorSelects
  <2>10. GrantsShown'
    BY <1>5, <1>7, <1>10, <2>1 DEF Told, GrantsShown, OfCall
  <2> QED BY <2>2, <2>3, <2>4, <2>6, <2>9, <2>10 DEF Told
<1> QED BY <1>8, <1>9, <1>11, <1>12

\* What is appended without a card.
LEMMA Plain ==
    /\ Notice \in Items /\ Notice.state \in States[Notice.kind]
       /\ Notice.kind \notin {"tool", "approval"} /\ Notice.link = NoId
    /\ Error \in Items /\ Error.state \in States[Error.kind]
       /\ Error.kind \notin {"tool", "approval"} /\ Error.link = NoId
    /\ LET it == Item("user", NoId, "shown")
       IN  it \in Items /\ it.state \in States[it.kind]
           /\ it.kind \notin {"tool", "approval"} /\ it.link = NoId
    /\ \A v \in Turns : LET it == Item("text", v, "streaming")
                        IN  it \in Items /\ it.state \in States[it.kind]
                            /\ it.kind \notin {"tool", "approval"} /\ it.link = NoId
BY ItemIs, StatesAre, OfsAre DEF Notice, Error

LEMMA ItemsGoOn ==
    ASSUME CardsTyped, ViewTyped
    PROVE  /\ GoOn(items, items)
           /\ \A it \in {Notice, Error, Item("user", NoId, "shown")}
                          \cup {Item("text", v, "streaming") : v \in Turns} :
                /\ GoOn(items, Append(items, it)) /\ Len(Append(items, it)) = Len(items) + 1
                /\ GoOn(items, EndStreams(Append(items, it), "done"))
                /\ Len(EndStreams(Append(items, it), "done")) = Len(items) + 1
           /\ GoOn(items, EndStreams(items, "done")) /\ Len(EndStreams(items, "done")) = Len(items)
           /\ GoOn(items, EndStreams(CancelCards(items), "cancelled"))
           /\ Len(EndStreams(CancelCards(items), "cancelled")) = Len(items)
<1>1. WellFormed(items) /\ Len(items) \in Nat /\ DOMAIN items = 1..Len(items)
  BY DEF CardsTyped, WellFormed
<1>2. GoOn(items, items)
  BY <1>1, GoOnSame
<1>3. ASSUME NEW it \in {Notice, Error, Item("user", NoId, "shown")}
                          \cup {Item("text", v, "streaming") : v \in Turns}
      PROVE  /\ GoOn(items, Append(items, it)) /\ Len(Append(items, it)) = Len(items) + 1
             /\ GoOn(items, EndStreams(Append(items, it), "done"))
             /\ Len(EndStreams(Append(items, it), "done")) = Len(items) + 1
  <2>1. it \in Items /\ it.state \in States[it.kind] /\ it.kind \notin {"tool", "approval"} /\ it.link = NoId
    BY <1>3, Plain
  <2> DEFINE new == Append(items, it)
  <2>2. WellFormed(new) /\ GoOn(items, new)
    BY <1>1, <2>1, GoOnAppend
  <2>3. Len(new) = Len(items) + 1 /\ DOMAIN new = 1..Len(new) /\ Len(new) \in Nat
    BY <1>1
  <2> HIDE DEF new
  <2>4. GoOn(new, EndStreams(new, "done"))
    BY <2>2, GoOnStreams
  <2>5. GoOn(items, EndStreams(new, "done"))
    BY <1>1, <2>2, <2>4, GoOnTwice
  <2>6. Len(EndStreams(new, "done")) = Len(new)
    BY <2>3, StreamsEnd
  <2> QED BY <2>2, <2>3, <2>5, <2>6 DEF new
<1>4. GoOn(items, EndStreams(items, "done")) /\ Len(EndStreams(items, "done")) = Len(items)
  BY <1>1, GoOnStreams, StreamsEnd
<1>5. WellFormed(CancelCards(items)) /\ GoOn(items, CancelCards(items))
      /\ Len(CancelCards(items)) = Len(items) /\ DOMAIN CancelCards(items) = 1..Len(items)
  BY <1>1, GoOnCancel, StreamsEnd
<1>6. GoOn(CancelCards(items), EndStreams(CancelCards(items), "cancelled"))
      /\ Len(EndStreams(CancelCards(items), "cancelled")) = Len(items)
  BY <1>1, <1>5, GoOnStreams, StreamsEnd
<1>7. GoOn(items, EndStreams(CancelCards(items), "cancelled"))
  BY <1>1, <1>5, <1>6, GoOnTwice
<1> QED BY <1>2, <1>3, <1>4, <1>6, <1>7

LEMMA QuietTakes ==
    ASSUME CardsTyped, ViewTyped, NEW m \in inbox,
           \/ TakesDelta(m) \/ TakesComplete(m) \/ TakesTurnError(m) \/ TakesCancelled(m)
           \/ TakesError(m) \/ TakesNotice(m) \/ TakesCompacted(m)
           \/ TakesNewFailed(m) \/ DropsDiff(m) \/ TakesDiff(m)
    PROVE  Quiet
<1>1. Take(m) /\ calls' = calls /\ turns' = turns /\ pending' = pending
      /\ UNCHANGED <<toolCards, approvalCards, sel>>
  BY DEF TakesDelta, TakesComplete, TakesTurnError, TakesCancelled, TakesError, TakesNotice,
         TakesCompacted, TakesNewFailed, DropsDiff, TakesDiff, Keeps, asked, app, cards
<1>2. UNCHANGED <<uses, old>> /\ (stale => stale') /\ inbox' \subseteq inbox
  BY <1>1 DEF Take, ViewTyped
<1>3. turns' \in Nat /\ turns <= turns'
  BY <1>1 DEF ViewTyped
<1>4. GoOn(items, items') /\ Len(items') <= uses.items => Quiet
  BY <1>1, <1>2, <1>3 DEF Quiet
<1>5. Len(items) <= uses.items /\ Len(items) \in Nat /\ uses.items \in Nat
  BY UsesAre DEF CardsTyped, WellFormed, ViewTyped
<1> DEFINE N == {Notice, Error, Item("user", NoId, "shown")}
                  \cup {Item("text", v, "streaming") : v \in Turns}
<1>6. \A it \in N : Len(items) < uses.items =>
           /\ GoOn(items, Append(items, it)) /\ Len(Append(items, it)) <= uses.items
           /\ GoOn(items, EndStreams(Append(items, it), "done"))
           /\ Len(EndStreams(Append(items, it), "done")) <= uses.items
  BY <1>5, ItemsGoOn
<1>7. Notice \in N /\ Error \in N /\ (m.of \in Turns => Item("text", m.of, "streaming") \in N)
  OBVIOUS
<1> HIDE DEF N
<1>8. \A it \in N : Append1(it) => Quiet
  BY <1>4, <1>6 DEF Append1
<1>9. GoOn(items, items)
  BY ItemsGoOn
<1>10. CASE TakesDelta(m)
  <2>1. CASE m.of \in DOMAIN textBlocks
    BY <1>4, <1>5, <1>9, <1>10, <2>1 DEF TakesDelta
  <2>2. CASE m.of \notin DOMAIN textBlocks
    <3>1. m.of \in Turns
      BY <1>10 DEF TakesDelta, CardsTyped, OfTurn
    <3> QED BY <1>7, <1>8, <1>10, <2>2, <3>1 DEF TakesDelta
  <2> QED BY <2>1, <2>2
<1>11. CASE TakesComplete(m)
  BY <1>4, <1>5, <1>11, ItemsGoOn DEF TakesComplete
<1>12. CASE TakesTurnError(m)
  BY <1>4, <1>6, <1>7, <1>12 DEF TakesTurnError
<1>13. CASE TakesCancelled(m)
  BY <1>4, <1>5, <1>9, <1>13, ItemsGoOn DEF TakesCancelled, CancelTurn
<1>14. CASE TakesError(m) \/ TakesNotice(m) \/ TakesCompacted(m) \/ TakesNewFailed(m)
  BY <1>7, <1>8, <1>14 DEF TakesError, TakesNotice, TakesCompacted, TakesNewFailed
<1>15. CASE DropsDiff(m)
  BY <1>4, <1>5, <1>9, <1>15 DEF DropsDiff, cards
<1>16. CASE TakesDiff(m)
  BY <1>4, <1>5, <1>6, <1>7, <1>9, <1>16 DEF TakesDiff
<1> QED BY <1>10, <1>11, <1>12, <1>13, <1>14, <1>15, <1>16

LEMMA QuietKeys ==
    ASSUME CardsTyped, ViewTyped, Keys,
           ~(\E answer \in States.approval \ {"unresolved"} : Answers(answer))
    PROVE  Quiet
<1>1. UNCHANGED <<toolCards, approvalCards, pending, calls, uses, old, stale>>
  BY DEF Keys, ModalCloses, HelpOpens, DetailOpens, Releases, Declines, Accepts, BrowsesCards,
         Composes, Selects, Scrolls, Repins, Toggles, TypesText, Types, Newline, Pastes, Escapes,
         Submits, RunsNew, RunsCompact, RunsDiff, RunsHelp, RunsApprovals, RunsUnknown,
         Elsewhere, KeepsApp, cards, asked, app, ghosts
<1>2. \A m \in inbox' \ inbox : m.kind \notin OfCall \cup OfTurn
  <2>1. \A of : /\ Message("new", NoId, "shown").kind \notin OfCall \cup OfTurn
                /\ Message("compacted", NoId, "shown").kind \notin OfCall \cup OfTurn
                /\ Message("diff", of, "shown").kind \notin OfCall \cup OfTurn
    BY DEF Message, OfCall, OfTurn
  <2>2. CASE RunsNew \/ RunsCompact \/ RunsDiff
    BY <2>1, <2>2 DEF RunsNew, RunsCompact, RunsDiff, Send
  <2>3. CASE ~(RunsNew \/ RunsCompact \/ RunsDiff)
    <3>1. inbox' = inbox
      BY <2>3
         DEF Keys, ModalCloses, HelpOpens, DetailOpens, Releases, Declines, Accepts, BrowsesCards,
             Composes, Selects, Scrolls, Repins, Toggles, TypesText, Types, Newline, Pastes, Escapes,
             Submits, RunsHelp, RunsApprovals, RunsUnknown, Elsewhere, KeepsApp
    <3> QED BY <3>1
  <2> QED BY <2>2, <2>3
<1>3. turns' \in Nat /\ turns <= turns'
  <2>1. turns' = turns \/ turns' = turns + 1
    BY DEF Keys, ModalCloses, HelpOpens, DetailOpens, Releases, Declines, Accepts, BrowsesCards,
           Composes, Selects, Scrolls, Repins, Toggles, TypesText, Types, Newline, Pastes, Escapes,
           Submits, RunsNew, RunsCompact, RunsDiff, RunsHelp, RunsApprovals, RunsUnknown,
           Elsewhere, KeepsApp, app
  <2> QED BY <2>1 DEF ViewTyped
<1>4. GoOn(items, items') /\ Len(items') <= uses.items
  <2>1. Len(items) <= uses.items /\ Len(items) \in Nat /\ uses.items \in Nat
    BY UsesAre DEF CardsTyped, WellFormed, ViewTyped
  <2>2. GoOn(items, items) /\ GoOn(items, EndStreams(CancelCards(items), "cancelled"))
        /\ Len(EndStreams(CancelCards(items), "cancelled")) = Len(items)
    BY ItemsGoOn
  <2>3. \A it \in {Notice, Item("user", NoId, "shown")} : Len(items) < uses.items =>
           GoOn(items, Append(items, it)) /\ Len(Append(items, it)) <= uses.items
    BY <2>1, ItemsGoOn
  <2>4. \/ items' = items \/ items' = EndStreams(CancelCards(items), "cancelled")
        \/ Len(items) < uses.items /\ items' = Append(items, Notice)
        \/ Len(items) < uses.items /\ items' = Append(items, Item("user", NoId, "shown"))
    BY DEF Keys, ModalCloses, HelpOpens, DetailOpens, Releases, Declines, Accepts, BrowsesCards,
           Composes, Selects, Scrolls, Repins, Toggles, TypesText, Types, Newline, Pastes, Escapes,
           CancelTurn, Submits, RunsNew, RunsCompact, RunsDiff, RunsHelp, RunsApprovals, RunsUnknown,
           Elsewhere, KeepsApp, cards
  <2> QED BY <2>1, <2>2, <2>3, <2>4
<1>5. \/ sel' \in {sel, NoId, pending.item}
      \/ sel' \in DOMAIN items /\ Selectable(items, sel')
  <2>1. Len(items) \in Nat /\ DOMAIN items = 1..Len(items)
    BY DEF CardsTyped, WellFormed
  <2>2. \A S : S \subseteq 0..Len(items) /\ S # {} => Max(S) \in S
    BY <2>1, MaxIs
  <2>3. LastSelectable(items) \in {NoId} \cup {i \in DOMAIN items : Selectable(items, i)}
    BY <2>1, <2>2 DEF LastSelectable, NoId
  <2>4. Selected \in {sel, NoId} \cup {i \in DOMAIN items : Selectable(items, i)}
    BY <2>3 DEF Selected
  <2>5. CASE BrowsesCards \/ Composes
    BY <2>4, <2>5 DEF BrowsesCards, Composes
  <2>6. CASE Selects
    <3>1. Above # {} => Max(Above) \in Above
      BY <2>1, <2>2 DEF Above
    <3>2. Below # {} => Min(Below) \in Below
      <4>1. Below \subseteq Nat
        BY <2>1 DEF Below
      <4> QED BY <4>1, MinIs
    <3> QED BY <2>6, <3>1, <3>2 DEF Selects, Above, Below
  <2>7. CASE DetailOpens
    BY <2>7 DEF DetailOpens
  <2>8. CASE ~(BrowsesCards \/ Composes \/ Selects \/ DetailOpens)
    BY <2>8
       DEF Keys, ModalCloses, HelpOpens, Releases, Declines, Accepts, Scrolls, Repins, Toggles,
           TypesText, Types, Newline, Pastes, Escapes, Submits, RunsNew, RunsCompact, RunsDiff,
           RunsHelp, RunsApprovals, RunsUnknown, seen
  <2> QED BY <2>5, <2>6, <2>7, <2>8
<1> QED BY <1>1, <1>2, <1>3, <1>4, <1>5 DEF Quiet, ViewTyped

LEMMA QuietWorks ==
    ASSUME CardsTyped, ViewTyped,
           \/ UNCHANGED vars
           \/ \E v \in Turns : \/ Speaks(v)
                               \/ \E out \in {"ok", "error", "cancelled"} : EndsTurn(v, out)
           \/ \E kind \in {"notice", "error"} : Informs(kind)
    PROVE  Quiet
<1>1. UNCHANGED <<cards, pending, sel, turns, calls, uses, old, stale>>
  BY DEF Speaks, EndsTurn, Informs, OnlyApp, asked, seen, ghosts, app, vars
<1>2. \A m \in inbox' \ inbox : m.kind \notin OfCall /\ (m.kind \in OfTurn => m.of \in Turns)
  <2>1. CASE UNCHANGED vars
    BY <2>1 DEF vars
  <2>2. CASE \E v \in Turns : \/ Speaks(v)
                              \/ \E out \in {"ok", "error", "cancelled"} : EndsTurn(v, out)
    BY <2>2 DEF Speaks, EndsTurn, Send, Message, OfCall, OfTurn
  <2>3. CASE \E kind \in {"notice", "error"} : Informs(kind)
    BY <2>3 DEF Informs, Send, Message, OfCall, OfTurn
  <2> QED BY <2>1, <2>2, <2>3
<1>3. GoOn(items, items') /\ Len(items') <= uses.items
  BY <1>1, ItemsGoOn DEF cards, CardsTyped
<1>4. turns' \in Nat /\ turns <= turns'
  BY <1>1 DEF ViewTyped
<1> QED BY <1>1, <1>2, <1>3, <1>4 DEF Quiet, cards
-----------------------------------------------------------------------------
(* Steps of a call: its cards are left as they are *)

Kept == UNCHANGED <<items, toolCards, approvalCards, pending, sel, uses, old, stale, turns>>

\* What is left of the invariant once only the call c and the messages change.
LEMMA CallKeeps ==
    ASSUME IInv, Kept, NEW c \in Calls, NEW m, inbox' = inbox \cup {m},
           m.kind \in OfCall, m.of = c, calls' \in [Calls -> Call],
           \A d \in Calls : d # c => calls'[d] = calls[d],
           CallsProceed',
           \* the cards of the call
           calls'[c].stage # "none" /\ (calls[c].stage # "none" => calls'[c].turn = calls[c].turn),
           calls[c].stage \in {"asking", "answered", "ended"} =>
               calls'[c].stage \in {"asking", "answered", "ended"},
           m.kind = "request" => calls[c].stage \notin {"asking", "answered", "ended"},
           calls[c].stage # "ended", calls'[c].answer = calls[c].answer,
           m.kind # "resolved"
    PROVE  CardsTyped' /\ CardsBelong' /\ (~stale' => Told')
<1>1. CardsTyped /\ ViewTyped /\ CallsProceed /\ CardsBelong /\ (~stale => Told)
  BY Parts
<1>2. UNCHANGED <<items, toolCards, approvalCards, pending, sel, uses, old, stale, turns>>
  BY DEF Kept
<1>3. CardsTyped'
  <2>1. \A n \in inbox' : (n.kind \in OfCall => n.of \in Calls) /\ (n.kind \in OfTurn => n.of \in Turns)
    BY <1>1 DEF CardsTyped, OfCall, OfTurn
  <2> QED BY <1>1, <1>2, <2>1 DEF CardsTyped
<1>4. CardsBelong'
  <2>1. \A i \in DOMAIN items :
         /\ items[i].kind = "tool" => items[i].of \in Calls /\ calls'[items[i].of].stage # "none"
         /\ items[i].kind = "approval" =>
              items[i].of \in Calls /\ calls'[items[i].of].stage \in {"asking", "answered", "ended"}
    BY <1>1 DEF CardsBelong
  <2>2. \A n \in inbox' : n.kind = "request" =>
         \A i \in DOMAIN items : items[i].kind = "approval" => items[i].of # n.of
    BY <1>1 DEF CardsBelong
  <2>3. \A d \in DOMAIN toolCards \cup DOMAIN approvalCards :
            d \in Calls /\ calls'[d].stage # "none" /\ calls'[d].turn = calls[d].turn
    BY <1>1 DEF CardsBelong, CardsTyped
  <2> QED BY <1>1, <1>2, <2>1, <2>2, <2>3 DEF CardsBelong
<1>5. ASSUME ~stale' PROVE Told'
  <2>1. Told
    BY <1>1, <1>2, <1>5
  <2>2. \A i \in DOMAIN items : ToolTells(i)'
    BY <1>1, <1>2, <2>1 DEF Told, ToolTells, CardsBelong
  <2>3. \A i \in DOMAIN items : ApprovalTells(i)'
    BY <1>1, <1>2, <2>1 DEF Told, ApprovalTells, CardsBelong
  <2>4. \A i \in DOMAIN items : Linked(i)'
    BY <1>2, <2>1 DEF Told, Linked
  <2>5. PendingWaits' /\ CursorSelects'
    BY <1>2, <2>1 DEF Told, PendingWaits, CursorSelects, Selectable, Folded
  <2>6. GrantsShown'
    BY <1>2, <2>1 DEF Told, GrantsShown
  <2> QED BY <1>2, <2>2, <2>3, <2>4, <2>5, <2>6 DEF Told
<1> QED BY <1>3, <1>4, <1>5

LEMMA CallIs ==
    Call = [stage : {"none", "running", "asking", "answered", "ended"}, turn : 0..MaxTurns,
            linked : BOOLEAN,
            answer : {"unresolved", "approved", "session", "rejected", "cancelled"},
            out : {"running", "ok", "error", "cancelled"}]
BY StatesAre DEF Call

\* What is under way about a call, by how far it has come.
LEMMA NoneUnderWay ==
    ASSUME CardsTyped, CallsProceed, NEW n \in inbox, n.kind \in OfCall
    PROVE  /\ calls[n.of].stage # "none"
           /\ n.kind = "request" => calls[n.of].stage = "asking" /\ n = Message("request", n.of, "shown")
           /\ n.kind = "resolved" => calls[n.of].stage \in {"answered", "ended"}
           /\ n.kind = "completed" => calls[n.of].stage = "ended"
<1>1. n.of \in Calls
  BY DEF CardsTyped
<1> QED BY <1>1 DEF CallsProceed, OfCall

LEMMA CallSteps ==
    ASSUME IInv,
           \/ \E v \in Turns, c \in Calls, linked \in Links : CallsTool(v, c, linked)
           \/ \E c \in Calls : Asks(c) \/ \E out \in {"ok", "error", "cancelled"} : Completes(c, out)
    PROVE  CardsTyped' /\ CallsProceed' /\ CardsBelong' /\ (~stale' => Told')
<1>1. CardsTyped /\ ViewTyped /\ CallsProceed /\ CardsBelong /\ (~stale => Told)
  BY Parts
<1>2. calls \in [Calls -> Call]
  BY <1>1 DEF CardsTyped
<1>3. /\ \A d \in Calls : /\ calls[d].stage # "none" => calls[d].turn \in 1..turns
                          /\ calls[d].answer # "unresolved" => calls[d].stage \in {"answered", "ended"}
      /\ \A n \in inbox :
         /\ n.kind = "started" => calls[n.of].stage # "none"
         /\ n.kind = "request" => calls[n.of].stage = "asking" /\ n = Message("request", n.of, "shown")
         /\ n.kind = "resolved" => calls[n.of].answer = "session" /\ n.out \in {"session", "approved"}
         /\ n.kind = "completed" => calls[n.of].stage = "ended" /\ n.out = calls[n.of].out
                                    /\ n.out \in Ends
      /\ \A k, n \in inbox : k.kind = "resolved" /\ n.kind = "resolved" /\ k.of = n.of => k = n
  BY <1>1 DEF CallsProceed
<1>4. \A n \in inbox : n.kind \in OfCall => n.of \in Calls
  BY <1>1 DEF CardsTyped
<1>5. Kept
  BY DEF CallsTool, Asks, Completes, OnlyApp, cards, asked, seen, ghosts, Kept
<1>6. turns' = turns
  BY <1>5 DEF Kept
<1>7. CASE \E v \in Turns, c \in Calls, linked \in Links : CallsTool(v, c, linked)
  <2>1. PICK v \in Turns, c \in Calls, linked \in Links : CallsTool(v, c, linked)
    BY <1>7
  <2> DEFINE m == Message("started", c, "shown")
             r == [NoCall EXCEPT !.stage = "running", !.turn = v, !.linked = linked]
  <2>2. m.kind = "started" /\ m.of = c
    BY DEF Message
  <2>3. r \in Call /\ r.stage = "running" /\ r.turn = v /\ r.answer = "unresolved"
    <3>1. NoCall \in Call /\ NoCall.answer = "unresolved"
      BY CallIs, TuiAssumption DEF NoCall
    <3>2. linked \in BOOLEAN /\ v \in 0..MaxTurns
      BY TuiAssumption DEF Turns
    <3> QED BY <3>1, <3>2, CallIs
  <2>4. calls[c].stage = "none" /\ v \in 1..turns /\ inbox' = inbox \cup {m} /\ calls' = [calls EXCEPT ![c] = r]
    BY <1>1, <2>1 DEF CallsTool, Send, ViewTyped
  <2> HIDE DEF m, r
  <2>5. calls' \in [Calls -> Call] /\ calls'[c] = r /\ \A d \in Calls : d # c => calls'[d] = calls[d]
    BY <1>2, <2>3, <2>4
  <2>6. \A n \in inbox : n.kind \in OfCall => n.of # c
    BY <1>1, <2>4, NoneUnderWay
  <2>7. CallsProceed'
    BY <1>3, <1>4, <1>6, <2>2, <2>3, <2>4, <2>5, <2>6 DEF CallsProceed, OfCall
  <2>8. calls[c].answer = "unresolved"
    BY <1>3, <2>4
  <2> QED BY <1>5, <2>2, <2>3, <2>4, <2>5, <2>7, <2>8, CallKeeps DEF OfCall
<1>8. CASE \E c \in Calls : Asks(c)
  <2>1. PICK c \in Calls : Asks(c)
    BY <1>8
  <2> DEFINE m == Message("request", c, "shown")
             r == [calls[c] EXCEPT !.stage = "asking"]
  <2>2. m.kind = "request" /\ m.of = c
    BY DEF Message
  <2>3. r \in Call /\ r.stage = "asking" /\ r.turn = calls[c].turn /\ r.answer = calls[c].answer
    BY <1>2 DEF Call
  <2>4. calls[c].stage = "running" /\ inbox' = inbox \cup {m} /\ calls' = [calls EXCEPT ![c] = r]
    BY <2>1 DEF Asks, Send
  <2>5. m = Message("request", m.of, "shown")
    BY <2>2
  <2> HIDE DEF m, r
  <2>6. calls' \in [Calls -> Call] /\ calls'[c] = r /\ \A d \in Calls : d # c => calls'[d] = calls[d]
    BY <1>2, <2>3, <2>4
  <2>7. \A n \in inbox : n.kind \in OfCall /\ n.kind # "started" => n.of # c
    BY <1>1, <2>4, NoneUnderWay DEF OfCall
  <2>8. calls[c].answer = "unresolved" /\ calls[c].turn \in 1..turns
    BY <1>3, <2>4
  <2>9. CallsProceed'
    BY <1>3, <1>4, <1>6, <2>2, <2>3, <2>4, <2>5, <2>6, <2>7, <2>8 DEF CallsProceed, OfCall
  <2> QED BY <1>5, <2>2, <2>3, <2>4, <2>6, <2>9, CallKeeps DEF OfCall
<1>9. CASE \E c \in Calls : \E out \in {"ok", "error", "cancelled"} : Completes(c, out)
  <2>1. PICK c \in Calls, out \in {"ok", "error", "cancelled"} : Completes(c, out)
    BY <1>9
  <2> DEFINE m == Message("completed", c, out)
             r == [calls[c] EXCEPT !.stage = "ended", !.out = out]
  <2>2. m.kind = "completed" /\ m.of = c /\ m.out = out /\ out \in Ends
    BY DEF Message, Ends
  <2>3. r \in Call /\ r.stage = "ended" /\ r.turn = calls[c].turn /\ r.answer = calls[c].answer /\ r.out = out
    <3>1. calls[c] \in Call
      BY <1>2
    <3> QED BY <3>1, CallIs
  <2>4. calls[c].stage \in {"running", "asking", "answered"} /\ inbox' = inbox \cup {m}
        /\ calls' = [calls EXCEPT ![c] = r] /\ Message("request", c, "shown") \notin inbox
    <3>1. calls' = [calls EXCEPT ![c].stage = "ended", ![c].out = out]
      BY <2>1 DEF Completes
    <3>2. calls' = [calls EXCEPT ![c] = r]
      BY <1>2, <3>1
    <3> QED BY <2>1, <3>2 DEF Completes, Send
  <2> HIDE DEF m, r
  <2>5. calls' \in [Calls -> Call] /\ calls'[c] = r /\ \A d \in Calls : d # c => calls'[d] = calls[d]
    BY <1>2, <2>3, <2>4
  <2>6. \A n \in inbox : n.kind \in {"request", "completed"} => n.of # c
    BY <1>1, <2>4, NoneUnderWay DEF OfCall
  <2>7. calls[c].turn \in 1..turns
    BY <1>3, <2>4
  <2>8. CallsProceed'
    BY <1>3, <1>4, <1>6, <2>2, <2>3, <2>4, <2>5, <2>6, <2>7 DEF CallsProceed, OfCall
  <2> QED BY <1>5, <2>2, <2>3, <2>4, <2>5, <2>8, CallKeeps DEF OfCall
<1> QED BY <1>7, <1>8, <1>9
-----------------------------------------------------------------------------
(* Messages of a call, and the answers of the user *)

\* FinalStays, of one step.
FinalStep ==
    \A i \in DOMAIN items \cap DOMAIN items' :
        Final(items[i]) /\ old' = old /\ ~stale' =>
            \/ items'[i].state = items[i].state
            \/ items[i].state = "session" /\ items'[i].state = "approved"

Keep == CardsTyped' /\ CallsProceed' /\ CardsBelong' /\ (~stale' => Told') /\ FinalStep

LEMMA QuietStays ==
    ASSUME IInv, Quiet
    PROVE  Keep
<1>1. DOMAIN items \cap DOMAIN items' \subseteq DOMAIN items
  OBVIOUS
<1>2. FinalStep
  BY <1>1 DEF FinalStep, Quiet, GoOn, Final
<1> QED BY <1>2, QuietKeeps DEF Keep

LEMMA AppendIs ==
    ASSUME NEW its, WellFormed(its), NEW it \in Items, it.state \in States[it.kind]
    PROVE  /\ WellFormed(Append(its, it)) /\ Len(Append(its, it)) = Len(its) + 1
           /\ Len(its) \in Nat /\ DOMAIN its = 1..Len(its)
           /\ DOMAIN Append(its, it) = DOMAIN its \cup {Len(its) + 1} /\ Len(its) + 1 \notin DOMAIN its
           /\ \A i \in DOMAIN its : Append(its, it)[i] = its[i]
           /\ Append(its, it)[Len(its) + 1] = it
<1> DEFINE new == Append(its, it)
<1>1. /\ new \in Seq(Items) /\ Len(new) = Len(its) + 1 /\ Len(its) \in Nat
      /\ DOMAIN its = 1..Len(its) /\ DOMAIN new = 1..(Len(its) + 1)
      /\ \A i \in DOMAIN its : new[i] = its[i]
      /\ new[Len(its) + 1] = it
  BY DEF WellFormed
<1> HIDE DEF new
<1>2. DOMAIN new = DOMAIN its \cup {Len(its) + 1} /\ Len(its) + 1 \notin DOMAIN its
  BY <1>1
<1>3. \A i \in DOMAIN new : new[i].state \in States[new[i].kind]
  BY <1>1, <1>2 DEF WellFormed
<1> QED BY <1>1, <1>2, <1>3 DEF WellFormed, new

\* new differs from the items in their states alone.
Recast(new) ==
    /\ WellFormed(new) /\ Len(new) = Len(items) /\ DOMAIN new = DOMAIN items
    /\ \A i \in DOMAIN items : /\ new[i].kind = items[i].kind /\ new[i].of = items[i].of
                               /\ new[i].link = items[i].link

LEMMA RecastIs ==
    ASSUME CardsTyped, NEW k, NEW state, k \in DOMAIN items => state \in States[items[k].kind],
           NEW new, new = [i \in DOMAIN items |-> IF i = k THEN [items[i] EXCEPT !.state = state] ELSE items[i]]
    PROVE  /\ Recast(new)
           /\ \A i \in DOMAIN items : i # k => new[i] = items[i]
           /\ k \in DOMAIN items => new[k].state = state
<1>1. Len(items) \in Nat /\ DOMAIN items = 1..Len(items) /\ \A i \in DOMAIN items : items[i] \in Items
  BY DEF CardsTyped, WellFormed
<1>2. DOMAIN new = 1..Len(items) /\ Len(new) = Len(items)
  BY <1>1
<1>3. \A i \in DOMAIN items : i # k => new[i] = items[i]
  OBVIOUS
<1>4. ASSUME k \in DOMAIN items
      PROVE  /\ new[k] \in Items /\ new[k].kind = items[k].kind /\ new[k].of = items[k].of
             /\ new[k].link = items[k].link /\ new[k].state = state
  <2>1. new[k] = [items[k] EXCEPT !.state = state]
    BY <1>4
  <2> QED BY <1>1, <1>4, <2>1, ItemEnds
<1>5. \A i \in DOMAIN items : new[i] \in Items /\ new[i].state \in States[new[i].kind]
  <2> TAKE i \in DOMAIN items
  <2>1. CASE i = k
    BY <1>4, <2>1
  <2>2. CASE i # k
    BY <1>1, <1>3, <2>2 DEF CardsTyped, WellFormed
  <2> QED BY <2>1, <2>2
<1>6. new \in Seq(Items)
  <2>1. new \in [1..Len(items) -> Items]
    BY <1>1, <1>5
  <2> QED BY <1>1, <2>1
<1>7. Recast(new)
  BY <1>1, <1>2, <1>3, <1>4, <1>5, <1>6 DEF Recast, WellFormed
<1> QED BY <1>3, <1>4, <1>7

LEMMA RecastBelongs ==
    ASSUME IInv, Recast(items'), old' = old,
           \A c \in DOMAIN toolCards' : c \in DOMAIN toolCards /\ toolCards'[c] = toolCards[c],
           \A c \in DOMAIN approvalCards' : c \in DOMAIN approvalCards /\ approvalCards'[c] = approvalCards[c],
           pending' = pending \/ pending'.item = NoId,
           \A n \in inbox' : n.kind = "request" => n \in inbox,
           \A d \in Calls :
               /\ calls'[d].turn = calls[d].turn
               /\ calls[d].stage # "none" => calls'[d].stage # "none"
               /\ calls[d].stage \in {"asking", "answered", "ended"} =>
                      calls'[d].stage \in {"asking", "answered", "ended"}
    PROVE  CardsBelong'
<1>1. CardsTyped /\ CardsBelong
  BY Parts
<1>2. DOMAIN items' = DOMAIN items
      /\ \A i \in DOMAIN items : items'[i].kind = items[i].kind /\ items'[i].of = items[i].of
  BY DEF Recast
<1>3. \A i \in DOMAIN items :
         /\ items[i].kind = "tool" => items[i].of \in Calls /\ calls'[items[i].of].stage # "none"
         /\ items[i].kind = "approval" =>
              items[i].of \in Calls /\ calls'[items[i].of].stage \in {"asking", "answered", "ended"}
  BY <1>1 DEF CardsBelong
<1>4. \A c \in DOMAIN toolCards' :
         /\ calls'[c].stage # "none"
         /\ calls'[c].turn > old => /\ toolCards'[c] \in DOMAIN items
                                    /\ items[toolCards'[c]].kind = "tool" /\ items[toolCards'[c]].of = c
  BY <1>1 DEF CardsBelong, CardsTyped
<1>5. \A c \in DOMAIN approvalCards' :
         /\ calls'[c].stage # "none"
         /\ calls'[c].turn > old => /\ approvalCards'[c] \in DOMAIN items
                                    /\ items[approvalCards'[c]].kind = "approval"
                                    /\ items[approvalCards'[c]].of = c
  BY <1>1 DEF CardsBelong, CardsTyped
<1>6. pending'.item # NoId =>
         items[pending'.item].kind = "approval" /\ items[pending'.item].of = pending'.id
         /\ pending'.item \in DOMAIN items
  BY <1>1 DEF CardsBelong, CardsTyped, WellFormed, NoId
<1> QED BY <1>1, <1>2, <1>3, <1>4, <1>5, <1>6 DEF CardsBelong

\* What holds of a message of a call that is taken in.
LEMMA TakenIs ==
    ASSUME IInv, NEW m \in inbox, m.kind \in OfCall, Take(m)
    PROVE  /\ inbox' = inbox \ {m} /\ uses' = uses /\ old' = old
           /\ m.of \in Calls /\ calls[m.of].stage # "none"
           /\ ~stale' => ~stale /\ Told /\ calls[m.of].turn > old
<1>1. CardsTyped /\ ViewTyped /\ CallsProceed /\ (~stale => Told)
  BY Parts
<1>2. m.of \in Calls /\ calls[m.of].stage # "none"
  BY <1>1, NoneUnderWay DEF CardsTyped
<1>3. calls[m.of].turn \in 1..turns
  BY <1>1, <1>2 DEF CallsProceed
<1>4. TurnOf(m) = calls[m.of].turn
  BY DEF TurnOf, OfCall
<1>5. stale' = (stale \/ calls[m.of].turn \in 1..old)
  BY <1>4 DEF Take
<1>6. ~stale' => ~stale /\ calls[m.of].turn > old
  <2>1. stale \in BOOLEAN /\ old \in Nat /\ turns \in Nat
    BY <1>1 DEF ViewTyped
  <2>2. ASSUME ~stale' PROVE ~stale /\ calls[m.of].turn \notin 1..old
    BY <1>5, <2>1, <2>2
  <2>3. calls[m.of].turn \notin 1..old => calls[m.of].turn > old
    BY <1>3, <2>1
  <2> QED BY <2>2, <2>3
<1> QED BY <1>1, <1>2, <1>6 DEF Take

\* The messages left, and the calls, are as they were.
LEMMA MessagesLeft ==
    ASSUME CardsTyped, CallsProceed, calls' = calls, turns' = turns, inbox' \subseteq inbox
    PROVE  /\ CallsProceed'
           /\ \A n \in inbox' : (n.kind \in OfCall => n.of \in Calls) /\ (n.kind \in OfTurn => n.of \in Turns)
BY DEF CardsTyped, CallsProceed

LEMMA StartedKeeps ==
    ASSUME IInv, NEW m \in inbox, TakesStarted(m)
    PROVE  Keep
<1>1. CardsTyped /\ ViewTyped /\ CallsProceed /\ CardsBelong /\ (~stale => Told)
  BY Parts
<1>2. m.kind \in OfCall /\ Take(m)
  BY DEF TakesStarted, OfCall
<1>3. /\ inbox' = inbox \ {m} /\ uses' = uses /\ old' = old
      /\ m.of \in Calls /\ calls[m.of].stage # "none"
      /\ ~stale' => ~stale /\ Told /\ calls[m.of].turn > old
  BY <1>2, TakenIs
<1>4. UNCHANGED <<approvalCards, pending, calls, turns, sel>>
  BY DEF TakesStarted, Keeps, asked, app
<1> DEFINE it == Item("tool", m.of, "running")
<1>5. it \in Items /\ it.kind = "tool" /\ it.of = m.of /\ it.state = "running" /\ it.link = NoId
      /\ it.state \in States[it.kind]
  BY <1>3, ItemIs, StatesAre, OfsAre
<1>6. items' = Append(items, it) /\ Len(items) < uses.items
  BY DEF TakesStarted, Append1
<1> HIDE DEF it
<1>7. PICK k : k = Len(items) + 1
  OBVIOUS
<1>8. /\ WellFormed(items') /\ Len(items') = Len(items) + 1 /\ Len(items) \in Nat
      /\ DOMAIN items = 1..Len(items) /\ DOMAIN items' = DOMAIN items \cup {k} /\ k \notin DOMAIN items
      /\ \A i \in DOMAIN items : items'[i] = items[i]
      /\ items'[k] = it
  BY <1>1, <1>5, <1>6, <1>7, AppendIs DEF CardsTyped
<1>9. uses.items \in 0..MaxItems /\ k \in 1..MaxItems /\ Len(items') <= uses.items
  <2>1. uses.items \in 0..MaxItems
    BY <1>1, UsesAre DEF ViewTyped
  <2> QED BY <1>6, <1>7, <1>8, <2>1, TuiAssumption
<1>10. /\ DOMAIN toolCards' = DOMAIN toolCards \cup {m.of} /\ toolCards'[m.of] = k
       /\ \A c \in DOMAIN toolCards : c # m.of => toolCards'[c] = toolCards[c]
       /\ \A S : Range(toolCards) \subseteq S /\ k \in S => Range(toolCards') \subseteq S
  <2>1. toolCards' = Put(toolCards, m.of, k)
    BY <1>7 DEF TakesStarted
  <2>2. DOMAIN toolCards' = DOMAIN toolCards \cup {m.of} /\ toolCards'[m.of] = k
    BY <2>1 DEF Put
  <2>3. \A c \in DOMAIN toolCards : c # m.of => toolCards'[c] = toolCards[c]
    BY <2>1 DEF Put
  <2>4. \A S : Range(toolCards) \subseteq S /\ k \in S => Range(toolCards') \subseteq S
    BY <2>1, Ranges
  <2> QED BY <2>2, <2>3, <2>4
<1>11. CallsProceed' /\ \A n \in inbox' : (n.kind \in OfCall => n.of \in Calls) /\ (n.kind \in OfTurn => n.of \in Turns)
  BY <1>1, <1>3, <1>4, MessagesLeft
<1>12. CardsTyped'
  <2>1. DOMAIN toolCards' \subseteq Calls /\ Range(toolCards') \subseteq 1..MaxItems
    BY <1>1, <1>3, <1>9, <1>10 DEF CardsTyped
  <2>2. pending'.item \in 0..Len(items')
    BY <1>1, <1>4, <1>8 DEF CardsTyped
  <2> QED BY <1>1, <1>3, <1>4, <1>8, <1>9, <1>11, <2>1, <2>2 DEF CardsTyped
<1>13. CardsBelong'
  <2>1. \A i \in DOMAIN items' :
         /\ items'[i].kind = "tool" => items'[i].of \in Calls /\ calls[items'[i].of].stage # "none"
         /\ items'[i].kind = "approval" =>
              items'[i].of \in Calls /\ calls[items'[i].of].stage \in {"asking", "answered", "ended"}
    BY <1>1, <1>3, <1>5, <1>8 DEF CardsBelong
  <2>2. \A i \in DOMAIN items' : items'[i].kind = "approval" => i \in DOMAIN items /\ items'[i] = items[i]
    BY <1>5, <1>8
  <2>3. \A c \in DOMAIN toolCards' :
         /\ calls[c].stage # "none"
         /\ calls[c].turn > old => /\ toolCards'[c] \in DOMAIN items'
                                   /\ items'[toolCards'[c]].kind = "tool" /\ items'[toolCards'[c]].of = c
    <3> TAKE c \in DOMAIN toolCards'
    <3>1. CASE c = m.of
      BY <1>3, <1>5, <1>8, <1>10, <3>1
    <3>2. CASE c # m.of
      <4>1. c \in DOMAIN toolCards /\ toolCards'[c] = toolCards[c]
        BY <1>10, <3>2
      <4> QED BY <1>1, <1>8, <4>1 DEF CardsBelong
    <3> QED BY <3>1, <3>2
  <2>4. \A c \in DOMAIN approvalCards :
         /\ calls[c].stage # "none"
         /\ calls[c].turn > old => /\ approvalCards[c] \in DOMAIN items'
                                   /\ items'[approvalCards[c]].kind = "approval"
                                   /\ items'[approvalCards[c]].of = c
    BY <1>1, <1>8 DEF CardsBelong
  <2>5. pending.item # NoId =>
          items'[pending.item].kind = "approval" /\ items'[pending.item].of = pending.id
    BY <1>1, <1>8 DEF CardsBelong, CardsTyped, NoId
  <2>6. \A i, j \in DOMAIN items' :
         items'[i].kind = "approval" /\ items'[j].kind = "approval" /\ items'[i].of = items'[j].of => i = j
    BY <1>1, <2>2 DEF CardsBelong
  <2>7. \A n \in inbox' : n.kind = "request" =>
         \A i \in DOMAIN items' : items'[i].kind = "approval" => items'[i].of # n.of
    BY <1>1, <1>3, <2>2 DEF CardsBelong
  <2> QED BY <1>3, <1>4, <2>1, <2>3, <2>4, <2>5, <2>6, <2>7 DEF CardsBelong
<1>14. ASSUME ~stale' PROVE Told'
  <2>1. Told
    BY <1>3, <1>14
  <2>2. \A i \in DOMAIN items : ToolTells(i) /\ ApprovalTells(i) /\ Linked(i)
    BY <2>1 DEF Told
  <2>3. \A i \in DOMAIN items' : ToolTells(i)' /\ ApprovalTells(i)'
    BY <1>4, <1>5, <1>8, <2>2 DEF ToolTells, ApprovalTells
  <2>4. \A i \in DOMAIN items' : Linked(i)'
    BY <1>5, <1>8, <2>2 DEF Linked
  <2>5. PendingWaits'
    BY <1>1, <1>4, <1>8, <2>1 DEF Told, PendingWaits, CardsTyped, NoId
  <2>6. CursorSelects'
    BY <1>4, <1>8, <2>1 DEF Told, CursorSelects, Selectable
  <2>7. GrantsShown'
    BY <1>3, <1>5, <1>8, <2>1 DEF Told, GrantsShown
  <2> QED BY <2>3, <2>4, <2>5, <2>6, <2>7 DEF Told
<1>15. FinalStep
  BY <1>8 DEF FinalStep
<1> QED BY <1>11, <1>12, <1>13, <1>14, <1>15 DEF Keep

\* A call whose card is found.
LEMMA CompletedKeeps ==
    ASSUME IInv, NEW m \in inbox, TakesCompleted(m), m.of \in DOMAIN toolCards
    PROVE  Keep
<1>1. CardsTyped /\ ViewTyped /\ CallsProceed /\ CardsBelong /\ (~stale => Told)
  BY Parts
<1>2. m.kind \in OfCall /\ Take(m) /\ m.kind = "completed"
  BY DEF TakesCompleted, OfCall
<1>3. /\ inbox' = inbox \ {m} /\ uses' = uses /\ old' = old
      /\ m.of \in Calls /\ calls[m.of].stage # "none"
      /\ ~stale' => ~stale /\ Told /\ calls[m.of].turn > old
  BY <1>2, TakenIs
<1>4. UNCHANGED <<approvalCards, pending, calls, turns>>
  BY DEF TakesCompleted, Keeps, asked, app
<1>5. PICK k : k = toolCards[m.of]
  OBVIOUS
<1>6. k \in 1..MaxItems
  BY <1>1, <1>5 DEF CardsTyped, Range
<1>7. calls[m.of].stage = "ended" /\ m.out = calls[m.of].out /\ m.out \in Ends
  BY <1>1, <1>2 DEF CallsProceed
<1>8. PICK h : h = IF Mutable(k) THEN k ELSE NoId
  OBVIOUS
<1>9. items' = [i \in DOMAIN items |-> IF i = h THEN [items[i] EXCEPT !.state = m.out] ELSE items[i]]
      /\ sel' = k
  <2>1. DOMAIN items = 1..Len(items)
    BY <1>1 DEF CardsTyped, WellFormed
  <2>2. \A i \in DOMAIN items : i = h <=> i = k /\ Mutable(i)
    BY <1>8, <2>1 DEF NoId
  <2>3. items' = [i \in DOMAIN items |-> IF i = toolCards[m.of] /\ Mutable(i)
                                        THEN [items[i] EXCEPT !.state = m.out] ELSE items[i]]
    BY DEF TakesCompleted
  <2>4. sel' = k
    BY <1>5 DEF TakesCompleted
  <2> QED BY <1>5, <2>2, <2>3, <2>4
<1>10. h \in DOMAIN items => items[h].kind = "tool" /\ items[h].state = "running" /\ h = k
  BY <1>1, <1>8 DEF Mutable, CardsTyped, WellFormed, NoId
<1>11. Recast(items') /\ (\A i \in DOMAIN items : i # h => items'[i] = items[i])
       /\ (h \in DOMAIN items => items'[h].state = m.out)
  <2>1. h \in DOMAIN items => m.out \in States[items[h].kind]
    BY <1>7, <1>10, StatesAre DEF Ends
  <2> QED BY <1>1, <1>9, <2>1, RecastIs
<1>12. /\ WellFormed(items') /\ Len(items') = Len(items) /\ DOMAIN items' = DOMAIN items
       /\ \A i \in DOMAIN items : /\ items'[i].kind = items[i].kind /\ items'[i].of = items[i].of
                                  /\ items'[i].link = items[i].link
  BY <1>11 DEF Recast
<1>13. /\ DOMAIN toolCards' \subseteq DOMAIN toolCards
       /\ \A c \in DOMAIN toolCards' : toolCards'[c] = toolCards[c]
  <2>1. toolCards' = Drop(toolCards, m.of)
    BY DEF TakesCompleted
  <2> QED BY <2>1 DEF Drop
<1>14. CallsProceed' /\ \A n \in inbox' : (n.kind \in OfCall => n.of \in Calls) /\ (n.kind \in OfTurn => n.of \in Turns)
  BY <1>1, <1>3, <1>4, MessagesLeft
<1>15. CardsTyped'
  <2>1. Range(toolCards') \subseteq 1..MaxItems
    BY <1>1, <1>13 DEF CardsTyped, Range
  <2> QED BY <1>1, <1>3, <1>4, <1>6, <1>9, <1>12, <1>13, <1>14, <2>1 DEF CardsTyped
<1>16. CardsBelong'
  BY <1>3, <1>4, <1>11, <1>13, RecastBelongs
<1>17. ASSUME ~stale' PROVE Told'
  <2>1. Told /\ calls[m.of].turn > old
    BY <1>3, <1>17
  <2>2. k \in DOMAIN items /\ items[k].kind = "tool" /\ items[k].of = m.of
    BY <1>1, <1>5, <2>1 DEF CardsBelong
  <2>3. \A i \in DOMAIN items : ToolTells(i) /\ ApprovalTells(i) /\ Linked(i)
    BY <2>1 DEF Told
  <2>4. \A i \in DOMAIN items' : ToolTells(i)'
    BY <1>4, <1>7, <1>10, <1>11, <1>12, <2>2, <2>3 DEF ToolTells
  <2>5. \A i \in DOMAIN items' : ApprovalTells(i)'
    BY <1>4, <1>10, <1>11, <1>12, <2>3 DEF ApprovalTells
  <2>6. \A i \in DOMAIN items' : Linked(i)'
    BY <1>12, <2>3 DEF Linked
  <2>7. PendingWaits'
    BY <1>1, <1>4, <1>10, <1>11, <1>12, <2>1 DEF Told, PendingWaits, CardsTyped, CardsBelong, NoId, WellFormed
  <2>8. CursorSelects'
    BY <1>9, <1>12, <2>2 DEF CursorSelects, Selectable, Folded
  <2>9. GrantsShown'
    BY <1>3, <1>10, <1>11, <1>12, <2>1 DEF Told, GrantsShown
  <2> QED BY <2>4, <2>5, <2>6, <2>7, <2>8, <2>9 DEF Told
<1>18. FinalStep
  BY <1>10, <1>11, <1>12 DEF FinalStep, Final
<1> QED BY <1>14, <1>15, <1>16, <1>17, <1>18 DEF Keep

\* A call without a card is given one.
LEMMA LateCardKeeps ==
    ASSUME IInv, NEW m \in inbox, TakesCompleted(m), m.of \notin DOMAIN toolCards
    PROVE  Keep
<1>1. CardsTyped /\ ViewTyped /\ CallsProceed /\ CardsBelong /\ (~stale => Told)
  BY Parts
<1>2. m.kind \in OfCall /\ Take(m) /\ m.kind = "completed"
  BY DEF TakesCompleted, OfCall
<1>3. /\ inbox' = inbox \ {m} /\ uses' = uses /\ old' = old
      /\ m.of \in Calls /\ calls[m.of].stage # "none"
      /\ ~stale' => ~stale /\ Told /\ calls[m.of].turn > old
  BY <1>2, TakenIs
<1>4. UNCHANGED <<approvalCards, pending, calls, turns>>
  BY DEF TakesCompleted, Keeps, asked, app
<1>5. calls[m.of].stage = "ended" /\ m.out = calls[m.of].out /\ m.out \in Ends
  BY <1>1, <1>2 DEF CallsProceed
<1> DEFINE it == Item("tool", m.of, m.out)
<1>6. it \in Items /\ it.kind = "tool" /\ it.of = m.of /\ it.state = m.out /\ it.link = NoId
      /\ it.state \in States[it.kind]
  <2>1. m.out \in States["tool"]
    BY <1>5, StatesAre DEF Ends
  <2> QED BY <1>3, <2>1, ItemIs, StatesAre, OfsAre
<1>7. items' = Append(items, it) /\ Len(items) < uses.items /\ sel' = Len(items) + 1
  BY DEF TakesCompleted, Append1
<1> HIDE DEF it
<1>8. PICK k : k = Len(items) + 1
  OBVIOUS
<1>9. /\ WellFormed(items') /\ Len(items') = Len(items) + 1 /\ Len(items) \in Nat
      /\ DOMAIN items = 1..Len(items) /\ DOMAIN items' = DOMAIN items \cup {k} /\ k \notin DOMAIN items
      /\ \A i \in DOMAIN items : items'[i] = items[i]
      /\ items'[k] = it
  BY <1>1, <1>6, <1>7, <1>8, AppendIs DEF CardsTyped
<1>10. uses.items \in 0..MaxItems /\ k \in 1..MaxItems /\ Len(items') <= uses.items /\ sel' = k
  <2>1. uses.items \in 0..MaxItems
    BY <1>1, UsesAre DEF ViewTyped
  <2> QED BY <1>7, <1>8, <1>9, <2>1, TuiAssumption
<1>11. toolCards' = Drop(toolCards, m.of) /\ m.of \notin DOMAIN toolCards
  BY DEF TakesCompleted
<1>12. /\ DOMAIN toolCards' \subseteq DOMAIN toolCards
       /\ \A c \in DOMAIN toolCards' : toolCards'[c] = toolCards[c]
  BY <1>11 DEF Drop
<1>13. CallsProceed' /\ \A n \in inbox' : (n.kind \in OfCall => n.of \in Calls) /\ (n.kind \in OfTurn => n.of \in Turns)
  BY <1>1, <1>3, <1>4, MessagesLeft
<1>14. CardsTyped'
  <2>1. Range(toolCards') \subseteq 1..MaxItems
    BY <1>1, <1>12 DEF CardsTyped, Range
  <2>2. pending'.item \in 0..Len(items') /\ sel' \in 0..MaxItems
    BY <1>1, <1>4, <1>9, <1>10 DEF CardsTyped
  <2> QED BY <1>1, <1>3, <1>4, <1>9, <1>10, <1>12, <1>13, <2>1, <2>2 DEF CardsTyped
<1>15. CardsBelong'
  <2>1. \A i \in DOMAIN items' :
         /\ items'[i].kind = "tool" => items'[i].of \in Calls /\ calls[items'[i].of].stage # "none"
         /\ items'[i].kind = "approval" =>
              items'[i].of \in Calls /\ calls[items'[i].of].stage \in {"asking", "answered", "ended"}
    BY <1>1, <1>3, <1>6, <1>9 DEF CardsBelong
  <2>2. \A i \in DOMAIN items' : items'[i].kind = "approval" => i \in DOMAIN items /\ items'[i] = items[i]
    BY <1>6, <1>9
  <2>3. \A c \in DOMAIN toolCards' :
         /\ calls[c].stage # "none"
         /\ calls[c].turn > old => /\ toolCards'[c] \in DOMAIN items'
                                   /\ items'[toolCards'[c]].kind = "tool" /\ items'[toolCards'[c]].of = c
    BY <1>1, <1>9, <1>12 DEF CardsBelong
  <2>4. \A c \in DOMAIN approvalCards :
         /\ calls[c].stage # "none"
         /\ calls[c].turn > old => /\ approvalCards[c] \in DOMAIN items'
                                   /\ items'[approvalCards[c]].kind = "approval"
                                   /\ items'[approvalCards[c]].of = c
    BY <1>1, <1>9 DEF CardsBelong
  <2>5. pending.item # NoId =>
          items'[pending.item].kind = "approval" /\ items'[pending.item].of = pending.id
    BY <1>1, <1>9 DEF CardsBelong, CardsTyped, NoId
  <2>6. \A i, j \in DOMAIN items' :
         items'[i].kind = "approval" /\ items'[j].kind = "approval" /\ items'[i].of = items'[j].of => i = j
    BY <1>1, <2>2 DEF CardsBelong
  <2>7. \A n \in inbox' : n.kind = "request" =>
         \A i \in DOMAIN items' : items'[i].kind = "approval" => items'[i].of # n.of
    BY <1>1, <1>3, <2>2 DEF CardsBelong
  <2> QED BY <1>3, <1>4, <2>1, <2>3, <2>4, <2>5, <2>6, <2>7 DEF CardsBelong
<1>16. ASSUME ~stale' PROVE Told'
  <2>1. Told
    BY <1>3, <1>16
  <2>2. \A i \in DOMAIN items : ToolTells(i) /\ ApprovalTells(i) /\ Linked(i)
    BY <2>1 DEF Told
  <2>3. \A i \in DOMAIN items' : ToolTells(i)' /\ ApprovalTells(i)'
    BY <1>4, <1>5, <1>6, <1>9, <2>2 DEF ToolTells, ApprovalTells
  <2>4. \A i \in DOMAIN items' : Linked(i)'
    BY <1>6, <1>9, <2>2 DEF Linked
  <2>5. PendingWaits'
    BY <1>1, <1>4, <1>9, <2>1 DEF Told, PendingWaits, CardsTyped, NoId
  <2>6. CursorSelects'
    BY <1>6, <1>9, <1>10 DEF CursorSelects, Selectable, Folded
  <2>7. GrantsShown'
    BY <1>3, <1>6, <1>9, <2>1 DEF Told, GrantsShown
  <2> QED BY <2>3, <2>4, <2>5, <2>6, <2>7 DEF Told
<1>17. FinalStep
  BY <1>9 DEF FinalStep
<1> QED BY <1>13, <1>14, <1>15, <1>16, <1>17 DEF Keep

\* A transcript with the two cards linked.
LEMMA LinkIs ==
    ASSUME NEW its, WellFormed(its), NEW k \in DOMAIN its, NEW t \in DOMAIN its, k # t,
           k \in 0..MaxItems, t \in 0..MaxItems,
           NEW new, new = [i \in DOMAIN its |-> new[i]], DOMAIN new = DOMAIN its,
           new[t] = [its[t] EXCEPT !.link = k], new[k] = [its[k] EXCEPT !.link = t],
           \A i \in DOMAIN its : i \notin {k, t} => new[i] = its[i]
    PROVE  /\ WellFormed(new) /\ Len(new) = Len(its) /\ DOMAIN new = DOMAIN its
           /\ \A i \in DOMAIN its : /\ new[i].kind = its[i].kind /\ new[i].of = its[i].of
                                    /\ new[i].state = its[i].state
                                    /\ i \notin {k, t} => new[i].link = its[i].link
           /\ new[t].link = k /\ new[k].link = t
<1>1. Len(its) \in Nat /\ DOMAIN its = 1..Len(its) /\ \A i \in DOMAIN its : its[i] \in Items
  BY DEF WellFormed
<1>2. /\ DOMAIN new = 1..Len(its) /\ Len(new) = Len(its)
      /\ new[t] = [its[t] EXCEPT !.link = k] /\ new[k] = [its[k] EXCEPT !.link = t]
      /\ \A i \in DOMAIN its : i \notin {k, t} => new[i] = its[i]
      /\ new = [i \in 1..Len(its) |-> new[i]]
  <2>1. new = [i \in 1..Len(its) |-> new[i]]
    BY <1>1
  <2> QED BY <1>1, <2>1
<1>3. /\ new[t] \in Items /\ new[t].kind = its[t].kind /\ new[t].of = its[t].of
      /\ new[t].state = its[t].state /\ new[t].link = k
  <2>1. its[t] \in Items
    BY <1>1
  <2>2. new[t] = [its[t] EXCEPT !.link = k]
    BY <1>2
  <2> QED BY <2>1, <2>2 DEF Items
<1>4. /\ new[k] \in Items /\ new[k].kind = its[k].kind /\ new[k].of = its[k].of
      /\ new[k].state = its[k].state /\ new[k].link = t
  <2>1. its[k] \in Items
    BY <1>1
  <2>2. new[k] = [its[k] EXCEPT !.link = t]
    BY <1>2
  <2> QED BY <2>1, <2>2 DEF Items
<1>5. \A i \in DOMAIN its : new[i] \in Items /\ new[i].kind = its[i].kind /\ new[i].state = its[i].state
  <2> TAKE i \in DOMAIN its
  <2> QED BY <1>1, <1>2, <1>3, <1>4
<1>6. new \in Seq(Items)
  <2>1. new \in [1..Len(its) -> Items]
    BY <1>1, <1>2, <1>5
  <2> QED BY <1>1, <2>1
<1>7. \A i \in DOMAIN new : new[i].state \in States[new[i].kind]
  BY <1>1, <1>2, <1>5 DEF WellFormed
<1> QED BY <1>1, <1>2, <1>3, <1>4, <1>6, <1>7 DEF WellFormed

LEMMA RequestKeeps ==
    ASSUME IInv, NEW m \in inbox, TakesRequest(m)
    PROVE  Keep
<1>1. CardsTyped /\ ViewTyped /\ CallsProceed /\ CardsBelong /\ (~stale => Told)
  BY Parts
<1>2. m.kind \in OfCall /\ Take(m) /\ m.kind = "request"
  BY DEF TakesRequest, OfCall
<1>3. /\ inbox' = inbox \ {m} /\ uses' = uses /\ old' = old
      /\ m.of \in Calls /\ calls[m.of].stage # "none"
      /\ ~stale' => ~stale /\ Told /\ calls[m.of].turn > old
  BY <1>2, TakenIs
<1>4. UNCHANGED <<toolCards, sel, calls, turns>>
  BY DEF TakesRequest, app
<1>5. calls[m.of].stage = "asking" /\ calls[m.of].answer = "unresolved" /\ m = Message("request", m.of, "shown")
  BY <1>1, <1>2, <1>3 DEF CallsProceed
<1> DEFINE it  == Item("approval", m.of, "unresolved")
           new == Append(items, it)
<1>6. it \in Items /\ it.kind = "approval" /\ it.of = m.of /\ it.state = "unresolved" /\ it.link = NoId
      /\ it.state \in States[it.kind]
  BY <1>3, ItemIs, StatesAre, OfsAre
<1>7. PICK k : k = Len(items) + 1
  OBVIOUS
<1>8. PICK t : t = IF calls[m.of].linked /\ m.of \in DOMAIN toolCards /\ Mutable(toolCards[m.of])
                   THEN toolCards[m.of] ELSE NoId
  OBVIOUS
<1>9. /\ DOMAIN items = 1..Len(items) /\ Len(items) \in Nat
      /\ t # NoId => /\ t = toolCards[m.of] /\ m.of \in DOMAIN toolCards
                     /\ t \in DOMAIN items /\ items[t].kind = "tool" /\ items[t].state = "running"
  <2>1. DOMAIN items = 1..Len(items) /\ Len(items) \in Nat
    BY <1>1 DEF CardsTyped, WellFormed
  <2> QED BY <1>8, <2>1 DEF Mutable
<1>10. /\ WellFormed(new) /\ Len(new) = Len(items) + 1
       /\ DOMAIN new = DOMAIN items \cup {k} /\ k \notin DOMAIN items
       /\ \A i \in DOMAIN items : new[i] = items[i]
       /\ new[k] = it
  <2>1. WellFormed(items)
    BY <1>1 DEF CardsTyped
  <2> HIDE DEF it
  <2> QED BY <1>6, <1>7, <2>1, AppendIs
<1>11. uses.items \in 0..MaxItems /\ k \in 1..MaxItems /\ k <= uses.items
  <2>1. uses.items \in 0..MaxItems
    BY <1>1, UsesAre DEF ViewTyped
  <2>2. k <= uses.items
    BY <1>7 DEF TakesRequest
  <2> QED BY <1>7, <1>9, <2>1, <2>2, TuiAssumption
<1>12. items' = IF t # NoId THEN [new EXCEPT ![t].link = k, ![k].link = t] ELSE new
  <2>1. items' = IF calls[m.of].linked /\ m.of \in DOMAIN toolCards
                 THEN LinkCards(new, k, toolCards[m.of]) ELSE new
    BY <1>7 DEF TakesRequest
  <2>2. Mutable(toolCards[m.of]) => toolCards[m.of] # NoId
    BY <1>9 DEF Mutable, NoId
  <2> HIDE DEF new
  <2>3. LinkCards(new, k, toolCards[m.of]) =
            IF Mutable(toolCards[m.of])
            THEN [new EXCEPT ![toolCards[m.of]].link = k, ![k].link = toolCards[m.of]] ELSE new
    BY DEF LinkCards
  <2> QED BY <1>8, <2>1, <2>2, <2>3
<1>13. /\ WellFormed(items') /\ Len(items') = Len(items) + 1 /\ DOMAIN items' = DOMAIN items \cup {k}
       /\ \A i \in DOMAIN items : /\ items'[i].kind = items[i].kind /\ items'[i].of = items[i].of
                                  /\ items'[i].state = items[i].state
                                  /\ i # t => items'[i].link = items[i].link
       /\ items'[k].kind = "approval" /\ items'[k].of = m.of /\ items'[k].state = "unresolved"
       /\ items'[k].link = t
       /\ t # NoId => items'[t].link = k
  <2> HIDE DEF new, it
  <2>1. CASE t = NoId
    BY <1>6, <1>9, <1>10, <1>12, <2>1 DEF NoId
  <2>2. CASE t # NoId
    <3>1. t \in DOMAIN new /\ k \in DOMAIN new /\ k # t /\ k \in 0..MaxItems /\ t \in 0..MaxItems
      BY <1>1, <1>9, <1>10, <1>11, <2>2 DEF CardsTyped, Range
    <3>2. items' = [new EXCEPT ![t].link = k, ![k].link = t]
      BY <1>12, <2>2
    <3>3. /\ WellFormed(items') /\ Len(items') = Len(new) /\ DOMAIN items' = DOMAIN new
          /\ \A i \in DOMAIN new : /\ items'[i].kind = new[i].kind /\ items'[i].of = new[i].of
                                   /\ items'[i].state = new[i].state
                                   /\ i \notin {k, t} => items'[i].link = new[i].link
          /\ items'[t].link = k /\ items'[k].link = t
      <4>1. WellFormed(new)
        BY <1>10
      <4>2. PICK a : a = new
        OBVIOUS
      <4>3. PICK b : b = [a EXCEPT ![t].link = k]
        OBVIOUS
      <4>4. PICK w : w = [b EXCEPT ![k].link = t]
        OBVIOUS
      <4>5. DOMAIN b = DOMAIN a /\ b[t] = [a[t] EXCEPT !.link = k]
            /\ \A i \in DOMAIN a : i # t => b[i] = a[i]
        BY <3>1, <4>2, <4>3
      <4>6. /\ w = [i \in DOMAIN a |-> w[i]] /\ DOMAIN w = DOMAIN a
            /\ w[t] = [a[t] EXCEPT !.link = k] /\ w[k] = [a[k] EXCEPT !.link = t]
            /\ \A i \in DOMAIN a : i \notin {k, t} => w[i] = a[i]
        BY <3>1, <4>2, <4>4, <4>5
      <4>7. items' = w
        BY <3>2, <4>2, <4>3, <4>4
      <4> QED BY <3>1, <4>1, <4>2, <4>6, <4>7, LinkIs
    <3> QED BY <1>6, <1>10, <3>3
  <2> QED BY <2>1, <2>2
<1> HIDE DEF new, it
<1>14. pending'.item = k /\ pending'.id = m.of
  BY <1>7 DEF TakesRequest
<1>15. /\ DOMAIN approvalCards' = DOMAIN approvalCards \cup {m.of} /\ approvalCards'[m.of] = k
       /\ \A c \in DOMAIN approvalCards : c # m.of => approvalCards'[c] = approvalCards[c]
       /\ \A S : Range(approvalCards) \subseteq S /\ k \in S => Range(approvalCards') \subseteq S
  <2>1. approvalCards' = Put(approvalCards, m.of, k)
    BY <1>7 DEF TakesRequest
  <2>2. DOMAIN approvalCards' = DOMAIN approvalCards \cup {m.of} /\ approvalCards'[m.of] = k
    BY <2>1 DEF Put
  <2>3. \A c \in DOMAIN approvalCards : c # m.of => approvalCards'[c] = approvalCards[c]
    BY <2>1 DEF Put
  <2>4. \A S : Range(approvalCards) \subseteq S /\ k \in S => Range(approvalCards') \subseteq S
    BY <2>1, Ranges
  <2> QED BY <2>2, <2>3, <2>4
<1>16. CallsProceed' /\ \A n \in inbox' : (n.kind \in OfCall => n.of \in Calls) /\ (n.kind \in OfTurn => n.of \in Turns)
  BY <1>1, <1>3, <1>4, MessagesLeft
<1>17. CardsTyped'
  <2>1. DOMAIN approvalCards' \subseteq Calls /\ Range(approvalCards') \subseteq 1..MaxItems
    BY <1>1, <1>3, <1>11, <1>15 DEF CardsTyped
  <2>2. pending'.item \in 0..Len(items') /\ Len(items') <= uses.items
    BY <1>7, <1>9, <1>11, <1>13, <1>14
  <2> QED BY <1>1, <1>3, <1>4, <1>13, <1>16, <2>1, <2>2 DEF CardsTyped
\* No card of the request was there.
<1>18. \A i \in DOMAIN items : items[i].kind = "approval" => items[i].of # m.of
  BY <1>1, <1>2 DEF CardsBelong
<1>19. \A i \in DOMAIN items' : i # k => i \in DOMAIN items
  BY <1>13
<1>20. CardsBelong'
  <2>1. \A i \in DOMAIN items' :
         /\ items'[i].kind = "tool" => items'[i].of \in Calls /\ calls[items'[i].of].stage # "none"
         /\ items'[i].kind = "approval" =>
              items'[i].of \in Calls /\ calls[items'[i].of].stage \in {"asking", "answered", "ended"}
    BY <1>1, <1>3, <1>5, <1>13 DEF CardsBelong
  <2>2. \A c \in DOMAIN toolCards :
         /\ calls[c].stage # "none"
         /\ calls[c].turn > old => /\ toolCards[c] \in DOMAIN items'
                                   /\ items'[toolCards[c]].kind = "tool" /\ items'[toolCards[c]].of = c
    BY <1>1, <1>13 DEF CardsBelong
  <2>3. \A c \in DOMAIN approvalCards' :
         /\ calls[c].stage # "none"
         /\ calls[c].turn > old => /\ approvalCards'[c] \in DOMAIN items'
                                   /\ items'[approvalCards'[c]].kind = "approval"
                                   /\ items'[approvalCards'[c]].of = c
    <3> TAKE c \in DOMAIN approvalCards'
    <3>1. CASE c = m.of
      BY <1>3, <1>13, <1>15, <3>1
    <3>2. CASE c # m.of
      BY <1>1, <1>13, <1>15, <3>2 DEF CardsBelong
    <3> QED BY <3>1, <3>2
  <2>4. \A i, j \in DOMAIN items' :
         items'[i].kind = "approval" /\ items'[j].kind = "approval" /\ items'[i].of = items'[j].of => i = j
    <3>1. \A i \in DOMAIN items : items'[i].kind = "approval" => items'[i].of # m.of
      BY <1>13, <1>18
    <3>2. \A i, j \in DOMAIN items :
         items'[i].kind = "approval" /\ items'[j].kind = "approval" /\ items'[i].of = items'[j].of => i = j
      BY <1>1, <1>13 DEF CardsBelong
    <3> QED BY <1>13, <1>19, <3>1, <3>2
  <2>5. \A n \in inbox' : n.kind = "request" =>
         \A i \in DOMAIN items' : items'[i].kind = "approval" => items'[i].of # n.of
    <3> SUFFICES ASSUME NEW n \in inbox', n.kind = "request"
                 PROVE  \A i \in DOMAIN items' : items'[i].kind = "approval" => items'[i].of # n.of
      OBVIOUS
    <3>1. n \in inbox /\ n # m
      BY <1>3
    <3>2. n = Message("request", n.of, "shown")
      BY <1>1, <3>1 DEF CallsProceed
    <3>3. n.of # m.of
      BY <1>5, <3>1, <3>2
    <3>4. \A i \in DOMAIN items : items[i].kind = "approval" => items[i].of # n.of
      BY <1>1, <3>1 DEF CardsBelong
    <3> QED BY <1>13, <1>19, <3>3, <3>4
  <2> QED BY <1>3, <1>4, <1>13, <1>14, <2>1, <2>2, <2>3, <2>4, <2>5 DEF CardsBelong
<1>21. ASSUME ~stale' PROVE Told'
  <2>1. Told /\ calls[m.of].turn > old
    BY <1>3, <1>21
  <2>2. \A i \in DOMAIN items : ToolTells(i) /\ ApprovalTells(i) /\ Linked(i)
    BY <2>1 DEF Told
  <2>3. \A i \in DOMAIN items' : ToolTells(i)'
    BY <1>4, <1>13, <2>2 DEF ToolTells
  <2>4. \A i \in DOMAIN items' : ApprovalTells(i)'
    BY <1>4, <1>5, <1>13, <2>2 DEF ApprovalTells
  \* The tool card had no approval card, and no card named it.
  <2>5. t # NoId => items[t].of = m.of
    BY <1>1, <1>9, <2>1 DEF CardsBelong
  <2>6. t # NoId => items[t].link = NoId
    BY <1>9, <1>18, <2>2, <2>5 DEF Linked
  <2>7. \A i \in DOMAIN items : items[i].link # NoId => items[i].link # t
    BY <1>9, <2>2, <2>6 DEF Linked, NoId
  <2>8. \A i \in DOMAIN items' : Linked(i)'
    <3> TAKE i \in DOMAIN items'
    <3>1. CASE i = k
      <4>1. CASE t = NoId
        BY <1>13, <3>1, <4>1 DEF Linked
      <4>2. CASE t # NoId
        BY <1>9, <1>13, <2>5, <3>1, <4>2 DEF Linked
      <4> QED BY <4>1, <4>2
    <3>2. CASE i # k /\ i = t
      <4>1. t # NoId
        BY <1>9, <1>19, <3>2 DEF NoId
      <4>2. items'[i].link = k
        BY <1>13, <3>2, <4>1
      <4>3. items'[i].kind = "tool" /\ items'[i].of = m.of
        BY <1>9, <1>13, <2>5, <3>2, <4>1
      <4> QED BY <1>13, <3>2, <4>2, <4>3 DEF Linked
    <3>3. CASE i # k /\ i # t
      <4>1. i \in DOMAIN items /\ Linked(i) /\ items'[i].link = items[i].link
        BY <1>13, <1>19, <2>2, <3>3
      <4>2. ASSUME items[i].link # NoId PROVE items[i].link # t
        BY <2>7, <4>1, <4>2
      <4> QED BY <1>13, <4>1, <4>2 DEF Linked
    <3> QED BY <3>1, <3>2, <3>3
  <2>9. PendingWaits'
    BY <1>13, <1>14 DEF PendingWaits
  <2>10. CursorSelects'
    <3>1. \A i \in DOMAIN items : Selectable(items, i) => Selectable(items', i)
      <4> SUFFICES ASSUME NEW i \in DOMAIN items, Selectable(items, i) PROVE Selectable(items', i)
        OBVIOUS
      <4>1. CASE i = t
        BY <1>9, <1>13, <4>1 DEF Selectable, Folded, NoId
      <4>2. CASE i # t
        BY <1>13, <4>2 DEF Selectable, Folded
      <4> QED BY <4>1, <4>2
    <3> QED BY <1>4, <1>13, <2>1, <3>1 DEF Told, CursorSelects
  <2>11. GrantsShown'
    <3>1. \A n \in inbox : n.kind = "resolved" => n.of # m.of
      BY <1>1, <1>5 DEF CallsProceed
    <3> QED BY <1>3, <1>13, <1>19, <2>1, <3>1 DEF Told, GrantsShown
  <2> QED BY <2>3, <2>4, <2>8, <2>9, <2>10, <2>11 DEF Told
<1>22. FinalStep
  BY <1>13 DEF FinalStep
<1> QED BY <1>16, <1>17, <1>20, <1>21, <1>22 DEF Keep

LEMMA ResolvedKeeps ==
    ASSUME IInv, NEW m \in inbox, TakesResolved(m)
    PROVE  Keep
<1>1. CardsTyped /\ ViewTyped /\ CallsProceed /\ CardsBelong /\ (~stale => Told)
  BY Parts
<1>2. m.kind \in OfCall /\ Take(m) /\ m.kind = "resolved"
  BY DEF TakesResolved, OfCall
<1>3. /\ inbox' = inbox \ {m} /\ uses' = uses /\ old' = old
      /\ m.of \in Calls /\ calls[m.of].stage # "none"
      /\ ~stale' => ~stale /\ Told /\ calls[m.of].turn > old
  BY <1>2, TakenIs
<1>4. UNCHANGED <<toolCards, pending, sel, calls, turns>>
  BY DEF TakesResolved, Keeps, asked, app
<1>5. calls[m.of].answer = "session" /\ m.out \in {"session", "approved"}
  BY <1>1, <1>2 DEF CallsProceed
<1>6. DOMAIN items = 1..Len(items)
  BY <1>1 DEF CardsTyped, WellFormed
<1>7. PICK h : h = IF CardOf(m) \in DOMAIN items /\ items[CardOf(m)].kind = "approval" THEN CardOf(m) ELSE NoId
  OBVIOUS
<1>8. h \in DOMAIN items => /\ items[h].kind = "approval" /\ m.of \in DOMAIN approvalCards
                            /\ h = approvalCards[m.of]
  BY <1>6, <1>7 DEF CardOf, NoId
<1>9. items' = [i \in DOMAIN items |-> IF i = h THEN [items[i] EXCEPT !.state = m.out] ELSE items[i]]
  <2>1. \A i \in DOMAIN items : i = h <=> i = CardOf(m) /\ items[i].kind = "approval"
    BY <1>6, <1>7 DEF NoId
  <2>2. items' = [i \in DOMAIN items |-> IF i = CardOf(m) /\ items[i].kind = "approval"
                                         THEN [items[i] EXCEPT !.state = m.out] ELSE items[i]]
    BY DEF TakesResolved
  <2> QED BY <2>1, <2>2
<1>10. Recast(items') /\ (\A i \in DOMAIN items : i # h => items'[i] = items[i])
       /\ (h \in DOMAIN items => items'[h].state = m.out)
  <2>1. h \in DOMAIN items => m.out \in States[items[h].kind]
    BY <1>5, <1>8, StatesAre
  <2> QED BY <1>1, <1>9, <2>1, RecastIs
<1>11. /\ WellFormed(items') /\ Len(items') = Len(items) /\ DOMAIN items' = DOMAIN items
       /\ \A i \in DOMAIN items : /\ items'[i].kind = items[i].kind /\ items'[i].of = items[i].of
                                  /\ items'[i].link = items[i].link
  BY <1>10 DEF Recast
<1>12. /\ DOMAIN approvalCards' \subseteq DOMAIN approvalCards
       /\ \A c \in DOMAIN approvalCards' : approvalCards'[c] = approvalCards[c]
  <2>1. approvalCards' = Drop(approvalCards, m.of)
    BY DEF TakesResolved
  <2> QED BY <2>1 DEF Drop
<1>13. CallsProceed' /\ \A n \in inbox' : (n.kind \in OfCall => n.of \in Calls) /\ (n.kind \in OfTurn => n.of \in Turns)
  BY <1>1, <1>3, <1>4, MessagesLeft
<1>14. CardsTyped'
  <2>1. Range(approvalCards') \subseteq 1..MaxItems
    BY <1>1, <1>12 DEF CardsTyped, Range
  <2> QED BY <1>1, <1>3, <1>4, <1>11, <1>12, <1>13, <2>1 DEF CardsTyped
<1>15. CardsBelong'
  BY <1>3, <1>4, <1>10, <1>12, RecastBelongs
\* The card is the one of the request, and shows the grant.
<1>16. ~stale' /\ h \in DOMAIN items => items[h].of = m.of /\ items[h].state = "session"
  <2> SUFFICES ASSUME ~stale', h \in DOMAIN items PROVE items[h].of = m.of /\ items[h].state = "session"
    OBVIOUS
  <2>1. Told /\ calls[m.of].turn > old
    BY <1>3
  <2>2. items[h].of = m.of
    BY <1>1, <1>8, <2>1 DEF CardsBelong
  <2> QED BY <1>2, <1>8, <2>1, <2>2 DEF Told, GrantsShown
<1>17. ASSUME ~stale' PROVE Told'
  <2>1. Told /\ calls[m.of].turn > old
    BY <1>3, <1>17
  <2>2. \A i \in DOMAIN items : ToolTells(i) /\ ApprovalTells(i) /\ Linked(i)
    BY <2>1 DEF Told
  <2>3. \A i \in DOMAIN items' : ToolTells(i)'
    BY <1>4, <1>8, <1>10, <1>11, <2>2 DEF ToolTells
  <2>4. \A i \in DOMAIN items' : ApprovalTells(i)'
    BY <1>4, <1>5, <1>10, <1>11, <1>16, <1>17, <2>2 DEF ApprovalTells
  <2>5. \A i \in DOMAIN items' : Linked(i)'
    BY <1>11, <2>2 DEF Linked
  <2>6. PendingWaits'
    <3>1. pending.item # NoId => pending.item \in DOMAIN items /\ items[pending.item].state = "unresolved"
      BY <1>1, <1>6, <2>1 DEF Told, PendingWaits, CardsTyped, NoId
    <3>2. pending.item \in DOMAIN items /\ items[pending.item].state = "unresolved" => pending.item # h
      BY <1>16, <1>17
    <3> QED BY <1>4, <1>10, <3>1, <3>2 DEF PendingWaits
  <2>7. CursorSelects'
    <3>1. \A i \in DOMAIN items : Selectable(items, i) => Selectable(items', i)
      <4> SUFFICES ASSUME NEW i \in DOMAIN items, Selectable(items, i) PROVE Selectable(items', i)
        OBVIOUS
      <4>1. CASE i = h
        <5>1. items[i].link = NoId
          BY <1>8, <1>16, <1>17, <4>1 DEF Selectable, Folded
        <5> QED BY <1>8, <1>11, <4>1, <5>1 DEF Selectable, Folded
      <4>2. CASE i # h
        BY <1>10, <4>2 DEF Selectable, Folded
      <4> QED BY <4>1, <4>2
    <3> QED BY <1>4, <1>11, <2>1, <3>1 DEF Told, CursorSelects
  <2>8. GrantsShown'
    <3> SUFFICES ASSUME NEW n \in inbox', n.kind = "resolved",
                        NEW i \in DOMAIN items', items'[i].kind = "approval", items'[i].of = n.of
                 PROVE  items'[i].state = "session"
      BY DEF GrantsShown
    <3>1. n \in inbox /\ n # m
      BY <1>3
    <3>2. n.of # m.of
      BY <1>1, <1>2, <3>1 DEF CallsProceed
    <3>3. i \in DOMAIN items /\ i # h
      BY <1>11, <1>16, <1>17, <3>2
    <3> QED BY <1>10, <2>1, <3>1, <3>3 DEF Told, GrantsShown
  <2> QED BY <1>11, <2>3, <2>4, <2>5, <2>6, <2>7, <2>8 DEF Told
<1>18. FinalStep
  <2> SUFFICES ASSUME NEW i \in DOMAIN items, ~stale'
               PROVE  \/ items'[i].state = items[i].state
                      \/ items[i].state = "session" /\ items'[i].state = "approved"
    BY DEF FinalStep
  <2>1. CASE i = h
    BY <1>5, <1>10, <1>16, <2>1
  <2>2. CASE i # h
    BY <1>10, <2>2
  <2> QED BY <2>1, <2>2
<1> QED BY <1>13, <1>14, <1>15, <1>17, <1>18 DEF Keep

LEMMA NewKeeps ==
    ASSUME IInv, NEW m \in inbox, TakesNewDone(m)
    PROVE  Keep
<1>1. CardsTyped /\ ViewTyped /\ CallsProceed /\ CardsBelong
  BY Parts
<1>2. items' = <<>> /\ sel' = NoId /\ pending'.item = NoId /\ old' = turns /\ inbox' \subseteq inbox
      /\ UNCHANGED <<toolCards, approvalCards, uses, calls, turns>>
  BY DEF TakesNewDone, Reset, app
<1>3. WellFormed(items') /\ Len(items') = 0 /\ DOMAIN items' = {}
  BY <1>2 DEF WellFormed
<1>4. CallsProceed' /\ \A n \in inbox' : (n.kind \in OfCall => n.of \in Calls) /\ (n.kind \in OfTurn => n.of \in Turns)
  BY <1>1, <1>2, MessagesLeft
<1>5. CardsTyped'
  <2>1. uses.items \in 0..MaxItems
    BY <1>1, UsesAre DEF ViewTyped
  <2> QED BY <1>1, <1>2, <1>3, <1>4, <2>1, TuiAssumption DEF CardsTyped, NoId
<1>6. CardsBelong'
  <2>1. \A c \in DOMAIN toolCards \cup DOMAIN approvalCards :
            calls[c].stage # "none" /\ ~(calls[c].turn > turns)
    <3> TAKE c \in DOMAIN toolCards \cup DOMAIN approvalCards
    <3>1. c \in Calls /\ calls[c].stage # "none"
      BY <1>1 DEF CardsTyped, CardsBelong
    <3>2. calls[c].turn \in 1..turns /\ turns \in Nat
      BY <1>1, <3>1 DEF CallsProceed, ViewTyped
    <3> QED BY <3>1, <3>2
  <2> QED BY <1>2, <1>3, <2>1 DEF CardsBelong
<1>7. Told'
  BY <1>2, <1>3 DEF Told, PendingWaits, CursorSelects, GrantsShown
<1>8. FinalStep
  BY <1>3 DEF FinalStep
<1> QED BY <1>4, <1>5, <1>6, <1>7, <1>8 DEF Keep

\* The keys of the card answer the request it shows.
LEMMA AnswersKeep ==
    ASSUME IInv, NEW answer \in States.approval \ {"unresolved"}, Answers(answer)
    PROVE  Keep
<1>1. CardsTyped /\ ViewTyped /\ CallsProceed /\ CardsBelong /\ (~stale => Told)
  BY Parts
<1>2. PICK p : p = pending.item
  OBVIOUS
<1>3. PICK c : c = pending.id
  OBVIOUS
<1>4. p # NoId
  BY <1>2 DEF Answers, Mode
<1>5. DOMAIN items = 1..Len(items) /\ Len(items) \in Nat /\ p \in DOMAIN items /\ items[p] \in Items
  BY <1>1, <1>2, <1>4 DEF CardsTyped, WellFormed, NoId
<1>6. items[p].kind = "approval" /\ items[p].of = c
  BY <1>1, <1>2, <1>3, <1>4 DEF CardsBelong
<1>7. c \in Calls /\ calls[c].stage \in {"asking", "answered", "ended"}
  BY <1>1, <1>5, <1>6 DEF CardsBelong
<1>8. answer \in {"approved", "session", "rejected", "cancelled"}
  BY StatesAre
<1>9. UNCHANGED <<toolCards, uses, old, stale, turns>> /\ pending'.item = NoId
  BY DEF Answers, ghosts
<1>10. Recast(items') /\ (\A i \in DOMAIN items : i # p => items'[i] = items[i]) /\ items'[p].state = answer
  <2>1. items' = [items EXCEPT ![p].state = answer]
    BY <1>2 DEF Answers
  <2>2. items' = [i \in DOMAIN items |-> IF i = p THEN [items[i] EXCEPT !.state = answer] ELSE items[i]]
    BY <1>5, <2>1
  <2>3. answer \in States[items[p].kind]
    BY <1>6, StatesAre
  <2> QED BY <1>1, <1>5, <2>2, <2>3, RecastIs
<1>11. /\ WellFormed(items') /\ Len(items') = Len(items) /\ DOMAIN items' = DOMAIN items
       /\ \A i \in DOMAIN items : /\ items'[i].kind = items[i].kind /\ items'[i].of = items[i].of
                                  /\ items'[i].link = items[i].link
  BY <1>10 DEF Recast
<1>12. /\ DOMAIN approvalCards' \subseteq DOMAIN approvalCards
       /\ \A d \in DOMAIN approvalCards' : approvalCards'[d] = approvalCards[d]
  <2>1. approvalCards' = approvalCards \/ approvalCards' = Drop(approvalCards, pending.id)
    BY DEF Answers
  <2> QED BY <2>1 DEF Drop
<1>13. /\ sel' = IF Folded(items'[p]) /\ sel = p THEN items[p].link ELSE sel
       /\ items[p].link \in 0..MaxItems
  BY <1>2, <1>5 DEF Answers, Items
\* What the answer does to the call and to the messages.
<1>14. /\ calls' \in [Calls -> Call]
       /\ \A d \in Calls : d # c => calls'[d] = calls[d]
       /\ calls'[c].turn = calls[c].turn /\ calls'[c].stage \in {"answered", "ended", calls[c].stage}
       /\ \/ calls' = calls /\ inbox' = inbox /\ calls[c].stage # "asking"
          \/ /\ calls[c].stage = "asking" /\ calls'[c].stage = "answered" /\ calls'[c].answer = answer
             /\ \/ inbox' = inbox
                \/ answer = "session" /\ \E out \in {"session", "approved"} :
                       inbox' = inbox \cup {Message("resolved", c, out)}
  <2>1. calls \in [Calls -> Call] /\ calls[c] \in Call
    BY <1>1, <1>7 DEF CardsTyped
  <2>2. Resolve(c, answer)
    BY <1>3 DEF Answers
  <2>3. CASE calls[c].stage # "asking"
    BY <2>1, <2>2, <2>3 DEF Resolve
  <2>4. CASE calls[c].stage = "asking"
    <3> DEFINE r == [calls[c] EXCEPT !.stage = "answered", !.answer = answer]
    <3>1. r \in Call /\ r.stage = "answered" /\ r.answer = answer /\ r.turn = calls[c].turn
      BY <1>8, <2>1, CallIs
    <3>2. calls' = [calls EXCEPT ![c].stage = "answered", ![c].answer = answer]
      BY <2>2, <2>4 DEF Resolve
    <3>3. calls' = [calls EXCEPT ![c] = r]
      BY <2>1, <3>2
    <3> HIDE DEF r
    <3>4. calls' \in [Calls -> Call] /\ calls'[c] = r /\ \A d \in Calls : d # c => calls'[d] = calls[d]
      BY <1>7, <2>1, <3>1, <3>3
    <3>5. \/ inbox' = inbox
          \/ answer = "session" /\ \E out \in {"session", "approved"} :
                 inbox' = inbox \cup {Message("resolved", c, out)}
      BY <2>2, <2>4 DEF Resolve, Send
    <3> QED BY <2>4, <3>1, <3>4, <3>5
  <2> QED BY <2>3, <2>4
<1>15. \A n \in inbox' : n \in inbox
           \/ (n.kind = "resolved" /\ n.of = c /\ n.out \in {"session", "approved"} /\ answer = "session"
               /\ calls[c].stage = "asking")
  BY <1>14 DEF Message
<1>16. \A n, l \in inbox' : n \notin inbox /\ l \notin inbox => n = l
  BY <1>14
<1>17. \A n \in inbox : /\ n.kind = "request" => n.of # c
                        /\ n.kind \in {"resolved", "completed"} /\ calls[c].stage = "asking" => n.of # c
  <2> TAKE n \in inbox
  <2>1. n.kind = "request" => n.of # c
    BY <1>1, <1>5, <1>6 DEF CardsBelong
  <2>2. n.kind \in {"resolved", "completed"} /\ calls[c].stage = "asking" => n.of # c
    BY <1>1, NoneUnderWay DEF OfCall
  <2> QED BY <2>1, <2>2
<1>18. CallsProceed'
  <2>1. \A d \in Calls : /\ calls[d].stage # "none" => calls[d].turn \in 1..turns
                         /\ calls[d].answer # "unresolved" => calls[d].stage \in {"answered", "ended"}
    BY <1>1 DEF CallsProceed
  <2>2. \A d \in Calls : /\ calls'[d].stage # "none" => calls'[d].turn \in 1..turns'
                         /\ calls'[d].answer # "unresolved" => calls'[d].stage \in {"answered", "ended"}
    <3> TAKE d \in Calls
    <3>1. CASE d # c
      BY <1>9, <1>14, <2>1, <3>1
    <3>2. CASE d = c
      BY <1>7, <1>9, <1>14, <2>1, <3>2
    <3> QED BY <3>1, <3>2
  <2>3. \A n \in inbox' :
         /\ n.kind = "started" => calls'[n.of].stage # "none"
         /\ n.kind = "request" => calls'[n.of].stage = "asking" /\ n = Message("request", n.of, "shown")
         /\ n.kind = "resolved" => calls'[n.of].answer = "session" /\ n.out \in {"session", "approved"}
         /\ n.kind = "completed" => calls'[n.of].stage = "ended" /\ n.out = calls'[n.of].out
                                    /\ n.out \in Ends
    <3> TAKE n \in inbox'
    <3>1. CASE n \notin inbox
      BY <1>14, <1>15, <3>1
    <3>2. CASE n \in inbox
      <4>1. /\ n.kind = "started" => calls[n.of].stage # "none"
            /\ n.kind = "request" => calls[n.of].stage = "asking" /\ n = Message("request", n.of, "shown")
            /\ n.kind = "resolved" => calls[n.of].answer = "session" /\ n.out \in {"session", "approved"}
            /\ n.kind = "completed" => calls[n.of].stage = "ended" /\ n.out = calls[n.of].out
                                       /\ n.out \in Ends
        BY <1>1, <3>2 DEF CallsProceed
      <4>2. n.kind \in OfCall => n.of \in Calls
        BY <1>1, <3>2 DEF CardsTyped
      <4>3. CASE n.of = c
        BY <1>14, <1>17, <3>2, <4>1, <4>3
      <4>4. CASE n.of # c
        BY <1>14, <4>1, <4>2, <4>4 DEF OfCall
      <4> QED BY <4>3, <4>4
    <3> QED BY <3>1, <3>2
  <2>4. \A k, n \in inbox' : k.kind = "resolved" /\ n.kind = "resolved" /\ k.of = n.of => k = n
    <3> SUFFICES ASSUME NEW k \in inbox', NEW n \in inbox', k.kind = "resolved", n.kind = "resolved", k.of = n.of
                 PROVE  k = n
      OBVIOUS
    <3>1. CASE k \in inbox /\ n \in inbox
      BY <1>1, <3>1 DEF CallsProceed
    <3>2. CASE k \notin inbox /\ n \notin inbox
      BY <1>16, <3>2
    <3>3. CASE (k \in inbox) # (n \in inbox)
      BY <1>15, <1>17, <3>3
    <3> QED BY <3>1, <3>2, <3>3
  <2> QED BY <2>2, <2>3, <2>4 DEF CallsProceed
<1>19. CardsTyped'
  <2>1. Range(approvalCards') \subseteq 1..MaxItems
    BY <1>1, <1>12 DEF CardsTyped, Range
  <2>2. sel' \in 0..MaxItems
    BY <1>1, <1>13 DEF CardsTyped
  <2>3. \A n \in inbox' : (n.kind \in OfCall => n.of \in Calls) /\ (n.kind \in OfTurn => n.of \in Turns)
    BY <1>1, <1>7, <1>15 DEF CardsTyped, OfCall, OfTurn
  <2> QED BY <1>1, <1>5, <1>9, <1>11, <1>12, <1>14, <2>1, <2>2, <2>3 DEF CardsTyped, NoId
<1>20. CardsBelong'
  <2>1. \A d \in Calls :
               /\ calls'[d].turn = calls[d].turn
               /\ calls[d].stage # "none" => calls'[d].stage # "none"
               /\ calls[d].stage \in {"asking", "answered", "ended"} =>
                      calls'[d].stage \in {"asking", "answered", "ended"}
    <3> TAKE d \in Calls
    <3> QED BY <1>7, <1>14
  <2>2. \A n \in inbox' : n.kind = "request" => n \in inbox
    BY <1>15
  <2> QED BY <1>9, <1>10, <1>12, <2>1, <2>2, RecastBelongs
<1>21. ~stale' => items[p].state = "unresolved"
  BY <1>1, <1>2, <1>4, <1>9 DEF Told, PendingWaits
<1>22. ASSUME ~stale' PROVE Told'
  <2>1. Told
    BY <1>1, <1>9, <1>22
  <2>2. \A i \in DOMAIN items : ToolTells(i) /\ ApprovalTells(i) /\ Linked(i)
    BY <2>1 DEF Told
  <2>3. \A i \in DOMAIN items' : ToolTells(i)'
    <3> SUFFICES ASSUME NEW i \in DOMAIN items, items[i].kind = "tool" PROVE ToolTells(i)'
      BY <1>11 DEF ToolTells
    <3>1. i # p /\ items'[i] = items[i] /\ items[i].of \in Calls
      BY <1>1, <1>6, <1>10 DEF CardsBelong
    <3>2. \/ items[i].state \in {"running", "cancelled"}
          \/ calls[items[i].of].stage = "ended" /\ items[i].state = calls[items[i].of].out
      BY <2>2 DEF ToolTells
    <3>3. calls[items[i].of].stage = "ended" => calls'[items[i].of] = calls[items[i].of]
      BY <1>14, <3>1
    <3> QED BY <3>1, <3>2, <3>3 DEF ToolTells
  <2>4. \A i \in DOMAIN items : i # p /\ items[i].kind = "approval" => items[i].of # c
    BY <1>1, <1>5, <1>6 DEF CardsBelong
  <2>5. \A i \in DOMAIN items' : ApprovalTells(i)'
    <3> SUFFICES ASSUME NEW i \in DOMAIN items, items[i].kind = "approval" PROVE ApprovalTells(i)'
      BY <1>11 DEF ApprovalTells
    <3>1. CASE i = p
      <4>1. CASE calls[c].stage = "asking"
        BY <1>6, <1>10, <1>11, <1>14, <3>1, <4>1 DEF ApprovalTells
      <4>2. CASE calls[c].stage # "asking"
        <5>1. calls' = calls
          BY <1>14, <4>2
        <5>2. calls[c].answer = "unresolved"
          BY <1>6, <1>21, <1>22, <2>2, <3>1 DEF ApprovalTells
        <5> QED BY <1>6, <1>11, <3>1, <5>1, <5>2 DEF ApprovalTells
      <4> QED BY <4>1, <4>2
    <3>2. CASE i # p
      <4>1. items[i].of \in Calls /\ items[i].of # c /\ items'[i] = items[i]
        BY <1>1, <1>10, <2>4, <3>2 DEF CardsBelong
      <4>2. calls'[items[i].of] = calls[items[i].of]
        BY <1>14, <4>1
      <4> QED BY <2>2, <4>1, <4>2 DEF ApprovalTells
    <3> QED BY <3>1, <3>2
  <2>6. \A i \in DOMAIN items' : Linked(i)'
    BY <1>11, <2>2 DEF Linked
  <2>7. PendingWaits'
    BY <1>9 DEF PendingWaits
  <2>8. CursorSelects'
    <3>1. \A i \in DOMAIN items : i # p => (Selectable(items, i) => Selectable(items', i))
      BY <1>10 DEF Selectable
    <3>2. CASE sel # p
      BY <1>11, <1>13, <2>1, <3>1, <3>2 DEF Told, CursorSelects
    <3>3. CASE sel = p /\ ~Folded(items'[p])
      BY <1>5, <1>6, <1>11, <1>13, <3>3 DEF CursorSelects, Selectable
    <3>4. CASE sel = p /\ Folded(items'[p])
      <4>1. sel' = items[p].link /\ items[p].link # NoId
        BY <1>5, <1>11, <1>13, <3>4 DEF Folded
      <4>2. sel' \in DOMAIN items /\ items[sel'].kind = "tool"
        BY <1>5, <1>6, <2>2, <4>1 DEF Linked
      <4> QED BY <1>11, <4>2 DEF CursorSelects, Selectable, Folded
    <3> QED BY <3>2, <3>3, <3>4
  <2>9. GrantsShown'
    <3> SUFFICES ASSUME NEW n \in inbox', n.kind = "resolved",
                        NEW i \in DOMAIN items, items[i].kind = "approval", items[i].of = n.of
                 PROVE  items'[i].state = "session"
      BY <1>11 DEF GrantsShown
    <3>1. CASE n \in inbox
      <4>1. items[i].state = "session"
        BY <2>1, <3>1 DEF Told, GrantsShown
      <4>2. i # p
        BY <1>21, <1>22, <4>1
      <4> QED BY <1>10, <4>1, <4>2
    <3>2. CASE n \notin inbox
      <4>1. n.of = c /\ answer = "session"
        BY <1>15, <3>2
      <4>2. i = p
        BY <2>4, <4>1
      <4> QED BY <1>10, <4>1, <4>2
    <3> QED BY <3>1, <3>2
  <2> QED BY <1>11, <2>3, <2>5, <2>6, <2>7, <2>8, <2>9 DEF Told
<1>23. FinalStep
  <2> SUFFICES ASSUME NEW i \in DOMAIN items, ~stale', Final(items[i])
               PROVE  items'[i].state = items[i].state
    BY DEF FinalStep
  <2>1. i # p
    BY <1>21 DEF Final
  <2> QED BY <1>10, <2>1
<1> QED BY <1>18, <1>19, <1>20, <1>22, <1>23 DEF Keep
-----------------------------------------------------------------------------
(* The invariant *)

LEMMA Starts ==
    ASSUME Init
    PROVE  IInv
<1>1. items = <<>> /\ Len(items) = 0 /\ DOMAIN items = {} /\ WellFormed(items)
  <2>1. items = <<>>
    BY DEF Init
  <2> QED BY <2>1 DEF WellFormed
<1>2. /\ DOMAIN toolCards = {} /\ DOMAIN approvalCards = {} /\ DOMAIN textBlocks = {}
      /\ Range(toolCards) = {} /\ Range(approvalCards) = {} /\ Range(textBlocks) = {}
  BY DEF Init, Nothing, Range
<1>3. calls \in [Calls -> Call] /\ \A c \in Calls : calls[c].stage = "none" /\ calls[c].answer = "unresolved"
  <2>1. NoCall \in Call /\ NoCall.stage = "none" /\ NoCall.answer = "unresolved"
    BY CallIs, TuiAssumption DEF NoCall
  <2> QED BY <2>1 DEF Init
<1>4. uses \in Uses /\ uses.items \in 0..MaxItems
  BY UsesAre DEF Init
<1>5. CardsTyped
  <2>1. pending.item = NoId /\ sel = NoId /\ inbox = {}
    BY DEF Init
  <2> QED BY <1>1, <1>2, <1>3, <1>4, <2>1, TuiAssumption DEF CardsTyped, NoId
<1>6. ViewTyped
  <2>1. View(scroll, Len(items))
    BY <1>1 DEF Init, View, AtBottom
  <2>2. modal = FALSE /\ confirm = "none" /\ turns = 0 /\ live = {} /\ old = 0 /\ stale = FALSE
    BY DEF Init
  <2>3. turns \in Nat /\ live \subseteq 1..turns /\ old \in 0..turns
    BY <2>2
  <2>4. modal \in BOOLEAN /\ stale \in BOOLEAN /\ confirm \in {"none", "paste", "grants"}
    BY <2>2
  <2>5. DOMAIN textBlocks \subseteq Turns /\ Range(textBlocks) \subseteq 1..MaxItems
    BY <1>2
  <2> QED BY <1>4, <2>1, <2>3, <2>4, <2>5 DEF ViewTyped
<1>7. CallsProceed
  BY <1>3 DEF Init, CallsProceed
<1>8. CardsBelong
  BY <1>1, <1>2 DEF Init, CardsBelong
<1>9. Told
  BY <1>1 DEF Init, Told, PendingWaits, CursorSelects, GrantsShown
<1> QED BY <1>5, <1>6, <1>7, <1>8, <1>9, Parts

LEMMA StepsKeep ==
    ASSUME IInv, [Next]_vars
    PROVE  Keep
<1>1. CardsTyped /\ ViewTyped
  BY Parts
<1>2. ASSUME NEW m \in inbox,
             \/ TakesStarted(m) \/ TakesCompleted(m) \/ TakesRequest(m) \/ TakesResolved(m)
             \/ TakesDelta(m) \/ TakesComplete(m) \/ TakesTurnError(m) \/ TakesCancelled(m)
             \/ TakesError(m) \/ TakesNotice(m) \/ TakesCompacted(m)
             \/ TakesNewDone(m) \/ TakesNewFailed(m) \/ DropsDiff(m) \/ TakesDiff(m)
      PROVE  Keep
  <2>1. CASE TakesStarted(m)
    BY <2>1, StartedKeeps
  <2>2. CASE TakesCompleted(m)
    BY <2>2, CompletedKeeps, LateCardKeeps
  <2>3. CASE TakesRequest(m)
    BY <2>3, RequestKeeps
  <2>4. CASE TakesResolved(m)
    BY <2>4, ResolvedKeeps
  <2>5. CASE TakesNewDone(m)
    BY <2>5, NewKeeps
  <2>6. CASE \/ TakesDelta(m) \/ TakesComplete(m) \/ TakesTurnError(m) \/ TakesCancelled(m)
             \/ TakesError(m) \/ TakesNotice(m) \/ TakesCompacted(m)
             \/ TakesNewFailed(m) \/ DropsDiff(m) \/ TakesDiff(m)
    BY <1>1, <2>6, QuietTakes, QuietStays
  <2> QED BY <1>2, <2>1, <2>2, <2>3, <2>4, <2>5, <2>6
<1>3. CASE Takes
  BY <1>2, <1>3 DEF Takes
<1>4. CASE Keys
  <2>1. CASE \E answer \in States.approval \ {"unresolved"} : Answers(answer)
    BY <2>1, AnswersKeep
  <2>2. CASE ~(\E answer \in States.approval \ {"unresolved"} : Answers(answer))
    BY <1>1, <1>4, <2>2, QuietKeys, QuietStays
  <2> QED BY <2>1, <2>2
<1>5. CASE \/ \E v \in Turns, c \in Calls, linked \in Links : CallsTool(v, c, linked)
           \/ \E c \in Calls : Asks(c) \/ \E out \in {"ok", "error", "cancelled"} : Completes(c, out)
  <2>1. items' = items /\ old' = old
    BY <1>5 DEF CallsTool, Asks, Completes, OnlyApp, cards, ghosts
  <2>2. FinalStep
    BY <2>1 DEF FinalStep
  <2> QED BY <1>5, <2>2, CallSteps DEF Keep
<1>6. CASE \/ UNCHANGED vars
           \/ \E v \in Turns : \/ Speaks(v)
                               \/ \E out \in {"ok", "error", "cancelled"} : EndsTurn(v, out)
           \/ \E kind \in {"notice", "error"} : Informs(kind)
  BY <1>1, <1>6, QuietWorks, QuietStays
<1> QED BY <1>3, <1>4, <1>5, <1>6 DEF Next, Works

LEMMA Stays ==
    ASSUME IInv, [Next]_vars
    PROVE  IInv' /\ FinalStep
<1>1. (CardsTyped /\ ViewTyped /\ CallsProceed /\ CardsBelong /\ (~stale => Told))'
  BY StepsKeep, ViewStep DEF Keep
<1>2. (IInv <=> CardsTyped /\ ViewTyped /\ CallsProceed /\ CardsBelong /\ (~stale => Told))'
  BY Parts, PTL
<1> QED BY <1>1, <1>2, StepsKeep DEF Keep

\* Whatever the order of messages, keys and answers: every card belongs to a
\* call that has come so far, and unless a message of an earlier session was
\* taken in, it tells of that call.
THEOREM TuiInvariant == Spec => []IInv
<1>1. Init => IInv
  BY Starts
<1>2. IInv /\ [Next]_vars => IInv'
  BY Stays
<1> QED BY <1>1, <1>2, PTL DEF Spec
-----------------------------------------------------------------------------
(* What follows *)

\* The maps and the cursor name items: Model's maps and m.sel.
THEOREM TuiTypeCorrect == Spec => []TypeOK
<1>1. IInv => TypeOK
  BY DEF IInv
<1> QED BY <1>1, TuiInvariant, PTL

\* A card tells of its own call: toolCards, approvalCards, receiveApprovalRequest,
\* resolveApproval, whatever messages cross the keys.
THEOREM CardsTellOfTheirCalls == Spec => []CardsTell
<1>1. IInv => CardsTell
  <2> SUFFICES ASSUME IInv, ~stale PROVE CardsTell
    BY DEF CardsTell
  <2>1. CardsTyped /\ CardsBelong /\ Told
    BY Parts
  <2>2. ASSUME NEW i \in DOMAIN items
        PROVE  LET it == items[i] c == calls[it.of]
               IN  /\ it.kind = "tool" =>
                        it.state \in {"running", "cancelled"} \/ (c.stage = "ended" /\ it.state = c.out)
                   /\ it.kind = "approval" /\ c.answer # "unresolved" =>
                        it.state \in {c.answer} \cup (IF c.answer = "session" THEN {"approved"} ELSE {})
                   /\ it.link # NoId =>
                        items[it.link].link = i /\ items[it.link].of = it.of
    BY <2>1 DEF Told, ToolTells, ApprovalTells, Linked
  <2>3. pending.item # NoId =>
          /\ items[pending.item].of = pending.id
          /\ items[pending.item].kind = "approval" /\ items[pending.item].state = "unresolved"
    BY <2>1 DEF CardsBelong, Told, PendingWaits
  <2>4. sel # NoId => Selectable(items, sel)
    BY <2>1 DEF Told, CursorSelects
  <2> QED BY <2>2, <2>3, <2>4 DEF CardsTell
<1> QED BY <1>1, TuiInvariant, PTL

\* What a card or a text shows once it is over stays, whatever comes late:
\* MutateTool, AppendText, cancelTurn, updateApprovalOutcome.
THEOREM FinalStatesStay == Spec => FinalStays
<1>1. IInv /\ [Next]_vars => [\A i \in DOMAIN items \cap DOMAIN items' :
          Final(items[i]) /\ old' = old /\ ~stale' =>
              \/ items'[i].state = items[i].state
              \/ items[i].state = "session" /\ items'[i].state = "approved"]_vars
  BY Stays DEF FinalStep
<1> QED BY <1>1, TuiInvariant, PTL DEF Spec, FinalStays

\* One step, as ReaderKeepsPlace has it.
PlaceKept ==
    ~scroll.pinned =>
        /\ \A m \in inbox \ inbox' :
              \/ m.kind = "new" \/ (m.kind = "diff" /\ m.of = diffSeq)
              \/ scroll' = [scroll EXCEPT !.since = @ + Len(items') - Len(items)]
        /\ text' \notin {"", text} => scroll' = scroll

LEMMA MessagesKeepThePlace ==
    ASSUME CardsTyped, ViewTyped, NEW m \in inbox, ~scroll.pinned,
           \/ TakesStarted(m) \/ TakesCompleted(m) \/ TakesRequest(m) \/ TakesResolved(m)
           \/ TakesDelta(m) \/ TakesComplete(m) \/ TakesTurnError(m) \/ TakesCancelled(m)
           \/ TakesError(m) \/ TakesNotice(m) \/ TakesCompacted(m)
           \/ TakesNewFailed(m) \/ DropsDiff(m)
    PROVE  scroll' = [scroll EXCEPT !.since = @ + Len(items') - Len(items)]
<1>1. Len(items) \in Nat /\ DOMAIN items = 1..Len(items)
  BY DEF CardsTyped, WellFormed
<1>2. scroll = [pinned |-> scroll.pinned, offset |-> scroll.offset, since |-> scroll.since]
      /\ scroll.since \in Nat
  BY DEF ViewTyped, View
<1>3. scroll' = scroll /\ Len(items') = Len(items) =>
          scroll' = [scroll EXCEPT !.since = @ + Len(items') - Len(items)]
  BY <1>1, <1>2
<1>4. scroll' = Arrived(scroll) /\ Len(items') = Len(items) + 1 =>
          scroll' = [scroll EXCEPT !.since = @ + Len(items') - Len(items)]
  BY <1>1, <1>2 DEF Arrived
<1>5. \A it : Len(Append(items, it)) = Len(items) + 1 /\ DOMAIN Append(items, it) = 1..(Len(items) + 1)
  BY <1>1 DEF CardsTyped, WellFormed
<1>6. \A it : Append1(it) => scroll' = Arrived(scroll) /\ Len(items') = Len(items) + 1
  BY <1>5 DEF Append1
<1>7. CASE TakesStarted(m) \/ TakesError(m) \/ TakesNotice(m) \/ TakesCompacted(m) \/ TakesNewFailed(m)
  BY <1>4, <1>6, <1>7 DEF TakesStarted, TakesError, TakesNotice, TakesCompacted, TakesNewFailed
<1>8. CASE TakesCompleted(m)
  <2>1. CASE m.of \in DOMAIN toolCards
    BY <1>1, <1>3, <1>8, <2>1 DEF TakesCompleted
  <2>2. CASE m.of \notin DOMAIN toolCards
    BY <1>4, <1>6, <1>8, <2>2 DEF TakesCompleted
  <2> QED BY <2>1, <2>2
<1>9. CASE TakesRequest(m)
  <2> DEFINE new == Append(items, Item("approval", m.of, "unresolved"))
  <2>1. \A its, card, tool : Len(its) \in Nat /\ DOMAIN its = 1..Len(its) =>
            Len(LinkCards(its, card, tool)) = Len(its)
    BY DEF LinkCards
  <2>2. Len(new) = Len(items) + 1 /\ DOMAIN new = 1..Len(new) /\ Len(new) \in Nat
    BY <1>1, <1>5
  <2>3. items' = new \/ items' = LinkCards(new, Len(items) + 1, toolCards[m.of])
    BY <1>9 DEF TakesRequest
  <2>4. scroll' = Arrived(scroll)
    BY <1>9 DEF TakesRequest
  <2> HIDE DEF new
  <2> QED BY <1>4, <2>1, <2>2, <2>3, <2>4
<1>10. CASE TakesResolved(m)
  BY <1>1, <1>3, <1>10 DEF TakesResolved
<1>11. CASE TakesDelta(m)
  BY <1>3, <1>4, <1>6, <1>11 DEF TakesDelta
<1>12. CASE TakesComplete(m) \/ TakesCancelled(m)
  <2>1. \A s : Len(EndStreams(items, s)) = Len(items) /\ Len(EndStreams(CancelCards(items), s)) = Len(items)
    BY <1>1, StreamsEnd
  <2> QED BY <1>3, <1>12, <2>1 DEF TakesComplete, TakesCancelled, CancelTurn
<1>13. CASE TakesTurnError(m)
  <2>1. Len(EndStreams(Append(items, Error), "done")) = Len(items) + 1
    <3> DEFINE new == Append(items, Error)
    <3>1. DOMAIN new = 1..(Len(items) + 1) /\ Len(items) + 1 \in Nat
      BY <1>1, <1>5
    <3> HIDE DEF new
    <3>2. Len(EndStreams(new, "done")) = Len(items) + 1
      BY <3>1, StreamsEnd
    <3> QED BY <3>2 DEF new
  <2> QED BY <1>4, <1>13, <2>1 DEF TakesTurnError
<1>14. CASE DropsDiff(m)
  BY <1>3, <1>14 DEF DropsDiff, cards
<1> QED BY <1>7, <1>8, <1>9, <1>10, <1>11, <1>12, <1>13, <1>14

LEMMA StepsKeepThePlace ==
    ASSUME IInv, [Next]_vars
    PROVE  PlaceKept
<1>1. CardsTyped /\ ViewTyped
  BY Parts
<1> SUFFICES ASSUME ~scroll.pinned
             PROVE  /\ \A m \in inbox \ inbox' :
                          \/ m.kind = "new" \/ (m.kind = "diff" /\ m.of = diffSeq)
                          \/ scroll' = [scroll EXCEPT !.since = @ + Len(items') - Len(items)]
                    /\ text' \notin {"", text} => scroll' = scroll
  BY DEF PlaceKept
<1>2. CASE Takes
  <2>1. PICK m \in inbox :
           \/ TakesStarted(m) \/ TakesCompleted(m) \/ TakesRequest(m) \/ TakesResolved(m)
           \/ TakesDelta(m) \/ TakesComplete(m) \/ TakesTurnError(m) \/ TakesCancelled(m)
           \/ TakesError(m) \/ TakesNotice(m) \/ TakesCompacted(m)
           \/ TakesNewDone(m) \/ TakesNewFailed(m) \/ DropsDiff(m) \/ TakesDiff(m)
    BY <1>2 DEF Takes
  <2>2. inbox' = inbox \ {m} /\ text' = text
    BY <2>1 DEF TakesStarted, TakesCompleted, TakesRequest, TakesResolved, TakesDelta, TakesComplete,
                TakesTurnError, TakesCancelled, TakesError, TakesNotice, TakesCompacted, TakesNewDone,
                TakesNewFailed, DropsDiff, TakesDiff, Take
  <2>3. TakesNewDone(m) => m.kind = "new"
    BY DEF TakesNewDone
  <2>4. TakesDiff(m) => m.kind = "diff" /\ m.of = diffSeq
    BY DEF TakesDiff
  <2>5. ~TakesNewDone(m) /\ ~TakesDiff(m) =>
            scroll' = [scroll EXCEPT !.since = @ + Len(items') - Len(items)]
    BY <1>1, <2>1, MessagesKeepThePlace
  <2> QED BY <2>2, <2>3, <2>4, <2>5
<1>3. CASE Keys
  <2>1. inbox \subseteq inbox'
    BY <1>3 DEF Keys, ModalCloses, HelpOpens, DetailOpens, Answers, Resolve, Send, Releases, Declines,
                Accepts, BrowsesCards, Composes, Selects, Scrolls, Repins, Toggles, TypesText, Types,
                Newline, Pastes, Escapes, Submits, RunsNew, RunsCompact, RunsDiff, RunsHelp,
                RunsApprovals, RunsUnknown, Elsewhere, KeepsApp
  <2>2. text' \in {"", text} \/ Accepts \/ TypesText \/ Newline \/ Pastes
    BY <1>3 DEF Keys, ModalCloses, HelpOpens, DetailOpens, Answers, Releases, Declines,
                BrowsesCards, Composes, Selects, Scrolls, Repins, Toggles, Escapes, Submits,
                Runs, RunsNew, RunsCompact, RunsDiff, RunsHelp, RunsApprovals, RunsUnknown
  <2>3. Accepts \/ TypesText \/ Newline \/ Pastes => scroll' = scroll
    BY DEF Accepts, TypesText, Types, Newline, Pastes
  <2> QED BY <2>1, <2>2, <2>3
<1>4. CASE Works \/ UNCHANGED vars
  <2>1. inbox \subseteq inbox' /\ text' = text
    BY <1>4 DEF Works, CallsTool, Asks, Completes, Speaks, EndsTurn, Informs, Send, OnlyApp, vars
  <2> QED BY <2>1
<1> QED BY <1>2, <1>3, <1>4 DEF Next

\* Who has scrolled up keeps the place, whatever arrives and whatever is typed:
\* appendBlock, Scroll, keyComposing.
THEOREM ReaderStays == Spec => ReaderKeepsPlace
<1>1. IInv /\ [Next]_vars => [~scroll.pinned =>
        /\ \A m \in inbox \ inbox' :
              \/ m.kind = "new" \/ (m.kind = "diff" /\ m.of = diffSeq)
              \/ scroll' = [scroll EXCEPT !.since = @ + Len(items') - Len(items)]
        /\ text' \notin {"", text} => scroll' = scroll]_vars
  BY StepsKeepThePlace DEF PlaceKept
<1> QED BY <1>1, TuiInvariant, PTL DEF Spec, ReaderKeepsPlace
=============================================================================
