--------------------------- MODULE ApprovalsProofs ---------------------------
(***************************************************************************)
(* For any commands, policy and number of calls, sessions and kills: no    *)
(* call goes on that the user did not approve, and the grants in force are *)
(* the user's.                                                             *)
(***************************************************************************)
EXTENDS Approvals, TLAPS

\* A card is answered once, after its request was made; what Request waits for is
\* that answer.
Asked(c) == calls[c].stage \notin {"none", "asking"}

AnswersAreTheUsers ==
    /\ \A c \in Calls : pressed[c] # "none" => Asked(c)
    /\ \A c \in DOMAIN approvals : approvals[c] # "none" => approvals[c] = pressed[c]
    /\ card # NoCall => pressed[card] = "none" /\ Asked(card)

\* Resolve works on an answer the user gave, and grants what the card offered.
ResolveWorks ==
    /\ tui.at \in {"called", "grant", "find", "record", "deliver"} =>
         /\ tui.call \in Calls /\ pressed[tui.call] = tui.outcome
         /\ tui.outcome \in Outcome
         /\ tui.outcome = "session" => Offers(tui.call)
    /\ tui.at \in {"grant", "find", "record"} => tui.outcome = "session"
    /\ tui.at \in {"record", "clear"} => tui.store \in Sessions

\* So is every grant in a log, which a restart may read.
LogsAreTheUsers ==
    \A s \in Sessions : \A i \in DOMAIN logs[s] :
        logs[s][i].kind = "granted" =>
            /\ logs[s][i].of \in Calls /\ pressed[logs[s][i].of] = "session"
            /\ calls[logs[s][i].of].req.op = "command"

IInv == /\ TypeOK /\ AnswersAreTheUsers /\ ResolveWorks /\ LogsAreTheUsers
        /\ NothingRunsUnapproved /\ GrantsAreWanted
-----------------------------------------------------------------------------
LEMMA InitHolds == Init => IInv
<1> SUFFICES ASSUME Init PROVE IInv
  OBVIOUS
<1> USE ApprovalsAssumption DEF Init, Idle, Absent
<1>1. TypeOK
  <2>1. calls \in [Calls -> Call]
    BY DEF Call, Request
  <2>2. DOMAIN approvals = {} /\ \A c \in Calls : ~Unfinished(c)
    BY DEF Unfinished
  <2>3. setting \in Setting /\ cancelled \subseteq Calls /\ card \in Calls \cup {NoCall}
    OBVIOUS
  <2>4. kills \in 0..MaxKills /\ store \in Sessions /\ created \in Sessions
    BY DEF Sessions
  <2>5. logs \in [Sessions -> Seq([kind : {"granted", "cleared"}, of : Calls \cup {NoCall}])]
    OBVIOUS
  <2>6. synced \in [Sessions -> Nat] /\ pressed \in [Calls -> Outcome \cup {"none"}]
    OBVIOUS
  <2> QED BY <2>1, <2>2, <2>3, <2>4, <2>5, <2>6 DEF TypeOK
<1>2. AnswersAreTheUsers
  BY DEF AnswersAreTheUsers
<1>3. ResolveWorks
  BY DEF ResolveWorks
<1>4. LogsAreTheUsers
  BY DEF LogsAreTheUsers
<1>5. NothingRunsUnapproved
  BY DEF NothingRunsUnapproved
<1>6. GrantsAreWanted
  BY DEF GrantsAreWanted
<1> QED BY <1>1, <1>2, <1>3, <1>4, <1>5, <1>6 DEF IInv

Stages == {"none", "asking", "waiting", "allowed", "denied", "lost"}

\* Step moves one call on, and leaves its request.
LEMMA StepMoves ==
    ASSUME calls \in [Calls -> Call], NEW c \in Calls, NEW stage \in Stages, Step(c, stage)
    PROVE  /\ calls' \in [Calls -> Call]
           /\ calls'[c].stage = stage
           /\ \A d \in Calls \ {c} : calls'[d] = calls[d]
           /\ \A d \in Calls : calls'[d].req = calls[d].req /\ calls'[d].by = calls[d].by
  BY DEF Step, Call, Stages

\* What Invoke makes of a call that was not there.
LEMMA InvokeMakes ==
    ASSUME IInv, NEW c \in Calls, NEW r \in Request, Invoke(c, r)
    PROVE  /\ calls' \in [Calls -> Call]
           /\ calls[c].stage = "none"
           /\ calls'[c].req = r
           /\ calls'[c].stage \in {"allowed", "asking"}
           /\ \A d \in Calls \ {c} : calls'[d] = calls[d]
<1>1. calls \in [Calls -> Call] /\ \A g \in grants : g.of \in Calls
  BY DEF IInv, TypeOK
<1>2. {g.of : g \in Covering(grants, r.argv)} \subseteq Calls
  <2>1. Covering(grants, r.argv) \subseteq grants
    BY DEF Covering
  <2> QED BY <1>1, <2>1
<1> QED BY <1>1, <1>2 DEF Invoke, Call

\* A restart only gives up the calls that were under way.
LEMMA RestartLoses ==
    ASSUME IInv, Restart
    PROVE  /\ calls' \in [Calls -> Call]
           /\ \A c \in Calls :
                /\ calls'[c].stage = IF Unfinished(c) THEN "lost" ELSE calls[c].stage
                /\ calls'[c].req = calls[c].req /\ calls'[c].by = calls[c].by
<1>1. calls \in [Calls -> Call]
  BY DEF IInv, TypeOK
<1> QED BY <1>1 DEF Restart, Call, Unfinished

\* Steps of the other actions leave the calls.
LEMMA CallsMove ==
    ASSUME IInv, Next
    PROVE  \/ \E c \in Calls, r \in Request : Invoke(c, r)
           \/ \E c \in Calls : Returns(c) \/ TakesRequest(c)
           \/ Restart
           \/ UNCHANGED calls
<1>1. CASE TuiGoesOn
  BY <1>1 DEF TuiGoesOn, Looks, Grants, FindsStore, RecordsGrant, Delivers,
              FindsStoreToClear, RecordsClear
<1>2. CASE \E o \in Outcome : Answers(o)
  BY <1>2 DEF Answers
<1>3. CASE ClearsGrants \/ CancelsTurn
  BY <1>3 DEF ClearsGrants, CancelsTurn
<1>4. CASE NewSession \/ Installs \/ ResetsGrants \/ ClosesOld \/ TakesNewDone
  BY <1>4 DEF NewSession, Installs, ResetsGrants, ClosesOld, TakesNewDone
<1> QED BY <1>1, <1>2, <1>3, <1>4 DEF Next, CallStep

LEMMA ReturnsMoves ==
    ASSUME IInv, NEW c \in Calls, Returns(c)
    PROVE  /\ calls[c].stage = "waiting"
           /\ Step(c, "allowed") \/ Step(c, "denied")
           /\ Step(c, "allowed") => approvals[c] \in {"once", "session"}
           /\ UNCHANGED <<setting, grants, card, tui, logs, pressed, revoked>>
<1>1. ~(Step(c, "allowed") /\ Step(c, "denied"))
  BY StepMoves DEF IInv, TypeOK, Stages
<1> QED BY <1>1 DEF Returns, disk, user

\* What a call was asked for, and why it was let through, stays.
LEMMA RequestsStay ==
    ASSUME IInv, Next, NEW c \in Calls, calls[c].stage # "none"
    PROVE  /\ calls'[c].req = calls[c].req /\ calls'[c].by = calls[c].by
           /\ calls'[c].stage # "none"
           /\ Asked(c) => Asked(c)'
<1> USE DEF Asked, Stages
<1>0. calls \in [Calls -> Call]
  BY DEF IInv, TypeOK
<1>1. CASE \E d \in Calls, r \in Request : Invoke(d, r)
  BY <1>1, InvokeMakes
<1>2. CASE \E d \in Calls : Returns(d)
  BY <1>0, <1>2, ReturnsMoves, StepMoves
<1>3. CASE \E d \in Calls : TakesRequest(d)
  <2>1. PICK d \in Calls : TakesRequest(d)
    BY <1>3
  <2>2. Step(d, "waiting")
    BY <2>1 DEF TakesRequest
  <2> QED BY <1>0, <2>2, StepMoves
<1>4. CASE Restart
  BY <1>4, RestartLoses DEF Unfinished
<1> QED BY <1>1, <1>2, <1>3, <1>4, CallsMove

\* A card is answered once.
LEMMA PressedMoves ==
    ASSUME IInv, Next
    PROVE  (\E o \in Outcome : Answers(o)) \/ UNCHANGED pressed
<1>1. CASE CallStep
  BY <1>1 DEF CallStep, Invoke, Returns, user
<1>2. CASE TuiGoesOn
  BY <1>2 DEF TuiGoesOn, Looks, Grants, FindsStore, RecordsGrant, Delivers,
              FindsStoreToClear, RecordsClear, user
<1>3. CASE \E c \in Calls : TakesRequest(c)
  BY <1>3 DEF TakesRequest, user
<1>4. CASE ClearsGrants \/ CancelsTurn \/ Restart
  BY <1>4 DEF ClearsGrants, CancelsTurn, Restart, user
<1>5. CASE NewSession \/ Installs \/ ResetsGrants \/ ClosesOld \/ TakesNewDone
  BY <1>5 DEF NewSession, Installs, ResetsGrants, ClosesOld, TakesNewDone, user
<1> QED BY <1>1, <1>2, <1>3, <1>4, <1>5 DEF Next

LEMMA AnswersStay ==
    ASSUME IInv, Next, NEW c \in Calls, pressed[c] # "none"
    PROVE  pressed'[c] = pressed[c]
<1>1. pressed \in [Calls -> Outcome \cup {"none"}] /\ (card # NoCall => pressed[card] = "none")
  BY DEF IInv, TypeOK, AnswersAreTheUsers
<1>2. CASE \E o \in Outcome : Answers(o)
  BY <1>1, <1>2 DEF Answers
<1> QED BY <1>2, PressedMoves

\* Who pressed a key for a call keeps the request it was pressed for.
LEMMA UserStays ==
    ASSUME IInv, Next, NEW c \in Calls, pressed[c] # "none"
    PROVE  pressed'[c] = pressed[c] /\ calls'[c].req = calls[c].req /\ Asked(c)'
<1>1. Asked(c) /\ calls[c].stage # "none"
  BY DEF IInv, AnswersAreTheUsers, Asked
<1> QED BY <1>1, AnswersStay, RequestsStay
-----------------------------------------------------------------------------
LEMMA GrantsMove ==
    ASSUME IInv, Next
    PROVE  Grants \/ Restart \/ grants' = {} \/ UNCHANGED grants
<1>1. CASE CallStep
  BY <1>1 DEF CallStep, Invoke, Returns
<1>2. CASE TuiGoesOn
  BY <1>2 DEF TuiGoesOn, Looks, FindsStore, RecordsGrant, Delivers,
              FindsStoreToClear, RecordsClear
<1>3. CASE (\E c \in Calls : TakesRequest(c)) \/ \E o \in Outcome : Answers(o)
  BY <1>3 DEF TakesRequest, Answers
<1>4. CASE ClearsGrants \/ CancelsTurn
  BY <1>4 DEF ClearsGrants, CancelsTurn
<1>5. CASE NewSession \/ Installs \/ ResetsGrants \/ ClosesOld \/ TakesNewDone
  BY <1>5 DEF NewSession, Installs, ResetsGrants, ClosesOld, TakesNewDone
<1> QED BY <1>1, <1>2, <1>3, <1>4, <1>5 DEF Next

LEMMA SettingMoves ==
    ASSUME IInv, Next
    PROVE  /\ setting' \in Setting
           /\ setting'.grants = setting.grants /\ setting'.askCommands = setting.askCommands
           /\ setting'.askPatches = setting.askPatches
           /\ Restart \/ setting' = setting
<1> setting \in Setting
  BY DEF IInv, TypeOK
<1>1. CASE CallStep
  BY <1>1 DEF CallStep, Invoke, Returns
<1>2. CASE TuiGoesOn
  BY <1>2 DEF TuiGoesOn, Looks, Grants, FindsStore, RecordsGrant, Delivers,
              FindsStoreToClear, RecordsClear
<1>3. CASE (\E c \in Calls : TakesRequest(c)) \/ \E o \in Outcome : Answers(o)
  BY <1>3 DEF TakesRequest, Answers
<1>4. CASE ClearsGrants \/ CancelsTurn
  BY <1>4 DEF ClearsGrants, CancelsTurn
<1>5. CASE NewSession \/ Installs \/ ResetsGrants \/ ClosesOld \/ TakesNewDone
  BY <1>5 DEF NewSession, Installs, ResetsGrants, ClosesOld, TakesNewDone
<1>6. CASE Restart
  BY <1>6 DEF Restart, Setting
<1> QED BY <1>1, <1>2, <1>3, <1>4, <1>5, <1>6 DEF Next

\* What resuming a session makes of the grants in its log, or of a part of it.
LEMMA RestoredAreTheUsers ==
    ASSUME IInv, NEW s \in Setting, NEW n \in Nat, n <= Len(logs[created]),
           NEW g \in Restored(s, SubSeq(logs[created], 1, n))
    PROVE  /\ g.of \in Calls /\ pressed[g.of] = "session"
           /\ calls[g.of].req.op = "command"
           /\ g.argv = Fields(calls[g.of].req.argv)
           /\ ~IsShell(g.argv) /\ s.grants /\ ~s.concurrent
<1> DEFINE log == SubSeq(logs[created], 1, n)
<1>1. created \in Sessions /\ logs[created] \in Seq([kind : {"granted", "cleared"},
                                                     of : Calls \cup {NoCall}])
  BY DEF IInv, TypeOK
<1>2. DOMAIN log \subseteq DOMAIN logs[created] /\ \A i \in DOMAIN log : log[i] = logs[created][i]
  BY <1>1
<1>3. PICK c \in Loaded(log) :
         g = [argv |-> Fields(calls[c].req.argv), of |-> c]
         /\ ~s.concurrent /\ CanGrant(s, Command(g.argv))
  BY DEF Restored
<1>4. PICK i \in DOMAIN log : c = log[i].of /\ log[i].kind = "granted"
  BY <1>3 DEF Loaded
<1>5. c \in Calls /\ pressed[c] = "session" /\ calls[c].req.op = "command"
  BY <1>1, <1>2, <1>4 DEF IInv, LogsAreTheUsers
<1>6. ~IsShell(g.argv) /\ s.grants
  BY <1>3 DEF CanGrant, Command
<1> QED BY <1>3, <1>5, <1>6

\* What Grants adds is the answer that Resolve was called with.
LEMMA GrantAdds ==
    ASSUME IInv, Grants
    PROVE  \/ UNCHANGED grants
           \/ /\ tui.call \in Calls /\ pressed[tui.call] = "session"
              /\ grants' = grants \cup {[argv |-> calls[tui.call].req.argv, of |-> tui.call]}
              /\ calls[tui.call].req.op = "command"
              /\ ~IsShell(calls[tui.call].req.argv)
              /\ setting.grants /\ ~setting.concurrent
<1>1. /\ tui.call \in Calls /\ pressed[tui.call] = "session"
      /\ ~setting.concurrent
  BY DEF Grants, IInv, ResolveWorks, Offers, CanApproveForSession
<1>2. UNCHANGED grants \/ /\ CanGrant(setting, calls[tui.call].req)
                          /\ grants' = grants \cup {[argv |-> calls[tui.call].req.argv,
                                                     of |-> tui.call]}
  BY DEF Grants
<1> QED BY <1>1, <1>2 DEF CanGrant

LEMMA RestartRestores ==
    ASSUME IInv, Restart
    PROVE  \/ grants' = {}
           \/ \E n \in Nat : /\ n <= Len(logs[created])
                             /\ grants' = Restored(setting', SubSeq(logs[created], 1, n))
<1>1. synced[created] \in Nat /\ Len(logs[created]) \in Nat
  BY DEF IInv, TypeOK
<1> QED BY <1>1 DEF Restart
-----------------------------------------------------------------------------
\* The grants in force are those the user gave; their argvs are what they should be.
LEMMA GrantsStayWanted ==
    ASSUME IInv, Next
    PROVE  /\ \A g \in grants' : g.of \in Calls /\ g.argv \in GrantOf(g.of)'
           /\ GrantsAreWanted'
<1> DEFINE Good(g) == /\ g.of \in Calls /\ pressed[g.of] = "session"
                      /\ calls[g.of].req.op = "command"
                      /\ g.argv \in GrantOf(g.of)
                      /\ ~IsShell(g.argv) /\ setting'.grants /\ ~setting'.concurrent
<1>1. SUFFICES \A g \in grants' : Good(g)
  <2> SUFFICES ASSUME NEW g \in grants'
               PROVE  /\ g.of \in Calls /\ g.argv \in GrantOf(g.of)'
                      /\ pressed'[g.of] = "session" /\ calls'[g.of].req.op = "command"
                      /\ ~IsShell(g.argv) /\ setting'.grants /\ ~setting'.concurrent
    BY DEF GrantsAreWanted
  <2>1. Good(g)
    BY <1>1
  <2>2. calls'[g.of].req = calls[g.of].req /\ pressed'[g.of] = "session"
    BY <2>1, UserStays
  <2> QED BY <2>1, <2>2 DEF GrantOf
<1>2. \A g \in grants : Good(g) \/ setting' # setting
  BY DEF IInv, TypeOK, GrantsAreWanted
<1>3. CASE UNCHANGED grants /\ ~Restart
  BY <1>2, <1>3, SettingMoves
<1>4. CASE Grants /\ ~Restart
  <2>1. setting' = setting
    BY <1>4, SettingMoves
  <2>2. CASE UNCHANGED grants
    BY <1>2, <2>1, <2>2
  <2>3. CASE ~UNCHANGED grants
    BY <1>2, <1>4, <2>1, <2>3, GrantAdds DEF GrantOf
  <2> QED BY <2>2, <2>3
<1>5. CASE Restart /\ grants' # {}
  <2>1. PICK n \in Nat : /\ n <= Len(logs[created])
                         /\ grants' = Restored(setting', SubSeq(logs[created], 1, n))
    BY <1>5, RestartRestores
  <2> QED BY <2>1, SettingMoves, RestoredAreTheUsers DEF GrantOf
<1>6. CASE grants' = {}
  BY <1>6
<1> QED BY <1>3, <1>4, <1>5, <1>6, GrantsMove

\* A call goes on with the user's answer or with the policy's leave.
LEMMA ReasonAtInvoke ==
    ASSUME IInv, NEW c \in Calls, NEW r \in Request, Invoke(c, r),
           calls'[c].stage = "allowed"
    PROVE  \/ r.op = "patch" /\ ~setting.askPatches
           \/ /\ r.op = "command" /\ ~IsShell(r.argv)
              /\ \/ Listed(r.argv)
                 \/ ~setting.askCommands
                 \/ \E g \in grants : g.of \in calls'[c].by /\ IsPrefix(g.argv, r.argv)
<1>1. calls \in [Calls -> Call] /\ r.op \in {"patch", "command"}
  BY DEF IInv, TypeOK, Request, Patch, Command
<1>2. /\ IF r.op = "patch" THEN ForPatch(setting) ELSE ForCommand(setting, grants, r.argv)
      /\ calls'[c].by = {g.of : g \in Covering(grants, r.argv)}
  BY <1>1 DEF Invoke
<1>3. CASE r.op = "patch"
  BY <1>2, <1>3 DEF ForPatch
<1>4. CASE r.op = "command"
  <2>1. /\ ~IsShell(r.argv)
        /\ Listed(r.argv) \/ ~setting.askCommands \/ Covering(grants, r.argv) # {}
    BY <1>2, <1>4 DEF ForCommand
  <2>2. ASSUME Covering(grants, r.argv) # {}
        PROVE  \E g \in grants : g.of \in calls'[c].by /\ IsPrefix(g.argv, r.argv)
    BY <1>2, <2>2 DEF Covering, MatchesPattern
  <2> QED BY <1>4, <2>1, <2>2
<1> QED BY <1>1, <1>3, <1>4

LEMMA NothingStartsUnapproved ==
    ASSUME IInv, Next
    PROVE  NothingRunsUnapproved'
<1> DEFINE Reason(c) ==
        \/ pressed[c] \in {"once", "session"}
        \/ calls[c].req.op = "patch" /\ ~setting.askPatches
        \/ /\ calls[c].req.op = "command" /\ ~IsShell(calls[c].req.argv)
           /\ \/ Listed(calls[c].req.argv)
              \/ ~setting.askCommands
              \/ \E d \in calls[c].by : pressed[d] = "session" /\ Covers(d, c)
<1> SUFFICES ASSUME NEW c \in Calls, calls'[c].stage = "allowed"
             PROVE  Reason(c)'
  BY DEF NothingRunsUnapproved
<1>0. calls \in [Calls -> Call]
  BY DEF IInv, TypeOK
<1>1. CASE calls[c].stage = "allowed"
  <2>1. Reason(c)
    BY <1>1 DEF IInv, NothingRunsUnapproved
  <2>2. calls'[c].req = calls[c].req /\ calls'[c].by = calls[c].by
    BY <1>1, RequestsStay
  <2>3. pressed[c] \in {"once", "session"} => pressed'[c] = pressed[c]
    BY UserStays
  <2>4. \A d \in calls[c].by : pressed[d] = "session" /\ Covers(d, c)
                                  => pressed'[d] = "session" /\ Covers(d, c)'
    <3>1. calls[c].by \subseteq Calls
      BY <1>0 DEF Call
    <3>2. \A d \in calls[c].by : pressed[d] = "session" =>
              pressed'[d] = "session" /\ calls'[d].req = calls[d].req
      BY <3>1, UserStays
    <3> QED BY <2>2, <3>2 DEF Covers, GrantOf
  <2> QED BY <2>1, <2>2, <2>3, <2>4, SettingMoves
<1>2. CASE calls[c].stage # "allowed" /\ \E d \in Calls, r \in Request : Invoke(d, r)
  <2>1. PICK r \in Request : Invoke(c, r)
    BY <1>2, InvokeMakes
  <2>2. calls'[c].req = r /\ calls[c].stage = "none"
    BY <2>1, InvokeMakes
  <2>3. UNCHANGED <<setting, pressed>>
    BY <2>1 DEF Invoke, user
  <2>4. \A g \in grants : /\ g.of \in Calls /\ g.argv \in GrantOf(g.of)
                          /\ pressed'[g.of] = "session"
                          /\ calls'[g.of].req = calls[g.of].req
    <3>1. \A g \in grants : g.of \in Calls /\ g.argv \in GrantOf(g.of)
                            /\ pressed[g.of] = "session"
      BY DEF IInv, TypeOK, GrantsAreWanted
    <3> QED BY <3>1, UserStays
  <2>5. \A g \in grants : IsPrefix(g.argv, r.argv) => Covers(g.of, c)'
    BY <2>2, <2>4 DEF Covers, GrantOf
  <2> QED BY <2>1, <2>2, <2>3, <2>4, <2>5, ReasonAtInvoke
<1>3. CASE calls[c].stage # "allowed" /\ \E d \in Calls : Returns(d)
  <2>1. PICK d \in Calls : Returns(d)
    BY <1>3
  <2>2. d = c /\ Step(c, "allowed")
    BY <1>0, <1>3, <2>1, ReturnsMoves, StepMoves DEF Stages
  <2>3. approvals[c] \in {"once", "session"} /\ calls[c].stage = "waiting" /\ UNCHANGED pressed
    BY <2>1, <2>2, ReturnsMoves
  <2>4. c \in DOMAIN approvals
    BY <2>3 DEF IInv, TypeOK, Unfinished
  <2>5. pressed[c] = approvals[c]
    BY <2>3, <2>4 DEF IInv, AnswersAreTheUsers
  <2> QED BY <2>3, <2>5
<1>4. CASE \E d \in Calls : TakesRequest(d)
  <2>1. PICK d \in Calls : TakesRequest(d)
    BY <1>4
  <2>2. Step(d, "waiting")
    BY <2>1 DEF TakesRequest
  <2> QED BY <1>0, <1>1, <2>2, StepMoves DEF Stages
<1>5. CASE Restart \/ UNCHANGED calls
  BY <1>1, <1>5, RestartLoses
<1> QED BY <1>1, <1>2, <1>3, <1>4, <1>5, CallsMove
-----------------------------------------------------------------------------
\* A log grows by what Resolve or ClearGrants records, or loses its end.
Event == [kind : {"granted", "cleared"}, of : Calls \cup {NoCall}]

LEMMA LogsMove ==
    ASSUME IInv, Next
    PROVE  RecordsGrant \/ RecordsClear \/ Restart \/ UNCHANGED logs
<1>1. CASE CallStep
  BY <1>1 DEF CallStep, Invoke, Returns, disk
<1>2. CASE TuiGoesOn
  BY <1>2 DEF TuiGoesOn, Looks, Grants, FindsStore, Delivers, FindsStoreToClear, disk
<1>3. CASE (\E c \in Calls : TakesRequest(c)) \/ \E o \in Outcome : Answers(o)
  BY <1>3 DEF TakesRequest, Answers, disk
<1>4. CASE ClearsGrants \/ CancelsTurn
  BY <1>4 DEF ClearsGrants, CancelsTurn, disk
<1>5. CASE NewSession \/ Installs \/ ResetsGrants \/ ClosesOld \/ TakesNewDone
  BY <1>5 DEF NewSession, Installs, ResetsGrants, ClosesOld, TakesNewDone, disk
<1> QED BY <1>1, <1>2, <1>3, <1>4, <1>5 DEF Next

\* Recording an event adds that event to one log at most.
LEMMA AppendAdds ==
    ASSUME logs \in [Sessions -> Seq(Event)], NEW s, NEW e \in Event,
           logs' = [logs EXCEPT ![s] = Append(@, e)]
    PROVE  /\ logs' \in [Sessions -> Seq(Event)]
           /\ \A t \in Sessions : \A i \in DOMAIN logs'[t] :
                logs'[t][i] = e \/ (i \in DOMAIN logs[t] /\ logs'[t][i] = logs[t][i])
<1> SUFFICES ASSUME NEW t \in Sessions
             PROVE  /\ logs'[t] \in Seq(Event)
                    /\ \A i \in DOMAIN logs'[t] :
                         logs'[t][i] = e \/ (i \in DOMAIN logs[t] /\ logs'[t][i] = logs[t][i])
  OBVIOUS
<1>1. logs[t] \in Seq(Event) /\ logs'[t] = IF t = s THEN Append(logs[t], e) ELSE logs[t]
  OBVIOUS
<1> QED BY <1>1

LEMMA LogsStayTheUsers ==
    ASSUME IInv, Next
    PROVE  logs' \in [Sessions -> Seq(Event)] /\ LogsAreTheUsers'
<1> DEFINE Good(e) == e.kind = "granted" =>
        e.of \in Calls /\ pressed[e.of] = "session" /\ calls[e.of].req.op = "command"
<1>0. /\ logs \in [Sessions -> Seq(Event)]
      /\ \A s \in Sessions : \A i \in DOMAIN logs[s] : Good(logs[s][i])
      /\ created \in Sessions /\ synced[created] \in Nat
  BY DEF IInv, TypeOK, LogsAreTheUsers, Event
<1>1. SUFFICES /\ logs' \in [Sessions -> Seq(Event)]
               /\ \A s \in Sessions : \A i \in DOMAIN logs'[s] : Good(logs'[s][i])
  <2> SUFFICES ASSUME NEW e, Good(e), e.kind = "granted"
               PROVE  Good(e)'
    BY <1>1 DEF LogsAreTheUsers
  <2> QED BY UserStays
<1>2. CASE RecordsGrant
  <2>1. Good(Granted(tui.call)) /\ Granted(tui.call) \in Event
    BY <1>2 DEF RecordsGrant, IInv, ResolveWorks, Offers, CanApproveForSession, CanGrant,
                Granted, Event
  <2>2. \/ logs' = logs
        \/ logs' = [logs EXCEPT ![tui.store] = Append(@, Granted(tui.call))]
    BY <1>2 DEF RecordsGrant
  <2>3. CASE logs' = logs
    BY <1>0, <2>3
  <2>4. CASE logs' = [logs EXCEPT ![tui.store] = Append(@, Granted(tui.call))]
    <3>1. /\ logs' \in [Sessions -> Seq(Event)]
          /\ \A t \in Sessions : \A i \in DOMAIN logs'[t] :
               logs'[t][i] = Granted(tui.call) \/ (i \in DOMAIN logs[t] /\ logs'[t][i] = logs[t][i])
      BY <1>0, <2>1, <2>4, AppendAdds
    <3> HIDE DEF Good
    <3> QED BY <1>0, <2>1, <3>1
  <2> QED BY <2>2, <2>3, <2>4
<1>3. CASE RecordsClear
  <2>1. Good(Cleared) /\ Cleared \in Event
    BY DEF Cleared, Event
  <2>2. logs' = logs \/ logs' = [logs EXCEPT ![tui.store] = Append(@, Cleared)]
    BY <1>3 DEF RecordsClear, disk
  <2>3. CASE logs' = logs
    BY <1>0, <2>3
  <2>4. CASE logs' = [logs EXCEPT ![tui.store] = Append(@, Cleared)]
    <3>1. /\ logs' \in [Sessions -> Seq(Event)]
          /\ \A t \in Sessions : \A i \in DOMAIN logs'[t] :
               logs'[t][i] = Cleared \/ (i \in DOMAIN logs[t] /\ logs'[t][i] = logs[t][i])
      BY <1>0, <2>1, <2>4, AppendAdds
    <3> QED BY <1>0, <2>1, <3>1
  <2> QED BY <2>2, <2>3, <2>4
<1>4. CASE Restart
  <2>1. PICK n \in synced[created]..Len(logs[created]) :
            logs' = [logs EXCEPT ![created] = SubSeq(logs[created], 1, n)]
    BY <1>4 DEF Restart
  <2>2. n \in Nat /\ n <= Len(logs[created])
    BY <1>0
  <2> QED BY <1>0, <2>1, <2>2
<1>5. CASE UNCHANGED logs
  BY <1>0, <1>5
<1> QED BY <1>2, <1>3, <1>4, <1>5, LogsMove

LEMMA AnswersStayTheUsers ==
    ASSUME IInv, Next
    PROVE  AnswersAreTheUsers'
<1> USE DEF Stages
<1>0. /\ calls \in [Calls -> Call] /\ card \in Calls \cup {NoCall}
      /\ DOMAIN approvals = {c \in Calls : Unfinished(c)}
      /\ pressed \in [Calls -> Outcome \cup {"none"}]
      /\ \A c \in Calls : pressed[c] # "none" => Asked(c)
      /\ \A c \in DOMAIN approvals : approvals[c] # "none" => approvals[c] = pressed[c]
      /\ card # NoCall => pressed[card] = "none" /\ Asked(card)
  BY DEF IInv, TypeOK, AnswersAreTheUsers
<1>1. CASE \E o \in Outcome : Answers(o)
  <2>1. PICK o \in Outcome : Answers(o)
    BY <1>1
  <2>2. /\ card \in Calls /\ card # NoCall /\ card' = NoCall
        /\ pressed' = [pressed EXCEPT ![card] = o]
        /\ UNCHANGED <<calls, approvals>>
    BY <1>0, <2>1 DEF Answers
  <2>3. \A c \in DOMAIN approvals : c = card => approvals[c] = "none"
    BY <1>0, <2>2
  <2>4. \A c \in Calls : pressed'[c] # "none" => Asked(c)'
    BY <1>0, <2>2 DEF Asked
  <2>5. \A c \in DOMAIN approvals' : approvals'[c] # "none" => approvals'[c] = pressed'[c]
    BY <1>0, <2>2, <2>3
  <2> QED BY <2>2, <2>4, <2>5 DEF AnswersAreTheUsers
<1>2. CASE UNCHANGED pressed
  <2>1. \A c \in Calls : pressed'[c] # "none" => Asked(c)'
    BY <1>2, UserStays
  <2>2. \A c \in DOMAIN approvals' : approvals'[c] # "none" => approvals'[c] = pressed'[c]
    <3>1. CASE \E c \in Calls, r \in Request : Invoke(c, r)
      BY <1>0, <1>2, <3>1 DEF Invoke
    <3>2. CASE \E c \in Calls : Returns(c)
      BY <1>0, <1>2, <3>2 DEF Returns, Unregister
    <3>3. CASE Delivers
      BY <1>0, <1>2, <3>3 DEF Delivers, IInv, ResolveWorks
    <3>4. CASE Restart
      BY <3>4 DEF Restart
    <3>5. CASE UNCHANGED approvals
      BY <1>0, <1>2, <3>5
    <3>6. (\E c \in Calls, r \in Request : Invoke(c, r)) \/ (\E c \in Calls : Returns(c))
            \/ Delivers \/ Restart \/ UNCHANGED approvals
      <4>1. CASE TuiGoesOn
        BY <4>1 DEF TuiGoesOn, Looks, Grants, FindsStore, RecordsGrant, FindsStoreToClear,
                    RecordsClear
      <4>2. CASE (\E c \in Calls : TakesRequest(c)) \/ \E o \in Outcome : Answers(o)
        BY <4>2 DEF TakesRequest, Answers
      <4>3. CASE ClearsGrants \/ CancelsTurn
        BY <4>3 DEF ClearsGrants, CancelsTurn
      <4>4. CASE NewSession \/ Installs \/ ResetsGrants \/ ClosesOld \/ TakesNewDone
        BY <4>4 DEF NewSession, Installs, ResetsGrants, ClosesOld, TakesNewDone
      <4> QED BY <4>1, <4>2, <4>3, <4>4 DEF Next, CallStep
    <3> QED BY <3>1, <3>2, <3>3, <3>4, <3>5, <3>6
  <2>3. card' # NoCall => pressed'[card'] = "none" /\ Asked(card)'
    <3>1. CASE \E c \in Calls : TakesRequest(c)
      <4>1. PICK c \in Calls : TakesRequest(c)
        BY <3>1
      <4>2. card' = c /\ calls[c].stage = "asking" /\ Step(c, "waiting")
        BY <4>1 DEF TakesRequest
      <4>3. calls'[c].stage = "waiting" /\ pressed[c] = "none"
        BY <1>0, <4>2, StepMoves DEF Asked
      <4> QED BY <1>2, <4>2, <4>3 DEF Asked
    <3>2. CASE UNCHANGED card
      <4> SUFFICES ASSUME card # NoCall PROVE Asked(card)'
        BY <1>0, <1>2, <3>2
      <4>1. card \in Calls /\ Asked(card) /\ calls[card].stage # "none"
        BY <1>0 DEF Asked
      <4> QED BY <3>2, <4>1, RequestsStay DEF Asked
    <3>3. (\E c \in Calls : TakesRequest(c)) \/ UNCHANGED card \/ card' = NoCall
      <4>1. CASE TuiGoesOn
        BY <4>1 DEF TuiGoesOn, Looks, Grants, FindsStore, RecordsGrant, Delivers,
                    FindsStoreToClear, RecordsClear
      <4>2. CASE CallStep \/ \E o \in Outcome : Answers(o)
        BY <4>2 DEF CallStep, Invoke, Returns, Answers
      <4>3. CASE ClearsGrants \/ CancelsTurn \/ Restart
        BY <4>3 DEF ClearsGrants, CancelsTurn, Restart
      <4>4. CASE NewSession \/ Installs \/ ResetsGrants \/ ClosesOld \/ TakesNewDone
        BY <4>4 DEF NewSession, Installs, ResetsGrants, ClosesOld, TakesNewDone
      <4> QED BY <4>1, <4>2, <4>3, <4>4 DEF Next
    <3> QED BY <3>1, <3>2, <3>3
  <2> QED BY <2>1, <2>2, <2>3 DEF AnswersAreTheUsers
<1> QED BY <1>1, <1>2, PressedMoves
-----------------------------------------------------------------------------
TuiType == [at : {"idle", "called", "grant", "find", "record", "deliver", "clearing", "clear"},
            call : Calls \cup {NoCall}, outcome : Outcome \cup {"none"},
            store : Sessions \cup {0}]

\* The steps of the TUI's callbacks.
LEMMA TuiMoves ==
    ASSUME IInv, Next
    PROVE  (\E o \in Outcome : Answers(o)) \/ TuiGoesOn \/ ClearsGrants \/ tui' = Idle
             \/ UNCHANGED tui
<1>1. CASE CallStep \/ \E c \in Calls : TakesRequest(c)
  BY <1>1 DEF CallStep, Invoke, Returns, TakesRequest
<1>2. CASE CancelsTurn \/ Restart
  BY <1>2 DEF CancelsTurn, Restart
<1>3. CASE NewSession \/ Installs \/ ResetsGrants \/ ClosesOld \/ TakesNewDone
  BY <1>3 DEF NewSession, Installs, ResetsGrants, ClosesOld, TakesNewDone
<1> QED BY <1>1, <1>2, <1>3 DEF Next

LEMMA ResolveGoesOn ==
    ASSUME IInv, Next
    PROVE  tui' \in TuiType /\ ResolveWorks'
<1> USE DEF TuiType
<1>0. /\ tui \in TuiType /\ store \in Sessions /\ card \in Calls \cup {NoCall}
      /\ pressed \in [Calls -> Outcome \cup {"none"}]
  BY DEF IInv, TypeOK
<1>1. CASE \E o \in Outcome : Answers(o)
  <2>1. PICK o \in Outcome : Answers(o)
    BY <1>1
  <2>2. /\ card \in Calls /\ tui' = Tui("called", card, o, 0)
        /\ pressed' = [pressed EXCEPT ![card] = o]
        /\ o = "session" => Offers(card)
        /\ UNCHANGED <<setting, calls>>
    BY <1>0, <2>1 DEF Answers
  <2>3. o = "session" => CanApproveForSession(setting, calls[card].req)
    BY <2>2 DEF Offers
  <2> QED BY <1>0, <2>2, <2>3 DEF Tui, ResolveWorks, Offers
<1>2. CASE tui' = Idle
  BY <1>2 DEF ResolveWorks, Idle
<1>3. CASE tui' # Idle /\ UNCHANGED pressed
  <2>1. setting' = setting
    BY <1>3, SettingMoves DEF Restart
  <2>2. /\ tui.at \in {"called", "grant", "find", "record", "deliver"} =>
             /\ tui.call \in Calls /\ pressed'[tui.call] = tui.outcome
             /\ tui.outcome \in Outcome
             /\ tui.outcome = "session" => CanApproveForSession(setting', calls'[tui.call].req)
        /\ tui.at \in {"grant", "find", "record"} => tui.outcome = "session"
        /\ tui.at \in {"record", "clear"} => tui.store \in Sessions
    <3>1. ASSUME tui.at \in {"called", "grant", "find", "record", "deliver"}
          PROVE  /\ tui.call \in Calls /\ pressed'[tui.call] = tui.outcome
                 /\ tui.outcome \in Outcome
                 /\ tui.outcome = "session" =>
                        CanApproveForSession(setting', calls'[tui.call].req)
      <4>1. /\ tui.call \in Calls /\ pressed[tui.call] = tui.outcome
            /\ tui.outcome \in Outcome
            /\ tui.outcome = "session" => CanApproveForSession(setting, calls[tui.call].req)
        BY <3>1 DEF IInv, ResolveWorks, Offers
      <4>2. pressed[tui.call] # "none"
        BY <4>1 DEF Outcome
      <4>3. calls'[tui.call].req = calls[tui.call].req
        BY <4>1, <4>2, UserStays
      <4> QED BY <1>3, <2>1, <4>1, <4>3
    <3> QED BY <3>1 DEF IInv, ResolveWorks
  <2>3. CASE TuiGoesOn
    <3>1. CASE Looks
      BY <1>0, <1>3, <2>2, <3>1 DEF Looks, ResolveWorks, Offers
    <3>2. CASE Grants
      BY <1>0, <1>3, <2>2, <3>2 DEF Grants, ResolveWorks, Offers
    <3>3. CASE FindsStore
      BY <1>0, <1>3, <2>2, <3>3 DEF FindsStore, ResolveWorks, Offers
    <3>4. CASE RecordsGrant
      BY <1>0, <1>3, <2>2, <3>4 DEF RecordsGrant, ResolveWorks, Offers
    <3>5. CASE FindsStoreToClear
      BY <1>0, <1>3, <2>2, <3>5 DEF FindsStoreToClear, ResolveWorks, Offers
    <3> QED BY <1>3, <2>3, <3>1, <3>2, <3>3, <3>4, <3>5
            DEF TuiGoesOn, Delivers, RecordsClear
  <2>4. CASE ClearsGrants
    BY <1>3, <2>4 DEF ClearsGrants, ResolveWorks, Idle
  <2>5. CASE UNCHANGED tui
    BY <1>0, <2>2, <2>5 DEF ResolveWorks, Offers
  <2>6. ~\E o \in Outcome : Answers(o)
    <3> SUFFICES ASSUME NEW o \in Outcome, Answers(o) PROVE FALSE
      OBVIOUS
    <3>1. card # NoCall /\ pressed[card] = "none"
      BY DEF Answers, IInv, AnswersAreTheUsers
    <3>2. pressed'[card] = o
      BY <1>0, <3>1 DEF Answers
    <3> QED BY <1>3, <3>1, <3>2 DEF Outcome
  <2> QED BY <1>3, <2>3, <2>4, <2>5, <2>6, TuiMoves
<1> QED BY <1>1, <1>2, <1>3, PressedMoves
-----------------------------------------------------------------------------
LEMMA CallsTyped ==
    ASSUME IInv, Next
    PROVE  calls' \in [Calls -> Call]
<1>0. calls \in [Calls -> Call]
  BY DEF IInv, TypeOK
<1>1. CASE \E c \in Calls : Returns(c) \/ TakesRequest(c)
  <2>1. PICK c \in Calls : Returns(c) \/ TakesRequest(c)
    BY <1>1
  <2>2. \E stage \in Stages : Step(c, stage)
    BY <2>1 DEF Returns, TakesRequest, Stages
  <2> QED BY <1>0, <2>2, StepMoves
<1> QED BY <1>0, <1>1, CallsMove, InvokeMakes, RestartLoses

\* A request is registered when its call begins to ask, and taken out when it returns.
LEMMA RegisteredWhileUnfinished ==
    ASSUME IInv, Next
    PROVE  /\ DOMAIN approvals' = {c \in Calls : Unfinished(c)'}
           /\ \A c \in DOMAIN approvals' : approvals'[c] \in Outcome \cup {"none"}
<1> USE DEF Unfinished, Stages
<1>0. /\ calls \in [Calls -> Call]
      /\ DOMAIN approvals = {c \in Calls : Unfinished(c)}
      /\ \A c \in DOMAIN approvals : approvals[c] \in Outcome \cup {"none"}
  BY DEF IInv, TypeOK
<1>1. CASE \E c \in Calls, r \in Request : Invoke(c, r)
  <2>1. PICK c \in Calls, r \in Request : Invoke(c, r)
    BY <1>1
  <2>2. calls[c].stage = "none" /\ \A d \in Calls \ {c} : calls'[d] = calls[d]
    BY <2>1, InvokeMakes
  <2>3. \/ calls'[c].stage = "allowed" /\ UNCHANGED approvals
        \/ /\ calls'[c].stage = "asking"
           /\ approvals' = [d \in DOMAIN approvals \cup {c} |->
                               IF d = c THEN "none" ELSE approvals[d]]
    BY <1>0, <2>1 DEF Invoke
  <2> QED BY <1>0, <2>2, <2>3
<1>2. CASE \E c \in Calls : Returns(c)
  <2>1. PICK c \in Calls : Returns(c)
    BY <1>2
  <2>2. /\ Step(c, "allowed") \/ Step(c, "denied")
        /\ approvals' = [d \in DOMAIN approvals \ {c} |-> approvals[d]]
    BY <2>1 DEF Returns, Unregister
  <2>3. /\ calls'[c].stage \in {"allowed", "denied"}
        /\ \A d \in Calls \ {c} : calls'[d] = calls[d]
    BY <1>0, <2>2, StepMoves
  <2> QED BY <1>0, <2>2, <2>3
<1>3. CASE \E c \in Calls : TakesRequest(c)
  <2>1. PICK c \in Calls : TakesRequest(c)
    BY <1>3
  <2>2. Step(c, "waiting") /\ calls[c].stage = "asking" /\ UNCHANGED approvals
    BY <2>1 DEF TakesRequest
  <2>3. calls'[c].stage = "waiting" /\ \A d \in Calls \ {c} : calls'[d] = calls[d]
    BY <1>0, <2>2, StepMoves
  <2> QED BY <1>0, <2>2, <2>3
<1>4. CASE Restart
  <2>1. approvals' = [c \in {} |-> "none"]
    BY <1>4 DEF Restart
  <2> QED BY <1>4, <2>1, RestartLoses
<1>5. CASE Delivers
  <2>1. tui.outcome \in Outcome
    BY <1>5 DEF Delivers, IInv, ResolveWorks
  <2> QED BY <1>0, <1>5, <2>1 DEF Delivers
<1>6. CASE UNCHANGED <<calls, approvals>>
  BY <1>0, <1>6
<1>7. CASE TuiGoesOn /\ ~Delivers
  BY <1>6, <1>7 DEF TuiGoesOn, Looks, Grants, FindsStore, RecordsGrant, FindsStoreToClear,
                    RecordsClear
<1>8. CASE (\E o \in Outcome : Answers(o)) \/ ClearsGrants \/ CancelsTurn
  BY <1>6, <1>8 DEF Answers, ClearsGrants, CancelsTurn
<1>9. CASE NewSession \/ Installs \/ ResetsGrants \/ ClosesOld \/ TakesNewDone
  BY <1>6, <1>9 DEF NewSession, Installs, ResetsGrants, ClosesOld, TakesNewDone
<1> QED BY <1>1, <1>2, <1>3, <1>4, <1>5, <1>7, <1>8, <1>9 DEF Next, CallStep

LEMMA OthersTyped ==
    ASSUME IInv, Next
    PROVE  /\ cancelled' \subseteq Calls
           /\ store' \in Sessions /\ created' \in Sessions
           /\ news' \in {"none", "waiting", "swapped", "reset", "done"}
           /\ synced' \in [Sessions -> Nat]
           /\ card' \in Calls \cup {NoCall}
           /\ kills' \in 0..MaxKills
           /\ pressed' \in [Calls -> Outcome \cup {"none"}] /\ revoked' \subseteq Calls
<1>0. /\ cancelled \subseteq Calls
      /\ store \in Sessions /\ created \in Sessions
      /\ news \in {"none", "waiting", "swapped", "reset", "done"}
      /\ synced \in [Sessions -> Nat]
      /\ logs \in [Sessions -> Seq([kind : {"granted", "cleared"}, of : Calls \cup {NoCall}])]
      /\ card \in Calls \cup {NoCall}
      /\ kills \in 0..MaxKills
      /\ pressed \in [Calls -> Outcome \cup {"none"}] /\ revoked \subseteq Calls
  BY DEF IInv, TypeOK
<1> USE ApprovalsAssumption DEF session, disk, user
<1>1. CASE CallStep \/ \E c \in Calls : TakesRequest(c)
  BY <1>0, <1>1 DEF CallStep, Invoke, Returns, TakesRequest
<1>2. CASE \E o \in Outcome : Answers(o)
  BY <1>0, <1>2 DEF Answers
<1>3. CASE TuiGoesOn /\ ~RecordsClear
  BY <1>0, <1>3 DEF TuiGoesOn, Looks, Grants, FindsStore, RecordsGrant, Delivers,
                    FindsStoreToClear
<1>4. CASE RecordsClear
  <2>1. tui.store \in Sessions
    BY <1>4 DEF RecordsClear, IInv, ResolveWorks
  <2>2. LoggedIn(tui.store) \subseteq Calls
    <3>1. \A i \in DOMAIN logs[tui.store] :
              logs[tui.store][i].kind = "granted" => logs[tui.store][i].of \in Calls
      BY <2>1 DEF IInv, LogsAreTheUsers
    <3> QED BY <3>1 DEF LoggedIn, ToSet
  <2>3. Len(logs[tui.store]) + 1 \in Nat
    BY <1>0, <2>1
  <2>4. \/ UNCHANGED <<synced, revoked>>
        \/ /\ synced' = [synced EXCEPT ![tui.store] = Len(logs[tui.store]) + 1]
           /\ revoked' = revoked \cup LoggedIn(tui.store)
    BY <1>4 DEF RecordsClear
  <2>5. synced' \in [Sessions -> Nat] /\ revoked' \subseteq Calls
    BY <1>0, <2>2, <2>3, <2>4
  <2> QED BY <1>0, <1>4, <2>5 DEF RecordsClear
<1>5. CASE ClearsGrants
  BY <1>0, <1>5 DEF ClearsGrants
<1>6. CASE CancelsTurn
  BY <1>0, <1>6 DEF CancelsTurn, InTurn
<1>7. CASE NewSession
  BY <1>0, <1>7 DEF NewSession, InTurn, Sessions
<1>8. CASE Installs \/ ResetsGrants \/ TakesNewDone
  BY <1>0, <1>8 DEF Installs, ResetsGrants, TakesNewDone
<1>9. CASE ClosesOld
  <2>1. synced' \in [Sessions -> Nat]
    <3>1. synced' = [synced EXCEPT ![store - 1] = Len(logs[store - 1])]
      BY <1>9 DEF ClosesOld
    <3>2. store - 1 \in Sessions => Len(logs[store - 1]) \in Nat
      BY <1>0
    <3> QED BY <1>0, <3>1, <3>2
  <2> QED BY <1>0, <1>9, <2>1 DEF ClosesOld
<1>10. CASE Restart
  <2>1. /\ cancelled' = {} /\ news' = "none" /\ card' = NoCall /\ kills < MaxKills
        /\ kills' = kills + 1 /\ UNCHANGED <<pressed, revoked>>
    BY <1>10 DEF Restart
  <2>2. PICK n \in synced[created]..Len(logs[created]) :
          \/ /\ synced' = [synced EXCEPT ![created] = n]
             /\ store' = created /\ UNCHANGED created
          \/ /\ created < MaxSessions /\ UNCHANGED synced
             /\ store' = created + 1 /\ created' = created + 1
    BY <1>10 DEF Restart
  <2>3. n \in Nat
    BY <1>0
  <2>4. synced' \in [Sessions -> Nat]
    BY <1>0, <2>2, <2>3
  <2>5. store' \in Sessions /\ created' \in Sessions
    <3>1. created < MaxSessions => created + 1 \in Sessions
      BY <1>0 DEF Sessions
    <3> QED BY <1>0, <2>2, <3>1
  <2>6. kills' \in 0..MaxKills
    BY <1>0, <2>1
  <2> QED BY <1>0, <2>1, <2>4, <2>5, <2>6
<1> QED BY <1>1, <1>2, <1>3, <1>4, <1>5, <1>6, <1>7, <1>8, <1>9, <1>10 DEF Next

LEMMA StepHolds == IInv /\ [Next]_vars => IInv'
<1> SUFFICES ASSUME IInv, [Next]_vars PROVE IInv'
  OBVIOUS
<1>1. CASE Next
  <2>1. TypeOK'
    BY <1>1, SettingMoves, CallsTyped, RegisteredWhileUnfinished, GrantsStayWanted,
       LogsStayTheUsers, ResolveGoesOn, OthersTyped DEF TypeOK, Event, TuiType
  <2> QED BY <1>1, <2>1, AnswersStayTheUsers, ResolveGoesOn, LogsStayTheUsers,
             NothingStartsUnapproved, GrantsStayWanted DEF IInv
<1>2. CASE UNCHANGED vars
  <2> USE <1>2 DEF vars
  <2>1. TypeOK'
    <3>1. (\A c \in Calls : Unfinished(c)' <=> Unfinished(c))
          /\ \A g \in grants : GrantOf(g.of)' = GrantOf(g.of)
      BY DEF Unfinished, GrantOf
    <3> QED BY <3>1 DEF IInv, TypeOK
  <2>2. AnswersAreTheUsers'
    BY DEF IInv, AnswersAreTheUsers, Asked
  <2>3. ResolveWorks'
    BY DEF IInv, ResolveWorks, Offers
  <2>4. LogsAreTheUsers'
    BY DEF IInv, LogsAreTheUsers
  <2>5. NothingRunsUnapproved'
    BY DEF IInv, NothingRunsUnapproved, Covers, GrantOf
  <2>6. GrantsAreWanted'
    BY DEF IInv, GrantsAreWanted
  <2> QED BY <2>1, <2>2, <2>3, <2>4, <2>5, <2>6 DEF IInv
<1> QED BY <1>1, <1>2

\* What the calls, the answers and the logs have to do with each other holds in
\* every state (App.Request, Resolve, restoreGrants).
THEOREM Invariant == Spec => []IInv
<1> QED BY InitHolds, StepHolds, PTL DEF Spec

\* Types, and a.approvals has the unfinished requests and no other.
THEOREM ApprovalTypeCorrect == Spec => []TypeOK
<1>1. IInv => TypeOK
  BY DEF IInv
<1> QED BY <1>1, Invariant, PTL

\* No call goes on that its card, the list, the configuration or a grant given on
\* the card of a command that covers it did not let through (App.Request, Resolve).
THEOREM NothingIsRunUnapproved == Spec => []NothingRunsUnapproved
<1>1. IInv => NothingRunsUnapproved
  BY DEF IInv
<1> QED BY <1>1, Invariant, PTL

\* Every grant in force is one the user gave, on the card of a command, and no
\* instance beside another one has any (Resolve, restoreGrants).
THEOREM GrantsAreTheUsers == Spec => []GrantsAreWanted
<1>1. IInv => GrantsAreWanted
  BY DEF IInv
<1> QED BY <1>1, Invariant, PTL
-----------------------------------------------------------------------------
(* The log of a session and the grants in memory *)

\* Resolve works on an answer it has not recorded.
Answering == tui.at \in {"called", "grant", "find", "record"}

\* A grant is in one log, and there once Resolve has recorded it.
LogsOnce ==
    /\ \A s, t \in Sessions : \A c \in LoggedIn(s) \cap LoggedIn(t) : s = t
    /\ Answering => \A s \in Sessions : tui.call \notin LoggedIn(s)

\* What was cleared had been answered, and recorded.
RevokedWereGranted ==
    \A c \in revoked : pressed[c] # "none" /\ (Answering => c # tui.call)

\* After each grant that was cleared the disk has a clear.
ClearsAreSynced ==
    \A s \in Sessions : \A i \in DOMAIN logs[s] :
        logs[s][i].kind = "granted" /\ logs[s][i].of \in revoked =>
            \E k \in DOMAIN logs[s] :
                k > i /\ k <= synced[s] /\ logs[s][k].kind = "cleared"

ClearingHasNone == tui.at \in {"clearing", "clear"} => grants = {}

\* A grant in memory is in force in the log, or Resolve is about to record it there.
MemoryIsLogged ==
    news # "swapped" =>
        \A g \in grants : \/ g.of \in Loaded(logs[store])
                          \/ g.of = tui.call /\ tui.at = "find"
                          \/ g.of = tui.call /\ tui.at = "record" /\ tui.store = store

GInv == /\ IInv /\ LogsOnce /\ RevokedWereGranted /\ ClearsAreSynced
        /\ ClearingHasNone /\ MemoryIsLogged

GrantIn(log, c) == \E i \in DOMAIN log : log[i].kind = "granted" /\ log[i].of = c

LEMMA LoggedIs ==
    ASSUME NEW s, NEW c
    PROVE  /\ c \in LoggedIn(s) <=> GrantIn(logs[s], c)
           /\ c \in LoggedIn(s)' <=> GrantIn(logs'[s], c)
  BY DEF LoggedIn, ToSet, GrantIn

LEMMA GInit == Init => GInv
<1> SUFFICES ASSUME Init PROVE GInv
  OBVIOUS
<1>1. IInv
  BY InitHolds
<1>2. tui = Idle /\ grants = {} /\ revoked = {} /\ \A s \in Sessions : logs[s] = <<>>
  BY DEF Init
<1>3. tui.at = "idle"
  BY <1>2 DEF Idle
<1>4. LogsOnce
  <2>1. \A s \in Sessions : LoggedIn(s) = {}
    BY <1>2, LoggedIs DEF GrantIn
  <2> QED BY <1>3, <2>1 DEF LogsOnce, Answering
<1>5. RevokedWereGranted /\ ClearsAreSynced /\ ClearingHasNone /\ MemoryIsLogged
  BY <1>2 DEF RevokedWereGranted, ClearsAreSynced, ClearingHasNone, MemoryIsLogged
<1> QED BY <1>1, <1>4, <1>5 DEF GInv

\* What recording a grant adds to a log, and what the log would load then.
LEMMA AppendGrant ==
    ASSUME NEW log \in Seq(Event), NEW c \in Calls
    PROVE  /\ \A d : GrantIn(Append(log, Granted(c)), d) => GrantIn(log, d) \/ d = c
           /\ Loaded(log) \cup {c} \subseteq Loaded(Append(log, Granted(c)))
<1> DEFINE long == Append(log, Granted(c))
<1>1. /\ Len(log) \in Nat /\ DOMAIN log = 1..Len(log)
      /\ DOMAIN long = 1..Len(log)+1 /\ long[Len(log)+1] = Granted(c)
      /\ \A i \in DOMAIN log : long[i] = log[i]
  OBVIOUS
<1>2. Granted(c).kind = "granted" /\ Granted(c).of = c
  BY DEF Granted
<1> HIDE DEF long
<1>3. \A d : GrantIn(long, d) => GrantIn(log, d) \/ d = c
  BY <1>1, <1>2 DEF GrantIn
<1>4. ASSUME NEW d \in Loaded(log) PROVE d \in Loaded(long)
  <2>1. PICK i \in DOMAIN log : /\ log[i].kind = "granted" /\ log[i].of = d
                                /\ \A k \in DOMAIN log : log[k].kind = "cleared" => k < i
    BY <1>4 DEF Loaded
  <2>2. \A k \in DOMAIN long : long[k].kind = "cleared" => k < i
    BY <1>1, <1>2, <2>1
  <2>3. i \in DOMAIN long /\ long[i] = log[i]
    BY <1>1
  <2> QED BY <2>1, <2>2, <2>3 DEF Loaded
<1>5. c \in Loaded(long)
  <2>1. \A k \in DOMAIN long : long[k].kind = "cleared" => k < Len(log) + 1
    BY <1>1, <1>2
  <2>2. Len(log) + 1 \in DOMAIN long
    BY <1>1
  <2> QED BY <1>1, <1>2, <2>1, <2>2 DEF Loaded
<1> QED BY <1>3, <1>4, <1>5 DEF long

LEMMA AppendClear ==
    ASSUME NEW log \in Seq(Event)
    PROVE  \A d : GrantIn(Append(log, Cleared), d) => GrantIn(log, d)
<1>1. /\ Len(log) \in Nat /\ DOMAIN log = 1..Len(log)
      /\ DOMAIN Append(log, Cleared) = 1..Len(log)+1
      /\ Append(log, Cleared)[Len(log)+1] = Cleared
      /\ \A i \in DOMAIN log : Append(log, Cleared)[i] = log[i]
  OBVIOUS
<1>2. Cleared.kind = "cleared"
  BY DEF Cleared
<1> QED BY <1>1, <1>2 DEF GrantIn

LEMMA CutOf ==
    ASSUME NEW log \in Seq(Event), NEW n \in 0..Len(log)
    PROVE  /\ DOMAIN SubSeq(log, 1, n) = 1..n /\ 1..n \subseteq DOMAIN log
           /\ \A i \in 1..n : SubSeq(log, 1, n)[i] = log[i]
  OBVIOUS

\* A log has only the grants it had, and the one that Resolve records.
LEMMA LogsGrow ==
    ASSUME IInv, Next, NEW s \in Sessions, NEW c, c \in LoggedIn(s)'
    PROVE  c \in LoggedIn(s) \/ (RecordsGrant /\ c = tui.call /\ s = tui.store)
<1>0. /\ logs \in [Sessions -> Seq(Event)] /\ created \in Sessions
      /\ synced[created] \in Nat
  BY DEF IInv, TypeOK, Event
<1>1. GrantIn(logs'[s], c)
  BY LoggedIs
<1>2. SUFFICES GrantIn(logs[s], c) \/ (RecordsGrant /\ c = tui.call /\ s = tui.store)
  BY LoggedIs
<1>3. CASE RecordsGrant
  <2>1. tui.call \in Calls
    BY <1>3 DEF RecordsGrant, IInv, ResolveWorks
  <2>2. logs'[s] = logs[s] \/ (s = tui.store /\ logs'[s] = Append(logs[s], Granted(tui.call)))
    BY <1>0, <1>3 DEF RecordsGrant
  <2> QED BY <1>0, <1>1, <1>3, <2>1, <2>2, AppendGrant
<1>4. CASE RecordsClear
  <2>1. logs'[s] = logs[s] \/ logs'[s] = Append(logs[s], Cleared)
    BY <1>0, <1>4 DEF RecordsClear, disk
  <2> QED BY <1>0, <1>1, <2>1, AppendClear
<1>5. CASE Restart
  <2>1. PICK n \in synced[created]..Len(logs[created]) :
            logs' = [logs EXCEPT ![created] = SubSeq(logs[created], 1, n)]
    BY <1>5 DEF Restart
  <2>2. n \in 0..Len(logs[created])
    BY <1>0
  <2>3. logs'[s] = logs[s] \/ (s = created /\ logs'[s] = SubSeq(logs[s], 1, n))
    BY <1>0, <2>1
  <2> QED BY <1>0, <1>1, <2>2, <2>3, CutOf DEF GrantIn
<1>6. CASE UNCHANGED logs
  BY <1>1, <1>6
<1> QED BY <1>3, <1>4, <1>5, <1>6, LogsMove

LEMMA TuiWith ==
    ASSUME TypeOK
    PROVE  /\ Idle.at = "idle"
           /\ \A at : /\ [tui EXCEPT !.at = at].at = at
                      /\ [tui EXCEPT !.at = at].call = tui.call
           /\ \A at, s : /\ [tui EXCEPT !.at = at, !.store = s].at = at
                         /\ [tui EXCEPT !.at = at, !.store = s].call = tui.call
                         /\ [tui EXCEPT !.at = at, !.store = s].store = s
  BY DEF TypeOK, Idle

\* Resolve begins with an answer, and is done with it when it has recorded it.
LEMMA AnsweringMoves ==
    ASSUME IInv, Next, Answering'
    PROVE  \/ \E o \in Outcome : Answers(o) /\ tui'.call = card /\ card # NoCall
           \/ Answering /\ tui'.call = tui.call /\ ~RecordsGrant /\ ~RecordsClear
<1>0. TypeOK
  BY DEF IInv
<1> USE <1>0 DEF Answering
<1>1. CASE \E o \in Outcome : Answers(o)
  <2>1. PICK o \in Outcome : Answers(o)
    BY <1>1
  <2>2. card # NoCall /\ tui' = Tui("called", card, o, 0)
    BY <2>1 DEF Answers
  <2>3. tui'.call = card
    BY <2>2 DEF Tui
  <2> QED BY <2>1, <2>2, <2>3
<1>2. CASE TuiGoesOn
  <2>1. CASE Looks \/ Grants \/ FindsStore
    <3>1. tui.at \in {"called", "grant", "find"}
      BY <2>1 DEF Looks, Grants, FindsStore
    <3>2. \/ tui' = Idle
          \/ \E at \in {"grant", "deliver", "find"} : tui' = [tui EXCEPT !.at = at]
          \/ tui' = [tui EXCEPT !.at = "record", !.store = store]
      BY <2>1 DEF Looks, Grants, FindsStore
    <3>3. tui'.call = tui.call
      <4>1. CASE tui' = Idle
        BY <4>1, TuiWith
      <4>2. CASE \E at \in {"grant", "deliver", "find"} : tui' = [tui EXCEPT !.at = at]
        BY <4>2, TuiWith
      <4>3. CASE tui' = [tui EXCEPT !.at = "record", !.store = store]
        BY <4>3, TuiWith
      <4> QED BY <3>2, <4>1, <4>2, <4>3
    <3>4. ~RecordsGrant /\ ~RecordsClear
      BY <3>1 DEF RecordsGrant, RecordsClear
    <3> QED BY <3>1, <3>3, <3>4
  <2>2. CASE RecordsGrant \/ Delivers \/ FindsStoreToClear \/ RecordsClear
    <3>1. \/ tui' = Idle
          \/ tui' = [tui EXCEPT !.at = "deliver"]
          \/ tui' = [tui EXCEPT !.at = "clear", !.store = store]
      BY <2>2 DEF RecordsGrant, Delivers, FindsStoreToClear, RecordsClear
    <3>2. ~Answering'
      BY <3>1, TuiWith
    <3> QED BY <3>2
  <2> QED BY <1>2, <2>1, <2>2 DEF TuiGoesOn
<1>3. CASE ClearsGrants
  <2>1. tui'.at = "clearing"
    BY <1>3 DEF ClearsGrants, Idle
  <2> QED BY <2>1
<1>4. CASE tui' = Idle
  BY <1>4, TuiWith
<1>5. CASE UNCHANGED tui /\ ~TuiGoesOn
  BY <1>5 DEF TuiGoesOn
<1> QED BY <1>1, <1>2, <1>3, <1>4, <1>5, TuiMoves

LEMMA RevokedMove ==
    ASSUME IInv, Next
    PROVE  RecordsClear \/ UNCHANGED revoked
<1>1. CASE CallStep
  BY <1>1 DEF CallStep, Invoke, Returns, user
<1>2. CASE TuiGoesOn
  BY <1>2 DEF TuiGoesOn, Looks, Grants, FindsStore, RecordsGrant, Delivers,
              FindsStoreToClear, user
<1>3. CASE (\E c \in Calls : TakesRequest(c)) \/ \E o \in Outcome : Answers(o)
  BY <1>3 DEF TakesRequest, Answers, user
<1>4. CASE ClearsGrants \/ CancelsTurn \/ Restart
  BY <1>4 DEF ClearsGrants, CancelsTurn, Restart, user
<1>5. CASE NewSession \/ Installs \/ ResetsGrants \/ ClosesOld \/ TakesNewDone
  BY <1>5 DEF NewSession, Installs, ResetsGrants, ClosesOld, TakesNewDone, user
<1> QED BY <1>1, <1>2, <1>3, <1>4, <1>5 DEF Next

\* A card that takes the keys was not answered, so no log has its call.
LEMMA CardIsFresh ==
    ASSUME IInv, card # NoCall
    PROVE  /\ card \in Calls /\ pressed[card] = "none"
           /\ \A s \in Sessions : card \notin LoggedIn(s)
<1>1. card \in Calls /\ pressed[card] = "none"
  BY DEF IInv, TypeOK, AnswersAreTheUsers
<1>2. \A s \in Sessions : \A c \in LoggedIn(s) : pressed[c] = "session"
  BY LoggedIs DEF GrantIn, IInv, LogsAreTheUsers
<1> QED BY <1>1, <1>2

LEMMA StayLoggedOnce ==
    ASSUME GInv, Next
    PROVE  LogsOnce'
<1>0. IInv /\ LogsOnce
  BY DEF GInv
<1>1. ASSUME NEW s \in Sessions, NEW t \in Sessions, NEW c \in LoggedIn(s)' \cap LoggedIn(t)'
      PROVE  s = t
  <2>1. /\ c \in LoggedIn(s) \/ (RecordsGrant /\ c = tui.call /\ s = tui.store)
        /\ c \in LoggedIn(t) \/ (RecordsGrant /\ c = tui.call /\ t = tui.store)
    BY <1>0, LogsGrow
  <2>2. RecordsGrant => tui.call \notin LoggedIn(s) /\ tui.call \notin LoggedIn(t)
    BY <1>0 DEF RecordsGrant, LogsOnce, Answering
  <2> QED BY <1>0, <2>1, <2>2 DEF LogsOnce
<1>2. ASSUME Answering', NEW s \in Sessions
      PROVE  tui'.call \notin LoggedIn(s)'
  <2>1. CASE \E o \in Outcome : Answers(o) /\ tui'.call = card /\ card # NoCall
    <3>1. UNCHANGED logs
      BY <2>1 DEF Answers, disk
    <3> QED BY <1>0, <2>1, <3>1, CardIsFresh DEF LoggedIn
  <2>2. CASE Answering /\ tui'.call = tui.call /\ ~RecordsGrant
    BY <1>0, <2>2, LogsGrow DEF LogsOnce
  <2> QED BY <1>0, <1>2, <2>1, <2>2, AnsweringMoves
<1> QED BY <1>1, <1>2 DEF LogsOnce

LEMMA StayRevoked ==
    ASSUME GInv, Next
    PROVE  RevokedWereGranted'
<1>0. /\ IInv /\ RevokedWereGranted
      /\ revoked \subseteq Calls /\ "none" # "session"
  BY DEF GInv, IInv, TypeOK
<1> SUFFICES ASSUME NEW c \in revoked'
             PROVE  pressed'[c] # "none" /\ (Answering' => c # tui'.call)
  BY DEF RevokedWereGranted
<1>1. CASE c \in revoked
  <2>1. c \in Calls /\ pressed[c] # "none" /\ pressed'[c] = pressed[c]
    BY <1>0, <1>1, AnswersStay DEF RevokedWereGranted
  <2>2. Answering' => c # tui'.call
    BY <1>0, <1>1, <2>1, AnsweringMoves, CardIsFresh DEF RevokedWereGranted
  <2> QED BY <2>1, <2>2
<1>2. CASE c \notin revoked
  <2>1. RecordsClear /\ c \in LoggedIn(tui.store)
    BY <1>0, <1>2, RevokedMove DEF RecordsClear
  <2>2. tui.store \in Sessions /\ tui' = Idle
    BY <1>0, <2>1 DEF RecordsClear, IInv, ResolveWorks
  <2>3. c \in Calls /\ pressed[c] = "session"
    BY <1>0, <2>1, <2>2, LoggedIs DEF GrantIn, IInv, LogsAreTheUsers
  <2>4. pressed'[c] = "session"
    BY <1>0, <2>3, AnswersStay
  <2> QED BY <2>2, <2>4 DEF Answering, Idle
<1> QED BY <1>1, <1>2

\* What the disk has of a log grows, but for the log of a session that is resumed.
LEMMA SyncedMoves ==
    ASSUME IInv, Next
    PROVE  RecordsClear \/ Restart \/ ClosesOld \/ UNCHANGED synced
<1>1. CASE CallStep
  BY <1>1 DEF CallStep, Invoke, Returns, disk
<1>2. CASE TuiGoesOn
  BY <1>2 DEF TuiGoesOn, Looks, Grants, FindsStore, RecordsGrant, Delivers,
              FindsStoreToClear, disk
<1>3. CASE (\E c \in Calls : TakesRequest(c)) \/ \E o \in Outcome : Answers(o)
  BY <1>3 DEF TakesRequest, Answers, disk
<1>4. CASE ClearsGrants \/ CancelsTurn
  BY <1>4 DEF ClearsGrants, CancelsTurn, disk
<1>5. CASE NewSession \/ Installs \/ ResetsGrants \/ TakesNewDone
  BY <1>5 DEF NewSession, Installs, ResetsGrants, TakesNewDone, disk
<1> QED BY <1>1, <1>2, <1>3, <1>4, <1>5 DEF Next

\* That the grant at i is cleared on the disk.
ClearedAfter(log, i, n) ==
    \E k \in DOMAIN log : k > i /\ k <= n /\ log[k].kind = "cleared"

LEMMA StaySynced ==
    ASSUME GInv, Next
    PROVE  ClearsAreSynced'
<1>0. /\ IInv /\ logs \in [Sessions -> Seq(Event)] /\ created \in Sessions
      /\ synced \in [Sessions -> Nat]
  BY DEF GInv, IInv, TypeOK, Event
<1>1. \A s \in Sessions : \A i \in DOMAIN logs[s] :
          logs[s][i].kind = "granted" /\ logs[s][i].of \in revoked
              => ClearedAfter(logs[s], i, synced[s])
  BY DEF GInv, ClearsAreSynced, ClearedAfter
<1> SUFFICES ASSUME NEW s \in Sessions, NEW i \in DOMAIN logs'[s],
                    logs'[s][i].kind = "granted", logs'[s][i].of \in revoked'
             PROVE  ClearedAfter(logs'[s], i, synced'[s])
  BY DEF ClearsAreSynced, ClearedAfter
<1>2. CASE RecordsGrant
  <2>1. tui.call \in Calls /\ tui.call \notin revoked /\ UNCHANGED <<synced, revoked>>
    BY <1>0, <1>2 DEF RecordsGrant, user, IInv, ResolveWorks, GInv, RevokedWereGranted, Answering
  <2>2. logs'[s] = logs[s] \/ logs'[s] = Append(logs[s], Granted(tui.call))
    BY <1>0, <1>2 DEF RecordsGrant
  <2>3. CASE logs'[s] = Append(logs[s], Granted(tui.call))
    <3>1. /\ Len(logs[s]) \in Nat /\ DOMAIN logs[s] = 1..Len(logs[s])
          /\ DOMAIN logs'[s] = 1..Len(logs[s])+1
          /\ logs'[s][Len(logs[s])+1] = Granted(tui.call)
          /\ \A k \in DOMAIN logs[s] : logs'[s][k] = logs[s][k]
      BY <1>0, <2>3
    <3>2. Granted(tui.call).of = tui.call
      BY DEF Granted
    <3>3. i \in DOMAIN logs[s]
      BY <2>1, <3>1, <3>2
    <3>4. ClearedAfter(logs[s], i, synced[s])
      BY <1>1, <2>1, <3>1, <3>3
    <3> QED BY <2>1, <3>1, <3>4 DEF ClearedAfter
  <2> QED BY <1>1, <2>1, <2>2, <2>3
<1>3. CASE RecordsClear
  <2>1. \/ UNCHANGED <<logs, synced, revoked>>
        \/ /\ logs' = [logs EXCEPT ![tui.store] = Append(@, Cleared)]
           /\ synced' = [synced EXCEPT ![tui.store] = Len(logs[tui.store]) + 1]
           /\ revoked' = revoked \cup LoggedIn(tui.store)
    BY <1>3 DEF RecordsClear, disk
  <2>2. CASE UNCHANGED <<logs, synced, revoked>>
    BY <1>1, <2>2
  <2>3. CASE /\ logs' = [logs EXCEPT ![tui.store] = Append(@, Cleared)]
             /\ synced' = [synced EXCEPT ![tui.store] = Len(logs[tui.store]) + 1]
             /\ revoked' = revoked \cup LoggedIn(tui.store)
    <3>1. CASE s = tui.store
      <4>1. /\ Len(logs[s]) \in Nat
            /\ DOMAIN logs'[s] = 1..Len(logs[s])+1
            /\ logs'[s][Len(logs[s])+1] = Cleared /\ synced'[s] = Len(logs[s]) + 1
        BY <1>0, <2>3, <3>1
      <4>2. Cleared.kind = "cleared"
        BY DEF Cleared
      <4>3. i # Len(logs[s]) + 1
        BY <4>1, <4>2
      <4>4. Len(logs[s]) + 1 \in DOMAIN logs'[s] /\ Len(logs[s]) + 1 > i
        BY <4>1, <4>3
      <4> QED BY <4>1, <4>2, <4>4 DEF ClearedAfter
    <3>2. CASE s # tui.store
      <4>1. logs'[s] = logs[s] /\ synced'[s] = synced[s]
        BY <1>0, <2>3, <3>2
      <4>2. logs[s][i].of \in LoggedIn(s)
        BY <4>1, LoggedIs DEF GrantIn
      <4>3. tui.store \in Sessions
        BY <1>0, <1>3 DEF RecordsClear, IInv, ResolveWorks
      <4>4. logs[s][i].of \notin LoggedIn(tui.store)
        BY <3>2, <4>2, <4>3 DEF GInv, LogsOnce
      <4>5. i \in DOMAIN logs[s] /\ logs[s][i].kind = "granted" /\ logs[s][i].of \in revoked
        <5>1. logs'[s][i] = logs[s][i] /\ i \in DOMAIN logs[s]
          BY <4>1
        <5>2. logs[s][i].of \in revoked \cup LoggedIn(tui.store)
          BY <2>3, <5>1
        <5> QED BY <4>4, <5>1, <5>2
      <4>6. ClearedAfter(logs[s], i, synced[s])
        BY <1>1, <4>5
      <4> QED BY <4>1, <4>6
    <3> QED BY <3>1, <3>2
  <2> QED BY <2>1, <2>2, <2>3
<1>4. CASE Restart
  <2>1. PICK n \in synced[created]..Len(logs[created]) :
            /\ logs' = [logs EXCEPT ![created] = SubSeq(logs[created], 1, n)]
            /\ synced' = [synced EXCEPT ![created] = n] \/ UNCHANGED synced
    BY <1>4 DEF Restart
  <2>2. n \in 0..Len(logs[created]) /\ synced[created] <= n /\ synced[created] \in Nat
    BY <1>0
  <2>3. UNCHANGED revoked
    BY <1>4 DEF Restart, user
  <2>4. CASE s = created
    <3>1. /\ logs'[s] = SubSeq(logs[s], 1, n)
          /\ synced'[s] = n \/ synced'[s] = synced[s]
      BY <1>0, <2>1, <2>4
    <3>2. /\ DOMAIN logs'[s] = 1..n /\ 1..n \subseteq DOMAIN logs[s]
          /\ \A k \in 1..n : logs'[s][k] = logs[s][k]
      BY <1>0, <2>2, <2>4, <3>1, CutOf
    <3>3. PICK k \in DOMAIN logs[s] : k > i /\ k <= synced[s] /\ logs[s][k].kind = "cleared"
      BY <1>1, <2>3, <3>2 DEF ClearedAfter
    <3>4. DOMAIN logs[s] \subseteq Nat \ {0}
      BY <1>0
    <3>5. k \in 1..n /\ k <= synced'[s]
      BY <2>2, <2>4, <3>1, <3>3, <3>4
    <3> QED BY <3>2, <3>3, <3>5 DEF ClearedAfter
  <2>5. CASE s # created
    BY <1>0, <1>1, <2>1, <2>3, <2>5
  <2> QED BY <2>4, <2>5
<1>5. CASE ~RecordsGrant /\ ~RecordsClear /\ ~Restart
  <2>1. UNCHANGED <<logs, revoked>>
    BY <1>0, <1>5, LogsMove, RevokedMove DEF Restart
  <2>2. ClearedAfter(logs[s], i, synced[s])
    BY <1>1, <2>1
  <2>3. synced'[s] = synced[s] \/ synced'[s] = Len(logs[s])
    BY <1>0, <1>5, SyncedMoves DEF ClosesOld
  <2>4. DOMAIN logs[s] = 1..Len(logs[s])
    BY <1>0
  <2> QED BY <2>1, <2>2, <2>3, <2>4 DEF ClearedAfter
<1> QED BY <1>2, <1>3, <1>4, <1>5

LEMMA StayCleared ==
    ASSUME GInv, Next
    PROVE  ClearingHasNone'
<1>0. TypeOK /\ IInv
  BY DEF GInv, IInv
<1> SUFFICES ASSUME tui'.at \in {"clearing", "clear"}
             PROVE  grants' = {}
  BY DEF ClearingHasNone
<1>1. tui' # Idle
  BY TuiWith, <1>0
<1>2. CASE \E o \in Outcome : Answers(o)
  <2>1. tui'.at = "called"
    BY <1>2 DEF Answers, Tui
  <2> QED BY <2>1
<1>3. CASE ClearsGrants
  BY <1>3 DEF ClearsGrants
<1>4. CASE TuiGoesOn
  <2>1. CASE Looks \/ Grants \/ FindsStore \/ RecordsGrant
    <3>1. \/ \E at \in {"grant", "deliver", "find"} : tui' = [tui EXCEPT !.at = at]
          \/ tui' = [tui EXCEPT !.at = "record", !.store = store]
      BY <1>1, <2>1 DEF Looks, Grants, FindsStore, RecordsGrant
    <3>2. CASE \E at \in {"grant", "deliver", "find"} : tui' = [tui EXCEPT !.at = at]
      BY <1>0, <3>2, TuiWith
    <3>3. CASE tui' = [tui EXCEPT !.at = "record", !.store = store]
      BY <1>0, <3>3, TuiWith
    <3> QED BY <3>1, <3>2, <3>3
  <2>2. CASE Delivers \/ RecordsClear
    BY <1>1, <2>2 DEF Delivers, RecordsClear
  <2>3. CASE FindsStoreToClear
    BY <2>3 DEF FindsStoreToClear, GInv, ClearingHasNone
  <2> QED BY <1>4, <2>1, <2>2, <2>3 DEF TuiGoesOn
<1>5. CASE UNCHANGED tui
  <2>1. grants = {}
    BY <1>5 DEF GInv, ClearingHasNone
  <2>2. ~Grants
    BY <1>5 DEF Grants
  <2>3. ~Restart
    BY <1>1 DEF Restart
  <2> QED BY <1>0, <2>1, <2>2, <2>3, GrantsMove
<1> QED BY <1>0, <1>1, <1>2, <1>3, <1>4, <1>5, TuiMoves

LEMMA SessionsMove ==
    ASSUME IInv, Next
    PROVE  Installs \/ ResetsGrants \/ ClosesOld \/ TakesNewDone \/ NewSession \/ Restart
             \/ UNCHANGED <<store, news>>
<1>1. CASE CallStep
  BY <1>1 DEF CallStep, Invoke, Returns, session
<1>2. CASE TuiGoesOn
  BY <1>2 DEF TuiGoesOn, Looks, Grants, FindsStore, RecordsGrant, Delivers,
              FindsStoreToClear, RecordsClear, session
<1>3. CASE (\E c \in Calls : TakesRequest(c)) \/ \E o \in Outcome : Answers(o)
  BY <1>3 DEF TakesRequest, Answers, session
<1>4. CASE ClearsGrants \/ CancelsTurn
  BY <1>4 DEF ClearsGrants, CancelsTurn, session
<1> QED BY <1>1, <1>2, <1>3, <1>4 DEF Next

\* Nothing but a callback moves the TUI past the grant it is about to record.
LEMMA RecordingStays ==
    ASSUME IInv, Next, tui.at \in {"find", "record"}
    PROVE  FindsStore \/ RecordsGrant \/ Restart \/ UNCHANGED tui
<1>0. tui # Idle
  BY TuiWith DEF IInv
<1>1. CASE CallStep \/ \E c \in Calls : TakesRequest(c)
  BY <1>0, <1>1 DEF CallStep, Invoke, Returns, TakesRequest
<1>2. CASE TuiGoesOn
  BY <1>2 DEF TuiGoesOn, Looks, Grants, Delivers, FindsStoreToClear, RecordsClear
<1>3. CASE (\E o \in Outcome : Answers(o)) \/ ClearsGrants \/ CancelsTurn
  BY <1>0, <1>3 DEF Answers, ClearsGrants, CancelsTurn
<1>4. CASE NewSession \/ Installs \/ ResetsGrants \/ ClosesOld \/ TakesNewDone
  BY <1>4 DEF NewSession, Installs, ResetsGrants, ClosesOld, TakesNewDone
<1> QED BY <1>1, <1>2, <1>3, <1>4 DEF Next

LEMMA StayLogged ==
    ASSUME GInv, Next
    PROVE  MemoryIsLogged'
<1>0. /\ IInv /\ TypeOK /\ store \in Sessions /\ created \in Sessions
      /\ logs \in [Sessions -> Seq(Event)] /\ synced \in [Sessions -> Nat]
  BY DEF GInv, IInv, TypeOK, Event
<1>1. CASE grants' = {}
  BY <1>1 DEF MemoryIsLogged
<1>2. CASE Restart /\ grants' # {}
  <2>1. PICK n \in synced[created]..Len(logs[created]) :
            /\ logs' = [logs EXCEPT ![created] = SubSeq(logs[created], 1, n)]
            /\ store' = created
            /\ grants' = Restored(setting', SubSeq(logs[created], 1, n))
    BY <1>2 DEF Restart
  <2>2. logs'[store'] = SubSeq(logs[created], 1, n)
    BY <1>0, <2>1
  <2>3. \A g \in grants' : g.of \in Loaded(logs'[store'])
    <3> SUFFICES ASSUME NEW g \in grants' PROVE g.of \in Loaded(logs'[store'])
      OBVIOUS
    <3>1. PICK c \in Loaded(SubSeq(logs[created], 1, n)) :
              g = [argv |-> Fields(calls[c].req.argv), of |-> c]
      BY <2>1 DEF Restored
    <3>2. g.of = c
      BY <3>1
    <3> QED BY <2>2, <3>2
  <2> QED BY <2>3 DEF MemoryIsLogged, Loaded
<1>3. CASE ~Restart /\ grants' # {} /\ ~Installs
  <2> SUFFICES ASSUME news' # "swapped", NEW g \in grants'
               PROVE  \/ g.of \in Loaded(logs'[store'])
                      \/ g.of = tui'.call /\ tui'.at = "find"
                      \/ g.of = tui'.call /\ tui'.at = "record" /\ tui'.store = store'
    BY DEF MemoryIsLogged, Loaded
  <2>1. store' = store /\ news # "swapped"
    <3>1. ~ResetsGrants
      BY <1>3 DEF ResetsGrants
    <3> QED BY <1>0, <1>3, <3>1, SessionsMove DEF ClosesOld, TakesNewDone, NewSession
  <2>2. CASE Grants
    <3>1. tui' = [tui EXCEPT !.at = "find"] \/ UNCHANGED grants
      BY <2>2 DEF Grants
    <3>2. UNCHANGED logs /\ tui.at \notin {"find", "record"}
      BY <2>2 DEF Grants, disk
    <3>3. CASE g \in grants
      BY <2>1, <3>2, <3>3 DEF GInv, MemoryIsLogged
    <3>4. CASE g \notin grants
      <4>1. g.of = tui.call
        BY <1>0, <3>4, <2>2, GrantAdds
      <4>2. tui'.at = "find" /\ tui'.call = tui.call
        BY <1>0, <3>1, <3>4, TuiWith
      <4> QED BY <4>1, <4>2
    <3> QED BY <3>3, <3>4
  <2>3. CASE ~Grants
    <3>1. g \in grants
      BY <1>0, <1>3, <2>3, GrantsMove
    <3>2. \/ g.of \in Loaded(logs[store])
          \/ g.of = tui.call /\ tui.at = "find"
          \/ g.of = tui.call /\ tui.at = "record" /\ tui.store = store
      BY <2>1, <3>1 DEF GInv, MemoryIsLogged
    <3>3. CASE RecordsGrant
      <4>1. tui.call \in Calls /\ tui.at = "record"
        BY <1>0, <3>3 DEF RecordsGrant, IInv, ResolveWorks
      <4>2. CASE tui.store = store
        <5>1. logs'[store] = Append(logs[store], Granted(tui.call))
          BY <1>0, <3>3, <4>2 DEF RecordsGrant, Open
        <5>2. Loaded(logs[store]) \cup {tui.call} \subseteq Loaded(logs'[store])
          BY <1>0, <4>1, <5>1, AppendGrant
        <5> QED BY <2>1, <3>2, <4>1, <5>2
      <4>3. CASE tui.store # store
        <5>1. logs'[store] = logs[store]
          BY <1>0, <3>3, <4>3 DEF RecordsGrant
        <5> QED BY <2>1, <3>2, <4>1, <4>3, <5>1
      <4> QED BY <4>2, <4>3
    <3>4. CASE ~RecordsGrant
      <4>1. ~RecordsClear
        <5>1. grants # {}
          BY <3>1
        <5> QED BY <5>1 DEF RecordsClear, GInv, ClearingHasNone
      <4>2. UNCHANGED logs
        BY <1>0, <1>3, <3>4, <4>1, LogsMove
      <4>3. CASE tui.at \in {"find", "record"}
        <5>1. CASE FindsStore
          <6>1. tui' = [tui EXCEPT !.at = "record", !.store = store] /\ tui.at = "find"
            BY <5>1 DEF FindsStore
          <6>2. tui'.at = "record" /\ tui'.call = tui.call /\ tui'.store = store
            BY <1>0, <6>1, TuiWith
          <6> QED BY <2>1, <3>2, <4>2, <6>1, <6>2
        <5>2. CASE UNCHANGED tui
          BY <2>1, <3>2, <4>2, <5>2
        <5> QED BY <1>0, <1>3, <3>4, <4>3, <5>1, <5>2, RecordingStays
      <4>4. CASE tui.at \notin {"find", "record"}
        BY <2>1, <3>2, <4>2, <4>4
      <4> QED BY <4>3, <4>4
    <3> QED BY <3>3, <3>4
  <2> QED BY <2>2, <2>3
<1>4. CASE Installs
  BY <1>4 DEF Installs, MemoryIsLogged
<1> QED BY <1>1, <1>2, <1>3, <1>4

LEMMA GStepHolds == GInv /\ [Next]_vars => GInv'
<1> SUFFICES ASSUME GInv, [Next]_vars PROVE GInv'
  OBVIOUS
<1>1. IInv'
  BY StepHolds DEF GInv
<1>2. CASE Next
  BY <1>1, <1>2, StayLoggedOnce, StayRevoked, StaySynced, StayCleared, StayLogged DEF GInv
<1>3. CASE UNCHANGED vars
  <2> USE <1>3 DEF vars, GInv
  <2>1. LogsOnce'
    BY DEF LogsOnce, Answering, LoggedIn
  <2>2. RevokedWereGranted' /\ ClearingHasNone'
    BY DEF RevokedWereGranted, Answering, ClearingHasNone
  <2>3. ClearsAreSynced'
    BY DEF ClearsAreSynced
  <2>4. MemoryIsLogged'
    BY DEF MemoryIsLogged, Loaded
  <2> QED BY <1>1, <2>1, <2>2, <2>3, <2>4
<1> QED BY <1>2, <1>3

\* So does what the grants in memory and those of the logs have to do with each
\* other (Resolve, ClearGrants, installSession, LoadGrants).
THEOREM GrantInvariant == Spec => []GInv
<1> QED BY GInit, GStepHolds, PTL DEF Spec

\* No grant that a clear took away comes back, whenever the process is killed and
\* whatever a restart finds in the log (ClearGrants, LoadGrants, restoreGrants).
THEOREM ClearsHold == Spec => []ClearedStaysCleared
<1>1. Init => ClearedStaysCleared
  BY DEF Init, ClearedStaysCleared
<1>2. GInv /\ ClearedStaysCleared /\ [Next]_vars => ClearedStaysCleared'
  <2> SUFFICES ASSUME GInv, ClearedStaysCleared, [Next]_vars PROVE ClearedStaysCleared'
    OBVIOUS
  <2>0. IInv
    BY DEF GInv
  <2>1. CASE UNCHANGED vars
    BY <2>1 DEF vars, ClearedStaysCleared
  <2>2. CASE Next /\ grants' # {} /\ ~Restart
    <3>1. ~RecordsClear
      BY <2>2 DEF RecordsClear, GInv, ClearingHasNone
    <3>2. UNCHANGED revoked
      BY <2>0, <2>2, <3>1, RevokedMove
    <3>3. CASE Grants
      <4>1. tui.call \notin revoked
        BY <3>3 DEF Grants, GInv, RevokedWereGranted, Answering
      <4> QED BY <2>0, <3>2, <3>3, <4>1, GrantAdds DEF ClearedStaysCleared
    <3>4. CASE UNCHANGED grants
      BY <3>2, <3>4 DEF ClearedStaysCleared
    <3> QED BY <2>0, <2>2, <3>3, <3>4, GrantsMove
  <2>3. CASE Restart /\ grants' # {}
    <3>0. /\ logs[created] \in Seq(Event) /\ synced[created] \in Nat /\ created \in Sessions
      BY <2>0 DEF IInv, TypeOK, Event
    <3>1. PICK n \in synced[created]..Len(logs[created]) :
              grants' = Restored(setting', SubSeq(logs[created], 1, n))
      BY <2>3 DEF Restart
    <3>2. UNCHANGED revoked /\ n \in 0..Len(logs[created]) /\ synced[created] <= n
      BY <2>3, <3>0 DEF Restart, user
    <3> DEFINE log == SubSeq(logs[created], 1, n)
    <3>3. SUFFICES ASSUME NEW c \in Loaded(log), c \in revoked PROVE FALSE
      BY <3>1, <3>2 DEF ClearedStaysCleared, Restored
    <3>4. PICK i \in DOMAIN log : /\ log[i].kind = "granted" /\ log[i].of = c
                                  /\ \A k \in DOMAIN log : log[k].kind = "cleared" => k < i
      BY <3>3 DEF Loaded
    <3>5. /\ DOMAIN log = 1..n /\ 1..n \subseteq DOMAIN logs[created]
          /\ \A k \in 1..n : log[k] = logs[created][k]
      BY <3>0, <3>2, CutOf
    <3> HIDE DEF log
    <3>6. PICK k \in DOMAIN logs[created] :
              k > i /\ k <= synced[created] /\ logs[created][k].kind = "cleared"
      BY <3>0, <3>3, <3>4, <3>5 DEF GInv, ClearsAreSynced
    <3>7. DOMAIN logs[created] \subseteq Nat \ {0}
      BY <3>0
    <3>8. k \in 1..n /\ ~(k < i)
      BY <3>0, <3>2, <3>4, <3>5, <3>6, <3>7
    <3> QED BY <3>4, <3>5, <3>6, <3>8
  <2>4. CASE grants' = {}
    BY <2>4 DEF ClearedStaysCleared
  <2> QED BY <2>1, <2>2, <2>3, <2>4
<1> QED BY <1>1, <1>2, GrantInvariant, PTL DEF Spec

\* Outside of the callbacks no grant is in force that resuming the session would not
\* bring back: each is in the log of the current session, and no clear is after it.
THEOREM MemoryHasNoMoreThanTheLog == Spec => []GrantsAreRecorded
<1>1. GInv => GrantsAreRecorded
  BY DEF GInv, MemoryIsLogged, GrantsAreRecorded
<1> QED BY <1>1, GrantInvariant, PTL
=============================================================================
