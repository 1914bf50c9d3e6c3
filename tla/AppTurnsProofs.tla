---------------------------- MODULE AppTurnsProofs ----------------------------
(***************************************************************************)
(* Whatever the order of keys, messages and goroutines: no job outlives    *)
(* its session, a /compact and a turn never meet, and one CancelTurn       *)
(* reaches every job that runs.  For any number of jobs and sessions.      *)
(*                                                                         *)
(* What the three have in common is how the jobs move: every step is one   *)
(* of the five kinds below (StepMoves), and each invariant is proved over  *)
(* these instead of over the actions.                                      *)
(***************************************************************************)
EXTENDS AppTurns, TLAPS

\* A job has the stages of its kind.
Stages ==
    \A j \in Jobs :
        /\ jobs[j].kind = "none" => jobs[j].stage = "none"
        /\ jobs[j].kind = "turn" => jobs[j].stage # "none"
        /\ jobs[j].kind = "compact" => jobs[j].stage \in {"starting", "summary", "ended"}

IInv == TypeOK /\ Stages /\ JobsBelongToSession /\ CompactsAlone /\ OnlyNewestRuns

-----------------------------------------------------------------------------
(* How the jobs move *)

OthersKept(j) == \A i \in Jobs \ {j} : jobs'[i] = jobs[i]

\* No job moves; contexts may be cancelled.
Rests == UNCHANGED <<session, jobs, stop>> /\ cancelled \subseteq cancelled'

\* A live turn goes on or ends, or a live compaction ends.
GoesOn(j) ==
    /\ UNCHANGED <<session, stop, cancelled>>
    /\ OthersKept(j)
    /\ Live(j) /\ jobs'[j].stage # "none"
    /\ jobs'[j].kind = jobs[j].kind /\ jobs'[j].conv = jobs[j].conv
    /\ jobs'[j].store \in {jobs[j].store, session}
    /\ \/ LiveTurn(j)
       \/ jobs[j].kind = "compact" /\ jobs'[j].stage = "ended"

\* A job begins to use the conversation: a turn that is submitted, or a
\* compaction that claimed it.
Claims(j) ==
    /\ session' = session
    /\ BeginTurn(j)
    /\ OthersKept(j)
    /\ jobs'[j].conv = session /\ jobs'[j].store \in {0, session}
    /\ \/ ~Compacting /\ jobs'[j].kind = "turn" /\ jobs'[j].stage = "starting"
       \/ /\ \A i \in Jobs : ~LiveTurn(i)
          /\ jobs'[j].kind = "compact" /\ jobs'[j].stage = "summary"

\* A /compact is asked for, and claims nothing yet.
Asks(j) ==
    /\ UNCHANGED <<session, stop, cancelled>>
    /\ OthersKept(j)
    /\ jobs'[j].kind = "compact" /\ jobs'[j].stage = "starting"

\* A session is installed while no job is in flight.
Installs == InFlight = {} /\ UNCHANGED <<jobs, stop, cancelled>>

Moves ==
    \/ Rests
    \/ \E j \in Jobs : GoesOn(j) \/ Claims(j) \/ Asks(j)
    \/ Installs

LEMMA InitHolds == Init => IInv
<1> SUFFICES ASSUME Init PROVE IInv
  OBVIOUS
<1> USE BoundAssumption DEF Init
<1>1. TypeOK
  <2>1. NoJob \in Job
    BY DEF NoJob, Job
  <2>2. session \in Sessions /\ stop \in 0..MaxJobs /\ card \in 0..MaxJobs
    BY DEF Sessions
  <2> QED BY <2>1, <2>2 DEF TypeOK, ToolStage
<1>2. Stages /\ InFlight = {} /\ \A j \in Jobs : ~Live(j)
  BY DEF Stages, InFlight, LiveTurn, Live, NoJob
<1> QED BY <1>1, <1>2 DEF IInv, JobsBelongToSession, CompactsAlone, OnlyNewestRuns

\* Every step is of one of the five kinds.
LEMMA StepMoves ==
    ASSUME TypeOK, Stages, [Next]_vars
    PROVE  Moves
<1> USE DEF TypeOK
<1>1. CASE User
  <2>1. ASSUME NEW j \in Jobs, UserSubmits(j) PROVE Moves
    <3>1. CASE UNCHANGED <<jobs, stop, cancelled>>
      BY <2>1, <3>1 DEF UserSubmits, Moves, Rests
    <3>2. CASE ~(UNCHANGED <<jobs, stop, cancelled>>)
      <4>1. Claims(j)
        BY <2>1, <3>2 DEF UserSubmits, Claims, OthersKept, SubmitRefused, NoJob
      <4> QED BY <4>1 DEF Moves
    <3> QED BY <3>1, <3>2
  <2>2. ASSUME NEW j \in Jobs, UserCompacts(j) PROVE Moves
    <3>1. Asks(j)
      BY <2>2 DEF UserCompacts, Asks, OthersKept, NoJob
    <3> QED BY <3>1 DEF Moves
  <2>3. ASSUME NEW s \in Sessions, UserStartsNew(s) PROVE Moves
    BY <2>3 DEF UserStartsNew, Moves, Rests
  <2>4. ASSUME UserEscapes PROVE Moves
    BY <2>4 DEF UserEscapes, TuiCancelsTurn, CancelTurn, Moves, Rests
  <2>5. ASSUME NEW a \in Answer, UserAnswers(a) PROVE Moves
    BY <2>5 DEF UserAnswers, Moves, Rests
  <2> QED BY <1>1, <2>1, <2>2, <2>3, <2>4, <2>5 DEF User
<1>2. CASE TuiTakes
  BY <1>2 DEF TuiTakes, TakesActiveOrIdle, TakesCancelled, TakesCompactDone, TakesNewDone,
              TuiCancelsTurn, CancelTurn, app, Moves, Rests
<1>3. ASSUME NEW j \in Jobs, Unwinds(j) PROVE Moves
  <2> SUFFICES GoesOn(j)
    BY DEF Moves
  <2> USE DEF GoesOn, OthersKept, LiveTurn, Live, Step, Job, Stages
  <2>1. CASE TurnStarts(j)
    BY <2>1 DEF TurnStarts
  <2>2. CASE TurnCompacted(j)
    BY <2>2 DEF TurnCompacted
  <2>3. CASE TurnEnds(j)
    BY <2>3 DEF TurnEnds
  <2>4. CASE CompactEnds(j)
    BY <2>4 DEF CompactEnds
  <2> QED BY <1>3, <2>1, <2>2, <2>3, <2>4 DEF Unwinds
<1>4. ASSUME NEW j \in Jobs, CompactBegins(j) PROVE Moves
  <2>1. CASE MayCompact
    <3>1. Claims(j)
      BY <1>4, <2>1 DEF CompactBegins, MayCompact, Claims, OthersKept, Job
    <3> QED BY <3>1 DEF Moves
  <2>2. CASE ~MayCompact
    <3>1. GoesOn(j)
      BY <1>4, <2>2 DEF CompactBegins, GoesOn, OthersKept, Live, Step, Job
    <3> QED BY <3>1 DEF Moves
  <2> QED BY <2>1, <2>2
<1>5. ASSUME NEW j \in Jobs, TurnCallsTool(j) \/ TurnTakesResult(j) PROVE Moves
  <2>1. GoesOn(j)
    BY <1>5 DEF TurnCallsTool, TurnTakesResult, GoesOn, OthersKept, LiveTurn, Live, Step,
                Job, Stages
  <2> QED BY <2>1 DEF Moves
<1>6. ASSUME NEW j \in Jobs, TurnSpeaks(j) PROVE Moves
  BY <1>6 DEF TurnSpeaks, app, Moves, Rests
<1>7. ASSUME NEW j \in Jobs, Tool(j) PROVE Moves
  BY <1>7 DEF Tool, ToolAsks, ToolAnswered, ToolWorks, ToolReports, Moves, Rests
<1>8. ASSUME NEW s \in Sessions, NewSessionLocks(s) PROVE Moves
  BY <1>8 DEF NewSessionLocks, CancelTurn, Moves, Rests
<1>9. ASSUME NEW s \in Sessions, NewSessionInstalls(s) PROVE Moves
  BY <1>9 DEF NewSessionInstalls, Moves, Installs
<1>10. CASE UNCHANGED vars
  BY <1>10 DEF vars, Moves, Rests
<1> QED BY <1>1, <1>2, <1>3, <1>4, <1>5, <1>6, <1>7, <1>8, <1>9, <1>10 DEF Next

-----------------------------------------------------------------------------
(* Types *)

LEMMA StepKeepsTypes == TypeOK /\ [Next]_vars => TypeOK'
<1> SUFFICES ASSUME TypeOK, [Next]_vars PROVE TypeOK'
  OBVIOUS
<1>0. /\ \A j \in Jobs : j \in 0..MaxJobs /\ j \in 0..(MaxJobs + MaxSessions)
      /\ \A s \in Sessions : s \in 0..MaxSessions /\ s \in 0..(MaxJobs + MaxSessions)
      /\ 0 \in 0..MaxJobs /\ 0 \in 0..MaxSessions /\ 0 \in 0..(MaxJobs + MaxSessions)
  BY BoundAssumption DEF Jobs, Sessions
<1> USE DEF TypeOK
<1>a. \A j \in Jobs : cancelled \cup ({stop} \ {0}) \subseteq Jobs
  BY BoundAssumption DEF Jobs
<1>b. \A j \in Jobs : BeginTurn(j) => stop' \in 0..MaxJobs /\ cancelled' \subseteq Jobs
  BY <1>0, <1>a DEF BeginTurn
<1>c. NoJob \in Job
  BY <1>0 DEF NoJob, Job
<1>d. CancelTurn => cancelled' \subseteq Jobs
  BY BoundAssumption DEF CancelTurn, Jobs
<1>1. CASE User
  <2>1. ASSUME NEW j \in Jobs, UserSubmits(j) PROVE TypeOK'
    <3>1. [NoJob EXCEPT !.kind = "turn", !.stage = "starting", !.conv = session] \in Job
      BY <1>0 DEF NoJob, Job
    <3> QED BY <2>1, <3>1, <1>0, <1>b DEF UserSubmits, Send, Msg, MessageKind
  <2>2. ASSUME NEW j \in Jobs, UserCompacts(j) PROVE TypeOK'
    <3>1. [NoJob EXCEPT !.kind = "compact", !.stage = "starting"] \in Job
      BY <1>0 DEF NoJob, Job
    <3> QED BY <2>2, <3>1 DEF UserCompacts
  <2>3. ASSUME NEW s \in Sessions, UserStartsNew(s) PROVE TypeOK'
    BY <2>3 DEF UserStartsNew
  <2>4. ASSUME UserEscapes PROVE TypeOK'
    BY <2>4, <1>d DEF UserEscapes, TuiCancelsTurn
  <2>5. ASSUME NEW a \in Answer, UserAnswers(a) PROVE TypeOK'
    BY <2>5, <1>0 DEF UserAnswers, ToolStage
  <2> QED BY <1>1, <2>1, <2>2, <2>3, <2>4, <2>5 DEF User
<1>2. CASE TuiTakes
  BY <1>2, <1>0, <1>d DEF TuiTakes, Take, TakesActiveOrIdle, TakesCancelled, TakesCompactDone,
                    TakesNewDone, TuiCancelsTurn, app
<1>3. ASSUME NEW j \in Jobs, Unwinds(j) PROVE TypeOK'
  <2> USE <1>0 DEF Step, Job, Send, SendAndFlush, Msg, MessageKind
  <2>1. CASE TurnStarts(j)
    BY <2>1 DEF TurnStarts
  <2>2. CASE TurnCompacted(j)
    BY <2>2 DEF TurnCompacted
  <2>3. CASE TurnEnds(j)
    BY <2>3 DEF TurnEnds
  <2>4. CASE CompactEnds(j)
    BY <2>4 DEF CompactEnds
  <2> QED BY <1>3, <2>1, <2>2, <2>3, <2>4 DEF Unwinds
<1>4. ASSUME NEW j \in Jobs, CompactBegins(j) PROVE TypeOK'
  BY <1>4, <1>0, <1>b DEF CompactBegins, Step, Job, Send, Msg, MessageKind
<1>5. ASSUME NEW j \in Jobs, TurnSpeaks(j) \/ TurnCallsTool(j) \/ TurnTakesResult(j)
      PROVE  TypeOK'
  BY <1>5, <1>0 DEF TurnSpeaks, TurnCallsTool, TurnTakesResult, Step, Job, ToolStage, Send,
                    Msg, MessageKind, app, tui
<1>6. ASSUME NEW j \in Jobs, Tool(j) PROVE TypeOK'
  BY <1>6, <1>0 DEF Tool, ToolAsks, ToolAnswered, ToolWorks, ToolReports, ToolStep,
                    ToolStage, tui
<1>7. ASSUME NEW s \in Sessions, NewSessionLocks(s) \/ NewSessionInstalls(s) PROVE TypeOK'
  BY <1>7, <1>0, <1>d DEF NewSessionLocks, NewSessionInstalls, Send, Msg, MessageKind
<1>8. CASE UNCHANGED vars
  BY <1>8 DEF vars
<1> QED BY <1>1, <1>2, <1>3, <1>4, <1>5, <1>6, <1>7, <1>8 DEF Next

-----------------------------------------------------------------------------
(* The invariants, over how the jobs move *)

LEMMA MovesKeepStages ==
    ASSUME TypeOK, TypeOK', Stages, Moves PROVE Stages'
<1>1. CASE Rests
  BY <1>1 DEF Rests, Stages
<1>2. ASSUME NEW j \in Jobs, GoesOn(j) \/ Claims(j) \/ Asks(j) PROVE Stages'
  <2> SUFFICES ASSUME NEW i \in Jobs
               PROVE /\ jobs'[i].kind = "none" => jobs'[i].stage = "none"
                     /\ jobs'[i].kind = "turn" => jobs'[i].stage # "none"
                     /\ jobs'[i].kind = "compact" =>
                            jobs'[i].stage \in {"starting", "summary", "ended"}
    BY DEF Stages
  <2>1. CASE i # j
    BY <1>2, <2>1 DEF GoesOn, Claims, Asks, OthersKept, Stages
  <2>2. CASE i = j
    BY <1>2, <2>2 DEF GoesOn, Claims, Asks, LiveTurn, Live, Stages
  <2> QED BY <2>1, <2>2
<1>3. CASE Installs
  BY <1>3 DEF Installs, Stages
<1> QED BY <1>1, <1>2, <1>3 DEF Moves

\* A job in flight after a step was in flight before, but for one that claimed
\* the conversation.
LEMMA FlightBefore ==
    ASSUME TypeOK, Stages, NEW j \in Jobs, GoesOn(j) \/ Claims(j) \/ Asks(j),
           NEW i \in InFlight'
    PROVE  /\ i \in Jobs
           /\ i # j => i \in InFlight
           /\ i = j => (GoesOn(j) /\ j \in InFlight) \/ Claims(j)
<1>1. i \in Jobs
  BY DEF InFlight
<1>2. i # j => i \in InFlight
  BY DEF GoesOn, Claims, Asks, OthersKept, InFlight, LiveTurn, Live
<1>3. i = j => (GoesOn(j) /\ j \in InFlight) \/ Claims(j)
  BY DEF GoesOn, Asks, InFlight, LiveTurn, Live
<1> QED BY <1>1, <1>2, <1>3

LEMMA MovesKeepSession ==
    ASSUME TypeOK, Stages, JobsBelongToSession, Moves PROVE JobsBelongToSession'
<1>1. CASE Rests
  BY <1>1 DEF Rests, JobsBelongToSession, InFlight, LiveTurn, Live
<1>2. ASSUME NEW j \in Jobs, GoesOn(j) \/ Claims(j) \/ Asks(j) PROVE JobsBelongToSession'
  <2> SUFFICES ASSUME NEW i \in InFlight'
               PROVE  jobs'[i].conv = session' /\ jobs'[i].store \in {0, session'}
    BY DEF JobsBelongToSession
  <2>1. session' = session
    BY <1>2 DEF GoesOn, Claims, Asks
  <2>2. CASE i # j
    BY <1>2, <2>1, <2>2, FlightBefore DEF GoesOn, Claims, Asks, OthersKept, JobsBelongToSession
  <2>3. CASE i = j /\ Claims(j)
    BY <2>1, <2>3 DEF Claims
  <2>4. CASE i = j /\ GoesOn(j) /\ j \in InFlight
    BY <2>1, <2>4 DEF GoesOn, JobsBelongToSession
  <2> QED BY <1>2, <2>2, <2>3, <2>4, FlightBefore
<1>3. CASE Installs
  BY <1>3 DEF Installs, JobsBelongToSession, InFlight, LiveTurn, Live
<1> QED BY <1>1, <1>2, <1>3 DEF Moves

LEMMA MovesKeepNewest ==
    ASSUME TypeOK, Stages, OnlyNewestRuns, Moves PROVE OnlyNewestRuns'
<1>1. CASE Rests
  BY <1>1 DEF Rests, OnlyNewestRuns, InFlight, LiveTurn, Live
<1>2. ASSUME NEW j \in Jobs, GoesOn(j) \/ Claims(j) \/ Asks(j) PROVE OnlyNewestRuns'
  <2> SUFFICES ASSUME NEW i \in InFlight' PROVE i = stop' \/ i \in cancelled'
    BY DEF OnlyNewestRuns
  <2>1. CASE i = j /\ Claims(j)
    BY <2>1 DEF Claims, BeginTurn
  <2>2. CASE i \in InFlight
    <3>1. i \in Jobs /\ i # 0
      BY <2>2, BoundAssumption DEF InFlight, Jobs
    <3> QED BY <1>2, <2>2, <3>1 DEF OnlyNewestRuns, GoesOn, Claims, Asks, BeginTurn
  <2> QED BY <1>2, <2>1, <2>2, FlightBefore
<1>3. CASE Installs
  BY <1>3 DEF Installs, OnlyNewestRuns, InFlight, LiveTurn, Live
<1> QED BY <1>1, <1>2, <1>3 DEF Moves

LEMMA MovesKeepAlone ==
    ASSUME TypeOK, Stages, CompactsAlone, Moves PROVE CompactsAlone'
<1>1. CASE Rests
  BY <1>1 DEF Rests, CompactsAlone, LiveTurn, Live
<1>2. ASSUME NEW j \in Jobs, GoesOn(j) \/ Claims(j) \/ Asks(j) PROVE CompactsAlone'
  <2> SUFFICES ASSUME NEW t \in Jobs, NEW c \in Jobs,
                      LiveTurn(t)', Live(c)', jobs'[c].kind = "compact"
               PROVE  jobs'[c].stage = "starting"
    BY DEF CompactsAlone
  <2>0. t # c
    BY DEF LiveTurn
  <2>1. CASE GoesOn(j)
    <3>1. LiveTurn(t) /\ Live(c) /\ jobs[c].kind = "compact" /\ jobs'[c] = jobs[c]
      BY <2>1 DEF GoesOn, OthersKept, LiveTurn, Live, Stages
    <3> QED BY <3>1 DEF CompactsAlone
  <2>2. CASE Claims(j)
    <3>1. CASE t = j
      <4>1. ~Compacting /\ jobs'[c] = jobs[c]
        BY <2>0, <2>2, <3>1 DEF Claims, OthersKept, LiveTurn
      <4> QED BY <4>1 DEF Compacting, Live, Stages
    <3>2. CASE t # j
      <4>1. LiveTurn(t)
        BY <2>2, <3>2 DEF Claims, OthersKept, LiveTurn, Live
      <4>2. jobs'[j].kind = "turn"
        BY <2>2, <4>1 DEF Claims
      <4>3. jobs'[c] = jobs[c]
        BY <2>2, <4>2 DEF Claims, OthersKept
      <4> QED BY <4>1, <4>3 DEF CompactsAlone, Live
    <3> QED BY <3>1, <3>2
  <2>3. CASE Asks(j)
    <3>1. CASE c = j
      BY <2>3, <3>1 DEF Asks
    <3>2. CASE c # j
      <4>1. t # j
        BY <2>3 DEF Asks, LiveTurn
      <4> QED BY <2>3, <3>2, <4>1 DEF Asks, OthersKept, CompactsAlone, LiveTurn, Live
    <3> QED BY <3>1, <3>2
  <2> QED BY <1>2, <2>1, <2>2, <2>3
<1>3. CASE Installs
  BY <1>3 DEF Installs, CompactsAlone, LiveTurn, Live
<1> QED BY <1>1, <1>2, <1>3 DEF Moves

-----------------------------------------------------------------------------
LEMMA StepKeepsIInv == IInv /\ [Next]_vars => IInv'
  BY StepMoves, StepKeepsTypes, MovesKeepStages, MovesKeepSession, MovesKeepNewest,
     MovesKeepAlone DEF IInv

LEMMA Inductive == Spec => []IInv
<1>1. Init => IInv
  BY InitHolds
<1>2. IInv /\ [Next]_vars => IInv'
  BY StepKeepsIInv
<1> QED BY <1>1, <1>2, PTL DEF Spec

\* The types of the App's and the TUI's control state.
THEOREM AppTypeCorrect == Spec => []TypeOK
<1>1. IInv => TypeOK
  BY DEF IInv
<1> QED BY <1>1, Inductive, PTL

\* NewSession waits for every goroutine that could write to the session it
\* replaces: no job in flight has another session's conversation or store.
THEOREM NoJobOutlivesItsSession == Spec => []JobsBelongToSession
<1>1. IInv => JobsBelongToSession
  BY DEF IInv
<1> QED BY <1>1, Inductive, PTL

\* A /compact that works on the conversation never meets a live turn, since each
\* of beginManualCompact and Submit looks for the other.
THEOREM CompactionMeetsNoTurn == Spec => []CompactsAlone
<1>1. IInv => CompactsAlone
  BY DEF IInv
<1> QED BY <1>1, Inductive, PTL

\* Every job in flight but the newest is cancelled already, so that the one
\* CancelTurn of NewSession reaches all that it waits for.
THEOREM OneCancelReachesAll == Spec => []OnlyNewestRuns
<1>1. IInv => OnlyNewestRuns
  BY DEF IInv
<1> QED BY <1>1, Inductive, PTL
=============================================================================
